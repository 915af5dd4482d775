--------------------------- MODULE RateLimitProofs ---------------------------
(***************************************************************************)
(* The rate limiter keeps its limit, for every burst, rate and number of   *)
(* clients.                                                                *)
(***************************************************************************)
EXTENDS RateLimit, TLAPS

\* Go's integer division of durations, which are not negative.
LEMMA Division ==
  ASSUME NEW d \in Nat, NEW i \in Nat \ {0}
  PROVE  /\ d \div i \in Nat
         /\ (d \div i) * i <= d
         /\ d < (d \div i) * i + i
  BY SMTT(30)

\* A refill turns elapsed time into tokens and gains nothing: what the bucket
\* holds and the rest of the interval come to at most what it held and the time
\* that passed, and never to more than a full bucket and a started interval.
LEMMA RefillFacts ==
  ASSUME NEW b \in Bucket, NEW t \in Nat, b.last <= t
  PROVE  LET a == Refilled(b, t) IN
         /\ a \in Bucket
         /\ a.last <= t /\ t - a.last < Interval
         /\ b.last <= a.last
         /\ a.tokens * Interval - a.last <= b.tokens * Interval - b.last
         /\ a.tokens < Max => a.tokens * Interval - a.last = b.tokens * Interval - b.last
         /\ a.tokens < Max => a.tokens >= b.tokens
         /\ a.tokens = b.tokens + ((t - b.last) \div Interval) \/ a.tokens = Max
         /\ a.tokens = b.tokens /\ a.tokens < Max => a.last = b.last
<1> DEFINE n == (t - b.last) \div Interval
           a == Refilled(b, t)
<1>1. /\ b.tokens \in Nat /\ b.tokens <= Max /\ b.last \in Nat
      /\ Max \in Nat \ {0} /\ Interval \in Nat \ {0}
  BY LimiterAssumption DEF Bucket
<1>2. /\ n \in Nat /\ n * Interval <= t - b.last
      /\ t - b.last < n * Interval + Interval
  <2>1. t - b.last \in Nat
    BY <1>1
  <2> QED BY <2>1, <1>1, Division
<1>3. /\ a.tokens = IF b.tokens + n > Max THEN Max ELSE b.tokens + n
      /\ a.last = b.last + n * Interval
      /\ a = [tokens |-> a.tokens, last |-> a.last]
  BY DEF Refilled
<1> HIDE DEF n, a
<1>4. n * Interval \in Nat
  BY <1>1, <1>2
<1>5. a.tokens * Interval <= b.tokens * Interval + n * Interval
  <2>1. a.tokens \in Nat /\ a.tokens <= b.tokens + n
    BY <1>1, <1>2, <1>3
  <2>2. a.tokens * Interval <= (b.tokens + n) * Interval
    BY <2>1, <1>1, <1>2
  <2> QED BY <2>2, <1>1, <1>2
<1>6. a.tokens < Max => a.tokens * Interval = b.tokens * Interval + n * Interval
  <2>1. a.tokens < Max => a.tokens = b.tokens + n
    BY <1>1, <1>2, <1>3
  <2> QED BY <2>1, <1>1, <1>2
<1>7. a \in Bucket
  BY <1>1, <1>2, <1>3, <1>4 DEF Bucket
<1>8. a.tokens * Interval \in Nat /\ b.tokens * Interval \in Nat
  BY <1>1, <1>7 DEF Bucket
<1>9. a.tokens = b.tokens /\ a.tokens < Max => n * Interval = 0
  BY <1>6, <1>8, <1>4
<1> QED
  BY <1>1, <1>2, <1>3, <1>4, <1>5, <1>6, <1>7, <1>8, <1>9 DEF a, n

\* What a bucket is worth grows no faster than the time, and is never more than
\* a burst and a started interval.
LEMMA WorthFacts ==
  ASSUME NEW b \in Bucket, NEW t \in Nat, NEW u \in Nat, b.last <= t, t <= u
  PROVE  /\ Worth(b, t) \in Nat
         /\ Worth(b, t) <= Max * Interval + (Interval - 1)
         /\ Worth(b, u) <= Worth(b, t) + (u - t)
         /\ Max * Interval <= t - b.last => Max * Interval <= Worth(b, t)
<1> DEFINE a == Refilled(b, t)
           c == Refilled(b, u)
           n == (t - b.last) \div Interval
           m == (u - b.last) \div Interval
<1>1. /\ Max \in Nat \ {0} /\ Interval \in Nat \ {0}
      /\ b.tokens \in Nat /\ b.tokens <= Max /\ b.last \in Nat
  BY LimiterAssumption DEF Bucket
<1>2. /\ n \in Nat /\ n * Interval <= t - b.last
      /\ t - b.last < n * Interval + Interval
  <2>1. t - b.last \in Nat
    BY <1>1
  <2> QED BY <2>1, <1>1, Division
<1>3. /\ m \in Nat /\ m * Interval <= u - b.last
      /\ u - b.last < m * Interval + Interval
  <2>1. u - b.last \in Nat
    BY <1>1
  <2> QED BY <2>1, <1>1, Division
<1>4. /\ a.tokens = IF b.tokens + n > Max THEN Max ELSE b.tokens + n
      /\ a.last = b.last + n * Interval
      /\ c.tokens = IF b.tokens + m > Max THEN Max ELSE b.tokens + m
      /\ c.last = b.last + m * Interval
      /\ Worth(b, t) = a.tokens * Interval + (t - a.last)
      /\ Worth(b, u) = c.tokens * Interval + (u - c.last)
  BY DEF Refilled, Worth
<1> HIDE DEF n, m, a, c
<1>5. n <= m
  <2>1. SUFFICES ASSUME m + 1 <= n PROVE FALSE
    BY <1>2, <1>3
  <2>2. (m + 1) * Interval <= n * Interval
    BY <2>1, <1>1, <1>2, <1>3
  <2> QED BY <2>2, <1>1, <1>2, <1>3
<1>6. /\ n * Interval \in Nat /\ m * Interval \in Nat /\ Max * Interval \in Nat
      /\ b.tokens * Interval \in Nat /\ n * Interval <= m * Interval
  BY <1>1, <1>2, <1>3, <1>5
<1>7. CASE b.tokens + n > Max
  <2>1. a.tokens = Max /\ c.tokens = Max
    BY <1>7, <1>1, <1>2, <1>3, <1>4, <1>5
  <2> QED BY <2>1, <1>1, <1>2, <1>3, <1>4, <1>6
<1>8. CASE ~(b.tokens + n > Max)
  <2>1. a.tokens = b.tokens + n /\ a.tokens <= Max /\ a.tokens \in Nat
    BY <1>8, <1>1, <1>2, <1>4
  <2>2. /\ a.tokens * Interval = b.tokens * Interval + n * Interval
        /\ a.tokens * Interval <= Max * Interval
    <3>1. a.tokens * Interval = b.tokens * Interval + n * Interval
      BY <2>1, <1>1, <1>2
    <3>2. ASSUME NEW x \in Nat, x <= Max PROVE x * Interval <= Max * Interval
      BY <3>2, <1>1
    <3> QED BY <3>1, <3>2, <2>1
  <2>3. c.tokens \in Nat /\ c.tokens <= b.tokens + m
    BY <1>1, <1>3, <1>4
  <2>4. c.tokens * Interval <= b.tokens * Interval + m * Interval
    <3>1. c.tokens * Interval <= (b.tokens + m) * Interval
      BY <2>3, <1>1, <1>3
    <3> QED BY <3>1, <1>1, <1>3
  <2>5. c.tokens * Interval \in Nat
    BY <2>3, <1>1
  <2> QED BY <2>1, <2>2, <2>4, <2>5, <1>1, <1>2, <1>3, <1>4, <1>6
<1> QED BY <1>7, <1>8

\* A bucket less than an interval old is worth what it holds and its age.
LEMMA FreshWorth ==
  ASSUME NEW b \in Bucket, NEW t \in Nat, b.last <= t, t - b.last < Interval
  PROVE  Worth(b, t) = b.tokens * Interval + (t - b.last)
<1>1. /\ Interval \in Nat \ {0} /\ Max \in Nat \ {0} /\ b.last \in Nat
      /\ b.tokens \in Nat /\ b.tokens <= Max /\ t - b.last \in Nat
  BY LimiterAssumption DEF Bucket
<1> DEFINE n == (t - b.last) \div Interval
<1>2. n \in Nat /\ n * Interval <= t - b.last
  BY <1>1, Division
<1> HIDE DEF n
<1>3. n = 0
  <2>1. SUFFICES ASSUME n >= 1 PROVE FALSE
    BY <1>2
  <2>2. Interval <= n * Interval
    BY <2>1, <1>1, <1>2
  <2> QED BY <2>2, <1>1, <1>2
<1>4. Refilled(b, t).tokens = b.tokens /\ Refilled(b, t).last = b.last
  <2>1. /\ Refilled(b, t).tokens = IF b.tokens + n > Max THEN Max ELSE b.tokens + n
        /\ Refilled(b, t).last = b.last + n * Interval
    BY DEF Refilled, n
  <2> QED BY <2>1, <1>1, <1>3
<1> QED BY <1>1, <1>4 DEF Worth

\* What the sweep leaves of a bucket, or a new one in its place, is worth no
\* more than what was there: a bucket is forgotten when it would be full.
LEMMA SweptFacts ==
  ASSUME TypeOK, NEW k \in Keys, NEW t \in Nat, now <= t,
         buckets[k] # NoBucket => buckets[k].last <= now
  PROVE  /\ Swept(k) \in {NoBucket, buckets[k]}
         /\ Swept(k) = NoBucket => Max * Interval <= Credit(k)
         /\ Found(k) \in Bucket /\ Found(k).last <= now
         /\ Worth(Found(k), t) <= Credit(k) + (t - now)
<1>1. /\ now \in Nat /\ buckets[k] \in {NoBucket} \cup Bucket
      /\ Max \in Nat \ {0} /\ Interval \in Nat \ {0} /\ EvictAfter \in Nat
  BY LimiterAssumption DEF TypeOK
<1>2. Swept(k) \in {NoBucket, buckets[k]}
  BY DEF Swept
<1>3. Max * Interval \in Nat
  BY <1>1
<1>4. Swept(k) = NoBucket => Max * Interval <= Credit(k)
  <2>1. CASE buckets[k] = NoBucket
    BY <2>1, <1>3 DEF Credit
  <2>2. CASE buckets[k] # NoBucket
    <3>1. SUFFICES ASSUME Swept(k) = NoBucket PROVE Max * Interval <= Credit(k)
      OBVIOUS
    <3>2. buckets[k] \in Bucket /\ buckets[k].last <= now /\ buckets[k].last \in Nat
      BY <2>2, <1>1 DEF Bucket
    <3>3. now - buckets[k].last > EvictAfter
      BY <2>2, <3>1 DEF Swept
    <3>4. Max * Interval <= now - buckets[k].last
      BY <3>2, <3>3, <1>1, <1>3, EvictionAssumption
    <3> QED BY <2>2, <3>2, <3>4, <1>1, WorthFacts DEF Credit
  <2> QED BY <2>1, <2>2
<1>5. CASE Swept(k) = NoBucket
  <2> DEFINE b == [tokens |-> Max, last |-> now]
  <2>1. Found(k) = b /\ b \in Bucket /\ b.last = now /\ b.tokens = Max
    BY <1>5, <1>1 DEF Found, Bucket
  <2>2. Worth(b, now) = Max * Interval
    <3>1. Worth(b, now) = b.tokens * Interval + (now - b.last)
      BY <2>1, <1>1, FreshWorth
    <3> QED BY <3>1, <2>1, <1>1, <1>3
  <2>3. Worth(b, t) <= Worth(b, now) + (t - now)
    BY <2>1, <1>1, WorthFacts
  <2>4. Worth(b, t) \in Nat
    BY <2>1, <1>1, WorthFacts
  <2>5. Credit(k) \in Nat
    BY <1>1, <1>3, WorthFacts DEF Credit
  <2> HIDE DEF b
  <2> QED BY <2>1, <2>2, <2>3, <2>4, <2>5, <1>1, <1>2, <1>3, <1>4, <1>5
<1>6. CASE Swept(k) # NoBucket
  <2>1. Swept(k) = buckets[k] /\ buckets[k] # NoBucket /\ buckets[k] \in Bucket
    BY <1>6, <1>1, <1>2
  <2>2. Found(k) = buckets[k] /\ Credit(k) = Worth(buckets[k], now)
    BY <2>1 DEF Found, Credit
  <2> QED BY <2>1, <2>2, <1>1, <1>2, WorthFacts
<1> QED BY <1>5, <1>6

\* A bucket never tells NoBucket.
LEMMA NoBucketIsNone == NoBucket \notin Bucket
BY LimiterAssumption DEF NoBucket, Bucket

\* What RefusedOnlyWhenSpent says of one client.
RefusedInv(k) == refused[k] # Never =>
  admitted[k] # Never /\ refused[k] < admitted[k] + Interval

\* The invariant, client by client.
LEMMA InvByClient ==
  LimiterInv <=> TypeOK /\ \A k \in Keys : ClientInv(k) /\ RefusedInv(k)
BY DEF LimiterInv, ClientInv, RefusedOnlyWhenSpent, RefusedInv

\* The same after a step.
LEMMA InvByClientNext ==
  LimiterInv' <=> TypeOK' /\ \A k \in Keys : ClientInv(k)' /\ RefusedInv(k)'
BY DEF LimiterInv, ClientInv, RefusedOnlyWhenSpent, RefusedInv

\* What a client has saved is at most a full bucket and part of an interval.
LEMMA CreditBounds ==
  ASSUME TypeOK, NEW k \in Keys, ClientInv(k)
  PROVE  Credit(k) \in Nat /\ Credit(k) <= Max * Interval + (Interval - 1)
<1>1. /\ now \in Nat /\ buckets[k] \in {NoBucket} \cup Bucket
      /\ Max * Interval \in Nat /\ Interval \in Nat \ {0}
  BY LimiterAssumption DEF TypeOK
<1> QED BY <1>1, WorthFacts DEF Credit, ClientInv

\* Initially nobody has a bucket.
LEMMA LimiterInit == Init => LimiterInv
<1> SUFFICES ASSUME Init PROVE LimiterInv
  OBVIOUS
<1>1. TypeOK
  BY LimiterAssumption DEF Init, TypeOK, Never
<1>2. ASSUME NEW k \in Keys PROVE ClientInv(k) /\ RefusedInv(k)
  <2>1. Max * Interval \in Nat /\ Interval \in Nat \ {0} /\ 0 * Interval = 0
    BY LimiterAssumption
  <2>2. Credit(k) = Max * Interval
    BY DEF Init, Credit
  <2> QED BY <2>1, <2>2 DEF Init, ClientInv, RefusedInv, Never
<1> QED BY <1>1, <1>2, InvByClient

\* Of a client whose bucket a step leaves alone, or sweeps: time only makes
\* room.
LEMMA OthersKept ==
  ASSUME LimiterInv, NEW k \in Keys, now' \in Nat, now <= now',
         buckets'[k] \in {buckets[k], Swept(k)},
         from'[k] = from[k], served'[k] = served[k],
         admitted'[k] = admitted[k], refused'[k] = refused[k]
  PROVE  ClientInv(k)' /\ RefusedInv(k)'
<1>1. TypeOK /\ ClientInv(k) /\ RefusedInv(k)
  BY InvByClient
<1>2. /\ now \in Nat /\ buckets[k] \in {NoBucket} \cup Bucket
      /\ from[k] \in Nat /\ served[k] \in Nat /\ admitted[k] \in Nat \cup {Never}
      /\ Max * Interval \in Nat /\ Interval \in Nat \ {0}
  BY <1>1, LimiterAssumption DEF TypeOK
<1>3. served[k] * Interval \in Nat /\ Credit(k) \in Nat
  BY <1>1, <1>2, CreditBounds
<1>4. /\ Swept(k) \in {NoBucket, buckets[k]}
      /\ Swept(k) = NoBucket => Max * Interval <= Credit(k)
  BY <1>1, <1>2, SweptFacts DEF ClientInv
<1>5. Credit(k)' \in Int /\ Credit(k)' <= Credit(k) + (now' - now)
  <2>1. CASE buckets'[k] = NoBucket
    <3>1. Credit(k)' = Max * Interval
      BY <2>1 DEF Credit
    <3>2. buckets[k] = NoBucket => Credit(k) = Max * Interval
      BY DEF Credit
    <3>3. Max * Interval <= Credit(k)
      BY <3>2, <1>4, <1>2, <2>1
    <3> QED BY <3>1, <3>3, <1>2, <1>3
  <2>2. CASE buckets'[k] # NoBucket
    <3>1. /\ buckets'[k] = buckets[k] /\ buckets[k] # NoBucket
          /\ buckets[k] \in Bucket /\ buckets[k].last <= now
      BY <2>2, <1>1, <1>2, <1>4 DEF ClientInv
    <3>2. buckets[k].last \in Nat
      BY <3>1 DEF Bucket
    <3>3. Credit(k) = Worth(buckets[k], now)
      BY <3>1 DEF Credit
    <3>4. Credit(k)' = Worth(buckets[k], now')
      BY <3>1 DEF Credit, Worth, Refilled
    <3>5. buckets[k].last <= now'
      BY <3>1, <3>2, <1>2
    <3> QED BY <3>1, <3>3, <3>4, <3>5, <1>2, WorthFacts
  <2> QED BY <2>1, <2>2
<1>6. ClientInv(k)'
  <2>1. buckets'[k] # NoBucket => buckets'[k] = buckets[k] /\ buckets[k] # NoBucket
    BY <1>4
  <2>2. from[k] <= now' /\ admitted[k] <= now'
    BY <1>1, <1>2 DEF ClientInv, Never
  <2>3. buckets'[k] # NoBucket => buckets'[k].last <= now'
    <3>1. buckets[k] \in Bucket => buckets[k].last \in Nat
      BY DEF Bucket
    <3> QED BY <2>1, <3>1, <1>1, <1>2 DEF ClientInv
  <2>4. served[k] * Interval + Credit(k)' <=
          Max * Interval + (Interval - 1) + (now' - from[k])
    BY <1>1, <1>2, <1>3, <1>5 DEF ClientInv
  <2>5. buckets'[k] # NoBucket /\ buckets'[k].tokens < Max =>
          admitted[k] # Never /\ admitted[k] >= buckets'[k].last
    BY <2>1, <1>1 DEF ClientInv
  <2> QED BY <2>2, <2>3, <2>4, <2>5 DEF ClientInv
<1> QED BY <1>1, <1>6 DEF RefusedInv

\* The client that takes.
LEMMA TakerKept ==
  ASSUME LimiterInv, NEW k \in Keys, NEW t \in Nat, now <= t, Take(k, t)
  PROVE  ClientInv(k)' /\ RefusedInv(k)' /\ buckets'[k] \in Bucket
<1> DEFINE b == Found(k)
           a == Refilled(b, t)
           c == buckets'[k]
<1>1. TypeOK /\ ClientInv(k) /\ RefusedInv(k)
  BY InvByClient
<1>2. /\ now \in Nat /\ buckets[k] \in {NoBucket} \cup Bucket
      /\ from[k] \in Nat /\ served[k] \in Nat /\ admitted[k] \in Nat \cup {Never}
      /\ Max \in Nat \ {0} /\ Max * Interval \in Nat /\ Interval \in Nat \ {0}
  BY <1>1, LimiterAssumption DEF TypeOK
<1>3. served[k] * Interval \in Nat /\ Credit(k) \in Nat
  BY <1>1, <1>2, CreditBounds
<1>4. /\ b \in Bucket /\ b.last <= now /\ b.last \in Nat /\ b.last <= t
      /\ Worth(b, t) <= Credit(k) + (t - now)
  <2>1. b \in Bucket /\ b.last <= now /\ Worth(b, t) <= Credit(k) + (t - now)
    BY <1>1, SweptFacts DEF ClientInv
  <2>2. b.last \in Nat
    BY <2>1 DEF Bucket
  <2> QED BY <2>1, <2>2, <1>2
<1>5. /\ a \in Bucket /\ a.last <= t /\ t - a.last < Interval
      /\ a.tokens = 0 => a.tokens >= b.tokens
      /\ a.tokens = b.tokens /\ a.tokens < Max => a.last = b.last
  BY <1>4, <1>2, RefillFacts
<1>6. /\ a.tokens \in Nat /\ a.tokens <= Max /\ a.last \in Nat /\ a.tokens * Interval \in Nat
      /\ a.tokens # 0 => (a.tokens - 1) * Interval = a.tokens * Interval - Interval
      /\ Worth(b, t) = a.tokens * Interval + (t - a.last)
      /\ a = [tokens |-> a.tokens, last |-> a.last]
  BY <1>2, <1>5 DEF Bucket, Worth, Refilled
<1>7. now' = t /\ from'[k] = from[k] /\ c = IF a.tokens > 0 THEN [a EXCEPT !.tokens = @ - 1] ELSE a
  BY DEF Take, HasToken
<1>8. c # NoBucket /\ c \in Bucket /\ c.last = a.last
      /\ c.tokens = IF a.tokens > 0 THEN a.tokens - 1 ELSE a.tokens
  <2> HIDE DEF a, c
  <2>1. CASE a.tokens > 0
    <3>1. c = [tokens |-> a.tokens - 1, last |-> a.last]
      BY <2>1, <1>6, <1>7
    <3> QED BY <3>1, <2>1, <1>2, <1>6, NoBucketIsNone DEF Bucket
  <2>2. CASE ~(a.tokens > 0)
    BY <2>2, <1>5, <1>7, NoBucketIsNone
  <2> QED BY <2>1, <2>2
<1>9. Credit(k)' = c.tokens * Interval + (t - c.last)
  <2>1. Credit(k)' = Worth(c, t)
    BY <1>7, <1>8 DEF Credit, Worth, Refilled
  <2>2. c.last <= t /\ t - c.last < Interval
    BY <1>5, <1>8
  <2> HIDE DEF c
  <2> QED BY <2>1, <2>2, <1>8, FreshWorth
<1>10. CASE a.tokens > 0
  <2>1. served'[k] = served[k] + 1 /\ admitted'[k] = t /\ refused'[k] = refused[k]
    BY <1>10, <1>1 DEF Take, HasToken, TypeOK
  <2>2. (served[k] + 1) * Interval = served[k] * Interval + Interval
    BY <1>2
  <2>3. refused[k] \in Nat \cup {Never}
    BY <1>1 DEF TypeOK
  <2> HIDE DEF a, b, c
  <2>4. Credit(k)' = a.tokens * Interval - Interval + (t - a.last)
    BY <1>6, <1>8, <1>9, <1>10
  <2>5. served'[k] * Interval + Credit(k)' <=
          Max * Interval + (Interval - 1) + (t - from[k])
    <3>1. served'[k] * Interval = served[k] * Interval + Interval
      BY <2>1, <2>2
    <3>2. a.tokens * Interval + (t - a.last) <= Credit(k) + (t - now)
      BY <1>4, <1>6
    <3>3. served[k] * Interval + Credit(k) <=
            Max * Interval + (Interval - 1) + (now - from[k])
      BY <1>1 DEF ClientInv
    <3> DEFINE S == served[k] * Interval
               X == a.tokens * Interval + (t - a.last)
               M == Max * Interval
    <3>4. S \in Int /\ X \in Int /\ M \in Int
      BY <1>2, <1>3, <1>6
    <3>5. X <= Credit(k) + (t - now) /\ S + Credit(k) <= M + (Interval - 1) + (now - from[k])
      BY <3>2, <3>3
    <3> HIDE DEF S, X, M
    <3>6. (S + Interval) + (X - Interval) <= M + (Interval - 1) + (t - from[k])
      BY <3>4, <3>5, <1>2, <1>3
    <3> USE DEF S, X, M
    <3>7. Credit(k)' = (a.tokens * Interval + (t - a.last)) - Interval
      BY <2>4, <1>2, <1>6
    <3> QED BY <3>1, <3>6, <3>7
  <2>6. ClientInv(k)'
    BY <2>1, <2>5, <1>1, <1>2, <1>5, <1>6, <1>7, <1>8 DEF ClientInv, Never, c
  <2>7. RefusedInv(k)'
    BY <2>1, <2>3, <1>1, <1>2 DEF RefusedInv, ClientInv, Never
  <2> QED BY <2>6, <2>7, <1>8 DEF c
<1>11. CASE ~(a.tokens > 0)
  <2>1. served'[k] = served[k] /\ admitted'[k] = admitted[k] /\ refused'[k] = t
    BY <1>11, <1>1 DEF Take, HasToken, TypeOK
  <2>2. a.tokens = 0 /\ b.tokens = 0 /\ a.last = b.last
    BY <1>11, <1>2, <1>4, <1>5, <1>6 DEF Bucket
  <2>3. b = buckets[k] /\ buckets[k] # NoBucket
    <3>1. Swept(k) # NoBucket
      BY <2>2, <1>2 DEF Found
    <3>2. Swept(k) \in {NoBucket, buckets[k]}
      BY DEF Swept
    <3> QED BY <3>1, <3>2 DEF Found
  <2>4. admitted[k] # Never /\ admitted[k] >= b.last
    BY <2>2, <2>3, <1>1, <1>2 DEF ClientInv
  <2> HIDE DEF a, b, c
  <2>5. served'[k] * Interval + Credit(k)' <=
          Max * Interval + (Interval - 1) + (t - from[k])
    BY <2>1, <2>2, <1>1, <1>2, <1>3, <1>4, <1>6, <1>8, <1>9 DEF ClientInv
  <2>6. ClientInv(k)'
    BY <2>1, <2>2, <2>4, <2>5, <1>1, <1>2, <1>5, <1>6, <1>7, <1>8
    DEF ClientInv, Never, c
  <2>7. RefusedInv(k)'
    BY <2>1, <2>2, <2>4, <1>2, <1>5, <1>6 DEF RefusedInv
  <2> QED BY <2>6, <2>7, <1>8 DEF c
<1> QED BY <1>6, <1>10, <1>11

\* Every step keeps the invariant.
LEMMA LimiterStep == LimiterInv /\ [Next]_vars => LimiterInv'
<1> SUFFICES ASSUME LimiterInv, [Next]_vars PROVE LimiterInv'
  OBVIOUS
<1>1. TypeOK /\ \A k \in Keys : ClientInv(k) /\ RefusedInv(k)
  BY InvByClient
<1>2. ASSUME NEW k \in Keys, NEW d \in 0..Slip, Take(k, now + d) PROVE LimiterInv'
  <2>1. now \in Nat /\ now + d \in Nat /\ now <= now + d
    BY <1>1, LimiterAssumption DEF TypeOK
  <2>2. ClientInv(k)' /\ RefusedInv(k)' /\ buckets'[k] \in Bucket
    BY <1>2, <2>1, TakerKept
  <2>3. now' = now + d
    BY <1>2 DEF Take
  <2>4. ASSUME NEW j \in Keys, j # k
        PROVE ClientInv(j)' /\ RefusedInv(j)' /\ buckets'[j] \in {NoBucket} \cup Bucket
    <3>1. /\ buckets'[j] = Swept(j) /\ Swept(j) \in {NoBucket, buckets[j]}
          /\ from'[j] = from[j] /\ served'[j] = served[j]
          /\ admitted'[j] = admitted[j] /\ refused'[j] = refused[j]
      BY <1>1, <1>2, <2>4 DEF Take, TypeOK, Swept
    <3>2. ClientInv(j)' /\ RefusedInv(j)'
      BY <3>1, <2>1, <2>3, OthersKept
    <3> QED BY <3>1, <3>2, <1>1 DEF TypeOK
  <2>5. TypeOK'
    <3>1. /\ now' \in Nat /\ lastSweep' \in Int /\ from' \in [Keys -> Nat]
          /\ served' \in [Keys -> Nat]
          /\ admitted' \in [Keys -> Nat \cup {Never}]
          /\ refused' \in [Keys -> Nat \cup {Never}]
      BY <1>1, <1>2, <2>1 DEF Take, TypeOK
    <3>2. buckets' = [j \in Keys |-> buckets'[j]]
      BY <1>2 DEF Take
    <3>3. \A j \in Keys : buckets'[j] \in {NoBucket} \cup Bucket
      BY <2>2, <2>4
    <3>4. buckets' \in [Keys -> {NoBucket} \cup Bucket]
      BY <3>2, <3>3
    <3> QED BY <3>1, <3>4 DEF TypeOK
  <2> QED BY <2>2, <2>4, <2>5, InvByClientNext
<1>3. ASSUME NEW k \in Keys, Observe(k) PROVE LimiterInv'
  <2>1. TypeOK'
    BY <1>1, <1>3 DEF Observe, TypeOK
  <2>2. now' = now /\ now \in Nat
    BY <1>1, <1>3 DEF Observe, TypeOK
  <2>3. ASSUME NEW j \in Keys, j # k PROVE ClientInv(j)' /\ RefusedInv(j)'
    <3>1. /\ buckets'[j] = buckets[j] /\ from'[j] = from[j] /\ served'[j] = served[j]
          /\ admitted'[j] = admitted[j] /\ refused'[j] = refused[j]
      BY <1>1, <1>3, <2>3 DEF Observe, TypeOK
    <3> QED BY <3>1, <2>2, OthersKept
  <2>4. ClientInv(k)' /\ RefusedInv(k)'
    <3>1. /\ buckets'[k] = buckets[k] /\ from'[k] = now /\ served'[k] = 0
          /\ admitted'[k] = admitted[k] /\ refused'[k] = refused[k]
      BY <1>1, <1>3 DEF Observe, TypeOK
    <3>2. Credit(k)' = Credit(k)
      BY <3>1, <2>2 DEF Credit, Worth, Refilled
    <3>3. /\ Credit(k) \in Nat /\ Credit(k) <= Max * Interval + (Interval - 1)
          /\ 0 * Interval = 0 /\ Max * Interval \in Nat /\ Interval \in Nat
      BY <1>1, CreditBounds, LimiterAssumption
    <3> QED BY <3>1, <3>2, <3>3, <2>2, <1>1 DEF ClientInv, RefusedInv
  <2> QED BY <2>1, <2>3, <2>4, InvByClientNext
<1>4. ASSUME Tick \/ UNCHANGED vars PROVE LimiterInv'
  <2>1. TypeOK'
    BY <1>1, <1>4 DEF Tick, TypeOK, vars
  <2>2. ASSUME NEW j \in Keys PROVE ClientInv(j)' /\ RefusedInv(j)'
    <3>1. /\ buckets'[j] = buckets[j] /\ from'[j] = from[j] /\ served'[j] = served[j]
          /\ admitted'[j] = admitted[j] /\ refused'[j] = refused[j]
          /\ now' \in Nat /\ now <= now'
      BY <1>1, <1>4 DEF Tick, TypeOK, vars
    <3> QED BY <3>1, OthersKept
  <2> QED BY <2>1, <2>2, InvByClientNext
<1> QED BY <1>2, <1>3, <1>4 DEF Next

\* Every bucket stays in step with what an observer of its client has counted and
\* what the client was last told.
THEOREM LimiterInvariant == Spec => []LimiterInv
BY LimiterInit, LimiterStep, PTL DEF Spec

\* The limit holds whatever the burst, the rate and the number of clients, if
\* only a burst is earned again within evictAfter.
THEOREM LimiterBounded == Spec => []Bounded
<1>1. LimiterInv => Bounded
  <2> SUFFICES ASSUME LimiterInv, NEW k \in Keys
               PROVE served[k] * Interval <= Max * Interval + (Interval - 1) + (now - from[k])
    BY DEF Bounded
  <2>1. TypeOK /\ ClientInv(k)
    BY InvByClient
  <2>2. Credit(k) \in Nat
    BY <2>1, CreditBounds
  <2>3. /\ served[k] * Interval \in Nat /\ Max * Interval \in Nat /\ Interval \in Nat
        /\ now \in Nat /\ from[k] \in Nat
    BY <2>1, LimiterAssumption DEF TypeOK
  <2> QED BY <2>1, <2>2, <2>3 DEF ClientInv
<1> QED BY <1>1, LimiterInit, LimiterStep, PTL DEF Spec

\* A refused client that waits one interval is served.
THEOREM LimiterRefusals == Spec => []RefusedOnlyWhenSpent
<1>1. LimiterInv => RefusedOnlyWhenSpent
  BY DEF LimiterInv
<1> QED BY <1>1, LimiterInit, LimiterStep, PTL DEF Spec

\* The state of the limiter has its types; a bucket never holds more than the
\* burst and never less than nothing.
THEOREM LimiterTypes == Spec => []TypeOK
<1>1. LimiterInv => TypeOK
  BY DEF LimiterInv
<1> QED BY <1>1, LimiterInit, LimiterStep, PTL DEF Spec
=============================================================================
