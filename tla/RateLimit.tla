------------------------------ MODULE RateLimit ------------------------------
(***************************************************************************)
(* The in-memory rate limiter: a token bucket per client, refilled by the  *)
(* whole intervals that passed, and forgotten when it was idle for long.   *)
(* take() runs under the limiter's mutex, so it is one step; it reads the  *)
(* clock twice, and the clock may move in between.                         *)
(*                                                                         *)
(* Left out: how a request is mapped to a client (a client is a key), and  *)
(* the limits that switch the limiter off.                                 *)
(***************************************************************************)
EXTENDS Integers

CONSTANTS
  Keys,        \* the clients
  Max,         \* the burst: tokens of a full bucket
  Interval,    \* ticks for one token (one second / rps)
  EvictAfter,  \* evictAfter
  EvictEvery,  \* evictEvery
  Slip,        \* how far the clock moves between the two readings of a take
  MaxTime      \* bound on the clock

ASSUME LimiterAssumption ==
  /\ Max \in Nat \ {0} /\ Interval \in Nat \ {0}
  /\ EvictAfter \in Nat /\ EvictEvery \in Nat
  /\ Slip \in Nat /\ MaxTime \in Nat

\* A bucket that is forgotten would be full again: the limit is not so slow
\* that a burst takes longer than evictAfter to come back.
ASSUME EvictionAssumption == Max * Interval <= EvictAfter + 1

VARIABLES
  now,
  buckets,    \* the map of buckets
  lastSweep,
  from,       \* history: when an observer of this client began to count
  served,     \* history: the requests let through since
  admitted,   \* history: when this client was last let through
  refused     \* history: when this client was last refused

vars == <<now, buckets, lastSweep, from, served, admitted, refused>>

Never    == -1
NoBucket == [tokens |-> -1, last |-> Never]
Bucket   == [tokens : 0..Max, last : Nat]

TypeOK ==
  /\ now \in Nat
  /\ buckets \in [Keys -> {NoBucket} \cup Bucket]
  /\ lastSweep \in Int
  /\ from \in [Keys -> Nat] /\ served \in [Keys -> Nat]
  /\ admitted \in [Keys -> Nat \cup {Never}]
  /\ refused \in [Keys -> Nat \cup {Never}]

\* lastSweep is the zero time, so the first take sweeps.
Init ==
  /\ now = 0
  /\ buckets = [k \in Keys |-> NoBucket]
  /\ lastSweep = -(EvictEvery + 1)
  /\ from = [k \in Keys |-> 0] /\ served = [k \in Keys |-> 0]
  /\ admitted = [k \in Keys |-> Never] /\ refused = [k \in Keys |-> Never]

\* The lazy sweep: on a take, at most once per evictEvery.
SweptTooSoon(k) ==  \* mutant: a bucket idle since the last sweep is forgotten
  IF now - lastSweep > EvictEvery /\ now - buckets[k].last > EvictEvery
  THEN NoBucket ELSE buckets[k]

Swept(k) ==
  IF now - lastSweep > EvictEvery /\ now - buckets[k].last > EvictAfter
  THEN NoBucket ELSE buckets[k]

\* The bucket of a client that has none is full.
Found(k) == IF Swept(k) = NoBucket THEN [tokens |-> Max, last |-> now] ELSE Swept(k)

\* Whole intervals become tokens; the rest of the time stays in "last".
RefilledFromNow(b, t) ==  \* mutant: every call restarts the interval
  LET n == (t - b.last) \div Interval
      sum == b.tokens + n IN
  [tokens |-> IF sum > Max THEN Max ELSE sum, last |-> t]

Refilled(b, t) ==
  LET n == (t - b.last) \div Interval
      sum == b.tokens + n IN
  [tokens |-> IF sum > Max THEN Max ELSE sum, last |-> b.last + n * Interval]

HasTokenOrNone(b) == b.tokens >= 0  \* mutant: off by one
HasToken(b) == b.tokens > 0

\* take(): the outer reading of the clock is now, the bucket's is t.
Take(k, t) ==
  LET b == Refilled(Found(k), t) IN
  /\ buckets' = [j \in Keys |->
       IF j = k THEN IF HasToken(b) THEN [b EXCEPT !.tokens = @ - 1] ELSE b
       ELSE Swept(j)]
  /\ lastSweep' = IF now - lastSweep > EvictEvery THEN now ELSE lastSweep
  /\ now' = t
  /\ IF HasToken(b)
     THEN /\ served' = [served EXCEPT ![k] = @ + 1]
          /\ admitted' = [admitted EXCEPT ![k] = t]
          /\ UNCHANGED refused
     ELSE refused' = [refused EXCEPT ![k] = t] /\ UNCHANGED <<served, admitted>>
  /\ UNCHANGED from

Tick ==
  /\ now < MaxTime /\ now' = now + 1
  /\ UNCHANGED <<buckets, lastSweep, from, served, admitted, refused>>

\* An observer may begin to count at any time.
Observe(k) ==
  /\ from' = [from EXCEPT ![k] = now] /\ served' = [served EXCEPT ![k] = 0]
  /\ UNCHANGED <<now, buckets, lastSweep, admitted, refused>>

Next ==
  \/ \E k \in Keys, d \in 0..Slip : now + d <= MaxTime /\ Take(k, now + d)
  \/ \E k \in Keys : Observe(k)
  \/ Tick

Spec == Init /\ [][Next]_vars

(***************************************************************************)
(* Properties                                                              *)
(***************************************************************************)
\* In whatever period one looks, no client is let through more often than a
\* burst and one token per interval allow, but for the part of an interval the
\* bucket had saved (middleware/ratelimit.go:12).  Neither the carried rest nor
\* forgetting the bucket gives a client more.
Bounded ==
  \A k \in Keys :
    served[k] * Interval <= Max * Interval + (Interval - 1) + (now - from[k])

\* Who is refused was let through less than an interval before: a client that
\* waits that long is served, however often it has asked meanwhile
\* (middleware/ratelimit.go:136).
RefusedOnlyWhenSpent ==
  \A k \in Keys : refused[k] # Never =>
    admitted[k] # Never /\ refused[k] < admitted[k] + Interval

\* Why: what a bucket would hold at time t, in ticks, is no more than what the
\* observer has still to expect.
Worth(b, t) == LET a == Refilled(b, t) IN a.tokens * Interval + (t - a.last)
Credit(k) == IF buckets[k] = NoBucket THEN Max * Interval ELSE Worth(buckets[k], now)

ClientInv(k) ==
  /\ from[k] <= now /\ admitted[k] <= now
  /\ buckets[k] # NoBucket => buckets[k].last <= now
  /\ served[k] * Interval + Credit(k) <=
       Max * Interval + (Interval - 1) + (now - from[k])
  /\ buckets[k] # NoBucket /\ buckets[k].tokens < Max =>
       admitted[k] # Never /\ admitted[k] >= buckets[k].last

LimiterInv == TypeOK /\ (\A k \in Keys : ClientInv(k)) /\ RefusedOnlyWhenSpent
=============================================================================
