-------------------------- MODULE RateLimiterProofs --------------------------
(***************************************************************************)
(* The limiter for every number of gateways, tenants and goroutines, every *)
(* rate, burst and window, every skew and every delay within their bounds. *)
(*                                                                         *)
(* The buckets: the credit of a bucket is what is left of a full bucket    *)
(* and of what flowed into it since any earlier time, less what it let     *)
(* pass since then (Frugal), and for some earlier time it is all of it     *)
(* (Generous). The window: a stamp that Redis admitted is in the sorted    *)
(* set, or so old that no script still to run can count it (Kept); a stamp *)
(* in the sorted set has a request to answer for it (Owned).               *)
(***************************************************************************)
EXTENDS RateLimiter, FiniteSetTheorems, TLAPS

\* What n requests cost.
Cost(n) == Period * n

\* Of a bucket with credit c at time n that let P[m] requests pass before each time m:
\* nothing has passed since n;
Flat(P, n) == \A m \in (n + 1)..(MaxTime + 1) : P[m] = P[n + 1]

\* it holds at most what is left of a full bucket and its refill, since any time;
Frugal(P, n, c) ==
  \A a \in 0..n : Cost(P[n + 1] - P[a]) + c <= Full + (n - a)

\* it holds all that is left since it was last full;
Generous(P, n, c) ==
  \E a \in 0..n : Cost(P[n + 1] - P[a]) + c >= Full + (n - a)

\* it kept to its quota in every interval.
Quota(P) ==
  \A a \in Time : \A b \in a..MaxTime : Cost(P[b + 1] - P[a]) <= Full + (b - a)

BucketInv ==
  \A g \in Gateway, t \in Tenant :
    /\ Flat(passed[g][t], now)
    /\ Frugal(passed[g][t], now, bucket[g][t])
    /\ Generous(passed[g][t], now, bucket[g][t])
    /\ Quota(passed[g][t])

\* A script that is still to run was sent lately, with the stamp of its gateway's clock.
InTime ==
  \A p \in Proc : pc[p] = "redis" =>
    /\ req[p].tenant \in Tenant
    /\ req[p].sent <= now /\ now <= req[p].sent + MaxDelay
    /\ req[p].sent <= req[p].stamp /\ req[p].stamp <= req[p].sent + MaxSkew

\* An admitted stamp is not of the future of any clock; it is in the sorted set or old;
\* and the key does not expire before it is old.
Kept ==
  \A t \in Tenant : \A x \in Stamp : admitted[t][x] > 0 =>
    /\ x <= now + MaxSkew
    /\ x \in zset[t] \/ x + Window <= now + MaxSkew
    /\ x + Window <= expiry[t] + MaxSkew

\* The sorted set holds stamps of requests that were admitted or whose answer was lost.
Owned ==
  \A t \in Tenant : \A x \in zset[t] : admitted[t][x] > 0 \/ x \in lost[t]

WindowInv == InTime /\ Kept /\ Owned /\ SharedQuota

Inv == LimiterTypeOK /\ BucketInv /\ WindowInv

----------------------------------------------------------------------------
\* Arithmetic of the limits

\* The burst that New settles on is positive.
LEMMA BurstIsPositive == Burst \in Nat \ {0}
  <1>1. CASE CfgBurst > 0
    BY <1>1, TimeAssumption DEF Burst
  <1>2. CASE ~(CfgBurst > 0) /\ Period \in 1..2000
    <2>1. 2000 \div Period \in Int /\ 2000 \div Period >= 1
      BY <1>2
    <2>2. QED
      BY <1>2, <2>1 DEF Burst
  <1>3. CASE ~(CfgBurst > 0) /\ ~(Period \in 1..2000)
    BY <1>3 DEF Burst
  <1>4. QED
    BY <1>1, <1>2, <1>3

\* A full bucket holds a token.
LEMMA FullHoldsAToken == Full \in Nat /\ Period \in Nat /\ Period <= Full
  <1>1. \A b \in Nat \ {0}, p \in Nat : b * p \in Nat /\ p <= b * p
    OBVIOUS
  <1>2. QED
    BY <1>1, BurstIsPositive, TimeAssumption DEF Full

----------------------------------------------------------------------------
\* Type correctness

\* A table of tables in which one entry changes.
LEMMA EntryUpdate ==
  ASSUME NEW A, NEW B, NEW C, NEW f \in [A -> [B -> C]], NEW a \in A, NEW b \in B, NEW v \in C
  PROVE  [f EXCEPT ![a][b] = v] \in [A -> [B -> C]]
  OBVIOUS

\* The variables of a limiter that starts are in their domains.
LEMMA TypeInit == Init => LimiterTypeOK
  BY FullHoldsAToken, TimeAssumption
  DEF Init, LimiterTypeOK, Time, Stamp, NoRequest, Request

\* Every step keeps them there.
LEMMA TypeStep == LimiterTypeOK /\ InTime /\ [Next]_vars => LimiterTypeOK'
  <1> SUFFICES ASSUME LimiterTypeOK, InTime, [Next]_vars PROVE LimiterTypeOK'
    OBVIOUS
  <1> USE TimeAssumption, GatewayAssumption, FullHoldsAToken DEF LimiterTypeOK, Time, Stamp
  <1>1. CASE Tick
    <2>1. \A credit \in 0..Full : Refill(credit) \in 0..Full
      BY DEF Refill
    <2>2. \A g \in Gateway, t \in Tenant : bucket[g][t] \in 0..Full
      OBVIOUS
    <2>3. bucket' \in [Gateway -> [Tenant -> 0..Full]]
      BY <1>1, <2>1, <2>2 DEF Tick
    <2>4. now' \in Time
      BY <1>1 DEF Tick
    <2>5. QED
      BY <1>1, <2>3, <2>4 DEF Tick
  <1>2. ASSUME NEW p \in Proc, NEW g \in Gateway, NEW t \in Tenant, AllowLocal(p, g, t)
        PROVE  LimiterTypeOK'
    <2>1. bucket' \in [Gateway -> [Tenant -> 0..Full]]
      <3>0. bucket \in [Gateway -> [Tenant -> 0..Full]]
        OBVIOUS
      <3>1. bucket[g][t] - Period \in 0..Full
        BY <1>2, SMTT(30) DEF AllowLocal, HasToken
      <3>2. bucket' = [bucket EXCEPT ![g][t] = bucket[g][t] - Period]
        BY <1>2 DEF AllowLocal
      <3>3. [bucket EXCEPT ![g][t] = bucket[g][t] - Period] \in [Gateway -> [Tenant -> 0..Full]]
        BY ONLY <3>1, <3>0, EntryUpdate
      <3>4. QED
        BY <3>2, <3>3
    <2>2. passed' \in [Gateway -> [Tenant -> [0..(MaxTime + 1) -> Nat]]]
      <3>1. [m \in 0..(MaxTime + 1) |-> passed[g][t][m] + (IF now < m THEN 1 ELSE 0)]
              \in [0..(MaxTime + 1) -> Nat]
        <4>1. \A m \in 0..(MaxTime + 1) : passed[g][t][m] \in Nat
          <5>1. passed[g][t] \in [0..(MaxTime + 1) -> Nat]
            OBVIOUS
          <5>2. QED
            BY ONLY <5>1
        <4>2. \A m \in 0..(MaxTime + 1) :
                passed[g][t][m] + (IF now < m THEN 1 ELSE 0) \in Nat
          <5> TAKE m \in 0..(MaxTime + 1)
          <5>1. passed[g][t][m] \in Nat
            BY <4>1
          <5>2. QED
            BY <5>1
        <4>3. QED
          BY <4>2, Zenon
      <3>2. passed' = [passed EXCEPT ![g][t] =
              [m \in 0..(MaxTime + 1) |-> passed[g][t][m] + (IF now < m THEN 1 ELSE 0)]]
        BY <1>2 DEF AllowLocal
      <3>3. QED
        BY <3>1, <3>2
    <2>3. pc' \in [Proc -> {"idle", "redis"}] /\ req' \in [Proc -> Request]
      <3>1. CASE g \in WithRedis
        <4>1. [tenant |-> t, stamp |-> now + Skew[g], sent |-> now] \in Request
          <5>1. now \in 0..MaxTime /\ Skew[g] \in 0..MaxSkew
            OBVIOUS
          <5>2. now + Skew[g] \in 0..(MaxTime + MaxSkew)
            BY <5>1, SMTT(30)
          <5>3. QED
            BY <5>1, <5>2 DEF Request
        <4>2. QED
          BY <1>2, <3>1, <4>1 DEF AllowLocal
      <3>2. CASE g \notin WithRedis
        BY <1>2, <3>2 DEF AllowLocal
      <3>3. QED
        BY <3>1, <3>2
    <2>4. QED
      BY <1>2, <2>1, <2>2, <2>3 DEF AllowLocal
  <1>3. ASSUME NEW p \in Proc, pc[p] = "redis", Returns(p)
        PROVE  pc' \in [Proc -> {"idle", "redis"}] /\ req' \in [Proc -> Request]
    <2>1. NoRequest \in Request
      BY DEF NoRequest, Request
    <2>2. QED
      BY <1>3, <2>1 DEF Returns
  <1>4. ASSUME NEW p \in Proc, pc[p] = "redis"
        PROVE  req[p].tenant \in Tenant /\ req[p].stamp \in Stamp
    BY <1>4 DEF InTime, Request
  <1>5. ASSUME NEW p \in Proc, pc[p] = "redis"
        PROVE  LET t == req[p].tenant  s == req[p].stamp
               IN  /\ Record(t, s) => /\ zset' \in [Tenant -> SUBSET Stamp]
                                      /\ expiry' \in [Tenant -> 0..(MaxTime + Window)]
                   /\ Refuse(t, s) => /\ zset' \in [Tenant -> SUBSET Stamp]
                                      /\ UNCHANGED expiry
    <2> DEFINE t == req[p].tenant  s == req[p].stamp
    <2>1. t \in Tenant /\ s \in Stamp
      BY <1>4, <1>5
    <2>2. Recent(t, s) \in SUBSET Stamp /\ now + Window \in 0..(MaxTime + Window)
      BY <2>1 DEF Recent
    <2> HIDE DEF t, s
    <2>3. Recent(t, s) \cup {s} \in SUBSET Stamp
      BY <2>1, <2>2
    <2>4. Record(t, s) => /\ zset' \in [Tenant -> SUBSET Stamp]
                          /\ expiry' \in [Tenant -> 0..(MaxTime + Window)]
      BY <2>2, <2>3 DEF Record
    <2>5. Refuse(t, s) => zset' \in [Tenant -> SUBSET Stamp] /\ UNCHANGED expiry
      BY <2>2 DEF Refuse
    <2>6. QED
      BY <2>4, <2>5 DEF t, s
  <1>6. ASSUME NEW p \in Proc, RedisAllows(p) PROVE LimiterTypeOK'
    <2>1. pc' \in [Proc -> {"idle", "redis"}] /\ req' \in [Proc -> Request]
      BY <1>3, <1>6 DEF RedisAllows
    <2>2. zset' \in [Tenant -> SUBSET Stamp] /\ expiry' \in [Tenant -> 0..(MaxTime + Window)]
      BY <1>5, <1>6 DEF RedisAllows
    <2>3. admitted' \in [Tenant -> [Stamp -> Nat]]
      <3>1. req[p].tenant \in Tenant /\ req[p].stamp \in Stamp
        BY <1>4, <1>6 DEF RedisAllows
      <3>2. admitted[req[p].tenant][req[p].stamp] + 1 \in Nat
        BY <3>1
      <3>3. admitted' = [admitted EXCEPT ![req[p].tenant][req[p].stamp]
                           = admitted[req[p].tenant][req[p].stamp] + 1]
        BY <1>6 DEF RedisAllows
      <3>4. QED
        BY <3>1, <3>2, <3>3, EntryUpdate
    <2>4. QED
      BY <1>6, <2>1, <2>2, <2>3 DEF RedisAllows
  <1>7. ASSUME NEW p \in Proc, RedisRefuses(p) PROVE LimiterTypeOK'
    <2>1. pc' \in [Proc -> {"idle", "redis"}] /\ req' \in [Proc -> Request]
      BY <1>3, <1>7 DEF RedisRefuses
    <2>2. zset' \in [Tenant -> SUBSET Stamp] /\ UNCHANGED expiry
      BY <1>5, <1>7 DEF RedisRefuses
    <2>3. QED
      BY <1>7, <2>1, <2>2 DEF RedisRefuses
  <1>8. ASSUME NEW p \in Proc, AllowsUnheard(p) PROVE LimiterTypeOK'
    <2>1. zset' \in [Tenant -> SUBSET Stamp] /\ expiry' \in [Tenant -> 0..(MaxTime + Window)]
      BY <1>5, <1>8 DEF AllowsUnheard
    <2>2. lost' \in [Tenant -> SUBSET Stamp]
      BY <1>4, <1>8 DEF AllowsUnheard
    <2>3. QED
      BY <1>8, <2>1, <2>2 DEF AllowsUnheard
  <1>9. ASSUME NEW p \in Proc, RefusesUnheard(p) PROVE LimiterTypeOK'
    <2>1. zset' \in [Tenant -> SUBSET Stamp] /\ UNCHANGED expiry
      BY <1>5, <1>9 DEF RefusesUnheard
    <2>2. QED
      BY <1>9, <2>1 DEF RefusesUnheard
  <1>10. ASSUME NEW p \in Proc, RedisFails(p) PROVE LimiterTypeOK'
    BY <1>3, <1>10 DEF RedisFails
  <1>11. CASE UNCHANGED vars
    BY <1>11 DEF vars
  <1>12. QED
    BY <1>1, <1>2, <1>6, <1>7, <1>8, <1>9, <1>10, <1>11 DEF Next, Allow, RefuseLocal

----------------------------------------------------------------------------
\* The buckets

\* Nothing costs nothing, and costs are integers.
LEMMA CostIsInt == Cost(0) = 0 /\ \A n \in Int : Cost(n) \in Int
  BY TimeAssumption DEF Cost

\* One more request costs one period.
LEMMA CostOfOneMore == \A n \in Int : Cost(n + 1) = Cost(n) + Period
  BY TimeAssumption DEF Cost

History == [0..(MaxTime + 1) -> Nat]

\* A bucket that has let nothing pass is full.
LEMMA NewBucket ==
  ASSUME NEW P \in History, \A m \in 0..(MaxTime + 1) : P[m] = 0
  PROVE  Flat(P, 0) /\ Frugal(P, 0, Full) /\ Generous(P, 0, Full) /\ Quota(P)
  <1> USE TimeAssumption, FullHoldsAToken DEF History
  <1>1. Flat(P, 0)
    BY DEF Flat
  <1>2. \A a \in Time : \A b \in a..MaxTime : Cost(P[b + 1] - P[a]) = 0
    <2> TAKE a \in Time
    <2> TAKE b \in a..MaxTime
    <2>1. P[b + 1] - P[a] = 0
      BY DEF Time
    <2>2. QED
      BY <2>1, CostIsInt
  <1>3. 0 \in Time /\ 0 \in 0..MaxTime
    BY DEF Time
  <1>4. Cost(P[0 + 1] - P[0]) = 0
    BY <1>2, <1>3
  <1>5. Frugal(P, 0, Full) /\ Generous(P, 0, Full)
    BY <1>4 DEF Frugal, Generous
  <1>6. Quota(P)
    BY <1>2 DEF Quota, Time
  <1>7. QED
    BY <1>1, <1>5, <1>6

\* One millisecond later the bucket holds one more, or is full.
LEMMA BucketTick ==
  ASSUME NEW P \in History, NEW n \in Time, n < MaxTime, NEW c \in 0..Full,
         Flat(P, n), Frugal(P, n, c), Generous(P, n, c)
  PROVE  /\ Flat(P, n + 1)
         /\ Frugal(P, n + 1, Refill(c))
         /\ Generous(P, n + 1, Refill(c))
  <1> USE TimeAssumption, FullHoldsAToken DEF History, Time
  <1>1. P[(n + 1) + 1] = P[n + 1]
    BY DEF Flat
  <1>2. Flat(P, n + 1)
    BY <1>1 DEF Flat
  <1>3. Frugal(P, n + 1, Refill(c))
    <2> SUFFICES ASSUME NEW a \in 0..(n + 1)
                 PROVE  Cost(P[n + 1] - P[a]) + Refill(c) <= Full + ((n + 1) - a)
      BY <1>1 DEF Frugal
    <2>1. CASE a = n + 1
      <3>1. P[n + 1] - P[a] = 0
        BY <2>1
      <3>2. Cost(P[n + 1] - P[a]) = 0
        BY <3>1, CostIsInt
      <3>3. QED
        BY <2>1, <3>2 DEF Refill
    <2>2. CASE a \in 0..n
      <3>1. Cost(P[n + 1] - P[a]) + c <= Full + (n - a)
        BY <2>2 DEF Frugal
      <3>2. Cost(P[n + 1] - P[a]) \in Int
        <4>1. P[n + 1] - P[a] \in Int
          BY <2>2
        <4>2. QED
          BY <4>1, CostIsInt
      <3>3. QED
        BY <3>1, <3>2, <2>2 DEF Refill
    <2>3. QED
      BY <2>1, <2>2
  <1>4. Generous(P, n + 1, Refill(c))
    <2>1. CASE c < Full
      <3>1. PICK a \in 0..n : Cost(P[n + 1] - P[a]) + c >= Full + (n - a)
        BY DEF Generous
      <3>2. Cost(P[n + 1] - P[a]) \in Int
        <4>1. P[n + 1] - P[a] \in Int
          BY <3>1
        <4>2. QED
          BY <4>1, CostIsInt
      <3>3. Cost(P[(n + 1) + 1] - P[a]) + Refill(c) >= Full + ((n + 1) - a)
        BY <1>1, <2>1, <3>1, <3>2 DEF Refill
      <3>4. QED
        BY <3>3 DEF Generous
    <2>2. CASE c = Full
      <3>1. P[(n + 1) + 1] - P[n + 1] = 0
        BY <1>1
      <3>2. Cost(P[(n + 1) + 1] - P[n + 1]) = 0
        BY <3>1, CostIsInt
      <3>3. Cost(P[(n + 1) + 1] - P[n + 1]) + Refill(c) >= Full + ((n + 1) - (n + 1))
        BY <2>2, <3>2 DEF Refill
      <3>4. n + 1 \in 0..(n + 1)
        OBVIOUS
      <3>5. QED
        BY <3>3, <3>4 DEF Generous
    <2>3. QED
      BY <2>1, <2>2
  <1>5. QED
    BY <1>2, <1>3, <1>4

\* A request that passes takes a token.
LEMMA BucketGrant ==
  ASSUME NEW P \in History, NEW Q \in History, NEW n \in Time, NEW c \in 0..Full,
         \A m \in 0..(MaxTime + 1) : Q[m] = P[m] + (IF n < m THEN 1 ELSE 0),
         Period <= c, Flat(P, n), Frugal(P, n, c), Generous(P, n, c), Quota(P)
  PROVE  /\ Flat(Q, n)
         /\ Frugal(Q, n, c - Period)
         /\ Generous(Q, n, c - Period)
         /\ Quota(Q)
  <1> USE TimeAssumption, FullHoldsAToken DEF History, Time
  <1>1. Flat(Q, n)
    BY DEF Flat
  <1>2. \A a \in 0..n : /\ Cost(P[n + 1] - P[a]) \in Int
                        /\ Cost(Q[n + 1] - Q[a]) = Cost(P[n + 1] - P[a]) + Period
    <2> TAKE a \in 0..n
    <2>1. Q[n + 1] = P[n + 1] + 1 /\ Q[a] = P[a]
      OBVIOUS
    <2>2. P[n + 1] \in Nat /\ P[a] \in Nat
      OBVIOUS
    <2>3. Q[n + 1] - Q[a] = (P[n + 1] - P[a]) + 1 /\ P[n + 1] - P[a] \in Int
      BY <2>1, <2>2, SMTT(30)
    <2>4. QED
      BY <2>3, CostIsInt, CostOfOneMore
  <1>3. Frugal(Q, n, c - Period)
    <2> SUFFICES ASSUME NEW a \in 0..n
                 PROVE  Cost(Q[n + 1] - Q[a]) + (c - Period) <= Full + (n - a)
      BY DEF Frugal
    <2>1. Cost(P[n + 1] - P[a]) + c <= Full + (n - a)
      BY DEF Frugal
    <2>2. /\ Cost(P[n + 1] - P[a]) \in Int
          /\ Cost(Q[n + 1] - Q[a]) = Cost(P[n + 1] - P[a]) + Period
      BY <1>2
    <2> DEFINE x == Cost(P[n + 1] - P[a])
    <2>3. x + c <= Full + (n - a) /\ x \in Int
      BY <2>1, <2>2
    <2> HIDE DEF x
    <2>4. (x + Period) + (c - Period) <= Full + (n - a)
      BY ONLY <2>3, FullHoldsAToken, TimeAssumption, c \in 0..Full, n \in 0..MaxTime, a \in 0..n
    <2>5. QED
      BY <2>2, <2>4 DEF x
  <1>4. Generous(Q, n, c - Period)
    <2>1. PICK a \in 0..n : Cost(P[n + 1] - P[a]) + c >= Full + (n - a)
      BY DEF Generous
    <2>2. Cost(Q[n + 1] - Q[a]) + (c - Period) >= Full + (n - a)
      <3>1. /\ Cost(P[n + 1] - P[a]) \in Int
            /\ Cost(Q[n + 1] - Q[a]) = Cost(P[n + 1] - P[a]) + Period
        BY <1>2
      <3> DEFINE x == Cost(P[n + 1] - P[a])
      <3>2. x + c >= Full + (n - a) /\ x \in Int
        BY <2>1, <3>1
      <3> HIDE DEF x
      <3>3. (x + Period) + (c - Period) >= Full + (n - a)
        BY ONLY <3>2, FullHoldsAToken, TimeAssumption, c \in 0..Full, n \in 0..MaxTime, a \in 0..n
      <3>4. QED
        BY <3>1, <3>3 DEF x
    <2>3. QED
      BY <2>1, <2>2 DEF Generous
  <1>5. Quota(Q)
    <2> SUFFICES ASSUME NEW a \in Time, NEW b \in a..MaxTime
                 PROVE  Cost(Q[b + 1] - Q[a]) <= Full + (b - a)
      BY DEF Quota
    <2>1. Cost(P[b + 1] - P[a]) <= Full + (b - a)
      BY DEF Quota
    <2>2. CASE b < n
      <3>1. Q[b + 1] = P[b + 1] /\ Q[a] = P[a]
        BY <2>2, SMTT(30)
      <3>2. QED
        BY <2>1, <3>1
    <2>3. CASE n < a
      <3>1. Q[b + 1] = P[b + 1] + 1 /\ Q[a] = P[a] + 1
        BY <2>3
      <3>2. Q[b + 1] - Q[a] = P[b + 1] - P[a]
        BY <3>1, SMTT(30)
      <3>3. QED
        BY <2>1, <3>2
    <2>4. CASE a <= n /\ n <= b
      <3>1. Q[b + 1] = Q[n + 1]
        BY <1>1, <2>4 DEF Flat
      <3>2. Cost(Q[n + 1] - Q[a]) + (c - Period) <= Full + (n - a)
        BY <1>3, <2>4 DEF Frugal
      <3>3. Cost(Q[n + 1] - Q[a]) \in Int
        BY <1>2, <2>4, SMTT(30)
      <3>4. QED
        BY <2>4, <3>1, <3>2, <3>3
    <2>5. QED
      BY <2>2, <2>3, <2>4
  <1>6. QED
    BY <1>1, <1>3, <1>4, <1>5

\* Full buckets that have let nothing pass keep both bounds.
LEMMA BucketInit == Init => BucketInv
  <1> SUFFICES ASSUME Init PROVE BucketInv
    OBVIOUS
  <1> SUFFICES ASSUME NEW g \in Gateway, NEW t \in Tenant
               PROVE  /\ Flat(passed[g][t], now)
                      /\ Frugal(passed[g][t], now, bucket[g][t])
                      /\ Generous(passed[g][t], now, bucket[g][t])
                      /\ Quota(passed[g][t])
    BY DEF BucketInv
  <1>1. passed[g][t] = [m \in 0..(MaxTime + 1) |-> 0] /\ bucket[g][t] = Full /\ now = 0
    BY DEF Init
  <1>2. passed[g][t] \in History /\ \A m \in 0..(MaxTime + 1) : passed[g][t][m] = 0
    BY <1>1 DEF History
  <1>3. QED
    BY <1>1, <1>2, NewBucket

\* The bounds on what a bucket has let pass are inductive.
LEMMA BucketStep == LimiterTypeOK /\ BucketInv /\ [Next]_vars => BucketInv'
  <1> SUFFICES ASSUME LimiterTypeOK, BucketInv, [Next]_vars PROVE BucketInv'
    OBVIOUS
  <1>1. ASSUME NEW g \in Gateway, NEW t \in Tenant
        PROVE  /\ passed[g][t] \in History /\ now \in Time /\ bucket[g][t] \in 0..Full
               /\ Flat(passed[g][t], now)
               /\ Frugal(passed[g][t], now, bucket[g][t])
               /\ Generous(passed[g][t], now, bucket[g][t])
               /\ Quota(passed[g][t])
    BY DEF BucketInv, LimiterTypeOK, History
  <1>2. CASE Tick
    <2> SUFFICES ASSUME NEW g \in Gateway, NEW t \in Tenant
                 PROVE  /\ Flat(passed[g][t], now)'
                        /\ Frugal(passed[g][t], now, bucket[g][t])'
                        /\ Generous(passed[g][t], now, bucket[g][t])'
                        /\ Quota(passed[g][t])'
      BY DEF BucketInv
    <2>1. /\ passed' = passed /\ now' = now + 1 /\ now < MaxTime
          /\ bucket'[g][t] = Refill(bucket[g][t])
      BY <1>2 DEF Tick
    <2>2. /\ Flat(passed[g][t], now + 1)
          /\ Frugal(passed[g][t], now + 1, Refill(bucket[g][t]))
          /\ Generous(passed[g][t], now + 1, Refill(bucket[g][t]))
      BY <1>1, <2>1, BucketTick
    <2>3. QED
      BY <1>1, <2>1, <2>2 DEF Flat, Frugal, Generous, Quota
  <1>3. ASSUME NEW p \in Proc, NEW h \in Gateway, NEW u \in Tenant, AllowLocal(p, h, u)
        PROVE  BucketInv'
    <2> SUFFICES ASSUME NEW g \in Gateway, NEW t \in Tenant
                 PROVE  /\ Flat(passed[g][t], now)'
                        /\ Frugal(passed[g][t], now, bucket[g][t])'
                        /\ Generous(passed[g][t], now, bucket[g][t])'
                        /\ Quota(passed[g][t])'
      BY DEF BucketInv
    <2>1. now' = now /\ Period <= bucket[h][u]
      BY <1>3, <1>1, FullHoldsAToken DEF AllowLocal, HasToken
    <2>2. CASE g = h /\ t = u
      <3>1. /\ passed'[g][t] = [m \in 0..(MaxTime + 1) |->
                                  passed[g][t][m] + (IF now < m THEN 1 ELSE 0)]
            /\ bucket'[g][t] = bucket[g][t] - Period
        BY <1>3, <2>2 DEF AllowLocal, LimiterTypeOK
      <3>2. /\ passed'[g][t] \in History
            /\ \A m \in 0..(MaxTime + 1) :
                 passed'[g][t][m] = passed[g][t][m] + (IF now < m THEN 1 ELSE 0)
        <4>1. \A m \in 0..(MaxTime + 1) : passed[g][t][m] \in Nat
          BY <1>1 DEF History
        <4>2. \A m \in 0..(MaxTime + 1) :
                passed[g][t][m] + (IF now < m THEN 1 ELSE 0) \in Nat
          BY <4>1
        <4>3. QED
          BY <3>1, <4>2 DEF History
      <3> DEFINE Q == passed'[g][t]
      <3>3. /\ Flat(Q, now) /\ Frugal(Q, now, bucket[g][t] - Period)
            /\ Generous(Q, now, bucket[g][t] - Period) /\ Quota(Q)
        BY <1>1, <2>1, <2>2, <3>2, BucketGrant
      <3>4. QED
        BY <2>1, <3>1, <3>3 DEF Flat, Frugal, Generous, Quota
    <2>3. CASE ~(g = h /\ t = u)
      <3>1. passed'[g][t] = passed[g][t] /\ bucket'[g][t] = bucket[g][t]
        BY <1>3, <2>3 DEF AllowLocal, LimiterTypeOK
      <3>2. QED
        BY <1>1, <2>1, <3>1 DEF Flat, Frugal, Generous, Quota
    <2>4. QED
      BY <2>2, <2>3
  <1>4. CASE UNCHANGED <<now, bucket, passed>>
    BY <1>4 DEF BucketInv, Flat, Frugal, Generous, Quota
  <1>5. QED
    BY <1>2, <1>3, <1>4
    DEF Next, Allow, RefuseLocal, RedisAllows, RedisRefuses, AllowsUnheard, RefusesUnheard,
        RedisFails, vars

\* What the inductive invariant says of the buckets is LocalQuota and more.
LEMMA BucketsKeepQuota == LimiterTypeOK /\ BucketInv => LocalQuota
  BY DEF BucketInv, Quota, LocalQuota, PassedIn, Cost

\* A bucket short of a token was emptied since it was last full.
LEMMA BucketsSpentLocally ==
  LimiterTypeOK /\ BucketInv
    => \A g \in Gateway, t \in Tenant : ~HasToken(g, t) => SpentLocally(g, t)
  <1> SUFFICES ASSUME LimiterTypeOK, BucketInv, NEW g \in Gateway, NEW t \in Tenant,
                      ~HasToken(g, t)
               PROVE  SpentLocally(g, t)
    OBVIOUS
  <1>1. PICK a \in 0..now : Cost(passed[g][t][now + 1] - passed[g][t][a]) + bucket[g][t]
                              >= Full + (now - a)
    BY DEF BucketInv, Generous
  <1>2. /\ now \in 0..MaxTime /\ bucket[g][t] \in 0..Full
        /\ passed[g][t] \in [0..(MaxTime + 1) -> Nat] /\ MaxTime \in Nat
    BY TimeAssumption DEF LimiterTypeOK, Time
  <1>3. passed[g][t][now + 1] - passed[g][t][a] \in Int
    BY <1>2, SMTT(30)
  <1> DEFINE x == Cost(passed[g][t][now + 1] - passed[g][t][a])
  <1>4. x \in Int /\ x + bucket[g][t] >= Full + (now - a)
    BY <1>1, <1>3, CostIsInt
  <1>5. bucket[g][t] < Period /\ bucket[g][t] \in 0..Full /\ Period \in Nat
    BY <1>2, FullHoldsAToken DEF HasToken
  <1> HIDE DEF x
  <1>6. x + Period > Full + (now - a)
    BY ONLY <1>2, <1>4, <1>5, FullHoldsAToken, a \in 0..now
  <1>7. QED
    BY <1>6 DEF x, Cost, SpentLocally, PassedIn

----------------------------------------------------------------------------
\* The shared window

\* An empty sorted set keeps the bounds of the window.
LEMMA WindowInit == Init => WindowInv
  <1> SUFFICES ASSUME Init PROVE WindowInv
    OBVIOUS
  <1>1. InTime /\ Kept /\ Owned
    BY TimeAssumption DEF Init, InTime, Kept, Owned, Stamp
  <1>2. ASSUME NEW t \in Tenant, NEW a \in Stamp
        PROVE  Cardinality({s \in Stamp : /\ admitted[t][s] > 0
                                          /\ a <= s /\ s + Lag < a + Window}) <= Burst
    <2>1. {s \in Stamp : /\ admitted[t][s] > 0
                         /\ a <= s /\ s + Lag < a + Window} = {}
      BY DEF Init
    <2>2. QED
      BY <2>1, FS_EmptySet, BurstIsPositive
  <1>3. QED
    BY <1>1, <1>2 DEF WindowInv, SharedQuota

\* Scripts stay in time: the clock waits for them.
LEMMA InTimeStep == LimiterTypeOK /\ InTime /\ [Next]_vars => InTime'
  <1> SUFFICES ASSUME LimiterTypeOK, InTime, [Next]_vars, NEW q \in Proc, pc'[q] = "redis"
               PROVE  /\ req'[q].tenant \in Tenant
                      /\ req'[q].sent <= now' /\ now' <= req'[q].sent + MaxDelay
                      /\ req'[q].sent <= req'[q].stamp
                      /\ req'[q].stamp <= req'[q].sent + MaxSkew
    BY DEF InTime
  <1> USE TimeAssumption
  <1>1. now \in Nat /\ pc \in [Proc -> {"idle", "redis"}] /\ req \in [Proc -> Request]
    BY DEF LimiterTypeOK, Time
  <1>2. req[q].sent \in Nat /\ req[q].stamp \in Nat
    BY <1>1 DEF Request, Stamp, Time
  <1>3. CASE Tick
    BY <1>1, <1>2, <1>3 DEF Tick, InTime
  <1>4. ASSUME NEW p \in Proc, NEW g \in Gateway, NEW t \in Tenant, AllowLocal(p, g, t),
               g \in WithRedis
        PROVE  /\ req'[q].tenant \in Tenant
               /\ req'[q].sent <= now' /\ now' <= req'[q].sent + MaxDelay
               /\ req'[q].sent <= req'[q].stamp
               /\ req'[q].stamp <= req'[q].sent + MaxSkew
    <2>1. /\ pc' = [pc EXCEPT ![p] = "redis"] /\ now' = now
          /\ req' = [req EXCEPT ![p] =
                       [tenant |-> t, stamp |-> now + Skew[g], sent |-> now]]
      BY <1>4 DEF AllowLocal
    <2>2. CASE q = p
      <3>1. req'[q] = [tenant |-> t, stamp |-> now + Skew[g], sent |-> now]
        BY <1>1, <2>1, <2>2
      <3>2. Skew[g] \in 0..MaxSkew
        BY GatewayAssumption
      <3>3. QED
        BY <1>1, <2>1, <3>1, <3>2
    <2>3. CASE q # p
      <3>1. req'[q] = req[q] /\ pc[q] = "redis"
        BY <1>1, <2>1, <2>3
      <3>2. QED
        BY <2>1, <3>1 DEF InTime
    <2>4. QED
      BY <2>2, <2>3
  <1>5. CASE UNCHANGED <<now, pc, req>>
    BY <1>5 DEF InTime
  <1>6. ASSUME NEW p \in Proc, Returns(p), now' = now
        PROVE  /\ req'[q].tenant \in Tenant
               /\ req'[q].sent <= now' /\ now' <= req'[q].sent + MaxDelay
               /\ req'[q].sent <= req'[q].stamp
               /\ req'[q].stamp <= req'[q].sent + MaxSkew
    <2>1. q # p
      BY <1>1, <1>6 DEF Returns
    <2>2. req'[q] = req[q] /\ pc[q] = "redis"
      BY <1>1, <1>6, <2>1 DEF Returns
    <2>3. QED
      BY <1>6, <2>2 DEF InTime
  <1>7. QED
    BY <1>3, <1>4, <1>5, <1>6, ZenonT(60)
    DEF Next, Allow, RefuseLocal, AllowLocal, RedisAllows, RedisRefuses, AllowsUnheard,
        RefusesUnheard, RedisFails, vars

\* What the goroutine of a script knows.
LEMMA ScriptFacts ==
  ASSUME LimiterTypeOK, InTime, NEW p \in Proc, pc[p] = "redis"
  PROVE  /\ req[p].tenant \in Tenant /\ req[p].stamp \in Stamp
         /\ now \in Nat /\ req[p].stamp \in Nat
         /\ req[p].stamp <= now + MaxSkew /\ now <= req[p].stamp + MaxDelay
  <1>1. now \in Nat /\ req[p] \in Request
    BY TimeAssumption DEF LimiterTypeOK, Time
  <1>2. req[p].stamp \in Nat /\ req[p].stamp \in Stamp /\ req[p].sent \in Nat
    BY <1>1, TimeAssumption DEF Request, Stamp, Time
  <1>3. QED
    BY <1>1, <1>2, TimeAssumption DEF InTime

\* The script records a stamp, and the answer arrives or not; or it refuses.
Records(p) == RedisAllows(p) \/ AllowsUnheard(p)
Refuses(p) == RedisRefuses(p) \/ RefusesUnheard(p)

\* A step that is no run of the script leaves the stamps alone.
LEMMA OtherSteps ==
  ASSUME [Next]_vars, \A p \in Proc : ~Records(p) /\ ~Refuses(p)
  PROVE  UNCHANGED <<zset, expiry, admitted, lost>> /\ (now' = now \/ now' = now + 1)
  BY DEF Next, Tick, Allow, RefuseLocal, AllowLocal, RedisFails, Records, Refuses, vars

\* A sorted set only holds stamps of requests of its tenant that were admitted or lost.
LEMMA OwnedStep == LimiterTypeOK /\ InTime /\ Owned /\ [Next]_vars => Owned'
  <1> SUFFICES ASSUME LimiterTypeOK, InTime, Owned, [Next]_vars PROVE Owned'
    OBVIOUS
  <1>1. /\ zset \in [Tenant -> SUBSET Stamp] /\ lost \in [Tenant -> SUBSET Stamp]
        /\ admitted \in [Tenant -> [Stamp -> Nat]]
    BY DEF LimiterTypeOK
  <1>2. ASSUME NEW p \in Proc, Records(p) PROVE Owned'
    <2> DEFINE t == req[p].tenant  s == req[p].stamp
    <2>1. pc[p] = "redis" /\ t \in Tenant /\ s \in Stamp
      BY <1>2, ScriptFacts DEF Records, RedisAllows, AllowsUnheard
    <2>2. zset' = [zset EXCEPT ![t] = Recent(t, s) \cup {s}]
      BY <1>2 DEF Records, RedisAllows, AllowsUnheard, Record
    <2>3. \/ admitted' = [admitted EXCEPT ![t][s] = admitted[t][s] + 1] /\ lost' = lost
          \/ lost' = [lost EXCEPT ![t] = lost[t] \cup {s}] /\ admitted' = admitted
      BY <1>2 DEF Records, RedisAllows, AllowsUnheard
    <2> HIDE DEF t, s
    <2>4. /\ admitted[t][s] \in Nat
          /\ \A u \in Tenant : \A x \in Stamp : admitted[u][x] \in Nat
      BY <1>1, <2>1
    <2>5. \A u \in Tenant : \A x \in Stamp :
            admitted[u][x] > 0 \/ x \in lost[u] => admitted'[u][x] > 0 \/ x \in lost'[u]
      BY <1>1, <2>1, <2>3, <2>4
    <2>6. admitted'[t][s] > 0 \/ s \in lost'[t]
      BY <1>1, <2>1, <2>3, <2>4
    <2>7. ASSUME NEW u \in Tenant, NEW x \in zset'[u]
          PROVE  admitted'[u][x] > 0 \/ x \in lost'[u]
      <3>1. (x \in zset[u] /\ x \in Stamp) \/ (u = t /\ x = s)
        BY <1>1, <2>1, <2>2, <2>7 DEF Recent
      <3>2. QED
        BY <2>5, <2>6, <3>1 DEF Owned
    <2>8. QED
      BY <2>7 DEF Owned
  <1>3. ASSUME NEW p \in Proc, Refuses(p) PROVE Owned'
    <2>1. pc[p] = "redis" /\ req[p].tenant \in Tenant
      BY <1>3, ScriptFacts DEF Refuses, RedisRefuses, RefusesUnheard
    <2>2. \A u \in Tenant : zset'[u] \subseteq zset[u]
      BY <1>1, <1>3, <2>1 DEF Refuses, RedisRefuses, RefusesUnheard, Refuse, Recent
    <2>3. QED
      BY <1>3, <2>2 DEF Refuses, RedisRefuses, RefusesUnheard, Owned
  <1>4. CASE \A p \in Proc : ~Records(p) /\ ~Refuses(p)
    BY <1>4, OtherSteps DEF Owned
  <1>5. QED
    BY <1>2, <1>3, <1>4

\* What the script does with an admitted stamp: it stays in the set, or is old.
LEMMA KeptBySweep ==
  ASSUME LimiterTypeOK, InTime, Kept, NEW p \in Proc, pc[p] = "redis",
         NEW x \in Stamp, admitted[req[p].tenant][x] > 0
  PROVE  \/ x \in Recent(req[p].tenant, req[p].stamp)
         \/ x + Window <= now + MaxSkew
  <1>1. /\ req[p].tenant \in Tenant /\ now \in Nat /\ req[p].stamp \in Nat
        /\ req[p].stamp <= now + MaxSkew
    BY ScriptFacts
  <1>2. /\ x \in zset[req[p].tenant] \/ x + Window <= now + MaxSkew
        /\ x + Window <= expiry[req[p].tenant] + MaxSkew
    BY <1>1 DEF Kept
  <1>3. x \in Nat /\ Window \in Nat /\ MaxSkew \in Nat /\ expiry[req[p].tenant] \in Nat
    BY <1>1, TimeAssumption DEF LimiterTypeOK, Stamp
  <1>4. QED
    BY <1>1, <1>2, <1>3 DEF Recent

\* An admitted stamp stays in the sorted set while any clock may count it.
LEMMA KeptStep == LimiterTypeOK /\ InTime /\ Kept /\ [Next]_vars => Kept'
  <1> SUFFICES ASSUME LimiterTypeOK, InTime, Kept, [Next]_vars,
                      NEW u \in Tenant, NEW x \in Stamp, admitted'[u][x] > 0
               PROVE  /\ x <= now' + MaxSkew
                      /\ x \in zset'[u] \/ x + Window <= now' + MaxSkew
                      /\ x + Window <= expiry'[u] + MaxSkew
    BY DEF Kept, Stamp
  <1> USE TimeAssumption
  <1>1. /\ zset \in [Tenant -> SUBSET Stamp] /\ expiry \in [Tenant -> Nat]
        /\ admitted \in [Tenant -> [Stamp -> Nat]] /\ now \in Nat
        /\ x \in Nat /\ admitted[u][x] \in Nat
    <2>1. zset \in [Tenant -> SUBSET Stamp] /\ admitted \in [Tenant -> [Stamp -> Nat]]
      BY DEF LimiterTypeOK
    <2>2. expiry \in [Tenant -> Nat] /\ now \in Nat
      BY DEF LimiterTypeOK, Time
    <2>3. x \in Nat
      BY DEF Stamp
    <2>4. QED
      BY <2>1, <2>2, <2>3
  <1>2. admitted[u][x] > 0 =>
          /\ x <= now + MaxSkew
          /\ x \in zset[u] \/ x + Window <= now + MaxSkew
          /\ x + Window <= expiry[u] + MaxSkew
    BY DEF Kept
  <1>3. ASSUME NEW p \in Proc, Records(p)
        PROVE  /\ x <= now' + MaxSkew
               /\ x \in zset'[u] \/ x + Window <= now' + MaxSkew
               /\ x + Window <= expiry'[u] + MaxSkew
    <2> DEFINE t == req[p].tenant  s == req[p].stamp
    <2>1. /\ pc[p] = "redis" /\ t \in Tenant /\ s \in Stamp /\ s \in Nat
          /\ s <= now + MaxSkew
      BY <1>3, ScriptFacts DEF Records, RedisAllows, AllowsUnheard
    <2>2. /\ zset' = [zset EXCEPT ![t] = Recent(t, s) \cup {s}]
          /\ expiry' = [expiry EXCEPT ![t] = now + Window] /\ now' = now
      BY <1>3 DEF Records, RedisAllows, AllowsUnheard, Record
    <2>3. \/ admitted' = [admitted EXCEPT ![t][s] = admitted[t][s] + 1]
          \/ admitted' = admitted
      BY <1>3 DEF Records, RedisAllows, AllowsUnheard
    <2>4. u = t /\ admitted[u][x] > 0 =>
            x \in Recent(t, s) \/ x + Window <= now + MaxSkew
      BY <2>1, KeptBySweep
    <2> HIDE DEF t, s
    <2>5. (u = t /\ x = s) \/ admitted[u][x] > 0
      BY <1>1, <2>1, <2>3
    <2>6. CASE u = t
      <3>1. zset'[u] = Recent(t, s) \cup {s} /\ expiry'[u] = now + Window
        BY <1>1, <2>2, <2>6
      <3>2. CASE x = s
        BY <1>1, <2>1, <2>2, <3>1, <3>2
      <3>3. CASE admitted[u][x] > 0
        BY <1>1, <1>2, <2>2, <2>4, <2>6, <3>1, <3>3
      <3>4. QED
        BY <2>5, <3>2, <3>3
    <2>7. CASE u # t
      BY <1>1, <1>2, <2>2, <2>5, <2>7
    <2>8. QED
      BY <2>6, <2>7
  <1>4. ASSUME NEW p \in Proc, Refuses(p)
        PROVE  /\ x <= now' + MaxSkew
               /\ x \in zset'[u] \/ x + Window <= now' + MaxSkew
               /\ x + Window <= expiry'[u] + MaxSkew
    <2> DEFINE t == req[p].tenant  s == req[p].stamp
    <2>1. pc[p] = "redis" /\ t \in Tenant
      BY <1>4, ScriptFacts DEF Refuses, RedisRefuses, RefusesUnheard
    <2>2. /\ zset' = [zset EXCEPT ![t] = Recent(t, s)]
          /\ UNCHANGED <<expiry, now, admitted>>
      BY <1>4 DEF Refuses, RedisRefuses, RefusesUnheard, Refuse
    <2>3. u = t => x \in Recent(t, s) \/ x + Window <= now + MaxSkew
      BY <2>1, <2>2, KeptBySweep
    <2> HIDE DEF t, s
    <2>4. CASE u = t
      BY <1>1, <1>2, <2>2, <2>3, <2>4
    <2>5. CASE u # t
      BY <1>1, <1>2, <2>2, <2>5
    <2>6. QED
      BY <2>4, <2>5
  <1>5. CASE \A p \in Proc : ~Records(p) /\ ~Refuses(p)
    <2>1. UNCHANGED <<zset, expiry, admitted>> /\ (now' = now \/ now' = now + 1)
      BY <1>5, OtherSteps
    <2>2. QED
      BY <1>1, <1>2, <2>1
  <1>6. QED
    BY <1>3, <1>4, <1>5

\* Counted(t, a): the stamps that SharedQuota counts from a on.
Counted(t, a) ==
  {s \in Stamp : /\ admitted[t][s] > 0
                 /\ a <= s /\ s + Lag < a + Window}

\* There are finitely many stamps, so they can be counted.
LEMMA StampsAreFinite == IsFiniteSet(Stamp)
  BY FS_Interval, TimeAssumption DEF Stamp

\* When Redis admits a stamp, every admitted stamp that SharedQuota counts with it is
\* still in the sorted set: the script has counted them all.
LEMMA WindowCountsAll ==
  ASSUME LimiterTypeOK, InTime, Kept, NEW p \in Proc, RedisAllows(p),
         NEW a \in Stamp, a <= req[p].stamp, req[p].stamp + Lag < a + Window
  PROVE  Cardinality(Counted(req[p].tenant, a) \cup {req[p].stamp}) <= Burst
  <1> DEFINE t == req[p].tenant  s == req[p].stamp
  <1>1. /\ pc[p] = "redis" /\ t \in Tenant /\ s \in Stamp /\ s \in Nat /\ now \in Nat
        /\ now <= s + MaxDelay
    BY ScriptFacts DEF RedisAllows
  <1>2. Counted(t, a) \subseteq Recent(t, s)
    <2> SUFFICES ASSUME NEW x \in Counted(t, a) PROVE x \in Recent(t, s)
      OBVIOUS
    <2>1. x \in Stamp /\ admitted[t][x] > 0 /\ a <= x
      BY DEF Counted
    <2>2. x \in Recent(t, s) \/ x + Window <= now + MaxSkew
      BY <1>1, <2>1, KeptBySweep
    <2>3. ~(x + Window <= now + MaxSkew)
      <3>1. x \in Nat /\ a \in Nat
        BY <2>1, TimeAssumption DEF Stamp
      <3>2. QED
        BY <1>1, <2>1, <3>1, TimeAssumption DEF Lag
    <2>4. QED
      BY <2>2, <2>3
  <1>3. Cardinality(Recent(t, s)) < Burst
    BY DEF RedisAllows, RoomLeft
  <1>4. Recent(t, s) \subseteq Stamp
    BY <1>1 DEF Recent, LimiterTypeOK
  <1> HIDE DEF t, s
  <1>5. IsFiniteSet(Recent(t, s)) /\ Cardinality(Recent(t, s)) \in Nat
    BY <1>4, StampsAreFinite, FS_Subset, FS_CardinalityType
  <1>6. IsFiniteSet(Counted(t, a)) /\ Cardinality(Counted(t, a)) <= Cardinality(Recent(t, s))
    BY <1>2, <1>5, FS_Subset
  <1>7. Cardinality(Counted(t, a)) \in Nat
    BY <1>6, FS_CardinalityType
  <1>8. Cardinality(Counted(t, a) \cup {s}) <= Cardinality(Counted(t, a)) + 1
    <2>1. CASE s \in Counted(t, a)
      <3>1. Counted(t, a) \cup {s} = Counted(t, a)
        BY <2>1
      <3>2. \A n \in Nat : n <= n + 1
        OBVIOUS
      <3>3. QED
        BY <1>7, <3>1, <3>2
    <2>2. CASE s \notin Counted(t, a)
      <3>1. Cardinality(Counted(t, a) \cup {s}) = Cardinality(Counted(t, a)) + 1
        BY <1>6, <2>2, FS_AddElement
      <3>2. QED
        BY <1>7, <3>1
    <2>3. QED
      BY <2>1, <2>2
  <1>9. Cardinality(Counted(t, a) \cup {s}) \in Nat
    BY <1>6, FS_AddElement, FS_CardinalityType
  <1>10. QED
    BY <1>3, <1>5, <1>6, <1>7, <1>8, <1>9, BurstIsPositive DEF t, s

\* No step admits more in a window than the burst.
LEMMA SharedStep ==
  LimiterTypeOK /\ InTime /\ Kept /\ SharedQuota /\ [Next]_vars => SharedQuota'
  <1> SUFFICES ASSUME LimiterTypeOK, InTime, Kept, SharedQuota, [Next]_vars,
                      NEW u \in Tenant, NEW a \in Stamp
               PROVE  Cardinality(Counted(u, a)') <= Burst
    BY DEF SharedQuota, Counted
  <1>1. admitted \in [Tenant -> [Stamp -> Nat]] /\ a \in Stamp
    BY DEF LimiterTypeOK
  <1>2. Cardinality(Counted(u, a)) <= Burst
    BY DEF SharedQuota, Counted
  <1>3. CASE admitted' = admitted
    <2>1. Counted(u, a)' = Counted(u, a)
      BY <1>3 DEF Counted
    <2>2. QED
      BY <1>2, <2>1
  <1>4. ASSUME NEW p \in Proc, RedisAllows(p)
        PROVE  Cardinality(Counted(u, a)') <= Burst
    <2> DEFINE t == req[p].tenant  s == req[p].stamp
    <2>1. t \in Tenant /\ s \in Stamp
      BY <1>4, ScriptFacts DEF RedisAllows
    <2>2. admitted' = [admitted EXCEPT ![t][s] = admitted[t][s] + 1]
      BY <1>4 DEF RedisAllows
    <2>3. CASE u = t /\ a <= s /\ s + Lag < a + Window
      <3>1. Cardinality(Counted(t, a) \cup {s}) <= Burst
        BY <1>4, <2>3, WindowCountsAll
      <3> HIDE DEF t, s
      <3>2. \A x \in Stamp : x # s => admitted'[u][x] = admitted[u][x]
        BY <1>1, <2>1, <2>2, <2>3
      <3>3. admitted'[u][s] > 0
        <4>1. admitted[t][s] \in Nat
          BY <1>1, <2>1
        <4>2. admitted'[u][s] = admitted[t][s] + 1
          BY <1>1, <2>1, <2>2, <2>3
        <4>3. QED
          BY <4>1, <4>2
      <3>4. \A x : x \in Counted(u, a)' <=> x \in Counted(t, a) \cup {s}
        BY <2>1, <2>3, <3>2, <3>3 DEF Counted
      <3>5. Counted(u, a)' = Counted(t, a) \cup {s}
        BY <3>4
      <3>6. QED
        BY <3>1, <3>5
    <2>4. CASE ~(u = t /\ a <= s /\ s + Lag < a + Window)
      <3> HIDE DEF t, s
      <3>1. \A x \in Stamp : ~(u = t /\ x = s) => admitted'[u][x] = admitted[u][x]
        BY <1>1, <2>1, <2>2
      <3>2. \A x : x \in Counted(u, a)' <=> x \in Counted(u, a)
        BY <2>4, <3>1 DEF Counted
      <3>3. Counted(u, a)' = Counted(u, a)
        BY <3>2
      <3>4. QED
        BY <1>2, <3>3
    <2>5. QED
      BY <2>3, <2>4
  <1>5. (\E p \in Proc : RedisAllows(p)) \/ admitted' = admitted
    BY DEF Next, Tick, Allow, RefuseLocal, AllowLocal, RedisRefuses, AllowsUnheard,
           RefusesUnheard, RedisFails, vars
  <1>6. QED
    BY <1>3, <1>4, <1>5

\* The bounds of the window are inductive.
LEMMA WindowStep == LimiterTypeOK /\ WindowInv /\ [Next]_vars => WindowInv'
  BY InTimeStep, OwnedStep, KeptStep, SharedStep DEF WindowInv

\* A window without room is full of stamps of the tenant's own requests.
LEMMA WindowSpent ==
  LimiterTypeOK /\ WindowInv =>
    \A p \in Proc : pc[p] = "redis" /\ ~RoomLeft(req[p].tenant, req[p].stamp)
                      => SpentInWindow(req[p].tenant, req[p].stamp)
  <1> SUFFICES ASSUME LimiterTypeOK, InTime, Owned, NEW p \in Proc, pc[p] = "redis",
                      ~RoomLeft(req[p].tenant, req[p].stamp)
               PROVE  SpentInWindow(req[p].tenant, req[p].stamp)
    BY DEF WindowInv
  <1> DEFINE t == req[p].tenant  s == req[p].stamp
  <1> DEFINE W == {x \in Stamp : x + Window > s /\ (admitted[t][x] > 0 \/ x \in lost[t])}
  <1>1. t \in Tenant
    BY ScriptFacts
  <1>2. Recent(t, s) \subseteq W
    BY <1>1 DEF Recent, Owned, LimiterTypeOK
  <1>3. W \subseteq Stamp
    OBVIOUS
  <1>4. ~(Cardinality(Recent(t, s)) < Burst)
    BY DEF RoomLeft
  <1>5. Cardinality(W) >= Burst => SpentInWindow(t, s)
    BY DEF SpentInWindow
  <1> HIDE DEF t, s, W
  <1>6. IsFiniteSet(W)
    BY <1>3, StampsAreFinite, FS_Subset
  <1>7. /\ IsFiniteSet(Recent(t, s)) /\ Cardinality(Recent(t, s)) <= Cardinality(W)
    BY <1>2, <1>6, FS_Subset
  <1>8. Cardinality(W) \in Nat /\ Cardinality(Recent(t, s)) \in Nat
    BY <1>6, <1>7, FS_CardinalityType
  <1>9. QED
    BY <1>4, <1>5, <1>7, <1>8, BurstIsPositive DEF t, s

----------------------------------------------------------------------------
\* The invariant and what follows from it

\* Types, buckets and window are as stated, always.
THEOREM LimiterInvariant == Spec => []Inv
  <1>1. Init => Inv
    BY TypeInit, BucketInit, WindowInit DEF Inv
  <1>2. Inv /\ [Next]_vars => Inv'
    BY TypeStep, BucketStep, WindowStep DEF Inv, WindowInv
  <1>3. QED
    BY <1>1, <1>2, PTL DEF Spec

\* Type correctness: a credit never falls below nothing nor grows beyond a full bucket
\* (allowLocal), whatever the rate and the burst that New settles on.
THEOREM LimiterTypes == Spec => []LimiterTypeOK
  <1>1. Inv => LimiterTypeOK
    BY DEF Inv
  <1>2. QED
    BY <1>1, LimiterInvariant, PTL

\* A gateway keeps each tenant to a full bucket and its refill in every interval
\* (allowLocal).
THEOREM BucketsKeepTheQuota == Spec => []LocalQuota
  <1>1. Inv => LocalQuota
    BY BucketsKeepQuota DEF Inv
  <1>2. QED
    BY <1>1, LimiterInvariant, PTL

\* All gateways together admit a tenant on at most Burst milliseconds of any window,
\* less the lag of late scripts and skewed clocks (redisScript).
THEOREM WindowKeepsTheQuota == Spec => []SharedQuota
  <1>1. Inv => SharedQuota
    BY DEF Inv, WindowInv
  <1>2. QED
    BY <1>1, LimiterInvariant, PTL

\* Nobody is refused for what others did, nor for requests that were refused themselves
\* (allowLocal and redisScript).
THEOREM RefusalsAreOwn == Spec => []RefusedForOwnUse
  <1>1. Inv => RefusedForOwnUse
    BY BucketsSpentLocally, WindowSpent DEF Inv, RefusedForOwnUse
  <1>2. QED
    BY <1>1, LimiterInvariant, PTL
=============================================================================
