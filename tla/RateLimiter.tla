----------------------------- MODULE RateLimiter -----------------------------
(***************************************************************************)
(* Limiter.Allow of observe-gateway (internal/limiter/limiter.go), run by  *)
(* the request goroutines of several gateways: a token bucket per tenant   *)
(* in each process, and a sliding window per tenant in a Redis they share. *)
(*                                                                         *)
(* Time counts milliseconds. A request reads its gateway's clock, and the  *)
(* Redis script runs some time later with that stamp. A sorted set has the *)
(* stamp as score and as member, so it is a set of stamps. An answer of    *)
(* the script may be lost on the way; the client library then runs the     *)
(* script again, with the same stamp. Every gateway here has the limiter   *)
(* enabled and every request has a tenant: without, Allow returns nil and  *)
(* touches nothing.                                                        *)
(***************************************************************************)
EXTENDS Integers, FiniteSets

CONSTANTS
  Gateway,    \* gateway processes
  WithRedis,  \* those configured with redis_addr
  Tenant,
  NoTenant,   \* no tenant
  Proc,       \* request goroutines, of any gateway
  Period,     \* milliseconds per token, 1000 / requests_per_second; 0: no limit
  CfgBurst,   \* rate_limiter.burst
  Window,     \* rate_limiter.window
  Skew,       \* how far the clock of each gateway is ahead of that of Redis
  MaxSkew,    \* bound: how far it may be, from the slowest clock of all
  MaxDelay,   \* bound: time from reading the clock to the script's last run
  MaxTime     \* bound: when the model stops

ASSUME TenantAssumption == NoTenant \notin Tenant
ASSUME GatewayAssumption == WithRedis \subseteq Gateway /\ Skew \in [Gateway -> 0..MaxSkew]
ASSUME TimeAssumption ==
  /\ Period \in Nat /\ CfgBurst \in Nat /\ Window \in Nat \ {0}
  /\ MaxSkew \in Nat /\ MaxDelay \in Nat /\ MaxTime \in Nat

VARIABLES
  now,       \* the clock of Redis
  bucket,    \* credit of each gateway and tenant, Period to a token
  zset,      \* Redis: the stamps under "rate:" + tenant
  expiry,    \* Redis: when that key expires
  pc,        \* "idle", or "redis" while a goroutine waits for the script
  req,       \* the request of each goroutine that waits
  passed,    \* history: how many requests a bucket let pass before each time
  admitted,  \* history: how many requests Redis let pass, by stamp
  lost       \* history: stamps recorded by a run whose answer was lost

vars == <<now, bucket, zset, expiry, pc, req, passed, admitted, lost>>

Time  == 0..MaxTime
Stamp == 0..(MaxTime + MaxSkew)

\* New: a burst that is not set is two seconds' worth of tokens, and at least one.
Burst == IF CfgBurst > 0 THEN CfgBurst
         ELSE IF Period \in 1..2000 THEN 2000 \div Period ELSE 1

Full == Burst * Period

NoRequest == [tenant |-> NoTenant, stamp |-> 0, sent |-> 0]

Init ==
  /\ now = 0
  /\ bucket = [g \in Gateway |-> [t \in Tenant |-> Full]]
  /\ zset = [t \in Tenant |-> {}]
  /\ expiry = [t \in Tenant |-> 0]
  /\ pc = [p \in Proc |-> "idle"]
  /\ req = [p \in Proc |-> NoRequest]
  /\ passed = [g \in Gateway |-> [t \in Tenant |-> [m \in 0..(MaxTime + 1) |-> 0]]]
  /\ admitted = [t \in Tenant |-> [s \in Stamp |-> 0]]
  /\ lost = [t \in Tenant |-> {}]

----------------------------------------------------------------------------
\* A bucket that goes on filling.
RefillUncapped(credit) == credit + 1

\* One millisecond's refill of a bucket, which holds Burst tokens at most.
Refill(credit) == IF credit < Full THEN credit + 1 ELSE credit

Tick ==
  /\ now < MaxTime
  /\ \A p \in Proc : pc[p] = "redis" => now < req[p].sent + MaxDelay
  /\ now' = now + 1
  /\ bucket' = [g \in Gateway |-> [t \in Tenant |-> Refill(bucket[g][t])]]
  /\ UNCHANGED <<zset, expiry, pc, req, passed, admitted, lost>>

\* Any credit at all taken for a token.
AnyCredit(g, t) == bucket[g][t] > 0

\* rate.Limiter.Allow: there is a whole token; without a rate there always is.
HasToken(g, t) == bucket[g][t] >= Period

\* allowLocal finds no token: ErrRateLimited, and Redis is not asked.
RefuseLocal(p, g, t) ==
  /\ pc[p] = "idle"
  /\ ~HasToken(g, t)
  /\ UNCHANGED vars

\* allowLocal takes a token, for good: what Redis says does not bring it back.
\* Without Redis that is all; with Redis, allowRedis reads the clock.
AllowLocal(p, g, t) ==
  /\ pc[p] = "idle"
  /\ HasToken(g, t)
  /\ bucket' = [bucket EXCEPT ![g][t] = @ - Period]
  /\ passed' = [passed EXCEPT ![g][t] =
                  [m \in 0..(MaxTime + 1) |-> @[m] + (IF now < m THEN 1 ELSE 0)]]
  /\ IF g \in WithRedis
     THEN /\ pc' = [pc EXCEPT ![p] = "redis"]
          /\ req' = [req EXCEPT ![p] =
                       [tenant |-> t, stamp |-> now + Skew[g], sent |-> now]]
     ELSE UNCHANGED <<pc, req>>
  /\ UNCHANGED <<now, zset, expiry, admitted, lost>>

\* allowRedis returns, whatever it says.
Returns(p) ==
  /\ pc' = [pc EXCEPT ![p] = "idle"]
  /\ req' = [req EXCEPT ![p] = NoRequest]

\* ZREMRANGEBYSCORE key 0 now-window, of a key that may have expired.
Recent(t, s) == {x \in zset[t] : now < expiry[t] /\ x + Window > s}

\* The comparison off by one.
RoomForOneMore(t, s) == Cardinality(Recent(t, s)) <= Burst

\* ZCARD below the limit, which is the burst.
RoomLeft(t, s) == Cardinality(Recent(t, s)) < Burst

\* The script with ZADD before the check: refused requests count too.
RefusalRecorded(t, s) ==
  /\ zset' = [zset EXCEPT ![t] = Recent(t, s) \cup {s}]
  /\ expiry' = [expiry EXCEPT ![t] = now + Window]

\* The script returns 0: the old stamps are gone, nothing is added.
Refuse(t, s) ==
  /\ zset' = [zset EXCEPT ![t] = Recent(t, s)]
  /\ UNCHANGED expiry

\* The script returns 1: ZADD of the stamp, and PEXPIRE.
Record(t, s) ==
  /\ zset' = [zset EXCEPT ![t] = Recent(t, s) \cup {s}]
  /\ expiry' = [expiry EXCEPT ![t] = now + Window]

\* The script admits the request.
RedisAllows(p) ==
  LET t == req[p].tenant  s == req[p].stamp
  IN  /\ pc[p] = "redis"
      /\ RoomLeft(t, s)
      /\ Record(t, s)
      /\ Returns(p)
      /\ admitted' = [admitted EXCEPT ![t][s] = @ + 1]
      /\ UNCHANGED <<now, bucket, passed, lost>>

\* The script refuses it: ErrRateLimited.
RedisRefuses(p) ==
  LET t == req[p].tenant  s == req[p].stamp
  IN  /\ pc[p] = "redis"
      /\ ~RoomLeft(t, s)
      /\ Refuse(t, s)
      /\ Returns(p)
      /\ UNCHANGED <<now, bucket, passed, admitted, lost>>

\* The script ran and had room, but its answer is lost: go-redis may run it again, with
\* the stamp of the first run, which is in the sorted set by now.
AllowsUnheard(p) ==
  LET t == req[p].tenant  s == req[p].stamp
  IN  /\ pc[p] = "redis"
      /\ RoomLeft(t, s)
      /\ Record(t, s)
      /\ lost' = [lost EXCEPT ![t] = @ \cup {s}]
      /\ UNCHANGED <<now, bucket, pc, req, passed, admitted>>

\* The script ran and refused, and its answer is lost.
RefusesUnheard(p) ==
  LET t == req[p].tenant  s == req[p].stamp
  IN  /\ pc[p] = "redis"
      /\ ~RoomLeft(t, s)
      /\ Refuse(t, s)
      /\ UNCHANGED <<now, bucket, pc, req, passed, admitted, lost>>

\* Redis cannot be reached, or go-redis has tried often enough: the request fails, it is
\* not let through.
RedisFails(p) ==
  /\ pc[p] = "redis"
  /\ Returns(p)
  /\ UNCHANGED <<now, bucket, zset, expiry, passed, admitted, lost>>

Allow(p) ==
  \/ \E g \in Gateway, t \in Tenant : RefuseLocal(p, g, t) \/ AllowLocal(p, g, t)
  \/ RedisAllows(p) \/ RedisRefuses(p)
  \/ AllowsUnheard(p) \/ RefusesUnheard(p) \/ RedisFails(p)

Next == Tick \/ \E p \in Proc : Allow(p)

Spec == Init /\ [][Next]_vars

----------------------------------------------------------------------------
\* Properties

Request == [tenant : Tenant \cup {NoTenant}, stamp : Stamp, sent : Time]

\* Credits stay between nothing and a full bucket, stamps are times of some clock.
LimiterTypeOK ==
  /\ now \in Time
  /\ bucket \in [Gateway -> [Tenant -> 0..Full]]
  /\ zset \in [Tenant -> SUBSET Stamp]
  /\ expiry \in [Tenant -> 0..(MaxTime + Window)]
  /\ pc \in [Proc -> {"idle", "redis"}]
  /\ req \in [Proc -> Request]
  /\ passed \in [Gateway -> [Tenant -> [0..(MaxTime + 1) -> Nat]]]
  /\ admitted \in [Tenant -> [Stamp -> Nat]]
  /\ lost \in [Tenant -> SUBSET Stamp]

\* The requests of tenant t that gateway g let pass from time a to time b.
PassedIn(g, t, a, b) == passed[g][t][b + 1] - passed[g][t][a]

\* In no interval does a gateway let more requests of a tenant pass than a full bucket
\* and what flowed into it meanwhile.
LocalQuota ==
  \A g \in Gateway, t \in Tenant : \A a \in Time : \A b \in a..MaxTime :
    Period * PassedIn(g, t, a, b) <= Full + (b - a)

\* How far a stamp may be from the time at which the script runs with it.
Lag == MaxDelay + MaxSkew

\* What the shared window does guarantee, with late scripts, skewed clocks and keys that
\* expire: in any Window, less the lag, the requests of a tenant that all gateways admit
\* fall on at most Burst different milliseconds.
SharedQuota ==
  \A t \in Tenant : \A a \in Stamp :
    Cardinality({s \in Stamp : /\ admitted[t][s] > 0
                               /\ a <= s /\ s + Lag < a + Window}) <= Burst

\* The bucket of t at g is short of a token because of what t itself sent through g.
SpentLocally(g, t) ==
  \E a \in 0..now : Period * PassedIn(g, t, a, now) + Period > Full + (now - a)

\* The window of t holds Burst stamps of requests of t: admitted, or recorded by a run
\* whose answer was lost.
SpentInWindow(t, s) ==
  Cardinality({x \in Stamp : x + Window > s /\ (admitted[t][x] > 0 \/ x \in lost[t])})
    >= Burst

\* A tenant whose next request would be refused, by a bucket or by Redis, has been
\* granted its share by that bucket or in that window: requests that were refused, and
\* those that Redis never saw, do not count against it.
RefusedForOwnUse ==
  /\ \A g \in Gateway, t \in Tenant : ~HasToken(g, t) => SpentLocally(g, t)
  /\ \A p \in Proc :
       pc[p] = "redis" /\ ~RoomLeft(req[p].tenant, req[p].stamp)
         => SpentInWindow(req[p].tenant, req[p].stamp)
=============================================================================
