----------------------------- MODULE QueryGateway -----------------------------
(***************************************************************************)
(* The request goroutines of one observe-gateway: Server.handleQuery with  *)
(* the JWK set cached by the authenticator, the response cache, and the    *)
(* backends it dispatches to.                                              *)
(*                                                                         *)
(* The goroutines meet in the key set and in the cache. Whatever waits for *)
(* the network is a step of its own, between the read of shared state that *)
(* led to it and the write that follows it; the clock may advance there.   *)
(* The identity provider publishes one signing key after another.          *)
(***************************************************************************)
EXTENDS Naturals, Sequences, FiniteSets

CONSTANTS
  Proc,          \* request goroutines
  Request,       \* the requests clients send
  Untranslated,  \* LogQL and TraceQL queries without a translation to SQL
  TimeText,      \* how each time is written, in UTC
  Fallback,      \* backends.fallback.enabled
  KeysTTL,       \* auth.cache_ttl
  CacheTTL,      \* cache.ttl
  MaxDelay,      \* bound: time from an answer of the network to its last use
  MaxTime,       \* bound: when the model stops
  MaxRequests,   \* bound: how many requests are sent
  MaxKeys        \* bound: how many keys are published

\* query: the text, cut at its bars. start and end: a time, 0 if it is not given. key:
\* the number of the key that signed the token, which is valid but for that, and 0
\* without a token. claim and header: the tenant they name, cut at its bars too: a header
\* is whatever the client writes there.
RequestType ==
  [lang : {"promql", "logql", "traceql", "sql"}, query : Seq(STRING),
   start : 0..Len(TimeText), end : 0..Len(TimeText), step : {"", "1m", "x"},
   normalize : BOOLEAN, key : Nat, claim : Seq(STRING), header : Seq(STRING)]

ASSUME RequestAssumption == \A r \in Request : r \in RequestType

\* RFC 3339 writes different times differently, and none like a step or `normalize`.
ASSUME TextAssumption ==
  /\ TimeText \in Seq(STRING)
  /\ \A i, j \in DOMAIN TimeText : TimeText[i] = TimeText[j] => i = j
  /\ \A i \in DOMAIN TimeText : TimeText[i] \notin {"1m", "normalize=true"}

ASSUME TimeAssumption ==
  /\ KeysTTL \in Nat \ {0} /\ CacheTTL \in Nat \ {0} /\ MaxDelay \in Nat
  /\ MaxTime \in Nat /\ MaxRequests \in Nat /\ MaxKeys \in Nat
ASSUME FallbackAssumption == Fallback \in BOOLEAN

\* A set that was just fetched is used whatever its age, and may by then be one that
\* another goroutine fetched before: two fetches must not take longer than TTL and fetch.
ASSUME TTLAssumption == MaxDelay < KeysTTL

VARIABLES
  now,
  published,  \* the identity provider: when each key was published, in order
  keySet,     \* Authenticator: the key in its set, and fetchedAt
  cache,      \* Cache: the entries of the store
  pc,         \* where each goroutine is
  req,        \* the request it serves
  fetched,    \* the key set it has fetched, and when that was read
  result,     \* the result it has got from a backend
  answer,     \* the status code and the result it answers
  sent        \* how many requests were sent

vars == <<now, published, keySet, cache, pc, req, fetched, result, answer, sent>>

NoTenant == <<>>
NoRequest == [lang |-> "", query |-> <<>>, start |-> 0, end |-> 0, step |-> "",
              normalize |-> FALSE, key |-> 0, claim |-> NoTenant, header |-> NoTenant]
NoKeys   == [key |-> 1, at |-> 0]
NoResult == [of |-> NoRequest, at |-> 0, json |-> TRUE]
NoAnswer == [code |-> 0, result |-> NoResult]

Init ==
  /\ now = 0
  /\ published = <<0>>
  /\ keySet = [key |-> 1, fetchedAt |-> 0]
  /\ cache = {}
  /\ pc = [p \in Proc |-> "idle"]
  /\ req = [p \in Proc |-> NoRequest]
  /\ fetched = [p \in Proc |-> NoKeys]
  /\ result = [p \in Proc |-> NoResult]
  /\ answer = [p \in Proc |-> NoAnswer]
  /\ sent = 0

----------------------------------------------------------------------------
\* What a request asks

Tenant(r) == IF r.claim # NoTenant THEN r.claim ELSE r.header

HasTimeRange(r) == r.start # 0 /\ r.end # 0

\* Refused before authentication: no query, or a step that is no duration.
Malformed(r) == r.query = <<>> \/ r.step = "x"

\* validate: a known language, and for logs and traces a time range.
Valid(r) ==
  \/ r.lang = "promql"
  \/ r.lang \in {"logql", "traceql"} /\ HasTimeRange(r) /\ r.start <= r.end

\* What the backend is sent, and so what its result is a result of. Without both ends a
\* PromQL query is an instant query; the step goes with a PromQL range only, and
\* `normalize` nowhere.
Upstream(r) ==
  LET range == HasTimeRange(r)
  IN  [r EXCEPT !.start = IF range THEN @ ELSE 0, !.end = IF range THEN @ ELSE 0,
                !.step = IF range /\ r.lang = "promql" THEN @ ELSE "",
                !.normalize = FALSE, !.key = 0, !.claim = Tenant(r), !.header = NoTenant]

TimePart(t) == IF t = 0 THEN <<>> ELSE <<TimeText[t]>>
StepPart(x) == IF x = "" THEN <<>> ELSE <<x>>
NormalizePart(given) == IF given THEN <<"normalize=true">> ELSE <<>>

\* A key of query and range only, as if every tenant asked the same store.
TenantlessKey(r) ==
  <<r.lang>> \o r.query \o TimePart(r.start) \o TimePart(r.end) \o StepPart(r.step)
    \o NormalizePart(r.normalize)

\* buildCacheKey: the parts joined by bars, so that a bar of the query or of the tenant
\* looks like one between parts. What is not given leaves no trace, so a lone start and a
\* lone end look alike.
CacheKey(r) ==
  <<r.lang>> \o r.query \o Tenant(r)
    \o TimePart(r.start) \o TimePart(r.end) \o StepPart(r.step)
    \o NormalizePart(r.normalize)

----------------------------------------------------------------------------
Goto(p, next) == pc' = [pc EXCEPT ![p] = next]

\* The handler is about to write this answer.
Answers(p, code, r) ==
  /\ Goto(p, "reply")
  /\ answer' = [answer EXCEPT ![p] = [code |-> code, result |-> r]]

Fails(p, code) == Answers(p, code, NoResult)

\* Time passes, unless an answer of the network has been on its way for too long, and
\* the store drops what has expired.
Tick ==
  /\ now < MaxTime
  /\ \A p \in Proc :
       /\ pc[p] \in {"store", "reread"} => now < fetched[p].at + MaxDelay
       /\ pc[p] = "respond" => now < result[p].at + MaxDelay
  /\ now' = now + 1
  /\ cache' = {e \in cache : now' < e.expires}
  /\ UNCHANGED <<published, keySet, pc, req, fetched, result, answer, sent>>

\* The identity provider publishes a new key in place of the last one.
Rotate ==
  /\ Len(published) < MaxKeys
  /\ published' = Append(published, now)
  /\ UNCHANGED <<now, keySet, cache, pc, req, fetched, result, answer, sent>>

\* A client sends a request; without a token it gets no further than the key set.
Receive(p, r) ==
  /\ pc[p] = "idle"
  /\ sent < MaxRequests
  /\ sent' = sent + 1
  /\ req' = [req EXCEPT ![p] = r]
  /\ \/ Malformed(r) /\ Fails(p, 400)
     \/ ~Malformed(r) /\ r.key = 0 /\ Fails(p, 401)
     \/ ~Malformed(r) /\ r.key # 0 /\ Goto(p, "keys") /\ UNCHANGED answer
  /\ UNCHANGED <<now, published, keySet, cache, fetched, result>>

\* jwt.ParseString accepts the token or refuses it, by the key set k.
Verify(p, k) ==
  \/ req[p].key = k /\ Goto(p, "checks") /\ UNCHANGED answer
  \/ req[p].key # k /\ Fails(p, 401)

\* A key set that, once loaded, is never fetched again.
KeysLoaded == TRUE

\* getKeySet: the set is younger than the TTL.
KeysFresh == now < keySet.fetchedAt + KeysTTL

ReadKeys(p) ==
  /\ pc[p] = "keys"
  /\ \/ KeysFresh /\ Verify(p, keySet.key)
     \/ ~KeysFresh /\ Goto(p, "fetch") /\ UNCHANGED answer
  /\ UNCHANGED <<now, published, keySet, cache, req, fetched, result, sent>>

\* refresh, of as many goroutines as find the set too old: fetch without the lock.
FetchKeys(p) ==
  /\ pc[p] = "fetch"
  /\ fetched' = [fetched EXCEPT ![p] = [key |-> Len(published), at |-> now]]
  /\ Goto(p, "store")
  /\ UNCHANGED <<now, published, keySet, cache, req, result, answer, sent>>

\* A failed fetch fails the request: no old set is used in its place.
FetchFails(p) ==
  /\ pc[p] = "fetch"
  /\ Fails(p, 401)
  /\ UNCHANGED <<now, published, keySet, cache, req, fetched, result, sent>>

\* refresh: store the set under the lock, over one that may be newer.
StoreKeys(p) ==
  /\ pc[p] = "store"
  /\ keySet' = [key |-> fetched[p].key, fetchedAt |-> now]
  /\ Goto(p, "reread")
  /\ UNCHANGED <<now, published, cache, req, fetched, result, answer, sent>>

\* getKeySet reads the set again: another goroutine may have stored one since.
RereadKeys(p) ==
  /\ pc[p] = "reread"
  /\ Verify(p, keySet.key)
  /\ fetched' = [fetched EXCEPT ![p] = NoKeys]
  /\ UNCHANGED <<now, published, keySet, cache, req, result, sent>>

----------------------------------------------------------------------------
Admissible(r) == Tenant(r) # NoTenant /\ Valid(r)

\* An error of Redis taken for an overload.
UnavailableCode(e) == IF e = "ErrRateLimited" THEN 429 ELSE 503

\* Allow refuses the tenant, or fails.
LimitCode(e) == IF e = "ErrRateLimited" THEN 429 ELSE 500

\* Tenant, validation and limiter, in that order.
Check(p) ==
  /\ pc[p] = "checks"
  /\ \/ ~Admissible(req[p]) /\ Fails(p, 400)
     \/ Admissible(req[p]) /\ Goto(p, "lookup") /\ UNCHANGED answer
     \/ /\ Admissible(req[p])
        /\ \E e \in {"ErrRateLimited", "error"} : Fails(p, LimitCode(e))
  /\ UNCHANGED <<now, published, keySet, cache, req, fetched, result, sent>>

CacheHit(p) ==
  /\ pc[p] = "lookup"
  /\ \E e \in cache :
       e.key = CacheKey(req[p]) /\ Answers(p, 200, e.result)
  /\ UNCHANGED <<now, published, keySet, cache, req, fetched, result, sent>>

\* Ristretto may have dropped or evicted any entry.
CacheMiss(p) ==
  /\ pc[p] = "lookup"
  /\ Goto(p, "dispatch")
  /\ UNCHANGED <<now, published, keySet, cache, req, fetched, result, answer, sent>>

Translated(r) == r.lang = "promql" \/ r.query \notin Untranslated

\* Metadata lookup and translation: either may fail.
Dispatch(p) ==
  /\ pc[p] = "dispatch"
  /\ \/ Translated(req[p]) /\ Goto(p, "openobserve") /\ UNCHANGED answer
     \/ Fails(p, 502)
  /\ UNCHANGED <<now, published, keySet, cache, req, fetched, result, sent>>

\* A backend answers with a result, JSON or not.
Got(p) ==
  /\ \E json \in BOOLEAN :
       result' = [result EXCEPT ![p] = [of |-> Upstream(req[p]), at |-> now, json |-> json]]
  /\ Goto(p, "respond")
  /\ UNCHANGED answer

\* OpenObserve answers, fails, or (400, 404, 501) does not support a PromQL query, which
\* then goes to the fallback if there is one.
OpenObserve(p) ==
  /\ pc[p] = "openobserve"
  /\ \/ Got(p)
     \/ Fails(p, 502) /\ UNCHANGED result
     \/ /\ req[p].lang = "promql"
        /\ IF Fallback THEN Goto(p, "fallback") /\ UNCHANGED answer ELSE Fails(p, 400)
        /\ UNCHANGED result
  /\ UNCHANGED <<now, published, keySet, cache, req, fetched, sent>>

\* The fallback answers, or fails: its error takes the place of the first one.
AskFallback(p) ==
  /\ pc[p] = "fallback"
  /\ Got(p) \/ (Fails(p, 502) /\ UNCHANGED result)
  /\ UNCHANGED <<now, published, keySet, cache, req, fetched, sent>>

\* A TTL that is left at 0, which is for ever to ristretto.
NoExpiry == MaxTime + 1

\* SetWithTTL: when an entry set now expires.
Expiry == now + CacheTTL

\* The result goes into the cache and to the client, unless it is no JSON.
Respond(p) ==
  /\ pc[p] = "respond"
  /\ \/ ~result[p].json /\ Fails(p, 500) /\ UNCHANGED cache
     \/ /\ result[p].json
        /\ cache' = {e \in cache : e.key # CacheKey(req[p])} \cup
             {[key |-> CacheKey(req[p]), result |-> result[p], expires |-> Expiry]}
        /\ Answers(p, 200, result[p])
  /\ result' = [result EXCEPT ![p] = NoResult]
  /\ UNCHANGED <<now, published, keySet, req, fetched, sent>>

\* The answer is written, and the handler returns.
Reply(p) ==
  /\ pc[p] = "reply"
  /\ Goto(p, "idle")
  /\ req' = [req EXCEPT ![p] = NoRequest]
  /\ answer' = [answer EXCEPT ![p] = NoAnswer]
  /\ UNCHANGED <<now, published, keySet, cache, fetched, result, sent>>

Serve(p) ==
  \/ ReadKeys(p) \/ FetchKeys(p) \/ FetchFails(p) \/ StoreKeys(p) \/ RereadKeys(p)
  \/ Check(p) \/ CacheHit(p) \/ CacheMiss(p) \/ Dispatch(p) \/ OpenObserve(p)
  \/ AskFallback(p) \/ Respond(p) \/ Reply(p)

Next ==
  \/ Tick \/ Rotate
  \/ \E p \in Proc : Serve(p) \/ \E r \in Request : Receive(p, r)

Spec == Init /\ [][Next]_vars

----------------------------------------------------------------------------
\* Properties

Result == [of : {NoRequest} \cup {Upstream(r) : r \in Request}, at : 0..MaxTime,
           json : BOOLEAN]

\* The codes are those handleQuery sets, times are of the clock, keys are published ones.
GatewayTypeOK ==
  /\ now \in 0..MaxTime
  /\ published \in Seq(0..MaxTime)
  /\ keySet \in [key : 1..Len(published), fetchedAt : 0..now]
  /\ cache \subseteq [key : {CacheKey(r) : r \in Request}, result : Result, expires : Nat]
  /\ pc \in [Proc -> {"idle", "keys", "fetch", "store", "reread", "checks", "lookup",
                      "dispatch", "openobserve", "fallback", "respond", "reply"}]
  /\ req \in [Proc -> Request \cup {NoRequest}]
  /\ fetched \in [Proc -> [key : 1..Len(published), at : 0..now]]
  /\ result \in [Proc -> Result]
  /\ answer \in [Proc -> [code : {0, 200, 400, 401, 429, 500, 502}, result : Result]]
  /\ sent \in 0..MaxRequests

\* A part of a cache key that may stand for a time, a step or `normalize`.
Mark(x) == x \in {"1m", "normalize=true"} \/ \E i \in DOMAIN TimeText : x = TimeText[i]

\* A tenant that is one part of the key, and not like those that follow it.
Plain(tenant) == Len(tenant) = 1 /\ ~Mark(tenant[1])

\* A result of a request with the cache key of r, and between plain tenants one of r.
Own(of, r) ==
  /\ \E q \in Request : of = Upstream(q) /\ CacheKey(q) = CacheKey(r)
  /\ Plain(Tenant(r)) /\ Plain(of.claim) => of = Upstream(r)

\* A client gets the result of a request with the cache key of its own, and between plain
\* tenants that is the result of its own query: of its tenant, language, range and step,
\* whoever filled the cache, and however the cache key names the range. Nothing in the
\* code makes tenants plain: the others may get each other's results.
AnswersOwnQuery ==
  \A p \in Proc : answer[p].code = 200 =>
    answer[p].result.json /\ Own(answer[p].result.of, req[p])

Answered(p, code) == pc[p] # "reply" /\ pc'[p] = "reply" /\ answer'[p].code = code

\* No answer is older than the cache TTL and the longest way of a result to the cache,
\* even when a late result overwrites the entry of a newer one.
AnswersFresh ==
  [][\A p \in Proc :
       Answered(p, 200) => now < answer'[p].result.at + CacheTTL + MaxDelay]_vars

\* Key k was the published one at some moment of millisecond m.
PublishedAt(k, m) ==
  /\ k \in 1..Len(published) /\ published[k] <= m
  /\ k < Len(published) => m <= published[k + 1]

Lagging == {m \in 0..now : now < m + KeysTTL + MaxDelay}

\* Whether a token is accepted or refused, the issuer agreed not long ago: no later than
\* the TTL of the key set and the longest fetch, although goroutines refresh the set at
\* once and one may store an older set over a newer one.
VerdictsFollowIssuer ==
  [][\A p \in Proc :
       LET k == req[p].key
       IN  /\ pc[p] \in {"keys", "reread"} /\ pc'[p] = "checks"
             => \E m \in Lagging : PublishedAt(k, m)
           /\ pc[p] \in {"keys", "reread"} /\ pc'[p] = "reply"
             => \E m \in Lagging : \E j \in 1..Len(published) :
                  j # k /\ PublishedAt(j, m)]_vars
=============================================================================
