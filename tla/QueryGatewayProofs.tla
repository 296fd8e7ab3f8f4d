-------------------------- MODULE QueryGatewayProofs --------------------------
(***************************************************************************)
(* The gateway for every number of goroutines, every set of requests, every *)
(* TTL and delay.                                                          *)
(*                                                                         *)
(* The cache key is not injective, but two admissible requests of plain    *)
(* tenants that share it ask the backend the same (KeysTellApart): the     *)
(* tenant is the last part of the key that is no time, no step and not     *)
(* `normalize`, so it tells where the query ends. Ages are bounded step by *)
(* step: an entry of the cache expires within a TTL and a delay of its     *)
(* result (Young), and the key set was the issuer's within a delay of      *)
(* fetchedAt (KeySetTrue).                                                 *)
(***************************************************************************)
EXTENDS QueryGateway, SequenceTheorems, TLAPS

\* A request that the limiter and the cache see.
Checked(r) == r \in Request /\ Admissible(r) /\ ~Malformed(r)

\* A goroutine that works on a request got past the checks before it.
Underway ==
  \A p \in Proc :
    /\ pc[p] \notin {"idle", "reply"} => req[p] \in Request /\ ~Malformed(req[p])
    /\ pc[p] \in {"lookup", "dispatch", "openobserve", "fallback", "respond"}
         => Checked(req[p])

\* A result is of the request in hand, and an answer waits for its reply.
OwnResults ==
  \A p \in Proc :
    /\ pc[p] = "respond" => result[p].of = Upstream(req[p])
    /\ answer[p].code = 200 => pc[p] = "reply"

\* An entry of the cache is the result of a request with its key.
Faithful ==
  \A e \in cache : /\ e.result.json
                   /\ \E r \in Request : /\ Checked(r) /\ e.key = CacheKey(r)
                                         /\ e.result.of = Upstream(r)

\* An entry is gone within a TTL and a delay of its result.
Young ==
  \A e \in cache : now < e.expires /\ e.expires <= e.result.at + MaxDelay + CacheTTL

\* Answers of the network are used in time.
InTime ==
  \A p \in Proc :
    /\ pc[p] \in {"store", "reread"} => now <= fetched[p].at + MaxDelay
    /\ pc[p] = "respond" => now <= result[p].at + MaxDelay

\* No key was published in the future.
PublishedPast == \A i \in 1..Len(published) : published[i] <= now

\* What was fetched was published at the time.
FetchedTrue ==
  \A p \in Proc :
    /\ pc[p] = "store" => PublishedAt(fetched[p].key, fetched[p].at)
    /\ pc[p] = "reread" => fetched[p].at <= keySet.fetchedAt

\* The key of the set was published not long before the set was stored.
KeySetTrue ==
  \E m \in 0..now : PublishedAt(keySet.key, m) /\ keySet.fetchedAt <= m + MaxDelay

QueryInv == Underway /\ OwnResults /\ Faithful /\ AnswersOwnQuery
AgeInv == Young /\ InTime /\ PublishedPast /\ FetchedTrue /\ KeySetTrue
Inv == GatewayTypeOK /\ QueryInv /\ AgeInv

----------------------------------------------------------------------------
\* Type correctness

Pc == {"idle", "keys", "fetch", "store", "reread", "checks", "lookup",
       "dispatch", "openobserve", "fallback", "respond", "reply"}
Codes == {0, 200, 400, 401, 429, 500, 502}

\* The result of a request that has none yet is typed like one.
LEMMA NoResultIsResult == NoResult \in Result
  BY TimeAssumption DEF NoResult, Result

\* The variables of a gateway that starts are in their domains.
LEMMA TypeInit == Init => GatewayTypeOK
  <1> SUFFICES ASSUME Init PROVE GatewayTypeOK
    OBVIOUS
  <1> USE TimeAssumption
  <1>1. /\ published = <<0>> /\ published \in Seq(0..MaxTime) /\ Len(published) = 1
        /\ now = 0 /\ sent = 0 /\ cache = {}
    BY DEF Init
  <1>2. keySet \in [key : 1..Len(published), fetchedAt : 0..now]
    BY <1>1 DEF Init
  <1>3. fetched \in [Proc -> [key : 1..Len(published), at : 0..now]]
    BY <1>1 DEF Init, NoKeys
  <1>4. /\ pc \in [Proc -> Pc] /\ req \in [Proc -> Request \cup {NoRequest}]
        /\ result \in [Proc -> Result]
        /\ answer \in [Proc -> [code : Codes, result : Result]]
    BY NoResultIsResult DEF Init, Pc, Codes, NoAnswer
  <1>5. QED
    BY <1>1, <1>2, <1>3, <1>4 DEF GatewayTypeOK, Pc, Codes

\* Moves and answers keep their types.
LEMMA GotoTypes ==
  ASSUME pc \in [Proc -> Pc], NEW p \in Proc, NEW next \in Pc, Goto(p, next)
  PROVE  pc' \in [Proc -> Pc]
  BY DEF Goto

\* An answer keeps place and answer of every request typed.
LEMMA AnswersTypes ==
  ASSUME pc \in [Proc -> Pc], answer \in [Proc -> [code : Codes, result : Result]],
         NEW p \in Proc, NEW code \in Codes, NEW r \in Result, Answers(p, code, r)
  PROVE  pc' \in [Proc -> Pc] /\ answer' \in [Proc -> [code : Codes, result : Result]]
  BY DEF Answers, Goto, Pc

\* So does an error.
LEMMA FailsTypes ==
  ASSUME pc \in [Proc -> Pc], answer \in [Proc -> [code : Codes, result : Result]],
         NEW p \in Proc, NEW code \in Codes, Fails(p, code)
  PROVE  pc' \in [Proc -> Pc] /\ answer' \in [Proc -> [code : Codes, result : Result]]
  BY NoResultIsResult, AnswersTypes DEF Fails

\* A result of a backend is a result.
LEMMA GotTypes ==
  ASSUME GatewayTypeOK, NEW p \in Proc, req[p] \in Request, Got(p)
  PROVE  result' \in [Proc -> Result] /\ pc' \in [Proc -> Pc] /\ answer' = answer
  <1>1. PICK json \in BOOLEAN :
          result' = [result EXCEPT ![p] = [of |-> Upstream(req[p]), at |-> now, json |-> json]]
    BY DEF Got
  <1>2. [of |-> Upstream(req[p]), at |-> now, json |-> json] \in Result
    BY DEF Result, GatewayTypeOK
  <1>3. QED
    BY <1>1, <1>2, GotoTypes DEF Got, GatewayTypeOK, Pc

\* Every step keeps the variables in their domains.
LEMMA TypeStep == GatewayTypeOK /\ Underway /\ [Next]_vars => GatewayTypeOK'
  <1> SUFFICES ASSUME GatewayTypeOK, Underway, [Next]_vars PROVE GatewayTypeOK'
    OBVIOUS
  <1> USE TimeAssumption
  <1>0. /\ now \in 0..MaxTime /\ published \in Seq(0..MaxTime) /\ sent \in 0..MaxRequests
        /\ keySet \in [key : 1..Len(published), fetchedAt : 0..now]
        /\ cache \subseteq [key : {CacheKey(r) : r \in Request}, result : Result, expires : Nat]
        /\ pc \in [Proc -> Pc] /\ req \in [Proc -> Request \cup {NoRequest}]
        /\ fetched \in [Proc -> [key : 1..Len(published), at : 0..now]]
        /\ result \in [Proc -> Result]
        /\ answer \in [Proc -> [code : Codes, result : Result]]
    BY DEF GatewayTypeOK, Pc, Codes
  <1>1. CASE Tick
    <2>1. now' = now + 1 /\ now' \in 0..MaxTime /\ cache' \subseteq cache
      BY <1>0, <1>1 DEF Tick
    <2>2. keySet' \in [key : 1..Len(published), fetchedAt : 0..now']
      BY <1>0, <1>1, <2>1 DEF Tick
    <2>3. fetched' \in [Proc -> [key : 1..Len(published), at : 0..now']]
      BY <1>0, <1>1, <2>1 DEF Tick
    <2>4. QED
      BY <1>0, <1>1, <2>1, <2>2, <2>3 DEF Tick, GatewayTypeOK, Pc, Codes
  <1>2. CASE Rotate
    <2>1. published' \in Seq(0..MaxTime) /\ Len(published') = Len(published) + 1
      BY <1>0, <1>2, AppendProperties DEF Rotate
    <2>2. 1..Len(published) \subseteq 1..Len(published')
      BY <1>0, <2>1
    <2>3. keySet' \in [key : 1..Len(published'), fetchedAt : 0..now]
      BY <1>0, <1>2, <2>2 DEF Rotate
    <2>4. fetched' \in [Proc -> [key : 1..Len(published'), at : 0..now]]
      BY <1>0, <1>2, <2>2 DEF Rotate
    <2>5. QED
      BY <1>0, <1>2, <2>1, <2>3, <2>4 DEF Rotate, GatewayTypeOK, Pc, Codes
  <1>3. ASSUME NEW p \in Proc, NEW r \in Request, Receive(p, r) PROVE GatewayTypeOK'
    <2>1. pc' \in [Proc -> Pc] /\ answer' \in [Proc -> [code : Codes, result : Result]]
      BY <1>0, <1>3, FailsTypes, GotoTypes DEF Receive, Pc, Codes
    <2>2. req' \in [Proc -> Request \cup {NoRequest}] /\ sent' \in 0..MaxRequests
      BY <1>0, <1>3 DEF Receive
    <2>3. QED
      BY <1>0, <1>3, <2>1, <2>2 DEF Receive, GatewayTypeOK, Pc, Codes
  <1>4. ASSUME NEW p \in Proc, ReadKeys(p) \/ RereadKeys(p) PROVE GatewayTypeOK'
    <2>1. ASSUME NEW k, Verify(p, k)
          PROVE  pc' \in [Proc -> Pc] /\ answer' \in [Proc -> [code : Codes, result : Result]]
      BY <1>0, <2>1, FailsTypes, GotoTypes DEF Verify, Pc, Codes
    <2>2. pc' \in [Proc -> Pc] /\ answer' \in [Proc -> [code : Codes, result : Result]]
      <3>1. CASE ReadKeys(p)
        BY <1>0, <2>1, <3>1, GotoTypes DEF ReadKeys, Pc
      <3>2. CASE RereadKeys(p)
        BY <2>1, <3>2 DEF RereadKeys
      <3>3. QED
        BY <1>4, <3>1, <3>2
    <2>3. fetched' \in [Proc -> [key : 1..Len(published), at : 0..now]]
      <3>1. 1..Len(published) = 1..Len(published) /\ keySet.key \in 1..Len(published)
        BY <1>0
      <3>2. NoKeys \in [key : 1..Len(published), at : 0..now]
        BY <1>0, <3>1 DEF NoKeys
      <3>3. QED
        BY <1>0, <1>4, <3>2 DEF ReadKeys, RereadKeys
    <2>4. QED
      BY <1>0, <1>4, <2>2, <2>3, SMTT(30) DEF ReadKeys, RereadKeys, GatewayTypeOK, Pc, Codes
  <1>5. ASSUME NEW p \in Proc, FetchKeys(p) \/ FetchFails(p) PROVE GatewayTypeOK'
    <2>1. pc' \in [Proc -> Pc] /\ answer' \in [Proc -> [code : Codes, result : Result]]
      <3>1. CASE FetchKeys(p)
        <4>1. "store" \in Pc /\ Goto(p, "store") /\ answer' = answer
          BY <3>1 DEF FetchKeys, Pc
        <4>2. QED
          BY <1>0, <4>1, GotoTypes
      <3>2. CASE FetchFails(p)
        <4>1. 401 \in Codes /\ Fails(p, 401)
          BY <3>2 DEF FetchFails, Codes
        <4>2. QED
          BY <1>0, <4>1, FailsTypes
      <3>3. QED
        BY <1>5, <3>1, <3>2
    <2>2. Len(published) \in 1..Len(published) /\ now \in 0..now
      BY <1>0
    <2>3. fetched' \in [Proc -> [key : 1..Len(published), at : 0..now]]
      <3>1. [key |-> Len(published), at |-> now] \in [key : 1..Len(published), at : 0..now]
        BY <2>2
      <3>2. fetched' = fetched
              \/ fetched' = [fetched EXCEPT ![p] = [key |-> Len(published), at |-> now]]
        BY <1>5 DEF FetchKeys, FetchFails
      <3>3. QED
        BY <1>0, <3>1, <3>2
    <2>4. UNCHANGED <<now, published, keySet, cache, req, result, sent>>
      BY <1>5 DEF FetchKeys, FetchFails
    <2>5. QED
      BY <1>0, <2>1, <2>3, <2>4 DEF GatewayTypeOK, Pc, Codes
  <1>6. ASSUME NEW p \in Proc, StoreKeys(p) PROVE GatewayTypeOK'
    <2>1. keySet' \in [key : 1..Len(published), fetchedAt : 0..now]
      BY <1>0, <1>6 DEF StoreKeys
    <2>2. pc' \in [Proc -> Pc]
      BY <1>0, <1>6, GotoTypes DEF StoreKeys, Pc
    <2>3. QED
      BY <1>0, <1>6, <2>1, <2>2 DEF StoreKeys, GatewayTypeOK, Pc, Codes
  <1>7. ASSUME NEW p \in Proc, Check(p) \/ CacheMiss(p) \/ Dispatch(p) PROVE GatewayTypeOK'
    <2>1. pc' \in [Proc -> Pc] /\ answer' \in [Proc -> [code : Codes, result : Result]]
      <3>1. CASE \E code \in Codes : Fails(p, code)
        BY <1>0, <3>1, FailsTypes
      <3>2. CASE (\E next \in Pc : Goto(p, next)) /\ UNCHANGED answer
        BY <1>0, <3>2, GotoTypes
      <3>3. \A e : LimitCode(e) \in Codes
        BY DEF LimitCode, Codes
      <3>4. (\E code \in Codes : Fails(p, code))
              \/ ((\E next \in Pc : Goto(p, next)) /\ UNCHANGED answer)
        BY <1>7, <3>3 DEF Check, CacheMiss, Dispatch, Pc, Codes
      <3>5. QED
        BY <3>1, <3>2, <3>4
    <2>2. QED
      BY <1>0, <1>7, <2>1 DEF Check, CacheMiss, Dispatch, GatewayTypeOK, Pc, Codes
  <1>8. ASSUME NEW p \in Proc, CacheHit(p) PROVE GatewayTypeOK'
    <2>1. PICK e \in cache : Answers(p, 200, e.result)
      BY <1>8 DEF CacheHit
    <2>2. e.result \in Result /\ 200 \in Codes
      BY <1>0, <2>1 DEF Codes
    <2>3. pc' \in [Proc -> Pc] /\ answer' \in [Proc -> [code : Codes, result : Result]]
      BY <1>0, <2>1, <2>2, AnswersTypes
    <2>4. QED
      BY <1>0, <1>8, <2>3 DEF CacheHit, GatewayTypeOK, Pc, Codes
  <1>9. ASSUME NEW p \in Proc, OpenObserve(p) \/ AskFallback(p) PROVE GatewayTypeOK'
    <2>1. req[p] \in Request
      BY <1>9 DEF OpenObserve, AskFallback, Underway
    <2>2. /\ pc' \in [Proc -> Pc] /\ answer' \in [Proc -> [code : Codes, result : Result]]
          /\ result' \in [Proc -> Result]
      BY <1>0, <1>9, <2>1, GotTypes, FailsTypes, GotoTypes, SMTT(30)
      DEF OpenObserve, AskFallback, Pc, Codes
    <2>3. QED
      BY <1>0, <1>9, <2>2 DEF OpenObserve, AskFallback, GatewayTypeOK, Pc, Codes
  <1>10. ASSUME NEW p \in Proc, Respond(p) PROVE GatewayTypeOK'
    <2>1. req[p] \in Request
      BY <1>10 DEF Respond, Underway
    <2>2. /\ pc' \in [Proc -> Pc] /\ answer' \in [Proc -> [code : Codes, result : Result]]
      BY <1>0, <1>10, AnswersTypes, FailsTypes, SMTT(30) DEF Respond, Codes
    <2>3. result' \in [Proc -> Result]
      BY <1>0, <1>10, NoResultIsResult DEF Respond
    <2>4. [key |-> CacheKey(req[p]), result |-> result[p], expires |-> Expiry]
            \in [key : {CacheKey(r) : r \in Request}, result : Result, expires : Nat]
      BY <1>0, <2>1 DEF Expiry
    <2>5. cache' \subseteq [key : {CacheKey(r) : r \in Request}, result : Result, expires : Nat]
      BY <1>0, <1>10, <2>4 DEF Respond
    <2>6. QED
      BY <1>0, <1>10, <2>2, <2>3, <2>5 DEF Respond, GatewayTypeOK, Pc, Codes
  <1>11. ASSUME NEW p \in Proc, Reply(p) PROVE GatewayTypeOK'
    <2>1. NoAnswer \in [code : Codes, result : Result]
      BY NoResultIsResult DEF NoAnswer, Codes
    <2>2. /\ pc' \in [Proc -> Pc] /\ answer' \in [Proc -> [code : Codes, result : Result]]
          /\ req' \in [Proc -> Request \cup {NoRequest}]
      BY <1>0, <1>11, <2>1, GotoTypes DEF Reply, Pc
    <2>3. QED
      BY <1>0, <1>11, <2>2 DEF Reply, GatewayTypeOK, Pc, Codes
  <1>12. CASE UNCHANGED vars
    BY <1>0, <1>12 DEF vars, GatewayTypeOK, Pc, Codes
  <1>13. QED
    BY <1>1, <1>2, <1>3, <1>4, <1>5, <1>6, <1>7, <1>8, <1>9, <1>10, <1>11, <1>12
    DEF Next, Serve

----------------------------------------------------------------------------
\* The cache key

\* What a part of a key can be. (The provers do not know what is in STRING.)
Word == STRING \cup {"promql", "logql", "traceql", "sql", "1m", "normalize=true"}

\* Strings may be parts of a key.
LEMMA StringsAreWords == ASSUME NEW s \in Seq(STRING) PROVE s \in Seq(Word)
  <1>1. Len(s) \in Nat /\ s = [i \in 1..Len(s) |-> s[i]] /\ \A i \in 1..Len(s) : s[i] \in STRING
    OBVIOUS
  <1>2. \A i \in 1..Len(s) : s[i] \in Word
    BY <1>1 DEF Word
  <1>3. QED
    BY <1>1, <1>2

\* Adding a part to a key.
LEMMA OnePart ==
  ASSUME NEW s \in Seq(Word), NEW x \in Word
  PROVE  /\ s \o <<x>> \in Seq(Word)
         /\ Len(s \o <<x>>) = Len(s) + 1
         /\ \A i \in 1..Len(s) : (s \o <<x>>)[i] = s[i]
         /\ (s \o <<x>>)[Len(s) + 1] = x
  <1>1. <<x>> \in Seq(Word) /\ Len(<<x>>) = 1 /\ <<x>>[1] = x
    OBVIOUS
  <1>2. QED
    BY <1>1, ConcatProperties

\* Adding none.
LEMMA NoPart == ASSUME NEW s \in Seq(Word) PROVE s \o <<>> = s
  BY ConcatEmptySeq

\* The fields of a request that the key is made of.
LEMMA RequestFields ==
  ASSUME NEW r \in Request, ~Malformed(r)
  PROVE  /\ r.lang \in Word /\ r.query \in Seq(Word) /\ Tenant(r) \in Seq(Word)
         /\ r.start \in 0..Len(TimeText) /\ r.end \in 0..Len(TimeText)
         /\ r.step \in {"", "1m"} /\ r.normalize \in BOOLEAN /\ Len(TimeText) \in Nat
  <1>1. r \in RequestType
    BY RequestAssumption
  <1>2. /\ r.lang \in {"promql", "logql", "traceql", "sql"} /\ r.query \in Seq(STRING)
        /\ r.claim \in Seq(STRING) /\ r.header \in Seq(STRING)
        /\ r.start \in 0..Len(TimeText) /\ r.end \in 0..Len(TimeText)
        /\ r.step \in {"", "1m", "x"} /\ r.normalize \in BOOLEAN
    BY <1>1 DEF RequestType
  <1>3. r.lang \in Word
    BY <1>2 DEF Word
  <1>4. r.query \in Seq(Word)
    BY <1>2, StringsAreWords
  <1>5. Tenant(r) \in Seq(Word)
    <2>1. Tenant(r) \in Seq(STRING)
      BY <1>2 DEF Tenant
    <2>2. QED
      BY <2>1, StringsAreWords
  <1>6. Len(TimeText) \in Nat
    BY TextAssumption
  <1>7. QED
    BY <1>2, <1>3, <1>4, <1>5, <1>6 DEF Malformed

\* A plain tenant is a single word.
LEMMA PlainTenant ==
  ASSUME NEW r \in Request, ~Malformed(r), Plain(Tenant(r))
  PROVE  Tenant(r)[1] \in Word /\ Tenant(r) = <<Tenant(r)[1]>> /\ ~Mark(Tenant(r)[1])
  <1>1. Tenant(r) \in Seq(Word)
    BY RequestFields
  <1>2. Len(Tenant(r)) = 1 /\ ~Mark(Tenant(r)[1])
    BY DEF Plain
  <1>3. QED
    BY <1>1, <1>2

\* The key up to the tenant.
Front(r) == <<r.lang>> \o r.query \o Tenant(r)

\* The key ahead of the times: language, parts of the query, tenant.
LEMMA FrontShape ==
  ASSUME NEW r \in Request, ~Malformed(r), Plain(Tenant(r))
  PROVE  /\ Front(r) \in Seq(Word) /\ Len(Front(r)) = Len(r.query) + 2
         /\ Front(r)[1] = r.lang
         /\ \A i \in 1..Len(r.query) : Front(r)[i + 1] = r.query[i]
         /\ Front(r)[Len(r.query) + 2] = Tenant(r)[1]
  <1> DEFINE s == <<r.lang>> \o r.query
             t == Tenant(r)[1]
  <1>1. r.lang \in Word /\ r.query \in Seq(Word) /\ t \in Word /\ Tenant(r) = <<t>>
    BY RequestFields, PlainTenant
  <1>2. <<r.lang>> \in Seq(Word) /\ Len(<<r.lang>>) = 1 /\ <<r.lang>>[1] = r.lang
    BY <1>1
  <1>3. /\ s \in Seq(Word) /\ Len(s) = 1 + Len(r.query)
        /\ \A i \in 1..Len(s) : s[i] = IF i <= 1 THEN <<r.lang>>[i] ELSE r.query[i - 1]
    BY <1>1, <1>2, ConcatProperties
  <1>4. Len(r.query) \in Nat
    BY <1>1
  <1>5. s[1] = r.lang /\ \A i \in 1..Len(r.query) : s[i + 1] = r.query[i]
    BY <1>2, <1>3, <1>4
  <1>6. Front(r) = s \o Tenant(r)
    BY DEF Front
  <1> HIDE DEF s, t
  <1>7. /\ s \o <<t>> \in Seq(Word)
        /\ Len(s \o <<t>>) = Len(s) + 1
        /\ \A i \in 1..Len(s) : (s \o <<t>>)[i] = s[i]
        /\ (s \o <<t>>)[Len(s) + 1] = t
    BY <1>1, <1>3, OnePart
  <1>8. Front(r) = s \o <<t>>
    BY <1>1, <1>6
  <1>9. /\ Front(r) \in Seq(Word) /\ Len(Front(r)) = Len(r.query) + 2
        /\ Front(r)[1] = r.lang
        /\ \A i \in 1..Len(r.query) : Front(r)[i + 1] = r.query[i]
        /\ Front(r)[Len(r.query) + 2] = t
    BY <1>3, <1>4, <1>5, <1>7, <1>8
  <1>10. QED
    BY <1>9 DEF t

\* One more part at the end of a key, if it is given.
LEMMA MorePart ==
  ASSUME NEW s \in Seq(Word), NEW given \in BOOLEAN, NEW x, given => x \in Word,
         NEW t, t = IF given THEN s \o <<x>> ELSE s \o <<>>
  PROVE  /\ t \in Seq(Word)
         /\ Len(t) = IF given THEN Len(s) + 1 ELSE Len(s)
         /\ \A i \in 1..Len(s) : t[i] = s[i]
         /\ given => t[Len(s) + 1] = x
  BY OnePart, NoPart

\* What is in 0..m and is not zero is in 1..m.
LEMMA NotZero == ASSUME NEW m \in Nat, NEW x \in 0..m, x # 0 PROVE x \in 1..m
  OBVIOUS

\* The key with its times, its step and `normalize`.
LEMMA KeyShape ==
  ASSUME NEW r \in Request, ~Malformed(r), Plain(Tenant(r))
  PROVE  /\ CacheKey(r) \in Seq(Word) /\ Len(r.query) \in Nat
         /\ Len(r.query) + 2 <= Len(CacheKey(r))
         /\ CacheKey(r)[1] = r.lang
         /\ \A i \in 1..Len(r.query) : CacheKey(r)[i + 1] = r.query[i]
         /\ CacheKey(r)[Len(r.query) + 2] = Tenant(r)[1]
         /\ \A i \in (Len(r.query) + 3)..Len(CacheKey(r)) : Mark(CacheKey(r)[i])
         /\ HasTimeRange(r) =>
              /\ Len(r.query) + 4 <= Len(CacheKey(r))
              /\ CacheKey(r)[Len(r.query) + 3] = TimeText[r.start]
              /\ CacheKey(r)[Len(r.query) + 4] = TimeText[r.end]
              /\ r.step = "1m" => /\ Len(r.query) + 5 <= Len(CacheKey(r))
                                  /\ CacheKey(r)[Len(r.query) + 5] = "1m"
              /\ r.step # "1m" => \/ Len(CacheKey(r)) <= Len(r.query) + 4
                                  \/ CacheKey(r)[Len(r.query) + 5] = "normalize=true"
         /\ ~HasTimeRange(r) =>
              \/ Len(CacheKey(r)) <= Len(r.query) + 3
              \/ CacheKey(r)[Len(r.query) + 4] \in {"1m", "normalize=true"}
  <1> DEFINE n == Len(r.query)
             k == Front(r)
             ks == k \o TimePart(r.start)
             ke == ks \o TimePart(r.end)
             kp == ke \o StepPart(r.step)
             kk == kp \o NormalizePart(r.normalize)
             st == r.start # 0
             en == r.end # 0
             sp == r.step # ""
             no == r.normalize = TRUE
             mark == "normalize=true"
  <1>1. /\ r.query \in Seq(Word) /\ n \in Nat /\ Len(TimeText) \in Nat
        /\ r.start \in 0..Len(TimeText) /\ r.end \in 0..Len(TimeText)
        /\ r.step \in {"", "1m"} /\ r.normalize \in BOOLEAN
    <2>1. /\ r.query \in Seq(Word) /\ Len(TimeText) \in Nat
          /\ r.start \in 0..Len(TimeText) /\ r.end \in 0..Len(TimeText)
          /\ r.step \in {"", "1m"} /\ r.normalize \in BOOLEAN
      BY RequestFields
    <2>2. Len(r.query) \in Nat
      BY <2>1, LenProperties
    <2>3. QED
      BY <2>1, <2>2
  <1>2. /\ st => TimeText[r.start] \in Word /\ r.start \in DOMAIN TimeText
        /\ en => TimeText[r.end] \in Word /\ r.end \in DOMAIN TimeText
    <2>1. TimeText \in Seq(Word)
      BY TextAssumption, StringsAreWords
    <2>2. st => r.start \in 1..Len(TimeText)
      BY <1>1, NotZero
    <2>3. en => r.end \in 1..Len(TimeText)
      BY <1>1, NotZero
    <2>4. QED
      BY <2>1, <2>2, <2>3
  <1>3. /\ k \in Seq(Word) /\ Len(k) = n + 2 /\ k[1] = r.lang
        /\ \A i \in 1..n : k[i + 1] = r.query[i]
        /\ k[n + 2] = Tenant(r)[1]
    BY FrontShape
  <1>4. ks = IF st THEN k \o <<TimeText[r.start]>> ELSE k \o <<>>
    BY DEF TimePart
  <1>5. ke = IF en THEN ks \o <<TimeText[r.end]>> ELSE ks \o <<>>
    BY DEF TimePart
  <1>6. kp = IF sp THEN ke \o <<r.step>> ELSE ke \o <<>>
    BY DEF StepPart
  <1>7. kk = IF no THEN kp \o <<mark>> ELSE kp \o <<>>
    BY <1>1 DEF NormalizePart
  <1>8. CacheKey(r) = kk
    BY DEF CacheKey, Front
  <1>9. mark \in Word /\ (sp => r.step \in Word /\ r.step = "1m") /\ (~sp => r.step # "1m")
    BY <1>1 DEF Word
  <1>10. Mark("1m") /\ Mark(mark)
    BY DEF Mark
  <1> HIDE DEF n, k, ks, ke, kp, kk, st, en, sp, no, mark
  <1>11. /\ ks \in Seq(Word)
         /\ Len(ks) = IF st THEN Len(k) + 1 ELSE Len(k)
         /\ \A i \in 1..Len(k) : ks[i] = k[i]
         /\ st => ks[Len(k) + 1] = TimeText[r.start]
    <2>1. st \in BOOLEAN
      BY DEF st
    <2>2. QED
      BY <1>2, <1>3, <1>4, <2>1, MorePart
  <1>12. /\ ke \in Seq(Word)
         /\ Len(ke) = IF en THEN Len(ks) + 1 ELSE Len(ks)
         /\ \A i \in 1..Len(ks) : ke[i] = ks[i]
         /\ en => ke[Len(ks) + 1] = TimeText[r.end]
    <2>1. en \in BOOLEAN
      BY DEF en
    <2>2. QED
      BY <1>2, <1>5, <1>11, <2>1, MorePart
  <1>13. /\ kp \in Seq(Word)
         /\ Len(kp) = IF sp THEN Len(ke) + 1 ELSE Len(ke)
         /\ \A i \in 1..Len(ke) : kp[i] = ke[i]
         /\ sp => kp[Len(ke) + 1] = r.step
    <2>1. sp \in BOOLEAN
      BY DEF sp
    <2>2. QED
      BY <1>6, <1>9, <1>12, <2>1, MorePart
  <1>14. /\ kk \in Seq(Word)
         /\ Len(kk) = IF no THEN Len(kp) + 1 ELSE Len(kp)
         /\ \A i \in 1..Len(kp) : kk[i] = kp[i]
         /\ no => kk[Len(kp) + 1] = mark
    <2>1. no \in BOOLEAN
      BY DEF no
    <2>2. QED
      BY <1>7, <1>9, <1>13, <2>1, MorePart
  <1>15. /\ n \in Nat /\ Len(k) \in Nat /\ Len(ks) \in Nat /\ Len(ke) \in Nat
         /\ Len(kp) \in Nat /\ Len(kk) \in Nat
         /\ Len(k) = n + 2 /\ Len(k) <= Len(ks) /\ Len(ks) <= Len(ke)
         /\ Len(ke) <= Len(kp) /\ Len(kp) <= Len(kk)
    <2>0. n \in Nat
      BY <1>1
    <2>1. n \in Nat /\ Len(k) \in Nat /\ Len(k) = n + 2
      BY <1>3, <2>0
    <2>2. Len(ks) \in Nat /\ Len(k) <= Len(ks)
      BY <1>11, <2>1
    <2>3. Len(ke) \in Nat /\ Len(ks) <= Len(ke)
      BY <1>12, <2>2
    <2>4. Len(kp) \in Nat /\ Len(ke) <= Len(kp)
      BY <1>13, <2>3
    <2>5. Len(kk) \in Nat /\ Len(kp) <= Len(kk)
      BY <1>14, <2>4
    <2>6. QED
      BY <2>1, <2>2, <2>3, <2>4, <2>5
  <1>16. /\ \A i \in 1..Len(kp) : kk[i] = kp[i]
         /\ \A i \in 1..Len(ke) : kk[i] = ke[i]
         /\ \A i \in 1..Len(ks) : kk[i] = ks[i]
         /\ \A i \in 1..Len(k) : kk[i] = k[i]
    <2>1. /\ \A i \in 1..Len(k) : i \in 1..Len(ks)
          /\ \A i \in 1..Len(ks) : i \in 1..Len(ke)
          /\ \A i \in 1..Len(ke) : i \in 1..Len(kp)
      BY <1>15
    <2>2. \A i \in 1..Len(ke) : kk[i] = ke[i]
      BY <1>13, <1>14, <2>1
    <2>3. \A i \in 1..Len(ks) : kk[i] = ks[i]
      BY <1>12, <2>1, <2>2
    <2>4. \A i \in 1..Len(k) : kk[i] = k[i]
      BY <1>11, <2>1, <2>3
    <2>5. QED
      BY <1>14, <2>2, <2>3, <2>4
  <1>17. /\ st => Len(ks) = Len(k) + 1 /\ kk[Len(ks)] = TimeText[r.start]
         /\ en => Len(ke) = Len(ks) + 1 /\ kk[Len(ke)] = TimeText[r.end]
         /\ sp => Len(kp) = Len(ke) + 1 /\ kk[Len(kp)] = "1m"
         /\ no => Len(kk) = Len(kp) + 1 /\ kk[Len(kk)] = mark
         /\ ~st => Len(ks) = Len(k)
         /\ ~en => Len(ke) = Len(ks)
         /\ ~sp => Len(kp) = Len(ke)
         /\ ~no => Len(kk) = Len(kp)
    <2>1. st => Len(ks) = Len(k) + 1 /\ kk[Len(ks)] = TimeText[r.start]
      <3> SUFFICES ASSUME st
                   PROVE  Len(ks) = Len(k) + 1 /\ kk[Len(ks)] = TimeText[r.start]
        OBVIOUS
      <3>1. Len(ks) = Len(k) + 1 /\ ks[Len(ks)] = TimeText[r.start]
        BY <1>11
      <3>2. Len(ks) \in 1..Len(ks)
        BY <1>15, <3>1
      <3>3. QED
        BY <1>16, <3>1, <3>2
    <2>2. en => Len(ke) = Len(ks) + 1 /\ kk[Len(ke)] = TimeText[r.end]
      <3> SUFFICES ASSUME en
                   PROVE  Len(ke) = Len(ks) + 1 /\ kk[Len(ke)] = TimeText[r.end]
        OBVIOUS
      <3>1. Len(ke) = Len(ks) + 1 /\ ke[Len(ke)] = TimeText[r.end]
        BY <1>12
      <3>2. Len(ke) \in 1..Len(ke)
        BY <1>15, <3>1
      <3>3. QED
        BY <1>16, <3>1, <3>2
    <2>3. sp => Len(kp) = Len(ke) + 1 /\ kk[Len(kp)] = "1m"
      <3> SUFFICES ASSUME sp
                   PROVE  Len(kp) = Len(ke) + 1 /\ kk[Len(kp)] = "1m"
        OBVIOUS
      <3>1. Len(kp) = Len(ke) + 1 /\ kp[Len(kp)] = r.step
        BY <1>13
      <3>2. Len(kp) \in 1..Len(kp) /\ r.step = "1m"
        BY <1>9, <1>15, <3>1
      <3>3. QED
        BY <1>16, <3>1, <3>2
    <2>4. no => Len(kk) = Len(kp) + 1 /\ kk[Len(kk)] = mark
      BY <1>14
    <2>5. QED
      BY <1>11, <1>12, <1>13, <1>14, <2>1, <2>2, <2>3, <2>4
  <1>18. \A i \in (n + 3)..Len(kk) : Mark(kk[i])
    <2> SUFFICES ASSUME NEW i \in (n + 3)..Len(kk) PROVE Mark(kk[i])
      OBVIOUS
    <2>1. \/ st /\ i = Len(ks)
          \/ en /\ i = Len(ke)
          \/ sp /\ i = Len(kp)
          \/ no /\ i = Len(kk)
      BY <1>15, <1>17
    <2>2. \A j \in DOMAIN TimeText : Mark(TimeText[j])
      BY DEF Mark
    <2>3. QED
      BY <1>2, <1>10, <1>17, <2>1, <2>2
  <1>19. HasTimeRange(r) =>
           /\ n + 4 <= Len(kk) /\ kk[n + 3] = TimeText[r.start] /\ kk[n + 4] = TimeText[r.end]
           /\ r.step = "1m" => n + 5 <= Len(kk) /\ kk[n + 5] = "1m"
           /\ r.step # "1m" => Len(kk) <= n + 4 \/ kk[n + 5] = mark
    <2> SUFFICES ASSUME st, en
                 PROVE  /\ n + 4 <= Len(kk) /\ kk[n + 3] = TimeText[r.start]
                        /\ kk[n + 4] = TimeText[r.end]
                        /\ r.step = "1m" => n + 5 <= Len(kk) /\ kk[n + 5] = "1m"
                        /\ r.step # "1m" => Len(kk) <= n + 4 \/ kk[n + 5] = mark
      BY DEF HasTimeRange, st, en
    <2>1. Len(ks) = n + 3 /\ Len(ke) = n + 4 /\ n + 4 <= Len(kk)
      BY <1>15, <1>17
    <2>2. sp => Len(kp) = n + 5 /\ n + 5 <= Len(kk)
      BY <1>15, <1>17, <2>1
    <2>3. ~sp => Len(kk) <= n + 4 \/ (no /\ Len(kk) = n + 5)
      BY <1>15, <1>17, <2>1
    <2>4. QED
      BY <1>9, <1>17, <2>1, <2>2, <2>3
  <1>20. ~HasTimeRange(r) => Len(kk) <= n + 3 \/ kk[n + 4] \in {"1m", mark}
    <2> SUFFICES ASSUME ~st \/ ~en, ~(Len(kk) <= n + 3) PROVE kk[n + 4] \in {"1m", mark}
      BY DEF HasTimeRange, st, en
    <2>1. Len(ke) <= n + 3 /\ n + 4 \in (Len(ke) + 1)..Len(kk)
      BY <1>15, <1>17
    <2>2. (sp /\ n + 4 = Len(kp)) \/ (no /\ n + 4 = Len(kk))
      BY <1>15, <1>17, <2>1
    <2>3. QED
      BY <1>17, <2>2
  <1>21. /\ n + 2 <= Len(kk) /\ kk[1] = r.lang /\ kk[n + 2] = Tenant(r)[1]
         /\ \A i \in 1..n : kk[i + 1] = r.query[i]
    <2>1. 1 \in 1..Len(k) /\ n + 2 \in 1..Len(k) /\ \A i \in 1..n : i + 1 \in 1..Len(k)
      BY <1>15
    <2>2. QED
      BY <1>3, <1>15, <1>16, <2>1
  <1>22. QED
    BY <1>8, <1>14, <1>15, <1>18, <1>19, <1>20, <1>21 DEF n, mark

\* Requests that agree but for what Upstream sets.
LEMMA SameRest ==
  ASSUME NEW A, NEW B, NEW C, NEW D, NEW E, NEW F, NEW G, NEW H,
         NEW N,
         NEW x \in [lang : A, query : B, start : C, end : D, step : E, normalize : N,
                    key : F, claim : G, header : H],
         NEW y \in [lang : A, query : B, start : C, end : D, step : E, normalize : N,
                    key : F, claim : G, header : H],
         x.lang = y.lang, x.query = y.query,
         NEW c2, NEW d2, NEW e2, NEW n2, NEW f2, NEW g2, NEW h2
  PROVE  [x EXCEPT !.start = c2, !.end = d2, !.step = e2, !.normalize = n2, !.key = f2,
                   !.claim = g2, !.header = h2]
           = [y EXCEPT !.start = c2, !.end = d2, !.step = e2, !.normalize = n2, !.key = f2,
                       !.claim = g2, !.header = h2]
  OBVIOUS

\* What a backend is sent.
LEMMA UpstreamFields ==
  ASSUME NEW r \in Request, NEW q \in Request,
         r.lang = q.lang, r.query = q.query, Tenant(r) = Tenant(q),
         \/ /\ HasTimeRange(r) /\ HasTimeRange(q)
            /\ r.start = q.start /\ r.end = q.end /\ r.step = q.step
         \/ ~HasTimeRange(r) /\ ~HasTimeRange(q)
  PROVE  Upstream(r) = Upstream(q)
  <1> DEFINE st(x) == IF HasTimeRange(x) THEN x.start ELSE 0
             en(x) == IF HasTimeRange(x) THEN x.end ELSE 0
             sp(x) == IF HasTimeRange(x) /\ x.lang = "promql" THEN x.step ELSE ""
             up(x) == [x EXCEPT !.start = st(x), !.end = en(x), !.step = sp(x),
                                !.normalize = FALSE, !.key = 0, !.claim = Tenant(x),
                                !.header = NoTenant]
  <1>1. Upstream(r) = up(r) /\ Upstream(q) = up(q)
    BY DEF Upstream
  <1>2. st(r) = st(q) /\ en(r) = en(q) /\ sp(r) = sp(q)
    OBVIOUS
  <1>3. r \in RequestType /\ q \in RequestType
    BY RequestAssumption
  <1> HIDE DEF st, en, sp
  <1>4. up(r) = up(q)
    BY <1>2, <1>3, SameRest DEF RequestType
  <1>5. QED
    BY <1>1, <1>4

\* A backend is sent the tenant.
LEMMA UpstreamTenant == ASSUME NEW r \in Request PROVE Upstream(r).claim = Tenant(r)
  <1>1. r \in RequestType
    BY RequestAssumption
  <1>2. QED
    BY <1>1 DEF Upstream, RequestType

\* Both times of a request that gives both.
LEMMA BothTimes ==
  ASSUME NEW r \in Request, ~Malformed(r), HasTimeRange(r)
  PROVE  r.start \in DOMAIN TimeText /\ r.end \in DOMAIN TimeText
  <1>1. /\ r.start \in 0..Len(TimeText) /\ r.end \in 0..Len(TimeText)
        /\ Len(TimeText) \in Nat
    BY RequestFields
  <1>2. r.start # 0 /\ r.end # 0
    BY DEF HasTimeRange
  <1>3. r.start \in 1..Len(TimeText) /\ r.end \in 1..Len(TimeText)
    BY <1>1, <1>2, NotZero
  <1>4. QED
    BY <1>3, TextAssumption

\* With a plain tenant, the parts of a key tell where the query ends.
LEMMA QueryEnds ==
  ASSUME NEW r \in Request, ~Malformed(r), Plain(Tenant(r)),
         NEW q \in Request, ~Malformed(q), Plain(Tenant(q)), CacheKey(r) = CacheKey(q)
  PROVE  ~(Len(r.query) < Len(q.query))
  <1> SUFFICES ASSUME Len(r.query) < Len(q.query) PROVE FALSE
    OBVIOUS
  <1>1. /\ Len(r.query) \in Nat
        /\ \A i \in (Len(r.query) + 3)..Len(CacheKey(r)) : Mark(CacheKey(r)[i])
    BY KeyShape
  <1>2. /\ Len(q.query) \in Nat /\ CacheKey(q) \in Seq(Word)
        /\ Len(q.query) + 2 <= Len(CacheKey(q))
        /\ CacheKey(q)[Len(q.query) + 2] = Tenant(q)[1]
    BY KeyShape
  <1>3. Len(CacheKey(q)) \in Nat
    BY <1>2, LenProperties
  <1>4. Len(q.query) + 2 \in (Len(r.query) + 3)..Len(CacheKey(q))
    BY <1>1, <1>2, <1>3
  <1>5. Mark(Tenant(q)[1])
    BY <1>1, <1>2, <1>4
  <1>6. QED
    BY <1>5, PlainTenant

\* With a plain tenant, the part where the second of two times stands tells if there are
\* two.
LEMMA RangeShows ==
  ASSUME NEW r \in Request, ~Malformed(r), Plain(Tenant(r)),
         NEW q \in Request, ~Malformed(q), Plain(Tenant(q)), CacheKey(r) = CacheKey(q),
         Len(r.query) = Len(q.query), HasTimeRange(r)
  PROVE  HasTimeRange(q)
  <1> SUFFICES ASSUME ~HasTimeRange(q) PROVE FALSE
    OBVIOUS
  <1>1. /\ Len(r.query) \in Nat /\ CacheKey(r) \in Seq(Word)
        /\ Len(r.query) + 4 <= Len(CacheKey(r))
        /\ CacheKey(r)[Len(r.query) + 4] = TimeText[r.end]
    BY KeyShape
  <1>2. \/ Len(CacheKey(r)) <= Len(r.query) + 3
        \/ CacheKey(r)[Len(r.query) + 4] \in {"1m", "normalize=true"}
    BY KeyShape
  <1>3. Len(CacheKey(r)) \in Nat
    BY <1>1, LenProperties
  <1>4. TimeText[r.end] \in {"1m", "normalize=true"}
    BY <1>1, <1>2, <1>3
  <1>5. QED
    BY <1>4, BothTimes, TextAssumption

\* With a plain tenant and both times, the part that follows tells the step.
LEMMA StepShows ==
  ASSUME NEW r \in Request, ~Malformed(r), Plain(Tenant(r)),
         NEW q \in Request, ~Malformed(q), Plain(Tenant(q)), CacheKey(r) = CacheKey(q),
         Len(r.query) = Len(q.query), HasTimeRange(r), HasTimeRange(q), r.step = "1m"
  PROVE  q.step = "1m"
  <1> SUFFICES ASSUME q.step # "1m" PROVE FALSE
    OBVIOUS
  <1>1. /\ Len(r.query) \in Nat /\ CacheKey(r) \in Seq(Word)
        /\ Len(r.query) + 5 <= Len(CacheKey(r))
        /\ CacheKey(r)[Len(r.query) + 5] = "1m"
    BY KeyShape
  <1>2. \/ Len(CacheKey(r)) <= Len(r.query) + 4
        \/ CacheKey(r)[Len(r.query) + 5] = "normalize=true"
    BY KeyShape
  <1>3. Len(CacheKey(r)) \in Nat
    BY <1>1, LenProperties
  <1>4. QED
    BY <1>1, <1>2, <1>3

\* Requests of plain tenants that share a key ask the backend the same.
LEMMA KeysTellApart ==
  ASSUME NEW r \in Request, ~Malformed(r), Plain(Tenant(r)),
         NEW q \in Request, ~Malformed(q), Plain(Tenant(q)), CacheKey(r) = CacheKey(q)
  PROVE  Upstream(r) = Upstream(q)
  <1> DEFINE n == Len(r.query)  k == CacheKey(r)
  <1>1. Len(r.query) = Len(q.query)
    <2>1. Len(r.query) \in Nat /\ Len(q.query) \in Nat
      BY KeyShape
    <2>2. ~(Len(r.query) < Len(q.query)) /\ ~(Len(q.query) < Len(r.query))
      BY QueryEnds
    <2>3. QED
      BY <2>1, <2>2
  <1>2. /\ k[1] = r.lang /\ k[n + 2] = Tenant(r)[1]
        /\ \A i \in 1..n : k[i + 1] = r.query[i]
        /\ HasTimeRange(r) => k[n + 3] = TimeText[r.start] /\ k[n + 4] = TimeText[r.end]
    BY KeyShape
  <1>3. /\ k[1] = q.lang /\ k[n + 2] = Tenant(q)[1]
        /\ \A i \in 1..n : k[i + 1] = q.query[i]
        /\ HasTimeRange(q) => k[n + 3] = TimeText[q.start] /\ k[n + 4] = TimeText[q.end]
    <2> DEFINE m == Len(q.query)  l == CacheKey(q)
    <2>1. /\ l[1] = q.lang /\ l[m + 2] = Tenant(q)[1]
          /\ \A i \in 1..m : l[i + 1] = q.query[i]
          /\ HasTimeRange(q) => l[m + 3] = TimeText[q.start] /\ l[m + 4] = TimeText[q.end]
      BY KeyShape
    <2>2. k = l /\ n = m
      BY <1>1
    <2> HIDE DEF k, l, m, n
    <2>3. QED
      BY <2>1, <2>2
  <1>4. r.query = q.query
    <2>1. r.query \in Seq(Word) /\ q.query \in Seq(Word)
      BY RequestFields
    <2>2. \A i \in 1..Len(r.query) : r.query[i] = q.query[i]
      BY <1>2, <1>3
    <2>3. QED
      BY <1>1, <2>1, <2>2, SeqEqual
  <1>5. Tenant(r) = Tenant(q)
    <2>1. Tenant(r) = <<Tenant(r)[1]>> /\ Tenant(q) = <<Tenant(q)[1]>>
      BY PlainTenant
    <2>2. Tenant(r)[1] = Tenant(q)[1]
      BY <1>2, <1>3
    <2>3. QED
      BY <2>1, <2>2
  <1>6. r.lang = q.lang
    BY <1>2, <1>3
  <1>7. CASE HasTimeRange(r) /\ HasTimeRange(q)
    <2>1. r.start = q.start /\ r.end = q.end
      <3>1. TimeText[r.start] = TimeText[q.start] /\ TimeText[r.end] = TimeText[q.end]
        BY <1>2, <1>3, <1>7
      <3>2. /\ r.start \in DOMAIN TimeText /\ r.end \in DOMAIN TimeText
            /\ q.start \in DOMAIN TimeText /\ q.end \in DOMAIN TimeText
        BY <1>7, BothTimes
      <3>3. QED
        BY <3>1, <3>2, TextAssumption
    <2>2. r.step = q.step
      <3>1. r.step \in {"", "1m"} /\ q.step \in {"", "1m"}
        BY RequestFields
      <3>2. r.step = "1m" => q.step = "1m"
        BY <1>1, <1>7, StepShows
      <3>3. q.step = "1m" => r.step = "1m"
        BY <1>1, <1>7, StepShows
      <3>4. CASE r.step = "1m"
        BY <3>2, <3>4
      <3>5. CASE r.step = "" /\ q.step = ""
        BY <3>5
      <3>6. QED
        BY <3>1, <3>3, <3>4, <3>5
    <2>3. QED
      BY <1>4, <1>5, <1>6, <1>7, <2>1, <2>2, UpstreamFields
  <1>8. CASE ~HasTimeRange(r) /\ ~HasTimeRange(q)
    BY <1>4, <1>5, <1>6, <1>8, UpstreamFields
  <1>9. HasTimeRange(r) <=> HasTimeRange(q)
    BY <1>1, RangeShows
  <1>10. QED
    BY <1>7, <1>8, <1>9

\* A result stored under the key of a request is its own, as far as tenants are plain.
LEMMA SameKeyOwn ==
  ASSUME NEW r, NEW q, Checked(r), Checked(q), CacheKey(q) = CacheKey(r)
  PROVE  Own(Upstream(q), r)
  <1>1. r \in Request /\ ~Malformed(r) /\ q \in Request /\ ~Malformed(q)
    BY DEF Checked
  <1>2. ASSUME Plain(Tenant(r)), Plain(Upstream(q).claim) PROVE Upstream(q) = Upstream(r)
    <2>1. Plain(Tenant(q))
      BY <1>1, <1>2, UpstreamTenant
    <2>2. QED
      BY <1>1, <1>2, <2>1, KeysTellApart
  <1>3. QED
    BY <1>1, <1>2 DEF Own

----------------------------------------------------------------------------
\* Whose result is whose

\* The other goroutines stay where they are.
Alone(p) ==
  \A o \in Proc \ {p} : /\ pc'[o] = pc[o] /\ req'[o] = req[o] /\ fetched'[o] = fetched[o]
                        /\ result'[o] = result[o] /\ answer'[o] = answer[o]

\* An answer moves its own request to the end, with that answer, and no other request.
LEMMA AnswersMove ==
  ASSUME GatewayTypeOK, NEW p \in Proc, NEW code, NEW r, Answers(p, code, r)
  PROVE  /\ pc'[p] = "reply" /\ answer'[p].code = code /\ answer'[p].result = r
         /\ \A o \in Proc \ {p} : pc'[o] = pc[o] /\ answer'[o] = answer[o]
  BY DEF Answers, Goto, GatewayTypeOK

\* So does an error.
LEMMA FailsMove ==
  ASSUME GatewayTypeOK, NEW p \in Proc, NEW code, Fails(p, code)
  PROVE  /\ pc'[p] = "reply" /\ answer'[p].code = code
         /\ \A o \in Proc \ {p} : pc'[o] = pc[o] /\ answer'[o] = answer[o]
  BY AnswersMove DEF Fails

\* Going on moves one request only.
LEMMA GotoMove ==
  ASSUME GatewayTypeOK, NEW p \in Proc, NEW next, Goto(p, next)
  PROVE  pc'[p] = next /\ \A o \in Proc \ {p} : pc'[o] = pc[o]
  BY DEF Goto, GatewayTypeOK

\* A result is the one of the question the request asked, read now.
LEMMA GotMove ==
  ASSUME GatewayTypeOK, NEW p \in Proc, Got(p)
  PROVE  /\ pc'[p] = "respond" /\ answer' = answer
         /\ result'[p].of = Upstream(req[p]) /\ result'[p].at = now
         /\ \A o \in Proc \ {p} : pc'[o] = pc[o] /\ result'[o] = result[o]
  <1>1. PICK json \in BOOLEAN :
          result' = [result EXCEPT ![p] = [of |-> Upstream(req[p]), at |-> now, json |-> json]]
    BY DEF Got
  <1>2. result \in [Proc -> Result]
    BY DEF GatewayTypeOK
  <1>3. /\ result'[p] = [of |-> Upstream(req[p]), at |-> now, json |-> json]
        /\ \A o \in Proc \ {p} : result'[o] = result[o]
    BY <1>1, <1>2
  <1>4. QED
    BY <1>3, GotoMove DEF Got

\* A token is accepted if its key is the one compared with, and refused if not.
LEMMA VerifyMove ==
  ASSUME GatewayTypeOK, NEW p \in Proc, NEW k, Verify(p, k)
  PROVE  /\ \/ pc'[p] = "checks" /\ answer' = answer /\ req[p].key = k
            \/ pc'[p] = "reply" /\ answer'[p].code = 401 /\ req[p].key # k
         /\ \A o \in Proc \ {p} : pc'[o] = pc[o] /\ answer'[o] = answer[o]
  BY GotoMove, FailsMove DEF Verify

\* Where an action of a goroutine leads, and that it leaves the others alone.
LEMMA Moves ==
  ASSUME GatewayTypeOK, NEW p \in Proc
  PROVE  /\ ReadKeys(p) => /\ Alone(p) /\ pc[p] = "keys"
                           /\ pc'[p] \in {"checks", "fetch", "reply"}
                           /\ answer' = answer \/ answer'[p].code # 200
         /\ FetchKeys(p) => Alone(p) /\ pc[p] = "fetch" /\ pc'[p] = "store"
         /\ FetchFails(p) => /\ Alone(p) /\ pc[p] = "fetch" /\ pc'[p] = "reply"
                             /\ answer'[p].code # 200
         /\ StoreKeys(p) => Alone(p) /\ pc[p] = "store" /\ pc'[p] = "reread"
         /\ RereadKeys(p) => /\ Alone(p) /\ pc[p] = "reread"
                             /\ pc'[p] \in {"checks", "reply"}
                             /\ answer' = answer \/ answer'[p].code # 200
  <1>1. ASSUME ReadKeys(p)
        PROVE  /\ Alone(p) /\ pc[p] = "keys" /\ pc'[p] \in {"checks", "fetch", "reply"}
               /\ answer' = answer \/ answer'[p].code # 200
    BY <1>1, VerifyMove, GotoMove DEF ReadKeys, Alone
  <1>2. ASSUME FetchKeys(p) PROVE Alone(p) /\ pc[p] = "fetch" /\ pc'[p] = "store"
    BY <1>2, GotoMove DEF FetchKeys, Alone, GatewayTypeOK
  <1>3. ASSUME FetchFails(p)
        PROVE  /\ Alone(p) /\ pc[p] = "fetch" /\ pc'[p] = "reply"
               /\ answer'[p].code # 200
    BY <1>3, FailsMove DEF FetchFails, Alone
  <1>4. ASSUME StoreKeys(p) PROVE Alone(p) /\ pc[p] = "store" /\ pc'[p] = "reread"
    BY <1>4, GotoMove DEF StoreKeys, Alone
  <1>5. ASSUME RereadKeys(p)
        PROVE  /\ Alone(p) /\ pc[p] = "reread" /\ pc'[p] \in {"checks", "reply"}
               /\ answer' = answer \/ answer'[p].code # 200
    BY <1>5, VerifyMove DEF RereadKeys, Alone, GatewayTypeOK
  <1>6. QED
    BY <1>1, <1>2, <1>3, <1>4, <1>5

\* What each statement from the checks on does to its request, and that it is alone in it.
LEMMA LateMoves ==
  ASSUME GatewayTypeOK, NEW p \in Proc
  PROVE  /\ Check(p) => /\ Alone(p) /\ pc[p] = "checks"
                        /\ \/ pc'[p] = "lookup" /\ Admissible(req[p]) /\ answer' = answer
                           \/ pc'[p] = "reply" /\ answer'[p].code # 200
         /\ CacheHit(p) => Alone(p) /\ pc[p] = "lookup" /\ pc'[p] = "reply"
         /\ CacheMiss(p) => Alone(p) /\ pc[p] = "lookup" /\ pc'[p] = "dispatch"
         /\ Dispatch(p) => /\ Alone(p) /\ pc[p] = "dispatch"
                           /\ \/ pc'[p] = "openobserve" /\ answer' = answer
                              \/ pc'[p] = "reply" /\ answer'[p].code # 200
         /\ OpenObserve(p) \/ AskFallback(p) =>
              /\ Alone(p) /\ pc[p] \in {"openobserve", "fallback"}
              /\ \/ /\ pc'[p] = "respond" /\ answer' = answer
                    /\ result'[p].of = Upstream(req[p]) /\ result'[p].at = now
                 \/ pc'[p] = "fallback" /\ answer' = answer
                 \/ pc'[p] = "reply" /\ answer'[p].code # 200
         /\ Respond(p) => Alone(p) /\ pc[p] = "respond" /\ pc'[p] = "reply"
         /\ Reply(p) => /\ Alone(p) /\ pc[p] = "reply" /\ pc'[p] = "idle"
                        /\ answer'[p].code = 0
  <1>1. ASSUME Check(p)
        PROVE  /\ Alone(p) /\ pc[p] = "checks"
               /\ \/ pc'[p] = "lookup" /\ Admissible(req[p]) /\ answer' = answer
                  \/ pc'[p] = "reply" /\ answer'[p].code # 200
    <2>1. \A e : LimitCode(e) # 200
      BY DEF LimitCode
    <2>2. QED
      BY <1>1, <2>1, GotoMove, FailsMove DEF Check, Alone
  <1>2. ASSUME CacheHit(p) PROVE Alone(p) /\ pc[p] = "lookup" /\ pc'[p] = "reply"
    BY <1>2, AnswersMove DEF CacheHit, Alone
  <1>3. ASSUME CacheMiss(p) PROVE Alone(p) /\ pc[p] = "lookup" /\ pc'[p] = "dispatch"
    BY <1>3, GotoMove DEF CacheMiss, Alone
  <1>4. ASSUME Dispatch(p)
        PROVE  /\ Alone(p) /\ pc[p] = "dispatch"
               /\ \/ pc'[p] = "openobserve" /\ answer' = answer
                  \/ pc'[p] = "reply" /\ answer'[p].code # 200
    BY <1>4, GotoMove, FailsMove DEF Dispatch, Alone
  <1>5. ASSUME OpenObserve(p) \/ AskFallback(p)
        PROVE  /\ Alone(p) /\ pc[p] \in {"openobserve", "fallback"}
               /\ \/ /\ pc'[p] = "respond" /\ answer' = answer
                     /\ result'[p].of = Upstream(req[p]) /\ result'[p].at = now
                  \/ pc'[p] = "fallback" /\ answer' = answer
                  \/ pc'[p] = "reply" /\ answer'[p].code # 200
    BY <1>5, GotoMove, FailsMove, GotMove DEF OpenObserve, AskFallback, Alone
  <1>6. ASSUME Respond(p) PROVE Alone(p) /\ pc[p] = "respond" /\ pc'[p] = "reply"
    BY <1>6, FailsMove, AnswersMove DEF Respond, Alone, GatewayTypeOK
  <1>7. ASSUME Reply(p)
        PROVE  Alone(p) /\ pc[p] = "reply" /\ pc'[p] = "idle" /\ answer'[p].code = 0
    BY <1>7, GotoMove DEF Reply, Alone, GatewayTypeOK, NoAnswer
  <1>8. QED
    BY <1>1, <1>2, <1>3, <1>4, <1>5, <1>6, <1>7

\* A request that arrives is refused at once or waits for the key set.
LEMMA ReceiveMoves ==
  ASSUME GatewayTypeOK, NEW p \in Proc, NEW r \in Request, Receive(p, r)
  PROVE  /\ Alone(p) /\ pc[p] = "idle" /\ req'[p] = r
         /\ \/ pc'[p] = "reply" /\ answer'[p].code # 200
            \/ pc'[p] = "keys" /\ ~Malformed(r) /\ answer' = answer
  <1>1. req'[p] = r /\ \A o \in Proc \ {p} : req'[o] = req[o]
    BY DEF Receive, GatewayTypeOK
  <1>2. QED
    BY <1>1, GotoMove, FailsMove DEF Receive, Alone

\* A request that is served was well formed, and behind the checks it has passed them.
LEMMA UnderwayStep == GatewayTypeOK /\ Underway /\ [Next]_vars => Underway'
  <1> SUFFICES ASSUME GatewayTypeOK, Underway, [Next]_vars, NEW o \in Proc
               PROVE  /\ pc'[o] \notin {"idle", "reply"}
                           => req'[o] \in Request /\ ~Malformed(req'[o])
                      /\ pc'[o] \in {"lookup", "dispatch", "openobserve", "fallback", "respond"}
                           => Checked(req'[o])
    BY DEF Underway
  <1>0. /\ pc[o] \notin {"idle", "reply"} => req[o] \in Request /\ ~Malformed(req[o])
        /\ pc[o] \in {"lookup", "dispatch", "openobserve", "fallback", "respond"}
             => Checked(req[o])
    BY DEF Underway
  <1>1. CASE pc' = pc /\ req' = req
    BY <1>0, <1>1
  <1>2. CASE \E p \in Proc : p # o /\ Alone(p)
    BY <1>0, <1>2 DEF Alone
  <1>3. ASSUME NEW r \in Request, Receive(o, r)
        PROVE  /\ pc'[o] \notin {"idle", "reply"}
                    => req'[o] \in Request /\ ~Malformed(req'[o])
               /\ pc'[o] \in {"lookup", "dispatch", "openobserve", "fallback", "respond"}
                    => Checked(req'[o])
    BY <1>3, ReceiveMoves
  <1>4. CASE Check(o)
    <2>1. req' = req /\ pc[o] = "checks"
      BY <1>4 DEF Check
    <2>2. (pc'[o] = "lookup" /\ Admissible(req[o])) \/ pc'[o] = "reply"
      BY <1>4, LateMoves
    <2>3. QED
      BY <1>0, <2>1, <2>2 DEF Checked
  <1>5. CASE ReadKeys(o) \/ FetchKeys(o) \/ FetchFails(o) \/ StoreKeys(o) \/ RereadKeys(o)
    <2>1. req' = req
      BY <1>5 DEF ReadKeys, FetchKeys, FetchFails, StoreKeys, RereadKeys
    <2>2. /\ pc[o] \notin {"idle", "reply"}
          /\ pc'[o] \in {"checks", "fetch", "store", "reread", "reply"}
      BY <1>5, Moves
    <2>3. QED
      BY <1>0, <2>1, <2>2
  <1>6. CASE CacheHit(o) \/ CacheMiss(o) \/ Dispatch(o) \/ OpenObserve(o) \/ AskFallback(o)
               \/ Respond(o)
    <2>1. req' = req
      BY <1>6 DEF CacheHit, CacheMiss, Dispatch, OpenObserve, AskFallback, Respond
    <2>2. pc[o] \in {"lookup", "dispatch", "openobserve", "fallback", "respond"}
      BY <1>6, LateMoves
    <2>3. QED
      BY <1>0, <2>1, <2>2
  <1>7. CASE Reply(o)
    BY <1>7, LateMoves
  <1>8. \A p \in Proc : Serve(p) \/ (\E r \in Request : Receive(p, r)) => Alone(p)
    BY Moves, LateMoves, ReceiveMoves DEF Serve
  <1>9. CASE Tick \/ Rotate \/ UNCHANGED vars
    BY <1>1, <1>9 DEF Tick, Rotate, vars
  <1>10. QED
    BY <1>2, <1>3, <1>4, <1>5, <1>6, <1>7, <1>8, <1>9 DEF Next, Serve

\* For a given goroutine a step is the clock, the issuer, another goroutine, or its own.
LEMMA EveryStep ==
  ASSUME GatewayTypeOK, [Next]_vars, NEW o \in Proc
  PROVE  \/ UNCHANGED <<pc, req, fetched, result, answer>> /\ (Tick \/ Rotate \/ UNCHANGED vars)
         \/ \E p \in Proc : p # o /\ Alone(p)
         \/ Serve(o)
         \/ \E r \in Request : Receive(o, r)
  <1>1. \A p \in Proc : Serve(p) \/ (\E r \in Request : Receive(p, r)) => Alone(p)
    BY Moves, LateMoves, ReceiveMoves DEF Serve
  <1>2. CASE Tick \/ Rotate \/ UNCHANGED vars
    BY <1>2 DEF Tick, Rotate, vars
  <1>3. QED
    BY <1>1, <1>2 DEF Next

\* A result that a request holds is always of its own question.
LEMMA OwnStep == GatewayTypeOK /\ OwnResults /\ [Next]_vars => OwnResults'
  <1> SUFFICES ASSUME GatewayTypeOK, OwnResults, [Next]_vars, NEW o \in Proc
               PROVE  /\ pc'[o] = "respond" => result'[o].of = Upstream(req'[o])
                      /\ answer'[o].code = 200 => pc'[o] = "reply"
    BY DEF OwnResults
  <1>0. /\ pc[o] = "respond" => result[o].of = Upstream(req[o])
        /\ answer[o].code = 200 => pc[o] = "reply"
    BY DEF OwnResults
  <1>1. CASE UNCHANGED <<pc, req, fetched, result, answer>>
    BY <1>0, <1>1
  <1>2. CASE \E p \in Proc : p # o /\ Alone(p)
    BY <1>0, <1>2 DEF Alone
  <1>3. ASSUME NEW r \in Request, Receive(o, r)
        PROVE  /\ pc'[o] = "respond" => result'[o].of = Upstream(req'[o])
               /\ answer'[o].code = 200 => pc'[o] = "reply"
    BY <1>0, <1>3, ReceiveMoves
  <1>4. CASE OpenObserve(o) \/ AskFallback(o)
    <2>1. req' = req
      BY <1>4 DEF OpenObserve, AskFallback
    <2>2. QED
      BY <1>0, <1>4, <2>1, LateMoves
  <1>5. CASE ReadKeys(o) \/ FetchKeys(o) \/ FetchFails(o) \/ StoreKeys(o) \/ RereadKeys(o)
    <2>1. FetchKeys(o) \/ StoreKeys(o) => answer' = answer
      BY DEF FetchKeys, StoreKeys
    <2>2. QED
      BY <1>0, <1>5, <2>1, Moves
  <1>6. CASE Check(o) \/ CacheHit(o) \/ CacheMiss(o) \/ Dispatch(o) \/ Respond(o) \/ Reply(o)
    <2>1. CacheMiss(o) => answer' = answer
      BY DEF CacheMiss
    <2>2. QED
      BY <1>0, <1>6, <2>1, LateMoves
  <1>7. QED
    BY <1>1, <1>2, <1>3, <1>4, <1>5, <1>6, EveryStep DEF Serve

\* Only Respond fills the cache.
LEMMA CacheFilled ==
  ASSUME [Next]_vars, \A p \in Proc : ~Respond(p)
  PROVE  cache' \subseteq cache
  <1>1. Tick => cache' \subseteq cache
    BY DEF Tick
  <1>2. Rotate \/ UNCHANGED vars => cache' = cache
    BY DEF Rotate, vars
  <1>3. \A p \in Proc : \A r \in Request : Receive(p, r) => cache' = cache
    BY DEF Receive
  <1>4. \A p \in Proc : Serve(p) => Respond(p) \/ cache' = cache
    BY DEF Serve, ReadKeys, FetchKeys, FetchFails, StoreKeys, RereadKeys, Check, CacheHit,
           CacheMiss, Dispatch, OpenObserve, AskFallback, Reply
  <1>5. QED
    BY <1>1, <1>2, <1>3, <1>4 DEF Next

\* What is cached under a key is the result of a request with that key.
LEMMA FaithfulStep ==
  GatewayTypeOK /\ Underway /\ OwnResults /\ Faithful /\ [Next]_vars => Faithful'
  <1> SUFFICES ASSUME GatewayTypeOK, Underway, OwnResults, Faithful, [Next]_vars,
                      NEW e \in cache'
               PROVE  /\ e.result.json
                      /\ \E r \in Request : /\ Checked(r) /\ e.key = CacheKey(r)
                                            /\ e.result.of = Upstream(r)
    BY DEF Faithful
  <1>1. CASE e \in cache
    BY <1>1 DEF Faithful
  <1>2. ASSUME NEW p \in Proc, Respond(p), e \notin cache
        PROVE  /\ e.result.json
               /\ \E r \in Request : /\ Checked(r) /\ e.key = CacheKey(r)
                                     /\ e.result.of = Upstream(r)
    <2>1. /\ result[p].json
          /\ e = [key |-> CacheKey(req[p]), result |-> result[p], expires |-> Expiry]
      BY <1>2 DEF Respond
    <2>2. Checked(req[p]) /\ req[p] \in Request /\ result[p].of = Upstream(req[p])
      BY <1>2 DEF Underway, OwnResults, Respond
    <2>3. QED
      BY <2>1, <2>2
  <1>3. (\A p \in Proc : ~Respond(p)) => cache' \subseteq cache
    BY CacheFilled
  <1>4. QED
    BY <1>1, <1>2, <1>3

\* Every answer is an own one: from a backend it is, and from the cache keys tell apart.
LEMMA AnswersStep ==
  GatewayTypeOK /\ QueryInv /\ [Next]_vars => AnswersOwnQuery'
  <1> DEFINE Good(o) == answer'[o].code = 200 =>
                          answer'[o].result.json /\ Own(answer'[o].result.of, req'[o])
  <1> SUFFICES ASSUME GatewayTypeOK, QueryInv, [Next]_vars, NEW o \in Proc PROVE Good(o)
    BY DEF AnswersOwnQuery, Own
  <1>0. /\ answer[o].code = 200 => answer[o].result.json /\ Own(answer[o].result.of, req[o])
        /\ pc[o] # "reply" => answer[o].code # 200
        /\ pc[o] = "respond" => result[o].of = Upstream(req[o])
        /\ pc[o] = "lookup" => Checked(req[o])
    BY DEF QueryInv, AnswersOwnQuery, OwnResults, Underway
  <1>1. CASE UNCHANGED <<pc, req, fetched, result, answer>>
    BY <1>0, <1>1
  <1>2. CASE \E p \in Proc : p # o /\ Alone(p)
    BY <1>0, <1>2 DEF Alone
  <1>3. CASE \E r \in Request : Receive(o, r)
    BY <1>0, <1>3, ReceiveMoves
  <1>4. CASE CacheHit(o)
    <2>1. PICK e \in cache : e.key = CacheKey(req[o]) /\ Answers(o, 200, e.result)
      BY <1>4 DEF CacheHit
    <2>2. PICK r \in Request : Checked(r) /\ e.key = CacheKey(r) /\ e.result.of = Upstream(r)
      BY DEF QueryInv, Faithful
    <2>3. e.result.json
      BY DEF QueryInv, Faithful
    <2>4. req' = req /\ pc[o] = "lookup"
      BY <1>4 DEF CacheHit
    <2>5. Own(Upstream(r), req[o])
      BY <1>0, <2>1, <2>2, <2>4, SameKeyOwn
    <2>6. answer'[o].result = e.result
      BY <2>1, AnswersMove
    <2>7. QED
      BY <2>2, <2>3, <2>4, <2>5, <2>6
  <1>5. CASE Respond(o)
    <2>1. req' = req /\ pc[o] = "respond"
      BY <1>5 DEF Respond
    <2>2. \/ Fails(o, 500)
          \/ result[o].json /\ Answers(o, 200, result[o])
      BY <1>5 DEF Respond
    <2>3. Own(result[o].of, req[o])
      <3>1. Checked(req[o]) /\ result[o].of = Upstream(req[o])
        BY <1>0, <2>1 DEF QueryInv, Underway
      <3>2. QED
        BY <3>1, SameKeyOwn
    <2>4. QED
      BY <1>0, <2>1, <2>2, <2>3, FailsMove, AnswersMove
  <1>6. CASE ReadKeys(o) \/ FetchKeys(o) \/ FetchFails(o) \/ StoreKeys(o) \/ RereadKeys(o)
    <2>1. FetchKeys(o) \/ StoreKeys(o) => answer' = answer
      BY DEF FetchKeys, StoreKeys
    <2>2. QED
      BY <1>0, <1>6, <2>1, Moves
  <1>7. CASE Check(o) \/ CacheMiss(o) \/ Dispatch(o) \/ OpenObserve(o) \/ AskFallback(o)
               \/ Reply(o)
    <2>1. CacheMiss(o) => answer' = answer
      BY DEF CacheMiss
    <2>2. QED
      BY <1>0, <1>7, <2>1, LateMoves
  <1>8. QED
    BY <1>1, <1>2, <1>3, <1>4, <1>5, <1>6, <1>7, EveryStep DEF Serve

\* At the start nothing is cached or answered.
LEMMA QueryInit == Init => QueryInv
  BY DEF Init, QueryInv, Underway, OwnResults, Faithful, AnswersOwnQuery, NoAnswer

\* The part of the invariant about questions and answers is inductive.
LEMMA QueryStep == GatewayTypeOK /\ QueryInv /\ [Next]_vars => QueryInv'
  BY UnderwayStep, OwnStep, FaithfulStep, AnswersStep DEF QueryInv

----------------------------------------------------------------------------
\* Ages

\* The clock goes on by ticks only, and never back.
LEMMA Clock ==
  ASSUME GatewayTypeOK, [Next]_vars
  PROVE  /\ now \in Nat /\ now' \in Nat /\ now <= now' /\ (Tick \/ now' = now)
         /\ KeysTTL \in Nat /\ CacheTTL \in Nat /\ CacheTTL # 0 /\ MaxDelay \in Nat
  <1>1. /\ now \in Nat
        /\ KeysTTL \in Nat /\ CacheTTL \in Nat /\ CacheTTL # 0 /\ MaxDelay \in Nat
    BY TimeAssumption DEF GatewayTypeOK
  <1>2. Tick => now' = now + 1
    BY DEF Tick
  <1>3. Tick \/ now' = now
    <2>1. Rotate \/ UNCHANGED vars => now' = now
      BY DEF Rotate, vars
    <2>2. \A p \in Proc : \A r \in Request : Receive(p, r) => now' = now
      BY DEF Receive
    <2>3. \A p \in Proc : Serve(p) => now' = now
      BY DEF Serve, ReadKeys, FetchKeys, FetchFails, StoreKeys, RereadKeys, Check, CacheHit,
             CacheMiss, Dispatch, OpenObserve, AskFallback, Respond, Reply
    <2>4. QED
      BY <2>1, <2>2, <2>3 DEF Next
  <1>4. QED
    BY <1>1, <1>2, <1>3

\* The times of an entry, of what was fetched and of a result.
LEMMA Times ==
  ASSUME GatewayTypeOK
  PROVE  /\ \A e \in cache : e.expires \in Nat /\ e.result.at \in Nat
         /\ \A p \in Proc : /\ fetched[p].at \in Nat /\ fetched[p].at <= now
                            /\ result[p].at \in Nat
         /\ keySet.fetchedAt \in Nat /\ keySet.fetchedAt <= now
  <1>1. now \in Nat /\ MaxTime \in Nat
    BY TimeAssumption DEF GatewayTypeOK
  <1>2. ASSUME NEW e \in cache PROVE e.expires \in Nat /\ e.result.at \in Nat
    <2>1. e.expires \in Nat /\ e.result \in Result
      BY DEF GatewayTypeOK
    <2>2. QED
      BY <1>1, <2>1 DEF Result
  <1>3. ASSUME NEW p \in Proc
        PROVE  fetched[p].at \in Nat /\ fetched[p].at <= now /\ result[p].at \in Nat
    <2>1. fetched[p].at \in 0..now /\ result[p].at \in 0..MaxTime
      BY DEF GatewayTypeOK, Result
    <2>2. QED
      BY <1>1, <2>1
  <1>4. keySet.fetchedAt \in 0..now
    BY DEF GatewayTypeOK
  <1>5. QED
    BY <1>1, <1>2, <1>3, <1>4

\* An entry of the cache expires within a TTL and a delay of its result, at every step.
LEMMA YoungStep == GatewayTypeOK /\ Young /\ InTime /\ [Next]_vars => Young'
  <1> SUFFICES ASSUME GatewayTypeOK, Young, InTime, [Next]_vars, NEW e \in cache'
               PROVE  now' < e.expires /\ e.expires <= e.result.at + MaxDelay + CacheTTL
    BY DEF Young
  <1>1. CASE Tick
    BY <1>1 DEF Tick, Young
  <1>2. ASSUME NEW p \in Proc, Respond(p), e \notin cache
        PROVE  now' < e.expires /\ e.expires <= e.result.at + MaxDelay + CacheTTL
    <2>1. e = [key |-> CacheKey(req[p]), result |-> result[p], expires |-> now + CacheTTL]
      BY <1>2 DEF Respond, Expiry
    <2>2. e.expires = now + CacheTTL /\ e.result.at = result[p].at
      BY <2>1
    <2>3. now' = now /\ now <= result[p].at + MaxDelay
      BY <1>2 DEF Respond, InTime
    <2>4. result[p].at \in Nat
      BY Times
    <2>5. QED
      BY <2>2, <2>3, <2>4, Clock
  <1>3. CASE e \in cache /\ ~Tick
    BY <1>3, Clock DEF Young
  <1>4. (\A p \in Proc : ~Respond(p)) => cache' \subseteq cache
    BY CacheFilled
  <1>5. QED
    BY <1>1, <1>2, <1>3, <1>4

\* Goroutines other than those that fetch keep what they have fetched.
LEMMA FetchedKept ==
  ASSUME GatewayTypeOK, [Next]_vars, NEW o \in Proc
  PROVE  \/ FetchKeys(o)
         \/ StoreKeys(o)
         \/ fetched'[o] = fetched[o] /\ pc'[o] = pc[o]
         \/ pc'[o] \notin {"store", "reread"}
  <1>1. Serve(o) => FetchKeys(o) \/ StoreKeys(o) \/ pc'[o] \notin {"store", "reread"}
    BY Moves, LateMoves DEF Serve
  <1>2. (\E r \in Request : Receive(o, r)) => pc'[o] \notin {"store", "reread"}
    BY ReceiveMoves
  <1>3. QED
    BY <1>1, <1>2, EveryStep DEF Alone

\* What a request has fetched is no older than the delay while it works with it.
LEMMA InTimeStep == GatewayTypeOK /\ InTime /\ [Next]_vars => InTime'
  <1> SUFFICES ASSUME GatewayTypeOK, InTime, [Next]_vars, NEW o \in Proc
               PROVE  /\ pc'[o] \in {"store", "reread"} => now' <= fetched'[o].at + MaxDelay
                      /\ pc'[o] = "respond" => now' <= result'[o].at + MaxDelay
    BY DEF InTime
  <1>0. /\ pc[o] \in {"store", "reread"} => now <= fetched[o].at + MaxDelay
        /\ pc[o] = "respond" => now <= result[o].at + MaxDelay
        /\ fetched[o].at \in Nat /\ result[o].at \in Nat
        /\ now \in Nat /\ MaxDelay \in Nat
    BY Times, Clock DEF InTime
  <1>1. CASE Tick
    <2>1. /\ pc[o] \in {"store", "reread"} => now < fetched[o].at + MaxDelay
          /\ pc[o] = "respond" => now < result[o].at + MaxDelay
          /\ now' = now + 1 /\ pc' = pc /\ fetched' = fetched /\ result' = result
      BY <1>1 DEF Tick
    <2>2. QED
      BY <1>0, <2>1
  <1>2. CASE ~Tick
    <2>1. now' = now
      BY <1>2, Clock
    <2>2. ASSUME pc'[o] \in {"store", "reread"} PROVE now' <= fetched'[o].at + MaxDelay
      <3>1. CASE FetchKeys(o)
        <4>1. fetched'[o].at = now
          BY <3>1 DEF FetchKeys, GatewayTypeOK
        <4>2. QED
          BY <1>0, <2>1, <4>1
      <3>2. CASE StoreKeys(o)
        BY <1>0, <2>1, <3>2 DEF StoreKeys
      <3>3. CASE fetched'[o] = fetched[o] /\ pc'[o] = pc[o]
        BY <1>0, <2>1, <2>2, <3>3
      <3>4. QED
        BY <2>2, <3>1, <3>2, <3>3, FetchedKept
    <2>3. ASSUME pc'[o] = "respond" PROVE now' <= result'[o].at + MaxDelay
      <3>1. CASE Serve(o)
        <4>1. result'[o].at = now
          BY <2>3, <3>1, Moves, LateMoves DEF Serve
        <4>2. QED
          BY <1>0, <2>1, <4>1
      <3>2. (pc'[o] = pc[o] /\ result'[o] = result[o]) \/ Serve(o)
        BY <2>3, EveryStep, ReceiveMoves DEF Alone
      <3>3. QED
        BY <1>0, <2>1, <2>3, <3>1, <3>2
    <2>4. QED
      BY <2>2, <2>3
  <1>3. QED
    BY <1>1, <1>2

\* PublishedAt, of the keys that were published until then.
Pub(s, k, m) == /\ k \in 1..Len(s) /\ s[k] <= m
                /\ k < Len(s) => m <= s[k + 1]

\* Only the issuer publishes keys.
LEMMA PublishedStays ==
  ASSUME [Next]_vars
  PROVE  Rotate \/ published' = published
  <1>1. Tick \/ UNCHANGED vars => published' = published
    BY DEF Tick, vars
  <1>2. \A p \in Proc : \A r \in Request : Receive(p, r) => published' = published
    BY DEF Receive
  <1>3. \A p \in Proc : Serve(p) => published' = published
    BY DEF Serve, ReadKeys, FetchKeys, FetchFails, StoreKeys, RereadKeys, Check, CacheHit,
           CacheMiss, Dispatch, OpenObserve, AskFallback, Respond, Reply
  <1>4. QED
    BY <1>1, <1>2, <1>3 DEF Next

\* A key that was published in the past is no longer so later on, but it was.
LEMMA StillPublished ==
  ASSUME GatewayTypeOK, [Next]_vars, NEW k, NEW m \in 0..now, Pub(published, k, m)
  PROVE  Pub(published', k, m)
  <1>1. now \in Nat /\ published \in Seq(0..MaxTime) /\ Len(published) \in Nat
    BY Clock DEF GatewayTypeOK
  <1>2. CASE Rotate
    <2>1. /\ published' = Append(published, now) /\ now \in 0..MaxTime
      BY <1>2 DEF Rotate, GatewayTypeOK
    <2>2. /\ Len(published') = Len(published) + 1
          /\ \A i \in 1..Len(published) : published'[i] = published[i]
          /\ published'[Len(published) + 1] = now
      BY <1>1, <2>1, AppendProperties
    <2>3. k \in 1..Len(published) /\ k \in 1..Len(published') /\ published'[k] <= m
      BY <1>1, <2>2 DEF Pub
    <2>4. ASSUME k < Len(published') PROVE m <= published'[k + 1]
      <3>1. CASE k = Len(published)
        BY <1>1, <2>2, <3>1
      <3>2. CASE k < Len(published)
        <4>1. k + 1 \in 1..Len(published)
          BY <1>1, <2>3, <3>2
        <4>2. QED
          BY <2>2, <3>2, <4>1 DEF Pub
      <3>3. QED
        BY <1>1, <2>3, <3>1, <3>2
    <2>5. QED
      BY <2>3, <2>4 DEF Pub
  <1>3. CASE published' = published
    BY <1>3
  <1>4. QED
    BY <1>2, <1>3, PublishedStays

\* A key was published before now.
LEMMA PastStep == GatewayTypeOK /\ PublishedPast /\ [Next]_vars => PublishedPast'
  <1> SUFFICES ASSUME GatewayTypeOK, PublishedPast, [Next]_vars, NEW i \in 1..Len(published')
               PROVE  published'[i] <= now'
    BY DEF PublishedPast
  <1>1. /\ now \in Nat /\ published \in Seq(0..MaxTime) /\ Len(published) \in Nat
        /\ now' \in Nat /\ now <= now'
    BY Clock DEF GatewayTypeOK
  <1>2. CASE Rotate
    <2>1. /\ published' = Append(published, now) /\ now \in 0..MaxTime /\ now' = now
      BY <1>2 DEF Rotate, GatewayTypeOK
    <2>2. /\ Len(published') = Len(published) + 1
          /\ \A j \in 1..Len(published) : published'[j] = published[j]
          /\ published'[Len(published) + 1] = now
      BY <1>1, <2>1, AppendProperties
    <2>3. i \in 1..Len(published) \/ i = Len(published) + 1
      BY <1>1, <2>2
    <2>4. QED
      BY <1>1, <2>1, <2>2, <2>3 DEF PublishedPast
  <1>3. CASE published' = published
    <2>1. published[i] <= now /\ published[i] \in Nat
      <3>1. i \in 1..Len(published)
        BY <1>3
      <3>2. published[i] \in 0..MaxTime
        BY <1>1, <3>1, ElementOfSeq
      <3>3. QED
        BY <3>1, <3>2, TimeAssumption DEF PublishedPast
    <2>2. QED
      BY <1>1, <1>3, <2>1
  <1>4. QED
    BY <1>2, <1>3, PublishedStays

\* Only StoreKeys changes the key set.
LEMMA KeySetStays ==
  ASSUME [Next]_vars
  PROVE  (\E p \in Proc : StoreKeys(p)) \/ keySet' = keySet
  <1>1. Tick \/ Rotate \/ UNCHANGED vars => keySet' = keySet
    BY DEF Tick, Rotate, vars
  <1>2. \A p \in Proc : \A r \in Request : Receive(p, r) => keySet' = keySet
    BY DEF Receive
  <1>3. \A p \in Proc : Serve(p) => StoreKeys(p) \/ keySet' = keySet
    BY DEF Serve, ReadKeys, FetchKeys, FetchFails, RereadKeys, Check, CacheHit,
           CacheMiss, Dispatch, OpenObserve, AskFallback, Respond, Reply
  <1>4. QED
    BY <1>1, <1>2, <1>3 DEF Next

\* A fetched key was the one of the issuer when it was fetched.
LEMMA FetchedTrueStep ==
  GatewayTypeOK /\ PublishedPast /\ FetchedTrue /\ [Next]_vars => FetchedTrue'
  <1> SUFFICES ASSUME GatewayTypeOK, PublishedPast, FetchedTrue, [Next]_vars, NEW o \in Proc
               PROVE  /\ pc'[o] = "store" => Pub(published', fetched'[o].key, fetched'[o].at)
                      /\ pc'[o] = "reread" => fetched'[o].at <= keySet'.fetchedAt
    BY DEF FetchedTrue, PublishedAt, Pub
  <1>0. /\ pc[o] = "store" => Pub(published, fetched[o].key, fetched[o].at)
        /\ pc[o] = "reread" => fetched[o].at <= keySet.fetchedAt
    BY DEF FetchedTrue, PublishedAt, Pub
  <1>1. /\ fetched[o].at \in Nat /\ fetched[o].at <= now /\ now \in Nat
        /\ keySet.fetchedAt \in Nat /\ keySet.fetchedAt <= now
    BY Times, Clock
  <1>2. fetched[o].at \in 0..now
    BY <1>1
  <1>3. ASSUME pc'[o] = "store"
        PROVE  Pub(published', fetched'[o].key, fetched'[o].at)
    <2>1. CASE FetchKeys(o)
      <3>1. fetched'[o].key = Len(published) /\ fetched'[o].at = now /\ published' = published
        BY <2>1 DEF FetchKeys, GatewayTypeOK
      <3>2. Len(published) \in 1..Len(published)
        <4>1. Len(published) \in Nat /\ keySet.key \in 1..Len(published)
          BY DEF GatewayTypeOK
        <4>2. QED
          BY <4>1
      <3>3. published[Len(published)] <= now
        BY <3>2 DEF PublishedPast
      <3>4. ~(Len(published) < Len(published))
        BY <3>2
      <3>5. QED
        BY <3>1, <3>2, <3>3, <3>4 DEF Pub
    <2>2. CASE fetched'[o] = fetched[o] /\ pc'[o] = pc[o]
      BY <1>0, <1>2, <1>3, <2>2, StillPublished
    <2>3. ~StoreKeys(o)
      BY <1>3, Moves
    <2>4. QED
      BY <1>3, <2>1, <2>2, <2>3, FetchedKept
  <1>4. ASSUME pc'[o] = "reread" PROVE fetched'[o].at <= keySet'.fetchedAt
    <2>1. CASE StoreKeys(o)
      <3>1. fetched' = fetched /\ keySet'.fetchedAt = now
        BY <2>1 DEF StoreKeys
      <3>2. QED
        BY <1>1, <3>1
    <2>2. CASE fetched'[o] = fetched[o] /\ pc'[o] = pc[o]
      <3>1. (\E p \in Proc : StoreKeys(p)) => keySet'.fetchedAt = now
        BY DEF StoreKeys
      <3>2. fetched[o].at <= keySet.fetchedAt
        BY <1>0, <1>4, <2>2
      <3>3. QED
        BY <1>1, <2>2, <3>1, <3>2, KeySetStays
    <2>3. ~FetchKeys(o)
      BY <1>4, Moves
    <2>4. QED
      BY <1>4, <2>1, <2>2, <2>3, FetchedKept
  <1>5. QED
    BY <1>3, <1>4

\* The cached key was the one of the issuer within a delay of the time noted with it.
LEMMA KeySetTrueStep ==
  GatewayTypeOK /\ InTime /\ FetchedTrue /\ KeySetTrue /\ [Next]_vars => KeySetTrue'
  <1> SUFFICES ASSUME GatewayTypeOK, InTime, FetchedTrue, KeySetTrue, [Next]_vars
               PROVE  \E m \in 0..now' : /\ Pub(published', keySet'.key, m)
                                         /\ keySet'.fetchedAt <= m + MaxDelay
    BY DEF KeySetTrue, PublishedAt, Pub
  <1>1. now \in Nat /\ now' \in Nat /\ now <= now' /\ MaxDelay \in Nat
    BY Clock
  <1>2. ASSUME NEW p \in Proc, StoreKeys(p)
        PROVE  \E m \in 0..now' : /\ Pub(published', keySet'.key, m)
                                  /\ keySet'.fetchedAt <= m + MaxDelay
    <2>1. /\ pc[p] = "store" /\ published' = published
          /\ keySet'.key = fetched[p].key /\ keySet'.fetchedAt = now
      BY <1>2 DEF StoreKeys
    <2>2. Pub(published, fetched[p].key, fetched[p].at) /\ now <= fetched[p].at + MaxDelay
      BY <2>1 DEF FetchedTrue, InTime, PublishedAt, Pub
    <2>3. fetched[p].at \in Nat /\ fetched[p].at <= now
      BY Times
    <2>4. fetched[p].at \in 0..now'
      BY <1>1, <2>3
    <2>5. QED
      BY <2>1, <2>2, <2>4
  <1>3. CASE keySet' = keySet
    <2>1. PICK m \in 0..now : Pub(published, keySet.key, m) /\ keySet.fetchedAt <= m + MaxDelay
      BY DEF KeySetTrue, PublishedAt, Pub
    <2>2. Pub(published', keySet.key, m)
      BY <2>1, StillPublished
    <2>3. m \in 0..now'
      BY <1>1
    <2>4. QED
      BY <1>3, <2>1, <2>2, <2>3
  <1>4. QED
    BY <1>2, <1>3, KeySetStays

\* At the start the key set is fresh and the cache empty.
LEMMA AgeInit == Init => AgeInv
  <1> SUFFICES ASSUME Init PROVE AgeInv
    OBVIOUS
  <1>1. /\ now = 0 /\ published = <<0>> /\ Len(published) = 1 /\ published[1] = 0
        /\ cache = {} /\ \A p \in Proc : pc[p] = "idle"
        /\ keySet.key = 1 /\ keySet.fetchedAt = 0
    BY DEF Init
  <1>2. Young /\ InTime /\ FetchedTrue
    BY <1>1 DEF Young, InTime, FetchedTrue
  <1>3. PublishedPast
    BY <1>1 DEF PublishedPast
  <1>4. KeySetTrue
    <2>1. PublishedAt(keySet.key, 0)
      BY <1>1 DEF PublishedAt
    <2>2. 0 \in 0..now /\ keySet.fetchedAt <= 0 + MaxDelay
      BY <1>1, TimeAssumption
    <2>3. QED
      BY <2>1, <2>2 DEF KeySetTrue
  <1>5. QED
    BY <1>2, <1>3, <1>4 DEF AgeInv

\* The part of the invariant about ages is inductive.
LEMMA AgeStep == GatewayTypeOK /\ AgeInv /\ [Next]_vars => AgeInv'
  BY YoungStep, InTimeStep, PastStep, FetchedTrueStep, KeySetTrueStep DEF AgeInv

----------------------------------------------------------------------------
\* The theorems

\* The inductive invariant of the gateway.
THEOREM GatewayInvariant == Spec => []Inv
  <1>1. Init => Inv
    BY TypeInit, QueryInit, AgeInit DEF Inv
  <1>2. Inv /\ [Next]_vars => Inv'
    BY TypeStep, QueryStep, AgeStep DEF Inv, QueryInv
  <1>3. QED
    BY <1>1, <1>2, PTL DEF Spec

\* The variables of the gateway keep their types: its codes are those handleQuery sets,
\* and no time of the key set, the cache or a result is in the future.
THEOREM GatewayTypes == Spec => []GatewayTypeOK
  BY GatewayInvariant, PTL DEF Inv

\* Whoever filled the cache, a client gets the result of its own query: of its tenant,
\* language, range and step (buildCacheKey, handleQuery).
THEOREM AnswersAreOwn == Spec => []AnswersOwnQuery
  <1>1. Inv => AnswersOwnQuery
    BY DEF Inv, QueryInv
  <1>2. QED
    BY <1>1, GatewayInvariant, PTL

\* An answer of the cache or of a backend is younger than a TTL and a delay, although
\* a late result may replace a newer one in the cache.
THEOREM AnswersStayFresh == Spec => AnswersFresh
  <1>1. ASSUME Inv, [Next]_vars, NEW p \in Proc, Answered(p, 200)
        PROVE  now < answer'[p].result.at + CacheTTL + MaxDelay
    <2>1. GatewayTypeOK /\ Young /\ InTime
      BY <1>1 DEF Inv, AgeInv
    <2>2. /\ now \in Nat /\ MaxDelay \in Nat /\ CacheTTL \in Nat /\ CacheTTL # 0
      BY <1>1, <2>1, Clock
    <2>3. pc[p] # "reply" /\ pc'[p] = "reply" /\ answer'[p].code = 200
      BY <1>1 DEF Answered
    <2>4. Serve(p)
      BY <1>1, <2>1, <2>3, EveryStep, ReceiveMoves DEF Alone
    <2>5. CASE CacheHit(p)
      <3>1. PICK e \in cache : Answers(p, 200, e.result)
        BY <2>5 DEF CacheHit
      <3>2. answer'[p].result = e.result
        BY <2>1, <3>1, AnswersMove
      <3>3. now < e.expires /\ e.expires <= e.result.at + MaxDelay + CacheTTL
        BY <2>1 DEF Young
      <3>4. e.expires \in Nat /\ e.result.at \in Nat
        BY <2>1, Times
      <3>5. QED
        BY <2>2, <3>2, <3>3, <3>4
    <2>6. CASE Respond(p)
      <3>1. pc[p] = "respond" /\ (Fails(p, 500) \/ Answers(p, 200, result[p]))
        BY <2>6 DEF Respond
      <3>2. answer'[p].result = result[p]
        BY <2>1, <2>3, <3>1, FailsMove, AnswersMove
      <3>3. now <= result[p].at + MaxDelay /\ result[p].at \in Nat
        BY <2>1, <3>1, Times DEF InTime
      <3>4. QED
        BY <2>2, <3>2, <3>3
    <2>7. ~(ReadKeys(p) \/ FetchKeys(p) \/ FetchFails(p) \/ StoreKeys(p) \/ RereadKeys(p))
      <3>1. OwnResults
        BY <1>1 DEF Inv, QueryInv
      <3>2. answer[p].code # 200
        BY <2>3, <3>1 DEF OwnResults
      <3>3. QED
        BY <2>1, <2>3, <3>2, Moves
    <2>8. ~(Check(p) \/ CacheMiss(p) \/ Dispatch(p) \/ OpenObserve(p) \/ AskFallback(p)
              \/ Reply(p))
      BY <2>1, <2>3, LateMoves
    <2>9. QED
      BY <2>4, <2>5, <2>6, <2>7, <2>8 DEF Serve
  <1>2. Inv /\ [Next]_vars => [\A p \in Proc :
          Answered(p, 200) => now < answer'[p].result.at + CacheTTL + MaxDelay]_vars
    BY <1>1
  <1>3. QED
    BY <1>2, GatewayInvariant, PTL DEF Spec, AnswersFresh

\* The set a goroutine verifies by was the issuer's not long ago: it is younger than its
\* TTL, or was fetched just now by this goroutine or by one that stored it later.
LEMMA KeysAreRecent ==
  ASSUME Inv, NEW p \in Proc, (ReadKeys(p) /\ KeysFresh) \/ RereadKeys(p)
  PROVE  \E m \in Lagging : PublishedAt(keySet.key, m)
  <1>1. GatewayTypeOK /\ InTime /\ FetchedTrue /\ KeySetTrue
    BY DEF Inv, AgeInv
  <1>2. PICK m \in 0..now : PublishedAt(keySet.key, m) /\ keySet.fetchedAt <= m + MaxDelay
    BY <1>1 DEF KeySetTrue
  <1>3. /\ now \in Nat /\ KeysTTL \in Nat /\ MaxDelay \in Nat /\ MaxDelay < KeysTTL
    BY <1>1, TimeAssumption, TTLAssumption DEF GatewayTypeOK
  <1>4. keySet.fetchedAt \in Nat /\ fetched[p].at \in Nat /\ m \in Nat
    BY <1>1, <1>3, Times
  <1>5. CASE KeysFresh
    BY <1>2, <1>3, <1>4, <1>5 DEF KeysFresh, Lagging
  <1>6. CASE RereadKeys(p)
    <2>1. pc[p] = "reread"
      BY <1>6 DEF RereadKeys
    <2>2. now <= fetched[p].at + MaxDelay /\ fetched[p].at <= keySet.fetchedAt
      BY <1>1, <2>1 DEF InTime, FetchedTrue
    <2>3. now < m + KeysTTL + MaxDelay
      BY <1>2, <1>3, <1>4, <2>2
    <2>4. QED
      BY <1>2, <2>3 DEF Lagging
  <1>7. QED
    BY <1>5, <1>6

\* Whether a token is accepted or refused, the issuer agreed within a TTL and a fetch,
\* although goroutines refresh the set at once and may store an older one (refresh,
\* getKeySet).
THEOREM VerdictsAreIssued == Spec => VerdictsFollowIssuer
  <1>1. ASSUME Inv, [Next]_vars, NEW p \in Proc, pc[p] \in {"keys", "reread"},
               pc'[p] \in {"checks", "reply"}
        PROVE  /\ \E m \in Lagging : PublishedAt(keySet.key, m)
               /\ pc'[p] = "checks" => req[p].key = keySet.key
               /\ pc'[p] = "reply" => req[p].key # keySet.key
    <2>1. GatewayTypeOK
      BY <1>1 DEF Inv
    <2>2. Serve(p)
      BY <1>1, <2>1, EveryStep, ReceiveMoves DEF Alone
    <2>3. ReadKeys(p) \/ RereadKeys(p)
      BY <1>1, <2>1, <2>2, Moves, LateMoves DEF Serve
    <2>4. ((ReadKeys(p) /\ KeysFresh) \/ RereadKeys(p)) /\ Verify(p, keySet.key)
      BY <1>1, <2>1, <2>3, GotoMove DEF ReadKeys, RereadKeys
    <2>5. /\ pc'[p] = "checks" => req[p].key = keySet.key
          /\ pc'[p] = "reply" => req[p].key # keySet.key
      BY <2>1, <2>4, VerifyMove
    <2>6. QED
      BY <1>1, <2>4, <2>5, KeysAreRecent
  <1>2. ASSUME Inv, [Next]_vars, NEW p \in Proc
        PROVE  /\ pc[p] \in {"keys", "reread"} /\ pc'[p] = "checks"
                    => \E m \in Lagging : PublishedAt(req[p].key, m)
               /\ pc[p] \in {"keys", "reread"} /\ pc'[p] = "reply"
                    => \E m \in Lagging : \E j \in 1..Len(published) :
                         j # req[p].key /\ PublishedAt(j, m)
    <2>1. keySet.key \in 1..Len(published)
      BY <1>2 DEF Inv, GatewayTypeOK
    <2>2. QED
      BY <1>1, <1>2, <2>1
  <1>3. Inv /\ [Next]_vars => [\A p \in Proc :
          LET k == req[p].key
          IN  /\ pc[p] \in {"keys", "reread"} /\ pc'[p] = "checks"
                => \E m \in Lagging : PublishedAt(k, m)
              /\ pc[p] \in {"keys", "reread"} /\ pc'[p] = "reply"
                => \E m \in Lagging : \E j \in 1..Len(published) :
                     j # k /\ PublishedAt(j, m)]_vars
    BY <1>2
  <1>4. QED
    BY <1>3, GatewayInvariant, PTL DEF Spec, VerdictsFollowIssuer
=============================================================================
