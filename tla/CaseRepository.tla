--------------------------- MODULE CaseRepository ---------------------------
(***************************************************************************)
(* CreateCase and Transition of the llm-ops-agent case repository          *)
(* (internal/ports/postgres/case_repo.go), run by concurrent request       *)
(* goroutines against PostgreSQL at READ COMMITTED.                        *)
(*                                                                         *)
(* Every statement the repository sends is a step of its own. A            *)
(* transaction works on private state (txVars) that Commit installs and    *)
(* Rollback drops; it holds the lock of the case row it selected FOR       *)
(* UPDATE or inserted, and the key of the idempotency row it inserted.     *)
(* Any statement may fail, a commit may succeed without the server hearing *)
(* of it, and a server may die at any point.                               *)
(***************************************************************************)
EXTENDS Workflow, Naturals, Sequences, FiniteSets

CONSTANTS
  Case,        \* the identifiers gen_random_uuid() may return
  Key,         \* Idempotency-Key values
  Proc,        \* goroutines serving a request
  Call,        \* the calls clients make: what reaches ports.CaseRepository
  NoCase,      \* no case identifier
  NoKey,       \* the empty Idempotency-Key
  MaxAttempts  \* bound: how often each call is sent, its retries included

\* An If-Match header: none, a number n, or the weak entity tag W/"n".
Header == [form : {"none", "number", "weak"}, n : Nat]

\* ctx is what the caller sets in workflow.Context (the HTTP handler: no flag). request is
\* what goes with the key into the JSONB column idempotency.request: nothing that is JSON,
\* []byte{}, or something PostgreSQL accepts there (JSON, or nil, which is NULL).
CallType ==
  [op : {"create", "transition"}, case : Case \cup {NoCase},
   event : Event \cup {"case_created"}, ifMatch : Header,
   key : Key \cup {NoKey}, request : {"empty", "json"}, ctx : SUBSET Flag]

ASSUME CaseAssumption == NoCase \notin Case
ASSUME KeyAssumption == NoKey \notin Key
ASSUME CallAssumption ==
  /\ Call \subseteq CallType
  /\ \A k \in Call : k.op = "transition" => k.case \in Case /\ k.event \in Event
  /\ \A k \in Call : k.op = "create" => k.event = "case_created" /\ k.request = "empty"
ASSUME AttemptsAssumption == MaxAttempts \in [Call -> Nat]

VARIABLES
  opsCase,      \* table ops_case: status and version of each committed row
  timeline,     \* table case_timeline: the rows of each case, in commit order
  outbox,       \* table outbox: the committed rows
  idempotency,  \* table idempotency: the stored response of each key
  outboxSeq,    \* outbox_id_seq: the next BIGSERIAL id, never rolled back
  pc,           \* the next statement of each goroutine
  call,         \* the call it serves
  held,         \* the case row its open transaction has locked
  cur,          \* that row as the transaction found it
  upd,          \* that row as the transaction leaves it
  outId,        \* the id of the outbox row it has inserted (0: none yet)
  written,      \* the other tables it has inserted a row into
  aborted,      \* the goroutines whose transaction a failed statement aborted
  err,          \* the error it will return, "nil" if none
  resp,         \* the row it will return
  attempts,     \* how often each call was sent
  answers       \* history: the answers clients received, but for the 500s

dbVars == <<opsCase, timeline, outbox, idempotency>>
txVars == <<held, cur, upd, outId, written, aborted>>
vars == <<opsCase, timeline, outbox, idempotency, outboxSeq, pc, call, held, cur, upd,
          outId, written, aborted, err, resp, attempts, answers>>

NoRow      == [status |-> "", version |-> 0]
NoResponse == [case |-> NoCase, status |-> "", version |-> 0]
NoHeader   == [form |-> "none", n |-> 0]
NoCall     == [op |-> "none", case |-> NoCase, event |-> "", ifMatch |-> NoHeader,
               key |-> NoKey, request |-> "empty", ctx |-> {}]

Init ==
  /\ opsCase = [c \in Case |-> NoRow]
  /\ timeline = [c \in Case |-> <<>>]
  /\ outbox = {}
  /\ idempotency = [k \in Key |-> NoResponse]
  /\ outboxSeq = 1
  /\ pc = [p \in Proc |-> "idle"]
  /\ call = [p \in Proc |-> NoCall]
  /\ held = [p \in Proc |-> NoCase]
  /\ cur = [p \in Proc |-> NoRow]
  /\ upd = [p \in Proc |-> NoRow]
  /\ outId = [p \in Proc |-> 0]
  /\ written = [p \in Proc |-> {}]
  /\ aborted = {}
  /\ err = [p \in Proc |-> "nil"]
  /\ resp = [p \in Proc |-> NoResponse]
  /\ attempts = [k \in Call |-> 0]
  /\ answers = {}

----------------------------------------------------------------------------
\* A goroutine goes on to statement `next`; the rest of its state is unchanged.
Goto(p, next) == pc' = [pc EXCEPT ![p] = next]

\* A row goes into a table: with the transaction, if it commits.
Write(p, table) == written' = [written EXCEPT ![p] = @ \cup {table}]

\* The transaction is over: its private state and its locks are gone.
EndTx(p) ==
  /\ held' = [held EXCEPT ![p] = NoCase]
  /\ cur' = [cur EXCEPT ![p] = NoRow]
  /\ upd' = [upd EXCEPT ![p] = NoRow]
  /\ outId' = [outId EXCEPT ![p] = 0]
  /\ written' = [written EXCEPT ![p] = {}]
  /\ aborted' = aborted \ {p}

\* The early return of the repository: `tx.Rollback(ctx)` and the error `e`.
Abandon(p, e) ==
  /\ Goto(p, "rollback")
  /\ err' = [err EXCEPT ![p] = e]

\* The case row c is locked by an open transaction.
RowLocked(c) == \E q \in Proc : held[q] = c

\* Another open transaction has inserted the idempotency row of key k.
KeyTaken(p, k) == \E q \in Proc \ {p} : "idempotency" \in written[q] /\ call[q].key = k

\* The timeline row a transaction writes, with the call it is written for as history.
EntryOf(p) ==
  [from |-> cur[p].status, event |-> call[p].event,
   to |-> upd[p].status, call |-> call[p]]

\* The outbox row: the payload of the transition event, and the version as history.
OutboxRowOf(p) ==
  [id |-> outId[p], case |-> held[p], version |-> upd[p].version,
   from |-> cur[p].status, event |-> call[p].event, to |-> upd[p].status]

\* The response marshalled into the idempotency row and returned.
ResponseOf(p) ==
  [case |-> held[p], status |-> upd[p].status, version |-> upd[p].version]

----------------------------------------------------------------------------
\* A client sends a call, for the first time or again, and a goroutine takes it up.
Receive(p, k) ==
  /\ pc[p] = "idle"
  /\ attempts[k] < MaxAttempts[k]
  /\ attempts' = [attempts EXCEPT ![k] = @ + 1]
  /\ call' = [call EXCEPT ![p] = k]
  /\ Goto(p, IF k.key # NoKey THEN "lookup" ELSE "begin")
  /\ UNCHANGED <<dbVars, outboxSeq, txVars, err, resp, answers>>

\* GetIdempotency, outside any transaction, finds the key: its response is returned.
LookupHit(p) ==
  /\ pc[p] = "lookup"
  /\ idempotency[call[p].key] # NoResponse
  /\ resp' = [resp EXCEPT ![p] = idempotency[call[p].key]]
  /\ Goto(p, "reply")
  /\ UNCHANGED <<dbVars, outboxSeq, call, txVars, err, attempts, answers>>

\* GetIdempotency finds no row, or fails: the code takes any error for a miss.
LookupMiss(p) ==
  /\ pc[p] = "lookup"
  /\ Goto(p, "begin")
  /\ UNCHANGED <<dbVars, outboxSeq, call, txVars, err, resp, attempts, answers>>

Begin(p) ==
  /\ pc[p] = "begin"
  /\ Goto(p, IF call[p].op = "create" THEN "insert_case" ELSE "get_case")
  /\ UNCHANGED <<dbVars, outboxSeq, call, txVars, err, resp, attempts, answers>>

\* BeginTx fails: there is no transaction to roll back.
BeginFails(p) ==
  /\ pc[p] = "begin"
  /\ err' = [err EXCEPT ![p] = "ErrDB"]
  /\ Goto(p, "reply")
  /\ UNCHANGED <<dbVars, outboxSeq, call, txVars, resp, attempts, answers>>

\* CreateCase: INSERT INTO ops_case under a fresh id; version DEFAULT 1.
InsertCase(p) ==
  /\ pc[p] = "insert_case"
  /\ \E c \in Case :
       /\ opsCase[c] = NoRow /\ ~RowLocked(c)
       /\ held' = [held EXCEPT ![p] = c]
  /\ upd' = [upd EXCEPT ![p] = [status |-> "NEW", version |-> 1]]
  /\ Goto(p, "timeline")
  /\ UNCHANGED <<dbVars, outboxSeq, call, cur, outId, written, aborted, err, resp,
                 attempts, answers>>

\* A plain SELECT: the committed row, whoever holds it.
MayRead(c) == opsCase[c] # NoRow

\* SELECT ... FOR UPDATE waits until no open transaction holds the committed row.
MayLock(c) == opsCase[c] # NoRow /\ ~RowLocked(c)

\* Transition: the row does not exist; :one returns pgx.ErrNoRows.
CaseNotFound(p) ==
  /\ pc[p] = "get_case"
  /\ opsCase[call[p].case] = NoRow
  /\ Abandon(p, "ErrNoRows")
  /\ UNCHANGED <<dbVars, outboxSeq, call, txVars, resp, attempts, answers>>

\* Without the IfMatch comparison of Transition.
IgnoreVersion(k, row) == TRUE

\* `ver, _ = strconv.ParseInt(ifMatch, 10, 64)`: what is not a number is 0.
IfMatch(k) == IF k.ifMatch.form = "number" THEN k.ifMatch.n ELSE 0

\* The optimistic check: IfMatch = 0 asks for nothing.
VersionMatches(k, row) == IfMatch(k) = 0 \/ row.version = IfMatch(k)

\* Transition: lock and read the row, then compare IfMatch and ask Decide, both
\* before the next statement.
GetCaseForUpdate(p) ==
  LET c   == call[p].case
      row == opsCase[c]
      e   == Decide(row.status, call[p].event, call[p].ctx)
  IN  /\ pc[p] = "get_case"
      /\ MayLock(c)
      /\ held' = [held EXCEPT ![p] = c]
      /\ cur' = [cur EXCEPT ![p] = row]
      /\ \/ ~VersionMatches(call[p], row) /\ Abandon(p, "ErrNoRows")
         \/ VersionMatches(call[p], row) /\ e # "nil" /\ Abandon(p, e)
         \/ /\ VersionMatches(call[p], row) /\ e = "nil"
            /\ Goto(p, "update")
            /\ UNCHANGED err
      /\ UNCHANGED <<dbVars, outboxSeq, call, upd, outId, written, aborted, resp,
                     attempts, answers>>

\* UPDATE ... SET version = version + 1 WHERE version = the version read, of a row
\* this transaction has locked. No row would be pgx.ErrNoRows.
UpdateCaseStatus(p) ==
  /\ pc[p] = "update"
  /\ IF opsCase[held[p]].version = cur[p].version
     THEN /\ upd' = [upd EXCEPT ![p] =
                      [status  |-> Target(cur[p].status, call[p].event),
                       version |-> cur[p].version + 1]]
          /\ Goto(p, "timeline")
          /\ UNCHANGED err
     ELSE Abandon(p, "ErrNoRows") /\ UNCHANGED upd
  /\ UNCHANGED <<dbVars, outboxSeq, call, held, cur, outId, written, aborted, resp,
                 attempts, answers>>

InsertTimeline(p) ==
  /\ pc[p] = "timeline"
  /\ Write(p, "case_timeline")
  /\ Goto(p, "outbox")
  /\ UNCHANGED <<dbVars, outboxSeq, call, held, cur, upd, outId, aborted, err, resp,
                 attempts, answers>>

\* A sequence with CACHE 2 that two sessions draw from in turn: 2, 1, 4, 3, ...
CachedOutboxId == IF outboxSeq % 2 = 1 THEN outboxSeq + 1 ELSE outboxSeq - 1

\* nextval('outbox_id_seq'): drawn by the statement, long before the commit.
NextOutboxId == outboxSeq

\* The row inserted through r.queries instead of qtx: outside the transaction.
WriteOutboxOutsideTx(p) ==
  /\ outbox' = outbox \cup {[OutboxRowOf(p) EXCEPT !.id = NextOutboxId]}
  /\ UNCHANGED outId

\* The row inserted through qtx: it waits for the commit.
WriteOutbox(p) ==
  /\ outId' = [outId EXCEPT ![p] = NextOutboxId]
  /\ UNCHANGED outbox

\* An aborted transaction refuses the statement, and the code rolls back.
InsertOutbox(p) ==
  /\ pc[p] = "outbox"
  /\ \/ /\ p \notin aborted
        /\ WriteOutbox(p)
        /\ outboxSeq' = outboxSeq + 1
        /\ Goto(p, IF call[p].key # NoKey THEN "idem" ELSE "commit")
        /\ UNCHANGED err
     \/ /\ p \in aborted
        /\ Abandon(p, "ErrDB")
        /\ UNCHANGED <<outId, outbox, outboxSeq>>
  /\ UNCHANGED <<opsCase, timeline, idempotency, call, held, cur, upd, written, aborted,
                 resp, attempts, answers>>

\* A table without the primary key on idem_key.
InsertAnyKey(p) ==
  /\ call[p].request = "json"
  /\ Goto(p, "commit")
  /\ Write(p, "idempotency")
  /\ UNCHANGED err

\* []byte{} is no JSON: PostgreSQL refuses the statement as it reads its parameters.
RefuseRequest(p) ==
  /\ call[p].request = "empty"
  /\ Abandon(p, "ErrDB")
  /\ UNCHANGED written

\* INSERT under the primary key idem_key: a committed row of the key is a unique
\* violation, and an uncommitted one makes the statement wait for its transaction.
InsertKey(p) ==
  /\ call[p].request = "json"
  /\ ~KeyTaken(p, call[p].key)
  /\ \/ /\ idempotency[call[p].key] = NoResponse
        /\ Write(p, "idempotency")
        /\ Goto(p, "commit")
        /\ UNCHANGED err
     \/ /\ idempotency[call[p].key] # NoResponse
        /\ Abandon(p, "ErrDB")
        /\ UNCHANGED written

InsertIdempotency(p) ==
  /\ pc[p] = "idem"
  /\ RefuseRequest(p) \/ InsertKey(p)
  /\ UNCHANGED <<dbVars, outboxSeq, call, held, cur, upd, outId, aborted, resp,
                 attempts, answers>>

----------------------------------------------------------------------------
\* The error of InsertTimeline ignored in a session that carries on: what the code
\* would do if PostgreSQL did not abort the transaction.
IgnoreTimelineError(p) ==
  /\ Goto(p, "outbox")
  /\ UNCHANGED <<aborted, err>>

\* InsertTimeline fails. CreateCase ignores the error, and PostgreSQL then refuses
\* every further statement of the transaction; Transition returns at once.
TimelineError(p) ==
  \/ /\ call[p].op = "create"
     /\ aborted' = aborted \cup {p}
     /\ Goto(p, "outbox")
     /\ UNCHANGED err
  \/ /\ call[p].op = "transition"
     /\ Abandon(p, "ErrDB")
     /\ UNCHANGED aborted

TimelineFails(p) ==
  /\ pc[p] = "timeline"
  /\ TimelineError(p)
  /\ UNCHANGED <<dbVars, outboxSeq, call, held, cur, upd, outId, written, resp,
                 attempts, answers>>

\* Any other statement fails: a lost connection, a cancelled request, a constraint,
\* a value PostgreSQL refuses. The code rolls back.
StatementFails(p) ==
  /\ pc[p] \in {"insert_case", "get_case", "update", "outbox", "idem"}
  /\ Abandon(p, "ErrDB")
  /\ UNCHANGED <<dbVars, outboxSeq, call, txVars, resp, attempts, answers>>

\* A rollback that is forgotten: the connection goes back with its transaction open.
RollbackForgotten(p) == UNCHANGED txVars

\* ROLLBACK drops the writes and releases the locks.
RollbackTx(p) == EndTx(p)

Rollback(p) ==
  /\ pc[p] = "rollback"
  /\ RollbackTx(p)
  /\ Goto(p, "reply")
  /\ UNCHANGED <<dbVars, outboxSeq, call, err, resp, attempts, answers>>

\* The rows a commit makes visible, all at once.
Install(p) ==
  LET c == held[p]
  IN  /\ opsCase' = [opsCase EXCEPT ![c] = upd[p]]
      /\ timeline' = IF "case_timeline" \in written[p]
                     THEN [timeline EXCEPT ![c] = Append(@, EntryOf(p))]
                     ELSE timeline
      /\ outbox' = outbox \cup {OutboxRowOf(p) : x \in {outId[p]} \ {0}}
      /\ idempotency' = IF "idempotency" \in written[p]
                        THEN [idempotency EXCEPT ![call[p].key] = ResponseOf(p)]
                        ELSE idempotency

\* COMMIT succeeds; the server may still get an error for it (a lost connection).
Commit(p) ==
  /\ pc[p] = "commit"
  /\ Install(p)
  /\ \/ UNCHANGED err
     \/ err' = [err EXCEPT ![p] = "ErrDB"]
  /\ resp' = [resp EXCEPT ![p] = ResponseOf(p)]
  /\ EndTx(p)
  /\ Goto(p, "reply")
  /\ UNCHANGED <<outboxSeq, call, attempts, answers>>

\* The error of COMMIT only logged, as the outbox publisher does.
CommitErrorIgnored(p) ==
  /\ resp' = [resp EXCEPT ![p] = ResponseOf(p)]
  /\ UNCHANGED err

CommitError(p) ==
  /\ err' = [err EXCEPT ![p] = "ErrDB"]
  /\ UNCHANGED resp

\* COMMIT fails and nothing of the transaction remains.
CommitFails(p) ==
  /\ pc[p] = "commit"
  /\ CommitError(p)
  /\ EndTx(p)
  /\ Goto(p, "reply")
  /\ UNCHANGED <<dbVars, outboxSeq, call, attempts, answers>>

----------------------------------------------------------------------------
\* A handler that takes a missing case for a missing page.
NotFoundCode(op, e) == IF e = "nil" THEN 200 ELSE IF e = "ErrNoRows" THEN 404 ELSE 500

\* The status code of the handlers: createCase answers 500 to every error.
StatusCode(op, e) ==
  IF e = "nil" THEN 200
  ELSE IF op = "create" THEN 500
  ELSE IF e \in {"ErrIllegal", "ErrGuard"} THEN 409
  ELSE IF e = "ErrNoRows" THEN 412
  ELSE 500

\* The goroutine is done with its request.
Forget(p) ==
  /\ Goto(p, "idle")
  /\ call' = [call EXCEPT ![p] = NoCall]
  /\ err' = [err EXCEPT ![p] = "nil"]
  /\ resp' = [resp EXCEPT ![p] = NoResponse]

\* The handler writes its answer and the client gets it. History keeps the answers that
\* say something: a 500 leaves open whether the call took effect.
Reply(p) ==
  LET code == StatusCode(call[p].op, err[p])
  IN  /\ pc[p] = "reply"
      /\ answers' = answers \cup
           {[call |-> call[p], code |-> c,
             resp |-> IF c = 200 THEN resp[p] ELSE NoResponse] : c \in {code} \ {500}}
      /\ Forget(p)
      /\ UNCHANGED <<dbVars, outboxSeq, txVars, attempts>>

\* The server dies, or its answer is lost: PostgreSQL rolls the open transaction
\* back when the connection goes, and the client hears nothing.
Crash(p) ==
  /\ pc[p] # "idle"
  /\ Forget(p)
  /\ EndTx(p)
  /\ UNCHANGED <<dbVars, outboxSeq, attempts, answers>>

\* What the goroutine does when nothing goes wrong.
Work(p) ==
  \/ LookupHit(p) \/ LookupMiss(p) \/ Begin(p) \/ InsertCase(p)
  \/ CaseNotFound(p) \/ GetCaseForUpdate(p) \/ UpdateCaseStatus(p)
  \/ InsertTimeline(p) \/ InsertOutbox(p) \/ InsertIdempotency(p)
  \/ Rollback(p) \/ Commit(p) \/ Reply(p)

Fault(p) ==
  \/ BeginFails(p) \/ TimelineFails(p) \/ StatementFails(p)
  \/ CommitFails(p) \/ Crash(p)

Next ==
  \E p \in Proc : Work(p) \/ Fault(p) \/ \E k \in Call : Receive(p, k)

Spec == Init /\ [][Next]_vars

\* The Go scheduler runs every goroutine and PostgreSQL answers every statement
\* that does not wait for a lock. No fault is ever owed.
FairSpec == Spec /\ \A p \in Proc : WF_vars(Work(p))

\* The same on a day without a fault.
CalmSpec ==
  /\ Init /\ [][\E p \in Proc : Work(p) \/ \E k \in Call : Receive(p, k)]_vars
  /\ \A p \in Proc : WF_vars(Work(p))

----------------------------------------------------------------------------
\* Properties

Row      == [status : State \cup {""}, version : Nat]
Response == [case : Case \cup {NoCase}, status : State \cup {""}, version : Nat]
Entry    == [from : State \cup {""}, event : Event \cup {"case_created"},
             to : State, call : Call]
OutboxRow == [id : Nat \ {0}, case : Case, version : Nat, from : State \cup {""},
              event : Event \cup {"case_created"}, to : State]
Step == {"idle", "lookup", "begin", "insert_case", "get_case", "update", "timeline",
         "outbox", "idem", "commit", "rollback", "reply"}
Answer == [call : Call, code : {200, 409, 412}, resp : Response]

\* Every variable stays in the domain the schema and the Go types give it; a goroutine
\* that serves a request serves one of the calls.
TypeOK ==
  /\ opsCase \in [Case -> Row]
  /\ timeline \in [Case -> Seq(Entry)]
  /\ outbox \subseteq OutboxRow
  /\ idempotency \in [Key -> Response]
  /\ outboxSeq \in Nat \ {0}
  /\ pc \in [Proc -> Step]
  /\ call \in [Proc -> Call \cup {NoCall}]
  /\ \A p \in Proc : pc[p] # "idle" => call[p] \in Call
  /\ held \in [Proc -> Case \cup {NoCase}]
  /\ cur \in [Proc -> Row] /\ upd \in [Proc -> Row]
  /\ outId \in [Proc -> Nat]
  /\ written \in [Proc -> SUBSET {"case_timeline", "idempotency"}]
  /\ aborted \subseteq Proc
  /\ err \in [Proc -> {"nil", "ErrIllegal", "ErrGuard", "ErrNoRows", "ErrDB"}]
  /\ resp \in [Proc -> Response]
  /\ attempts \in [Call -> Nat]
  /\ answers \subseteq Answer

\* The move that a timeline row or an outbox row tells of.
MoveOf(r) == [from |-> r.from, event |-> r.event, to |-> r.to]

\* The row of a case is where its timeline ends.
RowEndsTimeline(c) ==
  /\ opsCase[c].version = Len(timeline[c])
  /\ opsCase[c].status = IF Len(timeline[c]) = 0 THEN ""
                         ELSE timeline[c][Len(timeline[c])].to

\* Every timeline row of a case has its outbox row, and every outbox row its version.
EntriesInOutbox(c) ==
  \A n \in 1..Len(timeline[c]) : \E r \in outbox :
    r.case = c /\ r.version = n /\ MoveOf(r) = MoveOf(timeline[c][n])

OutboxInTimeline(c) ==
  \A r \in outbox : r.case = c => r.version \in 1..Len(timeline[c])

\* The status, the timeline and the outbox of a case never disagree, whatever
\* statement failed and whoever crashed: version n of a case has exactly n timeline
\* rows and one outbox row for each of them, and its status is where the last one led.
AtomicRecords ==
  \A c \in Case : RowEndsTimeline(c) /\ EntriesInOutbox(c) /\ OutboxInTimeline(c)

\* Timeline row n of case c creates the case, or leaves the state that the row before it
\* entered, by a move of the table whose guard the caller's context satisfies.
LegalEntry(c, n) ==
  LET e == timeline[c][n]
  IN  IF n = 1 THEN e.from = "" /\ e.event = "case_created" /\ e.to = "NEW"
      ELSE /\ e.from = timeline[c][n - 1].to
           /\ InTable(e.from, e.event) /\ Guard(e.from, e.event, e.call.ctx)
           /\ e.to = Target(e.from, e.event)

\* The timeline of a case is a walk of the state machine from its creation on, although
\* Decide is asked long before the row is written, about a row others want to change.
LegalHistory == \A c \in Case : \A n \in 1..Len(timeline[c]) : LegalEntry(c, n)

\* The outbox ids of one case grow with its versions, although ids are drawn before
\* the commit: a publisher that goes by id sees the moves of a case in their order.
OutboxFollowsHistory ==
  \A r, s \in outbox :
    /\ r.id = s.id => r = s
    /\ r.case = s.case => (r.version < s.version <=> r.id < s.id)

\* What the publisher assumes of the repository: the rows of one case become visible in
\* the order of their ids, whatever transaction drew its id first.
RowsCommitInOrder ==
  [][\A r \in outbox' \ outbox : \A s \in outbox : s.case = r.case => s.id < r.id]_vars

\* Timeline row n of case c is the one effect of its key, if it has one.
OnlyEffect(c, n) ==
  LET k == timeline[c][n].call.key
  IN  k # NoKey =>
        /\ idempotency[k] = [case |-> c, status |-> timeline[c][n].to, version |-> n]
        /\ \A d \in Case : \A m \in 1..Len(timeline[d]) :
             timeline[d][m].call.key = k => d = c /\ m = n

\* An Idempotency-Key stands behind at most one timeline row of all cases, and the
\* stored response is the outcome of that row, however often and by whomever it is sent.
KeyBacksOneEffect == \A c \in Case : \A n \in 1..Len(timeline[c]) : OnlyEffect(c, n)

\* Timeline row n of case c obeys the IfMatch of its caller.
FromVersionAsked(c, n) ==
  LET k == timeline[c][n].call
  IN  k.op = "transition" => k.case = c /\ (IfMatch(k) # 0 => n = IfMatch(k) + 1)

\* A transition sent with a version changed the case only from that version, and only
\* the case it names: no concurrent change is overwritten.
IfMatchHonoured == \A c \in Case : \A n \in 1..Len(timeline[c]) : FromVersionAsked(c, n)

\* The row r is in the timeline; if call k has a key it is the stored response of that
\* key, and if not it is the outcome of a call like k.
OnRecord(r) ==
  /\ r.case \in Case
  /\ r.version \in 1..Len(timeline[r.case])
  /\ timeline[r.case][r.version].to = r.status

Recorded(k, r) ==
  /\ OnRecord(r)
  /\ k.key = NoKey => timeline[r.case][r.version].call = k
  /\ k.key # NoKey => idempotency[k.key] = r

\* A 200 tells the truth for ever: the version and the status it reports are in the
\* timeline, and with a key it is the stored response of that key, so any two
\* successful answers to a key are the same.
AnswersRecorded == \A a \in answers : a.code = 200 => Recorded(a.call, a.resp)

\* The timeline and the outbox as the ledger sees them.
HistoryOf(c) ==
  [n \in DOMAIN timeline[c] |->
     [move |-> MoveOf(timeline[c][n]), ctx |-> timeline[c][n].call.ctx]]
EventsOut ==
  {[case |-> r.case, version |-> r.version, move |-> MoveOf(r)] : r \in outbox}

Ledger == INSTANCE CaseLedger WITH
  row <- opsCase, history <- [c \in Case |-> HistoryOf(c)], events <- EventsOut,
  taken <- idempotency

\* The repository implements the ledger: whatever the goroutines, the faults and the
\* retries do, the committed tables only ever change by one legal, complete move.
ImplementsLedger == Ledger!LedgerSpec

\* No request waits for ever: neither a row lock nor a key held by another
\* transaction, nor two of them crosswise, keeps a goroutine from its answer.
RequestsEnd == \A p \in Proc : pc[p] # "idle" ~> pc[p] = "idle"

\* What the integration test of the orchestrator asserts of a key, and the API guide
\* promises: a call that reaches the end of its transaction under a key leaves a response
\* for that key, which its repetition will find. (It does not: the request is no JSON.)
KeyLeavesResponse ==
  \A p \in Proc : \A k \in Key :
    pc[p] = "idem" /\ call[p].key = k ~> idempotency[k] # NoResponse

\* What the API guide and the integration tests promise of the If-Match header: a
\* transition that carries one changes the case from the version it names only.
IfMatchHeaderHonoured ==
  \A c \in Case : \A n \in 1..Len(timeline[c]) :
    LET h == timeline[c][n].call.ifMatch
    IN  h.form # "none" => n = h.n + 1
=============================================================================
