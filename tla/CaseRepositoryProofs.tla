------------------------ MODULE CaseRepositoryProofs ------------------------
(***************************************************************************)
(* Theorems about CaseRepository, for every set of cases, keys, goroutines *)
(* and calls and every bound on the attempts, and that it implements the   *)
(* ledger.                                                                 *)
(***************************************************************************)
EXTENDS CaseInvariant, TLAPS

----------------------------------------------------------------------------
\* The state machine

\* table[from][ev] leads to a state of the machine (workflow.go, `table`).
LEMMA TargetIsState ==
  ASSUME NEW from, NEW ev, InTable(from, ev)
  PROVE  Target(from, ev) \in State
  <1>1. from \in State
    BY DEF InTable
  <1>2. CASE from = "NEW"
    BY <1>2 DEF InTable, Target, Table, State
  <1>3. CASE from = "ANALYZING"
    BY <1>3 DEF InTable, Target, Table, State
  <1>4. CASE from = "CLOSED"
    BY <1>4 DEF InTable, Target, Table, State
  <1>5. CASE from \in {"PLANNING", "WAIT_GATE", "EXECUTING", "VERIFYING", "PARKED"}
    BY <1>5 DEF InTable, Target, Table, State
  <1>6. QED
    BY <1>1, <1>2, <1>3, <1>4, <1>5 DEF State

\* A decision without error follows an entry of the table whose guard holds, out of a
\* state the machine has; an error is one of two (workflow.go, Decide).
LEMMA DecideNil ==
  ASSUME NEW from, NEW ev, NEW ctx
  PROVE  /\ Decide(from, ev, ctx) \in {"nil", "ErrIllegal", "ErrGuard"}
         /\ Decide(from, ev, ctx) = "nil" =>
              /\ InTable(from, ev) /\ Guard(from, ev, ctx)
              /\ from \in State
              /\ Target(from, ev) \in State
  <1>1. Decide(from, ev, ctx) \in {"nil", "ErrIllegal", "ErrGuard"}
    BY DEF Decide
  <1>2. ASSUME Decide(from, ev, ctx) = "nil"
        PROVE  InTable(from, ev) /\ Guard(from, ev, ctx)
    BY <1>2 DEF Decide
  <1>3. ASSUME InTable(from, ev)
        PROVE  from \in State /\ Target(from, ev) \in State
    BY <1>3, TargetIsState DEF InTable
  <1>4. QED
    BY <1>1, <1>2, <1>3

----------------------------------------------------------------------------
\* Type correctness

\* The constants that stand for "nothing" have the types of the rows they stand for.
LEMMA ConstantTypes ==
  /\ NoRow \in Row
  /\ NoResponse \in Response
  /\ \A k \in Call : /\ k \in CallType
                     /\ k.op = "transition" => k.case \in Case /\ k.event \in Event
                     /\ k.op = "create" => k.event = "case_created"
  BY CallAssumption DEF NoRow, NoResponse, Row, Response

\* What a goroutine that is not idle works on is typed.
LEMMA SessionTypes ==
  ASSUME TypeOK, NEW p \in Proc, pc[p] # "idle"
  PROVE  /\ call[p] \in Call
         /\ call[p].op \in {"create", "transition"}
         /\ call[p].op = "transition" => call[p].case \in Case /\ call[p].event \in Event
         /\ call[p].key \in Key \cup {NoKey}
         /\ call[p].event \in Event \cup {"case_created"}
  <1>1. call[p] \in Call
    BY DEF TypeOK
  <1>2. call[p] \in CallType
    BY <1>1, ConstantTypes
  <1>3. QED
    BY <1>1, <1>2, ConstantTypes DEF CallType

\* The rows of a session, and what makes a row.
LEMMA RowTypes ==
  /\ TypeOK => \A p \in Proc :
       /\ cur[p] \in Row /\ cur[p].status \in State \cup {""} /\ cur[p].version \in Nat
       /\ upd[p] \in Row /\ upd[p].status \in State \cup {""} /\ upd[p].version \in Nat
  /\ \A s \in State \cup {""}, n \in Nat : [status |-> s, version |-> n] \in Row
  <1>1. \A r \in Row : r.status \in State \cup {""} /\ r.version \in Nat
    BY DEF Row
  <1>2. TypeOK => \A p \in Proc : cur[p] \in Row /\ upd[p] \in Row
    BY DEF TypeOK
  <1>3. \A s \in State \cup {""}, n \in Nat : [status |-> s, version |-> n] \in Row
    BY DEF Row
  <1>4. QED
    BY <1>1, <1>2, <1>3

\* A status code other than 500 is one of those recorded.
LEMMA StatusCodes ==
  ASSUME NEW op, NEW e
  PROVE  StatusCode(op, e) \in {200, 409, 412, 500}
  BY DEF StatusCode

\* The end of a transaction leaves its variables typed.
LEMMA EndTxTypes ==
  ASSUME TypeOK, NEW p \in Proc, EndTx(p)
  PROVE  /\ held' \in [Proc -> Case \cup {NoCase}]
         /\ cur' \in [Proc -> Row] /\ upd' \in [Proc -> Row]
         /\ outId' \in [Proc -> Nat]
         /\ written' \in [Proc -> SUBSET {"case_timeline", "idempotency"}]
         /\ aborted' \subseteq Proc
  BY ConstantTypes DEF TypeOK, EndTx

\* Empty tables and idle goroutines are well-typed (the migrations, 001_init.up.sql).
LEMMA TypeInit == Init => TypeOK
  <1> SUFFICES ASSUME Init
               PROVE  TypeOK
    OBVIOUS
  <1> USE ConstantTypes DEF Init
  <1>1. /\ opsCase \in [Case -> Row]
        /\ timeline \in [Case -> Seq(Entry)]
        /\ idempotency \in [Key -> Response]
        /\ outbox \subseteq OutboxRow /\ answers \subseteq Answer
    OBVIOUS
  <1>2. /\ pc \in [Proc -> Step]
        /\ \A p \in Proc : pc[p] # "idle" => call[p] \in Call
    BY DEF Step
  <1>3. /\ call \in [Proc -> Call \cup {NoCall}]
        /\ held \in [Proc -> Case \cup {NoCase}]
        /\ cur \in [Proc -> Row] /\ upd \in [Proc -> Row]
        /\ outId \in [Proc -> Nat]
    OBVIOUS
  <1>4. /\ written \in [Proc -> SUBSET {"case_timeline", "idempotency"}]
        /\ aborted \subseteq Proc
        /\ err \in [Proc -> {"nil", "ErrIllegal", "ErrGuard", "ErrNoRows", "ErrDB"}]
        /\ resp \in [Proc -> Response]
        /\ attempts \in [Call -> Nat]
        /\ outboxSeq \in Nat \ {0}
    OBVIOUS
  <1>5. QED
    BY <1>1, <1>2, <1>3, <1>4 DEF TypeOK

\* Each statement of CreateCase and Transition keeps the types of tables and sessions.
LEMMA TypeStep ==
  ASSUME TypeOK, SessionInv, [Next]_vars
  PROVE  TypeOK'
  <1> USE ConstantTypes
  <1>1. ASSUME NEW p \in Proc, NEW k \in Call, Receive(p, k)
        PROVE  TypeOK'
    BY <1>1, AttemptsAssumption DEF TypeOK, Receive, Goto, Step, dbVars, txVars
  <1>2. ASSUME NEW p \in Proc, LookupHit(p)
        PROVE  TypeOK'
    <2>1. pc[p] = "lookup" /\ call[p].key # NoKey
      BY <1>2 DEF LookupHit, SessionInv, SessionsInStep, InStep
    <2>2. call[p].key \in Key
      BY <2>1, SessionTypes
    <2>3. resp' \in [Proc -> Response]
      BY <1>2, <2>2 DEF LookupHit, TypeOK
    <2>4. QED
      BY <1>2, <2>3 DEF TypeOK, LookupHit, Goto, Step, dbVars, txVars
  <1>3. ASSUME NEW p \in Proc, LookupMiss(p) \/ Begin(p) \/ BeginFails(p)
        PROVE  TypeOK'
    BY <1>3 DEF TypeOK, LookupMiss, Begin, BeginFails, Goto, Step, dbVars, txVars
  <1>4. ASSUME NEW p \in Proc, InsertCase(p)
        PROVE  TypeOK'
    <2>1. [status |-> "NEW", version |-> 1] \in Row
      BY DEF Row, State
    <2>2. /\ held' \in [Proc -> Case \cup {NoCase}] /\ upd' \in [Proc -> Row]
      BY <1>4, <2>1 DEF TypeOK, InsertCase
    <2>3. QED
      BY <1>4, <2>2 DEF TypeOK, InsertCase, Goto, Step, dbVars
  <1>5. ASSUME NEW p \in Proc, CaseNotFound(p) \/ StatementFails(p)
        PROVE  TypeOK'
    BY <1>5 DEF TypeOK, CaseNotFound, StatementFails, Abandon, Goto, Step, dbVars, txVars
  <1>6. ASSUME NEW p \in Proc, GetCaseForUpdate(p)
        PROVE  TypeOK'
    <2> DEFINE e == Decide(opsCase[call[p].case].status, call[p].event, call[p].ctx)
    <2>0. pc[p] = "get_case" /\ call[p].op = "transition"
      BY <1>6 DEF GetCaseForUpdate, SessionInv, SessionsInStep, InStep
    <2>1. call[p].case \in Case /\ opsCase[call[p].case] \in Row
      BY <2>0, SessionTypes DEF TypeOK
    <2>2. e \in {"nil", "ErrIllegal", "ErrGuard"}
      BY DecideNil
    <2>3. /\ pc' \in [Proc -> Step]
          /\ \A q \in Proc : pc'[q] # "idle" => pc[q] # "idle"
          /\ err' \in [Proc -> {"nil", "ErrIllegal", "ErrGuard", "ErrNoRows", "ErrDB"}]
      BY <1>6, <2>2 DEF TypeOK, GetCaseForUpdate, Abandon, Goto, Step
    <2>4. held' \in [Proc -> Case \cup {NoCase}] /\ cur' \in [Proc -> Row]
      BY <1>6, <2>1 DEF TypeOK, GetCaseForUpdate
    <2>5. QED
      BY <1>6, <2>3, <2>4 DEF TypeOK, GetCaseForUpdate, dbVars
  <1>7. ASSUME NEW p \in Proc, UpdateCaseStatus(p)
        PROVE  TypeOK'
    <2>1. Target(cur[p].status, call[p].event) \in State
      BY <1>7, DecideNil DEF UpdateCaseStatus, SessionInv, SessionsInStep, InStep, Allowed
    <2>2. cur[p].version + 1 \in Nat
      <3>1. cur[p].version \in Nat
        BY RowTypes
      <3>2. QED
        BY <3>1
    <2>3. [status |-> Target(cur[p].status, call[p].event), version |-> cur[p].version + 1] \in Row
      BY <2>1, <2>2, RowTypes
    <2>4. upd' \in [Proc -> Row]
      BY <1>7, <2>3 DEF TypeOK, UpdateCaseStatus
    <2>5. QED
      BY <1>7, <2>4 DEF TypeOK, UpdateCaseStatus, Abandon, Goto, Step, dbVars
  <1>8. ASSUME NEW p \in Proc, InsertTimeline(p)
        PROVE  TypeOK'
    BY <1>8 DEF TypeOK, InsertTimeline, Write, Goto, Step, dbVars
  <1>9. ASSUME NEW p \in Proc, TimelineFails(p)
        PROVE  TypeOK'
    BY <1>9 DEF TypeOK, TimelineFails, TimelineError, Abandon, Goto, Step, dbVars
  <1>10. ASSUME NEW p \in Proc, InsertOutbox(p)
        PROVE  TypeOK'
    <2>1. outId' \in [Proc -> Nat] /\ outboxSeq' \in Nat \ {0}
      BY <1>10 DEF TypeOK, InsertOutbox, WriteOutbox, NextOutboxId
    <2>2. QED
      BY <1>10, <2>1 DEF TypeOK, InsertOutbox, WriteOutbox, Abandon, Goto, Step
  <1>11. ASSUME NEW p \in Proc, InsertIdempotency(p)
        PROVE  TypeOK'
    <2>1. /\ pc' \in [Proc -> Step]
          /\ \A q \in Proc : pc'[q] # "idle" => pc[q] # "idle"
      BY <1>11 DEF TypeOK, InsertIdempotency, InsertKey, RefuseRequest, Abandon, Goto, Step
    <2>2. CASE UNCHANGED err /\ Write(p, "idempotency")
      BY <1>11, <2>1, <2>2 DEF TypeOK, InsertIdempotency, Write, dbVars
    <2>3. CASE Abandon(p, "ErrDB") /\ UNCHANGED written
      BY <1>11, <2>1, <2>3 DEF TypeOK, InsertIdempotency, Abandon, dbVars
    <2>4. QED
      BY <1>11, <2>2, <2>3 DEF InsertIdempotency, InsertKey, RefuseRequest
  <1>12. ASSUME NEW p \in Proc, Rollback(p) \/ CommitFails(p)
        PROVE  TypeOK'
    <2>1. EndTx(p)
      BY <1>12 DEF Rollback, RollbackTx, CommitFails
    <2>2. QED
      BY <1>12, <2>1, EndTxTypes
      DEF TypeOK, Rollback, CommitFails, CommitError, Goto, Step, dbVars
  <1>13. ASSUME NEW p \in Proc, Commit(p)
        PROVE  TypeOK'
    <2>1. /\ pc[p] = "commit" /\ held[p] \in Case
          /\ upd[p].status \in State /\ upd[p].version \in Nat /\ upd[p] \in Row
      <3>1. pc[p] = "commit" /\ held[p] # NoCase /\ OneMove(p)
        BY <1>13 DEF Commit, SessionInv, SessionsInStep, InStep
      <3>2. upd[p].status \in State
        BY <3>1, DecideNil DEF OneMove, Allowed, State
      <3>3. QED
        BY <3>1, <3>2, RowTypes DEF TypeOK
    <2>2. /\ call[p] \in Call /\ call[p].event \in Event \cup {"case_created"}
          /\ cur[p].status \in State \cup {""}
      BY <2>1, SessionTypes, RowTypes
    <2>3. ResponseOf(p) \in Response
      BY <2>1 DEF ResponseOf, Response
    <2>4. EntryOf(p) \in Entry
      BY <2>1, <2>2 DEF EntryOf, Entry
    <2>5. outId[p] # 0 => OutboxRowOf(p) \in OutboxRow
      BY <2>1, <2>2 DEF OutboxRowOf, OutboxRow, TypeOK
    <2>6. opsCase' \in [Case -> Row] /\ timeline' \in [Case -> Seq(Entry)]
      BY <1>13, <2>1, <2>4 DEF Commit, Install, TypeOK
    <2>7. outbox' \subseteq OutboxRow /\ idempotency' \in [Key -> Response]
      BY <1>13, <2>3, <2>5 DEF Commit, Install, TypeOK
    <2>8. EndTx(p)
      BY <1>13 DEF Commit
    <2>9. /\ pc' \in [Proc -> Step]
          /\ \A q \in Proc : pc'[q] # "idle" => pc[q] # "idle"
          /\ err' \in [Proc -> {"nil", "ErrIllegal", "ErrGuard", "ErrNoRows", "ErrDB"}]
          /\ resp' \in [Proc -> Response]
      BY <1>13, <2>3 DEF Commit, TypeOK, Goto, Step
    <2>10. QED
      BY <1>13, <2>6, <2>7, <2>8, <2>9, EndTxTypes DEF Commit, TypeOK
  <1>14. ASSUME NEW p \in Proc, Reply(p)
        PROVE  TypeOK'
    <2>1. answers' \subseteq Answer
      <3>1. call[p] \in Call
        BY <1>14, SessionTypes DEF Reply
      <3>2. resp[p] \in Response
        BY DEF TypeOK
      <3>3. QED
        BY <1>14, <3>1, <3>2, StatusCodes DEF Reply, TypeOK, Answer
    <2>2. QED
      BY <1>14, <2>1 DEF TypeOK, Reply, Forget, Goto, Step, dbVars, txVars
  <1>15. ASSUME NEW p \in Proc, Crash(p)
        PROVE  TypeOK'
    <2>1. EndTx(p)
      BY <1>15 DEF Crash
    <2>2. QED
      BY <1>15, <2>1, EndTxTypes DEF TypeOK, Crash, Forget, Goto, Step, dbVars
  <1>16. CASE UNCHANGED vars
    BY <1>16 DEF TypeOK, vars
  <1>17. QED
    BY <1>1, <1>2, <1>3, <1>4, <1>5, <1>6, <1>7, <1>8, <1>9, <1>10, <1>11, <1>12,
       <1>13, <1>14, <1>15, <1>16
    DEF Next, Work, Fault

----------------------------------------------------------------------------
\* Sessions

\* One step of goroutine p.
StepOf(p) == Work(p) \/ Fault(p) \/ \E k \in Call : Receive(p, k)

\* A goroutine touches nobody's session but its own.
LEMMA Frame ==
  ASSUME TypeOK, NEW p \in Proc, NEW q \in Proc, q # p, StepOf(p)
  PROVE  /\ pc'[q] = pc[q] /\ call'[q] = call[q] /\ held'[q] = held[q]
         /\ cur'[q] = cur[q] /\ upd'[q] = upd[q] /\ outId'[q] = outId[q]
         /\ written'[q] = written[q] /\ (q \in aborted' <=> q \in aborted)
         /\ err'[q] = err[q] /\ resp'[q] = resp[q]
  <1>1. CASE \E k \in Call : Receive(p, k)
    BY <1>1 DEF TypeOK, Receive, Goto, txVars
  <1>2. CASE LookupHit(p) \/ LookupMiss(p) \/ Begin(p) \/ BeginFails(p)
    BY <1>2 DEF TypeOK, LookupHit, LookupMiss, Begin, BeginFails, Goto, txVars
  <1>3. CASE InsertCase(p) \/ CaseNotFound(p) \/ StatementFails(p)
    BY <1>3 DEF TypeOK, InsertCase, CaseNotFound, StatementFails, Abandon, Goto, txVars
  <1>4. CASE GetCaseForUpdate(p)
    BY <1>4 DEF TypeOK, GetCaseForUpdate, Abandon, Goto
  <1>5. CASE UpdateCaseStatus(p)
    BY <1>5 DEF TypeOK, UpdateCaseStatus, Abandon, Goto
  <1>6. CASE InsertTimeline(p) \/ TimelineFails(p)
    BY <1>6 DEF TypeOK, InsertTimeline, TimelineFails, TimelineError, Abandon, Goto, Write
  <1>7. CASE InsertOutbox(p)
    BY <1>7 DEF TypeOK, InsertOutbox, WriteOutbox, Abandon, Goto
  <1>8. CASE InsertIdempotency(p)
    BY <1>8 DEF TypeOK, InsertIdempotency, InsertKey, RefuseRequest, Abandon, Goto, Write
  <1>9. CASE Rollback(p) \/ CommitFails(p)
    BY <1>9 DEF TypeOK, Rollback, RollbackTx, CommitFails, CommitError, EndTx, Goto
  <1>10. CASE Commit(p)
    BY <1>10 DEF TypeOK, Commit, EndTx, Goto
  <1>11. CASE Reply(p) \/ Crash(p)
    BY <1>11 DEF TypeOK, Reply, Crash, Forget, EndTx, Goto, txVars
  <1>12. QED
    BY <1>1, <1>2, <1>3, <1>4, <1>5, <1>6, <1>7, <1>8, <1>9, <1>10, <1>11
    DEF StepOf, Work, Fault

\* Only a commit changes a table.
LEMMA OnlyCommits ==
  ASSUME NEW p \in Proc, StepOf(p)
  PROVE  Commit(p) \/ UNCHANGED dbVars
  <1>1. ASSUME WriteOutbox(p) PROVE UNCHANGED outbox
    BY <1>1 DEF WriteOutbox
  <1>2. QED
    BY <1>1 DEF StepOf, Work, Fault, Receive, LookupHit, LookupMiss, Begin, BeginFails,
      InsertCase, CaseNotFound, StatementFails, GetCaseForUpdate, UpdateCaseStatus,
      InsertTimeline, TimelineFails, InsertOutbox, InsertIdempotency, Rollback,
      CommitFails, Reply, Crash, dbVars

\* The end of a transaction leaves nothing of it behind.
LEMMA EndTxClears ==
  ASSUME TypeOK, NEW p \in Proc, EndTx(p)
  PROVE  /\ held'[p] = NoCase /\ cur'[p] = NoRow /\ outId'[p] = 0
         /\ written'[p] = {} /\ p \notin aborted'
  BY DEF TypeOK, EndTx

\* Each step of a goroutine takes it to a statement it is ready for.
LEMMA OwnStep ==
  ASSUME TypeOK, NEW p \in Proc, InStep(p), StepOf(p)
  PROVE  InStep(p)'
  <1>1. ASSUME NEW k \in Call, Receive(p, k)
        PROVE  InStep(p)'
    BY <1>1 DEF TypeOK, InStep, Receive, Goto, txVars
  <1>2. CASE LookupHit(p) \/ LookupMiss(p) \/ BeginFails(p)
    BY <1>2 DEF TypeOK, InStep, LookupHit, LookupMiss, BeginFails, Goto, txVars
  <1>3. CASE Begin(p)
    BY <1>3, SessionTypes DEF TypeOK, InStep, Begin, Goto, txVars
  <1>4. CASE InsertCase(p)
    <2>1. /\ pc'[p] = "timeline" /\ call' = call /\ cur' = cur /\ aborted' = aborted
          /\ call[p].op = "create" /\ cur[p] = NoRow /\ p \notin aborted
      BY <1>4 DEF TypeOK, InStep, InsertCase, Goto
    <2>2. held'[p] # NoCase
      BY <1>4, CaseAssumption DEF TypeOK, InsertCase
    <2>3. upd'[p].status = "NEW" /\ upd'[p].version = 1
      BY <1>4 DEF TypeOK, InsertCase
    <2>4. cur'[p] = NoRow /\ NoRow.version = 0
      <3>1. NoRow.version = 0
        BY DEF NoRow
      <3>2. QED
        BY <2>1, <3>1
    <2>5. OneMove(p)'
      BY <2>1, <2>3, <2>4 DEF OneMove
    <2>6. QED
      BY <1>4, <2>1, <2>2, <2>5 DEF InStep, InsertCase
  <1>5. CASE CaseNotFound(p) \/ StatementFails(p)
    BY <1>5 DEF TypeOK, InStep, CaseNotFound, StatementFails, Abandon, Goto, txVars
  <1>6. CASE GetCaseForUpdate(p)
    <2>1. /\ pc[p] = "get_case" /\ call' = call /\ aborted' = aborted /\ written' = written
          /\ call[p].op = "transition" /\ call[p].case \in Case
          /\ p \notin aborted
      BY <1>6, SessionTypes DEF InStep, GetCaseForUpdate
    <2>2. held'[p] = call[p].case /\ cur'[p] = opsCase[call[p].case]
      BY <1>6 DEF TypeOK, GetCaseForUpdate
    <2>3. CASE pc'[p] = "rollback"
      BY <2>1, <2>3 DEF InStep
    <2>4. CASE pc'[p] # "rollback"
      <3>1. /\ pc'[p] = "update" /\ VersionMatches(call[p], opsCase[call[p].case])
            /\ Decide(opsCase[call[p].case].status, call[p].event, call[p].ctx) = "nil"
        BY <1>6, <2>4 DEF TypeOK, GetCaseForUpdate, Abandon, Goto
      <3>2. Allowed(p)'
        BY <2>1, <2>2, <3>1 DEF Allowed, VersionMatches
      <3>3. QED
        BY <2>1, <2>2, <3>1, <3>2, CaseAssumption DEF InStep
    <2>5. QED
      BY <2>3, <2>4
  <1>7. CASE UpdateCaseStatus(p)
    BY <1>7 DEF TypeOK, InStep, UpdateCaseStatus, Abandon, Goto, Allowed, OneMove, VersionMatches
  <1>8. CASE InsertTimeline(p)
    BY <1>8 DEF TypeOK, InStep, InsertTimeline, Write, Goto, OneMove, Allowed, VersionMatches
  <1>9. CASE TimelineFails(p)
    BY <1>9 DEF TypeOK, InStep, TimelineFails, TimelineError, Abandon, Goto, OneMove, Allowed, VersionMatches
  <1>10. CASE InsertOutbox(p)
    <2>1. /\ pc[p] = "outbox" /\ call' = call /\ held' = held /\ cur' = cur /\ upd' = upd
          /\ aborted' = aborted /\ written' = written
      BY <1>10 DEF InsertOutbox
    <2>2. CASE pc'[p] = "rollback"
      BY <2>1, <2>2 DEF InStep
    <2>3. CASE pc'[p] # "rollback"
      <3>1. /\ p \notin aborted /\ outId'[p] = outboxSeq
            /\ pc'[p] = IF call[p].key # NoKey THEN "idem" ELSE "commit"
        BY <1>10, <2>3 DEF TypeOK, InsertOutbox, WriteOutbox, NextOutboxId, Abandon, Goto
      <3>2. outId'[p] # 0 /\ held[p] # NoCase /\ OneMove(p)
        BY <2>1, <3>1 DEF TypeOK, InStep
      <3>3. OneMove(p)'
        BY <2>1, <3>2 DEF OneMove, Allowed, VersionMatches
      <3>4. "idempotency" \notin written[p]
        BY <2>1 DEF InStep
      <3>5. QED
        BY <2>1, <3>1, <3>2, <3>3, <3>4 DEF InStep
    <2>4. QED
      BY <2>2, <2>3
  <1>11. CASE InsertIdempotency(p)
    BY <1>11 DEF TypeOK, InStep, InsertIdempotency, InsertKey, RefuseRequest, Write, Abandon, Goto, OneMove, Allowed, VersionMatches
  <1>12. CASE Rollback(p) \/ CommitFails(p) \/ Commit(p) \/ Crash(p)
    <2>1. EndTx(p) /\ pc'[p] \in {"reply", "idle"}
      BY <1>12 DEF TypeOK, Rollback, RollbackTx, CommitFails, Commit, Crash, Forget, Goto
    <2>2. QED
      BY <2>1, EndTxClears DEF InStep
  <1>13. CASE Reply(p)
    BY <1>13 DEF TypeOK, InStep, Reply, Forget, Goto, txVars
  <1>14. QED
    BY <1>1, <1>2, <1>3, <1>4, <1>5, <1>6, <1>7, <1>8, <1>9, <1>10, <1>11, <1>12, <1>13
    DEF StepOf, Work, Fault

\* What a session holds and where it stands is kept by the steps of the others.
LEMMA SessionsStep ==
  ASSUME TypeOK, SessionsInStep, NEW p \in Proc, StepOf(p)
  PROVE  SessionsInStep'
  <1>1. InStep(p)'
    BY OwnStep DEF SessionsInStep
  <1>2. ASSUME NEW q \in Proc, q # p
        PROVE  InStep(q)'
    <2>1. InStep(q)
      BY DEF SessionsInStep
    <2>2. QED
      BY <1>2, <2>1, Frame DEF InStep, OneMove, Allowed, VersionMatches
  <1>3. QED
    BY <1>1, <1>2 DEF SessionsInStep

----------------------------------------------------------------------------
\* Locks, ids and keys

\* Each step keeps the row locks exclusive: FOR UPDATE waits for the holder, and an
\* inserted case is new.
LEMMA LocksStep ==
  ASSUME TypeOK, LocksExclusive, SessionsInStep, NEW p \in Proc, StepOf(p)
  PROVE  LocksExclusive'
  <1>1. /\ InStep(p)
        /\ \A q \in Proc : q # p => held'[q] = held[q] /\ cur'[q] = cur[q]
    BY Frame DEF SessionsInStep
  <1>2. CASE held'[p] = held[p] /\ cur'[p] = cur[p] /\ UNCHANGED opsCase
    BY <1>1, <1>2 DEF LocksExclusive
  <1>3. CASE held'[p] = NoCase /\ UNCHANGED opsCase
    BY <1>1, <1>3 DEF LocksExclusive
  <1>4. CASE Commit(p)
    <2>1. held'[p] = NoCase
      BY <1>4, EndTxClears DEF Commit
    <2>2. \A q \in Proc : q # p /\ held[q] # NoCase => opsCase'[held[q]] = opsCase[held[q]]
      BY <1>4 DEF Commit, Install, LocksExclusive, TypeOK
    <2>3. QED
      BY <1>1, <2>1, <2>2, ZenonT(60) DEF LocksExclusive, TypeOK
  <1>5. CASE InsertCase(p)
    <2>1. /\ UNCHANGED opsCase /\ cur'[p] = NoRow /\ held'[p] \in Case
          /\ opsCase[held'[p]] = NoRow
          /\ \A q \in Proc : held[q] # held'[p]
      BY <1>1, <1>5 DEF InsertCase, TypeOK, InStep, RowLocked, dbVars
    <2>2. QED
      BY <1>1, <2>1 DEF LocksExclusive
  <1>6. CASE GetCaseForUpdate(p)
    <2>1. /\ UNCHANGED opsCase /\ held'[p] = call[p].case
          /\ cur'[p] = opsCase[call[p].case]
          /\ \A q \in Proc : held[q] # held'[p]
      BY <1>6 DEF GetCaseForUpdate, TypeOK, MayLock, RowLocked, dbVars
    <2>2. QED
      BY <1>1, <2>1 DEF LocksExclusive
  <1>7. CASE Rollback(p) \/ CommitFails(p) \/ Crash(p)
    <2>1. held'[p] = NoCase /\ UNCHANGED opsCase
      BY <1>7, EndTxClears DEF Rollback, RollbackTx, CommitFails, Crash, dbVars
    <2>2. QED
      BY <1>3, <2>1
  <1>8. CASE \/ LookupHit(p) \/ LookupMiss(p) \/ Begin(p) \/ BeginFails(p) \/ CaseNotFound(p)
             \/ UpdateCaseStatus(p) \/ InsertTimeline(p) \/ TimelineFails(p) \/ InsertOutbox(p)
             \/ InsertIdempotency(p) \/ StatementFails(p) \/ Reply(p)
             \/ \E k \in Call : Receive(p, k)
    <2>1. UNCHANGED <<held, cur, opsCase>>
      BY <1>8 DEF LookupHit, LookupMiss, Begin, BeginFails, CaseNotFound, UpdateCaseStatus,
         InsertTimeline, TimelineFails, InsertOutbox, InsertIdempotency, StatementFails,
         Reply, Receive, dbVars, txVars
    <2>2. QED
      BY <1>2, <2>1
  <1>9. QED
    BY <1>4, <1>5, <1>6, <1>7, <1>8 DEF StepOf, Work, Fault

\* Each step keeps the outbox ids that open transactions have drawn new and distinct:
\* nextval never hands out an id twice.
LEMMA IdsStep ==
  ASSUME TypeOK, LocksExclusive, SessionsInStep, IdsFresh, NEW p \in Proc, StepOf(p)
  PROVE  IdsFresh'
  <1>1. /\ InStep(p)
        /\ outboxSeq \in Nat /\ \A r \in outbox : r.id \in Nat
        /\ \A q \in Proc : outId[q] \in Nat
        /\ \A q \in Proc : q # p => held'[q] = held[q] /\ outId'[q] = outId[q]
    BY Frame DEF SessionsInStep, TypeOK, OutboxRow
  <1>2. CASE outId'[p] = 0 /\ UNCHANGED <<outbox, outboxSeq>>
    BY <1>1, <1>2 DEF IdsFresh
  <1>3. CASE outId'[p] = outId[p] /\ held'[p] = held[p] /\ UNCHANGED <<outbox, outboxSeq>>
    BY <1>1, <1>3 DEF IdsFresh
  <1>4. CASE Commit(p)
    <2>1. outId'[p] = 0 /\ UNCHANGED outboxSeq
      BY <1>4, EndTxClears DEF Commit
    <2>2. /\ outId[p] # 0 /\ held[p] # NoCase
          /\ outbox' = outbox \cup {OutboxRowOf(p)}
      BY <1>1, <1>4 DEF Commit, Install, InStep
    <2>3. OutboxRowOf(p).id = outId[p] /\ OutboxRowOf(p).case = held[p]
      BY DEF OutboxRowOf
    <2>4. \A r \in outbox' : r.id < outboxSeq'
      BY <2>1, <2>2, <2>3 DEF IdsFresh
    <2>5. ASSUME NEW q \in Proc, outId'[q] # 0
          PROVE  \A r \in outbox' : r.id # outId'[q] /\ (r.case = held'[q] => r.id < outId'[q])
      BY <1>1, <2>1, <2>2, <2>3, <2>5 DEF IdsFresh, LocksExclusive
    <2>6. QED
      BY <1>1, <2>1, <2>4, <2>5 DEF IdsFresh
  <1>5. CASE InsertOutbox(p) /\ p \notin aborted
    <2>1. /\ outId'[p] = outboxSeq /\ outboxSeq' = outboxSeq + 1
          /\ UNCHANGED <<outbox, held>>
      BY <1>5 DEF InsertOutbox, WriteOutbox, NextOutboxId, TypeOK
    <2>2. QED
      BY <1>1, <2>1 DEF IdsFresh
  <1>6. CASE InsertOutbox(p) /\ p \in aborted
    BY <1>3, <1>6 DEF InsertOutbox
  <1>7. CASE Rollback(p) \/ CommitFails(p) \/ Crash(p)
    <2>1. outId'[p] = 0 /\ UNCHANGED <<outbox, outboxSeq>>
      BY <1>7, EndTxClears DEF Rollback, RollbackTx, CommitFails, Crash, dbVars
    <2>2. QED
      BY <1>2, <2>1
  <1>8. CASE InsertCase(p) \/ GetCaseForUpdate(p)
    <2>1. outId'[p] = 0 /\ UNCHANGED <<outbox, outboxSeq>>
      BY <1>1, <1>8 DEF InsertCase, GetCaseForUpdate, InStep, dbVars
    <2>2. QED
      BY <1>2, <2>1
  <1>9. CASE \/ LookupHit(p) \/ LookupMiss(p) \/ Begin(p) \/ BeginFails(p) \/ CaseNotFound(p)
             \/ UpdateCaseStatus(p) \/ InsertTimeline(p) \/ TimelineFails(p)
             \/ InsertIdempotency(p) \/ StatementFails(p) \/ Reply(p)
             \/ \E k \in Call : Receive(p, k)
    <2>1. UNCHANGED <<held, outId, outbox, outboxSeq>>
      BY <1>9 DEF LookupHit, LookupMiss, Begin, BeginFails, CaseNotFound, UpdateCaseStatus,
         InsertTimeline, TimelineFails, InsertIdempotency, StatementFails,
         Reply, Receive, dbVars, txVars
    <2>2. QED
      BY <1>3, <2>1
  <1>10. QED
    BY <1>4, <1>5, <1>6, <1>7, <1>8, <1>9 DEF StepOf, Work, Fault

\* Each step keeps the inserted idempotency keys of open transactions exclusive and
\* unstored: the primary key makes a second insert wait or fail.
LEMMA KeysStep ==
  ASSUME TypeOK, SessionsInStep, KeysExclusive, NEW p \in Proc, StepOf(p)
  PROVE  KeysExclusive'
  <1>1. /\ InStep(p)
        /\ \A q \in Proc : q # p => written'[q] = written[q] /\ call'[q] = call[q]
    BY Frame DEF SessionsInStep
  <1>2. CASE UNCHANGED idempotency /\ "idempotency" \notin written'[p]
    BY <1>1, <1>2 DEF KeysExclusive
  <1>3. CASE Commit(p)
    <2>1. "idempotency" \notin written'[p]
      BY <1>3, EndTxClears DEF Commit
    <2>2. ASSUME NEW q \in Proc, q # p, "idempotency" \in written[q]
          PROVE  idempotency'[call[q].key] = idempotency[call[q].key]
      <3>1. call[p].key # call[q].key \/ "idempotency" \notin written[p]
        BY <2>2 DEF KeysExclusive
      <3>2. QED
        BY <1>3, <3>1 DEF Commit, Install, TypeOK
    <2>3. QED
      BY <1>1, <2>1, <2>2 DEF KeysExclusive
  <1>4. CASE InsertIdempotency(p) /\ "idempotency" \in written'[p]
    <2>1. /\ ~KeyTaken(p, call[p].key) /\ UNCHANGED <<call, idempotency>>
          /\ idempotency[call[p].key] = NoResponse
      BY <1>1, <1>4 DEF InsertIdempotency, InsertKey, RefuseRequest, InStep, dbVars
    <2>2. QED
      BY <1>1, <2>1 DEF KeysExclusive, KeyTaken
  <1>5. CASE InsertOutbox(p) \/ InsertTimeline(p)
    <2>1. "idempotency" \notin written[p] /\ UNCHANGED idempotency
      BY <1>1, <1>5 DEF InsertOutbox, InsertTimeline, InStep, dbVars
    <2>2. "idempotency" \notin written'[p]
      BY <1>5, <2>1 DEF InsertOutbox, InsertTimeline, Write, TypeOK
    <2>3. QED
      BY <1>2, <2>1, <2>2
  <1>6. CASE Rollback(p) \/ CommitFails(p) \/ Crash(p)
    <2>1. "idempotency" \notin written'[p] /\ UNCHANGED idempotency
      BY <1>6, EndTxClears DEF Rollback, RollbackTx, CommitFails, Crash, dbVars
    <2>2. QED
      BY <1>2, <2>1
  <1>7. CASE InsertIdempotency(p) /\ "idempotency" \notin written'[p]
    BY <1>2, <1>7 DEF InsertIdempotency, dbVars
  <1>8. CASE \/ LookupHit(p) \/ LookupMiss(p) \/ Begin(p) \/ BeginFails(p) \/ CaseNotFound(p)
             \/ UpdateCaseStatus(p) \/ TimelineFails(p) \/ StatementFails(p) \/ Reply(p)
             \/ InsertCase(p) \/ GetCaseForUpdate(p) \/ \E k \in Call : Receive(p, k)
    <2>1. UNCHANGED <<written, idempotency>> /\ pc[p] # "commit"
      BY <1>8 DEF LookupHit, LookupMiss, Begin, BeginFails, CaseNotFound, UpdateCaseStatus,
         TimelineFails, StatementFails, Reply, InsertCase, GetCaseForUpdate, Receive,
         dbVars, txVars
    <2>2. QED
      BY <1>1, <1>2, <2>1 DEF InStep
  <1>9. QED
    BY <1>3, <1>4, <1>5, <1>6, <1>7, <1>8 DEF StepOf, Work, Fault

----------------------------------------------------------------------------
\* The tables

\* What a commit does: it adds one entry to the timeline of the case it holds, one
\* outbox row, the stored response if there is a key, and moves the row to them.
LEMMA CommitEffect ==
  ASSUME TypeOK, SessionInv, AtomicRecords, NEW p \in Proc, Commit(p)
  PROVE  LET c == held[p]
             n == Len(timeline[c])
         IN
         /\ c \in Case /\ n \in Nat /\ OneMove(p) /\ cur[p] = opsCase[c]
         /\ call[p] \in Call
         /\ cur[p].version = n /\ upd[p].version = n + 1
         /\ cur[p].status = IF n = 0 THEN "" ELSE timeline[c][n].to
         /\ \A d \in Case : d # c => timeline'[d] = timeline[d] /\ opsCase'[d] = opsCase[d]
         /\ opsCase'[c] = upd[p]
         /\ Len(timeline'[c]) = n + 1
         /\ \A m \in 1..n : timeline'[c][m] = timeline[c][m]
         /\ timeline'[c][n + 1] = EntryOf(p)
         /\ outbox' = outbox \cup {OutboxRowOf(p)}
         /\ idempotency' = IF call[p].key # NoKey
                           THEN [idempotency EXCEPT ![call[p].key] = ResponseOf(p)]
                           ELSE idempotency
         /\ timeline' = [timeline EXCEPT ![c] = Append(timeline[c], EntryOf(p))]
  <1> DEFINE c == held[p]
             n == Len(timeline[c])
  <1>1. /\ pc[p] = "commit" /\ c # NoCase /\ OneMove(p) /\ outId[p] # 0
        /\ "case_timeline" \in written[p]
        /\ call[p].key # NoKey <=> "idempotency" \in written[p]
    BY DEF Commit, SessionInv, SessionsInStep, InStep
  <1>2. c \in Case /\ cur[p] = opsCase[c] /\ call[p] \in Call
    BY <1>1 DEF TypeOK, SessionInv, LocksExclusive
  <1>3. timeline[c] \in Seq(Entry) /\ n \in Nat
    BY <1>2 DEF TypeOK
  <1>4. cur[p].version = n /\ upd[p].version = n + 1
    BY <1>1, <1>2 DEF AtomicRecords, RowEndsTimeline, OneMove
  <1>5. cur[p].status = IF n = 0 THEN "" ELSE timeline[c][n].to
    BY <1>2, <1>3 DEF AtomicRecords, RowEndsTimeline
  <1>6. timeline' = [timeline EXCEPT ![c] = Append(timeline[c], EntryOf(p))]
    BY <1>1 DEF Commit, Install
  <1>7. timeline'[c] = Append(timeline[c], EntryOf(p))
    BY <1>2, <1>6 DEF TypeOK
  <1>8. /\ Len(timeline'[c]) = n + 1
        /\ \A m \in 1..n : timeline'[c][m] = timeline[c][m]
        /\ timeline'[c][n + 1] = EntryOf(p)
    BY <1>3, <1>7
  <1>9. /\ \A d \in Case : d # c => timeline'[d] = timeline[d] /\ opsCase'[d] = opsCase[d]
        /\ opsCase'[c] = upd[p]
    BY <1>2, <1>6 DEF TypeOK, Commit, Install
  <1>10. /\ outbox' = outbox \cup {OutboxRowOf(p)}
         /\ idempotency' = IF call[p].key # NoKey
                           THEN [idempotency EXCEPT ![call[p].key] = ResponseOf(p)]
                           ELSE idempotency
    BY <1>1 DEF Commit, Install
  <1>11. QED
    BY <1>1, <1>2, <1>3, <1>4, <1>5, <1>6, <1>8, <1>9, <1>10

\* The fields of what a commit adds.
LEMMA CommitRows ==
  ASSUME NEW p \in Proc
  PROVE  /\ EntryOf(p).from = cur[p].status /\ EntryOf(p).event = call[p].event
         /\ EntryOf(p).to = upd[p].status /\ EntryOf(p).call = call[p]
         /\ OutboxRowOf(p).id = outId[p] /\ OutboxRowOf(p).case = held[p]
         /\ OutboxRowOf(p).version = upd[p].version
         /\ MoveOf(OutboxRowOf(p)) = MoveOf(EntryOf(p))
         /\ ResponseOf(p).case = held[p] /\ ResponseOf(p).status = upd[p].status
         /\ ResponseOf(p).version = upd[p].version
  BY DEF EntryOf, OutboxRowOf, ResponseOf, MoveOf

\* Each step keeps row, timeline and outbox in agreement: a transaction that reaches its
\* commit has written all three (case_repo.go, Transition).
LEMMA AtomicStep ==
  ASSUME TypeOK, SessionInv, AtomicRecords, NEW p \in Proc, StepOf(p)
  PROVE  AtomicRecords'
  <1>1. ASSUME UNCHANGED dbVars, NEW d \in Case
        PROVE  RowEndsTimeline(d)' /\ EntriesInOutbox(d)' /\ OutboxInTimeline(d)'
    <2>1. RowEndsTimeline(d) /\ EntriesInOutbox(d) /\ OutboxInTimeline(d)
      BY DEF AtomicRecords
    <2>2. RowEndsTimeline(d)'
      BY <1>1, <2>1 DEF RowEndsTimeline, dbVars
    <2>3. EntriesInOutbox(d)'
      BY <1>1, <2>1 DEF EntriesInOutbox, MoveOf, dbVars
    <2>4. OutboxInTimeline(d)'
      BY <1>1, <2>1 DEF OutboxInTimeline, dbVars
    <2>5. QED
      BY <2>2, <2>3, <2>4
  <1>2. ASSUME Commit(p), NEW d \in Case
        PROVE  RowEndsTimeline(d)' /\ EntriesInOutbox(d)' /\ OutboxInTimeline(d)'
    <2> DEFINE c == held[p]
               n == Len(timeline[c])
    <2>1. /\ c \in Case /\ n \in Nat /\ Len(timeline'[c]) = n + 1
          /\ \A m \in 1..n : timeline'[c][m] = timeline[c][m]
          /\ timeline'[c][n + 1] = EntryOf(p)
          /\ opsCase'[c] = upd[p] /\ upd[p].version = n + 1
          /\ outbox' = outbox \cup {OutboxRowOf(p)}
          /\ d # c => timeline'[d] = timeline[d] /\ opsCase'[d] = opsCase[d]
      BY <1>2, CommitEffect
    <2>2. RowEndsTimeline(d) /\ EntriesInOutbox(d) /\ OutboxInTimeline(d)
      BY DEF AtomicRecords
    <2>3. RowEndsTimeline(d)'
      <3>1. CASE d = c
        <4>1. opsCase'[d].version = n + 1 /\ opsCase'[d].status = EntryOf(p).to
          BY <2>1, <3>1, CommitRows
        <4>2. Len(timeline'[d]) = n + 1 /\ n + 1 # 0 /\ timeline'[d][n + 1] = EntryOf(p)
          BY <2>1, <3>1
        <4>3. QED
          BY <4>1, <4>2 DEF RowEndsTimeline
      <3>2. CASE d # c
        BY <2>1, <2>2, <3>2 DEF RowEndsTimeline
      <3>3. QED
        BY <3>1, <3>2
    <2>4. ASSUME NEW m \in 1..Len(timeline'[d])
          PROVE  \E r \in outbox' :
                   r.case = d /\ r.version = m /\ MoveOf(r) = MoveOf(timeline'[d][m])
      <3>1. CASE d = c /\ m = n + 1
        BY <2>1, <3>1, CommitRows
      <3>2. CASE ~(d = c /\ m = n + 1)
        <4>1. timeline'[d][m] = timeline[d][m] /\ m \in 1..Len(timeline[d])
          BY <2>1, <2>4, <3>2
        <4>2. \E r \in outbox : r.case = d /\ r.version = m /\ MoveOf(r) = MoveOf(timeline[d][m])
          BY <2>2, <4>1 DEF EntriesInOutbox
        <4>3. QED
          BY <2>1, <4>1, <4>2
      <3>3. QED
        BY <3>1, <3>2
    <2>5. ASSUME NEW r \in outbox', r.case = d
          PROVE  r.version \in 1..Len(timeline'[d])
      <3>1. CASE r = OutboxRowOf(p)
        BY <2>1, <2>5, <3>1, CommitRows
      <3>2. CASE r \in outbox
        <4>1. r.version \in 1..Len(timeline[d])
          BY <2>2, <2>5, <3>2 DEF OutboxInTimeline
        <4>2. QED
          BY <2>1, <4>1
      <3>3. QED
        BY <2>1, <3>1, <3>2
    <2>6. QED
      BY <2>3, <2>4, <2>5 DEF EntriesInOutbox, OutboxInTimeline, MoveOf
  <1>3. QED
    BY <1>1, <1>2, OnlyCommits DEF AtomicRecords

\* A timeline row is old, with the tables as they were, or it is what a commit adds.
LEMMA OldOrNewEntry ==
  ASSUME TypeOK, SessionInv, AtomicRecords, NEW p \in Proc, StepOf(p),
         NEW c \in Case, NEW n \in 1..Len(timeline'[c])
  PROVE  \/ /\ n \in 1..Len(timeline[c]) /\ timeline'[c][n] = timeline[c][n]
            /\ n # 1 => n - 1 \in 1..Len(timeline[c]) /\ timeline'[c][n - 1] = timeline[c][n - 1]
         \/ /\ Commit(p) /\ c = held[p] /\ n = Len(timeline[c]) + 1
            /\ timeline'[c][n] = EntryOf(p)
            /\ n # 1 => n - 1 \in 1..Len(timeline[c]) /\ timeline'[c][n - 1] = timeline[c][n - 1]
  <1>1. CASE UNCHANGED dbVars
    <2>1. timeline[c] \in Seq(Entry)
      BY DEF TypeOK
    <2>2. QED
      BY <1>1, <2>1 DEF dbVars
  <1>2. CASE Commit(p)
    <2>1. timeline[c] \in Seq(Entry)
      BY DEF TypeOK
    <2>2. /\ c # held[p] => timeline'[c] = timeline[c]
          /\ c = held[p] =>
               /\ Len(timeline'[c]) = Len(timeline[c]) + 1
               /\ \A m \in 1..Len(timeline[c]) : timeline'[c][m] = timeline[c][m]
               /\ timeline'[c][Len(timeline[c]) + 1] = EntryOf(p)
      BY <1>2, CommitEffect
    <2>3. QED
      BY <1>2, <2>1, <2>2
  <1>3. QED
    BY <1>1, <1>2, OnlyCommits

\* Each step keeps the timelines legal: what commits was decided on the locked row.
LEMMA LegalStep ==
  ASSUME TypeOK, SessionInv, AtomicRecords, LegalHistory, NEW p \in Proc, StepOf(p)
  PROVE  LegalHistory'
  <1> SUFFICES ASSUME NEW c \in Case, NEW n \in 1..Len(timeline'[c])
               PROVE  LegalEntry(c, n)'
    BY DEF LegalHistory
  <1>1. CASE /\ n \in 1..Len(timeline[c]) /\ timeline'[c][n] = timeline[c][n]
             /\ n # 1 => timeline'[c][n - 1] = timeline[c][n - 1]
    <2>1. LegalEntry(c, n)
      BY <1>1 DEF LegalHistory
    <2>2. QED
      BY <1>1, <2>1 DEF LegalEntry
  <1>2. CASE /\ Commit(p) /\ c = held[p] /\ n = Len(timeline[c]) + 1
             /\ timeline'[c][n] = EntryOf(p)
             /\ n # 1 => timeline'[c][n - 1] = timeline[c][n - 1]
    <2>1. /\ OneMove(p) /\ cur[p].version = n - 1
          /\ cur[p].status = IF n = 1 THEN "" ELSE timeline[c][n - 1].to
          /\ call[p] \in Call /\ n \in Nat \ {0}
      <3> DEFINE k == Len(timeline[c])
      <3>1. /\ OneMove(p) /\ cur[p].version = k /\ k \in Nat /\ call[p] \in Call
            /\ cur[p].status = IF k = 0 THEN "" ELSE timeline[c][k].to
        BY <1>2, CommitEffect
      <3>2. n = k + 1 /\ k \in Nat
        BY <1>2, <3>1
      <3> HIDE DEF k
      <3>3. n - 1 = k /\ (n = 1 <=> k = 0) /\ n \in Nat \ {0}
        BY <3>2
      <3>4. QED
        BY <3>1, <3>3
    <2>2. CASE call[p].op = "create" /\ cur[p] = NoRow /\ upd[p].status = "NEW"
      <3>1. cur[p].version = 0 /\ cur[p].status = ""
        <4>1. NoRow.version = 0 /\ NoRow.status = ""
          BY DEF NoRow
        <4>2. QED
          BY <2>2, <4>1
      <3>2. n = 1
        <4>1. n - 1 = 0 /\ n \in Nat
          BY <2>1, <3>1
        <4>2. QED
          BY <4>1
      <3>3. call[p].event = "case_created"
        BY <2>1, <2>2, ConstantTypes
      <3>4. QED
        BY <1>2, <2>2, <3>1, <3>2, <3>3, CommitRows DEF LegalEntry
    <2>3. CASE Allowed(p) /\ upd[p].status = Target(cur[p].status, call[p].event)
      <3>1. /\ InTable(cur[p].status, call[p].event)
            /\ Guard(cur[p].status, call[p].event, call[p].ctx)
            /\ cur[p].status \in State
        BY <2>3, DecideNil DEF Allowed
      <3>2. n # 1
        BY <2>1, <3>1 DEF State
      <3>3. /\ timeline'[c][n].from = timeline'[c][n - 1].to
            /\ timeline'[c][n].from = cur[p].status
            /\ timeline'[c][n].event = call[p].event
            /\ timeline'[c][n].call = call[p]
            /\ timeline'[c][n].to = Target(cur[p].status, call[p].event)
        BY <1>2, <2>1, <2>3, <3>2, CommitRows
      <3>4. QED
        BY <3>1, <3>2, <3>3 DEF LegalEntry
    <2>4. QED
      BY <2>1, <2>2, <2>3 DEF OneMove
  <1>3. QED
    BY <1>1, <1>2, OldOrNewEntry

\* Each step keeps the promise of IfMatch: it was compared with the locked row.
LEMMA IfMatchStep ==
  ASSUME TypeOK, SessionInv, AtomicRecords, IfMatchHonoured, NEW p \in Proc, StepOf(p)
  PROVE  IfMatchHonoured'
  <1> SUFFICES ASSUME NEW c \in Case, NEW n \in 1..Len(timeline'[c])
               PROVE  FromVersionAsked(c, n)'
    BY DEF IfMatchHonoured
  <1>1. CASE n \in 1..Len(timeline[c]) /\ timeline'[c][n] = timeline[c][n]
    <2>1. FromVersionAsked(c, n)
      BY <1>1 DEF IfMatchHonoured
    <2>2. QED
      BY <1>1, <2>1 DEF FromVersionAsked
  <1>2. CASE /\ Commit(p) /\ c = held[p] /\ n = Len(timeline[c]) + 1
             /\ timeline'[c][n] = EntryOf(p)
    <2>1. OneMove(p) /\ cur[p].version = n - 1 /\ n \in Nat
      <3>1. OneMove(p) /\ cur[p].version = Len(timeline[c]) /\ Len(timeline[c]) \in Nat
        BY <1>2, CommitEffect
      <3>2. QED
        BY <1>2, <3>1
    <2>2. timeline'[c][n].call = call[p]
      BY <1>2, CommitRows
    <2>3. ASSUME call[p].op = "transition"
          PROVE  call[p].case = c /\ (IfMatch(call[p]) # 0 => n = IfMatch(call[p]) + 1)
      <3>1. Allowed(p)
        BY <2>1, <2>3 DEF OneMove
      <3>2. QED
        BY <1>2, <2>1, <3>1 DEF Allowed, VersionMatches
    <2>4. QED
      BY <2>2, <2>3 DEF FromVersionAsked
  <1>3. QED
    BY <1>1, <1>2, OldOrNewEntry

\* A commit's id is above the rows of its case and differs from all others, and so is
\* its version.
LEMMA OutboxOrderStep ==
  ASSUME TypeOK, SessionInv, AtomicRecords, OutboxFollowsHistory, NEW p \in Proc, StepOf(p)
  PROVE  OutboxFollowsHistory'
  <1>1. CASE UNCHANGED dbVars
    BY <1>1 DEF OutboxFollowsHistory, dbVars
  <1>2. CASE Commit(p)
    <2>1. /\ held[p] \in Case /\ Len(timeline[held[p]]) \in Nat
          /\ upd[p].version = Len(timeline[held[p]]) + 1
          /\ outbox' = outbox \cup {OutboxRowOf(p)}
      BY <1>2, CommitEffect
    <2>2. outId[p] # 0
      BY <1>2 DEF Commit, SessionInv, SessionsInStep, InStep
    <2>3. /\ \A r \in outbox : r.id \in Nat /\ r.version \in Nat
          /\ outId[p] \in Nat
      BY DEF TypeOK, OutboxRow
    <2>4. ASSUME NEW r \in outbox
          PROVE  /\ r.id # outId[p]
                 /\ r.case = held[p] => r.id < outId[p] /\ r.version < upd[p].version
      <3>1. r.id # outId[p] /\ (r.case = held[p] => r.id < outId[p])
        BY <2>2 DEF SessionInv, IdsFresh
      <3>2. r.case = held[p] => r.version \in 1..Len(timeline[held[p]])
        BY <2>1 DEF AtomicRecords, OutboxInTimeline
      <3>3. QED
        BY <2>1, <2>3, <3>1, <3>2
    <2>5. QED
      BY <2>1, <2>3, <2>4, CommitRows DEF OutboxFollowsHistory
  <1>3. QED
    BY <1>1, <1>2, OnlyCommits

----------------------------------------------------------------------------
\* Keys and answers

\* The key that a commit stores is free until then, in the tables and in the timeline.
LEMMA CommitKeyFree ==
  ASSUME TypeOK, SessionInv, KeyBacksOneEffect, NEW p \in Proc, Commit(p),
         call[p].key # NoKey
  PROVE  /\ call[p].key \in Key
         /\ idempotency[call[p].key] = NoResponse
         /\ \A d \in Case : \A m \in 1..Len(timeline[d]) :
              timeline[d][m].call.key # call[p].key
  <1>1. pc[p] = "commit" /\ "idempotency" \in written[p]
    BY DEF Commit, SessionInv, SessionsInStep, InStep
  <1>2. call[p].key \in Key
    BY <1>1, SessionTypes
  <1>3. idempotency[call[p].key] = NoResponse
    BY <1>1 DEF SessionInv, KeysExclusive
  <1>4. ASSUME NEW d \in Case, NEW m \in 1..Len(timeline[d]),
               timeline[d][m].call.key = call[p].key
        PROVE  FALSE
    <2>1. OnlyEffect(d, m)
      BY DEF KeyBacksOneEffect
    <2>2. idempotency[call[p].key] = [case |-> d, status |-> timeline[d][m].to, version |-> m]
      BY <1>4, <2>1 DEF OnlyEffect
    <2>3. NoResponse.case = NoCase
      BY DEF NoResponse
    <2>4. QED
      BY <1>3, <2>2, <2>3, CaseAssumption
  <1>5. QED
    BY <1>2, <1>3, <1>4

\* Each step keeps a key to one effect: its row is stored by the commit of the effect.
LEMMA KeyEffectStep ==
  ASSUME TypeOK, SessionInv, AtomicRecords, KeyBacksOneEffect, NEW p \in Proc, StepOf(p)
  PROVE  KeyBacksOneEffect'
  <1> SUFFICES ASSUME NEW c \in Case, NEW n \in 1..Len(timeline'[c])
               PROVE  OnlyEffect(c, n)'
    BY DEF KeyBacksOneEffect
  <1>1. CASE UNCHANGED dbVars
    <2>1. OnlyEffect(c, n)
      BY <1>1 DEF KeyBacksOneEffect, dbVars
    <2>2. QED
      BY <1>1, <2>1 DEF OnlyEffect, dbVars
  <1>2. CASE Commit(p)
    <2> DEFINE h == held[p]
               l == Len(timeline[h]) + 1
               key == timeline'[c][n].call.key
    <2>1. SUFFICES ASSUME key # NoKey
                   PROVE  /\ idempotency'[key] =
                               [case |-> c, status |-> timeline'[c][n].to, version |-> n]
                          /\ \A d \in Case : \A m \in 1..Len(timeline'[d]) :
                               timeline'[d][m].call.key = key => d = c /\ m = n
      BY DEF OnlyEffect
    <2>2. /\ h \in Case /\ upd[p].version = l
          /\ call[p] \in Call
          /\ idempotency' = IF call[p].key # NoKey
                            THEN [idempotency EXCEPT ![call[p].key] = ResponseOf(p)]
                            ELSE idempotency
      BY <1>2, CommitEffect
    <2>3. \A d \in Case : \A m \in 1..Len(timeline'[d]) :
            \/ m \in 1..Len(timeline[d]) /\ timeline'[d][m] = timeline[d][m]
            \/ d = h /\ m = l /\ timeline'[d][m].call = call[p]
      BY OldOrNewEntry, CommitRows
    <2>4. CASE n \in 1..Len(timeline[c]) /\ timeline'[c][n] = timeline[c][n]
      <3>1. OnlyEffect(c, n)
        BY <2>4 DEF KeyBacksOneEffect
      <3>2. /\ idempotency[key] = [case |-> c, status |-> timeline'[c][n].to, version |-> n]
            /\ \A d \in Case : \A m \in 1..Len(timeline[d]) :
                 timeline[d][m].call.key = key => d = c /\ m = n
        BY <2>1, <2>4, <3>1 DEF OnlyEffect
      <3>3. call[p].key # key
        BY <1>2, <2>1, <2>4, CommitKeyFree
      <3>4. idempotency'[key] = idempotency[key]
        BY <2>2, <3>3 DEF TypeOK
      <3>5. QED
        BY <2>3, <3>2, <3>3, <3>4
    <2>5. CASE c = h /\ n = l /\ timeline'[c][n] = EntryOf(p)
      <3>1. key = call[p].key /\ timeline'[c][n].to = upd[p].status
        BY <2>5, CommitRows
      <3>2. idempotency'[key] = ResponseOf(p)
        BY <1>2, <2>1, <2>2, <3>1, CommitKeyFree DEF TypeOK
      <3>3. ResponseOf(p) = [case |-> c, status |-> timeline'[c][n].to, version |-> n]
        BY <2>2, <2>5, <3>1 DEF ResponseOf
      <3>4. \A d \in Case : \A m \in 1..Len(timeline[d]) : timeline[d][m].call.key # key
        BY <1>2, <2>1, <3>1, CommitKeyFree
      <3>5. QED
        BY <2>3, <2>5, <3>2, <3>3, <3>4
    <2>6. QED
      BY <2>4, <2>5, OldOrNewEntry
  <1>3. QED
    BY <1>1, <1>2, OnlyCommits

\* What is on record stays on record.
LEMMA RecordStays ==
  ASSUME TypeOK, SessionInv, AtomicRecords, KeyBacksOneEffect, NEW p \in Proc, StepOf(p),
         NEW r, OnRecord(r)
  PROVE  /\ OnRecord(r)'
         /\ \A k : Recorded(k, r) => Recorded(k, r)'
  <1>1. CASE UNCHANGED dbVars
    BY <1>1 DEF OnRecord, Recorded, dbVars
  <1>2. CASE Commit(p)
    <2>1. /\ r.case \in Case /\ r.version \in 1..Len(timeline[r.case])
          /\ timeline[r.case][r.version].to = r.status
      BY DEF OnRecord
    <2>2. /\ Len(timeline[held[p]]) \in Nat
          /\ Len(timeline'[held[p]]) = Len(timeline[held[p]]) + 1
          /\ \A m \in 1..Len(timeline[held[p]]) : timeline'[held[p]][m] = timeline[held[p]][m]
          /\ r.case # held[p] => timeline'[r.case] = timeline[r.case]
          /\ idempotency' = IF call[p].key # NoKey
                            THEN [idempotency EXCEPT ![call[p].key] = ResponseOf(p)]
                            ELSE idempotency
      BY <1>2, <2>1, CommitEffect
    <2>3. /\ r.version \in 1..Len(timeline'[r.case])
          /\ timeline'[r.case][r.version] = timeline[r.case][r.version]
      BY <2>1, <2>2
    <2>4. r # NoResponse
      <3>1. NoResponse.case = NoCase
        BY DEF NoResponse
      <3>2. QED
        BY <2>1, <3>1, CaseAssumption
    <2>5. ASSUME NEW k, idempotency[k] = r
          PROVE  idempotency'[k] = r
      BY <1>2, <2>2, <2>4, <2>5, CommitKeyFree DEF TypeOK
    <2>6. QED
      BY <2>1, <2>3, <2>5 DEF OnRecord, Recorded
  <1>3. QED
    BY <1>1, <1>2, OnlyCommits

\* The response of a commit is on record once it is done.
LEMMA CommitRecorded ==
  ASSUME TypeOK, SessionInv, AtomicRecords, KeyBacksOneEffect, NEW p \in Proc, Commit(p),
         NEW k, NEW r, k = call[p], r = ResponseOf(p)
  PROVE  Recorded(k, r)'
  <1> DEFINE h == held[p]
             l == Len(timeline[h]) + 1
  <1>1. /\ h \in Case /\ upd[p].version = l /\ Len(timeline[h]) \in Nat
        /\ Len(timeline'[h]) = l
        /\ timeline'[h][l] = EntryOf(p)
        /\ idempotency' = IF call[p].key # NoKey
                          THEN [idempotency EXCEPT ![call[p].key] = r]
                          ELSE idempotency
    BY CommitEffect
  <1>2. r.case = h /\ r.version = l /\ r.status = upd[p].status
    BY <1>1, CommitRows
  <1>3. OnRecord(r)'
    BY <1>1, <1>2, CommitRows DEF OnRecord
  <1>4. k.key = NoKey => timeline'[r.case][r.version].call = k
    BY <1>1, <1>2, CommitRows
  <1>5. k.key # NoKey => idempotency'[k.key] = r
    BY <1>1, CommitKeyFree DEF TypeOK
  <1>6. QED
    BY <1>3, <1>4, <1>5 DEF Recorded

\* Each step keeps what goroutines are about to answer on record.
LEMMA ResponsesStep ==
  ASSUME TypeOK, SessionInv, AtomicRecords, KeyBacksOneEffect, ResponsesOnRecord,
         NEW p \in Proc, StepOf(p)
  PROVE  ResponsesOnRecord'
  <1>1. ASSUME NEW k \in Key, idempotency'[k] # NoResponse
        PROVE  OnRecord(idempotency[k])'
    <2>1. CASE idempotency'[k] = idempotency[k]
      <3>1. OnRecord(idempotency[k])
        BY <1>1, <2>1 DEF ResponsesOnRecord
      <3>2. \A r : OnRecord(r) => OnRecord(r)'
        BY RecordStays
      <3>3. QED
        BY <2>1, <3>1, <3>2 DEF OnRecord
    <2>2. CASE idempotency'[k] # idempotency[k]
      <3>1. Commit(p)
        BY <2>2, OnlyCommits DEF dbVars
      <3>2. idempotency'[k] = ResponseOf(p)
        <4>1. idempotency' = IF call[p].key # NoKey
                             THEN [idempotency EXCEPT ![call[p].key] = ResponseOf(p)]
                             ELSE idempotency
          BY <3>1, CommitEffect
        <4>2. QED
          BY <2>2, <4>1 DEF TypeOK
      <3>3. \A r : r = ResponseOf(p) => OnRecord(r)'
        BY <3>1, CommitRecorded DEF Recorded
      <3>4. QED
        BY <3>2, <3>3 DEF OnRecord
    <2>3. QED
      BY <2>1, <2>2
  <1>2. pc'[p] = "rollback" => err'[p] # "nil"
    <2>1. CASE GetCaseForUpdate(p)
      BY <2>1 DEF GetCaseForUpdate, Abandon, Goto, TypeOK
    <2>2. CASE CaseNotFound(p) \/ StatementFails(p) \/ UpdateCaseStatus(p) \/ InsertOutbox(p)
      BY <2>2 DEF CaseNotFound, StatementFails, UpdateCaseStatus, InsertOutbox, Abandon,
        Goto, TypeOK
    <2>3. CASE InsertIdempotency(p) \/ TimelineFails(p)
      BY <2>3 DEF InsertIdempotency, InsertKey, RefuseRequest, TimelineFails, TimelineError, Abandon, Goto,
        TypeOK
    <2>4. CASE \/ \E k \in Call : Receive(p, k)
               \/ LookupHit(p) \/ LookupMiss(p) \/ Begin(p) \/ BeginFails(p)
               \/ InsertCase(p) \/ InsertTimeline(p)
      BY <2>4 DEF Receive, LookupHit, LookupMiss, Begin, BeginFails, InsertCase,
        InsertTimeline, Goto, TypeOK
    <2>5. CASE Rollback(p) \/ Commit(p) \/ CommitFails(p) \/ Reply(p) \/ Crash(p)
      BY <2>5 DEF Rollback, Commit, CommitFails, Reply, Crash, Forget, Goto, TypeOK
    <2>6. QED
      BY <2>1, <2>2, <2>3, <2>4, <2>5 DEF StepOf, Work, Fault
  <1>3. ASSUME pc'[p] = "reply", err'[p] = "nil"
        PROVE  Recorded(call[p], resp[p])'
    <2>1. CASE LookupHit(p)
      <3>1. /\ call'[p] = call[p] /\ call[p].key \in Key /\ call[p].key # NoKey
            /\ UNCHANGED <<timeline, idempotency>>
            /\ resp'[p] = idempotency[call[p].key] /\ resp'[p] # NoResponse
        <4>1. pc[p] = "lookup" /\ call[p].key # NoKey
          BY <2>1 DEF LookupHit, SessionInv, SessionsInStep, InStep
        <4>2. call[p].key \in Key
          BY <4>1, SessionTypes
        <4>3. QED
          BY <2>1, <4>1, <4>2 DEF LookupHit, TypeOK, dbVars
      <3>2. OnRecord(idempotency[call[p].key])
        BY <3>1 DEF ResponsesOnRecord
      <3>3. QED
        BY <3>1, <3>2 DEF Recorded, OnRecord
    <2>2. CASE Commit(p)
      <3>1. call'[p] = call[p] /\ resp'[p] = ResponseOf(p)
        BY <2>2 DEF Commit, TypeOK
      <3>2. \A k, r : k = call[p] /\ r = ResponseOf(p) => Recorded(k, r)'
        BY <2>2, CommitRecorded
      <3>3. QED
        BY <3>1, <3>2 DEF Recorded, OnRecord
    <2>3. CASE \/ \E k \in Call : Receive(p, k)
               \/ LookupMiss(p) \/ Begin(p) \/ BeginFails(p) \/ InsertCase(p)
               \/ InsertTimeline(p) \/ Reply(p) \/ Crash(p)
      BY <1>3, <2>3 DEF Receive, LookupMiss, Begin, BeginFails, InsertCase, InsertTimeline,
        Reply, Crash, Forget, Goto, TypeOK
    <2>4. CASE CaseNotFound(p) \/ StatementFails(p) \/ UpdateCaseStatus(p) \/ InsertOutbox(p)
      BY <1>3, <2>4 DEF CaseNotFound, StatementFails, UpdateCaseStatus, InsertOutbox, Abandon,
        Goto, TypeOK
    <2>5. CASE InsertIdempotency(p) \/ TimelineFails(p) \/ GetCaseForUpdate(p)
      BY <1>3, <2>5 DEF InsertIdempotency, InsertKey, RefuseRequest, TimelineFails, TimelineError,
        GetCaseForUpdate, Abandon, Goto, TypeOK
    <2>6. CASE Rollback(p) \/ CommitFails(p)
      BY <1>3, <2>6 DEF Rollback, CommitFails, CommitError, ResponsesOnRecord, TypeOK
    <2>7. QED
      BY <2>1, <2>2, <2>3, <2>4, <2>5, <2>6 DEF StepOf, Work, Fault
  <1>4. ASSUME NEW q \in Proc, q # p
        PROVE  /\ pc'[q] = "rollback" => err'[q] # "nil"
               /\ pc'[q] = "reply" /\ err'[q] = "nil" => Recorded(call[q], resp[q])'
    <2>1. /\ pc'[q] = pc[q] /\ err'[q] = err[q] /\ call'[q] = call[q] /\ resp'[q] = resp[q]
          /\ pc[q] = "rollback" => err[q] # "nil"
          /\ pc[q] = "reply" /\ err[q] = "nil" => Recorded(call[q], resp[q])
      BY <1>4, Frame DEF ResponsesOnRecord
    <2>2. \A k, r : Recorded(k, r) => Recorded(k, r)'
      BY RecordStays DEF Recorded
    <2>3. QED
      BY <2>1, <2>2, SMTT(30) DEF Recorded, OnRecord
  <1>5. QED
    BY <1>1, <1>2, <1>3, <1>4 DEF ResponsesOnRecord

\* Each step keeps what clients were answered on record (handlers.go, transitionCase).
LEMMA AnswersStep ==
  ASSUME TypeOK, SessionInv, AtomicRecords, KeyBacksOneEffect, ResponsesOnRecord,
         AnswersRecorded, NEW p \in Proc, StepOf(p)
  PROVE  AnswersRecorded'
  <1> SUFFICES ASSUME NEW a \in answers', a.code = 200
               PROVE  Recorded(a.call, a.resp)'
    BY DEF AnswersRecorded
  <1>1. Recorded(a.call, a.resp)
    <2>1. CASE a \in answers
      BY <2>1 DEF AnswersRecorded
    <2>2. CASE a \notin answers
      <3>1. Reply(p)
        BY <2>2 DEF StepOf, Work, Fault, Receive, LookupHit, LookupMiss, Begin, BeginFails,
          InsertCase, CaseNotFound, StatementFails, GetCaseForUpdate, UpdateCaseStatus,
          InsertTimeline, TimelineFails, InsertOutbox, InsertIdempotency, Rollback, Commit,
          CommitFails, Crash
      <3>2. /\ a.call = call[p] /\ a.resp = resp[p] /\ pc[p] = "reply"
            /\ StatusCode(call[p].op, err[p]) = 200
        BY <2>2, <3>1 DEF Reply
      <3>3. err[p] = "nil"
        BY <3>2 DEF StatusCode
      <3>4. QED
        BY <3>2, <3>3 DEF ResponsesOnRecord
    <2>3. QED
      BY <2>1, <2>2
  <1>2. QED
    BY <1>1, RecordStays DEF Recorded

----------------------------------------------------------------------------
\* The theorems

\* The invariant is inductive: open transactions bind what they will commit.
LEMMA InvInductive ==
  /\ Init => Inv
  /\ Inv /\ [Next]_vars => Inv'
  <1>1. ASSUME Init
        PROVE  Inv
    <2>1. TypeOK
      BY <1>1, TypeInit
    <2>2. SessionInv
      BY <1>1 DEF Init, SessionInv, LocksExclusive, SessionsInStep, InStep, IdsFresh, KeysExclusive
    <2>3. HistoryInv
      <3>1. \A c \in Case : Len(timeline[c]) = 0 /\ opsCase[c] = NoRow
        BY <1>1 DEF Init
      <3>2. NoRow.version = 0 /\ NoRow.status = ""
        BY DEF NoRow
      <3>3. \A c \in Case : RowEndsTimeline(c)
        BY <3>1, <3>2 DEF RowEndsTimeline
      <3>4. \A c \in Case : EntriesInOutbox(c) /\ OutboxInTimeline(c)
        BY <1>1, <3>1 DEF Init, EntriesInOutbox, OutboxInTimeline
      <3>5. LegalHistory /\ IfMatchHonoured
        BY <3>1 DEF LegalHistory, IfMatchHonoured
      <3>6. QED
        BY <3>3, <3>4, <3>5 DEF HistoryInv, AtomicRecords
    <2>4. OutboxFollowsHistory /\ KeyBacksOneEffect /\ ResponsesOnRecord /\ AnswersRecorded
      BY <1>1 DEF Init, OutboxFollowsHistory, KeyBacksOneEffect, ResponsesOnRecord, AnswersRecorded
    <2>5. QED
      BY <2>1, <2>2, <2>3, <2>4 DEF Inv
  <1>2. ASSUME Inv, NEW p \in Proc, StepOf(p)
        PROVE  Inv'
    <2>1. TypeOK /\ SessionInv /\ AtomicRecords /\ LegalHistory /\ IfMatchHonoured
          /\ OutboxFollowsHistory /\ KeyBacksOneEffect /\ ResponsesOnRecord /\ AnswersRecorded
          /\ LocksExclusive /\ SessionsInStep /\ IdsFresh /\ KeysExclusive
      BY <1>2 DEF Inv, HistoryInv, SessionInv
    <2>2. TypeOK'
      BY <1>2, <2>1, TypeStep DEF Next, StepOf
    <2>3. SessionInv'
      BY <1>2, <2>1, LocksStep, SessionsStep, IdsStep, KeysStep DEF SessionInv
    <2>4. HistoryInv'
      BY <1>2, <2>1, AtomicStep, LegalStep, IfMatchStep DEF HistoryInv
    <2>5. OutboxFollowsHistory' /\ KeyBacksOneEffect'
      BY <1>2, <2>1, OutboxOrderStep, KeyEffectStep
    <2>6. ResponsesOnRecord' /\ AnswersRecorded'
      BY <1>2, <2>1, ResponsesStep, AnswersStep
    <2>7. QED
      BY <2>2, <2>3, <2>4, <2>5, <2>6 DEF Inv
  <1>3. ASSUME Inv, UNCHANGED vars
        PROVE  Inv'
    <2>1. TypeOK' /\ SessionInv'
      <3>1. TypeOK'
        BY <1>3, TypeStep DEF Inv
      <3>2. LocksExclusive' /\ IdsFresh' /\ KeysExclusive'
        BY <1>3 DEF Inv, SessionInv, LocksExclusive, IdsFresh, KeysExclusive, vars
      <3>3. SessionsInStep'
        BY <1>3 DEF Inv, SessionInv, SessionsInStep, InStep, OneMove, Allowed, VersionMatches,
          vars
      <3>4. QED
        BY <3>1, <3>2, <3>3 DEF SessionInv
    <2>2. AtomicRecords'
      <3>1. ASSUME NEW c \in Case
            PROVE  RowEndsTimeline(c)' /\ EntriesInOutbox(c)' /\ OutboxInTimeline(c)'
        <4>1. RowEndsTimeline(c) /\ EntriesInOutbox(c) /\ OutboxInTimeline(c)
          BY <1>3 DEF Inv, HistoryInv, AtomicRecords
        <4>2. RowEndsTimeline(c)'
          BY <1>3, <4>1 DEF RowEndsTimeline, vars
        <4>3. EntriesInOutbox(c)'
          BY <1>3, <4>1 DEF EntriesInOutbox, MoveOf, vars
        <4>4. OutboxInTimeline(c)'
          BY <1>3, <4>1 DEF OutboxInTimeline, vars
        <4>5. QED
          BY <4>2, <4>3, <4>4
      <3>2. QED
        BY <3>1 DEF AtomicRecords
    <2>3. LegalHistory' /\ IfMatchHonoured'
      <3>1. timeline' = timeline /\ LegalHistory /\ IfMatchHonoured
        BY <1>3 DEF Inv, HistoryInv, vars
      <3>2. LegalHistory'
        BY <3>1 DEF LegalHistory, LegalEntry
      <3>3. IfMatchHonoured'
        BY <3>1 DEF IfMatchHonoured, FromVersionAsked
      <3>4. QED
        BY <3>2, <3>3
    <2>4. OutboxFollowsHistory' /\ KeyBacksOneEffect'
      BY <1>3 DEF Inv, OutboxFollowsHistory, KeyBacksOneEffect, OnlyEffect, vars
    <2>5. ResponsesOnRecord' /\ AnswersRecorded'
      BY <1>3 DEF Inv, ResponsesOnRecord, AnswersRecorded, Recorded, OnRecord, vars
    <2>6. QED
      BY <2>1, <2>2, <2>3, <2>4, <2>5 DEF Inv, HistoryInv
  <1>4. QED
    BY <1>1, <1>2, <1>3 DEF Next, StepOf

\* Whatever requests, retries and faults come, and in whatever interleaving, the
\* invariant of the repository holds.
THEOREM InvAlways == Spec => []Inv
  BY InvInductive, PTL DEF Spec

\* The tables and the goroutines keep their types (case_repo.go, ops_case.sql).
THEOREM TypeCorrect == Spec => []TypeOK
  <1>1. Inv => TypeOK
    BY DEF Inv
  <1>2. QED
    BY <1>1, InvAlways, PTL

\* An open transaction is alone with its row, its outbox id and its key.
THEOREM SessionsAreSound == Spec => []SessionInv
  <1>1. Inv => SessionInv
    BY DEF Inv
  <1>2. QED
    BY <1>1, InvAlways, PTL

\* The row, the timeline and the outbox of a case never disagree.
THEOREM RecordsAreAtomic == Spec => []AtomicRecords
  <1>1. Inv => AtomicRecords
    BY DEF Inv, HistoryInv
  <1>2. QED
    BY <1>1, InvAlways, PTL

\* Every timeline is a walk of the state machine.
THEOREM HistoryIsLegal == Spec => []LegalHistory
  <1>1. Inv => LegalHistory
    BY DEF Inv, HistoryInv
  <1>2. QED
    BY <1>1, InvAlways, PTL

\* No concurrent change is overwritten by a caller who named a version.
THEOREM VersionsAreHonoured == Spec => []IfMatchHonoured
  <1>1. Inv => IfMatchHonoured
    BY DEF Inv, HistoryInv
  <1>2. QED
    BY <1>1, InvAlways, PTL

\* The outbox ids of a case follow its versions.
THEOREM OutboxIsOrdered == Spec => []OutboxFollowsHistory
  <1>1. Inv => OutboxFollowsHistory
    BY DEF Inv
  <1>2. QED
    BY <1>1, InvAlways, PTL

\* An Idempotency-Key has at most one effect, and it is the one stored.
THEOREM KeysAreIdempotent == Spec => []KeyBacksOneEffect
  <1>1. Inv => KeyBacksOneEffect
    BY DEF Inv
  <1>2. QED
    BY <1>1, InvAlways, PTL

\* What a client was told with a 200 is in the tables.
THEOREM AnswersAreTrue == Spec => []AnswersRecorded
  <1>1. Inv => AnswersRecorded
    BY DEF Inv
  <1>2. QED
    BY <1>1, InvAlways, PTL

----------------------------------------------------------------------------
\* The repository implements the ledger: every commit is one move of CaseLedger, every other
\* step leaves the ledger alone.

\* The rows of one case become visible in the order of their ids.
THEOREM CommitsFollowIds == Spec => RowsCommitInOrder
  <1> DEFINE InOrder == \A r \in outbox' \ outbox : \A s \in outbox : s.case = r.case => s.id < r.id
  <1>1. ASSUME Inv, [Next]_vars
        PROVE  InOrder \/ UNCHANGED vars
    <2>1. ASSUME NEW p \in Proc, StepOf(p)
          PROVE  InOrder
      <3>1. CASE Commit(p)
        <4>1. outbox' = outbox \cup {OutboxRowOf(p)}
          BY <1>1, <3>1, CommitEffect DEF Inv, HistoryInv
        <4>2. outId[p] # 0
          BY <1>1, <3>1 DEF Commit, Inv, SessionInv, SessionsInStep, InStep
        <4>3. \A s \in outbox : s.case = held[p] => s.id < outId[p]
          BY <1>1, <4>2 DEF Inv, SessionInv, IdsFresh
        <4>4. QED
          BY <4>1, <4>3, CommitRows
      <3>2. CASE UNCHANGED dbVars
        BY <3>2 DEF dbVars
      <3>3. QED
        BY <2>1, <3>1, <3>2, OnlyCommits
    <2>2. QED
      BY <1>1, <2>1 DEF Next, StepOf
  <1>2. QED
    BY <1>1, InvAlways, PTL DEF Spec, RowsCommitInOrder

----------------------------------------------------------------------------
\* The entry of the ledger's history for a timeline row.
LedgerEntry(e) == [move |-> MoveOf(e), ctx |-> e.call.ctx]

\* The history the ledger sees is a sequence, one entry for each timeline row.
LEMMA HistoryIsSeq ==
  ASSUME TypeOK, NEW c \in Case
  PROVE  /\ HistoryOf(c) \in Seq({LedgerEntry(e) : e \in Entry})
         /\ Len(HistoryOf(c)) = Len(timeline[c])
         /\ \A n \in 1..Len(timeline[c]) : HistoryOf(c)[n] = LedgerEntry(timeline[c][n])
  <1>1. timeline[c] \in Seq(Entry)
    BY DEF TypeOK
  <1>2. HistoryOf(c) = [n \in 1..Len(timeline[c]) |-> LedgerEntry(timeline[c][n])]
    BY <1>1 DEF HistoryOf, LedgerEntry
  <1>3. QED
    BY <1>1, <1>2

\* A sequence is the function on 1..n that its elements define.
LEMMA SeqIsFunction ==
  ASSUME NEW T, NEW s \in Seq(T)
  PROVE  s = [m \in 1..Len(s) |-> s[m]]
  <1>1. s \in [1..Len(s) -> T]
    OBVIOUS
  <1>2. QED
    BY <1>1

\* The history of the case that commits grows by one entry, the others do not change.
LEMMA CommitHistory ==
  ASSUME TypeOK, TypeOK', SessionInv, AtomicRecords, NEW p \in Proc, Commit(p),
         NEW c \in Case, c = held[p]
  PROVE  /\ HistoryOf(c)' = Append(HistoryOf(c), LedgerEntry(EntryOf(p)))
         /\ \A d \in Case : d # c => HistoryOf(d)' = HistoryOf(d)
  <1> DEFINE n == Len(timeline[c])
             h == HistoryOf(c)
             e == LedgerEntry(EntryOf(p))
             S == {LedgerEntry(x) : x \in Entry}
  <1>1. /\ n \in Nat /\ Len(timeline'[c]) = n + 1
        /\ \A m \in 1..n : timeline'[c][m] = timeline[c][m]
        /\ timeline'[c][n + 1] = EntryOf(p)
        /\ \A d \in Case : d # c => timeline'[d] = timeline[d]
    BY CommitEffect
  <1>2. ASSUME NEW d \in Case, d # c
        PROVE  HistoryOf(d)' = HistoryOf(d)
    BY <1>1, <1>2 DEF HistoryOf, MoveOf
  <1>3. timeline'[c] \in Seq(Entry)
    BY <1>1 DEF TypeOK
  <1>4. HistoryOf(c)' = [m \in 1..(n + 1) |-> LedgerEntry(timeline'[c][m])]
    <2>1. HistoryOf(c)' = [m \in DOMAIN timeline'[c] |-> LedgerEntry(timeline'[c][m])]
      BY DEF HistoryOf, LedgerEntry, MoveOf
    <2>2. DOMAIN timeline'[c] = 1..(n + 1)
      BY <1>1, <1>3
    <2>3. QED
      BY <2>1, <2>2
  <1>5. h \in Seq(S) /\ Len(h) = n /\ \A m \in 1..n : h[m] = LedgerEntry(timeline[c][m])
    BY <1>1, HistoryIsSeq
  <1>6. Append(h, e) = [m \in 1..(n + 1) |-> LedgerEntry(timeline'[c][m])]
    <2>1. e = LedgerEntry(timeline'[c][n + 1])
      BY <1>1
    <2>2. \A m \in 1..n : h[m] = LedgerEntry(timeline'[c][m])
      BY <1>1, <1>5
    <2> HIDE DEF n, h, e, S
    <2>3. h \in Seq(S \cup {e})
      BY <1>5
    <2>4. /\ Append(h, e) \in Seq(S \cup {e})
          /\ Len(Append(h, e)) = n + 1
          /\ \A m \in 1..n : Append(h, e)[m] = h[m]
          /\ Append(h, e)[n + 1] = e
      BY <1>1, <1>5, <2>3
    <2>5. Append(h, e) = [m \in 1..(n + 1) |-> Append(h, e)[m]]
      BY <2>4, SeqIsFunction
    <2>6. ASSUME NEW m \in 1..(n + 1)
          PROVE  Append(h, e)[m] = LedgerEntry(timeline'[c][m])
      BY <1>1, <2>1, <2>2, <2>4
    <2>7. QED
      BY <2>5, <2>6
  <1>7. QED
    BY <1>2, <1>4, <1>6

\* The state machine that the ledger extends is the repository's.
LEMMA SameWorkflow ==
  /\ Ledger!Flag = Flag /\ Ledger!Event = Event
  /\ \A from, ev : Ledger!Target(from, ev) = Target(from, ev)
  /\ \A from, ev, ctx : Ledger!Decide(from, ev, ctx) = Decide(from, ev, ctx)
  <1>1. Ledger!Flag = Flag /\ Ledger!Event = Event /\ Ledger!State = State
    BY DEF Ledger!Flag, Flag, Ledger!Event, Event, Ledger!State, State
  <1>2. Ledger!Table = Table
    BY DEF Ledger!Table, Table
  <1>3. \A from, ev : /\ Ledger!Target(from, ev) = Target(from, ev)
                      /\ Ledger!InTable(from, ev) <=> InTable(from, ev)
    BY <1>1, <1>2 DEF Ledger!Target, Target, Ledger!InTable, InTable
  <1>4. \A from, ev, ctx : Ledger!Guard(from, ev, ctx) <=> Guard(from, ev, ctx)
    BY DEF Ledger!Guard, Guard
  <1>5. \A from, ev, ctx : Ledger!Decide(from, ev, ctx) = Decide(from, ev, ctx)
    BY <1>3, <1>4 DEF Ledger!Decide, Decide
  <1>6. QED
    BY <1>1, <1>3, <1>5

\* A commit is a move of the ledger.
LEMMA CommitIsMove ==
  ASSUME TypeOK, TypeOK', SessionInv, AtomicRecords, KeyBacksOneEffect,
         NEW p \in Proc, Commit(p)
  PROVE  Ledger!LedgerNext
  <1> DEFINE ctx == call[p].ctx
             ev == call[p].event
             to == upd[p].status
  <1>1. PICK c \in Case : c = held[p]
    BY CommitEffect
  <1> DEFINE version == opsCase[c].version + 1
             move == [from |-> opsCase[c].status, event |-> ev, to |-> to]
  <1>2. /\ OneMove(p) /\ cur[p] = opsCase[c] /\ call[p] \in Call
        /\ upd[p].version = version /\ cur[p].version \in Nat
        /\ outbox' = outbox \cup {OutboxRowOf(p)}
        /\ idempotency' = IF call[p].key # NoKey
                          THEN [idempotency EXCEPT ![call[p].key] = ResponseOf(p)]
                          ELSE idempotency
    <2>1. /\ OneMove(p) /\ cur[p] = opsCase[c] /\ call[p] \in Call
          /\ outbox' = outbox \cup {OutboxRowOf(p)}
          /\ idempotency' = IF call[p].key # NoKey
                            THEN [idempotency EXCEPT ![call[p].key] = ResponseOf(p)]
                            ELSE idempotency
      BY <1>1, CommitEffect
    <2>2. upd[p].version = cur[p].version + 1
      BY <2>1 DEF OneMove
    <2>3. QED
      BY <2>1, <2>2, RowTypes
  <1>3. ctx \in SUBSET Flag
    BY <1>2, ConstantTypes DEF CallType
  <1>4. upd[p] = [status |-> to, version |-> version]
    <2>1. upd[p] \in Row
      BY RowTypes
    <2>2. upd[p] = [status |-> upd[p].status, version |-> upd[p].version]
      BY <2>1 DEF Row
    <2>3. QED
      BY <1>2, <2>2
  <1>5. opsCase' = [opsCase EXCEPT ![c] = [status |-> to, version |-> version]]
    BY <1>1, <1>4 DEF Commit, Install
  <1>6. opsCase' # opsCase
    <2>1. opsCase'[c].version = version
      BY <1>5 DEF TypeOK
    <2>2. opsCase[c].version \in Nat
      BY <1>2
    <2>3. QED
      BY <2>1, <2>2
  <1>7. [d \in Case |-> HistoryOf(d)'] =
          [[d \in Case |-> HistoryOf(d)] EXCEPT ![c] = Append(@, [move |-> move, ctx |-> ctx])]
    <2>1. LedgerEntry(EntryOf(p)) = [move |-> move, ctx |-> ctx]
      BY <1>2 DEF LedgerEntry, EntryOf, MoveOf
    <2>2. /\ HistoryOf(c)' = Append(HistoryOf(c), [move |-> move, ctx |-> ctx])
          /\ \A d \in Case : d # c => HistoryOf(d)' = HistoryOf(d)
      BY <1>1, <2>1, CommitHistory
    <2> HIDE DEF move, ctx
    <2>3. QED
      BY <2>2
  <1>8. EventsOut' = EventsOut \cup {[case |-> c, version |-> version, move |-> move]}
    <2>1. /\ OutboxRowOf(p).case = c /\ OutboxRowOf(p).version = version
          /\ MoveOf(OutboxRowOf(p)) = move
      BY <1>1, <1>2 DEF OutboxRowOf, MoveOf
    <2> HIDE DEF version, move
    <2>2. QED
      BY <1>2, <2>1 DEF EventsOut, MoveOf
  <1>9. \E k \in Key \cup {NoKey} :
          Ledger!Take(k, [case |-> c, status |-> to, version |-> version])
    <2>1. CASE call[p].key = NoKey
      BY <1>2, <2>1 DEF Ledger!Take
    <2>2. CASE call[p].key # NoKey
      <3>1. call[p].key \in Key /\ idempotency[call[p].key] = NoResponse
        BY <2>2, CommitKeyFree
      <3>2. ResponseOf(p) = [case |-> c, status |-> to, version |-> version]
        BY <1>1, <1>2 DEF ResponseOf
      <3>3. Ledger!Take(call[p].key, ResponseOf(p))
        BY <1>2, <2>2, <3>1 DEF Ledger!Take, Ledger!Free, NoResponse
      <3>4. QED
        BY <3>1, <3>2, <3>3
    <2>3. QED
      BY <2>1, <2>2
  <1>10. Ledger!Record(c, ev, to, ctx)
    BY <1>5, <1>7, <1>8, <1>9 DEF Ledger!Record
  <1>11. Ledger!Create(c, ctx) \/ (ev \in Event /\ Ledger!Move(c, ev, ctx))
    <2>1. CASE call[p].op = "create" /\ cur[p] = NoRow /\ upd[p].status = "NEW"
      <3>1. ev = "case_created"
        BY <1>2, <2>1, ConstantTypes
      <3>2. opsCase[c] = Ledger!Absent
        BY <1>2, <2>1 DEF NoRow, Ledger!Absent
      <3>3. QED
        BY <1>10, <2>1, <3>1, <3>2 DEF Ledger!Create
    <2>2. CASE Allowed(p) /\ upd[p].status = Target(cur[p].status, call[p].event)
      <3>1. Decide(opsCase[c].status, ev, ctx) = "nil" /\ to = Target(opsCase[c].status, ev)
        BY <1>2, <2>2 DEF Allowed
      <3>2. ev \in Event
        BY <1>2, <2>2, ConstantTypes DEF Allowed
      <3>3. QED
        BY <1>10, <3>1, <3>2, SameWorkflow DEF Ledger!Move
    <2>3. QED
      BY <1>2, <2>1, <2>2 DEF OneMove
  <1>12. QED
    BY <1>3, <1>6, <1>11, SameWorkflow DEF Ledger!LedgerNext

\* The repository implements the ledger of CaseLedger: the committed tables only ever
\* change by one legal, complete move, taken with its key.
THEOREM RepositoryIsLedger == Spec => ImplementsLedger
  <1>1. ASSUME Init
        PROVE  Ledger!LedgerInit
    <2>1. opsCase = [c \in Case |-> Ledger!Absent] /\ idempotency = [k \in Key |-> Ledger!Free]
      BY <1>1 DEF Init, Ledger!Absent, NoRow, Ledger!Free, NoResponse
    <2>2. EventsOut = {}
      BY <1>1 DEF Init, EventsOut
    <2>3. [c \in Case |-> HistoryOf(c)] = [c \in Case |-> <<>>]
      <3>1. ASSUME NEW c \in Case
            PROVE  HistoryOf(c) = <<>>
        <4>1. TypeOK /\ Len(timeline[c]) = 0
          BY <1>1, TypeInit DEF Init
        <4>2. HistoryOf(c) \in Seq({LedgerEntry(e) : e \in Entry}) /\ Len(HistoryOf(c)) = 0
          BY <4>1, HistoryIsSeq
        <4>3. QED
          BY <4>2
      <3>2. QED
        BY <3>1
    <2>4. QED
      BY <2>1, <2>2, <2>3 DEF Ledger!LedgerInit
  <1>2. ASSUME Inv, Inv', [Next]_vars
        PROVE  [Ledger!LedgerNext]_(Ledger!ledgerVars)
    <2>1. CASE \E p \in Proc : Commit(p)
      BY <1>2, <2>1, CommitIsMove DEF Inv, HistoryInv
    <2>2. CASE UNCHANGED dbVars
      <3>1. UNCHANGED Ledger!ledgerVars
        BY <2>2 DEF Ledger!ledgerVars, dbVars, HistoryOf, EventsOut, MoveOf
      <3>2. QED
        BY <3>1
    <2>3. QED
      BY <1>2, <2>1, <2>2, OnlyCommits DEF Next, StepOf, vars, dbVars
  <1>3. QED
    BY <1>1, <1>2, InvAlways, PTL DEF Spec, ImplementsLedger, Ledger!LedgerSpec
=============================================================================
