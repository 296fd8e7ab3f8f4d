---------------------------- MODULE CaseInvariant ----------------------------
(***************************************************************************)
(* The inductive invariant of CaseRepository: what the open transactions   *)
(* hold, so that the next commit keeps the tables right. The properties of *)
(* CaseRepository speak of committed rows only and are not inductive; each *)
(* needs the part named here that binds a session to the rows it will      *)
(* commit.                                                                 *)
(***************************************************************************)
EXTENDS CaseRepository

\* At most one open transaction holds a case row, and while it does the committed row
\* is the one it read: nobody else can commit another.
LocksExclusive ==
  /\ \A p, q \in Proc : held[p] # NoCase /\ held[p] = held[q] => p = q
  /\ \A p \in Proc : held[p] # NoCase => cur[p] = opsCase[held[p]]

\* Decide let the transition through, on the row the transaction has read.
Allowed(p) ==
  /\ call[p].op = "transition" /\ call[p].case = held[p]
  /\ VersionMatches(call[p], cur[p])
  /\ Decide(cur[p].status, call[p].event, call[p].ctx) = "nil"

\* The row the transaction will commit is one legal move beyond the row it has read.
OneMove(p) ==
  /\ upd[p].version = cur[p].version + 1
  /\ \/ call[p].op = "create" /\ cur[p] = NoRow /\ upd[p].status = "NEW"
     \/ Allowed(p) /\ upd[p].status = Target(cur[p].status, call[p].event)

\* What a goroutine has done when it reaches a statement.
InStep(p) ==
  /\ pc[p] \in {"idle", "lookup", "begin", "insert_case", "get_case", "reply"} =>
       /\ held[p] = NoCase /\ cur[p] = NoRow /\ outId[p] = 0
       /\ written[p] = {} /\ p \notin aborted
  /\ pc[p] = "insert_case" => call[p].op = "create"
  /\ pc[p] = "get_case" => call[p].op = "transition"
  /\ pc[p] = "update" => held[p] # NoCase /\ Allowed(p)
  /\ pc[p] \in {"timeline", "outbox", "idem", "commit"} => held[p] # NoCase /\ OneMove(p)
  /\ pc[p] \in {"update", "timeline"} => p \notin aborted
  /\ pc[p] \in {"idem", "commit"} => p \notin aborted /\ outId[p] # 0
  /\ pc[p] \in {"outbox", "idem", "commit"} =>
       p \in aborted \/ "case_timeline" \in written[p]
  /\ pc[p] \in {"lookup", "idem"} => call[p].key # NoKey
  /\ "idempotency" \in written[p] => pc[p] = "commit"
  /\ pc[p] = "commit" => (call[p].key # NoKey <=> "idempotency" \in written[p])

SessionsInStep == \A p \in Proc : InStep(p)

\* The ids drawn by open transactions are new, distinct, and above every row of the
\* case they hold.
IdsFresh ==
  /\ \A r \in outbox : r.id < outboxSeq
  /\ \A p \in Proc : outId[p] # 0 =>
       /\ outId[p] < outboxSeq
       /\ \A r \in outbox : r.id # outId[p] /\ (r.case = held[p] => r.id < outId[p])
  /\ \A p, q \in Proc : outId[p] # 0 /\ outId[p] = outId[q] => p = q

\* The key of an uncommitted idempotency row is free, and held by one transaction.
KeysExclusive ==
  /\ \A p \in Proc : "idempotency" \in written[p] => idempotency[call[p].key] = NoResponse
  /\ \A p, q \in Proc :
       /\ "idempotency" \in written[p] /\ "idempotency" \in written[q]
       /\ call[p].key = call[q].key
       => p = q

\* A stored response is on record, and so is a response on its way to the client.
ResponsesOnRecord ==
  /\ \A k \in Key : idempotency[k] # NoResponse => OnRecord(idempotency[k])
  /\ \A p \in Proc : pc[p] = "rollback" => err[p] # "nil"
  /\ \A p \in Proc : pc[p] = "reply" /\ err[p] = "nil" => Recorded(call[p], resp[p])

\* Whoever shares the database, an open transaction is alone with the row it has locked,
\* the outbox id it drew and the key it inserted, and what it is about to commit is one
\* legal move beyond the committed row: no lost update, no stale decision, no shared key.
SessionInv == LocksExclusive /\ SessionsInStep /\ IdsFresh /\ KeysExclusive

\* The properties that a commit keeps together, and the whole.
HistoryInv == AtomicRecords /\ LegalHistory /\ IfMatchHonoured

Inv ==
  /\ TypeOK /\ SessionInv /\ HistoryInv
  /\ OutboxFollowsHistory /\ KeyBacksOneEffect
  /\ ResponsesOnRecord /\ AnswersRecorded
=============================================================================
