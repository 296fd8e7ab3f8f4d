-------------------------- MODULE OutboxPublisher ---------------------------
(***************************************************************************)
(* internal/outbox/publisher.go: workers that, on every tick, list a batch *)
(* of unpublished outbox rows FOR UPDATE SKIP LOCKED, hand each to the     *)
(* NATS client, mark the batch published, commit, and flush the client.    *)
(* nc.Publish only appends to the client's buffer; a background goroutine  *)
(* of the client (Drain) moves it to the server.                           *)
(*                                                                         *)
(* The rows come from the transactions of the case repository, here the    *)
(* environment: RowCommitted.                                              *)
(***************************************************************************)
EXTENDS Naturals, Sequences, FiniteSets

CONSTANTS
  Worker,       \* publisher processes
  Row,          \* the rows transactions may commit: records with an id and a case
  BatchLimit,   \* the LIMIT of ListUnpublishedOutbox (10 in the code)
  MaxFailures,  \* bound: failed calls and crashes
  MaxDrops      \* bound: broken connections to NATS

ASSUME RowAssumption == \A r \in Row : r.id \in Nat
ASSUME LimitAssumption == BatchLimit \in Nat \ {0}
ASSUME BoundAssumption == MaxFailures \in Nat /\ MaxDrops \in Nat

VARIABLES
  outbox,     \* the committed rows
  published,  \* the ids whose column published is TRUE
  step,       \* the next statement of each worker
  batch,      \* the ids its open transaction has listed and locked
  todo,       \* the ids of the batch not yet handed to nc.Publish
  buffer,     \* what its NATS client has not yet sent
  delivered,  \* history: the ids the NATS server received, in order
  lost,       \* history: the ids that were in a buffer and never arrived
  failures,   \* how many calls failed or workers crashed
  drops       \* how many connections broke

workerVars == <<published, step, batch, todo, buffer, delivered, lost, failures, drops>>
publisherVars == <<outbox, workerVars>>

WorkersInit ==
  /\ published = {}
  /\ step = [w \in Worker |-> "idle"]
  /\ batch = [w \in Worker |-> {}]
  /\ todo = [w \in Worker |-> {}]
  /\ buffer = [w \in Worker |-> <<>>]
  /\ delivered = <<>>
  /\ lost = {}
  /\ failures = 0
  /\ drops = 0

PublisherInit == outbox = {} /\ WorkersInit

Ids(rows) == {r.id : r \in rows}
Elements(s) == {s[i] : i \in DOMAIN s}

\* Worker w goes on to statement `next` of flush.
Proceed(w, next) == step' = [step EXCEPT ![w] = next]

\* Every failure counts against the bound.
Fail == failures < MaxFailures /\ failures' = failures + 1

\* Rows that another open transaction has locked.
Locked == UNION {batch[w] : w \in Worker}

\* A listing that does not lock: rows in the batch of another worker are listed again.
UnpublishedRegardless == Ids(outbox) \ published

\* A listing with a cursor: rows above the highest one marked so far.
UnpublishedAboveCursor ==
  {i \in Ids(outbox) \ Locked : \A j \in published : j < i}

\* WHERE published = FALSE ... FOR UPDATE SKIP LOCKED.
Unpublished == Ids(outbox) \ (published \cup Locked)

\* ... ORDER BY id LIMIT n.
FirstIds(ids, n) == {i \in ids : Cardinality({j \in ids : j <= i}) <= n}

----------------------------------------------------------------------------
\* BeginTx and ListUnpublishedOutbox; an empty list ends the flush at once.
List(w) ==
  LET ids == FirstIds(Unpublished, BatchLimit)
  IN  /\ step[w] = "idle"
      /\ ids # {}
      /\ batch' = [batch EXCEPT ![w] = ids]
      /\ todo' = [todo EXCEPT ![w] = ids]
      /\ Proceed(w, "publish")
      /\ UNCHANGED <<outbox, published, buffer, delivered, lost, failures, drops>>

\* The rows in the opposite order.
LastFirst(w) == {i \in todo[w] : \A j \in todo[w] : j <= i}

\* The row the loop is at: the rows come ordered by id.
Current(w) == {i \in todo[w] : \A j \in todo[w] : i <= j}

\* nc.Publish takes the row into the client's buffer.
Publish(w) ==
  /\ step[w] = "publish"
  /\ \E i \in Current(w) :
       /\ buffer' = [buffer EXCEPT ![w] = Append(@, i)]
       /\ todo' = [todo EXCEPT ![w] = @ \ {i}]
       /\ Proceed(w, IF todo[w] = {i} THEN "mark" ELSE "publish")
  /\ UNCHANGED <<outbox, published, batch, delivered, lost, failures, drops>>

\* A rollback after which the loop still holds its rows.
RollbackKeepsRows(w) ==
  /\ batch' = [batch EXCEPT ![w] = {}]
  /\ Proceed(w, "idle")
  /\ UNCHANGED todo

\* tx.Rollback: the locks go, and the worker waits for the next tick.
RollbackBatch(w) ==
  /\ batch' = [batch EXCEPT ![w] = {}]
  /\ todo' = [todo EXCEPT ![w] = {}]
  /\ Proceed(w, "idle")

\* The loop goes on after a failed nc.Publish.
SkipRow(w) ==
  \E i \in Current(w) :
    /\ todo' = [todo EXCEPT ![w] = @ \ {i}]
    /\ Proceed(w, IF todo[w] = {i} THEN "mark" ELSE "publish")
    /\ UNCHANGED batch

\* A failed nc.Publish gives the whole batch up, the rows already handed over included.
PublishError(w) == RollbackBatch(w)

\* nc.Publish fails: the connection is closed or its buffer is full.
PublishFails(w) ==
  /\ step[w] = "publish"
  /\ Fail
  /\ PublishError(w)
  /\ UNCHANGED <<outbox, published, buffer, delivered, lost, drops>>

\* MarkOutboxPublished: visible to the others with the commit.
Mark(w) ==
  /\ step[w] = "mark"
  /\ Proceed(w, "commit")
  /\ UNCHANGED <<outbox, published, batch, todo, buffer, delivered, lost, failures, drops>>

MarkFails(w) ==
  /\ step[w] = "mark"
  /\ Fail
  /\ RollbackBatch(w)
  /\ UNCHANGED <<outbox, published, buffer, delivered, lost, drops>>

\* A commit of a transaction that marked no row.
EndBatchUnmarked(w, marked) ==
  /\ batch' = [batch EXCEPT ![w] = {}]
  /\ Proceed(w, "flush")
  /\ UNCHANGED <<outbox, published, todo, buffer, delivered, lost, drops>>

\* An update that marks every unpublished row, whichever the batch was.
EndBatchMarksAll(w, marked) ==
  /\ published' = IF marked = {} THEN published ELSE Ids(outbox)
  /\ batch' = [batch EXCEPT ![w] = {}]
  /\ Proceed(w, "flush")
  /\ UNCHANGED <<outbox, todo, buffer, delivered, lost, drops>>

\* The end of the transaction: what it marked, its locks gone, then nc.Flush.
EndBatch(w, marked) ==
  /\ published' = published \cup marked
  /\ batch' = [batch EXCEPT ![w] = {}]
  /\ Proceed(w, "flush")
  /\ UNCHANGED <<outbox, todo, buffer, delivered, lost, drops>>

CommitBatch(w) ==
  /\ step[w] = "commit"
  /\ EndBatch(w, batch[w])
  /\ UNCHANGED failures

\* A failed commit is only logged; the flush goes on.
CommitBatchFails(w) ==
  /\ step[w] = "commit"
  /\ Fail
  /\ EndBatch(w, {})

\* nc.Flush, whose error is ignored: it returns when the buffer is sent, or gives up.
Flush(w) ==
  /\ step[w] = "flush"
  /\ Proceed(w, "idle")
  /\ UNCHANGED <<outbox, published, batch, todo, buffer, delivered, lost, failures, drops>>

\* The NATS client sends the oldest message of its buffer.
Drain(w) ==
  /\ buffer[w] # <<>>
  /\ delivered' = Append(delivered, Head(buffer[w]))
  /\ buffer' = [buffer EXCEPT ![w] = Tail(@)]
  /\ UNCHANGED <<outbox, published, step, batch, todo, lost, failures, drops>>

\* The connection breaks: messages written to the socket and not received are gone, the
\* rest is kept for the connection that replaces it.
ConnectionBreaks(w) ==
  /\ drops < MaxDrops
  /\ drops' = drops + 1
  /\ \E n \in 1..Len(buffer[w]) :
       /\ lost' = lost \cup Elements(SubSeq(buffer[w], 1, n))
       /\ buffer' = [buffer EXCEPT ![w] = SubSeq(@, n + 1, Len(@))]
  /\ UNCHANGED <<outbox, published, step, batch, todo, delivered, failures>>

\* The worker's process dies with its buffer and is started again; PostgreSQL rolls
\* its transaction back.
CrashWorker(w) ==
  /\ Fail
  /\ step[w] # "idle" \/ buffer[w] # <<>>
  /\ lost' = lost \cup Elements(buffer[w])
  /\ buffer' = [buffer EXCEPT ![w] = <<>>]
  /\ RollbackBatch(w)
  /\ UNCHANGED <<outbox, published, delivered, drops>>

Flushing(w) == List(w) \/ Publish(w) \/ Mark(w) \/ CommitBatch(w) \/ Flush(w)

WorkerStep ==
  \E w \in Worker :
    \/ Flushing(w) \/ Drain(w)
    \/ PublishFails(w) \/ MarkFails(w) \/ CommitBatchFails(w)
    \/ ConnectionBreaks(w) \/ CrashWorker(w)

\* A transaction of the case repository commits a row. No id is drawn twice. Ids are drawn
\* before the commit, so rows of different cases may become visible out of order; those of
\* one case do not, because the transactions that write them hold the lock of its row.
RowCommitted ==
  \E r \in Row \ outbox :
    /\ r.id \notin Ids(outbox)
    /\ \A s \in outbox : s.case = r.case => s.id < r.id
    /\ outbox' = outbox \cup {r}
    /\ UNCHANGED workerVars

PublisherNext == WorkerStep \/ RowCommitted

PublisherSpec == PublisherInit /\ [][PublisherNext]_publisherVars

\* The ticker keeps firing, and the NATS client's goroutine runs. Failures are bounded,
\* so a call that can fail is repeated until it does not.
PublisherFairness ==
  \A w \in Worker : WF_publisherVars(Flushing(w)) /\ WF_publisherVars(Drain(w))

FairPublisherSpec == PublisherSpec /\ PublisherFairness

----------------------------------------------------------------------------
\* Properties

\* Every variable stays in its domain.
PublisherTypeOK ==
  /\ outbox \subseteq Row
  /\ published \subseteq Ids(outbox)
  /\ step \in [Worker -> {"idle", "publish", "mark", "commit", "flush"}]
  /\ batch \in [Worker -> SUBSET Ids(outbox)]
  /\ \A w \in Worker : todo[w] \subseteq batch[w]
  /\ \A w \in Worker : Elements(buffer[w]) \subseteq Ids(outbox)
  /\ Elements(delivered) \cup lost \subseteq Ids(outbox)
  /\ failures \in 0..MaxFailures
  /\ drops \in 0..MaxDrops

\* No row is in the hands of two workers, nor in those of one when it is done.
ExclusiveBatches ==
  \A v, w \in Worker :
    /\ v # w => batch[v] \cap batch[w] = {}
    /\ batch[w] \cap published = {}

\* A row is marked published only after the NATS client took it: it was delivered,
\* or is in a buffer, or was in one that broke.
MarkedWasHandedOver ==
  \A i \in published :
    i \in Elements(delivered) \cup lost \cup UNION {Elements(buffer[w]) : w \in Worker}

\* At most one delivery more than there were failures: without a failure no consumer
\* sees an event twice, however many workers flush at once.
DuplicatesNeedFailures ==
  \A i \in Ids(outbox) :
    Cardinality({n \in DOMAIN delivered : delivered[n] = i}) <= 1 + failures

\* The first deliveries of the events of a case come in the order of its versions.
\* True with one worker, whatever is repeated: a row that was lost keeps no other back.
FirstDeliveriesInOrder ==
  \A r, s \in outbox : r.case = s.case /\ r.id < s.id =>
    \A n \in DOMAIN delivered : delivered[n] = s.id /\ r.id \notin lost =>
      \E m \in 1..n : delivered[m] = r.id

\* Every committed row is announced, also one that becomes visible after rows with
\* higher ids were published, unless a buffer was lost after the row had been marked.
EveryRowAnnounced ==
  \A r \in Row :
    r \in outbox ~> (r.id \in Elements(delivered) \/ r.id \in lost \cap published)

\* Where row i is in the buffers.
Buffered(i) ==
  UNION {{<<w, n>> : n \in {n \in DOMAIN buffer[w] : buffer[w][n] = i}} : w \in Worker}

Bus == INSTANCE EventBus WITH
  Id <- Ids(Row), committed <- Ids(outbox), settled <- published, announced <- delivered,
  inFlight <- [i \in Ids(Row) |-> Cardinality(Buffered(i))], gone <- lost

\* However many workers share the rows, and whatever fails, they act as one dispatcher that
\* hands over committed rows until they are settled and never again after that, and settles
\* a row only once it was handed over.
ImplementsBus == Bus!BusSpec

\* What the API guide promises of the outbox, at-least-once delivery: a row marked
\* published was delivered or still will be.
AtLeastOnce ==
  \A i \in published :
    i \in Elements(delivered) \cup UNION {Elements(buffer[w]) : w \in Worker}
=============================================================================
