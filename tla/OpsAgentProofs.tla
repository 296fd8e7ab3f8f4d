--------------------------- MODULE OpsAgentProofs ---------------------------
(***************************************************************************)
(* The orchestrator as a whole: the repository does not notice the         *)
(* publisher (AgentIsRepository), and is the environment the publisher was *)
(* specified for (PublisherIsServed). So what was proved of either alone   *)
(* holds of the two together, and from both together follows that only     *)
(* moves that happened are announced.                                      *)
(***************************************************************************)
EXTENDS OpsAgent, CaseRepositoryProofs

\* The outbox as the publisher sees it, and the publisher alone with all that is proved of it.
Rows == {[id |-> r.id, case |-> r.case] : r \in outbox}

Alone == INSTANCE OutboxPublisherProofs WITH
  Row <- [id : Nat \ {0}, case : Case], outbox <- {[id |-> r.id, case |-> r.case] : r \in outbox}

\* BIGSERIAL does not run out: RowId has every id that outbox_id_seq draws.
IdsSuffice == Nat \ {0} \subseteq RowId

----------------------------------------------------------------------------
\* The repository does not notice the publisher.

\* No step of a worker changes the rows of the outbox; the marks are kept apart from them.
LEMMA WorkersKeepRows ==
  ASSUME Publisher!WorkerStep
  PROVE  outbox' = outbox
  BY DEF Publisher!WorkerStep, Publisher!Flushing, Publisher!List, Publisher!Publish,
         Publisher!Mark, Publisher!CommitBatch, Publisher!Flush, Publisher!Drain,
         Publisher!PublishFails, Publisher!MarkFails, Publisher!CommitBatchFails,
         Publisher!EndBatch, Publisher!ConnectionBreaks, Publisher!CrashWorker

\* A step of the orchestrator is one of the repository, or leaves it alone.
LEMMA StepOfRepository ==
  ASSUME [AgentNext]_agentVars
  PROVE  [Next]_vars
  <1>1. CASE RepositoryStep
    BY <1>1 DEF RepositoryStep
  <1>2. CASE PublisherStep
    <2>1. outbox' = outbox
      BY <1>2, WorkersKeepRows DEF PublisherStep
    <2>2. QED
      BY <1>2, <2>1 DEF PublisherStep, txVars, vars
  <1>3. CASE UNCHANGED agentVars
    BY <1>3 DEF agentVars
  <1>4. QED
    BY <1>1, <1>2, <1>3 DEF AgentNext

\* Every behaviour of the orchestrator is one of the repository.
THEOREM AgentIsRepository == AgentSpec => Spec
  <1>1. AgentInit => Init
    BY DEF AgentInit
  <1>2. [AgentNext]_agentVars => [Next]_vars
    BY StepOfRepository
  <1>3. QED
    BY <1>1, <1>2, PTL DEF AgentSpec, Spec

----------------------------------------------------------------------------
\* The repository is what the publisher expects of its environment.

\* The ids of the rows are the same whether or not one looks at the move in them.
LEMMA SameIds == Alone!Ids(Rows) = Publisher!Ids(outbox)
  <1>1. ASSUME NEW i \in Publisher!Ids(outbox) PROVE i \in Alone!Ids(Rows)
    <2>1. PICK r \in outbox : i = r.id
      BY DEF Publisher!Ids
    <2>2. [id |-> r.id, case |-> r.case] \in Rows /\ [id |-> r.id, case |-> r.case].id = i
      BY <2>1 DEF Rows
    <2>3. QED
      BY <2>2 DEF Alone!Ids
  <1>2. ASSUME NEW i \in Alone!Ids(Rows) PROVE i \in Publisher!Ids(outbox)
    <2>1. PICK s \in Rows : i = s.id
      BY DEF Alone!Ids
    <2>2. PICK r \in outbox : s = [id |-> r.id, case |-> r.case]
      BY DEF Rows
    <2>3. QED
      BY <2>1, <2>2 DEF Publisher!Ids
  <1>3. QED
    BY <1>1, <1>2

\* What a worker does to the outbox of the repository it does to the one it was specified
\* with: it sees the ids of the rows only.
LEMMA WorkersAct ==
  ASSUME Publisher!WorkerStep
  PROVE  Alone!WorkerStep
  <1>1. outbox' = outbox
    BY WorkersKeepRows
  <1>2. Alone!Unpublished = Publisher!Unpublished
    <2>1. Alone!Locked = Publisher!Locked
      BY DEF Alone!Locked, Publisher!Locked
    <2>2. Alone!Unpublished = Alone!Ids(Rows) \ (published \cup Alone!Locked)
      BY DEF Alone!Unpublished, Rows
    <2>3. Publisher!Unpublished = Publisher!Ids(outbox) \ (published \cup Publisher!Locked)
      BY DEF Publisher!Unpublished
    <2>4. QED
      BY <2>1, <2>2, <2>3, SameIds
  <1>3. ASSUME NEW w \in Worker, Publisher!List(w) PROVE Alone!List(w)
    <2>1. Alone!FirstIds(Alone!Unpublished, BatchLimit)
            = Publisher!FirstIds(Publisher!Unpublished, BatchLimit)
      BY <1>2 DEF Alone!FirstIds, Publisher!FirstIds, Alone!Cardinality, Publisher!Cardinality
    <2>2. QED
      BY <1>1, <1>3, <2>1
      DEF Alone!List, Publisher!List, Alone!Proceed, Publisher!Proceed
  <1>4. ASSUME NEW w \in Worker, Publisher!Publish(w) PROVE Alone!Publish(w)
    BY <1>1, <1>4 DEF Alone!Publish, Publisher!Publish, Alone!Current, Publisher!Current,
                      Alone!Proceed, Publisher!Proceed
  <1>5. ASSUME NEW w \in Worker,
               Publisher!PublishFails(w) \/ Publisher!MarkFails(w) \/ Publisher!CrashWorker(w)
        PROVE  Alone!PublishFails(w) \/ Alone!MarkFails(w) \/ Alone!CrashWorker(w)
    BY <1>1, <1>5
    DEF Alone!PublishFails, Publisher!PublishFails, Alone!MarkFails, Publisher!MarkFails,
        Alone!CrashWorker, Publisher!CrashWorker, Alone!PublishError, Publisher!PublishError,
        Alone!RollbackBatch, Publisher!RollbackBatch, Alone!Fail, Publisher!Fail,
        Alone!Proceed, Publisher!Proceed, Alone!Elements, Publisher!Elements
  <1>6. ASSUME NEW w \in Worker,
               Publisher!Mark(w) \/ Publisher!CommitBatch(w) \/ Publisher!CommitBatchFails(w)
                 \/ Publisher!Flush(w)
        PROVE  Alone!Mark(w) \/ Alone!CommitBatch(w) \/ Alone!CommitBatchFails(w)
                 \/ Alone!Flush(w)
    BY <1>1, <1>6
    DEF Alone!Mark, Publisher!Mark, Alone!CommitBatch, Publisher!CommitBatch,
        Alone!CommitBatchFails, Publisher!CommitBatchFails, Alone!EndBatch, Publisher!EndBatch,
        Alone!Flush, Publisher!Flush, Alone!Fail, Publisher!Fail,
        Alone!Proceed, Publisher!Proceed
  <1>7. ASSUME NEW w \in Worker, Publisher!Drain(w) PROVE Alone!Drain(w)
    BY <1>1, <1>7 DEF Alone!Drain, Publisher!Drain
  <1>8. ASSUME NEW w \in Worker, Publisher!ConnectionBreaks(w) PROVE Alone!ConnectionBreaks(w)
    BY <1>1, <1>8
    DEF Alone!ConnectionBreaks, Publisher!ConnectionBreaks, Alone!Elements, Publisher!Elements
  <1>9. QED
    BY <1>3, <1>4, <1>5, <1>6, <1>7, <1>8
    DEF Alone!WorkerStep, Publisher!WorkerStep, Alone!Flushing, Publisher!Flushing

\* A commit of the repository makes one row visible, above those of its case.
LEMMA CommitsServe ==
  ASSUME Inv, Next, UNCHANGED workers
  PROVE  Alone!RowCommitted \/ UNCHANGED Rows
  <1>1. PICK p \in Proc : StepOf(p)
    BY DEF Next, StepOf
  <1>2. CASE UNCHANGED dbVars
    BY <1>2 DEF dbVars, Rows
  <1>3. CASE Commit(p)
    <2> DEFINE x == [id |-> outId[p], case |-> held[p]]
    <2>1. outbox' = outbox \cup {OutboxRowOf(p)} /\ held[p] \in Case
      BY <1>3, CommitEffect DEF Inv, HistoryInv
    <2>2. outId[p] # 0 /\ outId[p] \in Nat
      BY <1>3 DEF Commit, Inv, TypeOK, SessionInv, SessionsInStep, InStep
    <2>3. \A s \in outbox : s.id # outId[p] /\ (s.case = held[p] => s.id < outId[p])
      BY <2>2 DEF Inv, SessionInv, IdsFresh
    <2>4. Rows' = Rows \cup {x}
      BY <2>1, CommitRows DEF Rows
    <2>5. x \in [id : Nat \ {0}, case : Case]
      BY <2>1, <2>2
    <2>6. \A s \in Rows : s.id # x.id /\ (s.case = x.case => s.id < x.id)
      BY <2>3 DEF Rows
    <2>7. x.id \notin Alone!Ids(Rows) /\ x \notin Rows
      BY <2>6 DEF Alone!Ids
    <2>8. UNCHANGED Alone!workerVars
      BY DEF workers, Alone!workerVars
    <2> HIDE DEF x
    <2>9. QED
      BY <2>4, <2>5, <2>6, <2>7, <2>8 DEF Alone!RowCommitted, Rows
  <1>4. QED
    BY <1>1, <1>2, <1>3, OnlyCommits

\* A step of the orchestrator is one of the publisher alone, its environment included.
LEMMA StepOfPublisher ==
  ASSUME Inv, [AgentNext]_agentVars
  PROVE  [Alone!PublisherNext]_(Alone!publisherVars)
  <1>1. CASE RepositoryStep
    <2>1. Alone!RowCommitted \/ UNCHANGED Rows
      BY <1>1, CommitsServe DEF RepositoryStep
    <2>2. UNCHANGED workers
      BY <1>1 DEF RepositoryStep
    <2>3. QED
      BY <2>1, <2>2
      DEF Alone!PublisherNext, Alone!publisherVars, Alone!workerVars, workers, Rows
  <1>2. CASE PublisherStep
    BY <1>2, WorkersAct DEF PublisherStep, Alone!PublisherNext
  <1>3. CASE UNCHANGED agentVars
    BY <1>3 DEF agentVars, vars, workers, Alone!publisherVars, Alone!workerVars
  <1>4. QED
    BY <1>1, <1>2, <1>3 DEF AgentNext

\* What PublisherTypeOK and the rest of the publisher's theorems assume of the constants.
LEMMA ConstantsServe ==
  /\ \A r \in [id : Nat \ {0}, case : Case] : r.id \in Nat
  /\ BatchLimit \in Nat \ {0}
  /\ MaxFailures \in Nat /\ MaxDrops \in Nat
  BY WorkerAssumption

\* The orchestrator starts as the publisher alone does.
LEMMA InitOfPublisher == AgentInit => Alone!PublisherInit
  BY DEF AgentInit, Init, Publisher!WorkersInit, Alone!WorkersInit, Alone!PublisherInit

\* The invariant of the repository holds of the orchestrator.
LEMMA AgentInvAlways == AgentSpec => []Inv
  BY AgentIsRepository, InvAlways, PTL

\* Every behaviour of the orchestrator is, for its workers, one of the publisher alone: all
\* that was proved of the workers of internal/outbox holds of them beside the repository.
THEOREM PublisherIsAlone == AgentSpec => Alone!PublisherSpec
  <1>1. AgentInit => Alone!PublisherInit
    BY InitOfPublisher
  <1>2. Inv /\ [AgentNext]_agentVars => [Alone!PublisherNext]_(Alone!publisherVars)
    BY StepOfPublisher
  <1>3. QED
    BY <1>1, <1>2, AgentInvAlways, PTL DEF AgentSpec, Alone!PublisherSpec

\* OpsAgent names the same publisher PublisherAlone.
LEMMA SameWorkers ==
  ASSUME Alone!WorkerStep
  PROVE  PublisherAlone!WorkerStep
  <1>1. Alone!Unpublished = PublisherAlone!Unpublished
    BY DEF Alone!Unpublished, PublisherAlone!Unpublished, Alone!Locked, PublisherAlone!Locked,
           Alone!Ids, PublisherAlone!Ids
  <1>2. ASSUME NEW w \in Worker, Alone!List(w) PROVE PublisherAlone!List(w)
    <2>1. Alone!FirstIds(Alone!Unpublished, BatchLimit)
            = PublisherAlone!FirstIds(PublisherAlone!Unpublished, BatchLimit)
      BY <1>1 DEF Alone!FirstIds, PublisherAlone!FirstIds,
                  Alone!Cardinality, PublisherAlone!Cardinality
    <2>2. QED
      BY <1>2, <2>1
      DEF Alone!List, PublisherAlone!List, Alone!Proceed, PublisherAlone!Proceed
  <1>3. ASSUME NEW w \in Worker, Alone!Publish(w) PROVE PublisherAlone!Publish(w)
    BY <1>3 DEF Alone!Publish, PublisherAlone!Publish, Alone!Current, PublisherAlone!Current,
                Alone!Proceed, PublisherAlone!Proceed
  <1>4. ASSUME NEW w \in Worker,
               Alone!PublishFails(w) \/ Alone!MarkFails(w) \/ Alone!CrashWorker(w)
        PROVE  PublisherAlone!PublishFails(w) \/ PublisherAlone!MarkFails(w)
                 \/ PublisherAlone!CrashWorker(w)
    BY <1>4
    DEF Alone!PublishFails, PublisherAlone!PublishFails, Alone!MarkFails,
        PublisherAlone!MarkFails, Alone!CrashWorker, PublisherAlone!CrashWorker,
        Alone!PublishError, PublisherAlone!PublishError, Alone!RollbackBatch,
        PublisherAlone!RollbackBatch, Alone!Fail, PublisherAlone!Fail,
        Alone!Proceed, PublisherAlone!Proceed, Alone!Elements, PublisherAlone!Elements
  <1>5. ASSUME NEW w \in Worker,
               Alone!Mark(w) \/ Alone!CommitBatch(w) \/ Alone!CommitBatchFails(w)
                 \/ Alone!Flush(w)
        PROVE  PublisherAlone!Mark(w) \/ PublisherAlone!CommitBatch(w)
                 \/ PublisherAlone!CommitBatchFails(w) \/ PublisherAlone!Flush(w)
    BY <1>5
    DEF Alone!Mark, PublisherAlone!Mark, Alone!CommitBatch, PublisherAlone!CommitBatch,
        Alone!CommitBatchFails, PublisherAlone!CommitBatchFails, Alone!EndBatch,
        PublisherAlone!EndBatch, Alone!Flush, PublisherAlone!Flush, Alone!Fail,
        PublisherAlone!Fail, Alone!Proceed, PublisherAlone!Proceed
  <1>6. ASSUME NEW w \in Worker, Alone!Drain(w) \/ Alone!ConnectionBreaks(w)
        PROVE  PublisherAlone!Drain(w) \/ PublisherAlone!ConnectionBreaks(w)
    BY <1>6
    DEF Alone!Drain, PublisherAlone!Drain, Alone!ConnectionBreaks,
        PublisherAlone!ConnectionBreaks, Alone!Elements, PublisherAlone!Elements
  <1>7. QED
    BY <1>2, <1>3, <1>4, <1>5, <1>6
    DEF Alone!WorkerStep, PublisherAlone!WorkerStep, Alone!Flushing, PublisherAlone!Flushing

\* The publisher of the run and the one of the proofs take the same steps, if ids suffice.
LEMMA SameStep ==
  ASSUME IdsSuffice, [Alone!PublisherNext]_(Alone!publisherVars)
  PROVE  [PublisherAlone!PublisherNext]_(PublisherAlone!publisherVars)
  <1>1. Alone!RowCommitted => PublisherAlone!RowCommitted
    <2>1. [id : Nat \ {0}, case : Case] \subseteq [id : RowId, case : Case]
      BY DEF IdsSuffice
    <2>2. QED
      BY <2>1
      DEF Alone!RowCommitted, PublisherAlone!RowCommitted, Alone!Ids, PublisherAlone!Ids,
          Alone!workerVars, PublisherAlone!workerVars
  <1>2. UNCHANGED Alone!publisherVars => UNCHANGED PublisherAlone!publisherVars
    BY DEF Alone!publisherVars, PublisherAlone!publisherVars,
           Alone!workerVars, PublisherAlone!workerVars
  <1>3. QED
    BY <1>1, <1>2, SameWorkers DEF Alone!PublisherNext, PublisherAlone!PublisherNext

\* The repository is the environment the publisher was specified for: its transactions make
\* rows visible one at a time, with fresh ids and in the order of a case, and no handler
\* touches a row again.
THEOREM PublisherIsServed == IdsSuffice => (AgentSpec => ServesPublisher)
  <1> SUFFICES ASSUME IdsSuffice PROVE AgentSpec => ServesPublisher
    OBVIOUS
  <1>1. Alone!PublisherInit => PublisherAlone!PublisherInit
    BY DEF Alone!PublisherInit, PublisherAlone!PublisherInit,
           Alone!WorkersInit, PublisherAlone!WorkersInit
  <1>2. [Alone!PublisherNext]_(Alone!publisherVars)
          => [PublisherAlone!PublisherNext]_(PublisherAlone!publisherVars)
    BY SameStep
  <1>3. Alone!PublisherSpec => PublisherAlone!PublisherSpec
    BY <1>1, <1>2, PTL DEF Alone!PublisherSpec, PublisherAlone!PublisherSpec
  <1>4. QED
    BY <1>3, PublisherIsAlone, PTL DEF ServesPublisher

----------------------------------------------------------------------------
\* What follows of the two together.

\* The outbox holds one row of each id.
LEMMA RowOfId ==
  ASSUME OutboxFollowsHistory, NEW r \in outbox, NEW s \in outbox, r.id = s.id
  PROVE  r = s
  BY DEF OutboxFollowsHistory

\* A row of the outbox tells of a move that is in the timeline.
LEMMA RowIsInTimeline ==
  ASSUME Inv, NEW r \in outbox
  PROVE  /\ r.version \in DOMAIN timeline[r.case]
         /\ timeline[r.case][r.version].to = r.to
  <1>1. /\ r.case \in Case /\ r.id \in Nat /\ timeline[r.case] \in Seq(Entry)
        /\ \A s \in outbox : s.id \in Nat /\ s.version \in Nat
    BY DEF Inv, TypeOK, OutboxRow
  <1>2. r.version \in 1..Len(timeline[r.case])
    BY <1>1 DEF Inv, HistoryInv, AtomicRecords, OutboxInTimeline
  <1>3. PICK s \in outbox : /\ s.case = r.case /\ s.version = r.version
                            /\ MoveOf(s) = MoveOf(timeline[r.case][r.version])
    BY <1>1, <1>2 DEF Inv, HistoryInv, AtomicRecords, EntriesInOutbox
  <1>4. s.id = r.id
    BY <1>1, <1>3 DEF Inv, OutboxFollowsHistory
  <1>5. s = r
    BY <1>4, RowOfId DEF Inv
  <1>6. QED
    BY <1>1, <1>2, <1>3, <1>5 DEF MoveOf

\* What reaches the bus has a row, and that row a move: the worker only ever lists rows that
\* a transaction of the repository committed together with the timeline entry they tell of.
THEOREM OnlyMovesAreAnnounced == AgentSpec => []OnlyCommittedMovesAnnounced
  <1>1. Alone!PublisherSpec => []Alone!PublisherTypeOK
    BY ConstantsServe, Alone!PublisherTypes
  <1>2. ASSUME Inv, Alone!PublisherTypeOK
        PROVE  OnlyCommittedMovesAnnounced
    <2> SUFFICES ASSUME NEW n \in DOMAIN delivered
                 PROVE  \E r \in outbox : /\ r.id = delivered[n]
                                          /\ r.version \in DOMAIN timeline[r.case]
                                          /\ timeline[r.case][r.version].to = r.to
      BY DEF OnlyCommittedMovesAnnounced
    <2>1. delivered[n] \in Alone!Ids(Rows)
      BY <1>2 DEF Alone!PublisherTypeOK, Alone!Elements, Rows
    <2>2. PICK r \in outbox : r.id = delivered[n]
      BY <2>1, SameIds DEF Publisher!Ids
    <2>3. QED
      BY <1>2, <2>2, RowIsInTimeline
  <1>3. QED
    BY <1>1, <1>2, PublisherIsAlone, AgentInvAlways, PTL

\* One worker, whatever fails and is repeated: the bus hears of the moves of a case in the
\* order of its versions, but for those a broken connection lost.
THEOREM MovesAreInOrder ==
  Alone!OneWorker => (AgentSpec => []MovesAnnouncedInOrder)
  <1> SUFFICES ASSUME Alone!OneWorker PROVE AgentSpec => []MovesAnnouncedInOrder
    OBVIOUS
  <1>1. Alone!PublisherSpec => []Alone!FirstDeliveriesInOrder
    BY ConstantsServe, Alone!OneWorkerKeepsOrder
  <1>2. ASSUME Alone!FirstDeliveriesInOrder
        PROVE  MovesAnnouncedInOrder
    <2>1. ASSUME NEW r \in outbox, NEW s \in outbox, r.case = s.case, r.id < s.id,
                 NEW n \in DOMAIN delivered, delivered[n] = s.id, r.id \notin lost
          PROVE  \E m \in 1..n : delivered[m] = r.id
      <3> DEFINE seen(x) == [id |-> x.id, case |-> x.case]
      <3>1. seen(r) \in Rows /\ seen(s) \in Rows
        BY DEF Rows
      <3>2. /\ seen(r).case = seen(s).case /\ seen(r).id < seen(s).id
            /\ delivered[n] = seen(s).id /\ seen(r).id \notin lost
        BY <2>1
      <3>3. \E m \in 1..n : delivered[m] = seen(r).id
        <4> HIDE DEF seen
        <4> QED
          BY <1>2, <3>1, <3>2 DEF Alone!FirstDeliveriesInOrder, Rows
      <3>4. QED
        BY <3>3
    <2>2. QED
      BY <2>1 DEF MovesAnnouncedInOrder, Publisher!FirstDeliveriesInOrder
  <1>3. QED
    BY <1>1, <1>2, PublisherIsAlone, PTL

\* The two abstract specifications hold of the orchestrator at once: its tables change by one
\* legal, complete move at a time, and its workers act as one dispatcher of those rows.
THEOREM AgentKeepsBothPromises == AgentSpec => ImplementsLedger /\ Alone!ImplementsBus
  <1>1. AgentSpec => ImplementsLedger
    BY AgentIsRepository, RepositoryIsLedger, PTL
  <1>2. Alone!PublisherSpec => Alone!ImplementsBus
    BY ConstantsServe, Alone!PublisherIsBus
  <1>3. QED
    BY <1>1, <1>2, PublisherIsAlone, PTL
=============================================================================
