------------------------------ MODULE OpsAgent ------------------------------
(***************************************************************************)
(* The orchestrator of llm-ops-agent as a whole: the case repository and   *)
(* the outbox publisher over one database. They share the outbox table and *)
(* nothing else: the repository inserts rows, the publisher reads them and *)
(* sets their column published.                                            *)
(***************************************************************************)
EXTENDS CaseRepository

CONSTANTS
  Worker, BatchLimit, MaxFailures, MaxDrops,
  RowId  \* what outbox_id_seq may draw: in a run, an id for each request

ASSUME WorkerAssumption ==
  BatchLimit \in Nat \ {0} /\ MaxFailures \in Nat /\ MaxDrops \in Nat
ASSUME RowIdAssumption == RowId \subseteq Nat

VARIABLES published, step, batch, todo, buffer, delivered, lost, failures, drops

\* The publisher on the repository's outbox; its own environment is not used.
Publisher == INSTANCE OutboxPublisher WITH Row <- {}

workers == <<published, step, batch, todo, buffer, delivered, lost, failures, drops>>
agentVars == <<vars, workers>>

AgentInit == Init /\ Publisher!WorkersInit

RepositoryStep == Next /\ UNCHANGED workers

\* Everything of the repository but the outbox, which the publisher leaves alone itself.
PublisherStep ==
  /\ Publisher!WorkerStep
  /\ UNCHANGED <<opsCase, timeline, idempotency, outboxSeq, pc, call, txVars, err, resp,
                 attempts, answers>>

AgentNext == RepositoryStep \/ PublisherStep

AgentFairness ==
  /\ \A p \in Proc : WF_agentVars(Work(p) /\ UNCHANGED workers)
  /\ \A w \in Worker :
       /\ WF_agentVars(Publisher!Flushing(w) /\ UNCHANGED vars)
       /\ WF_agentVars(Publisher!Drain(w) /\ UNCHANGED vars)

AgentSpec == AgentInit /\ [][AgentNext]_agentVars /\ AgentFairness

----------------------------------------------------------------------------
\* Properties

\* No event is sent for a move that did not happen: what reaches the bus is a row of the
\* outbox and of the timeline.
OnlyCommittedMovesAnnounced ==
  \A n \in DOMAIN delivered :
    \E r \in outbox :
      /\ r.id = delivered[n]
      /\ r.version \in DOMAIN timeline[r.case]
      /\ timeline[r.case][r.version].to = r.to

\* With one worker, consumers first hear of the moves of a case in their order.
MovesAnnouncedInOrder == Publisher!FirstDeliveriesInOrder

PublisherAlone == INSTANCE OutboxPublisher WITH
  Row <- [id : RowId, case : Case],
  outbox <- {[id |-> r.id, case |-> r.case] : r \in outbox}

\* The repository is the environment the publisher was specified for: rows become visible
\* one at a time, with fresh ids, those of a case in order, and are never touched again. So
\* whatever holds of the publisher alone holds of the two together.
ServesPublisher == PublisherAlone!PublisherSpec

\* From end to end: a move a client was told of is announced, unless the publisher lost
\* its buffer after the row was marked.
AnsweredMovesAnnounced ==
  \A c \in Case : \A n \in 1..3 :
    (\E a \in answers : a.code = 200 /\ a.resp.case = c /\ a.resp.version = n)
      ~> (\E r \in outbox : r.case = c /\ r.version = n /\
            (r.id \in Publisher!Elements(delivered) \/ r.id \in lost \cap published))
=============================================================================
