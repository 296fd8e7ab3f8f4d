------------------------------ MODULE EventBus ------------------------------
(***************************************************************************)
(* What the outbox publisher promises, with no workers, batches,           *)
(* transactions or buffers in it: committed rows are handed over one by    *)
(* one until they are settled, what was handed over arrives or is lost,    *)
(* and a settled row is never handed over again.                           *)
(***************************************************************************)
EXTENDS Naturals, Sequences, FiniteSets

CONSTANT Id  \* the ids of rows

VARIABLES
  committed,  \* the rows there are
  settled,    \* those that count as announced
  inFlight,   \* how often each row is on its way
  announced,  \* the rows that arrived, in order
  gone        \* the rows that were lost on their way

busVars == <<committed, settled, inFlight, announced, gone>>

BusInit ==
  /\ committed = {}
  /\ settled = {}
  /\ inFlight = [i \in Id |-> 0]
  /\ announced = <<>>
  /\ gone = {}

\* Row i was handed over, whatever became of it.
HandedOver(i) ==
  inFlight[i] > 0 \/ i \in gone \/ \E n \in DOMAIN announced : announced[n] = i

\* Some transaction adds a row.
Commit ==
  /\ \E i \in Id \ committed : committed' = committed \cup {i}
  /\ UNCHANGED <<settled, inFlight, announced, gone>>

\* A committed row that is not settled is handed over, perhaps not for the first time.
HandOver ==
  /\ \E i \in committed \ settled : inFlight' = [inFlight EXCEPT ![i] = @ + 1]
  /\ UNCHANGED <<committed, settled, announced, gone>>

\* Rows that were handed over are settled.
Settle(rows) ==
  /\ rows \subseteq committed \ settled
  /\ \A i \in rows : HandedOver(i)
  /\ settled' = settled \cup rows
  /\ UNCHANGED <<committed, inFlight, announced, gone>>

Arrive ==
  \E i \in Id :
    /\ inFlight[i] > 0
    /\ inFlight' = [inFlight EXCEPT ![i] = @ - 1]
    /\ announced' = Append(announced, i)
    /\ UNCHANGED <<committed, settled, gone>>

\* What is on its way is lost, some of it or all.
Lose ==
  /\ inFlight' \in [Id -> Nat]
  /\ \A i \in Id : inFlight'[i] <= inFlight[i]
  /\ gone' = gone \cup {i \in Id : inFlight'[i] < inFlight[i]}
  /\ UNCHANGED <<committed, settled, announced>>

BusNext == Commit \/ HandOver \/ (\E rows \in SUBSET Id : Settle(rows)) \/ Arrive \/ Lose

BusSpec == BusInit /\ [][BusNext]_busVars
=============================================================================
