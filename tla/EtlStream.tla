------------------------------ MODULE EtlStream ------------------------------
(***************************************************************************)
(* GET /oo/stream of observe-bridge: handleOOStream relays, as oo.Stream   *)
(* reads them line by line, the logs, then the metrics, then the traces of *)
(* OpenObserve to its client. Both ends act on their own: OpenObserve      *)
(* sends, stalls, refuses, cuts its answer; the client stops reading, and  *)
(* goes on, and leaves.                                                    *)
(***************************************************************************)
EXTENDS Naturals, Sequences, FiniteSets, SequencesExt

CONSTANTS
  Tenant,     \* tenants a client may name
  NoTenant,   \* the empty query parameter
  Object,     \* JSON objects, as functions from field names to values
  Decoded,    \* what encoding/json makes of a value: a number becomes a float64
  ErrorBody,  \* the JSON object of an answer that is an error
  Garbage,    \* no JSON object, or a number no float64 holds: skipped
  Null,       \* the line `null`, which unmarshals into a nil map
  Long,       \* a line over the 64 KB of bufio.Scanner
  MaxLines    \* bound: lines OpenObserve sends in all

ASSUME NoTenantAssumption == NoTenant \notin Tenant
ASSUME LinesAssumption == MaxLines \in Nat
ASSUME KindsAssumption ==
  /\ Garbage # Null /\ Null # Long /\ Long # Garbage
  /\ {Garbage, Null, Long} \cap (Object \cup {ErrorBody}) = {}

Types == <<"logs", "metrics", "traces">>
Line == Object \cup {ErrorBody, Garbage, Null, Long}

VARIABLES
  tenant,    \* the tenant the client named, if any
  pc,        \* where the handler is
  typ,       \* the type it is at
  answered,  \* OpenObserve: how it answered for each type
  sent,      \* the lines it has sent in each answer
  closed,    \* how that answer ended
  read,      \* how many of these lines the scanner took
  client,    \* here; or stalled: it reads nothing, and all buffers are full; or gone
  out,       \* the records written to it
  status,    \* the status code of the handler's answer
  ending     \* how that answer ended

vars == <<tenant, pc, typ, answered, sent, closed, read, client, out, status, ending>>
upstream == <<answered, sent, closed>>

Init ==
  /\ tenant = NoTenant
  /\ pc = "idle"
  /\ typ = 1
  /\ answered = [t \in DOMAIN Types |-> "no"]
  /\ sent = [t \in DOMAIN Types |-> <<>>]
  /\ closed = [t \in DOMAIN Types |-> "no"]
  /\ read = [t \in DOMAIN Types |-> 0]
  /\ client = "here"
  /\ out = <<>>
  /\ status = 0
  /\ ending = "none"

----------------------------------------------------------------------------
\* The handler

\* What is written to a client waits, without a limit, for room in the buffers to it.
MayWrite == client # "stalled"

\* The handler is done: the end of the answer is written, or the connection torn down.
End(how) == (how = "complete" => MayWrite) /\ pc' = "done" /\ ending' = how

\* The window is there and parses, or it is refused with a 400; the tenant may be missing.
Receive ==
  /\ pc = "idle"
  /\ tenant' \in Tenant \cup {NoTenant}
  /\ \/ status' = 400 /\ End("complete")
     \/ status' = 200 /\ pc' = "ask" /\ UNCHANGED ending
  /\ UNCHANGED <<typ, read, client, out, upstream>>

\* A request without the context of the client's: it does not end with it.
BackgroundContext == FALSE

\* The context of the request is that of the client's.
Cancelled == client = "gone"

\* The loop is over, or client.Do is called for the next type.
Ask ==
  /\ pc = "ask"
  /\ \/ typ > Len(Types) /\ End("complete")
     \/ typ <= Len(Types) /\ ~Cancelled /\ pc' = "await" /\ UNCHANGED ending
  /\ UNCHANGED <<tenant, typ, read, client, out, status, upstream>>

\* client.Do or the read of the body gives up because the client left. Stream returns the
\* error of Do; it ignores that of a read and goes on to the next Do.
AskCancelled ==
  /\ Cancelled
  /\ \/ pc \in {"ask", "await"} /\ typ <= Len(Types) /\ End("complete") /\ UNCHANGED typ
     \/ pc = "scan" /\ pc' = "ask" /\ typ' = typ + 1 /\ UNCHANGED ending
  /\ UNCHANGED <<tenant, read, client, out, status, upstream>>

\* An error of Do after which the loop goes on to the next type.
SkipType == pc' = "ask" /\ typ' = typ + 1 /\ UNCHANGED <<ending, status>>

\* A handler that answers the error, whatever it has written by then.
AnswersBadGateway == End("complete") /\ status' = 502 /\ UNCHANGED typ

\* Stream returns the error, which the handler notes in its context; the client gets the end
\* of a 200, of one without records if this was the first type.
StreamFails == End("complete") /\ UNCHANGED <<typ, status>>

\* No endpoint is configured, or it cannot be reached.
AskFails ==
  /\ pc = "await"
  /\ answered' = [answered EXCEPT ![typ] = "failed"]
  /\ StreamFails
  /\ UNCHANGED <<tenant, read, client, out, sent, closed>>

\* A record that outlives its line: Unmarshal adds to the fields of the line before.
IntoLastRecord(line) ==
  [f \in DOMAIN line \cup (IF out = <<>> THEN {} ELSE DOMAIN Last(out)) |->
     IF f \in DOMAIN line THEN Decoded[line[f]] ELSE Last(out)[f]]

\* json.Unmarshal into a new record, a map[string]any.
Unmarshal(line) == [f \in DOMAIN line |-> Decoded[line[f]]]

\* rec["type"] and, if the client named one, rec["tenant"], over what the line said.
Tagged(rec, type) ==
  LET tags == {"type"} \cup (IF tenant = NoTenant THEN {} ELSE {"tenant"})
  IN  [f \in DOMAIN rec \cup tags |->
         IF f = "type" THEN type ELSE IF f \in tags THEN tenant ELSE rec[f]]

\* fn: the record is written and flushed, when there is room for it, and may take the last
\* room there is. To a client that left nothing is written; the error is not looked at.
Forward(rec) ==
  \/ client = "here" /\ out' = Append(out, rec) /\ client' \in {"here", "stalled"}
  \/ client = "gone" /\ UNCHANGED <<out, client>>

\* A panic that gin.Recovery catches once the 200 is out.
Recovered == End("complete")

\* Nothing recovers it but net/http, which tears the connection down.
Panic == End("aborted")

\* A json.Decoder in place of the scanner: its error stays, and so does the line.
DecoderTakes(line) == IF line = Garbage THEN 0 ELSE 1

\* The scanner takes a line whatever becomes of it.
Takes(line) == 1

\* scanner.Scan and what the loop does with the line.
Scan ==
  /\ pc = "scan"
  /\ read[typ] < Len(sent[typ])
  /\ LET line == sent[typ][read[typ] + 1]
     IN  /\ read' = [read EXCEPT ![typ] = @ + Takes(line)]
         /\ \/ /\ line \in Object \cup {ErrorBody}
               /\ Forward(Tagged(Unmarshal(line), Types[typ]))
               /\ UNCHANGED <<pc, typ, ending>>
            \/ line = Garbage /\ UNCHANGED <<pc, typ, client, out, ending>>
            \/ line = Null /\ Panic /\ UNCHANGED <<typ, client, out>>
            \/ /\ line = Long
               /\ pc' = "ask" /\ typ' = typ + 1
               /\ UNCHANGED <<client, out, ending>>
  /\ UNCHANGED <<tenant, status, upstream>>

\* The answer has ended, well or not: the error of the scanner is not looked at.
ScanEnds ==
  /\ pc = "scan"
  /\ read[typ] = Len(sent[typ])
  /\ closed[typ] # "no"
  /\ pc' = "ask"
  /\ typ' = typ + 1
  /\ UNCHANGED <<tenant, read, client, out, status, ending, upstream>>

Handler == Ask \/ AskCancelled \/ Scan \/ ScanEnds

----------------------------------------------------------------------------
\* OpenObserve and the client

\* The status code of the answer is not looked at.
Answer ==
  /\ pc = "await"
  /\ answered' \in {[answered EXCEPT ![typ] = a] : a \in {"ok", "refused"}}
  /\ pc' = "scan"
  /\ UNCHANGED <<tenant, typ, read, client, out, status, ending, sent, closed>>

Lines == Len(sent[1]) + Len(sent[2]) + Len(sent[3])

Send ==
  /\ pc = "scan"
  /\ closed[typ] = "no"
  /\ Lines < MaxLines
  /\ \E line \in IF answered[typ] = "refused" THEN {ErrorBody} ELSE Line \ {ErrorBody} :
       sent' = [sent EXCEPT ![typ] = Append(@, line)]
  /\ UNCHANGED <<tenant, pc, typ, read, client, out, status, ending, answered, closed>>

\* The answer is complete, or its connection breaks.
Close ==
  /\ pc = "scan"
  /\ closed[typ] = "no"
  /\ closed' \in {[closed EXCEPT ![typ] = c] : c \in {"eof", "cut"}}
  /\ UNCHANGED <<tenant, pc, typ, read, client, out, status, ending, answered, sent>>

\* The client reads on: there is room again.
Resume ==
  /\ client = "stalled"
  /\ client' = "here"
  /\ UNCHANGED <<tenant, pc, typ, read, out, status, ending, upstream>>

Leave ==
  /\ pc \notin {"idle", "done"}
  /\ client # "gone"
  /\ client' = "gone"
  /\ UNCHANGED <<tenant, pc, typ, read, out, status, ending, upstream>>

Next == Receive \/ Handler \/ AskFails \/ Answer \/ Send \/ Close \/ Resume \/ Leave

Spec == Init /\ [][Next]_vars

\* The handler's goroutine runs whenever it can. Nobody owes it an answer, a line or room to
\* write: no timeout is set on either side.
FairSpec == Spec /\ WF_vars(Handler)

----------------------------------------------------------------------------
\* Properties

\* Every variable stays in its domain.
EtlTypeOK ==
  /\ tenant \in Tenant \cup {NoTenant}
  /\ pc \in {"idle", "ask", "await", "scan", "done"}
  /\ typ \in 1..Len(Types) + 1
  /\ answered \in [DOMAIN Types -> {"no", "failed", "ok", "refused"}]
  /\ \A t \in DOMAIN Types : sent[t] \in Seq(Line) /\ read[t] \in 0..Len(sent[t])
  /\ closed \in [DOMAIN Types -> {"no", "eof", "cut"}]
  /\ client \in {"here", "stalled", "gone"}
  /\ status \in {0, 200, 400}
  /\ ending \in {"none", "complete", "aborted"}

\* What the scanner took for type t.
Taken(t) == SubSeq(sent[t], 1, read[t])

\* The objects among these, by type and place.
Objects ==
  UNION {{<<t, n>> : n \in {n \in 1..read[t] : sent[t][n] \notin {Garbage, Null, Long}}} :
           t \in DOMAIN Types}

\* Those up to place p, in the order in which the types are asked for and the lines sent.
UpTo(p) == {q \in Objects : q[1] < p[1] \/ (q[1] = p[1] /\ q[2] <= p[2])}

\* The record of a line: its fields, decoded, no field of another line, and the tags.
RecordOf(line, type) == Tagged([f \in DOMAIN line |-> Decoded[line[f]]], type)

\* The client gets what was sent, in the order it was sent and the types are asked for: its
\* k-th record is that of the k-th object. As long as it stays it gets all that was read.
RelaysInOrder ==
  /\ Len(out) <= Cardinality(Objects)
  /\ client # "gone" => Len(out) = Cardinality(Objects)
  /\ \A p \in Objects :
       LET k == Cardinality(UpTo(p))
       IN  k <= Len(out) => out[k] = RecordOf(sent[p[1]][p[2]], Types[p[1]])

\* What can go wrong with the answer for one type.
Faulty(t) ==
  \/ answered[t] \in {"failed", "refused"}
  \/ closed[t] = "cut"
  \/ Long \in ToSet(Taken(t))

\* A 200 that ends like a complete stream skipped nothing unless OpenObserve is at fault: each
\* type was read to its end, or its own answer was faulty, or the request for an earlier type
\* failed. A line that panics never hides behind such an ending.
NothingSkipped ==
  ending = "complete" /\ status = 200 /\ client # "gone" =>
    \A t \in DOMAIN Types :
      /\ Null \notin ToSet(Taken(t))
      /\ \/ closed[t] = "eof" /\ read[t] = Len(sent[t])
         \/ Faulty(t)
         \/ \E u \in 1..t - 1 : answered[u] = "failed"

\* A request that fails ends the stream: records of a later type never follow, so that a gap
\* of a whole type is at the end.
FailureEndsStream ==
  \A t \in DOMAIN Types : answered[t] = "failed" =>
    \A u \in t + 1..Len(Types) : answered[u] = "no"

\* A stream whose client left comes to its end, wherever it was: waiting for OpenObserve, or
\* for a client that had stopped reading.
LeftStreamEnds == client = "gone" ~> pc = "done"

\* The handler has nothing to do before OpenObserve answers, sends a line or ends.
Waiting ==
  pc = "await" \/ (pc = "scan" /\ closed[typ] = "no" /\ read[typ] = Len(sent[typ]))

\* A stream comes to its end unless OpenObserve leaves it waiting for ever, or a client that
\* stays stops reading for ever. A client that only pauses does not lose its stream.
ServedStreamEnds ==
  ([]<>~Waiting /\ []<>MayWrite) => (pc = "ask" ~> pc = "done")
=============================================================================
