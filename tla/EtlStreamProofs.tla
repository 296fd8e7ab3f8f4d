--------------------------- MODULE EtlStreamProofs ---------------------------
(***************************************************************************)
(* The stream for every set of tenants, objects and lines: its types, that *)
(* it skips nothing in silence, that a failed request ends it, and that    *)
(* what it relays comes in order (OrderInv).                               *)
(*                                                                         *)
(* The types go one by one: of those not yet asked for nothing has come    *)
(* (Untouched), those behind are dealt with for a client that stays        *)
(* (Behind), no stream goes on after a null line (NoNull) or a failed      *)
(* request (FailedLast).                                                   *)
(***************************************************************************)
EXTENDS EtlStream, FiniteSetTheorems, SequenceTheorems, TLAPS

\* The functions behind EtlTypeOK.
Shapes ==
  /\ sent \in [1..3 -> Seq(Line)]
  /\ read \in [1..3 -> Nat]

\* The scanner took line x of the answer for type t.
Took(t, x) == \E n \in 1..read[t] : sent[t][n] = x

\* Where the handler can be, by type.
Position ==
  /\ pc = "idle" => typ = 1
  /\ pc \in {"await", "scan"} => typ <= 3

\* Nothing has come for the types to come.
Untouched ==
  \A t \in 1..3 : typ < t \/ (typ = t /\ pc \in {"idle", "ask", "await"}) =>
    answered[t] = "no" /\ closed[t] = "no" /\ sent[t] = <<>> /\ read[t] = 0

\* The answer for t was read to its end, or is faulty.
DealtWith(t) ==
  \/ closed[t] = "eof" /\ read[t] = Len(sent[t])
  \/ answered[t] = "refused" \/ closed[t] = "cut" \/ Took(t, Long)

\* For a client that stays, no type is left before it is dealt with.
Behind == client # "gone" => \A t \in 1..3 : t < typ => DealtWith(t)

\* A null line tears the stream down.
NoNull == ending # "aborted" => \A t \in 1..3 : ~Took(t, Null)

\* A request that fails is the last one.
FailedLast == \A t \in 1..3 : answered[t] = "failed" => pc = "done" /\ typ = t

\* A complete stream came to its end, or a request failed.
Finished ==
  pc = "done" /\ ending = "complete" /\ status = 200 /\ client # "gone"
    => typ = 4 \/ answered[typ] = "failed"

\* An ending is that of a handler that is done.
Endings == ending # "none" => pc = "done"

Inv ==
  /\ EtlTypeOK /\ Shapes
  /\ Position /\ Untouched /\ Behind /\ NoNull /\ FailedLast /\ Finished /\ Endings

----------------------------------------------------------------------------
\* The handler asks for three types.
LEMMA ThreeTypes == DOMAIN Types = 1..3 /\ Len(Types) = 3
  BY DEF Types

\* The types that the proofs below use, without Types.
LEMMA TypesOf ==
  ASSUME Inv
  PROVE  /\ tenant \in Tenant \cup {NoTenant}
         /\ pc \in {"idle", "ask", "await", "scan", "done"}
         /\ typ \in 1..4
         /\ answered \in [1..3 -> {"no", "failed", "ok", "refused"}]
         /\ sent \in [1..3 -> Seq(Line)] /\ read \in [1..3 -> Nat]
         /\ \A t \in 1..3 : sent[t] \in Seq(Line) /\ read[t] \in 0..Len(sent[t])
         /\ closed \in [1..3 -> {"no", "eof", "cut"}]
         /\ client \in {"here", "stalled", "gone"}
         /\ status \in {0, 200, 400}
         /\ ending \in {"none", "complete", "aborted"}
  BY ThreeTypes DEF Inv, EtlTypeOK, Shapes

\* What the conjuncts of a step have to show of each variable for the types to hold after it.
LEMMA TypesFrom ==
  ASSUME /\ tenant' \in Tenant \cup {NoTenant}
         /\ pc' \in {"idle", "ask", "await", "scan", "done"}
         /\ typ' \in 1..4
         /\ answered' \in [1..3 -> {"no", "failed", "ok", "refused"}]
         /\ sent' \in [1..3 -> Seq(Line)] /\ read' \in [1..3 -> Nat]
         /\ \A t \in 1..3 : read'[t] <= Len(sent'[t])
         /\ closed' \in [1..3 -> {"no", "eof", "cut"}]
         /\ client' \in {"here", "stalled", "gone"}
         /\ status' \in {0, 200, 400}
         /\ ending' \in {"none", "complete", "aborted"}
  PROVE  EtlTypeOK' /\ Shapes'
  <1>1. \A t \in 1..3 : sent'[t] \in Seq(Line) /\ read'[t] \in 0..Len(sent'[t])
    OBVIOUS
  <1>2. QED
    BY <1>1, ThreeTypes DEF EtlTypeOK, Shapes

\* A stream that has not started keeps the invariant: nothing was asked for.
LEMMA InvInit == Init => Inv
  <1> SUFFICES ASSUME Init PROVE Inv
    OBVIOUS
  <1>1. /\ tenant = NoTenant /\ pc = "idle" /\ typ = 1 /\ client = "here"
        /\ status = 0 /\ ending = "none"
        /\ answered = [t \in 1..3 |-> "no"] /\ closed = [t \in 1..3 |-> "no"]
        /\ sent = [t \in 1..3 |-> <<>>] /\ read = [t \in 1..3 |-> 0]
    BY ThreeTypes DEF Init
  <1>2. EtlTypeOK /\ Shapes
    BY <1>1, ThreeTypes DEF EtlTypeOK, Shapes
  <1>3. Position /\ Untouched /\ Behind /\ FailedLast /\ Finished /\ Endings
    BY <1>1 DEF Position, Untouched, Behind, FailedLast, Finished, Endings
  <1>4. NoNull
    BY <1>1 DEF NoNull, Took
  <1>5. QED
    BY <1>2, <1>3, <1>4 DEF Inv

\* The checks of the request keep it: no type was asked for yet.
LEMMA ReceiveStep == Inv /\ Receive => Inv'
  <1> SUFFICES ASSUME Inv, Receive PROVE Inv'
    OBVIOUS
  <1>1. /\ pc = "idle" /\ tenant' \in Tenant \cup {NoTenant}
        /\ \/ status' = 400 /\ pc' = "done" /\ ending' = "complete"
           \/ status' = 200 /\ pc' = "ask" /\ ending' = ending
        /\ UNCHANGED <<typ, read, client, answered, sent, closed>>
    BY DEF Receive, End, upstream
  <1>2. EtlTypeOK' /\ Shapes'
    BY <1>1, TypesOf, TypesFrom
  <1>3. typ = 1 /\ ending = "none" /\ Untouched /\ NoNull /\ Behind /\ FailedLast
    BY <1>1 DEF Inv, Position, Endings, EtlTypeOK
  <1>4. Position' /\ Untouched' /\ Behind' /\ FailedLast' /\ Finished' /\ Endings'
    BY <1>1, <1>3, TypesOf
    DEF Position, Untouched, Behind, DealtWith, Took, FailedLast, Finished, Endings
  <1>5. NoNull'
    BY <1>1, <1>3 DEF NoNull, Took
  <1>6. QED
    BY <1>2, <1>4, <1>5 DEF Inv

\* So does asking for the next type, or ending after the last.
LEMMA AskStep == Inv /\ Ask => Inv'
  <1> SUFFICES ASSUME Inv, Ask PROVE Inv'
    OBVIOUS
  <1>1. /\ pc = "ask"
        /\ \/ typ > 3 /\ pc' = "done" /\ ending' = "complete"
           \/ typ <= 3 /\ pc' = "await" /\ ending' = ending
        /\ UNCHANGED <<tenant, typ, read, client, status, answered, sent, closed>>
    BY ThreeTypes DEF Ask, End, upstream
  <1>2. EtlTypeOK' /\ Shapes'
    BY <1>1, TypesOf, TypesFrom
  <1>3. ending = "none" /\ Untouched /\ NoNull /\ Behind /\ FailedLast
    BY <1>1 DEF Inv, Endings
  <1>4. Position' /\ Untouched' /\ FailedLast' /\ Finished' /\ Endings'
    BY <1>1, <1>3, TypesOf
    DEF Position, Untouched, FailedLast, Finished, Endings
  <1>5. Behind' /\ NoNull'
    BY <1>1, <1>3 DEF Behind, DealtWith, NoNull, Took
  <1>6. QED
    BY <1>2, <1>4, <1>5 DEF Inv

\* So does a context that is cancelled before or while the handler asks.
LEMMA AskCancelledStep == Inv /\ AskCancelled => Inv'
  <1> SUFFICES ASSUME Inv, AskCancelled PROVE Inv'
    OBVIOUS
  <1>1. /\ client = "gone"
        /\ \/ pc \in {"ask", "await"} /\ pc' = "done" /\ ending' = "complete" /\ typ' = typ
           \/ pc = "scan" /\ pc' = "ask" /\ typ' = typ + 1 /\ ending' = ending
        /\ UNCHANGED <<tenant, read, client, status, answered, sent, closed>>
    BY DEF AskCancelled, Cancelled, End, upstream
  <1>2. ending = "none" /\ Untouched /\ NoNull /\ FailedLast /\ (pc = "scan" => typ <= 3)
    BY <1>1 DEF Inv, Endings, Position
  <1>3. EtlTypeOK' /\ Shapes'
    BY <1>1, <1>2, TypesOf, TypesFrom
  <1>4. Position' /\ Untouched' /\ Behind' /\ FailedLast' /\ Finished' /\ Endings'
    BY <1>1, <1>2, TypesOf
    DEF Position, Untouched, Behind, FailedLast, Finished, Endings
  <1>5. NoNull'
    BY <1>1, <1>2 DEF NoNull, Took
  <1>6. QED
    BY <1>3, <1>4, <1>5 DEF Inv

\* So does a request that fails: its type is the last one.
LEMMA AskFailsStep == Inv /\ AskFails => Inv'
  <1> SUFFICES ASSUME Inv, AskFails PROVE Inv'
    OBVIOUS
  <1>1. /\ pc = "await" /\ answered' = [answered EXCEPT ![typ] = "failed"]
        /\ pc' = "done" /\ ending' = "complete"
        /\ UNCHANGED <<tenant, typ, read, client, status, sent, closed>>
    BY DEF AskFails, StreamFails, End
  <1>2. ending = "none" /\ Untouched /\ NoNull /\ Behind /\ FailedLast /\ typ <= 3
    BY <1>1 DEF Inv, Endings, Position
  <1>3. /\ answered' \in [1..3 -> {"no", "failed", "ok", "refused"}]
        /\ typ \in 1..3 /\ answered'[typ] = "failed"
        /\ \A t \in 1..3 : t # typ => answered'[t] = answered[t]
    BY <1>1, <1>2, TypesOf
  <1>4. EtlTypeOK' /\ Shapes'
    BY <1>1, <1>3, TypesOf, TypesFrom
  <1>5. Position' /\ Untouched' /\ FailedLast' /\ Finished' /\ Endings'
    BY <1>1, <1>2, <1>3, TypesOf
    DEF Position, Untouched, FailedLast, Finished, Endings
  <1>6. Behind' /\ NoNull'
    BY <1>1, <1>2, <1>3 DEF Behind, DealtWith, NoNull, Took
  <1>7. QED
    BY <1>4, <1>5, <1>6 DEF Inv

\* What one line more does to what the scanner took.
LEMMA TookOneMore ==
  ASSUME Inv, typ \in 1..3, read[typ] < Len(sent[typ]), sent' = sent,
         read' = [read EXCEPT ![typ] = read[typ] + 1]
  PROVE  \A t \in 1..3 : \A x :
           Took(t, x)' <=> Took(t, x) \/ (t = typ /\ x = sent[typ][read[typ] + 1])
  <1> SUFFICES ASSUME NEW t \in 1..3, NEW x
               PROVE  Took(t, x)' <=> Took(t, x) \/ (t = typ /\ x = sent[typ][read[typ] + 1])
    OBVIOUS
  <1>1. read \in [1..3 -> Nat] /\ read[t] \in Nat
    BY TypesOf
  <1>2. CASE t = typ
    <2>1. read'[t] = read[t] + 1
      BY <1>1, <1>2
    <2>2. 1..read'[t] = 1..read[t] \cup {read[t] + 1}
      BY <1>1, <2>1
    <2>3. QED
      BY <1>2, <2>2 DEF Took
  <1>3. CASE t # typ
    <2>1. read'[t] = read[t]
      BY <1>1, <1>3
    <2>2. QED
      BY <1>3, <2>1 DEF Took
  <1>4. QED
    BY <1>2, <1>3

\* So does a line, whatever it is: the client is one record closer, or the stream ends.
LEMMA ScanStep == Inv /\ Scan => Inv'
  <1> SUFFICES ASSUME Inv, Scan PROVE Inv'
    OBVIOUS
  <1> DEFINE line == sent[typ][read[typ] + 1]
  <1>1. /\ pc = "scan" /\ read[typ] < Len(sent[typ])
        /\ read' = [read EXCEPT ![typ] = read[typ] + 1]
        /\ \/ /\ line \in Object \cup {ErrorBody} \cup {Garbage}
              /\ pc' = pc /\ typ' = typ /\ ending' = ending
           \/ line = Null /\ pc' = "done" /\ ending' = "aborted" /\ typ' = typ
           \/ line = Long /\ pc' = "ask" /\ typ' = typ + 1 /\ ending' = ending
        /\ client' = client \/ (client = "here" /\ client' = "stalled")
        /\ UNCHANGED <<tenant, status, answered, sent, closed>>
    BY DEF Scan, Takes, Forward, Panic, End, upstream
  <1>2. ending = "none" /\ Untouched /\ NoNull /\ Behind /\ FailedLast /\ typ \in 1..3
    BY <1>1, TypesOf DEF Inv, Endings, Position
  <1>3. /\ \A t \in 1..3 : read[t] \in Nat /\ Len(sent[t]) \in Nat /\ read[t] <= Len(sent[t])
        /\ read' \in [1..3 -> Nat] /\ read'[typ] = read[typ] + 1
        /\ \A t \in 1..3 : t # typ => read'[t] = read[t]
    BY <1>1, <1>2, TypesOf
  <1>4. EtlTypeOK' /\ Shapes'
    <2>1. \A t \in 1..3 : read'[t] <= Len(sent'[t])
      BY <1>1, <1>3
    <2>2. QED
      BY <1>1, <1>2, <1>3, <2>1, TypesOf, TypesFrom
  <1>5. \A t \in 1..3 : \A x : Took(t, x)' <=> Took(t, x) \/ (t = typ /\ x = line)
    BY <1>1, <1>2, TookOneMore
  <1> HIDE DEF line
  <1>6. \A t \in 1..3 : t < typ /\ DealtWith(t) => DealtWith(t)'
    BY <1>1, <1>3, <1>5 DEF DealtWith
  <1>7. \A t \in 1..3 : t = typ /\ line = Long => DealtWith(t)'
    BY <1>2, <1>5 DEF DealtWith
  <1>8. Behind'
    <2> SUFFICES ASSUME client # "gone", NEW t \in 1..3, t < typ' PROVE DealtWith(t)'
      BY <1>1 DEF Behind
    <2>1. CASE t < typ
      BY <1>2, <1>6, <2>1 DEF Behind
    <2>2. CASE ~(t < typ)
      <3>1. t = typ /\ line = Long
        BY <1>1, <1>2, <2>2
      <3>2. QED
        BY <1>7, <3>1
    <2>3. QED
      BY <2>1, <2>2
  <1>9. NoNull'
    <2>1. ending' # "aborted" => line # Null
      BY <1>1, KindsAssumption
    <2>2. QED
      BY <1>2, <1>5, <2>1 DEF NoNull
  <1>10. Position' /\ Untouched' /\ FailedLast' /\ Finished' /\ Endings'
    BY <1>1, <1>2, <1>3, TypesOf, SMTT(30)
    DEF Position, Untouched, FailedLast, Finished, Endings
  <1>11. QED
    BY <1>4, <1>8, <1>9, <1>10 DEF Inv

\* So does the end of an answer: the type is dealt with.
LEMMA ScanEndsStep == Inv /\ ScanEnds => Inv'
  <1> SUFFICES ASSUME Inv, ScanEnds PROVE Inv'
    OBVIOUS
  <1>1. /\ pc = "scan" /\ read[typ] = Len(sent[typ]) /\ closed[typ] # "no"
        /\ pc' = "ask" /\ typ' = typ + 1
        /\ UNCHANGED <<tenant, read, client, status, ending, answered, sent, closed>>
    BY DEF ScanEnds, upstream
  <1>2. ending = "none" /\ Untouched /\ NoNull /\ Behind /\ FailedLast /\ typ \in 1..3
    BY <1>1, TypesOf DEF Inv, Endings, Position
  <1>3. EtlTypeOK' /\ Shapes'
    BY <1>1, <1>2, TypesOf, TypesFrom
  <1>4. DealtWith(typ)
    BY <1>1, <1>2, TypesOf DEF DealtWith
  <1>5. \A t \in 1..3 : DealtWith(t)' <=> DealtWith(t)
    BY <1>1 DEF DealtWith, Took
  <1>6. Behind'
    BY <1>1, <1>2, <1>4, <1>5 DEF Behind
  <1>7. NoNull'
    BY <1>1, <1>2 DEF NoNull, Took
  <1>8. Position' /\ Untouched' /\ FailedLast' /\ Finished' /\ Endings'
    BY <1>1, <1>2, TypesOf DEF Position, Untouched, FailedLast, Finished, Endings
  <1>9. QED
    BY <1>3, <1>6, <1>7, <1>8 DEF Inv

\* OpenObserve acts on the answer for the type at hand only.
LEMMA AnswerStep == Inv /\ Answer => Inv'
  <1> SUFFICES ASSUME Inv, Answer PROVE Inv'
    OBVIOUS
  <1>1. PICK a \in {"ok", "refused"} : answered' = [answered EXCEPT ![typ] = a]
    BY DEF Answer
  <1>2. /\ pc = "await" /\ pc' = "scan"
        /\ UNCHANGED <<tenant, typ, read, client, status, ending, sent, closed>>
    BY DEF Answer
  <1>3. ending = "none" /\ Untouched /\ NoNull /\ Behind /\ FailedLast /\ typ \in 1..3
    BY <1>2, TypesOf DEF Inv, Endings, Position
  <1>4. /\ answered' \in [1..3 -> {"no", "failed", "ok", "refused"}]
        /\ answered'[typ] = a
        /\ \A t \in 1..3 : t # typ => answered'[t] = answered[t]
    BY <1>1, <1>3, TypesOf
  <1>5. EtlTypeOK' /\ Shapes'
    BY <1>2, <1>4, TypesOf, TypesFrom
  <1>6. Behind' /\ NoNull'
    BY <1>2, <1>3, <1>4 DEF Behind, DealtWith, NoNull, Took
  <1>7. Position' /\ Untouched' /\ FailedLast' /\ Finished' /\ Endings'
    BY <1>2, <1>3, <1>4, TypesOf
    DEF Position, Untouched, FailedLast, Finished, Endings
  <1>8. QED
    BY <1>5, <1>6, <1>7 DEF Inv

\* So does a line that OpenObserve sends to the type being read.
LEMMA SendStep == Inv /\ Send => Inv'
  <1> SUFFICES ASSUME Inv, Send PROVE Inv'
    OBVIOUS
  <1>1. PICK x \in Line : sent' = [sent EXCEPT ![typ] = Append(sent[typ], x)]
    BY DEF Send, Line
  <1>2. /\ pc = "scan" /\ closed[typ] = "no"
        /\ UNCHANGED <<tenant, pc, typ, read, client, status, ending, answered, closed>>
    BY DEF Send
  <1>3. Inv /\ ending = "none" /\ Untouched /\ NoNull /\ Behind /\ FailedLast /\ typ \in 1..3
    BY <1>2, TypesOf DEF Inv, Endings, Position
  <1>4. /\ sent \in [1..3 -> Seq(Line)] /\ sent[typ] \in Seq(Line)
        /\ \A t \in 1..3 : read[t] \in Nat /\ Len(sent[t]) \in Nat /\ read[t] <= Len(sent[t])
    BY <1>3, TypesOf
  <1>5. /\ Append(sent[typ], x) \in Seq(Line)
        /\ Len(Append(sent[typ], x)) = Len(sent[typ]) + 1
        /\ \A n \in 1..Len(sent[typ]) : Append(sent[typ], x)[n] = sent[typ][n]
    BY <1>4, AppendProperties
  <1>6. /\ sent' \in [1..3 -> Seq(Line)] /\ sent'[typ] = Append(sent[typ], x)
        /\ \A t \in 1..3 : t # typ => sent'[t] = sent[t]
    BY <1>1, <1>3, <1>4, <1>5
  <1>7. \A t \in 1..3 : read[t] <= Len(sent'[t])
    BY <1>4, <1>5, <1>6
  <1>8. EtlTypeOK' /\ Shapes'
    BY <1>2, <1>6, <1>7, TypesOf, TypesFrom
  <1>9. \A t \in 1..3 : \A y : Took(t, y)' <=> Took(t, y)
    <2> SUFFICES ASSUME NEW t \in 1..3, NEW n \in 1..read[t]
                 PROVE  sent'[t][n] = sent[t][n]
      BY <1>2 DEF Took
    <2>1. CASE t = typ
      <3>1. n \in 1..Len(sent[typ])
        BY <1>4, <2>1
      <3>2. QED
        BY <1>5, <1>6, <2>1, <3>1
    <2>2. CASE t # typ
      BY <1>6, <2>2
    <2>3. QED
      BY <2>1, <2>2
  <1>10. Behind' /\ NoNull'
    BY <1>2, <1>3, <1>6, <1>9 DEF Behind, DealtWith, NoNull
  <1>11. Position' /\ Untouched' /\ FailedLast' /\ Finished' /\ Endings'
    BY <1>2, <1>3, <1>6, TypesOf
    DEF Position, Untouched, FailedLast, Finished, Endings
  <1>12. QED
    BY <1>8, <1>10, <1>11 DEF Inv

\* So does the end, or the cut, of an answer.
LEMMA CloseStep == Inv /\ Close => Inv'
  <1> SUFFICES ASSUME Inv, Close PROVE Inv'
    OBVIOUS
  <1>1. PICK c \in {"eof", "cut"} : closed' = [closed EXCEPT ![typ] = c]
    BY DEF Close
  <1>2. /\ pc = "scan"
        /\ UNCHANGED <<tenant, pc, typ, read, client, status, ending, answered, sent>>
    BY DEF Close
  <1>3. ending = "none" /\ Untouched /\ NoNull /\ Behind /\ FailedLast /\ typ \in 1..3
    BY <1>2, TypesOf DEF Inv, Endings, Position
  <1>4. /\ closed' \in [1..3 -> {"no", "eof", "cut"}]
        /\ \A t \in 1..3 : t # typ => closed'[t] = closed[t]
    BY <1>1, <1>3, TypesOf
  <1>5. EtlTypeOK' /\ Shapes'
    BY <1>2, <1>4, TypesOf, TypesFrom
  <1>6. Behind' /\ NoNull'
    BY <1>2, <1>3, <1>4 DEF Behind, DealtWith, NoNull, Took
  <1>7. Position' /\ Untouched' /\ FailedLast' /\ Finished' /\ Endings'
    BY <1>2, <1>3, <1>4, TypesOf
    DEF Position, Untouched, FailedLast, Finished, Endings
  <1>8. QED
    BY <1>5, <1>6, <1>7 DEF Inv

\* So does a client that leaves: what it was promised is given up.
LEMMA LeaveStep == Inv /\ Leave => Inv'
  <1> SUFFICES ASSUME Inv, Leave PROVE Inv'
    OBVIOUS
  <1>1. /\ pc \notin {"idle", "done"} /\ client' = "gone"
        /\ UNCHANGED <<tenant, pc, typ, read, status, ending, answered, sent, closed>>
    BY DEF Leave, upstream
  <1>2. EtlTypeOK' /\ Shapes'
    BY <1>1, TypesOf, TypesFrom
  <1>3. Position' /\ Untouched' /\ Behind' /\ NoNull' /\ FailedLast' /\ Finished' /\ Endings'
    BY <1>1 DEF Inv, Position, Untouched, Behind, NoNull, Took, FailedLast, Finished, Endings
  <1>4. QED
    BY <1>2, <1>3 DEF Inv

\* So does a client that reads on: it was there all the time.
LEMMA ResumeStep == Inv /\ Resume => Inv'
  <1> SUFFICES ASSUME Inv, Resume PROVE Inv'
    OBVIOUS
  <1>1. /\ client = "stalled" /\ client' = "here"
        /\ UNCHANGED <<tenant, pc, typ, read, status, ending, answered, sent, closed>>
    BY DEF Resume, upstream
  <1>2. EtlTypeOK' /\ Shapes'
    BY <1>1, TypesOf, TypesFrom
  <1>3. Position' /\ Untouched' /\ Behind' /\ NoNull' /\ FailedLast' /\ Finished' /\ Endings'
    BY <1>1 DEF Inv, Position, Untouched, Behind, DealtWith, NoNull, Took, FailedLast, Finished,
                Endings
  <1>4. QED
    BY <1>2, <1>3 DEF Inv

\* A step that changes nothing keeps the invariant.
LEMMA StutterStep == Inv /\ UNCHANGED vars => Inv'
  BY DEF Inv, EtlTypeOK, Shapes, Position, Untouched, Behind, DealtWith, NoNull, Took,
         FailedLast, Finished, Endings, vars, Types, Line

----------------------------------------------------------------------------
\* The invariant and what follows from it

\* The stream's types and the order of its work, always.
THEOREM EtlInvariant == Spec => []Inv
  <1>1. Inv /\ [Next]_vars => Inv'
    BY ReceiveStep, AskStep, AskCancelledStep, ScanStep, ScanEndsStep, AskFailsStep,
       AnswerStep, SendStep, CloseStep, ResumeStep, LeaveStep, StutterStep
    DEF Next, Handler
  <1>2. QED
    BY <1>1, InvInit, PTL DEF Spec

\* Type correctness of the handler and of what OpenObserve sends it (handleOOStream).
THEOREM EtlTypes == Spec => []EtlTypeOK
  <1>1. Inv => EtlTypeOK
    BY DEF Inv
  <1>2. QED
    BY <1>1, EtlInvariant, PTL

\* The members of what the scanner took are the lines it took.
LEMMA TakenIsTook ==
  ASSUME Inv, NEW t \in 1..3, NEW x
  PROVE  x \in ToSet(Taken(t)) <=> Took(t, x)
  <1>1. sent[t] \in Seq(Line) /\ read[t] \in 0..Len(sent[t])
    BY TypesOf
  <1>2. /\ Taken(t) \in Seq(Line) /\ Len(Taken(t)) = read[t]
        /\ \A n \in 1..read[t] : Taken(t)[n] = sent[t][n]
    <2>1. Len(sent[t]) \in Nat /\ read[t] \in Nat /\ read[t] <= Len(sent[t])
      BY <1>1
    <2>2. \A n \in 1..read[t] : sent[t][n] \in Line
      BY <1>1, <2>1
    <2>3. Taken(t) = [n \in 1..read[t] |-> sent[t][n]]
      BY <1>1, <2>1 DEF Taken
    <2>4. QED
      BY <2>1, <2>2, <2>3
  <1>3. DOMAIN Taken(t) = 1..read[t]
    BY <1>2
  <1>4. QED
    BY <1>2, <1>3 DEF ToSet, Took

\* A stream that ends like a complete one skipped nothing that OpenObserve sent (Stream).
THEOREM NothingIsSkipped == Spec => []NothingSkipped
  <1>1. Inv => NothingSkipped
    <2> SUFFICES ASSUME Inv, ending = "complete", status = 200, client # "gone",
                        NEW t \in 1..3
                 PROVE  /\ Null \notin ToSet(Taken(t))
                        /\ \/ closed[t] = "eof" /\ read[t] = Len(sent[t])
                           \/ Faulty(t)
                           \/ \E u \in 1..t - 1 : answered[u] = "failed"
      BY ThreeTypes DEF NothingSkipped
    <2>1. Null \notin ToSet(Taken(t))
      BY TakenIsTook DEF Inv, NoNull
    <2>2. DealtWith(t) => (closed[t] = "eof" /\ read[t] = Len(sent[t])) \/ Faulty(t)
      BY TakenIsTook DEF DealtWith, Faulty
    <2>3. typ = 4 \/ (typ \in 1..3 /\ answered[typ] = "failed")
      BY TypesOf DEF Inv, Finished, Endings
    <2>4. CASE t < typ
      BY <2>1, <2>2, <2>4 DEF Inv, Behind
    <2>5. CASE t = typ
      BY <2>1, <2>3, <2>5 DEF Faulty
    <2>6. CASE typ < t
      <3>1. typ \in 1..t - 1 /\ answered[typ] = "failed"
        BY <2>3, <2>6
      <3>2. QED
        BY <2>1, <3>1
    <2>7. QED
      BY <2>3, <2>4, <2>5, <2>6
  <1>2. QED
    BY <1>1, EtlInvariant, PTL

\* No records follow those of a type whose request failed (Stream returns its error).
THEOREM FailuresEndTheStream == Spec => []FailureEndsStream
  <1>1. Inv => FailureEndsStream
    BY ThreeTypes, TypesOf DEF Inv, FailureEndsStream, FailedLast, Untouched
  <1>2. QED
    BY <1>1, EtlInvariant, PTL

----------------------------------------------------------------------------
\* The order of the records

\* A record as a client may get it.
Records == {RecordOf(x, Types[t]) : x \in Line, t \in 1..3}

\* Nothing has been relayed before the request is in; then the k-th record is the k-th object.
OrderInv ==
  /\ pc = "idle" => out = <<>>
  /\ out \in Seq(Records)
  /\ IsFiniteSet(Objects)
  /\ RelaysInOrder

\* The object at place n of the answer for type t was taken.
LEMMA ObjectsOf ==
  ASSUME NEW p
  PROVE  p \in Objects <=>
           \E t \in 1..3 : \E n \in 1..read[t] :
             p = <<t, n>> /\ sent[t][n] \notin {Garbage, Null, Long}
  BY ThreeTypes DEF Objects

\* Nothing new was taken: the objects are the same, at the same places.
LEMMA SameOrder ==
  ASSUME Inv, OrderInv, UNCHANGED <<read, tenant, out>>, client' # "gone" => client # "gone",
         pc' = "idle" => pc = "idle",
         \A t \in 1..3 : \A n \in 1..read[t] : sent'[t][n] = sent[t][n]
  PROVE  OrderInv'
  <1>1. \A p : p \in Objects' <=> p \in Objects
    <2> SUFFICES ASSUME NEW p PROVE p \in Objects' <=> p \in Objects
      OBVIOUS
    <2>1. p \in Objects' <=>
            \E t \in 1..3 : \E n \in 1..read'[t] :
              p = <<t, n>> /\ sent'[t][n] \notin {Garbage, Null, Long}
      BY ThreeTypes DEF Objects
    <2>2. QED
      BY <2>1, ObjectsOf
  <1>2. Objects' = Objects
    BY <1>1
  <1>3. \A p \in Objects : sent'[p[1]][p[2]] = sent[p[1]][p[2]]
    BY ObjectsOf
  <1>4. \A p : UpTo(p)' = UpTo(p)
    BY <1>2 DEF UpTo
  <1>5. \A x, y : RecordOf(x, y)' = RecordOf(x, y)
    BY DEF RecordOf, Tagged
  <1>6. RelaysInOrder'
    BY <1>2, <1>3, <1>4, <1>5 DEF OrderInv, RelaysInOrder
  <1>7. Records' = Records
    BY <1>5 DEF Records
  <1>8. QED
    BY <1>2, <1>6, <1>7 DEF OrderInv

\* A new object is the last of all: the types to come are untouched, and the lines of the
\* type at hand are taken one by one.
LEMMA NewObjectIsLast ==
  ASSUME Inv, Scan, NEW new, new = <<typ, read[typ] + 1>>,
         NEW line, line = sent[typ][read[typ] + 1]
  PROVE  /\ Objects' = Objects \cup (IF line \in {Garbage, Null, Long} THEN {} ELSE {new})
         /\ new \notin Objects
         /\ \A p \in Objects : /\ p[1] < new[1] \/ (p[1] = new[1] /\ p[2] <= new[2])
                               /\ ~(new[1] < p[1] \/ (new[1] = p[1] /\ new[2] <= p[2]))
  <1>1. /\ pc = "scan" /\ sent' = sent /\ read' = [read EXCEPT ![typ] = read[typ] + 1]
    BY DEF Scan, Takes, upstream
  <1>2. typ \in 1..3 /\ Untouched /\ read \in [1..3 -> Nat]
    BY <1>1, TypesOf DEF Inv, Position
  <1>3. \A t \in 1..3 : typ < t => read[t] = 0
    BY <1>2 DEF Untouched
  <1>4. ASSUME NEW p \in Objects
        PROVE  /\ p[1] \in 1..3 /\ p[2] \in 1..read[p[1]]
               /\ p[1] <= typ /\ (p[1] = typ => p[2] <= read[typ])
    <2>1. PICK t \in 1..3 : \E n \in 1..read[t] : p = <<t, n>>
      BY ObjectsOf
    <2>2. PICK n \in 1..read[t] : p = <<t, n>>
      BY <2>1
    <2>3. p[1] = t /\ p[2] = n
      BY <2>2
    <2>4. ~(typ < t)
      BY <1>3, <2>2
    <2>5. QED
      BY <1>2, <2>3, <2>4
  <1>5. ASSUME NEW p
        PROVE  p \in Objects' <=> p \in Objects \/ (p = new /\ line \notin {Garbage, Null, Long})
    <2>1. p \in Objects' <=>
            \E t \in 1..3 : \E n \in 1..read'[t] :
              p = <<t, n>> /\ sent[t][n] \notin {Garbage, Null, Long}
      BY <1>1, ThreeTypes DEF Objects
    <2>2. \A t \in 1..3 : t # typ => read'[t] = read[t]
      BY <1>1, <1>2
    <2>3. 1..read'[typ] = 1..read[typ] \cup {read[typ] + 1}
      <3>1. read'[typ] = read[typ] + 1 /\ read[typ] \in Nat
        BY <1>1, <1>2
      <3>2. QED
        BY <3>1
    <2>4. QED
      BY <1>2, <2>1, <2>2, <2>3, ObjectsOf
  <1>6. new[1] = typ /\ new[2] = read[typ] + 1 /\ read[typ] \in Nat
    BY <1>2
  <1>7. \A p \in Objects : /\ p[1] < new[1] \/ (p[1] = new[1] /\ p[2] <= new[2])
                           /\ ~(new[1] < p[1] \/ (new[1] = p[1] /\ new[2] <= p[2]))
    BY <1>2, <1>4, <1>6
  <1>8. new \notin Objects
    BY <1>4, <1>6
  <1>9. QED
    BY <1>5, <1>7, <1>8

\* What the scanner takes is relayed as the next record, or is no object.
LEMMA ScanInOrder ==
  ASSUME Inv, OrderInv, Scan
  PROVE  OrderInv'
  <1> DEFINE line == sent[typ][read[typ] + 1]
             rec  == RecordOf(line, Types[typ])
  <1>0. PICK new : new = <<typ, read[typ] + 1>>
    OBVIOUS
  <1>1. /\ pc = "scan" /\ pc' # "idle" /\ sent' = sent /\ tenant' = tenant
        /\ client' # "gone" <=> client # "gone"
        /\ \/ line \in Object \cup {ErrorBody} /\ Forward(rec)
           \/ line \in {Garbage, Null, Long} /\ out' = out
    BY DEF Scan, RecordOf, Unmarshal, Forward, Panic, End, upstream
  <1>2. typ \in 1..3 /\ line \in Line
    <2>1. typ \in 1..3
      BY <1>1, TypesOf DEF Inv, Position
    <2>2. sent[typ] \in Seq(Line) /\ read[typ] \in 0..Len(sent[typ])
      BY <2>1, TypesOf
    <2>3. read[typ] < Len(sent[typ])
      BY DEF Scan
    <2>4. QED
      BY <2>1, <2>2, <2>3
  <1>3. /\ out \in Seq(Records) /\ IsFiniteSet(Objects) /\ RelaysInOrder
        /\ Cardinality(Objects) \in Nat /\ Len(out) \in Nat
    BY FS_CardinalityType DEF OrderInv
  <1>4. /\ Objects' = Objects \cup (IF line \in {Garbage, Null, Long} THEN {} ELSE {new})
        /\ new \notin Objects
        /\ \A p \in Objects : /\ p[1] < new[1] \/ (p[1] = new[1] /\ p[2] <= new[2])
                              /\ ~(new[1] < p[1] \/ (new[1] = p[1] /\ new[2] <= p[2]))
    BY <1>0, NewObjectIsLast
  <1>5. (\A x, y : RecordOf(x, y)' = RecordOf(x, y)) /\ Records' = Records
    <2>1. \A x, y : RecordOf(x, y)' = RecordOf(x, y)
      BY <1>1 DEF RecordOf, Tagged
    <2>2. QED
      BY <2>1 DEF Records
  <1>6. rec \in Records /\ rec = RecordOf(sent[new[1]][new[2]], Types[new[1]])
    BY <1>0, <1>2 DEF Records
  <1> HIDE DEF line, rec
  <1>7. \A p \in Objects : UpTo(p)' = UpTo(p)
    BY <1>4 DEF UpTo
  <1>8. CASE line \in {Garbage, Null, Long}
    <2>1. Objects' = Objects /\ out' = out
      BY <1>1, <1>4, <1>8, KindsAssumption
    <2>2. RelaysInOrder'
      BY <1>1, <1>3, <1>5, <1>7, <2>1 DEF RelaysInOrder
    <2>3. QED
      BY <1>1, <1>3, <1>5, <2>1, <2>2 DEF OrderInv
  <1>9. CASE line \notin {Garbage, Null, Long}
    <2>1. Objects' = Objects \cup {new} /\ Forward(rec)
      BY <1>1, <1>4, <1>9
    <2>2. IsFiniteSet(Objects') /\ Cardinality(Objects') = Cardinality(Objects) + 1
      BY <1>3, <1>4, <2>1, FS_AddElement
    <2>3. UpTo(new)' = Objects'
      <3>1. new[2] \in Nat
        BY <1>0, <1>2, TypesOf
      <3>2. \A q \in Objects' : q[1] < new[1] \/ (q[1] = new[1] /\ q[2] <= new[2])
        BY <1>4, <2>1, <3>1
      <3>3. QED
        BY <3>2 DEF UpTo
    <2>4. CASE client # "gone"
      <3>1. Len(out) = Cardinality(Objects) /\ out' = Append(out, rec)
        BY <1>3, <2>1, <2>4 DEF RelaysInOrder, Forward
      <3>2. /\ out' \in Seq(Records) /\ Len(out') = Len(out) + 1
            /\ \A k \in 1..Len(out) : out'[k] = out[k]
            /\ out'[Len(out) + 1] = rec
        BY <1>3, <1>6, <3>1, AppendProperties
      <3>3. ASSUME NEW p \in Objects
            PROVE  /\ Cardinality(UpTo(p)) \in 1..Len(out)
                   /\ out[Cardinality(UpTo(p))] = RecordOf(sent[p[1]][p[2]], Types[p[1]])
        <4>1. UpTo(p) \subseteq Objects /\ p \in UpTo(p)
          <5>1. PICK t \in 1..3 : \E n \in 1..read[t] : p = <<t, n>>
            BY ObjectsOf
          <5>2. p[2] \in Nat
            BY <5>1, TypesOf
          <5>3. QED
            BY <5>2 DEF UpTo
        <4>2. /\ IsFiniteSet(UpTo(p)) /\ Cardinality(UpTo(p)) \in Nat
              /\ Cardinality(UpTo(p)) <= Cardinality(Objects)
          BY <1>3, <4>1, FS_Subset, FS_CardinalityType
        <4>3. Cardinality(UpTo(p)) # 0
          BY <4>1, <4>2, FS_EmptySet
        <4>4. QED
          BY <1>3, <3>1, <4>2, <4>3 DEF RelaysInOrder
      <3>4. ASSUME NEW p \in Objects'
            PROVE  Cardinality(UpTo(p)') <= Len(out')
                     => out'[Cardinality(UpTo(p)')] = RecordOf(sent[p[1]][p[2]], Types[p[1]])
        <4>1. CASE p = new
          BY <1>6, <2>2, <2>3, <3>1, <3>2, <4>1
        <4>2. CASE p \in Objects
          BY <1>7, <3>2, <3>3, <4>2
        <4>3. QED
          BY <2>1, <4>1, <4>2
      <3>5. RelaysInOrder'
        <4>1. Len(out') = Cardinality(Objects') /\ Cardinality(Objects') \in Nat
          BY <1>3, <2>2, <3>1, <3>2
        <4>2. QED
          BY <1>1, <1>5, <3>4, <4>1 DEF RelaysInOrder
      <3>6. QED
        BY <1>1, <1>5, <2>2, <3>2, <3>5 DEF OrderInv
    <2>5. CASE client = "gone"
      <3>1. out' = out /\ Len(out) <= Cardinality(Objects)
        BY <1>3, <2>1, <2>5 DEF RelaysInOrder, Forward
      <3>2. Len(out') <= Cardinality(Objects') /\ ~(Cardinality(Objects') <= Len(out'))
        BY <1>3, <2>2, <3>1
      <3>3. ASSUME NEW p \in Objects'
            PROVE  Cardinality(UpTo(p)') <= Len(out')
                     => out'[Cardinality(UpTo(p)')] = RecordOf(sent[p[1]][p[2]], Types[p[1]])
        <4>1. CASE p = new
          BY <2>3, <3>2, <4>1
        <4>2. CASE p \in Objects
          BY <1>3, <1>7, <3>1, <4>2 DEF RelaysInOrder
        <4>3. QED
          BY <2>1, <4>1, <4>2
      <3>4. RelaysInOrder'
        BY <1>1, <1>5, <2>5, <3>2, <3>3 DEF RelaysInOrder
      <3>5. QED
        BY <1>1, <1>3, <1>5, <2>2, <3>1, <3>4 DEF OrderInv
    <2>6. QED
      BY <2>4, <2>5
  <1>10. QED
    BY <1>8, <1>9

\* Before the request is in nothing was read, hence nothing relayed.
LEMMA NothingYet ==
  ASSUME Inv, pc = "idle" \/ Init
  PROVE  Objects = {}
  <1>1. \A t \in 1..3 : read[t] = 0
    BY ThreeTypes DEF Inv, Untouched, Position, Init
  <1>2. \A p : p \notin Objects
    BY <1>1, ObjectsOf
  <1>3. QED
    BY <1>2

\* No record for no object is in order.
LEMMA EmptyInOrder == Objects = {} /\ out = <<>> => OrderInv
  <1> SUFFICES ASSUME Objects = {}, out = <<>> PROVE OrderInv
    OBVIOUS
  <1>1. IsFiniteSet(Objects) /\ Cardinality(Objects) = 0
    BY FS_EmptySet
  <1>2. Len(out) = 0 /\ out \in Seq(Records)
    OBVIOUS
  <1>3. QED
    BY <1>1, <1>2 DEF OrderInv, RelaysInOrder

\* The same after a step.
LEMMA EmptyInOrderNext == (Objects = {} /\ out = <<>>)' => OrderInv'
  BY EmptyInOrder, PTL

\* Every step keeps the order of the records: only Scan adds one, for the last object.
LEMMA OrderStep ==
  ASSUME Inv, OrderInv, [Next]_vars
  PROVE  OrderInv'
  <1>1. \A t \in 1..3 : sent[t] \in Seq(Line) /\ read[t] \in 0..Len(sent[t])
    BY TypesOf
  <1>2. CASE Receive
    <2>1. Objects = {} /\ out' = <<>> /\ read' = read /\ sent' = sent
      BY <1>2, NothingYet DEF Receive, upstream, OrderInv
    <2>2. Objects' = {}
      BY <2>1 DEF Objects
    <2>3. QED
      BY <2>1, <2>2, EmptyInOrderNext
  <1>3. CASE Scan
    BY <1>3, ScanInOrder
  <1>4. CASE Ask \/ AskCancelled \/ ScanEnds \/ AskFails \/ Answer \/ Close \/ Resume \/ Leave
    <2>1. /\ UNCHANGED <<read, tenant, out, sent>> /\ (pc' = "idle" => pc = "idle")
          /\ client' # "gone" => client # "gone"
      BY <1>4 DEF Ask, AskCancelled, ScanEnds, AskFails, Answer, Close, Resume, Leave, End,
                  StreamFails, upstream
    <2>2. QED
      BY <2>1, SameOrder
  <1>5. CASE Send
    <2>1. PICK x \in Line : sent' = [sent EXCEPT ![typ] = Append(sent[typ], x)]
      BY <1>5 DEF Send, Line
    <2>2. /\ UNCHANGED <<read, tenant, out, client>> /\ pc' # "idle" /\ typ \in 1..3
      BY <1>5, TypesOf DEF Send, Inv, Position
    <2>3. ASSUME NEW t \in 1..3, NEW n \in 1..read[t] PROVE sent'[t][n] = sent[t][n]
      <3>1. sent \in [1..3 -> Seq(Line)] /\ n \in 1..Len(sent[t]) /\ sent[t] \in Seq(Line)
        BY <1>1, TypesOf
      <3>2. CASE t = typ
        BY <2>1, <2>2, <3>1, <3>2, AppendProperties
      <3>3. CASE t # typ
        BY <2>1, <2>2, <3>1, <3>3
      <3>4. QED
        BY <3>2, <3>3
    <2>4. QED
      BY <2>2, <2>3, SameOrder
  <1>6. CASE UNCHANGED vars
    BY <1>6, SameOrder DEF vars
  <1>7. QED
    BY <1>2, <1>3, <1>4, <1>5, <1>6 DEF Next, Handler

\* The records of the stream are the objects OpenObserve sent, in their order, each with the
\* fields of its own line and the tags of its type and tenant (Stream, handleOOStream).
THEOREM RecordsInOrder == Spec => []RelaysInOrder
  <1>1. Init => OrderInv
    <2> SUFFICES ASSUME Init PROVE OrderInv
      OBVIOUS
    <2>1. Objects = {} /\ out = <<>>
      BY InvInit, NothingYet DEF Init
    <2>2. QED
      BY <2>1, EmptyInOrder
  <1>2. Inv /\ OrderInv /\ [Next]_vars => OrderInv'
    BY OrderStep
  <1>3. OrderInv => RelaysInOrder
    BY DEF OrderInv
  <1>4. QED
    BY <1>1, <1>2, <1>3, EtlInvariant, PTL DEF Spec
=============================================================================
