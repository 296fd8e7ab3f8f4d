------------------------ MODULE OutboxPublisherProofs ------------------------
(***************************************************************************)
(* The outbox publisher, for any number of workers, rows, failures and     *)
(* broken connections: its invariants, and that it implements EventBus.    *)
(*                                                                         *)
(* What makes them inductive is what a worker holds at each statement      *)
(* (BatchInStep) and how often a row may have been handed over by then     *)
(* (CopiesBounded): once more than there were failures, if it is published *)
(* or in the part of a batch that is done, and no more often otherwise.    *)
(***************************************************************************)
EXTENDS OutboxPublisher, FiniteSetTheorems, FunctionTheorems, SequenceTheorems, TLAPS

\* What PublisherTypeOK leaves open: the shapes of the sequences and of the batches.
Shapes ==
  /\ todo \in [Worker -> SUBSET Ids(outbox)]
  /\ buffer \in [Worker -> Seq(Ids(Row))]
  /\ delivered \in Seq(Ids(Row))

\* The rows NATS clients took.
Handed == Elements(delivered) \cup lost \cup UNION {Elements(buffer[w]) : w \in Worker}

\* What a worker holds: a batch until its transaction ends, and in it rows to hand over
\* until the last of them is.
BatchInStep ==
  \A w \in Worker :
    /\ step[w] \in {"idle", "flush"} => batch[w] = {}
    /\ step[w] # "publish" => todo[w] = {}
    /\ batch[w] \ todo[w] \subseteq Handed

\* Where row i is among the delivered ones.
Places(s, i) == {n \in DOMAIN s : s[n] = i}
Deliveries(i) == Places(delivered, i)

\* Row i was handed over for good, or is being so.
Done(i) == i \in published \/ \E w \in Worker : i \in batch[w] \ todo[w]

CopiesBounded ==
  \A i \in Ids(Row) :
    /\ IsFiniteSet(Deliveries(i)) /\ IsFiniteSet(Buffered(i))
    /\ Cardinality(Deliveries(i)) + Cardinality(Buffered(i))
         <= failures + (IF Done(i) THEN 1 ELSE 0)

Inv ==
  /\ PublisherTypeOK /\ Shapes /\ ExclusiveBatches /\ MarkedWasHandedOver
  /\ BatchInStep /\ CopiesBounded

----------------------------------------------------------------------------
\* Sequences

\* The elements of a sequence after Append.
LEMMA ElementsAppend ==
  ASSUME NEW T, NEW s \in Seq(T), NEW x \in T
  PROVE  Elements(Append(s, x)) = Elements(s) \cup {x}
  <1>1. DOMAIN Append(s, x) = 1..(Len(s) + 1) /\ DOMAIN s = 1..Len(s)
    OBVIOUS
  <1>2. \A n \in 1..Len(s) : Append(s, x)[n] = s[n]
    OBVIOUS
  <1>3. Append(s, x)[Len(s) + 1] = x
    OBVIOUS
  <1>4. QED
    BY <1>1, <1>2, <1>3 DEF Elements

\* The first k elements of a sequence and the others.
LEMMA ElementsSplit ==
  ASSUME NEW T, NEW s \in Seq(T), NEW k \in 0..Len(s)
  PROVE  /\ SubSeq(s, k + 1, Len(s)) \in Seq(T)
         /\ Len(SubSeq(s, k + 1, Len(s))) = Len(s) - k
         /\ \A n \in 1..(Len(s) - k) : SubSeq(s, k + 1, Len(s))[n] = s[n + k]
         /\ Elements(SubSeq(s, 1, k)) = {s[n] : n \in 1..k}
         /\ Elements(s) = Elements(SubSeq(s, 1, k)) \cup Elements(SubSeq(s, k + 1, Len(s)))
  <1> DEFINE r == SubSeq(s, k + 1, Len(s))
  <1>1. r \in Seq(T) /\ Len(r) = Len(s) - k /\ DOMAIN r = 1..(Len(s) - k)
    OBVIOUS
  <1>2. \A n \in 1..(Len(s) - k) : r[n] = s[n + k]
    OBVIOUS
  <1>3. DOMAIN SubSeq(s, 1, k) = 1..k /\ \A n \in 1..k : SubSeq(s, 1, k)[n] = s[n]
    OBVIOUS
  <1>4. Elements(SubSeq(s, 1, k)) = {s[n] : n \in 1..k}
    BY <1>3 DEF Elements
  <1>5. Elements(r) = {s[n] : n \in (k + 1)..Len(s)}
    <2> HIDE DEF r
    <2>1. ASSUME NEW n \in (k + 1)..Len(s)
          PROVE  n - k \in 1..(Len(s) - k) /\ r[n - k] = s[n]
      BY <1>2
    <2>2. ASSUME NEW n \in 1..(Len(s) - k)
          PROVE  n + k \in (k + 1)..Len(s)
      OBVIOUS
    <2>3. Elements(r) = {r[n] : n \in 1..(Len(s) - k)}
      BY <1>1 DEF Elements
    <2>4. {r[n] : n \in 1..(Len(s) - k)} \subseteq {s[n] : n \in (k + 1)..Len(s)}
      BY <1>2, <2>2
    <2>5. {s[n] : n \in (k + 1)..Len(s)} \subseteq {r[n] : n \in 1..(Len(s) - k)}
      BY <2>1
    <2>6. QED
      BY <2>3, <2>4, <2>5
  <1>6. Elements(s) = {s[n] : n \in 1..k} \cup {s[n] : n \in (k + 1)..Len(s)}
    BY DEF Elements
  <1>7. QED
    BY <1>1, <1>2, <1>4, <1>5, <1>6

\* The elements of a sequence over a set are in the set.
LEMMA ElementsType ==
  ASSUME NEW T, NEW s \in Seq(T)
  PROVE  Elements(s) \subseteq T
  BY DEF Elements

\* One more delivery.
LEMMA DeliveriesAppend ==
  ASSUME NEW T, NEW s \in Seq(T), NEW x \in T, NEW i,
         IsFiniteSet(Places(s, i))
  PROVE  /\ IsFiniteSet(Places(Append(s, x), i))
         /\ Cardinality(Places(Append(s, x), i))
              = Cardinality(Places(s, i)) + (IF x = i THEN 1 ELSE 0)
  <1>1. DOMAIN Append(s, x) = 1..(Len(s) + 1) /\ DOMAIN s = 1..Len(s) /\ Len(s) \in Nat
    OBVIOUS
  <1>2. \A n \in 1..Len(s) : Append(s, x)[n] = s[n]
    OBVIOUS
  <1>3. Append(s, x)[Len(s) + 1] = x
    OBVIOUS
  <1>4. Places(Append(s, x), i) = IF x = i THEN Places(s, i) \cup {Len(s) + 1} ELSE Places(s, i)
    BY <1>1, <1>2, <1>3 DEF Places
  <1>5. Len(s) + 1 \notin Places(s, i)
    BY <1>1 DEF Places
  <1>6. Cardinality(Places(s, i)) \in Nat
    BY FS_CardinalityType
  <1>7. /\ IsFiniteSet(Places(s, i) \cup {Len(s) + 1})
        /\ Cardinality(Places(s, i) \cup {Len(s) + 1}) = Cardinality(Places(s, i)) + 1
    BY <1>5, FS_AddElement
  <1>8. QED
    BY <1>4, <1>6, <1>7

----------------------------------------------------------------------------
\* The buffers

\* The places where row i is.
LEMMA BufferedPlaces ==
  ASSUME NEW i
  PROVE  \A z : z \in Buffered(i) <=>
           \E w \in Worker : \E n \in DOMAIN buffer[w] : z = <<w, n>> /\ buffer[w][n] = i
  BY DEF Buffered

\* A worker's client takes a row.
LEMMA BufferedAppend ==
  ASSUME NEW T, buffer \in [Worker -> Seq(T)], NEW w \in Worker, NEW x \in T,
         buffer' = [buffer EXCEPT ![w] = Append(@, x)],
         NEW i, IsFiniteSet(Buffered(i))
  PROVE  /\ IsFiniteSet(Buffered(i)')
         /\ Cardinality(Buffered(i)') = Cardinality(Buffered(i)) + (IF x = i THEN 1 ELSE 0)
  <1> DEFINE new == <<w, Len(buffer[w]) + 1>>
  <1>1. /\ DOMAIN buffer'[w] = 1..(Len(buffer[w]) + 1)
        /\ DOMAIN buffer[w] = 1..Len(buffer[w]) /\ Len(buffer[w]) \in Nat
        /\ \A n \in 1..Len(buffer[w]) : buffer'[w][n] = buffer[w][n]
        /\ buffer'[w][Len(buffer[w]) + 1] = x
        /\ \A v \in Worker \ {w} : buffer'[v] = buffer[v]
    OBVIOUS
  <1>2. \A z : z \in Buffered(i)' <=>
           \E v \in Worker : \E n \in DOMAIN buffer'[v] : z = <<v, n>> /\ buffer'[v][n] = i
    BY DEF Buffered
  <1>3. new \notin Buffered(i)
    BY <1>1, BufferedPlaces
  <1>4. Buffered(i)' = IF x = i THEN Buffered(i) \cup {new} ELSE Buffered(i)
    <2>1. ASSUME NEW z
          PROVE  z \in Buffered(i)' <=> z \in Buffered(i) \/ (x = i /\ z = new)
      <3>1. ASSUME z \in Buffered(i)' PROVE z \in Buffered(i) \/ (x = i /\ z = new)
        BY <1>1, <1>2, <3>1, BufferedPlaces
      <3>2. ASSUME z \in Buffered(i) PROVE z \in Buffered(i)'
        BY <1>1, <1>2, <3>2, BufferedPlaces, SMTT(30)
      <3>3. ASSUME x = i, z = new PROVE z \in Buffered(i)'
        BY <1>1, <1>2, <3>3
      <3>4. QED
        BY <3>1, <3>2, <3>3
    <2>2. QED
      BY <2>1
  <1>5. Cardinality(Buffered(i)) \in Nat
    BY FS_CardinalityType
  <1> HIDE DEF new
  <1>6. /\ IsFiniteSet(Buffered(i) \cup {new})
        /\ Cardinality(Buffered(i) \cup {new}) = Cardinality(Buffered(i)) + 1
    BY <1>3, FS_AddElement
  <1>7. QED
    BY <1>4, <1>5, <1>6

\* The first k rows leave a buffer: the others move up.
LEMMA BufferedShift ==
  ASSUME NEW T, buffer \in [Worker -> Seq(T)], NEW w \in Worker, NEW k \in 0..Len(buffer[w]),
         buffer' = [buffer EXCEPT ![w] = SubSeq(@, k + 1, Len(@))],
         NEW i, IsFiniteSet(Buffered(i))
  PROVE  LET front == {z \in Buffered(i) : \E n \in 1..k : z = <<w, n>>}
         IN  /\ IsFiniteSet(Buffered(i)')
             /\ Cardinality(Buffered(i)') = Cardinality(Buffered(i) \ front)
  <1> DEFINE front == {z \in Buffered(i) : \E n \in 1..k : z = <<w, n>>}
             kept  == Buffered(i) \ front
             f     == [z \in kept |-> IF z[1] = w THEN <<w, z[2] - k>> ELSE z]
  <1>1. /\ Len(buffer[w]) \in Nat /\ DOMAIN buffer[w] = 1..Len(buffer[w])
        /\ DOMAIN buffer'[w] = 1..(Len(buffer[w]) - k)
        /\ \A n \in 1..(Len(buffer[w]) - k) : buffer'[w][n] = buffer[w][n + k]
        /\ \A v \in Worker \ {w} : buffer'[v] = buffer[v]
    <2>1. buffer[w] \in Seq(T) /\ buffer'[w] = SubSeq(buffer[w], k + 1, Len(buffer[w]))
      OBVIOUS
    <2>2. /\ buffer'[w] \in Seq(T) /\ Len(buffer'[w]) = Len(buffer[w]) - k
          /\ \A n \in 1..(Len(buffer[w]) - k) : buffer'[w][n] = buffer[w][n + k]
      BY <2>1, ElementsSplit
    <2>3. QED
      BY <2>1, <2>2
  <1>2. \A z : z \in Buffered(i)' <=>
           \E v \in Worker : \E n \in DOMAIN buffer'[v] : z = <<v, n>> /\ buffer'[v][n] = i
    BY DEF Buffered
  <1>3. \A z \in kept : \E v \in Worker : \E n \in DOMAIN buffer[v] :
           z = <<v, n>> /\ buffer[v][n] = i /\ (v = w => n > k)
    BY <1>1, BufferedPlaces
  <1>4. f \in [kept -> Buffered(i)']
    <2>1. ASSUME NEW z \in kept
          PROVE  f[z] \in Buffered(i)'
      <3>a. PICK v \in Worker : \E n \in DOMAIN buffer[v] :
              z = <<v, n>> /\ buffer[v][n] = i /\ (v = w => n > k)
        BY <1>3
      <3>1. PICK n \in DOMAIN buffer[v] :
              z = <<v, n>> /\ buffer[v][n] = i /\ (v = w => n > k)
        BY <3>a
      <3>2. CASE v = w
        <4>1. n - k \in 1..(Len(buffer[w]) - k) /\ buffer'[w][n - k] = i
          BY <1>1, <3>1, <3>2
        <4>2. f[z] = <<w, n - k>>
          BY <3>1, <3>2
        <4>3. QED
          BY <1>1, <1>2, <4>1, <4>2
      <3>3. CASE v # w
        BY <1>1, <1>2, <3>1, <3>3
      <3>4. QED
        BY <3>2, <3>3
    <2>2. QED
      BY <2>1
  <1>5. \A y, z \in kept : f[y] = f[z] => y = z
    <2>1. ASSUME NEW y \in kept, NEW z \in kept, f[y] = f[z]
          PROVE  y = z
      <3>a. PICK v \in Worker : \E n \in DOMAIN buffer[v] : y = <<v, n>>
        BY <1>3
      <3>b. PICK u \in Worker : \E m \in DOMAIN buffer[u] : z = <<u, m>>
        BY <1>3
      <3>1. PICK n \in DOMAIN buffer[v] : y = <<v, n>>
        BY <3>a
      <3>2. PICK m \in DOMAIN buffer[u] : z = <<u, m>>
        BY <3>b
      <3>3. f[y] = (IF v = w THEN <<w, n - k>> ELSE <<v, n>>)
        BY <3>1
      <3>4. f[z] = (IF u = w THEN <<w, m - k>> ELSE <<u, m>>)
        BY <3>2
      <3>5. v = w => n \in Nat
        BY <1>1, <3>1
      <3>6. u = w => m \in Nat
        BY <1>1, <3>2
      <3>7. QED
        BY <2>1, <3>1, <3>2, <3>3, <3>4, <3>5, <3>6
    <2>2. QED
      BY <2>1
  <1>6. \A t \in Buffered(i)' : \E z \in kept : f[z] = t
    <2>1. ASSUME NEW t \in Buffered(i)'
          PROVE  \E z \in kept : f[z] = t
      <3>a. PICK v \in Worker : \E n \in DOMAIN buffer'[v] : t = <<v, n>> /\ buffer'[v][n] = i
        BY <1>2
      <3>1. PICK n \in DOMAIN buffer'[v] : t = <<v, n>> /\ buffer'[v][n] = i
        BY <3>a
      <3>2. CASE v = w
        <4>1. n + k \in DOMAIN buffer[w] /\ buffer[w][n + k] = i /\ n \in Nat /\ n + k > k
          BY <1>1, <3>1, <3>2
        <4>2. <<w, n + k>> \in kept
          BY <4>1, BufferedPlaces
        <4>3. f[<<w, n + k>>] = <<w, n>>
          BY <4>1, <4>2
        <4>4. QED
          BY <3>1, <3>2, <4>2, <4>3
      <3>3. CASE v # w
        <4>1. <<v, n>> \in kept
          BY <1>1, <3>1, <3>3, BufferedPlaces
        <4>2. f[<<v, n>>] = t
          BY <3>1, <3>3, <4>1
        <4>3. QED
          BY <4>1, <4>2
      <3>4. QED
        BY <3>2, <3>3
    <2>2. QED
      BY <2>1
  <1>7. IsFiniteSet(kept)
    BY FS_Difference
  <1> HIDE DEF kept, f
  <1>8. ExistsBijection(kept, Buffered(i)')
    BY <1>4, <1>5, <1>6, Fun_IsBij DEF ExistsBijection
  <1>9. IsFiniteSet(Buffered(i)') /\ Cardinality(Buffered(i)') = Cardinality(kept)
    BY <1>7, <1>8, FS_Bijection
  <1>10. QED
    BY <1>9 DEF kept

\* What leaves a buffer is its beginning, and is delivered or lost.
LEMMA FrontLeaves ==
  ASSUME Shapes, NEW w \in Worker, Drain(w) \/ ConnectionBreaks(w) \/ CrashWorker(w)
  PROVE  \E k \in 0..Len(buffer[w]) :
           /\ buffer' = [buffer EXCEPT ![w] = SubSeq(@, k + 1, Len(@))]
           /\ Elements(delivered)' \cup lost'
                = Elements(delivered) \cup lost \cup Elements(SubSeq(buffer[w], 1, k))
           /\ Drain(w) => k = 1
  <1>1. buffer[w] \in Seq(Ids(Row)) /\ delivered \in Seq(Ids(Row)) /\ Len(buffer[w]) \in Nat
    BY DEF Shapes
  <1>2. CASE Drain(w)
    <2>1. /\ buffer[w] # <<>> /\ delivered' = Append(delivered, Head(buffer[w])) /\ lost' = lost
          /\ buffer' = [buffer EXCEPT ![w] = Tail(@)]
      BY <1>2 DEF Drain
    <2>2. Len(buffer[w]) >= 1 /\ Head(buffer[w]) = buffer[w][1] /\ Head(buffer[w]) \in Ids(Row)
      BY <1>1, <2>1
    <2>3. Tail(buffer[w]) = SubSeq(buffer[w], 1 + 1, Len(buffer[w]))
      BY <1>1, <2>1, TailIsSubSeq
    <2>4. Elements(SubSeq(buffer[w], 1, 1)) = {Head(buffer[w])}
      BY <1>1, <2>2, ElementsSplit
    <2>5. Elements(delivered)' = Elements(delivered) \cup {Head(buffer[w])}
      <3>1. Elements(Append(delivered, Head(buffer[w])))
              = Elements(delivered) \cup {Head(buffer[w])}
        BY <1>1, <2>2, ElementsAppend
      <3>2. QED
        BY <2>1, <3>1
    <2>6. buffer' = [buffer EXCEPT ![w] = SubSeq(@, 1 + 1, Len(@))]
      BY <2>1, <2>3
    <2>7. 1 \in 0..Len(buffer[w])
      BY <1>1, <2>2
    <2>8. QED
      BY <2>1, <2>4, <2>5, <2>6, <2>7
  <1>3. CASE ConnectionBreaks(w)
    <2>1. PICK n \in 1..Len(buffer[w]) :
            /\ lost' = lost \cup Elements(SubSeq(buffer[w], 1, n))
            /\ buffer' = [buffer EXCEPT ![w] = SubSeq(@, n + 1, Len(@))]
      BY <1>3 DEF ConnectionBreaks
    <2>2. Elements(delivered)' = Elements(delivered)
      BY <1>3 DEF ConnectionBreaks
    <2>3. n \in 0..Len(buffer[w])
      BY <1>1
    <2>4. Drain(w) => n = 1
      <3>1. ConnectionBreaks(w) => delivered' = delivered
        BY DEF ConnectionBreaks
      <3>2. Drain(w) => delivered' = Append(delivered, Head(buffer[w])) /\ buffer[w] # <<>>
        BY DEF Drain
      <3>3. buffer[w] # <<>> => Head(buffer[w]) \in Ids(Row)
        BY <1>1
      <3>4. \A x \in Ids(Row) : Len(Append(delivered, x)) = Len(delivered) + 1
        BY <1>1
      <3>5. Len(delivered) \in Nat
        BY <1>1
      <3>6. QED
        BY <1>3, <3>1, <3>2, <3>3, <3>4, <3>5
    <2>5. QED
      BY <2>1, <2>2, <2>3, <2>4
  <1>4. CASE CrashWorker(w)
    <2>1. /\ lost' = lost \cup Elements(buffer[w]) /\ delivered' = delivered
          /\ buffer' = [buffer EXCEPT ![w] = <<>>]
      BY <1>4 DEF CrashWorker
    <2>2. SubSeq(buffer[w], Len(buffer[w]) + 1, Len(buffer[w])) = <<>>
      BY <1>1, SubSeqEmpty
    <2>3. SubSeq(buffer[w], 1, Len(buffer[w])) = buffer[w]
      BY <1>1, SubSeqFull
    <2>4. buffer' = [buffer EXCEPT ![w] = SubSeq(@, Len(buffer[w]) + 1, Len(@))]
      BY <2>1, <2>2
    <2>5. ~Drain(w)
      <3>1. Drain(w) => delivered' = Append(delivered, Head(buffer[w])) /\ buffer[w] # <<>>
        BY DEF Drain
      <3>2. buffer[w] # <<>> => Head(buffer[w]) \in Ids(Row)
        BY <1>1
      <3>3. \A x \in Ids(Row) : Len(Append(delivered, x)) = Len(delivered) + 1
        BY <1>1
      <3>4. Len(delivered) \in Nat
        BY <1>1
      <3>5. QED
        BY <2>1, <3>1, <3>2, <3>3, <3>4
    <2>6. Len(buffer[w]) \in 0..Len(buffer[w])
      BY <1>1
    <2>7. QED
      BY <2>1, <2>3, <2>4, <2>5, <2>6
  <1>5. QED
    BY <1>2, <1>3, <1>4

\* The other steps of a worker leave the buffers alone, but for Publish.
LEMMA BuffersMove ==
  ASSUME [PublisherNext]_publisherVars
  PROVE  \/ UNCHANGED <<buffer, delivered, lost>>
         \/ \E w \in Worker : Publish(w)
         \/ \E w \in Worker : Drain(w) \/ ConnectionBreaks(w) \/ CrashWorker(w)
  <1>1. CASE UNCHANGED publisherVars
    BY <1>1 DEF publisherVars, workerVars
  <1>2. CASE RowCommitted
    BY <1>2 DEF RowCommitted, workerVars
  <1>3. ASSUME NEW w \in Worker,
               \/ List(w) \/ Mark(w) \/ CommitBatch(w) \/ Flush(w)
               \/ PublishFails(w) \/ MarkFails(w) \/ CommitBatchFails(w)
        PROVE  UNCHANGED <<buffer, delivered, lost>>
    BY <1>3 DEF List, Mark, CommitBatch, Flush, PublishFails, MarkFails, CommitBatchFails, EndBatch
  <1>4. QED
    BY <1>1, <1>2, <1>3 DEF PublisherNext, WorkerStep, Flushing

\* A row a client hands over, and what was handed over before.
LEMMA PublishHands ==
  ASSUME Shapes, NEW w \in Worker, Publish(w)
  PROVE  \E i \in Current(w) :
           /\ i \in Ids(outbox) /\ i \in todo[w]
           /\ buffer' = [buffer EXCEPT ![w] = Append(@, i)]
           /\ todo' = [todo EXCEPT ![w] = @ \ {i}]
           /\ step' = [step EXCEPT ![w] = IF todo[w] = {i} THEN "mark" ELSE "publish"]
           /\ UNCHANGED <<outbox, published, batch, delivered, lost, failures, drops>>
  BY DEF Publish, Proceed, Current, Shapes

\* Rows that are committed are rows there may be.
LEMMA IdsInRow ==
  ASSUME PublisherTypeOK
  PROVE  Ids(outbox) \subseteq Ids(Row) /\ Ids(Row) \subseteq Nat
  BY RowAssumption DEF PublisherTypeOK, Ids

\* What was handed over stays so.
LEMMA HandedGrows ==
  ASSUME PublisherTypeOK, Shapes, [PublisherNext]_publisherVars
  PROVE  Handed \subseteq Handed'
  <1>1. CASE UNCHANGED <<buffer, delivered, lost>>
    BY <1>1 DEF Handed
  <1>2. ASSUME NEW w \in Worker, Publish(w) PROVE Handed \subseteq Handed'
    <2>1. PICK i \in Ids(Row) : /\ buffer' = [buffer EXCEPT ![w] = Append(@, i)]
                               /\ UNCHANGED <<delivered, lost>>
      BY <1>2, PublishHands, IdsInRow
    <2>2. \A v \in Worker : Elements(buffer[v]) \subseteq Elements(buffer'[v])
      <3>1. Elements(Append(buffer[w], i)) = Elements(buffer[w]) \cup {i}
        BY ElementsAppend DEF Shapes
      <3>2. QED
        BY <2>1, <3>1 DEF Shapes
    <2>3. Elements(delivered)' = Elements(delivered)
      BY <2>1
    <2>4. Elements(buffer[w])' = Elements(buffer'[w])
      OBVIOUS
    <2>5. Handed' = Elements(delivered) \cup lost \cup UNION {Elements(buffer'[v]) : v \in Worker}
      BY <2>1, <2>3 DEF Handed
    <2>6. QED
      BY <2>2, <2>5 DEF Handed
  <1>3. ASSUME NEW w \in Worker, Drain(w) \/ ConnectionBreaks(w) \/ CrashWorker(w)
        PROVE  Handed \subseteq Handed'
    <2>1. PICK k \in 0..Len(buffer[w]) :
             /\ buffer' = [buffer EXCEPT ![w] = SubSeq(@, k + 1, Len(@))]
             /\ Elements(delivered)' \cup lost'
                  = Elements(delivered) \cup lost \cup Elements(SubSeq(buffer[w], 1, k))
      BY <1>3, FrontLeaves
    <2>2. Elements(buffer[w]) = Elements(SubSeq(buffer[w], 1, k)) \cup Elements(buffer'[w])
      BY <2>1, ElementsSplit DEF Shapes
    <2>3. \A v \in Worker \ {w} : buffer'[v] = buffer[v]
      BY <2>1 DEF Shapes
    <2>4. Handed' = Elements(delivered)' \cup lost' \cup UNION {Elements(buffer'[v]) : v \in Worker}
      BY DEF Handed
    <2>5. QED
      BY <2>1, <2>2, <2>3, <2>4 DEF Handed
  <1>4. QED
    BY <1>1, <1>2, <1>3, BuffersMove

\* Only committed rows are handed over.
LEMMA HandedCommitted ==
  ASSUME PublisherTypeOK, Shapes, [PublisherNext]_publisherVars, Ids(outbox) \subseteq Ids(outbox)'
  PROVE  Handed' \subseteq Ids(outbox)'
  <1>1. Handed \subseteq Ids(outbox)'
    BY DEF PublisherTypeOK, Handed
  <1>2. CASE UNCHANGED <<buffer, delivered, lost>>
    BY <1>1, <1>2 DEF Handed
  <1>3. ASSUME NEW w \in Worker, Publish(w) PROVE Handed' \subseteq Ids(outbox)'
    <2>1. PICK i \in Ids(outbox) : /\ buffer' = [buffer EXCEPT ![w] = Append(@, i)]
                                  /\ UNCHANGED <<delivered, lost>>
      BY <1>3, PublishHands
    <2>2. Elements(Append(buffer[w], i)) = Elements(buffer[w]) \cup {i}
      BY <2>1, IdsInRow, ElementsAppend DEF Shapes
    <2>3. \A v \in Worker : Elements(buffer'[v]) \subseteq Elements(buffer[v]) \cup {i}
      BY <2>1, <2>2 DEF Shapes
    <2>4. Handed' = Elements(delivered) \cup lost \cup UNION {Elements(buffer'[v]) : v \in Worker}
      BY <2>1 DEF Handed
    <2>5. Handed' \subseteq Handed \cup {i}
      BY <2>3, <2>4 DEF Handed
    <2>6. QED
      BY <1>1, <2>1, <2>5
  <1>4. ASSUME NEW w \in Worker, Drain(w) \/ ConnectionBreaks(w) \/ CrashWorker(w)
        PROVE  Handed' \subseteq Ids(outbox)'
    <2>1. PICK k \in 0..Len(buffer[w]) :
             /\ buffer' = [buffer EXCEPT ![w] = SubSeq(@, k + 1, Len(@))]
             /\ Elements(delivered)' \cup lost'
                  = Elements(delivered) \cup lost \cup Elements(SubSeq(buffer[w], 1, k))
      BY <1>4, FrontLeaves
    <2>2. Elements(buffer[w]) = Elements(SubSeq(buffer[w], 1, k)) \cup Elements(buffer'[w])
      BY <2>1, ElementsSplit DEF Shapes
    <2>3. \A v \in Worker \ {w} : buffer'[v] = buffer[v]
      BY <2>1 DEF Shapes
    <2>4. Handed' = Elements(delivered)' \cup lost' \cup UNION {Elements(buffer'[v]) : v \in Worker}
      BY DEF Handed
    <2>5. Handed' \subseteq Handed
      BY <2>1, <2>2, <2>3, <2>4 DEF Handed
    <2>6. QED
      BY <1>1, <2>5
  <1>5. QED
    BY <1>2, <1>3, <1>4, BuffersMove

\* The rows only become more.
LEMMA RowsStay ==
  ASSUME [PublisherNext]_publisherVars, PublisherTypeOK
  PROVE  /\ outbox \subseteq outbox' /\ outbox' \subseteq Row
         /\ Ids(outbox) \subseteq Ids(outbox)'
         /\ WorkerStep => outbox' = outbox
  <1>1. WorkerStep => outbox' = outbox
    BY DEF WorkerStep, Flushing, List, Publish, Mark, CommitBatch, Flush, Drain, PublishFails,
           MarkFails, CommitBatchFails, EndBatch, ConnectionBreaks, CrashWorker
  <1>2. outbox \subseteq outbox' /\ outbox' \subseteq Row
    BY <1>1 DEF PublisherNext, RowCommitted, publisherVars, PublisherTypeOK
  <1>3. QED
    BY <1>1, <1>2 DEF Ids

----------------------------------------------------------------------------
\* The invariant

\* The invariant holds of the initial state.
LEMMA InitInv == PublisherInit => Inv
  <1> SUFFICES ASSUME PublisherInit PROVE Inv
    OBVIOUS
  <1>1. Elements(<<>>) = {}
    BY DEF Elements
  <1>2. PublisherTypeOK
    BY <1>1, BoundAssumption DEF PublisherInit, WorkersInit, PublisherTypeOK, Ids
  <1>3. Shapes
    BY DEF PublisherInit, WorkersInit, Shapes
  <1>4. ExclusiveBatches /\ MarkedWasHandedOver
    BY DEF PublisherInit, WorkersInit, ExclusiveBatches, MarkedWasHandedOver
  <1>5. BatchInStep
    BY DEF PublisherInit, WorkersInit, BatchInStep
  <1>6. \A i : Deliveries(i) = {} /\ Buffered(i) = {}
    BY DEF PublisherInit, WorkersInit, Deliveries, Places, Buffered
  <1>7. CopiesBounded
    <2>1. failures = 0
      BY DEF PublisherInit, WorkersInit
    <2>2. QED
      BY <1>6, <2>1, FS_EmptySet DEF CopiesBounded
  <1>8. QED
    BY <1>2, <1>3, <1>4, <1>5, <1>7 DEF Inv

\* Sequences keep their shape, and so do batches.
LEMMA ShapesStep ==
  ASSUME PublisherTypeOK, Shapes, [PublisherNext]_publisherVars
  PROVE  Shapes'
  <1>1. todo' \in [Worker -> SUBSET Ids(outbox)']
    <2>1. \A w \in Worker : FirstIds(Unpublished, BatchLimit) \subseteq Ids(outbox)
      BY DEF FirstIds, Unpublished
    <2>2. todo' \in [Worker -> SUBSET Ids(outbox)]
      <3>1. CASE UNCHANGED todo
        BY <3>1 DEF Shapes
      <3>2. ASSUME NEW w \in Worker, List(w) PROVE todo' \in [Worker -> SUBSET Ids(outbox)]
        BY <2>1, <3>2 DEF List, Shapes
      <3>3. ASSUME NEW w \in Worker, Publish(w) PROVE todo' \in [Worker -> SUBSET Ids(outbox)]
        <4>1. PICK i : todo' = [todo EXCEPT ![w] = @ \ {i}]
          BY <3>3, PublishHands
        <4>2. QED
          BY <4>1 DEF Shapes
      <3>4. ASSUME NEW w \in Worker, RollbackBatch(w)
            PROVE  todo' \in [Worker -> SUBSET Ids(outbox)]
        BY <3>4 DEF RollbackBatch, Shapes
      <3>5. QED
        BY <3>1, <3>2, <3>3, <3>4
        DEF PublisherNext, WorkerStep, Flushing, Mark, CommitBatch, Flush, Drain, PublishFails,
            PublishError, MarkFails, CommitBatchFails, EndBatch, ConnectionBreaks, CrashWorker,
            RowCommitted, publisherVars, workerVars
    <2>3. QED
      BY <2>2, RowsStay
  <1>2. buffer' \in [Worker -> Seq(Ids(Row))]
    <2>1. ASSUME NEW w \in Worker, Publish(w) PROVE buffer' \in [Worker -> Seq(Ids(Row))]
      <3>1. PICK i \in Ids(Row) : buffer' = [buffer EXCEPT ![w] = Append(@, i)]
        BY <2>1, PublishHands, IdsInRow
      <3>2. QED
        BY <3>1 DEF Shapes
    <2>2. ASSUME NEW w \in Worker, Drain(w) \/ ConnectionBreaks(w) \/ CrashWorker(w)
          PROVE  buffer' \in [Worker -> Seq(Ids(Row))]
      <3>1. PICK k \in 0..Len(buffer[w]) :
               buffer' = [buffer EXCEPT ![w] = SubSeq(@, k + 1, Len(@))]
        BY <2>2, FrontLeaves
      <3>2. SubSeq(buffer[w], k + 1, Len(buffer[w])) \in Seq(Ids(Row))
        BY ElementsSplit DEF Shapes
      <3>3. QED
        BY <3>1, <3>2 DEF Shapes
    <2>3. QED
      BY <2>1, <2>2, BuffersMove DEF Shapes
  <1>3. delivered' \in Seq(Ids(Row))
    <2>1. ASSUME NEW w \in Worker, Drain(w) PROVE delivered' \in Seq(Ids(Row))
      <3>1. buffer[w] \in Seq(Ids(Row)) /\ buffer[w] # <<>> /\ delivered \in Seq(Ids(Row))
        BY <2>1 DEF Drain, Shapes
      <3>2. Head(buffer[w]) \in Ids(Row)
        BY <3>1
      <3>3. QED
        BY <2>1, <3>1, <3>2 DEF Drain
    <2>2. ASSUME NEW w \in Worker, Publish(w) \/ ConnectionBreaks(w) \/ CrashWorker(w)
          PROVE  delivered' = delivered
      BY <2>2 DEF Publish, ConnectionBreaks, CrashWorker
    <2>3. QED
      BY <2>1, <2>2, BuffersMove DEF Shapes
  <1>4. QED
    BY <1>1, <1>2, <1>3 DEF Shapes

\* Every variable stays in its domain.
LEMMA TypesStep ==
  ASSUME PublisherTypeOK, Shapes, BatchInStep, [PublisherNext]_publisherVars
  PROVE  PublisherTypeOK'
  <1>1. /\ Handed' \subseteq Ids(outbox)' /\ outbox' \subseteq Row
        /\ Ids(outbox) \subseteq Ids(outbox)'
    BY RowsStay, HandedCommitted
  <1> DEFINE InDomain ==
           /\ published' \subseteq Ids(outbox)
           /\ step' \in [Worker -> {"idle", "publish", "mark", "commit", "flush"}]
           /\ batch' \in [Worker -> SUBSET Ids(outbox)]
           /\ \A v \in Worker : todo'[v] \subseteq batch'[v]
           /\ failures' \in 0..MaxFailures
           /\ drops' \in 0..MaxDrops
  <1>2. InDomain
    <2> USE BoundAssumption DEF PublisherTypeOK, Shapes, Proceed, Fail
    <2>1. CASE UNCHANGED workerVars
      BY <2>1 DEF workerVars
    <2>2. ASSUME NEW w \in Worker, List(w) PROVE InDomain
      <3>1. FirstIds(Unpublished, BatchLimit) \subseteq Ids(outbox)
        BY DEF FirstIds, Unpublished
      <3>2. QED
        BY <2>2, <3>1 DEF List
    <2>3. ASSUME NEW w \in Worker, Publish(w) PROVE InDomain
      <3>1. PICK i :
              /\ todo' = [todo EXCEPT ![w] = @ \ {i}]
              /\ step' = [step EXCEPT ![w] = IF todo[w] = {i} THEN "mark" ELSE "publish"]
              /\ UNCHANGED <<published, batch, failures, drops>>
        BY <2>3, PublishHands
      <3>2. QED
        BY <3>1
    <2>4. ASSUME NEW w \in Worker, RollbackBatch(w), Fail, UNCHANGED <<published, drops>>
          PROVE  InDomain
      BY <2>4 DEF RollbackBatch
    <2>5. ASSUME NEW w \in Worker, Mark(w) \/ Flush(w) \/ Drain(w) PROVE InDomain
      BY <2>5 DEF Mark, Flush, Drain
    <2>6. ASSUME NEW w \in Worker, CommitBatch(w) \/ CommitBatchFails(w) PROVE InDomain
      <3>1. todo[w] = {}
        BY <2>6 DEF CommitBatch, CommitBatchFails, BatchInStep
      <3>2. CASE CommitBatch(w)
        BY <3>1, <3>2 DEF CommitBatch, EndBatch
      <3>3. CASE CommitBatchFails(w)
        BY <3>1, <3>3 DEF CommitBatchFails, EndBatch
      <3>4. QED
        BY <2>6, <3>2, <3>3
    <2>7. ASSUME NEW w \in Worker, ConnectionBreaks(w) PROVE InDomain
      BY <2>7 DEF ConnectionBreaks
    <2>8. QED
      BY <2>1, <2>2, <2>3, <2>4, <2>5, <2>6, <2>7
      DEF PublisherNext, WorkerStep, Flushing, PublishFails, PublishError, MarkFails, CrashWorker,
          RowCommitted, publisherVars
  <1>3. batch' \in [Worker -> SUBSET Ids(outbox)']
    BY <1>1, <1>2
  <1>4. /\ \A w \in Worker : Elements(buffer[w])' \subseteq Ids(outbox)'
        /\ Elements(delivered)' \cup lost' \subseteq Ids(outbox)'
    BY <1>1 DEF Handed
  <1>5. QED
    BY <1>1, <1>2, <1>3, <1>4 DEF PublisherTypeOK

\* Batches stay apart.
LEMMA ExclusiveStep ==
  ASSUME PublisherTypeOK, ExclusiveBatches, [PublisherNext]_publisherVars
  PROVE  ExclusiveBatches'
  <1>1. CASE UNCHANGED <<batch, published>>
    BY <1>1 DEF ExclusiveBatches
  <1>2. ASSUME NEW w \in Worker, List(w) PROVE ExclusiveBatches'
    <2>1. PICK ids \in SUBSET Unpublished :
            batch' = [batch EXCEPT ![w] = ids] /\ published' = published
      BY <1>2 DEF List, FirstIds
    <2>2. \A v \in Worker : ids \cap batch[v] = {}
      BY DEF Unpublished, Locked
    <2>3. ids \cap published = {}
      BY DEF Unpublished
    <2>4. QED
      BY <2>1, <2>2, <2>3 DEF ExclusiveBatches, PublisherTypeOK
  <1>3. ASSUME NEW w \in Worker, RollbackBatch(w), UNCHANGED published PROVE ExclusiveBatches'
    BY <1>3 DEF RollbackBatch, ExclusiveBatches, PublisherTypeOK
  <1>4. ASSUME NEW w \in Worker, CommitBatch(w) \/ CommitBatchFails(w) PROVE ExclusiveBatches'
    <2>1. /\ batch' = [batch EXCEPT ![w] = {}]
          /\ published' \subseteq published \cup batch[w]
      BY <1>4 DEF CommitBatch, CommitBatchFails, EndBatch
    <2>2. QED
      BY <2>1 DEF ExclusiveBatches, PublisherTypeOK
  <1>5. QED
    BY <1>1, <1>2, <1>3, <1>4
    DEF PublisherNext, WorkerStep, Flushing, Publish, Mark, Flush, Drain, PublishFails,
        PublishError, MarkFails, ConnectionBreaks, CrashWorker, RowCommitted, publisherVars, workerVars

\* Whatever is marked was handed over, and so is the part of a batch that is done.
LEMMA HandedStep ==
  ASSUME PublisherTypeOK, Shapes, BatchInStep, MarkedWasHandedOver, [PublisherNext]_publisherVars
  PROVE  MarkedWasHandedOver' /\ BatchInStep'
  <1>1. Handed \subseteq Handed'
    BY HandedGrows
  <1>2. published \subseteq Handed
    BY DEF MarkedWasHandedOver, Handed
  <1>3. published' \subseteq Handed' /\ BatchInStep'
    <2> USE <1>1, <1>2 DEF BatchInStep, PublisherTypeOK, Shapes, Proceed
    <2>1. CASE UNCHANGED workerVars
      <3>1. Handed' = Handed
        BY <2>1 DEF workerVars, Handed
      <3>2. QED
        BY <2>1, <3>1 DEF workerVars
    <2>2. ASSUME NEW w \in Worker, List(w) PROVE published' \subseteq Handed' /\ BatchInStep'
      BY <2>2 DEF List
    <2>3. ASSUME NEW w \in Worker, Publish(w) PROVE published' \subseteq Handed' /\ BatchInStep'
      <3>1. PICK i \in Ids(Row) :
              /\ todo' = [todo EXCEPT ![w] = @ \ {i}]
              /\ step' = [step EXCEPT ![w] = IF todo[w] = {i} THEN "mark" ELSE "publish"]
              /\ buffer' = [buffer EXCEPT ![w] = Append(@, i)]
              /\ UNCHANGED <<published, batch>>
        BY <2>3, PublishHands, IdsInRow
      <3>2. step[w] = "publish"
        BY <2>3 DEF Publish
      <3>3. i \in Handed'
        <4>1. Elements(Append(buffer[w], i)) = Elements(buffer[w]) \cup {i}
          BY ElementsAppend
        <4>2. i \in Elements(buffer'[w])
          BY <3>1, <4>1
        <4>3. Handed' = Elements(delivered)' \cup lost' \cup UNION {Elements(buffer'[v]) : v \in Worker}
          BY DEF Handed
        <4>4. QED
          BY <4>2, <4>3
      <3>4. \A v \in Worker \ {w} : todo'[v] = todo[v] /\ step'[v] = step[v]
        BY <3>1
      <3>5. todo'[w] = todo[w] \ {i} /\ step'[w] = (IF todo[w] = {i} THEN "mark" ELSE "publish")
        BY <3>1
      <3>6. QED
        BY <3>1, <3>2, <3>3, <3>4, <3>5
    <2>4. ASSUME NEW w \in Worker, RollbackBatch(w), UNCHANGED published
          PROVE  published' \subseteq Handed' /\ BatchInStep'
      BY <2>4 DEF RollbackBatch
    <2>5. ASSUME NEW w \in Worker, Mark(w) \/ Flush(w) \/ Drain(w) \/ ConnectionBreaks(w)
          PROVE  published' \subseteq Handed' /\ BatchInStep'
      BY <2>5 DEF Mark, Flush, Drain, ConnectionBreaks
    <2>6. ASSUME NEW w \in Worker, CommitBatch(w) \/ CommitBatchFails(w)
          PROVE  published' \subseteq Handed' /\ BatchInStep'
      <3>1. /\ batch' = [batch EXCEPT ![w] = {}] /\ step' = [step EXCEPT ![w] = "flush"]
            /\ published' \subseteq published \cup batch[w] /\ todo' = todo /\ step[w] = "commit"
        BY <2>6 DEF CommitBatch, CommitBatchFails, EndBatch
      <3>2. batch[w] \subseteq Handed
        BY <3>1
      <3>3. QED
        BY <3>1, <3>2
    <2>7. QED
      BY <2>1, <2>2, <2>3, <2>4, <2>5, <2>6
      DEF PublisherNext, WorkerStep, Flushing, PublishFails, PublishError, MarkFails, CrashWorker,
          RowCommitted, publisherVars
  <1>4. QED
    BY <1>3 DEF MarkedWasHandedOver, Handed

\* A row is in hand no more often than it may be.
LEMMA CopiesStep ==
  ASSUME PublisherTypeOK, PublisherTypeOK', Shapes, ExclusiveBatches, BatchInStep, CopiesBounded,
         [PublisherNext]_publisherVars
  PROVE  CopiesBounded'
  <1> SUFFICES ASSUME NEW i \in Ids(Row)
               PROVE  /\ IsFiniteSet(Deliveries(i)') /\ IsFiniteSet(Buffered(i)')
                      /\ Cardinality(Deliveries(i)') + Cardinality(Buffered(i)')
                           <= failures' + (IF Done(i)' THEN 1 ELSE 0)
    BY DEF CopiesBounded
  <1> DEFINE d == Cardinality(Deliveries(i))
             b == Cardinality(Buffered(i))
             Goal == /\ IsFiniteSet(Deliveries(i)') /\ IsFiniteSet(Buffered(i)')
                     /\ Cardinality(Deliveries(i)') + Cardinality(Buffered(i)')
                           <= failures' + (IF Done(i)' THEN 1 ELSE 0)
  <1>1. /\ IsFiniteSet(Deliveries(i)) /\ IsFiniteSet(Buffered(i))
        /\ d \in Nat /\ b \in Nat /\ failures \in Nat /\ failures' \in Nat
        /\ d + b <= failures + (IF Done(i) THEN 1 ELSE 0)
    BY FS_CardinalityType, BoundAssumption DEF CopiesBounded, PublisherTypeOK
  <1>2. Done(i)' <=> i \in published' \/ \E w \in Worker : i \in batch'[w] \ todo'[w]
    BY DEF Done
  <1>3. ASSUME UNCHANGED <<buffer, delivered>>,
               Done(i) => Done(i)' \/ failures' = failures + 1, failures' >= failures
        PROVE  Goal
    <2>1. Deliveries(i)' = Deliveries(i) /\ Buffered(i)' = Buffered(i)
      BY <1>3 DEF Deliveries, Buffered
    <2> HIDE DEF Done
    <2>2. QED
      BY <1>1, <1>3, <2>1
  <1>4. CASE UNCHANGED workerVars
    <2>1. Done(i)' <=> Done(i)
      BY <1>2, <1>4 DEF workerVars, Done
    <2>2. QED
      BY <1>1, <1>3, <1>4, <2>1 DEF workerVars
  <1>5. ASSUME NEW w \in Worker, List(w) PROVE Goal
    <2>1. Done(i) => Done(i)'
      BY <1>2, <1>5 DEF List, Done, BatchInStep, PublisherTypeOK, Shapes
    <2>2. UNCHANGED <<buffer, delivered, failures>>
      BY <1>5 DEF List
    <2>3. QED
      BY <1>1, <1>3, <2>1, <2>2
  <1>6. ASSUME NEW w \in Worker, Publish(w) PROVE Goal
    <2>1. PICK x \in Ids(Row) :
            /\ x \in todo[w]
            /\ buffer' = [buffer EXCEPT ![w] = Append(@, x)]
            /\ todo' = [todo EXCEPT ![w] = @ \ {x}]
            /\ UNCHANGED <<published, batch, delivered, failures>>
      BY <1>6, PublishHands, IdsInRow
    <2>2. /\ IsFiniteSet(Buffered(i)')
          /\ Cardinality(Buffered(i)') = b + (IF x = i THEN 1 ELSE 0)
      BY <1>1, <2>1, BufferedAppend, ZenonT(60) DEF Shapes
    <2>3. Deliveries(i)' = Deliveries(i)
      BY <2>1 DEF Deliveries
    <2>4. CASE x = i
      <3>1. ~Done(i)
        BY <2>1, <2>4 DEF Done, ExclusiveBatches, PublisherTypeOK
      <3>2. Done(i)'
        BY <1>2, <2>1, <2>4 DEF PublisherTypeOK, Shapes
      <3>3. QED
        BY <1>1, <2>1, <2>2, <2>3, <2>4, <3>1, <3>2
    <2>5. CASE x # i
      <3>1. Done(i) => Done(i)'
        BY <1>2, <2>1, <2>5 DEF Done, Shapes
      <3>2. QED
        BY <1>1, <2>1, <2>2, <2>3, <2>5, <3>1
    <2>6. QED
      BY <2>4, <2>5
  <1>7. ASSUME NEW w \in Worker, PublishFails(w) \/ MarkFails(w) \/ CommitBatchFails(w) PROVE Goal
    BY <1>1, <1>3, <1>7 DEF PublishFails, MarkFails, CommitBatchFails, Fail, EndBatch
  <1>8. ASSUME NEW w \in Worker, Mark(w) \/ Flush(w) PROVE Goal
    <2>1. Done(i) => Done(i)'
      BY <1>2, <1>8 DEF Mark, Flush, Done
    <2>2. UNCHANGED <<buffer, delivered, failures>>
      BY <1>8 DEF Mark, Flush
    <2>3. QED
      BY <1>1, <1>3, <2>1, <2>2
  <1>9. ASSUME NEW w \in Worker, CommitBatch(w) PROVE Goal
    <2>1. Done(i) => Done(i)'
      BY <1>2, <1>9 DEF CommitBatch, EndBatch, Done, PublisherTypeOK
    <2>2. UNCHANGED <<buffer, delivered, failures>>
      BY <1>9 DEF CommitBatch, EndBatch
    <2>3. QED
      BY <1>1, <1>3, <2>1, <2>2
  <1>10. ASSUME NEW w \in Worker, Drain(w) \/ ConnectionBreaks(w) \/ CrashWorker(w) PROVE Goal
    <2>1. PICK k \in 0..Len(buffer[w]) :
             /\ buffer' = [buffer EXCEPT ![w] = SubSeq(@, k + 1, Len(@))]
             /\ Drain(w) => k = 1
      BY <1>10, FrontLeaves
    <2> DEFINE front == {z \in Buffered(i) : \E n \in 1..k : z = <<w, n>>}
    <2>2. /\ IsFiniteSet(Buffered(i)')
          /\ Cardinality(Buffered(i)') = Cardinality(Buffered(i) \ front)
      BY <1>1, <2>1, BufferedShift DEF Shapes
    <2>3. Cardinality(Buffered(i) \ front) \in Nat /\ Cardinality(Buffered(i) \ front) <= b
      <3>1. Buffered(i) \ front \in SUBSET Buffered(i)
        OBVIOUS
      <3> HIDE DEF front
      <3>2. QED
        BY <1>1, <3>1, FS_Subset, FS_CardinalityType
    <2>4. CASE Drain(w)
      <3>1. /\ delivered' = Append(delivered, Head(buffer[w])) /\ buffer[w] # <<>>
            /\ UNCHANGED <<published, batch, todo, failures>>
        BY <2>4 DEF Drain
      <3>2. /\ Head(buffer[w]) = buffer[w][1] /\ Head(buffer[w]) \in Ids(Row)
            /\ 1 \in DOMAIN buffer[w] /\ delivered \in Seq(Ids(Row))
        BY <3>1 DEF Shapes
      <3>3. /\ IsFiniteSet(Deliveries(i)')
            /\ Cardinality(Deliveries(i)') = d + (IF Head(buffer[w]) = i THEN 1 ELSE 0)
        BY <1>1, <3>1, <3>2, DeliveriesAppend DEF Deliveries
      <3>4. Done(i)' <=> Done(i)
        BY <1>2, <3>1 DEF Done
      <3>5. CASE Head(buffer[w]) = i
        <4>1. <<w, 1>> \in Buffered(i)
          BY <3>2, <3>5, BufferedPlaces
        <4>2. Buffered(i) \ front = Buffered(i) \ {<<w, 1>>}
          BY <2>1, <2>4, <4>1
        <4>3. Cardinality(Buffered(i) \ {<<w, 1>>}) = b - 1
          BY <1>1, <4>1, FS_RemoveElement
        <4>4. QED
          <5>1. Cardinality(Buffered(i)') = b - 1
            BY <2>2, <4>2, <4>3
          <5>2. Cardinality(Deliveries(i)') = d + 1
            BY <3>3, <3>5
          <5>3. failures' = failures
            BY <3>1
          <5> HIDE DEF front
          <5>4. QED
            BY <1>1, <2>2, <3>3, <3>4, <5>1, <5>2, <5>3
      <3>6. CASE Head(buffer[w]) # i
        BY <1>1, <2>2, <2>3, <3>1, <3>3, <3>4, <3>6
      <3>7. QED
        BY <3>5, <3>6
    <2>5. CASE ConnectionBreaks(w)
      <3>1. UNCHANGED <<published, batch, todo, delivered, failures>>
        BY <2>5 DEF ConnectionBreaks
      <3>2. Done(i)' <=> Done(i)
        BY <1>2, <3>1 DEF Done
      <3>3. Deliveries(i)' = Deliveries(i)
        BY <3>1 DEF Deliveries
      <3>4. QED
        BY <1>1, <2>2, <2>3, <3>1, <3>2, <3>3
    <2>6. CASE CrashWorker(w)
      <3>1. delivered' = delivered /\ failures' = failures + 1
        BY <2>6 DEF CrashWorker, Fail
      <3>2. Deliveries(i)' = Deliveries(i)
        BY <3>1 DEF Deliveries
      <3>3. QED
        BY <1>1, <2>2, <2>3, <3>1, <3>2
    <2>7. QED
      BY <1>10, <2>4, <2>5, <2>6
  <1>11. QED
    BY <1>4, <1>5, <1>6, <1>7, <1>8, <1>9, <1>10
    DEF PublisherNext, WorkerStep, Flushing, RowCommitted, publisherVars

\* Every step keeps the invariant.
LEMMA NextInv == Inv /\ [PublisherNext]_publisherVars => Inv'
  <1> SUFFICES ASSUME Inv, [PublisherNext]_publisherVars PROVE Inv'
    OBVIOUS
  <1>1. Shapes'
    BY ShapesStep DEF Inv
  <1>2. PublisherTypeOK'
    BY TypesStep DEF Inv
  <1>3. ExclusiveBatches'
    BY ExclusiveStep DEF Inv
  <1>4. MarkedWasHandedOver' /\ BatchInStep'
    BY HandedStep DEF Inv
  <1>5. CopiesBounded'
    BY <1>2, CopiesStep DEF Inv
  <1>6. QED
    BY <1>1, <1>2, <1>3, <1>4, <1>5 DEF Inv

\* The invariant holds in every reachable state.
THEOREM PublisherInvariant == PublisherSpec => []Inv
  BY InitInv, NextInv, PTL DEF PublisherSpec

\* Every variable of the publisher stays in its domain.
THEOREM PublisherTypes == PublisherSpec => []PublisherTypeOK
  <1>1. Inv => PublisherTypeOK
    BY DEF Inv
  <1>2. QED
    BY <1>1, PublisherInvariant, PTL

\* No row is in the hands of two workers, nor in those of one when it is done.
THEOREM BatchesAreExclusive == PublisherSpec => []ExclusiveBatches
  <1>1. Inv => ExclusiveBatches
    BY DEF Inv
  <1>2. QED
    BY <1>1, PublisherInvariant, PTL

\* A row is marked published only after the NATS client took it.
THEOREM NothingMarkedUnsent == PublisherSpec => []MarkedWasHandedOver
  <1>1. Inv => MarkedWasHandedOver
    BY DEF Inv
  <1>2. QED
    BY <1>1, PublisherInvariant, PTL

\* No event is delivered more often than once and once more for every failure.
THEOREM DuplicatesAreFailures == PublisherSpec => []DuplicatesNeedFailures
  <1>1. ASSUME Inv, NEW i \in Ids(outbox)
        PROVE  Cardinality({n \in DOMAIN delivered : delivered[n] = i}) <= 1 + failures
    <2>1. i \in Ids(Row)
      BY <1>1, IdsInRow DEF Inv
    <2>2. /\ IsFiniteSet(Deliveries(i)) /\ IsFiniteSet(Buffered(i))
          /\ Cardinality(Deliveries(i)) + Cardinality(Buffered(i))
               <= failures + (IF Done(i) THEN 1 ELSE 0)
      BY <1>1, <2>1 DEF Inv, CopiesBounded
    <2>3. Cardinality(Deliveries(i)) \in Nat /\ Cardinality(Buffered(i)) \in Nat
      BY <2>2, FS_CardinalityType
    <2>4. failures \in Nat
      BY <1>1, BoundAssumption DEF Inv, PublisherTypeOK
    <2>5. Cardinality(Deliveries(i)) <= 1 + failures
      BY <2>2, <2>3, <2>4
    <2>6. QED
      BY <2>5 DEF Deliveries, Places
  <1>2. Inv => DuplicatesNeedFailures
    BY <1>1 DEF DuplicatesNeedFailures
  <1>3. QED
    BY <1>2, PublisherInvariant, PTL

----------------------------------------------------------------------------
\* The publisher implements EventBus

\* How often row i is on its way, as the bus sees it.
InFlight == [i \in Ids(Row) |-> Cardinality(Buffered(i))]

\* What the bus counts as handed over is what NATS clients took.
LEMMA BusHandedOver ==
  ASSUME Inv, NEW i \in Handed
  PROVE  Bus!HandedOver(i)
  <1>1. i \in Ids(Row)
    BY IdsInRow DEF Inv, PublisherTypeOK, Handed
  <1>2. CASE i \in Elements(delivered)
    BY <1>2 DEF Bus!HandedOver, Elements
  <1>3. CASE i \in lost
    BY <1>3 DEF Bus!HandedOver
  <1>4. ASSUME NEW w \in Worker, i \in Elements(buffer[w])
        PROVE  Bus!HandedOver(i)
    <2>1. Buffered(i) # {}
      BY <1>4, BufferedPlaces DEF Elements
    <2>2. IsFiniteSet(Buffered(i))
      BY <1>1 DEF Inv, CopiesBounded
    <2>3. Cardinality(Buffered(i)) \in Nat /\ Cardinality(Buffered(i)) # 0
      BY <2>1, <2>2, FS_CardinalityType, FS_EmptySet
    <2>4. [j \in Ids(Row) |-> Cardinality(Buffered(j))][i] > 0
      BY <1>1, <2>3
    <2>5. QED
      BY <2>4 DEF Bus!HandedOver
  <1>5. QED
    BY <1>2, <1>3, <1>4 DEF Handed

\* Steps that hand over, deliver and lose nothing.
LEMMA BusStill ==
  ASSUME UNCHANGED buffer
  PROVE  InFlight' = InFlight
  BY DEF InFlight, Buffered

\* nc.Publish hands one row over.
LEMMA PublishIsHandOver ==
  ASSUME Inv, NEW w \in Worker, Publish(w)
  PROVE  Bus!HandOver
  <1>1. PICK x \in Ids(outbox) :
          /\ x \in todo[w]
          /\ buffer' = [buffer EXCEPT ![w] = Append(@, x)]
          /\ UNCHANGED <<outbox, published, batch, delivered, lost>>
    BY PublishHands DEF Inv
  <1>2. x \in Ids(Row)
    BY IdsInRow DEF Inv
  <1>3. x \notin published
    BY <1>1 DEF Inv, PublisherTypeOK, ExclusiveBatches
  <1>4. \A i \in Ids(Row) :
          Cardinality(Buffered(i)') = Cardinality(Buffered(i)) + (IF x = i THEN 1 ELSE 0)
    <2>1. buffer \in [Worker -> Seq(Ids(Row))] /\ \A i \in Ids(Row) : IsFiniteSet(Buffered(i))
      BY DEF Inv, Shapes, CopiesBounded
    <2>2. QED
      BY <1>1, <1>2, <2>1, BufferedAppend, ZenonT(60)
  <1>5. \A i \in Ids(Row) : Cardinality(Buffered(i)) \in Nat
    BY FS_CardinalityType DEF Inv, CopiesBounded
  <1>6. InFlight' = [InFlight EXCEPT ![x] = @ + 1]
    <2>1. InFlight' = [i \in Ids(Row) |-> Cardinality(Buffered(i)')]
      BY DEF InFlight
    <2>2. [InFlight EXCEPT ![x] = @ + 1]
            = [i \in Ids(Row) |-> IF i = x THEN InFlight[x] + 1 ELSE InFlight[i]]
      BY DEF InFlight
    <2>3. ASSUME NEW i \in Ids(Row)
          PROVE  Cardinality(Buffered(i)') = IF i = x THEN InFlight[x] + 1 ELSE InFlight[i]
      BY <1>2, <1>4, <1>5 DEF InFlight
    <2>4. QED
      BY <2>1, <2>2, <2>3
  <1>7. Ids(outbox)' = Ids(outbox)
    BY <1>1
  <1>8. QED
    BY <1>1, <1>3, <1>6, <1>7 DEF Bus!HandOver, InFlight

\* The NATS client's goroutine makes one row arrive.
LEMMA DrainIsArrive ==
  ASSUME Inv, NEW w \in Worker, Drain(w)
  PROVE  Bus!Arrive
  <1> DEFINE x == Head(buffer[w])
  <1>1. /\ buffer \in [Worker -> Seq(Ids(Row))] /\ buffer[w] # <<>>
        /\ delivered' = Append(delivered, x)
        /\ UNCHANGED <<outbox, published, lost>>
    BY DEF Inv, Shapes, Drain
  <1>2. x = buffer[w][1] /\ x \in Ids(Row) /\ 1 \in DOMAIN buffer[w]
    BY <1>1
  <1>3. PICK k \in 0..Len(buffer[w]) :
           k = 1 /\ buffer' = [buffer EXCEPT ![w] = SubSeq(@, k + 1, Len(@))]
    BY FrontLeaves DEF Inv
  <1> HIDE DEF x
  <1>4. ASSUME NEW i \in Ids(Row)
        PROVE  /\ Cardinality(Buffered(i)) \in Nat
               /\ i = x => Cardinality(Buffered(i)) > 0
               /\ Cardinality(Buffered(i)')
                    = (IF i = x THEN Cardinality(Buffered(i)) - 1 ELSE Cardinality(Buffered(i)))
    <2> DEFINE front == {z \in Buffered(i) : \E n \in 1..k : z = <<w, n>>}
    <2>1. IsFiniteSet(Buffered(i)) /\ Cardinality(Buffered(i)) \in Nat
      BY FS_CardinalityType DEF Inv, CopiesBounded
    <2>2. Cardinality(Buffered(i)') = Cardinality(Buffered(i) \ front)
      BY <1>1, <1>3, <2>1, BufferedShift
    <2>3. CASE i = x
      <3>1. <<w, 1>> \in Buffered(i)
        BY <1>2, <2>3, BufferedPlaces
      <3>2. Buffered(i) \ front = Buffered(i) \ {<<w, 1>>}
        BY <1>3
      <3>3. Cardinality(Buffered(i) \ {<<w, 1>>}) = Cardinality(Buffered(i)) - 1
        BY <2>1, <3>1, FS_RemoveElement
      <3>4. Cardinality(Buffered(i)) > 0
        BY <2>1, <3>1, FS_EmptySet
      <3>5. QED
        BY <2>1, <2>2, <2>3, <3>2, <3>3, <3>4
    <2>4. CASE i # x
      <3>1. <<w, 1>> \notin Buffered(i)
        BY <1>2, <2>4, BufferedPlaces
      <3>2. Buffered(i) \ front = Buffered(i)
        BY <1>3, <3>1
      <3>3. QED
        BY <2>1, <2>2, <2>4, <3>2
    <2>5. QED
      BY <2>3, <2>4
  <1>5. InFlight' = [InFlight EXCEPT ![x] = @ - 1]
    <2>1. InFlight' = [i \in Ids(Row) |-> Cardinality(Buffered(i)')]
      BY DEF InFlight
    <2>2. [InFlight EXCEPT ![x] = @ - 1]
            = [i \in Ids(Row) |-> IF i = x THEN InFlight[x] - 1 ELSE InFlight[i]]
      BY DEF InFlight
    <2>3. ASSUME NEW i \in Ids(Row)
          PROVE  Cardinality(Buffered(i)') = IF i = x THEN InFlight[x] - 1 ELSE InFlight[i]
      BY <1>2, <1>4 DEF InFlight
    <2>4. QED
      BY <2>1, <2>2, <2>3
  <1>6. InFlight[x] > 0
    BY <1>2, <1>4 DEF InFlight
  <1>7. Ids(outbox)' = Ids(outbox)
    BY <1>1
  <1>8. QED
    BY <1>1, <1>2, <1>5, <1>6, <1>7 DEF Bus!Arrive, InFlight, x

\* A broken connection or a dead process loses the beginning of a buffer.
LEMMA BreakIsLose ==
  ASSUME Inv, NEW w \in Worker, ConnectionBreaks(w) \/ CrashWorker(w)
  PROVE  Bus!Lose
  <1>1. /\ buffer \in [Worker -> Seq(Ids(Row))]
        /\ UNCHANGED <<outbox, published, delivered>>
    BY DEF Inv, Shapes, ConnectionBreaks, CrashWorker
  <1>2. PICK k \in 0..Len(buffer[w]) :
           /\ buffer' = [buffer EXCEPT ![w] = SubSeq(@, k + 1, Len(@))]
           /\ lost' = lost \cup Elements(SubSeq(buffer[w], 1, k))
    <2>1. CASE ConnectionBreaks(w)
      <3>1. PICK n \in 1..Len(buffer[w]) :
              /\ lost' = lost \cup Elements(SubSeq(buffer[w], 1, n))
              /\ buffer' = [buffer EXCEPT ![w] = SubSeq(@, n + 1, Len(@))]
        BY <2>1 DEF ConnectionBreaks
      <3>2. n \in 0..Len(buffer[w])
        BY <1>1
      <3>3. QED
        BY <3>1, <3>2
    <2>2. CASE CrashWorker(w)
      <3>1. lost' = lost \cup Elements(buffer[w]) /\ buffer' = [buffer EXCEPT ![w] = <<>>]
        BY <2>2 DEF CrashWorker
      <3>2. /\ SubSeq(buffer[w], Len(buffer[w]) + 1, Len(buffer[w])) = <<>>
            /\ SubSeq(buffer[w], 1, Len(buffer[w])) = buffer[w]
        BY <1>1, SubSeqEmpty, SubSeqFull
      <3>3. Len(buffer[w]) \in 0..Len(buffer[w])
        BY <1>1
      <3>4. QED
        BY <3>1, <3>2, <3>3
    <2>3. QED
      BY <2>1, <2>2
  <1> DEFINE F == Elements(SubSeq(buffer[w], 1, k))
  <1>3. F = {buffer[w][n] : n \in 1..k} /\ k \in Nat /\ 1..k \subseteq DOMAIN buffer[w]
    BY <1>1, ElementsSplit
  <1>4. F \subseteq Ids(Row)
    BY <1>1, <1>3
  <1>5. ASSUME NEW i \in Ids(Row)
        PROVE  /\ Cardinality(Buffered(i)') \in Nat /\ Cardinality(Buffered(i)) \in Nat
               /\ Cardinality(Buffered(i)') <= Cardinality(Buffered(i))
               /\ Cardinality(Buffered(i)') < Cardinality(Buffered(i)) <=> i \in F
    <2> DEFINE front == {z \in Buffered(i) : \E n \in 1..k : z = <<w, n>>}
    <2>1. IsFiniteSet(Buffered(i)) /\ Cardinality(Buffered(i)) \in Nat
      BY FS_CardinalityType DEF Inv, CopiesBounded
    <2>2. Cardinality(Buffered(i)') = Cardinality(Buffered(i) \ front)
      BY <1>1, <1>2, <2>1, BufferedShift
    <2>3. front # {} <=> i \in F
      <3>1. ASSUME i \in F PROVE front # {}
        <4>1. PICK n \in 1..k : buffer[w][n] = i
          BY <1>3, <3>1
        <4>2. <<w, n>> \in Buffered(i)
          BY <1>3, <4>1, BufferedPlaces
        <4>3. QED
          BY <4>2
      <3>2. ASSUME front # {} PROVE i \in F
        <4>1. PICK n \in 1..k : <<w, n>> \in Buffered(i)
          BY <3>2
        <4>2. buffer[w][n] = i
          BY <4>1, BufferedPlaces
        <4>3. QED
          BY <1>3, <4>2
      <3>3. QED
        BY <3>1, <3>2
    <2>4. Buffered(i) \ front \in SUBSET Buffered(i) /\ front \subseteq Buffered(i)
      OBVIOUS
    <2> HIDE DEF front, F
    <2>5. /\ Cardinality(Buffered(i) \ front) \in Nat
          /\ Cardinality(Buffered(i) \ front) <= Cardinality(Buffered(i))
          /\ Cardinality(Buffered(i)) = Cardinality(Buffered(i) \ front)
               => Buffered(i) = Buffered(i) \ front
      BY <2>1, <2>4, FS_Subset, FS_CardinalityType
    <2>6. Buffered(i) = Buffered(i) \ front <=> front = {}
      BY <2>4
    <2>7. Cardinality(Buffered(i) \ front) < Cardinality(Buffered(i)) <=> i \in F
      <3>1. CASE i \in F
        <4>1. Buffered(i) # Buffered(i) \ front
          BY <2>3, <2>6, <3>1
        <4>2. Cardinality(Buffered(i)) # Cardinality(Buffered(i) \ front)
          BY <2>5, <4>1
        <4>3. QED
          BY <2>1, <2>5, <3>1, <4>2
      <3>2. CASE i \notin F
        <4>1. Buffered(i) = Buffered(i) \ front
          BY <2>3, <2>6, <3>2
        <4>2. Cardinality(Buffered(i)) = Cardinality(Buffered(i) \ front)
          BY <4>1
        <4>3. QED
          BY <2>1, <2>5, <3>2, <4>2
      <3>3. QED
        BY <3>1, <3>2
    <2>8. QED
      BY <2>1, <2>2, <2>5, <2>7
  <1>6. InFlight' = [i \in Ids(Row) |-> Cardinality(Buffered(i)')]
    BY DEF InFlight
  <1> HIDE DEF F
  <1>7. InFlight' \in [Ids(Row) -> Nat] /\ \A i \in Ids(Row) : InFlight'[i] <= InFlight[i]
    BY <1>5, <1>6 DEF InFlight
  <1>8. F = {i \in Ids(Row) : InFlight'[i] < InFlight[i]}
    <2>1. \A i \in Ids(Row) : InFlight'[i] < InFlight[i] <=> i \in F
      BY <1>5, <1>6 DEF InFlight
    <2>2. QED
      BY <1>4, <2>1
  <1>9. lost' = lost \cup F
    BY <1>2 DEF F
  <1>10. Ids(outbox)' = Ids(outbox)
    BY <1>1
  <1>11. QED
    BY <1>1, <1>7, <1>8, <1>9, <1>10 DEF Bus!Lose, InFlight

\* A commit settles the batch.
LEMMA CommitIsSettle ==
  ASSUME Inv, NEW w \in Worker, CommitBatch(w)
  PROVE  Bus!Settle(batch[w])
  <1>1. /\ published' = published \cup batch[w] /\ step[w] = "commit"
        /\ UNCHANGED <<outbox, buffer, delivered, lost>>
    BY DEF CommitBatch, EndBatch
  <1>2. batch[w] \subseteq Ids(outbox) \ published
    BY DEF Inv, PublisherTypeOK, ExclusiveBatches
  <1>3. batch[w] \subseteq Handed
    BY <1>1 DEF Inv, BatchInStep
  <1>4. \A i \in batch[w] : Bus!HandedOver(i)
    BY <1>3, BusHandedOver
  <1>5. InFlight' = InFlight
    BY <1>1, BusStill
  <1>6. Ids(outbox)' = Ids(outbox)
    BY <1>1
  <1>7. QED
    BY <1>1, <1>2, <1>4, <1>5, <1>6 DEF Bus!Settle, InFlight

\* A row becomes visible.
LEMMA RowIsCommit ==
  ASSUME Inv, RowCommitted
  PROVE  Bus!Commit
  <1>1. PICK r \in Row \ outbox : r.id \notin Ids(outbox) /\ outbox' = outbox \cup {r}
    BY DEF RowCommitted
  <1>2. UNCHANGED <<published, buffer, delivered, lost>>
    BY DEF RowCommitted, workerVars
  <1>3. Ids(outbox)' = Ids(outbox) \cup {r.id} /\ r.id \in Ids(Row)
    BY <1>1 DEF Ids
  <1>4. InFlight' = InFlight
    BY <1>2, BusStill
  <1>5. QED
    BY <1>1, <1>2, <1>3, <1>4 DEF Bus!Commit, InFlight

\* Every step of the publisher is a step of the bus, or leaves it alone.
LEMMA StepOfBus ==
  ASSUME Inv, [PublisherNext]_publisherVars
  PROVE  [Bus!BusNext]_(Bus!busVars)
  <1>1. ASSUME UNCHANGED <<outbox, published, buffer, delivered, lost>>
        PROVE  UNCHANGED Bus!busVars
    <2>1. InFlight' = InFlight
      BY <1>1, BusStill
    <2>2. Ids(outbox)' = Ids(outbox)
      BY <1>1
    <2>3. QED
      BY <1>1, <2>1, <2>2 DEF Bus!busVars, InFlight
  <1>2. CASE UNCHANGED publisherVars
    BY <1>1, <1>2 DEF publisherVars, workerVars
  <1>3. CASE RowCommitted
    BY <1>3, RowIsCommit DEF Bus!BusNext
  <1>4. ASSUME NEW w \in Worker, Publish(w) PROVE Bus!BusNext
    BY <1>4, PublishIsHandOver DEF Bus!BusNext
  <1>5. ASSUME NEW w \in Worker, Drain(w) PROVE Bus!BusNext
    BY <1>5, DrainIsArrive DEF Bus!BusNext
  <1>6. ASSUME NEW w \in Worker, ConnectionBreaks(w) \/ CrashWorker(w) PROVE Bus!BusNext
    BY <1>6, BreakIsLose DEF Bus!BusNext
  <1>7. ASSUME NEW w \in Worker, CommitBatch(w) PROVE Bus!BusNext
    <2>1. batch[w] \in SUBSET Ids(Row)
      BY IdsInRow DEF Inv, PublisherTypeOK
    <2>2. QED
      BY <1>7, <2>1, CommitIsSettle DEF Bus!BusNext
  <1>8. ASSUME NEW w \in Worker,
               \/ List(w) \/ Mark(w) \/ Flush(w)
               \/ PublishFails(w) \/ MarkFails(w) \/ CommitBatchFails(w)
        PROVE  UNCHANGED <<outbox, published, buffer, delivered, lost>>
    BY <1>8 DEF List, Mark, Flush, PublishFails, MarkFails, CommitBatchFails, EndBatch
  <1>9. QED
    BY <1>1, <1>2, <1>3, <1>4, <1>5, <1>6, <1>7, <1>8 DEF PublisherNext, WorkerStep, Flushing

\* However many workers share the rows, and whatever fails, they act as one dispatcher.
THEOREM PublisherIsBus == PublisherSpec => ImplementsBus
  <1>1. PublisherInit => Bus!BusInit
    <2> SUFFICES ASSUME PublisherInit PROVE Bus!BusInit
      OBVIOUS
    <2>1. outbox = {} /\ published = {} /\ delivered = <<>> /\ lost = {}
      BY DEF PublisherInit, WorkersInit
    <2>2. \A i : Buffered(i) = {}
      BY DEF PublisherInit, WorkersInit, Buffered
    <2>3. [i \in Ids(Row) |-> Cardinality(Buffered(i))] = [i \in Ids(Row) |-> 0]
      BY <2>2, FS_EmptySet
    <2>4. QED
      BY <2>1, <2>3 DEF Bus!BusInit, Ids
  <1>2. Inv /\ [PublisherNext]_publisherVars => [Bus!BusNext]_(Bus!busVars)
    BY StepOfBus
  <1>3. QED
    BY <1>1, <1>2, PublisherInvariant, PTL DEF PublisherSpec, ImplementsBus, Bus!BusSpec

----------------------------------------------------------------------------
\* One worker

OneWorker == \A v, w \in Worker : v = w

\* Row r is of an earlier move of the case of row s.
Before(r, s) == r.case = s.case /\ r.id < s.id

\* Row s is not delivered before row r, unless that one was lost.
DeliveredAfter(r, s) ==
  \A n \in DOMAIN delivered : delivered[n] = s.id /\ r.id \notin lost =>
    \E m \in 1..n : delivered[m] = r.id

\* Nor does it come before row r in a buffer.
BufferedAfter(r, s) ==
  \A w \in Worker : \A n \in DOMAIN buffer[w] : buffer[w][n] = s.id /\ r.id \notin lost =>
    \/ \E m \in DOMAIN delivered : delivered[m] = r.id
    \/ \E m \in 1..n : buffer[w][m] = r.id

\* A batch with row s has row r in it, unless that one is published.
ListedWith(r, s) ==
  \A w \in Worker : s.id \in batch[w] => r.id \in batch[w] \cup published

InOrder(r, s) == DeliveredAfter(r, s) /\ BufferedAfter(r, s) /\ ListedWith(r, s)

OrderInv == \A r, s \in outbox : Before(r, s) => InOrder(r, s)

\* A row that was just committed has not left the outbox yet, nor has another to wait for it.
LEMMA NewRowInOrder ==
  ASSUME Inv, OrderInv, RowCommitted
  PROVE  OrderInv'
  <1>1. PICK x \in Row \ outbox :
          /\ x.id \notin Ids(outbox)
          /\ \A s \in outbox : s.case = x.case => s.id < x.id
          /\ outbox' = outbox \cup {x}
          /\ UNCHANGED workerVars
    BY DEF RowCommitted
  <1>2. UNCHANGED <<published, batch, buffer, delivered, lost>>
    BY <1>1 DEF workerVars
  <1>3. ASSUME NEW r, NEW s, InOrder(r, s) PROVE InOrder(r, s)'
    BY <1>2, <1>3 DEF InOrder, DeliveredAfter, BufferedAfter, ListedWith
  <1>4. ASSUME NEW r PROVE InOrder(r, x)
    <2>1. /\ \A n \in DOMAIN delivered : delivered[n] # x.id
          /\ \A w \in Worker : \A n \in DOMAIN buffer[w] : buffer[w][n] # x.id
          /\ \A w \in Worker : x.id \notin batch[w]
      BY <1>1 DEF Inv, PublisherTypeOK, Elements
    <2>2. QED
      BY <2>1 DEF InOrder, DeliveredAfter, BufferedAfter, ListedWith
  <1>5. ASSUME NEW s \in outbox, Before(x, s) PROVE FALSE
    <2>1. x.id \in Nat /\ s.id \in Nat
      BY RowAssumption DEF Inv, PublisherTypeOK
    <2>2. s.id < x.id /\ x.id < s.id
      BY <1>1, <1>5 DEF Before
    <2>3. QED
      BY <2>1, <2>2
  <1>6. ASSUME NEW r \in outbox', NEW s \in outbox', Before(r, s) PROVE InOrder(r, s)
    <2>1. CASE s = x
      BY <1>4, <2>1
    <2>2. CASE r = x /\ s \in outbox
      BY <1>5, <1>6, <2>2
    <2>3. CASE r \in outbox /\ s \in outbox
      BY <1>6, <2>3 DEF OrderInv
    <2>4. QED
      BY <1>1, <1>6, <2>1, <2>2, <2>3
  <1>7. QED
    BY <1>3, <1>6 DEF OrderInv, Before

\* A listing has every listed row's predecessors in it: LIMIT cuts the others off.
LEMMA FirstIdsBelow ==
  ASSUME NEW ids \in SUBSET Nat, NEW n \in Nat, NEW s \in FirstIds(ids, n), NEW r \in ids, r < s
  PROVE  r \in FirstIds(ids, n)
  <1> DEFINE upTo(i) == {j \in ids : j <= i}
  <1>1. s \in Nat /\ r \in Nat /\ Cardinality(upTo(s)) <= n
    BY DEF FirstIds
  <1>2. IsFiniteSet(upTo(s))
    <2>1. \A j \in ids : j <= s => j \in 0..s
      BY <1>1
    <2>2. upTo(s) \subseteq 0..s
      BY <2>1
    <2>3. IsFiniteSet(0..s)
      BY <1>1, FS_Interval
    <2>4. QED
      BY <2>2, <2>3, FS_Subset
  <1>3. upTo(r) \subseteq upTo(s)
    <2>1. \A j \in Nat : j <= r => j <= s
      BY <1>1
    <2>2. QED
      BY <2>1
  <1>4. /\ Cardinality(upTo(r)) <= Cardinality(upTo(s))
        /\ Cardinality(upTo(r)) \in Nat /\ Cardinality(upTo(s)) \in Nat
    BY <1>2, <1>3, FS_Subset, FS_CardinalityType
  <1>5. Cardinality(upTo(r)) <= n
    BY <1>1, <1>4
  <1>6. QED
    BY <1>5 DEF FirstIds

\* With one worker, a batch that holds a row holds those of its case before it, at every step.
LEMMA ListedStep ==
  ASSUME Inv, OneWorker, NEW r \in outbox, NEW s \in outbox, Before(r, s), ListedWith(r, s),
         WorkerStep
  PROVE  ListedWith(r, s)'
  <1>0. batch \in [Worker -> SUBSET Ids(outbox)] /\ Ids(outbox) \subseteq Nat
    BY IdsInRow DEF Inv, PublisherTypeOK
  <1>1. CASE UNCHANGED <<batch, published>>
    BY <1>1 DEF ListedWith
  <1>2. ASSUME NEW w \in Worker, List(w) PROVE ListedWith(r, s)'
    <2>1. /\ batch' = [batch EXCEPT ![w] = FirstIds(Unpublished, BatchLimit)]
          /\ published' = published /\ step[w] = "idle"
      BY <1>2 DEF List
    <2>2. Unpublished = Ids(outbox) \ published
      <3>1. \A v \in Worker : batch[v] = {}
        BY <2>1 DEF Inv, BatchInStep, OneWorker
      <3>2. QED
        BY <3>1 DEF Unpublished, Locked
    <2>3. ASSUME s.id \in FirstIds(Unpublished, BatchLimit), r.id \notin published
          PROVE  r.id \in FirstIds(Unpublished, BatchLimit)
      <3>1. r.id \in Unpublished /\ r.id < s.id /\ Unpublished \in SUBSET Nat
        BY <1>0, <2>2, <2>3 DEF Before, Ids
      <3>2. BatchLimit \in Nat
        BY LimitAssumption
      <3>3. QED
        BY <2>3, <3>1, <3>2, FirstIdsBelow
    <2>4. \A v \in Worker : batch'[v] = FirstIds(Unpublished, BatchLimit)
      BY <1>0, <2>1 DEF OneWorker
    <2>5. QED
      BY <2>1, <2>3, <2>4 DEF ListedWith
  <1>3. ASSUME NEW w \in Worker, batch' = [batch EXCEPT ![w] = {}] PROVE ListedWith(r, s)'
    BY <1>0, <1>3 DEF ListedWith, OneWorker
  <1>4. QED
    BY <1>1, <1>2, <1>3
    DEF WorkerStep, Flushing, Publish, Mark, CommitBatch, CommitBatchFails, EndBatch, Flush,
        Drain, PublishFails, PublishError, MarkFails, ConnectionBreaks, CrashWorker, RollbackBatch

\* A row is handed over after those of its case that came before it.
LEMMA PublishInOrder ==
  ASSUME Inv, OneWorker, NEW r \in outbox, NEW s \in outbox, Before(r, s), InOrder(r, s),
         NEW w \in Worker, Publish(w)
  PROVE  DeliveredAfter(r, s)' /\ BufferedAfter(r, s)'
  <1>1. PICK i \in Current(w) :
          /\ i \in Ids(outbox) /\ i \in todo[w]
          /\ buffer' = [buffer EXCEPT ![w] = Append(@, i)]
          /\ UNCHANGED <<delivered, lost>>
    BY PublishHands DEF Inv
  <1>2. DeliveredAfter(r, s)'
    BY <1>1 DEF InOrder, DeliveredAfter
  <1> DEFINE b == buffer[w]
             There == \E m \in DOMAIN delivered : delivered[m] = r.id
  <1>3. /\ b \in Seq(Ids(Row)) /\ i \in Ids(Row) /\ Len(b) \in Nat
        /\ r.id \in Nat /\ s.id \in Nat
    BY <1>1, IdsInRow, RowAssumption DEF Inv, Shapes, PublisherTypeOK
  <1>4. /\ buffer'[w] = Append(b, i) /\ \A v \in Worker : v = w
        /\ DOMAIN Append(b, i) = 1..(Len(b) + 1) /\ DOMAIN b = 1..Len(b)
        /\ \A n \in 1..Len(b) : Append(b, i)[n] = b[n]
        /\ Append(b, i)[Len(b) + 1] = i
    BY <1>1, <1>3, AppendProperties DEF Inv, Shapes, OneWorker
  <1>5. ASSUME i = s.id, r.id \notin lost
        PROVE  There \/ \E m \in 1..Len(b) : b[m] = r.id
    <2>1. s.id \in batch[w]
      BY <1>1, <1>5 DEF Inv, PublisherTypeOK
    <2>2. r.id \in batch[w] \cup published
      BY <2>1 DEF InOrder, ListedWith
    <2>3. r.id \notin todo[w]
      BY <1>1, <1>3, <1>5 DEF Current, Before
    <2>4. r.id \in Handed
      BY <2>2, <2>3 DEF Inv, BatchInStep, MarkedWasHandedOver, Handed
    <2>5. r.id \in Elements(delivered) \/ r.id \in Elements(b)
      BY <1>4, <1>5, <2>4 DEF Handed
    <2>6. QED
      BY <1>4, <2>5 DEF Elements
  <1> HIDE DEF b, There
  <1>6. ASSUME NEW n \in 1..(Len(b) + 1), Append(b, i)[n] = s.id, r.id \notin lost
        PROVE  There \/ \E m \in 1..n : Append(b, i)[m] = r.id
    <2>1. CASE n \in 1..Len(b)
      <3>1. There \/ \E m \in 1..n : b[m] = r.id
        BY <1>4, <1>6, <2>1 DEF InOrder, BufferedAfter, There, b
      <3>2. \A m \in 1..n : m \in 1..Len(b)
        BY <1>3, <2>1
      <3>3. QED
        BY <1>4, <3>1, <3>2
    <2>2. CASE n = Len(b) + 1
      <3>1. There \/ \E m \in 1..Len(b) : b[m] = r.id
        BY <1>4, <1>5, <1>6, <2>2
      <3>2. \A m \in 1..Len(b) : m \in 1..n
        BY <1>3, <2>2
      <3>3. QED
        BY <1>4, <3>1, <3>2
    <2>3. QED
      BY <1>3, <2>1, <2>2
  <1>7. BufferedAfter(r, s)'
    BY <1>1, <1>4, <1>6 DEF BufferedAfter, There
  <1>8. QED
    BY <1>2, <1>7

\* The head of a buffer arrives after its predecessors.
LEMMA DrainInOrder ==
  ASSUME Inv, NEW r \in outbox, NEW s \in outbox, Before(r, s), InOrder(r, s),
         NEW w \in Worker, Drain(w)
  PROVE  DeliveredAfter(r, s)'
  <1> DEFINE x == Head(buffer[w])
  <1>1. /\ delivered \in Seq(Ids(Row)) /\ buffer[w] \in Seq(Ids(Row)) /\ buffer[w] # <<>>
        /\ delivered' = Append(delivered, x) /\ lost' = lost
        /\ r.id \in Nat /\ s.id \in Nat
    BY RowAssumption DEF Inv, Shapes, Drain, PublisherTypeOK
  <1>2. x = buffer[w][1] /\ x \in Ids(Row) /\ 1 \in DOMAIN buffer[w] /\ Len(delivered) \in Nat
    BY <1>1
  <1> HIDE DEF x
  <1>3. /\ DOMAIN delivered' = 1..(Len(delivered) + 1) /\ DOMAIN delivered = 1..Len(delivered)
        /\ \A n \in 1..Len(delivered) : delivered'[n] = delivered[n]
        /\ delivered'[Len(delivered) + 1] = x
    BY <1>1, <1>2, AppendProperties
  <1>4. ASSUME x = s.id, r.id \notin lost
        PROVE  \E m \in 1..Len(delivered) : delivered[m] = r.id
    <2>1. r.id < s.id /\ r.id # s.id
      BY <1>1 DEF Before
    <2>2. ~ \E m \in 1..1 : buffer[w][m] = r.id
      <3>1. \A m \in 1..1 : m = 1
        OBVIOUS
      <3>2. QED
        BY <1>2, <1>4, <2>1, <3>1
    <2>3. QED
      BY <1>2, <1>3, <1>4, <2>2 DEF InOrder, BufferedAfter
  <1>5. ASSUME NEW n \in 1..(Len(delivered) + 1), delivered'[n] = s.id, r.id \notin lost
        PROVE  \E m \in 1..n : delivered'[m] = r.id
    <2>1. CASE n \in 1..Len(delivered)
      <3>1. \E m \in 1..n : delivered[m] = r.id
        BY <1>3, <1>5, <2>1 DEF InOrder, DeliveredAfter
      <3>2. \A m \in 1..n : m \in 1..Len(delivered)
        BY <1>2, <2>1
      <3>3. QED
        BY <1>3, <3>1, <3>2
    <2>2. CASE n = Len(delivered) + 1
      <3>1. \E m \in 1..Len(delivered) : delivered[m] = r.id
        BY <1>3, <1>4, <1>5, <2>2
      <3>2. \A m \in 1..Len(delivered) : m \in 1..n
        BY <1>2, <2>2
      <3>3. QED
        BY <1>3, <3>1, <3>2
    <2>3. QED
      BY <1>2, <2>1, <2>2
  <1>6. QED
    BY <1>1, <1>3, <1>5 DEF DeliveredAfter

\* What leaves the beginning of a buffer arrives in its order or is lost.
LEMMA FrontInOrder ==
  ASSUME Inv, OneWorker, NEW r \in outbox, NEW s \in outbox, Before(r, s), InOrder(r, s),
         NEW w \in Worker, Drain(w) \/ ConnectionBreaks(w) \/ CrashWorker(w)
  PROVE  DeliveredAfter(r, s)' /\ BufferedAfter(r, s)'
  <1> DEFINE b == buffer[w]
  <1>1. PICK k \in 0..Len(buffer[w]) :
           /\ buffer' = [buffer EXCEPT ![w] = SubSeq(@, k + 1, Len(@))]
           /\ Elements(delivered)' \cup lost'
                = Elements(delivered) \cup lost \cup Elements(SubSeq(buffer[w], 1, k))
    BY FrontLeaves DEF Inv
  <1>2. lost \subseteq lost' /\ (Drain(w) \/ delivered' = delivered)
    BY DEF Drain, ConnectionBreaks, CrashWorker
  <1>3. DeliveredAfter(r, s)'
    <2>1. CASE delivered' = delivered
      BY <1>2, <2>1 DEF InOrder, DeliveredAfter
    <2>2. QED
      BY <1>2, <2>1, DrainInOrder
  <1>4. b \in Seq(Ids(Row)) /\ k \in 0..Len(b) /\ Len(b) \in Nat
    BY <1>1 DEF Inv, Shapes
  <1> DEFINE c == SubSeq(b, k + 1, Len(b))
  <1>5. /\ c \in Seq(Ids(Row)) /\ Len(c) = Len(b) - k
        /\ \A n \in 1..(Len(b) - k) : c[n] = b[n + k]
        /\ Elements(SubSeq(b, 1, k)) = {b[n] : n \in 1..k}
    BY <1>4, ElementsSplit
  <1>6. buffer'[w] = c /\ \A v \in Worker : v = w
    BY <1>1 DEF Inv, Shapes, OneWorker
  <1>7. DOMAIN c = 1..(Len(b) - k) /\ DOMAIN b = 1..Len(b)
    BY <1>4, <1>5
  <1> DEFINE There == \E m \in DOMAIN delivered : delivered[m] = r.id
             ThereNow == \E m \in DOMAIN delivered' : delivered'[m] = r.id
  <1>8. /\ There => ThereNow \/ r.id \in lost'
        /\ \A m \in 1..k : b[m] = r.id => ThereNow \/ r.id \in lost'
    BY <1>1, <1>5 DEF Elements
  <1>9. \A n \in DOMAIN b : b[n] = s.id /\ r.id \notin lost =>
          There \/ \E m \in 1..n : b[m] = r.id
    BY DEF InOrder, BufferedAfter
  <1> HIDE DEF b, c, There, ThereNow
  <1>10. ASSUME NEW n \in DOMAIN c, c[n] = s.id, r.id \notin lost'
         PROVE  ThereNow \/ \E m \in 1..n : c[m] = r.id
    <2>1. /\ n \in 1..(Len(b) - k) /\ n + k \in DOMAIN b /\ b[n + k] = s.id
          /\ r.id \notin lost
      BY <1>2, <1>4, <1>5, <1>7, <1>10
    <2>2. CASE There
      BY <1>8, <1>10, <2>2
    <2>3. ASSUME NEW m \in 1..(n + k), b[m] = r.id
          PROVE  ThereNow \/ \E j \in 1..n : c[j] = r.id
      <3>1. CASE m \in 1..k
        BY <1>8, <1>10, <2>3, <3>1
      <3>2. CASE m \notin 1..k
        <4>1. m - k \in 1..n /\ m - k \in 1..(Len(b) - k) /\ (m - k) + k = m
          BY <1>4, <2>1, <3>2
        <4>2. c[m - k] = r.id
          BY <1>5, <2>3, <4>1
        <4>3. QED
          BY <4>1, <4>2
      <3>3. QED
        BY <3>1, <3>2
    <2>4. QED
      BY <1>9, <2>1, <2>2, <2>3
  <1>11. BufferedAfter(r, s)'
    BY <1>6, <1>10 DEF BufferedAfter, ThereNow
  <1>12. QED
    BY <1>3, <1>11

\* Every step keeps the rows of a case in order on their way to the bus.
LEMMA OrderStep ==
  ASSUME Inv, OneWorker, OrderInv, [PublisherNext]_publisherVars
  PROVE  OrderInv'
  <1>1. CASE RowCommitted
    BY <1>1, NewRowInOrder
  <1>2. CASE WorkerStep
    <2>1. outbox' = outbox
      BY <1>2, RowsStay DEF Inv
    <2>2. ASSUME NEW r \in outbox, NEW s \in outbox, Before(r, s), InOrder(r, s)
          PROVE  InOrder(r, s)'
      <3>1. ListedWith(r, s)'
        BY <1>2, <2>2, ListedStep DEF InOrder
      <3>2. UNCHANGED <<buffer, delivered, lost>>
              => DeliveredAfter(r, s)' /\ BufferedAfter(r, s)'
        BY <2>2 DEF InOrder, DeliveredAfter, BufferedAfter
      <3>3. DeliveredAfter(r, s)' /\ BufferedAfter(r, s)'
        BY <2>2, <3>2, BuffersMove, PublishInOrder, FrontInOrder
      <3>4. QED
        BY <3>1, <3>3 DEF InOrder
    <2>3. QED
      BY <2>1, <2>2 DEF OrderInv, Before
  <1>3. CASE UNCHANGED publisherVars
    BY <1>3 DEF publisherVars, workerVars, OrderInv, Before, InOrder, DeliveredAfter,
                BufferedAfter, ListedWith
  <1>4. QED
    BY <1>1, <1>2, <1>3 DEF PublisherNext

\* One worker announces the moves of a case in their order, whatever fails and is repeated:
\* the rows it lists come with all unpublished rows before them.
THEOREM OneWorkerKeepsOrder == OneWorker => (PublisherSpec => []FirstDeliveriesInOrder)
  <1> SUFFICES ASSUME OneWorker PROVE PublisherSpec => []FirstDeliveriesInOrder
    OBVIOUS
  <1>1. PublisherInit => OrderInv
    BY DEF PublisherInit, OrderInv
  <1>2. Inv /\ OrderInv /\ [PublisherNext]_publisherVars => OrderInv'
    BY OrderStep
  <1>3. OrderInv => FirstDeliveriesInOrder
    BY DEF OrderInv, FirstDeliveriesInOrder, Before, InOrder, DeliveredAfter
  <1>4. QED
    BY <1>1, <1>2, <1>3, PublisherInvariant, PTL DEF PublisherSpec
=============================================================================
