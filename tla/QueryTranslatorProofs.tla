------------------------ MODULE QueryTranslatorProofs ------------------------
(***************************************************************************)
(* What the translators make of a query of any length.                     *)
(***************************************************************************)
EXTENDS QueryTranslator, SequenceTheorems, WellFoundedInduction, TLAPS

\* Every non-empty set of naturals has a least element: what the inductions below rest on.
LEMMA LeastNatural ==
  ASSUME NEW T, T \subseteq Nat, T # {}
  PROVE  \E x \in T : \A y \in T : x <= y
  <1> DEFINE R == OpToRel(<, Nat)
  <1>1. IsWellFoundedOn(R, Nat)
    BY NatLessThanWellFounded
  <1>2. \A x, y \in Nat : x < y => <<x, y>> \in R
    BY DEF OpToRel
  <1> HIDE DEF R
  <1>3. PICK x \in T : \A y \in T : ~ (<<y, x>> \in R)
    BY <1>1, WFMin
  <1>4. ASSUME NEW y \in T
        PROVE  x <= y
    <2>1. x \in Nat /\ y \in Nat
      OBVIOUS
    <2>2. ~ (y < x)
      BY <1>2, <1>3, <2>1
    <2> QED
      BY <2>1, <2>2
  <1> QED
    BY <1>4

\* A set of naturals that holds n whenever it holds all that is smaller holds every natural:
\* induction, as the lack of a least counterexample.
LEMMA Induction ==
  ASSUME NEW S, \A n \in Nat : (\A k \in Nat : k < n => k \in S) => n \in S
  PROVE  Nat \subseteq S
  <1> SUFFICES ASSUME NEW x \in Nat, x \notin S
               PROVE  FALSE
    OBVIOUS
  <1> DEFINE T == {n \in Nat : n \notin S}
  <1>1. T \subseteq Nat /\ T # {}
    OBVIOUS
  <1>2. PICK m \in T : \A y \in T : m <= y
    <2> HIDE DEF T
    <2> QED
      BY <1>1, LeastNatural
  <1>3. ASSUME NEW k \in Nat, k < m
        PROVE  k \in S
    BY <1>2, <1>3
  <1> QED
    BY <1>2, <1>3

\* The same from the end of a sequence to its start.
LEMMA DownwardInduction ==
  ASSUME NEW n \in Nat, NEW S, n + 1 \in S, \A j \in 1..n : j + 1 \in S => j \in S
  PROVE  1..(n + 1) \subseteq S
  <1> DEFINE D == {d \in Nat : d <= n => n + 1 - d \in S}
  <1>1. ASSUME NEW d \in Nat, \A k \in Nat : k < d => k \in D
        PROVE  d \in D
    <2>1. CASE d = 0 \/ d > n
      BY <2>1
    <2>2. CASE d # 0 /\ d <= n
      <3>1. d - 1 \in D
        BY <1>1, <2>2
      <3>2. n + 1 - (d - 1) \in S
        BY <2>2, <3>1
      <3>3. n + 1 - d \in 1..n /\ (n + 1 - d) + 1 = n + 1 - (d - 1)
        BY <2>2
      <3> QED
        BY <3>2, <3>3
    <2> QED
      BY <2>1, <2>2
  <1>2. Nat \subseteq D
    <2> HIDE DEF D
    <2> QED
      BY <1>1, Induction
  <1>3. ASSUME NEW j \in 1..(n + 1)
        PROVE  j \in S
    <2>1. n + 1 - j \in D /\ n + 1 - j <= n
      BY <1>2
    <2>2. n + 1 - (n + 1 - j) = j
      OBVIOUS
    <2> QED
      BY <2>1, <2>2
  <1> QED
    BY <1>3

----------------------------------------------------------------------------
\* Least and greatest positions

\* What is below all others is the least.
LEMMA MinIs ==
  ASSUME NEW S, S \subseteq Int, NEW p \in S, \A y \in S : p <= y
  PROVE  Min(S) = p
  <1>1. \A x \in S : (\A y \in S : x <= y) => x = p
    OBVIOUS
  <1> QED
    BY <1>1 DEF Min

\* The least one is there and below all others.
LEMMA MinIn ==
  ASSUME NEW S, S \subseteq Nat, S # {}
  PROVE  Min(S) \in S /\ \A y \in S : Min(S) <= y
  BY LeastNatural DEF Min

\* The greater one of one or two.
LEMMA MaxIn ==
  ASSUME NEW S, S \subseteq 1..2, S # {}
  PROVE  Max(S) \in S
  <1>1. \E x \in S : \A y \in S : x >= y
    <2>1. CASE 2 \in S
      BY <2>1
    <2>2. CASE 2 \notin S
      <3>1. \A y \in S : y = 1
        BY <2>2
      <3>2. PICK x \in S : TRUE
        OBVIOUS
      <3>3. \A y \in S : x >= y
        BY <3>1
      <3> QED
        BY <3>3
    <2> QED
      BY <2>1, <2>2
  <1> QED
    BY <1>1 DEF Max

----------------------------------------------------------------------------
\* The tails of a text

\* The recursive function in Tails is well defined: what computes it on the last indices of
\* the sequence extends to one more.
LEMMA TailsDef ==
  ASSUME NEW texts, NEW sep, Len(texts) \in Nat
  PROVE  Tails(texts, sep) =
           [j \in 1..(Len(texts) + 1) |->
              IF j > Len(texts) THEN <<>>
              ELSE texts[j] \o
                     (IF j = Len(texts) THEN <<>> ELSE sep \o Tails(texts, sep)[j + 1])]
  <1> DEFINE n == Len(texts)
  <1> n \in Nat
    OBVIOUS
  <1> DEFINE Body(g, j) == IF j > n THEN <<>>
                           ELSE texts[j] \o (IF j = n THEN <<>> ELSE sep \o g[j + 1])
             Computes(g, m) == \A j \in m..(n + 1) : g[j] = Body(g, j)
             S == {m \in 1..(n + 1) : \E g : Computes(g, m)}
  <1> HIDE DEF n
  <1>1. n + 1 \in S
    <2> DEFINE g == [j \in 1..(n + 1) |-> <<>>]
    <2>1. \A j \in (n + 1)..(n + 1) : g[j] = <<>> /\ j > n
      OBVIOUS
    <2>2. Computes(g, n + 1)
      <3> HIDE DEF g
      <3> QED
        BY <2>1
    <2> HIDE DEF Computes, g
    <2> QED
      BY <2>2
  <1>2. ASSUME NEW m \in 1..n, m + 1 \in S
        PROVE  m \in S
    <2>1. PICK g : Computes(g, m + 1)
      <3> HIDE DEF Computes
      <3> QED
        BY <1>2
    <2> DEFINE h == [j \in 1..(n + 1) |-> IF j = m THEN Body(g, m) ELSE g[j]]
    <2>2. ASSUME NEW j \in m..(n + 1)
          PROVE  h[j] = Body(h, j)
      <3>1. j + 1 \in 1..(n + 1) => h[j + 1] = g[j + 1]
        <4> HIDE DEF Body
        <4> QED
          OBVIOUS
      <3>2. j # m => g[j] = Body(g, j)
        <4>1. j # m => j \in (m + 1)..(n + 1)
          OBVIOUS
        <4> QED
          BY <2>1, <4>1
      <3>3. Body(h, j) = Body(g, j)
        <4>1. CASE j > n
          BY <4>1
        <4>2. CASE j <= n
          <5>1. h[j + 1] = g[j + 1]
            BY <3>1, <4>2
          <5> HIDE DEF h
          <5> QED
            BY <5>1
        <4> QED
          BY <4>1, <4>2
      <3>4. h[j] = IF j = m THEN Body(g, m) ELSE g[j]
        <4> HIDE DEF Body
        <4> QED
          OBVIOUS
      <3> HIDE DEF Body, h
      <3> QED
        BY <3>2, <3>3, <3>4
    <2>3. Computes(h, m)
      <3> HIDE DEF h, Body
      <3> QED
        BY <2>2
    <2> HIDE DEF h, Computes
    <2> QED
      BY <2>3
  <1>3. 1..(n + 1) \subseteq S
    <2> HIDE DEF S
    <2> QED
      BY <1>1, <1>2, DownwardInduction
  <1>4. PICK g : Computes(g, 1)
    <2> HIDE DEF Computes
    <2> QED
      BY <1>3
  <1> DEFINE f == [j \in 1..(n + 1) |-> Body(g, j)]
  <1>5. ASSUME NEW j \in 1..(n + 1)
        PROVE  Body(g, j) = Body(f, j)
    <2>1. CASE j > n
      BY <2>1
    <2>2. CASE j <= n
      <3>1. f[j + 1] = Body(g, j + 1)
        <4> HIDE DEF Body
        <4> QED
          BY <2>2
      <3>2. g[j + 1] = Body(g, j + 1)
        <4> HIDE DEF Body
        <4> QED
          BY <1>4, <2>2
      <3>3. f[j + 1] = g[j + 1]
        BY <3>1, <3>2
      <3> HIDE DEF f
      <3> QED
        BY <3>3
    <2> QED
      BY <2>1, <2>2
  <1>6. f = [j \in 1..(n + 1) |-> Body(f, j)]
    <2> HIDE DEF Body
    <2> QED
      BY <1>5
  <1> DEFINE IsTails(t) == t = [j \in 1..(n + 1) |-> Body(t, j)]
  <1>7. \E t : IsTails(t)
    <2> HIDE DEF f
    <2> QED
      BY <1>6
  <1>8. Tails(texts, sep) = CHOOSE t : IsTails(t)
    BY DEF Tails, n
  <1>9. IsTails(Tails(texts, sep))
    <2> HIDE DEF IsTails
    <2> QED
      BY <1>7, <1>8
  <1> QED
    BY <1>9 DEF n

\* One step down the tails.
LEMMA TailsAt ==
  ASSUME NEW texts, NEW sep, Len(texts) \in Nat
  PROVE  /\ Tails(texts, sep)[Len(texts) + 1] = <<>>
         /\ \A j \in 1..Len(texts) :
              Tails(texts, sep)[j] =
                texts[j] \o
                  (IF j = Len(texts) THEN <<>> ELSE sep \o Tails(texts, sep)[j + 1])
  <1> DEFINE t == Tails(texts, sep)
             Body(j) == IF j > Len(texts) THEN <<>>
                        ELSE texts[j] \o (IF j = Len(texts) THEN <<>> ELSE sep \o t[j + 1])
  <1>1. t = [j \in 1..(Len(texts) + 1) |-> Body(j)]
    BY TailsDef, ZenonT(60)
  <1> HIDE DEF t
  <1>2. \A j \in 1..(Len(texts) + 1) : t[j] = Body(j)
    <2> HIDE DEF Body
    <2> QED
      BY <1>1
  <1>3. t[Len(texts) + 1] = <<>>
    BY <1>2
  <1>4. ASSUME NEW j \in 1..Len(texts)
        PROVE  t[j] = texts[j] \o (IF j = Len(texts) THEN <<>> ELSE sep \o t[j + 1])
    <2>1. t[j] = Body(j)
      <3> HIDE DEF Body
      <3> QED
        BY <1>2
    <2>2. ~(j > Len(texts))
      OBVIOUS
    <2> QED
      BY <2>1, <2>2, Zenon
  <1> QED
    BY <1>3, <1>4 DEF t

\* Tails of texts are texts; the last one is empty and no other one is.
LEMMA TailsType ==
  ASSUME NEW A, NEW texts \in Seq(Seq(A)), NEW sep \in Seq(A)
  PROVE  \A j \in 1..(Len(texts) + 1) : Tails(texts, sep)[j] \in Seq(A)
  <1> DEFINE t == Tails(texts, sep)
             S == {j \in 1..(Len(texts) + 1) : t[j] \in Seq(A)}
  <1>0. Len(texts) \in Nat
    OBVIOUS
  <1> HIDE DEF t
  <1>1. Len(texts) + 1 \in S
    <2>1. t[Len(texts) + 1] = <<>>
      BY <1>0, TailsAt DEF t
    <2>2. <<>> \in Seq(A)
      BY EmptySeq
    <2>3. Len(texts) + 1 \in 1..(Len(texts) + 1)
      BY <1>0
    <2> QED
      BY <2>1, <2>2, <2>3, Zenon
  <1>2. ASSUME NEW j \in 1..Len(texts), j + 1 \in S
        PROVE  j \in S
    <2>1. texts[j] \in Seq(A) /\ t[j + 1] \in Seq(A)
      BY <1>2
    <2>2. t[j] = texts[j] \o (IF j = Len(texts) THEN <<>> ELSE sep \o t[j + 1])
      BY <1>0, TailsAt DEF t
    <2>3. t[j] \in Seq(A)
      BY <2>1, <2>2, ConcatProperties, EmptySeq
    <2> QED
      BY <2>3
  <1>3. 1..(Len(texts) + 1) \subseteq S
    <2> HIDE DEF S
    <2> QED
      BY <1>0, <1>1, <1>2, DownwardInduction
  <1> QED
    BY <1>3 DEF t

----------------------------------------------------------------------------
\* Looking for a symbol

\* Where a single symbol is found is where the text has it.
LEMMA AtSymbol ==
  ASSUME NEW A, NEW s \in Seq(A), NEW x
  PROVE  At(s, <<x>>) = {i \in 1..Len(s) : s[i] = x}
  <1>1. ASSUME NEW i \in 1..Len(s)
        PROVE  SubSeq(s, i, i) = <<s[i]>>
    <2> DEFINE r == SubSeq(s, i, i)
               w == <<s[i]>>
    <2>1. r \in Seq(A) /\ Len(r) = 1 /\ r[1] = s[i]
      OBVIOUS
    <2>2. w \in Seq(A) /\ Len(w) = 1 /\ w[1] = s[i]
      OBVIOUS
    <2> HIDE DEF r, w
    <2>3. \A k \in 1..Len(r) : r[k] = w[k]
      BY <2>1, <2>2
    <2>4. r = w
      BY <2>1, <2>2, <2>3, SeqEqual
    <2> QED
      BY <2>4 DEF r, w
  <1>2. \A y : <<y>> = <<x>> => y = x
    OBVIOUS
  <1>3. Len(<<x>>) = 1
    OBVIOUS
  <1>4. \A i \in 1..Len(s) : SubSeq(s, i, i + 1 - 1) = <<x>> <=> s[i] = x
    BY <1>1, <1>2
  <1>5. Len(s) - 1 + 1 = Len(s)
    OBVIOUS
  <1> QED
    BY <1>3, <1>4, <1>5 DEF At

\* A text in which the symbol does not occur
LEMMA NoSymbol ==
  ASSUME NEW A, NEW s \in Seq(A), NEW x, \A i \in 1..Len(s) : s[i] # x
  PROVE  ~Has(s, <<x>>) /\ Part(s, <<x>>) = s /\ Behind(s, <<x>>) = <<>>
  BY AtSymbol DEF Has, Part, Behind

\* The first occurrence splits the text.
LEMMA SplitAt ==
  ASSUME NEW A, NEW a \in Seq(A), NEW b \in Seq(A), NEW x \in A,
         \A i \in 1..Len(a) : a[i] # x
  PROVE  /\ Has(a \o (<<x>> \o b), <<x>>)
         /\ Before(a \o (<<x>> \o b), <<x>>) = a
         /\ After(a \o (<<x>> \o b), <<x>>) = b
         /\ Part(a \o (<<x>> \o b), <<x>>) = a
         /\ Behind(a \o (<<x>> \o b), <<x>>) = b
  <1> DEFINE s == a \o (<<x>> \o b)
             p == Len(a) + 1
  <1>1. /\ s \in Seq(A) /\ Len(s) = p + Len(b) /\ p \in 1..Len(s)
        /\ Len(a) \in Nat /\ Len(b) \in Nat
        /\ \A i \in 1..Len(a) : s[i] = a[i]
        /\ s[p] = x
        /\ \A i \in 1..Len(b) : s[p + i] = b[i]
    OBVIOUS
  <1> HIDE DEF s
  <1>2. At(s, <<x>>) = {i \in 1..Len(s) : s[i] = x}
    BY <1>1, AtSymbol
  <1>3. p \in At(s, <<x>>) /\ At(s, <<x>>) \subseteq Int
    <2>1. p \in 1..Len(s) /\ s[p] = x
      BY <1>1
    <2>2. {i \in 1..Len(s) : s[i] = x} \subseteq Int
      OBVIOUS
    <2> HIDE DEF p
    <2> QED
      BY <1>2, <2>1, <2>2
  <1>4. \A i \in At(s, <<x>>) : p <= i
    BY <1>1, <1>2
  <1>5. Min(At(s, <<x>>)) = p
    BY <1>3, <1>4, MinIs
  <1>6. Before(s, <<x>>) = a
    <2> DEFINE r == SubSeq(s, 1, Len(a))
    <2>1. Before(s, <<x>>) = r
      <3>1. Before(s, <<x>>) = SubSeq(s, 1, p - 1)
        BY <1>5, Zenon DEF Before
      <3>2. p - 1 = Len(a)
        BY <1>1
      <3> QED
        BY <3>1, <3>2, Zenon DEF r
    <2>2. r \in Seq(A) /\ Len(r) = Len(a) /\ \A i \in 1..Len(a) : r[i] = s[i]
      BY <1>1
    <2>3. Len(r) = Len(a) /\ \A i \in 1..Len(r) : r[i] = a[i]
      BY <1>1, <2>2
    <2> HIDE DEF r
    <2>4. r = a
      BY <2>2, <2>3, SeqEqual
    <2> QED
      BY <2>1, <2>4
  <1>7. After(s, <<x>>) = b
    <2> DEFINE r == SubSeq(s, p + 1, Len(s))
    <2>1. After(s, <<x>>) = r
      BY <1>1, <1>5 DEF After
    <2>2. r \in Seq(A) /\ Len(r) = Len(b) /\ \A i \in 1..Len(b) : r[i] = s[p + i]
      BY <1>1
    <2>3. Len(r) = Len(b) /\ \A i \in 1..Len(r) : r[i] = b[i]
      BY <1>1, <2>2
    <2> HIDE DEF r
    <2>4. r = b
      BY <2>2, <2>3, SeqEqual
    <2> QED
      BY <2>1, <2>4
  <1>8. Has(s, <<x>>)
    BY <1>3 DEF Has
  <1> QED
    BY <1>6, <1>7, <1>8 DEF Part, Behind, s

\* A loop over the parts of joined texts sees them one by one, if none of them is empty or
\* holds the separator.
LEMMA JoinedStep ==
  ASSUME NEW A, NEW texts \in Seq(Seq(A)), NEW x \in A,
         \A j \in 1..Len(texts) : texts[j] # <<>>,
         \A j \in 1..Len(texts) : \A i \in 1..Len(texts[j]) : texts[j][i] # x
  PROVE  \A j \in 1..Len(texts) :
           /\ Tails(texts, <<x>>)[j] # <<>>
           /\ Part(Tails(texts, <<x>>)[j], <<x>>) = texts[j]
           /\ Behind(Tails(texts, <<x>>)[j], <<x>>) = Tails(texts, <<x>>)[j + 1]
  <1> DEFINE n == Len(texts)
             t == Tails(texts, <<x>>)
             w == <<x>>
  <1>1. n \in Nat /\ w \in Seq(A)
    OBVIOUS
  <1>2. /\ t[n + 1] = <<>>
        /\ \A j \in 1..n : t[j] = texts[j] \o (IF j = n THEN <<>> ELSE w \o t[j + 1])
    BY <1>1, TailsAt
  <1>3. \A j \in 1..(n + 1) : t[j] \in Seq(A)
    BY <1>1, TailsType
  <1>4. ASSUME NEW j \in 1..n
        PROVE  /\ t[j] # <<>>
               /\ Part(t[j], <<x>>) = texts[j]
               /\ Behind(t[j], <<x>>) = t[j + 1]
    <2> DEFINE a == texts[j]
               b == t[j + 1]
    <2>1. a \in Seq(A) /\ a # <<>> /\ \A i \in 1..Len(a) : a[i] # x
      OBVIOUS
    <2>2. b \in Seq(A)
      <3> HIDE DEF n, t
      <3> QED
        BY <1>1, <1>3
    <2>3. t[j] = a \o (IF j = n THEN <<>> ELSE w \o b)
      BY <1>2
    <2>4. j = n => b = <<>>
      BY <1>2
    <2> HIDE DEF a, b, t, n
    <2>5. CASE j = n
      <3>1. t[j] = a
        BY <2>1, <2>3, <2>5, ConcatEmptySeq
      <3>2. Part(a, <<x>>) = a /\ Behind(a, <<x>>) = <<>>
        BY <2>1, NoSymbol
      <3> QED
        BY <2>1, <2>4, <2>5, <3>1, <3>2 DEF a, b
    <2>6. CASE j # n
      <3>1. t[j] = a \o (<<x>> \o b)
        BY <2>3, <2>6
      <3>2. /\ Part(a \o (<<x>> \o b), <<x>>) = a
            /\ Behind(a \o (<<x>> \o b), <<x>>) = b
        BY <2>1, <2>2, SplitAt
      <3>3. t[j] # <<>>
        <4> HIDE DEF w
        <4>1. w \o b \in Seq(A)
          BY <1>1, <2>2
        <4>2. a \o (w \o b) # <<>>
          BY <2>1, <4>1, ConcatEqualIffEmpty
        <4> QED
          BY <2>3, <2>6, <4>2
      <3> QED
        BY <3>1, <3>2, <3>3 DEF a, b
    <2> QED
      BY <2>5, <2>6
  <1> QED
    BY <1>4

\* What two texts do not hold, they do not hold together.
LEMMA ConcatLacks ==
  ASSUME NEW A, NEW a \in Seq(A), NEW b \in Seq(A), NEW y,
         \A i \in 1..Len(a) : a[i] # y, \A i \in 1..Len(b) : b[i] # y
  PROVE  \A i \in 1..Len(a \o b) : (a \o b)[i] # y
  OBVIOUS

\* Joined texts hold what their parts and the separator hold, and nothing else.
LEMMA JoinedLacks ==
  ASSUME NEW A, NEW texts \in Seq(Seq(A)), NEW x \in A, NEW y, x # y,
         \A j \in 1..Len(texts) : \A i \in 1..Len(texts[j]) : texts[j][i] # y
  PROVE  \A i \in 1..Len(Tails(texts, <<x>>)[1]) : Tails(texts, <<x>>)[1][i] # y
  <1> DEFINE n == Len(texts)
             t == Tails(texts, <<x>>)
             w == <<x>>
             S == {j \in 1..(n + 1) : \A i \in 1..Len(t[j]) : t[j][i] # y}
  <1>1. n \in Nat /\ w \in Seq(A) /\ \A i \in 1..Len(w) : w[i] # y
    OBVIOUS
  <1>2. /\ t[n + 1] = <<>>
        /\ \A j \in 1..n : t[j] = texts[j] \o (IF j = n THEN <<>> ELSE w \o t[j + 1])
    BY <1>1, TailsAt
  <1>3. \A j \in 1..(n + 1) : t[j] \in Seq(A)
    BY <1>1, TailsType
  <1>4. n + 1 \in S
    <2> HIDE DEF t, n
    <2>1. n + 1 \in 1..(n + 1) /\ 1..0 = {}
      BY <1>1
    <2>2. Len(t[n + 1]) = 0
      BY <1>2
    <2> QED
      BY <2>1, <2>2
  <1>5. ASSUME NEW j \in 1..n, j + 1 \in S
        PROVE  j \in S
    <2> DEFINE a == texts[j]
               b == t[j + 1]
    <2>1. a \in Seq(A) /\ \A i \in 1..Len(a) : a[i] # y
      OBVIOUS
    <2>2. b \in Seq(A) /\ \A i \in 1..Len(b) : b[i] # y
      <3> HIDE DEF n, t
      <3> QED
        BY <1>1, <1>3, <1>5
    <2>3. t[j] = a \o (IF j = n THEN <<>> ELSE w \o b)
      BY <1>2
    <2>4. j \in 1..(n + 1)
      BY <1>1
    <2> HIDE DEF a, b, t, n, w
    <2>5. CASE j = n
      <3>1. t[j] = a
        BY <2>1, <2>3, <2>5, ConcatEmptySeq
      <3> QED
        BY <2>1, <2>4, <3>1
    <2>6. CASE j # n
      <3>1. t[j] = a \o (w \o b)
        BY <2>3, <2>6
      <3>2. w \o b \in Seq(A)
        BY <1>1, <2>2
      <3>3. \A i \in 1..Len(w \o b) : (w \o b)[i] # y
        BY <1>1, <2>2, ConcatLacks
      <3>4. \A i \in 1..Len(a \o (w \o b)) : (a \o (w \o b))[i] # y
        BY <2>1, <3>2, <3>3, ConcatLacks
      <3> QED
        BY <2>4, <3>1, <3>4
    <2> QED
      BY <2>5, <2>6
  <1>6. 1..(n + 1) \subseteq S
    <2> HIDE DEF S
    <2> QED
      BY <1>1, <1>4, <1>5, DownwardInduction
  <1>7. 1 \in 1..(n + 1)
    <2> HIDE DEF n
    <2> QED
      BY <1>1
  <1>8. 1 \in S
    <2> HIDE DEF S, n
    <2> QED
      BY <1>6, <1>7
  <1> QED
    BY <1>8

----------------------------------------------------------------------------
\* The text of a condition

\* Texts of one and of two symbols.
LEMMA ShortSequences ==
  ASSUME NEW A, NEW x \in A, NEW y \in A
  PROVE  /\ <<x>> \in Seq(A) /\ Len(<<x>>) = 1 /\ <<x>>[1] = x
         /\ <<x, y>> \in Seq(A) /\ Len(<<x, y>>) = 2 /\ <<x, y>>[1] = x /\ <<x, y>>[2] = y
  OBVIOUS

\* The operators that are looked for, symbol by symbol.
LEMMA OperatorSymbols ==
  /\ EQ \in Seq(Symbol) /\ Len(EQ) = 1 /\ EQ[1] = "="
  /\ GT \in Seq(Symbol) /\ Len(GT) = 1 /\ GT[1] = ">"
  /\ LT \in Seq(Symbol) /\ Len(LT) = 1 /\ LT[1] = "<"
  /\ NE \in Seq(Symbol) /\ Len(NE) = 2 /\ NE[1] = "!" /\ NE[2] = "="
  <1>1. "!" \in Symbol /\ "=" \in Symbol /\ ">" \in Symbol /\ "<" \in Symbol
    BY QueriesAreWritten DEF SymbolAssumption, Punctuation
  <1>2. NE \in Seq(Symbol) /\ Len(NE) = 2 /\ NE[1] = "!" /\ NE[2] = "="
    BY <1>1, ShortSequences DEF NE
  <1>3. EQ \in Seq(Symbol) /\ Len(EQ) = 1 /\ EQ[1] = "="
    BY <1>1, ShortSequences DEF EQ
  <1>4. GT \in Seq(Symbol) /\ Len(GT) = 1 /\ GT[1] = ">"
    BY <1>1, ShortSequences DEF GT
  <1>5. LT \in Seq(Symbol) /\ Len(LT) = 1 /\ LT[1] = "<"
    BY <1>1, ShortSequences DEF LT
  <1> QED
    BY <1>2, <1>3, <1>4, <1>5

\* A condition's text, symbol by symbol
LEMMA CondSymbols ==
  ASSUME NEW c, c.name \in Symbol, c.op \in Seq(Symbol), c.value \in Seq(Symbol)
  PROVE  /\ CondText(c) \in Seq(Symbol)
         /\ CondText(c) = <<c.name>> \o (c.op \o c.value)
         /\ Len(CondText(c)) = 1 + Len(c.op) + Len(c.value)
         /\ CondText(c)[1] = c.name
         /\ \A i \in 1..Len(c.op) : CondText(c)[i + 1] = c.op[i]
         /\ \A i \in 1..Len(c.value) : CondText(c)[1 + Len(c.op) + i] = c.value[i]
  <1> DEFINE n == <<c.name>>
  <1>1. n \in Seq(Symbol) /\ Len(n) = 1 /\ n[1] = c.name
    OBVIOUS
  <1>2. CondText(c) = (n \o c.op) \o c.value
    BY DEF CondText
  <1> HIDE DEF n
  <1> DEFINE o == c.op
             v == c.value
  <1>3. o \in Seq(Symbol) /\ v \in Seq(Symbol)
    OBVIOUS
  <1>4. CondText(c) = (n \o o) \o v
    BY <1>2
  <1> HIDE DEF o, v
  <1>5. CondText(c) = n \o (o \o v)
    BY <1>1, <1>3, <1>4, ConcatAssociative, SMTT(30)
  <1>6. /\ CondText(c) \in Seq(Symbol)
        /\ Len(CondText(c)) = 1 + Len(o) + Len(v)
        /\ CondText(c)[1] = c.name
        /\ \A i \in 1..Len(o) : CondText(c)[i + 1] = o[i]
        /\ \A i \in 1..Len(v) : CondText(c)[1 + Len(o) + i] = v[i]
    <2> DEFINE w == o \o v
    <2>1. /\ w \in Seq(Symbol) /\ Len(w) = Len(o) + Len(v)
          /\ Len(o) \in Nat /\ Len(v) \in Nat
          /\ \A i \in 1..Len(o) : w[i] = o[i]
          /\ \A i \in 1..Len(v) : w[Len(o) + i] = v[i]
      BY <1>3
    <2> HIDE DEF w
    <2>2. /\ n \o w \in Seq(Symbol) /\ Len(n \o w) = 1 + Len(w)
          /\ (n \o w)[1] = c.name
          /\ \A i \in 1..Len(w) : (n \o w)[1 + i] = w[i]
      <3>1. /\ n \o w \in Seq(Symbol) /\ Len(n \o w) = 1 + Len(w)
            /\ \A i \in 1..(1 + Len(w)) : (n \o w)[i] = IF i <= 1 THEN n[i] ELSE w[i - 1]
        <4>1. n \in Seq(Symbol) /\ w \in Seq(Symbol)
          BY <1>1, <2>1
        <4>3. /\ n \o w \in Seq(Symbol) /\ Len(n \o w) = Len(n) + Len(w)
              /\ \A i \in 1..(Len(n) + Len(w)) :
                   (n \o w)[i] = IF i <= Len(n) THEN n[i] ELSE w[i - Len(n)]
          BY <4>1, ConcatProperties, Zenon
        <4>2. Len(n) = 1
          BY <1>1
        <4> QED
          BY <4>2, <4>3
      <3>2. Len(w) \in Nat
        BY <2>1
      <3>3. (n \o w)[1] = c.name
        BY <1>1, <3>1, <3>2
      <3>4. \A i \in 1..Len(w) : (n \o w)[1 + i] = w[i]
        BY <3>1, <3>2
      <3> QED
        BY <3>1, <3>3, <3>4
    <2>3. CondText(c) = n \o w
      BY <1>5 DEF w
    <2> HIDE <1>5
    <2>4. \A i \in 1..Len(o) : (n \o w)[i + 1] = o[i]
      BY <2>1, <2>2
    <2>5. ASSUME NEW i \in 1..Len(v)
          PROVE  (n \o w)[1 + Len(o) + i] = v[i]
      <3>1. Len(o) + i \in 1..Len(w) /\ 1 + Len(o) + i = 1 + (Len(o) + i)
        BY <2>1
      <3> QED
        BY <2>1, <2>2, <3>1
    <2> QED
      BY <2>1, <2>2, <2>3, <2>4, <2>5
  <1> QED
    BY <1>5, <1>6 DEF n, o, v

\* Where != is found is where an equals sign follows an exclamation mark.
LEMMA AtNE ==
  ASSUME NEW s \in Seq(Symbol)
  PROVE  At(s, NE) = {i \in 1..(Len(s) - 1) : s[i] = "!" /\ s[i + 1] = "="}
  <1>1. ASSUME NEW i \in 1..(Len(s) - 1)
        PROVE  SubSeq(s, i, i + 1) = NE <=> (s[i] = "!" /\ s[i + 1] = "=")
    <2> DEFINE r == SubSeq(s, i, i + 1)
    <2>1. r \in Seq(Symbol) /\ Len(r) = 2 /\ r[1] = s[i] /\ r[2] = s[i + 1]
      <3>1. r \in Seq(Symbol) /\ Len(r) = 2 /\ r[1] = s[i]
        OBVIOUS
      <3>2. r[2] = s[i + 1]
        OBVIOUS
      <3> QED
        BY <3>1, <3>2
    <2>2. NE \in Seq(Symbol) /\ Len(NE) = 2 /\ NE[1] = "!" /\ NE[2] = "="
      BY OperatorSymbols
    <2> HIDE DEF r
    <2>3. ASSUME r[1] = NE[1], r[2] = NE[2]
          PROVE  r = NE
      <3>1. \A k \in 1..Len(r) : r[k] = NE[k]
        BY <2>1, <2>3
      <3> QED
        BY <2>1, <2>2, <3>1, SeqEqual
    <2>4. r = NE <=> (s[i] = "!" /\ s[i + 1] = "=")
      BY <2>1, <2>2, <2>3
    <2> QED
      BY <2>4 DEF r
  <1>2. Len(NE) = 2 /\ Len(s) \in Nat
    BY DEF NE
  <1>3. \A i \in Int : i + 2 - 1 = i + 1
    OBVIOUS
  <1>4. Len(s) - 2 + 1 = Len(s) - 1
    BY <1>2
  <1>5. At(s, NE) = {i \in 1..(Len(s) - 1) : SubSeq(s, i, i + 1) = NE}
    <2>1. \A i \in 1..(Len(s) - 1) : i + 2 - 1 = i + 1
      BY <1>3
    <2>2. At(s, NE) = {i \in 1..(Len(s) - 1) : SubSeq(s, i, i + 2 - 1) = NE}
      BY <1>2, <1>4, Zenon DEF At
    <2> QED
      BY <2>1, <2>2
  <1> QED
    BY <1>1, <1>5

\* The first `!=' splits the text of a condition that has it behind its name.
LEMMA SplitNE ==
  ASSUME NEW c, c.name \in Symbol, c.name # "!", c.op = NE, c.value \in Seq(Symbol)
  PROVE  /\ Has(CondText(c), NE)
         /\ Before(CondText(c), NE) = <<c.name>>
         /\ After(CondText(c), NE) = c.value
  <1> DEFINE s == CondText(c)
             v == c.value
  <1>1. NE \in Seq(Symbol) /\ Len(NE) = 2 /\ NE[1] = "!" /\ NE[2] = "="
    BY OperatorSymbols
  <1>2. /\ s \in Seq(Symbol) /\ Len(s) = 3 + Len(v) /\ Len(v) \in Nat
        /\ s[1] = c.name
        /\ \A i \in 1..2 : s[i + 1] = NE[i]
        /\ \A i \in 1..Len(v) : s[3 + i] = v[i]
    <2>1. c.op \in Seq(Symbol) /\ Len(c.op) = 2
      BY <1>1
    <2>2. /\ s \in Seq(Symbol) /\ Len(s) = 1 + 2 + Len(v)
          /\ s[1] = c.name
          /\ \A i \in 1..2 : s[i + 1] = c.op[i]
          /\ \A i \in 1..Len(v) : s[1 + 2 + i] = v[i]
      <3> HIDE DEF s, v
      <3> QED
        BY <2>1, CondSymbols DEF s, v
    <2>3. Len(v) \in Nat /\ \A i \in 1..Len(v) : 1 + 2 + i = 3 + i
      OBVIOUS
    <2> HIDE DEF s, v
    <2> QED
      BY <2>2, <2>3
  <1>3. v \in Seq(Symbol)
    OBVIOUS
  <1> HIDE DEF s, v
  <1>4. At(s, NE) = {i \in 1..(Len(s) - 1) : s[i] = "!" /\ s[i + 1] = "="}
    BY <1>2, AtNE
  <1>5. s[2] = "!" /\ s[3] = "="
    <2>1. s[1 + 1] = NE[1] /\ s[2 + 1] = NE[2]
      BY <1>2
    <2> QED
      BY <1>1, <2>1
  <1>6. 2 \in At(s, NE)
    BY <1>2, <1>4, <1>5
  <1>7. \A i \in At(s, NE) : i \in Int /\ 2 <= i
    BY <1>2, <1>4
  <1>8. Min(At(s, NE)) = 2
    BY <1>6, <1>7, MinIs
  <1>9. Before(s, NE) = <<c.name>>
    <2> DEFINE r == SubSeq(s, 1, 1)
               w == <<c.name>>
    <2>1. Before(s, NE) = r
      BY <1>8 DEF Before
    <2>2. r \in Seq(Symbol) /\ Len(r) = 1 /\ r[1] = c.name
      BY <1>2
    <2>3. w \in Seq(Symbol) /\ Len(w) = 1 /\ w[1] = c.name
      OBVIOUS
    <2> HIDE DEF r, w
    <2>4. \A k \in 1..Len(r) : r[k] = w[k]
      BY <2>2, <2>3
    <2>5. r = w
      BY <2>2, <2>3, <2>4, SeqEqual
    <2> QED
      BY <2>1, <2>5 DEF w
  <1>10. After(s, NE) = v
    <2> DEFINE r == SubSeq(s, 4, Len(s))
    <2>1. After(s, NE) = r
      BY <1>1, <1>8 DEF After
    <2>2. r \in Seq(Symbol) /\ Len(r) = Len(v) /\ \A i \in 1..Len(v) : r[i] = s[3 + i]
      BY <1>2
    <2>3. Len(r) = Len(v) /\ \A i \in 1..Len(r) : r[i] = v[i]
      BY <1>2, <2>2
    <2> HIDE DEF r
    <2>4. r = v
      BY <1>3, <2>2, <2>3, SeqEqual
    <2> QED
      BY <2>1, <2>4
  <1> QED
    BY <1>6, <1>9, <1>10 DEF Has, s, v

\* There is no `!=' in a text without `=' ...
LEMMA NoEqualsNoNE ==
  ASSUME NEW s \in Seq(Symbol), \A i \in 1..Len(s) : s[i] # "="
  PROVE  ~Has(s, NE) /\ ~Has(s, EQ)
  <1>1. At(s, NE) = {}
    <2>1. \A i \in 1..(Len(s) - 1) : s[i + 1] # "="
      OBVIOUS
    <2> QED
      BY <2>1, AtNE
  <1>2. ~Has(s, EQ)
    BY NoSymbol DEF EQ
  <1> QED
    BY <1>1, <1>2 DEF Has

\* ... and none in `name = value' unless the value holds it.
LEMMA NoNEInEquality ==
  ASSUME NEW c, c.name \in Symbol, c.name # "!", c.op = EQ, c.value \in Seq(Symbol),
         ~Has(c.value, NE)
  PROVE  ~Has(CondText(c), NE)
  <1> DEFINE s == CondText(c)
             v == c.value
  <1>1. EQ \in Seq(Symbol) /\ Len(EQ) = 1 /\ EQ[1] = "="
    BY OperatorSymbols
  <1>2. /\ s \in Seq(Symbol) /\ Len(s) = 2 + Len(v) /\ Len(v) \in Nat
        /\ s[1] = c.name
        /\ \A i \in 1..1 : s[i + 1] = EQ[i]
        /\ \A i \in 1..Len(v) : s[2 + i] = v[i]
    <2>1. c.op \in Seq(Symbol) /\ Len(c.op) = 1
      BY <1>1
    <2>2. /\ s \in Seq(Symbol) /\ Len(s) = 1 + 1 + Len(v)
          /\ s[1] = c.name
          /\ \A i \in 1..1 : s[i + 1] = c.op[i]
          /\ \A i \in 1..Len(v) : s[1 + 1 + i] = v[i]
      <3> HIDE DEF s, v
      <3> QED
        BY <2>1, CondSymbols DEF s, v
    <2>3. Len(v) \in Nat /\ \A i \in 1..Len(v) : 1 + 1 + i = 2 + i
      OBVIOUS
    <2> HIDE DEF s, v
    <2> QED
      BY <2>2, <2>3
  <1>3. v \in Seq(Symbol) /\ ~Has(v, NE)
    OBVIOUS
  <1>4. c.name # "!"
    OBVIOUS
  <1> HIDE DEF s, v
  <1>5. s[2] = "="
    <2>1. s[1 + 1] = EQ[1]
      BY <1>2
    <2> QED
      BY <1>1, <2>1
  <1>6. \A i \in 1..(Len(v) - 1) : ~(v[i] = "!" /\ v[i + 1] = "=")
    BY <1>3, AtNE DEF Has
  <1>7. ASSUME NEW i \in 1..(Len(s) - 1), s[i] = "!", s[i + 1] = "="
        PROVE  FALSE
    <2>1. i # 1 /\ i # 2
      BY <1>2, <1>4, <1>5, <1>7
    <2>2. i - 2 \in 1..(Len(v) - 1) /\ i = 2 + (i - 2) /\ i + 1 = 2 + (i - 2 + 1)
      BY <1>2, <2>1
    <2>3. s[i] = v[i - 2] /\ s[i + 1] = v[i - 2 + 1]
      <3>1. i - 2 \in 1..Len(v) /\ i - 2 + 1 \in 1..Len(v)
        BY <1>2, <2>2
      <3>2. s[2 + (i - 2)] = v[i - 2] /\ s[2 + (i - 2 + 1)] = v[i - 2 + 1]
        BY <1>2, <3>1
      <3> QED
        BY <2>2, <3>2
    <2> QED
      BY <1>6, <1>7, <2>2, <2>3
  <1>8. At(s, NE) = {}
    BY <1>2, <1>7, AtNE
  <1> QED
    BY <1>8 DEF Has, s

----------------------------------------------------------------------------
\* What a legible condition is read as

\* Names, columns, streams and plain values are symbols and no punctuation.
LEMMA NameSymbols ==
  ASSUME NEW n \in Name \cup Column \cup Stream \cup Plain
  PROVE  n \in Symbol /\ n \notin Punctuation
  BY QueriesAreWritten DEF SymbolAssumption

\* The operators are texts, and different from each other.
LEMMA Operators ==
  /\ \A op \in {EQ, NE, GT, LT, <<"=", "~">>, <<"!", "~">>, <<">", "=">>} : op \in Seq(Symbol)
  /\ EQ # NE /\ EQ # <<"!", "~">> /\ NE # <<"!", "~">> /\ GT # EQ /\ GT # NE /\ LT # EQ
  /\ LT # NE /\ GT # LT /\ GT # <<"!", "~">> /\ LT # <<"!", "~">>
  <1>1. "!" \in Symbol /\ "=" \in Symbol /\ ">" \in Symbol /\ "<" \in Symbol /\ "~" \in Symbol
    BY QueriesAreWritten DEF SymbolAssumption, Punctuation
  <1>2. /\ <<"=", "~">> \in Seq(Symbol) /\ <<"!", "~">> \in Seq(Symbol)
        /\ <<">", "=">> \in Seq(Symbol)
    BY <1>1, ShortSequences
  <1>3. EQ \in Seq(Symbol) /\ NE \in Seq(Symbol) /\ GT \in Seq(Symbol) /\ LT \in Seq(Symbol)
    BY OperatorSymbols
  <1>4. \A op \in {EQ, NE, GT, LT, <<"=", "~">>, <<"!", "~">>, <<">", "=">>} : op \in Seq(Symbol)
    BY <1>2, <1>3, Zenon
  <1>5. /\ EQ # NE /\ EQ # <<"!", "~">> /\ NE # <<"!", "~">> /\ GT # EQ /\ GT # NE
        /\ LT # EQ /\ LT # NE /\ GT # LT /\ GT # <<"!", "~">> /\ LT # <<"!", "~">>
    BY DEF EQ, NE, GT, LT
  <1> QED
    BY <1>4, <1>5

\* An operator is made of five symbols.
LEMMA OperatorElements ==
  ASSUME NEW op \in {EQ, NE, GT, LT, <<"=", "~">>, <<"!", "~">>, <<">", "=">>},
         NEW i \in 1..Len(op)
  PROVE  op[i] \in {"=", "!", ">", "<", "~"}
  <1>1. ASSUME NEW x, op = <<x>>
        PROVE  op[i] = x
    BY <1>1
  <1>2. ASSUME NEW x, NEW y, op = <<x, y>>
        PROVE  op[i] = x \/ op[i] = y
    BY <1>2
  <1>3. CASE op = <<"=">> \/ op = <<">">> \/ op = <<"<">>
    <2>1. op[i] = "=" \/ op[i] = ">" \/ op[i] = "<"
      BY <1>1, <1>3
    <2> QED
      BY <2>1
  <1>4. CASE op = <<"!", "=">> \/ op = <<"=", "~">> \/ op = <<"!", "~">> \/ op = <<">", "=">>
    <2>1. op[i] = "=" \/ op[i] = ">" \/ op[i] = "!" \/ op[i] = "~"
      BY <1>2, <1>4
    <2> QED
      BY <2>1
  <1> QED
    BY <1>3, <1>4, Zenon DEF EQ, NE, GT, LT

\* The parts of a condition.
LEMMA CondTypes ==
  ASSUME NEW c, c \in LogConds \/ c \in TraceConds
  PROVE  /\ c.name \in Name \cup Column /\ c.name \in Symbol /\ c.name \notin Punctuation
         /\ c.op \in Seq(Symbol)
         /\ c.value \in Seq(Symbol)
         /\ \A i \in 1..Len(c.value) : c.value[i] # "NULL"
  <1>1. /\ c.name \in Name \cup Column
        /\ c.op \in {EQ, NE, GT, LT, <<"=", "~">>, <<"!", "~">>, <<">", "=">>}
        /\ c.value \in Seq(Symbol \ {"NULL"})
    BY DEF LogConds, TraceConds, Conds
  <1>2. c.name \in Symbol /\ c.name \notin Punctuation
    BY <1>1, NameSymbols
  <1>3. c.op \in Seq(Symbol)
    BY <1>1, Operators
  <1>4. c.value \in Seq(Symbol)
    BY <1>1, SeqMonotonic
  <1>5. \A i \in 1..Len(c.value) : c.value[i] # "NULL"
    <2> DEFINE v == c.value
    <2>1. v \in Seq(Symbol \ {"NULL"})
      BY <1>1
    <2> HIDE DEF v
    <2>2. \A i \in 1..Len(v) : v[i] \in Symbol \ {"NULL"}
      BY <2>1
    <2> QED
      BY <2>2 DEF v
  <1> QED
    BY <1>1, <1>2, <1>3, <1>4, <1>5

\* The separators are not in the value of a legible condition, nor in the rest of its text.
LEMMA LegibleText ==
  ASSUME NEW c, c \in LogConds \/ c \in TraceConds, Legible(c)
  PROVE  \A i \in 1..Len(CondText(c)) : CondText(c)[i] \notin {",", "}", "and"}
  <1> DEFINE o == c.op
             v == c.value
             s == CondText(c)
  <1>1. c.name \in Symbol /\ o \in Seq(Symbol) /\ v \in Seq(Symbol) /\ c.name \notin Punctuation
    BY CondTypes
  <1>2. /\ s \in Seq(Symbol) /\ Len(s) = 1 + Len(o) + Len(v) /\ s[1] = c.name
        /\ \A i \in 1..Len(o) : s[i + 1] = o[i]
        /\ \A i \in 1..Len(v) : s[1 + Len(o) + i] = v[i]
    BY <1>1, CondSymbols
  <1>3. \A i \in 1..Len(v) : v[i] \notin {",", "}", "and"}
    <2>1. ToSet(v) \cap {",", "}", "and"} = {}
      BY DEF Legible
    <2>2. \A i \in 1..Len(v) : v[i] \in ToSet(v)
      BY <1>1 DEF ToSet
    <2> QED
      BY <2>1, <2>2
  <1>4. \A i \in 1..Len(o) : o[i] \notin {",", "}", "and"}
    <2>1. o \in {EQ, NE, GT, LT, <<"=", "~">>, <<"!", "~">>, <<">", "=">>}
      BY DEF LogConds, TraceConds, Conds
    <2> HIDE DEF o
    <2>2. \A i \in 1..Len(o) : o[i] \in {"=", "!", ">", "<", "~"}
      BY <2>1, OperatorElements
    <2> QED
      BY <2>2
  <1>5. c.name \notin {",", "}", "and"}
    BY <1>1 DEF Punctuation
  <1> HIDE DEF o, v, s
  <1>6. ASSUME NEW i \in 1..Len(s)
        PROVE  s[i] \notin {",", "}", "and"}
    <2> DEFINE Sep == {",", "}", "and"}
    <2> SUFFICES s[i] \notin Sep
      OBVIOUS
    <2> HIDE DEF Sep
    <2>1. Len(o) \in Nat /\ Len(v) \in Nat
      BY <1>1
    <2>2. CASE i = 1
      BY <1>2, <1>5, <2>2 DEF Sep
    <2>3. CASE i # 1 /\ i <= 1 + Len(o)
      <3>1. i - 1 \in 1..Len(o) /\ i = (i - 1) + 1
        BY <1>2, <2>1, <2>3
      <3>2. s[i] = o[i - 1]
        BY <1>2, <3>1
      <3> QED
        BY <1>4, <3>1, <3>2 DEF Sep
    <2>4. CASE i > 1 + Len(o)
      <3>1. i - 1 - Len(o) \in 1..Len(v) /\ i = 1 + Len(o) + (i - 1 - Len(o))
        BY <1>2, <2>1, <2>4
      <3>2. s[i] = v[i - 1 - Len(o)]
        BY <1>2, <3>1
      <3> QED
        BY <1>3, <3>1, <3>2 DEF Sep
    <2> QED
      BY <2>1, <2>2, <2>3, <2>4
  <1> QED
    BY <1>6 DEF s

\* A one-symbol operator behind the name splits the text of a condition.
LEMMA SplitOperator ==
  ASSUME NEW c, c \in LogConds \/ c \in TraceConds,
         NEW x \in Punctuation, c.op = <<x>>
  PROVE  /\ Has(CondText(c), <<x>>)
         /\ Before(CondText(c), <<x>>) = <<c.name>>
         /\ After(CondText(c), <<x>>) = c.value
  <1> DEFINE n == <<c.name>>
             v == c.value
  <1>1. /\ c.name \in Symbol /\ c.op \in Seq(Symbol) /\ v \in Seq(Symbol)
        /\ c.name \notin Punctuation
    BY CondTypes
  <1>2. n \in Seq(Symbol) /\ Len(n) = 1 /\ n[1] = c.name
    BY <1>1, ShortSequences
  <1>3. x \in Symbol
    BY QueriesAreWritten DEF SymbolAssumption
  <1>4. CondText(c) = n \o (<<x>> \o v)
    BY <1>1, CondSymbols
  <1>5. v \in Seq(Symbol)
    BY <1>1
  <1> HIDE DEF n, v
  <1>6. \A i \in 1..Len(n) : n[i] # x
    BY <1>1, <1>2
  <1>7. /\ Has(n \o (<<x>> \o v), <<x>>)
        /\ Before(n \o (<<x>> \o v), <<x>>) = n
        /\ After(n \o (<<x>> \o v), <<x>>) = v
    BY <1>2, <1>3, <1>5, <1>6, SplitAt
  <1> QED
    BY <1>4, <1>7 DEF n, v

\* A condition without `=' in its operator and in its value has none in its text.
LEMMA NoEquals ==
  ASSUME NEW c, c \in LogConds \/ c \in TraceConds,
         \A i \in 1..Len(c.op) : c.op[i] # "=",
         \A i \in 1..Len(c.value) : c.value[i] # "="
  PROVE  ~Has(CondText(c), EQ) /\ ~Has(CondText(c), NE)
  <1> DEFINE o == c.op
             v == c.value
             s == CondText(c)
  <1>1. c.name \in Symbol /\ o \in Seq(Symbol) /\ v \in Seq(Symbol) /\ c.name \notin Punctuation
    BY CondTypes
  <1>2. /\ s \in Seq(Symbol) /\ Len(s) = 1 + Len(o) + Len(v) /\ s[1] = c.name
        /\ \A i \in 1..Len(o) : s[i + 1] = o[i]
        /\ \A i \in 1..Len(v) : s[1 + Len(o) + i] = v[i]
    BY <1>1, CondSymbols
  <1>3. (\A i \in 1..Len(o) : o[i] # "=") /\ (\A i \in 1..Len(v) : v[i] # "=")
    OBVIOUS
  <1>4. c.name # "="
    BY <1>1 DEF Punctuation
  <1> HIDE DEF o, v, s
  <1>5. ASSUME NEW i \in 1..Len(s)
        PROVE  s[i] # "="
    <2>1. Len(o) \in Nat /\ Len(v) \in Nat
      BY <1>1
    <2>2. CASE i = 1
      BY <1>2, <1>4, <2>2
    <2>3. CASE i # 1 /\ i <= 1 + Len(o)
      <3>1. i - 1 \in 1..Len(o) /\ i = (i - 1) + 1
        BY <1>2, <2>1, <2>3
      <3>2. s[i] = o[i - 1]
        BY <1>2, <3>1
      <3> QED
        BY <1>3, <3>1, <3>2
    <2>4. CASE i > 1 + Len(o)
      <3>1. i - 1 - Len(o) \in 1..Len(v) /\ i = 1 + Len(o) + (i - 1 - Len(o))
        BY <1>2, <2>1, <2>4
      <3>2. s[i] = v[i - 1 - Len(o)]
        BY <1>2, <3>1
      <3> QED
        BY <1>3, <3>1, <3>2
    <2> QED
      BY <2>1, <2>2, <2>3, <2>4
  <1>6. ~Has(s, NE) /\ ~Has(s, EQ)
    BY <1>2, <1>5, NoEqualsNoNE
  <1> QED
    BY <1>6 DEF s

\* What the value of a legible condition does not hold
LEMMA NoEqualsInValue ==
  ASSUME NEW v \in Seq(Symbol), ~Has(v, EQ)
  PROVE  \A i \in 1..Len(v) : v[i] # "="
  <1>1. At(v, <<"=">>) = {i \in 1..Len(v) : v[i] = "="}
    BY AtSymbol
  <1> QED
    BY <1>1 DEF Has, EQ

\* A matcher with !~ holds no operator that the translator knows.
LEMMA OperatorAbsent ==
  ASSUME NEW c, c \in LogConds \/ c \in TraceConds, c.op = <<"!", "~">>, ~Has(c.value, EQ)
  PROVE  ~Has(CondText(c), EQ) /\ ~Has(CondText(c), NE)
  <1>1. \A i \in 1..Len(c.value) : c.value[i] # "="
    BY CondTypes, NoEqualsInValue
  <1>2. \A i \in 1..Len(c.op) : c.op[i] # "="
    OBVIOUS
  <1> QED
    BY <1>1, <1>2, NoEquals

\* What has one symbol and is no quote loses nothing.
LEMMA TrimOne ==
  ASSUME NEW x, x # "'"
  PROVE  Trim(<<x>>) = <<x>>
  <1> DEFINE s == <<x>>
             kept == {i \in 1..Len(s) : s[i] # "'"}
  <1>1. Len(s) = 1 /\ s[1] = x /\ 1..1 = {1}
    OBVIOUS
  <1>2. kept = {1}
    BY <1>1, Zenon
  <1>3. Trim(s) = IF kept = {} THEN <<>> ELSE SubSeq(s, Min(kept), Max(kept))
    BY Zenon DEF Trim
  <1> HIDE DEF kept, s
  <1>4. Min({1}) = 1 /\ Max({1}) = 1
    <2>1. Min({1}) = 1
      BY MinIs
    <2>2. Max({1}) \in {1}
      BY MaxIn
    <2> QED
      BY <2>1, <2>2
  <1>5. SubSeq(<<x>>, 1, 1) = <<x>>
    <2> DEFINE r == SubSeq(<<x>>, 1, 1)
    <2>1. r \in Seq({x}) /\ Len(r) = 1 /\ r[1] = x
      <3>1. \A i \in 1..1 : <<x>>[i] \in {x}
        OBVIOUS
      <3>2. /\ r \in Seq({x}) /\ Len(r) = IF 1 <= 1 THEN 1 - 1 + 1 ELSE 0
            /\ \A i \in 1..(1 - 1 + 1) : r[i] = <<x>>[1 + i - 1]
        BY <3>1, SubSeqProperties
      <3> HIDE DEF r
      <3> QED
        BY <3>2
    <2>2. <<x>> \in Seq({x}) /\ Len(<<x>>) = 1 /\ <<x>>[1] = x
      OBVIOUS
    <2> HIDE DEF r
    <2>3. \A i \in 1..1 : r[i] = <<x>>[i]
      BY <2>1, <2>2
    <2>4. r = <<x>>
      BY <2>1, <2>2, <2>3, SeqEqual
    <2> QED
      BY <2>4 DEF r
  <1>6. {1} # {}
    OBVIOUS
  <1> QED
    BY <1>2, <1>3, <1>4, <1>5, <1>6, Zenon DEF s

\* Neither does a name, nor the value of a legible condition.
LEMMA Kept ==
  ASSUME NEW c, c \in LogConds \/ c \in TraceConds, Legible(c)
  PROVE  Sanitize(<<c.name>>) = <<c.name>> /\ Escape(c.value) = c.value
  <1>1. c.name # "'"
    BY CondTypes, Zenon DEF Punctuation
  <1>2. Trim(<<c.name>>) = <<c.name>>
    BY <1>1, TrimOne, Zenon
  <1>3. c.value = Trim(c.value)
    BY Zenon DEF Legible
  <1> QED
    BY <1>2, <1>3, Zenon DEF Sanitize, Escape

\* The matcher of a legible condition of a selector
LEMMA MatcherOf ==
  ASSUME NEW c \in LogConds, Legible(c)
  PROVE  \/ /\ c.op = EQ /\ c.name \in Name
            /\ Matcher(CondText(c)) = {Condition("label", <<c.name>>, "=", c.value)}
         \/ /\ c.op = NE /\ c.name \in Name
            /\ Matcher(CondText(c)) = {Condition("label", <<c.name>>, "<>", c.value)}
         \/ /\ c.op = <<"!", "~">>
            /\ Matcher(CondText(c)) = {}
  <1>1. c.op \in {EQ, NE, <<"=", "~">>, <<"!", "~">>}
    BY DEF LogConds, Conds
  <1>2. /\ c.name \in Symbol /\ c.name \notin Punctuation /\ c.value \in Seq(Symbol)
        /\ c.name # "!"
    BY CondTypes DEF Punctuation
  <1>3. \/ c.op = EQ /\ c.name \in Name /\ ~Has(c.value, NE)
        \/ c.op = NE /\ c.name \in Name
        \/ c.op = <<"!", "~">> /\ ~Has(c.value, EQ)
    <2>1. c.op # GT /\ c.op # LT
      <3>1. GT # <<"=", "~">> /\ LT # <<"=", "~">>
        BY DEF GT, LT
      <3> QED
        BY <1>1, <3>1, Operators
    <2> QED
      BY <2>1, Zenon DEF Legible
  <1>4. CASE c.op = EQ /\ c.name \in Name /\ ~Has(c.value, NE)
    <2>1. ~Has(CondText(c), NE)
      BY <1>2, <1>4, NoNEInEquality
    <2>2. /\ Has(CondText(c), EQ) /\ Before(CondText(c), EQ) = <<c.name>>
          /\ After(CondText(c), EQ) = c.value
      <3>1. "=" \in Punctuation /\ c.op = <<"=">>
        BY <1>4 DEF Punctuation, EQ
      <3> QED
        BY <3>1, SplitOperator DEF EQ
    <2>3. Matcher(CondText(c)) = Quoted("label", CondText(c), EQ, "=")
      BY <2>1, <2>2, Zenon DEF Matcher
    <2> QED
      BY <1>4, <2>2, <2>3, Kept, Zenon DEF Quoted
  <1>5. CASE c.op = NE /\ c.name \in Name
    <2>1. /\ Has(CondText(c), NE) /\ Before(CondText(c), NE) = <<c.name>>
          /\ After(CondText(c), NE) = c.value
      BY <1>2, <1>5, SplitNE
    <2>2. Matcher(CondText(c)) = Quoted("label", CondText(c), NE, "<>")
      BY <2>1, Zenon DEF Matcher
    <2> QED
      BY <1>5, <2>1, <2>2, Kept, Zenon DEF Quoted
  <1>6. CASE c.op = <<"!", "~">> /\ ~Has(c.value, EQ)
    <2>1. ~Has(CondText(c), EQ) /\ ~Has(CondText(c), NE)
      BY <1>6, OperatorAbsent
    <2>2. Matcher(CondText(c)) = {}
      BY <2>1, Zenon DEF Matcher
    <2> QED
      BY <1>6, <2>2
  <1> QED
    BY <1>3, <1>4, <1>5, <1>6

\* The condition a legible condition of a trace query becomes
LEMMA TraceConditionOf ==
  ASSUME NEW c \in TraceConds, Legible(c)
  PROVE  \/ /\ c.op = EQ /\ c.name \in Name
            /\ TraceCondition(CondText(c)) = {Condition("attribute", <<c.name>>, "=", c.value)}
         \/ /\ c.op = NE /\ c.name \in Name
            /\ TraceCondition(CondText(c)) = {Condition("attribute", <<c.name>>, "<>", c.value)}
         \/ /\ c.op = GT /\ c.name \in Column
            /\ TraceCondition(CondText(c)) = {Condition("column", <<c.name>>, ">", c.value)}
         \/ /\ c.op = LT /\ c.name \in Column
            /\ TraceCondition(CondText(c)) = {Condition("column", <<c.name>>, "<", c.value)}
  <1>1. c.op \in {EQ, NE, GT, LT, <<">", "=">>}
    BY DEF TraceConds, Conds
  <1>2. /\ c.name \in Symbol /\ c.name \notin Punctuation /\ c.value \in Seq(Symbol)
        /\ c.name # "!" /\ c.name # ">" /\ c.name # "<"
    BY CondTypes DEF Punctuation
  <1>3. \/ c.op = EQ /\ c.name \in Name /\ ~Has(c.value, NE)
        \/ c.op = NE /\ c.name \in Name
        \/ c.op \in {GT, LT} /\ c.name \in Column /\ c.value \in {<<n>> : n \in Plain}
    <2>1. c.op # <<"!", "~">>
      <3>1. <<">", "=">> # <<"!", "~">>
        OBVIOUS
      <3> QED
        BY <1>1, <3>1, Operators
    <2> QED
      BY <2>1, Zenon DEF Legible
  <1>4. CASE c.op = EQ /\ c.name \in Name /\ ~Has(c.value, NE)
    <2>1. ~Has(CondText(c), NE)
      BY <1>2, <1>4, NoNEInEquality
    <2>2. /\ Has(CondText(c), EQ) /\ Before(CondText(c), EQ) = <<c.name>>
          /\ After(CondText(c), EQ) = c.value
      <3>1. "=" \in Punctuation /\ c.op = <<"=">>
        BY <1>4 DEF Punctuation, EQ
      <3> QED
        BY <3>1, SplitOperator DEF EQ
    <2>3. TraceCondition(CondText(c)) = Quoted("attribute", CondText(c), EQ, "=")
      BY <2>1, <2>2, Zenon DEF TraceCondition
    <2> QED
      BY <1>4, <2>2, <2>3, Kept, Zenon DEF Quoted
  <1>5. CASE c.op = NE /\ c.name \in Name
    <2>1. /\ Has(CondText(c), NE) /\ Before(CondText(c), NE) = <<c.name>>
          /\ After(CondText(c), NE) = c.value
      BY <1>2, <1>5, SplitNE
    <2>2. Has(CondText(c), EQ)
      <3>1. CondText(c)[3] = "="
        <4>1. c.op \in Seq(Symbol) /\ Len(c.op) = 2 /\ c.op[2] = "="
          BY <1>5, OperatorSymbols
        <4>2. \A i \in 1..Len(c.op) : CondText(c)[i + 1] = c.op[i]
          BY <1>2, <4>1, CondSymbols
        <4>3. CondText(c)[2 + 1] = c.op[2]
          BY <4>1, <4>2
        <4> QED
          BY <4>1, <4>3
      <3>2. CondText(c) \in Seq(Symbol) /\ Len(CondText(c)) >= 3
        <4>1. c.op \in Seq(Symbol) /\ Len(c.op) = 2
          BY <1>5, OperatorSymbols
        <4>2. CondText(c) \in Seq(Symbol) /\ Len(CondText(c)) = 1 + 2 + Len(c.value)
          BY <1>2, <4>1, CondSymbols
        <4>3. Len(c.value) \in Nat
          BY <1>2
        <4> QED
          BY <4>2, <4>3
      <3>3. At(CondText(c), <<"=">>) = {i \in 1..Len(CondText(c)) : CondText(c)[i] = "="}
        BY <3>2, AtSymbol
      <3>4. 3 \in 1..Len(CondText(c))
        BY <3>2
      <3> QED
        BY <3>1, <3>3, <3>4 DEF Has, EQ
    <2>3. TraceCondition(CondText(c)) = Quoted("attribute", CondText(c), NE, "<>")
      BY <2>1, <2>2, Zenon DEF TraceCondition
    <2> QED
      BY <1>5, <2>1, <2>3, Kept, Zenon DEF Quoted
  <1>6. CASE c.op \in {GT, LT} /\ c.name \in Column /\ c.value \in {<<n>> : n \in Plain}
    <2>1. PICK d \in Plain : c.value = <<d>>
      BY <1>6
    <2>2. d \in Symbol /\ d \notin Punctuation
      BY NameSymbols
    <2>3. d # "=" /\ d # ">" /\ d # "<"
      BY <2>2 DEF Punctuation
    <2>4. ~Has(CondText(c), EQ) /\ ~Has(CondText(c), NE)
      <3>1. \A i \in 1..Len(c.value) : c.value[i] # "="
        BY <2>1, <2>3
      <3>2. \A i \in 1..Len(c.op) : c.op[i] # "="
        BY <1>6 DEF GT, LT
      <3> QED
        BY <3>1, <3>2, NoEquals
    <2>5. CASE c.op = GT
      <3>1. /\ Has(CondText(c), GT) /\ Before(CondText(c), GT) = <<c.name>>
            /\ After(CondText(c), GT) = c.value
        <4>1. ">" \in Punctuation /\ c.op = <<">">>
          BY <2>5 DEF Punctuation, GT
        <4> QED
          BY <4>1, SplitOperator DEF GT
      <3>2. TraceCondition(CondText(c)) = Plainly(CondText(c), GT, ">")
        BY <2>4, <3>1, Zenon DEF TraceCondition
      <3> QED
        BY <1>6, <2>5, <3>1, <3>2, Kept, Zenon DEF Plainly
    <2>6. CASE c.op = LT
      <3>1. /\ Has(CondText(c), LT) /\ Before(CondText(c), LT) = <<c.name>>
            /\ After(CondText(c), LT) = c.value
        <4>1. "<" \in Punctuation /\ c.op = <<"<">>
          BY <2>6 DEF Punctuation, LT
        <4> QED
          BY <4>1, SplitOperator DEF LT
      <3>2. ~Has(CondText(c), GT)
        <4> DEFINE s == CondText(c)
        <4>1. c.op \in Seq(Symbol) /\ Len(c.op) = 1 /\ c.op[1] = "<"
          BY <2>6, OperatorSymbols
        <4>2. Len(c.value) = 1 /\ c.value[1] = d
          BY <2>1
        <4>3. /\ s \in Seq(Symbol) /\ Len(s) = 1 + 1 + 1 /\ s[1] = c.name
              /\ \A i \in 1..1 : s[i + 1] = c.op[i]
              /\ \A i \in 1..1 : s[1 + 1 + i] = c.value[i]
          <5>1. /\ s \in Seq(Symbol) /\ Len(s) = 1 + Len(c.op) + Len(c.value) /\ s[1] = c.name
                /\ \A i \in 1..Len(c.op) : s[i + 1] = c.op[i]
                /\ \A i \in 1..Len(c.value) : s[1 + Len(c.op) + i] = c.value[i]
            BY <1>2, <4>1, CondSymbols, Zenon
          <5> QED
            BY <4>1, <4>2, <5>1, Zenon
        <4> HIDE DEF s
        <4>4. s[1] # ">" /\ s[2] # ">" /\ s[3] # ">"
          <5>1. s[1 + 1] = "<" /\ s[1 + 1 + 1] = d
            BY <4>1, <4>2, <4>3
          <5> QED
            BY <1>2, <2>3, <4>3, <5>1
        <4>5. \A i \in 1..Len(s) : s[i] # ">"
          <5>1. \A i \in 1..Len(s) : i = 1 \/ i = 2 \/ i = 3
            BY <4>3
          <5> QED
            BY <4>4, <5>1
        <4>6. ~Has(s, GT)
          BY <4>3, <4>5, NoSymbol DEF GT
        <4> QED
          BY <4>6 DEF s
      <3>3. TraceCondition(CondText(c)) = Plainly(CondText(c), LT, "<")
        BY <2>4, <3>1, <3>2, Zenon DEF TraceCondition
      <3> QED
        BY <1>6, <2>6, <3>1, <3>3, Kept, Zenon DEF Plainly
    <2> QED
      BY <1>6, <2>5, <2>6
  <1> QED
    BY <1>3, <1>4, <1>5, <1>6

----------------------------------------------------------------------------
\* The text of conditions

\* A condition is a text and not an empty one.
LEMMA CondTextType ==
  ASSUME NEW c, c \in LogConds \/ c \in TraceConds
  PROVE  CondText(c) \in Seq(Symbol) /\ CondText(c) # <<>>
  <1>1. c.name \in Symbol /\ c.op \in Seq(Symbol) /\ c.value \in Seq(Symbol)
    BY CondTypes
  <1>2. CondText(c) \in Seq(Symbol) /\ Len(CondText(c)) = 1 + Len(c.op) + Len(c.value)
    BY <1>1, CondSymbols
  <1>3. Len(c.op) \in Nat /\ Len(c.value) \in Nat
    BY <1>1, LenProperties
  <1>4. CondText(c) # <<>>
    <2>1. \A a, b \in Nat : 1 + a + b # 0
      OBVIOUS
    <2>2. 1 + Len(c.op) + Len(c.value) # 0
      BY <1>3, <2>1, Zenon
    <2> QED
      BY <1>2, <2>2, EmptySeq
  <1> QED
    BY <1>2, <1>4

\* The texts of the conditions, one by one.
LEMMA CondTextsType ==
  ASSUME NEW K, K = LogConds \/ K = TraceConds, NEW conds \in Seq(K)
  PROVE  /\ CondTexts(conds) \in Seq(Seq(Symbol)) /\ Len(CondTexts(conds)) = Len(conds)
         /\ Len(conds) \in Nat
         /\ \A j \in 1..Len(conds) :
              /\ conds[j] \in LogConds \/ conds[j] \in TraceConds
              /\ CondTexts(conds)[j] = CondText(conds[j])
              /\ CondText(conds[j]) \in Seq(Symbol) /\ CondText(conds[j]) # <<>>
  <1> DEFINE n == Len(conds)
             t == CondTexts(conds)
  <1>1. n \in Nat /\ \A j \in 1..n : conds[j] \in K
    OBVIOUS
  <1>2. ASSUME NEW j \in 1..n
        PROVE  /\ conds[j] \in LogConds \/ conds[j] \in TraceConds
               /\ CondText(conds[j]) \in Seq(Symbol) /\ CondText(conds[j]) # <<>>
    <2>1. conds[j] \in LogConds \/ conds[j] \in TraceConds
      BY <1>1
    <2> QED
      BY <2>1, CondTextType
  <1>3. t = [j \in 1..n |-> CondText(conds[j])]
    BY DEF CondTexts
  <1> HIDE DEF t, n
  <1>4. t \in [1..n -> Seq(Symbol)] /\ \A j \in 1..n : t[j] = CondText(conds[j])
    BY <1>2, <1>3
  <1>5. t \in Seq(Seq(Symbol)) /\ Len(t) = n
    BY <1>1, <1>4
  <1> QED
    BY <1>1, <1>2, <1>4, <1>5 DEF t, n

\* The loop over the parts sees the conditions one by one.
ReadsParts(conds, t, sep) ==
  /\ t[Len(conds) + 1] = <<>>
  /\ \A j \in 1..(Len(conds) + 1) : t[j] \in Seq(Symbol)
  /\ \A j \in 1..Len(conds) :
       t[j] # <<>> /\ Part(t[j], sep) = CondText(conds[j]) /\ Behind(t[j], sep) = t[j + 1]
  /\ \A i \in 1..Len(t[1]) : t[1][i] # "}"

\* One turn of the loop reads one condition, for any number of them.
LEMMA CondTailsStep ==
  ASSUME NEW K, K = LogConds \/ K = TraceConds, NEW conds \in Seq(K),
         \A j \in 1..Len(conds) : Legible(conds[j]),
         NEW x \in {",", "and"}
  PROVE  ReadsParts(conds, Tails(CondTexts(conds), <<x>>), <<x>>)
  <1> DEFINE n == Len(conds)
             t == Tails(CondTexts(conds), <<x>>)
             texts == CondTexts(conds)
             w == <<x>>
  <1>1. x \in Symbol /\ x # "}"
    BY QueriesAreWritten DEF SymbolAssumption, Punctuation
  <1>2. texts \in Seq(Seq(Symbol)) /\ Len(texts) = n /\ n \in Nat
    BY CondTextsType
  <1>3. \A j \in 1..n :
          /\ texts[j] = CondText(conds[j])
          /\ texts[j] # <<>>
          /\ \A i \in 1..Len(texts[j]) : texts[j][i] \notin {",", "}", "and"}
    <2>1. \A j \in 1..n :
            /\ conds[j] \in LogConds \/ conds[j] \in TraceConds
            /\ texts[j] = CondText(conds[j]) /\ CondText(conds[j]) # <<>>
            /\ Legible(conds[j])
      BY CondTextsType, Zenon
    <2> HIDE DEF texts, n
    <2>2. ASSUME NEW j \in 1..n
          PROVE  \A i \in 1..Len(CondText(conds[j])) :
                   CondText(conds[j])[i] \notin {",", "}", "and"}
      BY <2>1, LegibleText, Zenon
    <2> QED
      BY <2>1, <2>2, Zenon
  <1>4. \A j \in 1..n :
          texts[j] # <<>> /\ \A i \in 1..Len(texts[j]) : texts[j][i] # x /\ texts[j][i] # "}"
    BY <1>3
  <1>5. w \in Seq(Symbol)
    BY <1>1, ShortSequences
  <1>6. t[n + 1] = <<>>
    <2> HIDE DEF texts, n
    <2> QED
      BY <1>2, TailsAt DEF texts
  <1>7. \A j \in 1..(n + 1) : t[j] \in Seq(Symbol)
    <2>1. \A j \in 1..(Len(texts) + 1) : Tails(texts, w)[j] \in Seq(Symbol)
      BY <1>2, <1>5, TailsType
    <2> HIDE DEF n
    <2> QED
      BY <1>2, <2>1
  <1>8. \A j \in 1..n :
          t[j] # <<>> /\ Part(t[j], <<x>>) = texts[j] /\ Behind(t[j], <<x>>) = t[j + 1]
    <2> HIDE DEF texts, n
    <2>1. /\ \A j \in 1..Len(texts) : texts[j] # <<>>
          /\ \A j \in 1..Len(texts) : \A i \in 1..Len(texts[j]) : texts[j][i] # x
      BY <1>2, <1>4
    <2>2. \A j \in 1..Len(texts) :
            /\ Tails(texts, <<x>>)[j] # <<>>
            /\ Part(Tails(texts, <<x>>)[j], <<x>>) = texts[j]
            /\ Behind(Tails(texts, <<x>>)[j], <<x>>) = Tails(texts, <<x>>)[j + 1]
      BY <1>1, <1>2, <2>1, JoinedStep, ZenonT(40)
    <2> QED
      BY <1>2, <2>2 DEF texts
  <1>9. \A i \in 1..Len(t[1]) : t[1][i] # "}"
    <2> HIDE DEF texts, n
    <2>1. \A j \in 1..Len(texts) : \A i \in 1..Len(texts[j]) : texts[j][i] # "}"
      BY <1>2, <1>4
    <2>2. \A i \in 1..Len(Tails(texts, <<x>>)[1]) : Tails(texts, <<x>>)[1][i] # "}"
      BY <1>1, <1>2, <2>1, JoinedLacks, Zenon
    <2> QED
      BY <2>2 DEF texts
  <1> HIDE DEF t
  <1>10. \A j \in 1..n :
           t[j] # <<>> /\ Part(t[j], w) = CondText(conds[j]) /\ Behind(t[j], w) = t[j + 1]
    BY <1>3, <1>8, Zenon
  <1> QED
    BY <1>6, <1>7, <1>9, <1>10, Zenon DEF ReadsParts, n, t

----------------------------------------------------------------------------
\* The text of filters

FilterOperator(f) == SubSeq(f.op, 2, Len(f.op))

\* The operator of a filter has two or three symbols, a bar or an exclamation mark first.
LEMMA FilterSymbols ==
  ASSUME NEW f \in LogFilters
  PROVE  /\ f.op \in Seq(Symbol) /\ f.value \in Plain /\ f.value \in Symbol
         /\ f.value \notin Punctuation
         /\ Len(f.op) = 2 \/ Len(f.op) = 3
         /\ Bar(f) \/ (f.op[1] = "!" /\ Len(f.op) = 2)
         /\ \A i \in 2..Len(f.op) : f.op[i] \in {"=", "!", "~"}
  <1>1. f.value \in Plain
    BY DEF LogFilters
  <1>2. f.value \in Symbol /\ f.value \notin Punctuation
    BY <1>1, NameSymbols
  <1>3. "|" \in Symbol /\ "!" \in Symbol /\ "=" \in Symbol /\ "~" \in Symbol
    BY QueriesAreWritten DEF SymbolAssumption, Punctuation
  <1>4. ASSUME NEW y \in {"=", "!", "~"}, NEW x \in {"|", "!"}, f.op = <<x, y>>
        PROVE  /\ f.op \in Seq(Symbol) /\ Len(f.op) = 2 /\ f.op[1] = x
               /\ \A i \in 2..Len(f.op) : f.op[i] \in {"=", "!", "~"}
    <2>1. x \in Symbol /\ y \in Symbol
      BY <1>3
    <2>2. f.op \in Seq(Symbol) /\ Len(f.op) = 2 /\ f.op[1] = x /\ f.op[2] = y
      BY <1>4, <2>1, ShortSequences
    <2>3. \A i \in 2..2 : i = 2
      OBVIOUS
    <2> QED
      BY <2>2, <2>3
  <1>5. ASSUME NEW y \in {"=", "~"}, f.op = <<"|", "!", y>>
        PROVE  /\ f.op \in Seq(Symbol) /\ Len(f.op) = 3 /\ f.op[1] = "|"
               /\ \A i \in 2..Len(f.op) : f.op[i] \in {"=", "!", "~"}
    <2>1. y \in Symbol
      BY <1>3
    <2>2. <<"|", "!", y>> \in Seq(Symbol)
      BY <1>3, <2>1
    <2>3. Len(f.op) = 3 /\ f.op[1] = "|" /\ f.op[2] = "!" /\ f.op[3] = y
      BY <1>5
    <2>4. \A i \in 2..3 : i = 2 \/ i = 3
      OBVIOUS
    <2> QED
      BY <1>5, <2>2, <2>3, <2>4
  <1>6. \/ \E y \in {"=", "!", "~"}, x \in {"|", "!"} : f.op = <<x, y>>
        \/ \E y \in {"=", "~"} : f.op = <<"|", "!", y>>
    <2>1. f.op \in {<<"|", "=">>, <<"|", "!", "=">>, <<"|", "~">>, <<"|", "!", "~">>,
                    <<"!", "=">>, <<"!", "~">>}
      BY DEF LogFilters
    <2> QED
      BY <2>1, Zenon
  <1>7. CASE \E y \in {"=", "!", "~"}, x \in {"|", "!"} : f.op = <<x, y>>
    <2>1. PICK y \in {"=", "!", "~"}, x \in {"|", "!"} : f.op = <<x, y>>
      BY <1>7
    <2>2. /\ f.op \in Seq(Symbol) /\ Len(f.op) = 2 /\ f.op[1] = x
          /\ \A i \in 2..Len(f.op) : f.op[i] \in {"=", "!", "~"}
      BY <1>4, <2>1
    <2> QED
      BY <1>1, <1>2, <2>2, Zenon DEF Bar
  <1>8. CASE \E y \in {"=", "~"} : f.op = <<"|", "!", y>>
    BY <1>1, <1>2, <1>5, <1>8, Zenon DEF Bar
  <1> QED
    BY <1>6, <1>7, <1>8

\* What stands where in a concatenation
LEMMA ConcatSymbols ==
  ASSUME NEW a \in Seq(Symbol), NEW b \in Seq(Symbol)
  PROVE  /\ a \o b \in Seq(Symbol) /\ Len(a \o b) = Len(a) + Len(b)
         /\ Len(a) \in Nat /\ Len(b) \in Nat
         /\ \A i \in 1..Len(a) : (a \o b)[i] = a[i]
         /\ \A i \in 1..Len(b) : (a \o b)[Len(a) + i] = b[i]
  OBVIOUS

\* The text of a filter with more text behind it, symbol by symbol
LEMMA FilterTextSymbols ==
  ASSUME NEW f \in LogFilters, NEW r \in Seq(Symbol)
  PROVE  /\ FilterText(f) \in Seq(Symbol) /\ FilterText(f) \o r \in Seq(Symbol)
         /\ Len(FilterText(f) \o r) = Len(f.op) + 1 + Len(r)
         /\ \A i \in 1..Len(f.op) : (FilterText(f) \o r)[i] = f.op[i]
         /\ (FilterText(f) \o r)[Len(f.op) + 1] = f.value
         /\ \A i \in 1..Len(r) : (FilterText(f) \o r)[Len(f.op) + 1 + i] = r[i]
  <1> DEFINE o == f.op
             v == <<f.value>>
             s == o \o v
             u == s \o r
  <1>1. o \in Seq(Symbol)
    BY FilterSymbols
  <1>2. v \in Seq(Symbol) /\ Len(v) = 1 /\ v[1] = f.value
    BY FilterSymbols, ShortSequences
  <1>6. FilterText(f) = s
    BY DEF FilterText
  <1> HIDE DEF o, v
  <1>3. /\ s \in Seq(Symbol) /\ Len(s) = Len(o) + Len(v)
        /\ Len(o) \in Nat /\ Len(v) \in Nat
        /\ \A i \in 1..Len(o) : s[i] = o[i]
        /\ \A i \in 1..Len(v) : s[Len(o) + i] = v[i]
    BY <1>1, <1>2, ConcatSymbols, Zenon
  <1> HIDE DEF s
  <1>4. /\ u \in Seq(Symbol) /\ Len(u) = Len(s) + Len(r)
        /\ Len(s) \in Nat /\ Len(r) \in Nat
        /\ \A i \in 1..Len(s) : u[i] = s[i]
        /\ \A i \in 1..Len(r) : u[Len(s) + i] = r[i]
    BY <1>3, ConcatSymbols, Zenon
  <1> HIDE DEF u
  <1>5. /\ Len(u) = Len(o) + 1 + Len(r)
        /\ \A i \in 1..Len(o) : u[i] = o[i]
        /\ u[Len(o) + 1] = f.value
        /\ \A i \in 1..Len(r) : u[Len(o) + 1 + i] = r[i]
    <2>1. \A i \in 1..Len(o) : i \in 1..Len(s)
      BY <1>2, <1>3
    <2>2. Len(o) + 1 \in 1..Len(s) /\ 1 \in 1..Len(v) /\ Len(s) = Len(o) + 1
      BY <1>2, <1>3
    <2>3. s[Len(o) + 1] = f.value
      BY <1>2, <1>3, <2>2
    <2> QED
      BY <1>3, <1>4, <2>1, <2>2, <2>3
  <1> QED
    BY <1>3, <1>4, <1>5, <1>6 DEF u, o

\* A bar, and a plain symbol behind one or two operator symbols: in an operator of L symbols
\* and the value behind it, only its first symbol can be the bar.
LEMMA FirstMatch ==
  ASSUME NEW E, NEW P, NEW b, b \notin E, b \notin P, \A y \in E : y \notin P,
         NEW L \in {2, 3}, NEW u, \A j \in 2..L : u[j] \in E, u[L + 1] \in P,
         NEW i \in Nat \ {0}, NEW k \in 1..2, u[i] = b, u[i + k + 1] \in P,
         \A j \in 1..k : u[i + j] \in E
  PROVE  (i = 1 /\ k = L - 1) \/ i > L + 1
  <1>1. i # L + 1 /\ ~(i \in 2..L)
    OBVIOUS
  <1>2. ASSUME i = 1
        PROVE  k = L - 1
    <2>1. L = 2 /\ k = 2 => FALSE
      <3> SUFFICES ASSUME L = 2, k = 2
                   PROVE  FALSE
        OBVIOUS
      <3>1. u[1 + 2] \in E
        BY <1>2
      <3>2. u[2 + 1] \in P
        OBVIOUS
      <3> QED
        BY <3>1, <3>2
    <2>2. L = 3 /\ k = 1 => FALSE
      <3> SUFFICES ASSUME L = 3, k = 1
                   PROVE  FALSE
        OBVIOUS
      <3>1. u[1 + 1 + 1] \in P
        BY <1>2
      <3>2. u[3] \in E
        OBVIOUS
      <3> QED
        BY <3>1, <3>2
    <2> QED
      BY <2>1, <2>2
  <1> QED
    BY <1>1, <1>2

\* A match in the text of filters is the first filter, from its bar on, or lies behind it.
LEMMA MatchFirst ==
  ASSUME NEW f \in LogFilters, NEW r \in Seq(Symbol), NEW u, u = FilterText(f) \o r,
         NEW i \in Nat \ {0}, NEW k \in 1..2, Match(u, i, k)
  PROVE  \/ i = 1 /\ Bar(f) /\ k = Len(f.op) - 1
         \/ i > Len(f.op) + 1
  <1> DEFINE o == f.op
             E == {"=", "!", "~"}
             L == Len(o)
             b == "|"
  <1>1. L \in {2, 3} /\ \A j \in 2..Len(o) : o[j] \in E
    BY FilterSymbols
  <1>2. f.value \in Plain
    BY FilterSymbols
  <1>3. b \notin E /\ b \notin Plain /\ \A y \in E : y \notin Plain
    BY NameSymbols DEF Punctuation
  <1>4. /\ Len(u) = Len(o) + 1 + Len(r) /\ Len(r) \in Nat
        /\ \A j \in 1..Len(o) : u[j] = o[j]
        /\ u[Len(o) + 1] = f.value
    BY FilterTextSymbols, LenProperties
  <1>5. u[i] = b /\ u[i + k + 1] \in Plain /\ \A j \in 1..k : u[i + j] \in E
    BY DEF Match
  <1>6. ASSUME b = o[1]
        PROVE  Bar(f)
    BY <1>6 DEF Bar
  <1> HIDE DEF o, E, b
  <1>7. \A j \in 2..L : u[j] \in E
    <2>1. \A j \in 2..L : j \in 1..L
      BY <1>1
    <2> QED
      BY <1>1, <1>4, <2>1
  <1>8. u[L + 1] \in Plain
    BY <1>2, <1>4
  <1> HIDE DEF L
  <1>9. (i = 1 /\ k = L - 1) \/ i > L + 1
    BY <1>1, <1>3, <1>5, <1>7, <1>8, FirstMatch, Zenon
  <1>10. ASSUME i = 1
         PROVE  b = o[1]
    <2>1. 1 \in 1..Len(o)
      <3>1. Len(o) \in {2, 3}
        BY <1>1 DEF L
      <3>2. \A n \in {2, 3} : 1 \in 1..n
        OBVIOUS
      <3> QED
        BY <3>1, <3>2, Zenon
    <2>2. u[1] = u[i]
      BY <1>10
    <2>4. u[1] = b
      BY <1>5, <2>2, Zenon
    <2>3. u[1] = o[1]
      BY <1>4, <2>1, Zenon
    <2> QED
      BY <2>3, <2>4, Zenon
  <1> QED
    BY <1>6, <1>9, <1>10 DEF L, o

\* A filter with its bar is matched.
LEMMA BarMatches ==
  ASSUME NEW f \in LogFilters, Bar(f), NEW r \in Seq(Symbol), NEW u, u = FilterText(f) \o r
  PROVE  <<1, Len(f.op) - 1>> \in Filters(u)
  <1> DEFINE o == f.op
  <1>1. /\ Len(o) = 2 \/ Len(o) = 3
        /\ o[1] = "|"
        /\ \A j \in 2..Len(o) : o[j] \in {"=", "!", "~"}
        /\ f.value \in Plain
    BY FilterSymbols DEF Bar
  <1>2. /\ Len(u) = Len(o) + 1 + Len(r) /\ Len(r) \in Nat
        /\ \A j \in 1..Len(o) : u[j] = o[j]
        /\ u[Len(o) + 1] = f.value
    BY FilterTextSymbols, LenProperties
  <1> HIDE DEF o
  <1>3. Match(u, 1, Len(o) - 1)
    <2>1. 1 + (Len(o) - 1) + 1 = Len(o) + 1 /\ Len(o) + 1 <= Len(u)
      BY <1>1, <1>2
    <2>2. u[1] = "|"
      BY <1>1, <1>2
    <2>3. ASSUME NEW j \in 1..(Len(o) - 1)
          PROVE  u[1 + j] \in {"=", "!", "~"}
      <3>1. 1 + j \in 2..Len(o) /\ 1 + j \in 1..Len(o)
        BY <1>1
      <3> QED
        BY <1>1, <1>2, <3>1
    <2> QED
      BY <1>1, <1>2, <2>1, <2>2, <2>3 DEF Match
  <1>4. 1 \in 1..Len(u) /\ Len(o) - 1 \in 1..2
    BY <1>1, <1>2
  <1>5. \A a \in 1..Len(u), b \in 1..2 : Match(u, a, b) => <<a, b>> \in Filters(u)
    BY DEF Filters
  <1> QED
    BY <1>3, <1>4, <1>5 DEF o

\* Where two texts agree, up to a shift, so do the pieces cut out of them.
LEMMA SamePiece ==
  ASSUME NEW A, NEW u \in Seq(A), NEW s \in Seq(A), NEW d \in Nat, NEW p \in Nat, NEW q \in Nat,
         1 <= p, q <= Len(s), q + d <= Len(u), \A i \in p..q : u[i + d] = s[i]
  PROVE  SubSeq(u, p + d, q + d) = SubSeq(s, p, q)
  <1> DEFINE a == SubSeq(u, p + d, q + d)
             b == SubSeq(s, p, q)
             n == q - p + 1
  <1>0. Len(u) \in Nat /\ Len(s) \in Nat
    OBVIOUS
  <1>1. \A i \in (p + d)..(q + d) : u[i] \in A
    <2>1. \A i \in (p + d)..(q + d) : i \in 1..Len(u)
      BY <1>0
    <2>2. \A i \in 1..Len(u) : u[i] \in A
      OBVIOUS
    <2> QED
      BY <2>1, <2>2
  <1>2. \A i \in p..q : s[i] \in A
    <2>1. \A i \in p..q : i \in 1..Len(s)
      BY <1>0
    <2>2. \A i \in 1..Len(s) : s[i] \in A
      OBVIOUS
    <2> QED
      BY <2>1, <2>2
  <1>3. /\ a \in Seq(A) /\ Len(a) = IF p + d <= q + d THEN (q + d) - (p + d) + 1 ELSE 0
        /\ \A i \in 1..((q + d) - (p + d) + 1) : a[i] = u[(p + d) + i - 1]
    BY <1>1, SubSeqProperties
  <1>4. /\ b \in Seq(A) /\ Len(b) = IF p <= q THEN n ELSE 0
        /\ \A i \in 1..n : b[i] = s[p + i - 1]
    BY <1>2, SubSeqProperties
  <1> HIDE DEF a, b
  <1>5. Len(a) = Len(b)
    BY <1>3, <1>4
  <1>6. ASSUME NEW i \in 1..Len(a)
        PROVE  a[i] = b[i]
    <2>1. i \in 1..n /\ i \in 1..((q + d) - (p + d) + 1)
      BY <1>3
    <2>2. p + i - 1 \in p..q /\ (p + d) + i - 1 = (p + i - 1) + d
      BY <2>1
    <2>3. a[i] = u[(p + i - 1) + d] /\ b[i] = s[p + i - 1]
      BY <1>3, <1>4, <2>1, <2>2
    <2> QED
      BY <2>2, <2>3
  <1>7. a = b
    BY <1>3, <1>4, <1>5, <1>6, SeqEqual
  <1> QED
    BY <1>7 DEF a, b

\* What a step of the loop over the matches reads: the filter f, and r is left.
ReadsFilter(s, i, k, f, r) ==
  /\ Bar(f) /\ SubSeq(s, i + 1, i + k) = FilterOperator(f) /\ s[i + k + 1] = f.value
  /\ SubSeq(s, i + k + 2, Len(s)) = r

\* From its bar on, a filter is read as it was written.
LEMMA ReadsFirst ==
  ASSUME NEW f \in LogFilters, Bar(f), NEW r \in Seq(Symbol), NEW u, u = FilterText(f) \o r,
         NEW k, k = Len(f.op) - 1
  PROVE  ReadsFilter(u, 1, k, f, r)
  <1> DEFINE o == f.op
  <1>1. o \in Seq(Symbol)
    BY FilterSymbols
  <1>2. Len(o) = 2 \/ Len(o) = 3
    BY FilterSymbols
  <1>3. /\ u \in Seq(Symbol)
        /\ Len(u) = Len(o) + 1 + Len(r)
        /\ \A i \in 1..Len(o) : u[i] = o[i]
        /\ u[Len(o) + 1] = f.value
        /\ \A i \in 1..Len(r) : u[Len(o) + 1 + i] = r[i]
    BY FilterTextSymbols
  <1>4. Len(r) \in Nat
    BY LenProperties
  <1>5. k = Len(o) - 1
    OBVIOUS
  <1>6. FilterOperator(f) = SubSeq(o, 2, Len(o))
    BY DEF FilterOperator
  <1> HIDE DEF o
  <1>7. SubSeq(u, 1 + 1, 1 + k) = SubSeq(o, 2, Len(o))
    <2>1. \A i \in 2..Len(o) : u[i + 0] = o[i]
      BY <1>2, <1>3
    <2>2. Len(o) \in Nat /\ Len(o) + 0 <= Len(u)
      BY <1>2, <1>3, <1>4
    <2>3. SubSeq(u, 2 + 0, Len(o) + 0) = SubSeq(o, 2, Len(o))
      BY <1>1, <1>3, <2>1, <2>2, SamePiece
    <2>4. 2 + 0 = 1 + 1 /\ Len(o) + 0 = 1 + k
      BY <1>2, <1>5
    <2> QED
      BY <2>3, <2>4
  <1>8. SubSeq(u, 1 + k + 2, Len(u)) = r
    <2> DEFINE L == Len(o) + 1
    <2>1. L \in Nat /\ Len(u) = Len(r) + L /\ 1 + k + 2 = 1 + L
      BY <1>2, <1>3, <1>4, <1>5
    <2>2. \A i \in 1..Len(r) : u[i + L] = r[i]
      BY <1>3, <1>4, <2>1
    <2> HIDE DEF L
    <2>3. SubSeq(u, 1 + L, Len(r) + L) = SubSeq(r, 1, Len(r))
      BY <1>3, <1>4, <2>1, <2>2, SamePiece
    <2>4. SubSeq(r, 1, Len(r)) = r
      BY SubSeqFull
    <2> QED
      BY <2>1, <2>3, <2>4
  <1>9. u[1 + k + 1] = f.value
    <2>1. 1 + k + 1 = Len(o) + 1
      BY <1>2, <1>5
    <2> QED
      BY <1>3, <2>1
  <1> QED
    BY <1>6, <1>7, <1>8, <1>9 DEF ReadsFilter

\* A match behind the first filter is a match of the rest.
LEMMA ReadsBehind ==
  ASSUME NEW f \in LogFilters, NEW r \in Seq(Symbol), NEW u, u = FilterText(f) \o r,
         NEW i \in 1..Len(u), NEW k \in 1..2, Match(u, i, k), i > Len(f.op) + 1
  PROVE  \E h \in 1..Len(r) :
           /\ Match(r, h, k)
           /\ \A g, e : ReadsFilter(r, h, k, g, e) => ReadsFilter(u, i, k, g, e)
  <1> DEFINE L == Len(f.op) + 1
             h == i - L
  <1>1. L \in Nat /\ L > 1
    <2>1. Len(f.op) \in {2, 3}
      BY FilterSymbols
    <2>2. \A n \in {2, 3} : n + 1 \in Nat /\ n + 1 > 1
      OBVIOUS
    <2> QED
      BY <2>1, <2>2, Zenon
  <1>2. u \in Seq(Symbol) /\ Len(u) = L + Len(r) /\ \A j \in 1..Len(r) : u[L + j] = r[j]
    BY FilterTextSymbols
  <1>3. i > L
    OBVIOUS
  <1>4. Len(r) \in Nat
    BY LenProperties
  <1>5. /\ i + k + 1 <= Len(u) /\ u[i] = "|" /\ u[i + k + 1] \in Plain
        /\ \A j \in 1..k : u[i + j] \in {"=", "!", "~"}
    BY Zenon DEF Match
  <1>6. h \in 1..Len(r) /\ h + k + 1 <= Len(r) /\ i = h + L
    <2> HIDE DEF L
    <2>1. i \in Nat /\ i + k + 1 <= L + Len(r)
      BY <1>1, <1>2, <1>4, <1>5
    <2> QED
      BY <1>1, <1>3, <1>4, <2>1
  <1> HIDE DEF L, h
  <1>7. \A j \in 0..(k + 1) : r[h + j] = u[i + j]
    <2> TAKE j \in 0..(k + 1)
    <2>1. h + j \in 1..Len(r) /\ L + (h + j) = i + j
      BY <1>1, <1>4, <1>6
    <2> QED
      BY <1>2, <2>1
  <1>8. Match(r, h, k)
    <2>1. r[h] = u[i]
      <3>1. 0 \in 0..(k + 1) /\ h + 0 = h /\ i + 0 = i
        BY <1>6
      <3> QED
        BY <1>7, <3>1, Zenon
    <2>2. r[h + k + 1] = u[i + k + 1]
      <3>1. k + 1 \in 0..(k + 1) /\ h + (k + 1) = h + k + 1 /\ i + (k + 1) = i + k + 1
        BY <1>6
      <3> QED
        BY <1>7, <3>1, Zenon
    <2>3. \A j \in 1..k : r[h + j] = u[i + j]
      <3>1. \A j \in 1..k : j \in 0..(k + 1)
        OBVIOUS
      <3> QED
        BY <1>7, <3>1, Zenon
    <2> QED
      BY <1>5, <1>6, <2>1, <2>2, <2>3, Zenon DEF Match
  <1>9. ASSUME NEW g, NEW e, ReadsFilter(r, h, k, g, e)
        PROVE  ReadsFilter(u, i, k, g, e)
    <2>1. \A p, q \in Nat : 1 <= p /\ q <= Len(r) => SubSeq(u, p + L, q + L) = SubSeq(r, p, q)
      <3> TAKE p, q \in Nat
      <3> HAVE 1 <= p /\ q <= Len(r)
      <3>1. q + L <= Len(u) /\ \A j \in p..q : u[j + L] = r[j]
        BY <1>1, <1>2, <1>4
      <3> QED
        BY <1>1, <1>2, <3>1, SamePiece
    <2>2. SubSeq(u, (h + 1) + L, (h + k) + L) = SubSeq(r, h + 1, h + k)
      <3>1. h + 1 \in Nat /\ h + k \in Nat /\ 1 <= h + 1 /\ h + k <= Len(r)
        BY <1>4, <1>6
      <3> QED
        BY <2>1, <3>1, Zenon
    <2>3. SubSeq(u, (h + k + 2) + L, Len(r) + L) = SubSeq(r, h + k + 2, Len(r))
      <3>1. h + k + 2 \in Nat /\ 1 <= h + k + 2 /\ Len(r) <= Len(r)
        BY <1>4, <1>6
      <3> QED
        BY <1>4, <2>1, <3>1, Zenon
    <2>4. /\ (h + 1) + L = i + 1 /\ (h + k) + L = i + k /\ (h + k + 2) + L = i + k + 2
          /\ Len(r) + L = Len(u)
      BY <1>1, <1>2, <1>4, <1>6
    <2>5. SubSeq(u, i + 1, i + k) = SubSeq(r, h + 1, h + k)
      BY <2>2, <2>4, Zenon
    <2>6. SubSeq(u, i + k + 2, Len(u)) = SubSeq(r, h + k + 2, Len(r))
      BY <2>3, <2>4, Zenon
    <2>7. u[i + k + 1] = r[h + k + 1]
      <3>1. k + 1 \in 0..(k + 1) /\ h + (k + 1) = h + k + 1 /\ i + (k + 1) = i + k + 1
        BY <1>6
      <3> QED
        BY <1>7, <3>1, Zenon
    <2> QED
      BY <1>9, <2>5, <2>6, <2>7, Zenon DEF ReadsFilter
  <1> QED
    BY <1>6, <1>8, <1>9

\* The text of filters, from any of them on
LEMMA FilterTailsAt ==
  ASSUME NEW filters \in Seq(LogFilters), NEW t, t = FilterTails(filters)
  PROVE  /\ Len(filters) \in Nat /\ t[Len(filters) + 1] = <<>>
         /\ \A j \in 1..(Len(filters) + 1) : t[j] \in Seq(Symbol)
         /\ \A j \in 1..Len(filters) :
              filters[j] \in LogFilters /\ t[j] = FilterText(filters[j]) \o t[j + 1]
  <1> DEFINE n == Len(filters)
             texts == FilterTexts(filters)
  <1>1. n \in Nat /\ \A j \in 1..n : filters[j] \in LogFilters
    OBVIOUS
  <1>2. ASSUME NEW f \in LogFilters
        PROVE  FilterText(f) \in Seq(Symbol)
    <2>1. <<>> \in Seq(Symbol)
      OBVIOUS
    <2> QED
      BY <2>1, FilterTextSymbols, Zenon
  <1>3. \A j \in 1..n : FilterText(filters[j]) \in Seq(Symbol)
    BY <1>1, <1>2, Zenon
  <1>4. /\ texts \in Seq(Seq(Symbol)) /\ Len(texts) = n
        /\ \A j \in 1..n : texts[j] = FilterText(filters[j])
    <2> HIDE DEF n
    <2>1. texts = [j \in 1..n |-> FilterText(filters[j])]
      BY DEF FilterTexts, n
    <2>2. texts \in [1..n -> Seq(Symbol)]
      BY <1>3, <2>1
    <2>3. \A j \in 1..n : texts[j] = FilterText(filters[j])
      BY <2>1
    <2> HIDE DEF texts
    <2>4. texts \in Seq(Seq(Symbol)) /\ Len(texts) = n
      BY <1>1, <2>2
    <2> QED
      BY <2>3, <2>4
  <1>5. t = Tails(texts, <<>>)
    BY DEF FilterTails
  <1> HIDE DEF n, texts
  <1>6. /\ t[n + 1] = <<>>
        /\ \A j \in 1..n :
             t[j] = texts[j] \o (IF j = n THEN <<>> ELSE <<>> \o t[j + 1])
    <2>1. Len(texts) \in Nat
      BY <1>1, <1>4
    <2> DEFINE T == Tails(texts, <<>>)
    <2>2. /\ T[Len(texts) + 1] = <<>>
          /\ \A j \in 1..Len(texts) :
               T[j] = texts[j] \o (IF j = Len(texts) THEN <<>> ELSE <<>> \o T[j + 1])
      BY <2>1, TailsAt, ZenonT(40)
    <2>3. Len(texts) = n /\ T = t
      BY <1>4, <1>5
    <2> HIDE DEF T
    <2>4. T[n + 1] = <<>>
      BY <2>2, <2>3, Zenon
    <2>5. ASSUME NEW j \in 1..n
          PROVE  T[j] = texts[j] \o (IF j = n THEN <<>> ELSE <<>> \o T[j + 1])
      BY <2>2, <2>3, Zenon
    <2> QED
      BY <2>3, <2>4, <2>5, Zenon
  <1>7. \A j \in 1..(n + 1) : t[j] \in Seq(Symbol)
    <2>1. <<>> \in Seq(Symbol)
      OBVIOUS
    <2>2. \A j \in 1..(Len(texts) + 1) : t[j] \in Seq(Symbol)
      BY <1>4, <1>5, <2>1, TailsType, Zenon
    <2>3. Len(texts) = n
      BY <1>4
    <2> QED
      BY <2>2, <2>3, Zenon
  <1>8. ASSUME NEW j \in 1..n
        PROVE  t[j] = FilterText(filters[j]) \o t[j + 1]
    <2>1. texts[j] = FilterText(filters[j])
      BY <1>4
    <2>2. j + 1 \in 1..(n + 1)
      BY <1>1
    <2>3. t[j + 1] \in Seq(Symbol)
      BY <1>7, <2>2, Zenon
    <2>4. <<>> \o t[j + 1] = t[j + 1]
      BY <2>3, ConcatEmptySeq, Zenon
    <2>5. CASE j = n
      <3>1. t[j + 1] = <<>>
        BY <1>6, <2>5, Zenon
      <3> QED
        BY <1>6, <2>1, <2>5, <3>1, Zenon
    <2>6. CASE j # n
      BY <1>6, <2>1, <2>4, <2>6, Zenon
    <2> QED
      BY <2>5, <2>6
  <1> QED
    BY <1>1, <1>6, <1>7, <1>8 DEF n

\* Whatever is matched in the text of filters is a filter with its bar, read as it was written,
\* and what is left is the text of those behind it.
LEMMA FilterTailsRead ==
  ASSUME NEW filters \in Seq(LogFilters), NEW t, t = FilterTails(filters)
  PROVE  \A j \in 1..(Len(filters) + 1) : \A i \in 1..Len(t[j]), k \in 1..2 :
           Match(t[j], i, k) =>
             \E g \in j..Len(filters) :
               ReadsFilter(t[j], i, k, filters[g], t[g + 1]) /\ (i = 1 => g = j)
  <1> DEFINE n == Len(filters)
             ReadFrom(j, i, k) == \E g \in j..n :
               ReadsFilter(t[j], i, k, filters[g], t[g + 1]) /\ (i = 1 => g = j)
             S == {j \in 1..(n + 1) : \A i \in 1..Len(t[j]), k \in 1..2 :
                     Match(t[j], i, k) => ReadFrom(j, i, k)}
  <1>1. /\ n \in Nat /\ t[n + 1] = <<>>
        /\ \A j \in 1..(n + 1) : t[j] \in Seq(Symbol)
        /\ \A j \in 1..n : filters[j] \in LogFilters /\ t[j] = FilterText(filters[j]) \o t[j + 1]
    BY FilterTailsAt
  <1> HIDE DEF n
  <1>2. n + 1 \in S
    <2>1. Len(t[n + 1]) = 0
      BY <1>1
    <2>2. \A i \in 1..Len(t[n + 1]) : FALSE
      BY <2>1
    <2>3. n + 1 \in 1..(n + 1)
      BY <1>1
    <2> QED
      BY <2>2, <2>3, Zenon
  <1>3. ASSUME NEW j \in 1..n, j + 1 \in S
        PROVE  j \in S
    <2> DEFINE u == t[j]
               f == filters[j]
               r == t[j + 1]
    <2>0. j \in 1..(n + 1) /\ j + 1 \in 1..(n + 1)
      BY <1>1
    <2>1. f \in LogFilters /\ u = FilterText(f) \o r
      BY <1>1
    <2>2. r \in Seq(Symbol) /\ u \in Seq(Symbol)
      BY <1>1, <2>0
    <2>3. \A i \in 1..Len(r), k \in 1..2 : Match(r, i, k) => ReadFrom(j + 1, i, k)
      BY <1>3
    <2>4. ASSUME NEW i \in 1..Len(u), NEW k \in 1..2, Match(u, i, k)
          PROVE  ReadFrom(j, i, k)
      <3> HIDE DEF u, f, r
      <3>0. i \in Nat \ {0} /\ Len(f.op) \in Nat
        <4>1. Len(f.op) = 2 \/ Len(f.op) = 3
          BY <2>1, FilterSymbols, Zenon
        <4>2. 2 \in Nat /\ 3 \in Nat
          OBVIOUS
        <4> QED
          BY <4>1, <4>2
      <3>1. \/ i = 1 /\ Bar(f) /\ k = Len(f.op) - 1
            \/ i > Len(f.op) + 1
        BY <2>1, <2>2, <2>4, <3>0, MatchFirst, Zenon
      <3>2. CASE i = 1 /\ Bar(f) /\ k = Len(f.op) - 1
        <4>1. ReadsFilter(u, 1, k, f, r)
          BY <2>1, <2>2, <3>2, ReadsFirst, Zenon
        <4>2. j \in j..n
          BY <1>1
        <4> QED
          BY <3>2, <4>1, <4>2, Zenon DEF u, f, r
      <3>3. CASE i > Len(f.op) + 1
        <4>1. PICK h \in 1..Len(r) :
                /\ Match(r, h, k)
                /\ \A g, e : ReadsFilter(r, h, k, g, e) => ReadsFilter(u, i, k, g, e)
          BY <2>1, <2>2, <2>4, <3>3, ReadsBehind, Zenon
        <4>2. ReadFrom(j + 1, h, k)
          BY <2>3, <4>1, Zenon
        <4>3. PICK g \in (j + 1)..n : ReadsFilter(t[j + 1], h, k, filters[g], t[g + 1])
          BY <4>2, Zenon
        <4>4. ReadsFilter(u, i, k, filters[g], t[g + 1])
          BY <4>1, <4>3, Zenon DEF r
        <4>5. g \in j..n
          BY <1>1
        <4>6. i # 1
          <5>1. \A L \in Nat : i > L + 1 => i # 1
            BY <3>0
          <5> QED
            BY <3>0, <3>3, <5>1, Zenon
        <4> QED
          BY <4>4, <4>5, <4>6, Zenon DEF u
      <3> QED
        BY <3>1, <3>2, <3>3
    <2> HIDE DEF ReadFrom
    <2> QED
      BY <2>0, <2>4, Zenon
  <1> HIDE DEF S, ReadFrom
  <1>4. 1..(n + 1) \subseteq S
    BY <1>1, <1>2, <1>3, DownwardInduction, Zenon
  <1> QED
    BY <1>4, Zenon DEF S, ReadFrom, n

\* A step of the loop over the matches reads the next filter that has its bar, or skips to a
\* later one; a text without match holds no filter with its bar.
FirstMatched(s) == Min({m[1] : m \in Filters(s)})
LongestMatched(s) == Max({m[2] : m \in {n \in Filters(s) : n[1] = FirstMatched(s)}})

ReadsNext(filters, t, j) ==
  \E g \in j..Len(filters) :
    /\ ReadsFilter(t[j], FirstMatched(t[j]), LongestMatched(t[j]), filters[g], t[g + 1])
    /\ Bar(filters[j]) /\ j <= Len(filters) => g = j

\* A match is the next filter if it has its bar, and a later one if not.
LEMMA NextFilter ==
  ASSUME NEW filters \in Seq(LogFilters), NEW j \in 1..(Len(filters) + 1),
         Filters(FilterTails(filters)[j]) # {}
  PROVE  ReadsNext(filters, FilterTails(filters), j)
  <1> DEFINE t == FilterTails(filters)
             s == t[j]
             i == FirstMatched(s)
             k == LongestMatched(s)
             F == Filters(s)
             I == {m[1] : m \in F}
             K == {m[2] : m \in {n \in F : n[1] = i}}
  <1>1. F = {m \in (1..Len(s)) \X (1..2) : Match(s, m[1], m[2])}
    BY DEF Filters
  <1>2. Len(s) \in Nat
    BY FilterTailsAt
  <1>10. F # {} /\ i = Min(I) /\ k = Max(K)
    BY DEF FirstMatched, LongestMatched
  <1>11. F = Filters(s)
    OBVIOUS
  <1> HIDE DEF s, F, i, k
  <1>3. \A m \in F : m[1] \in 1..Len(s) /\ m[2] \in 1..2 /\ Match(s, m[1], m[2])
    BY <1>1
  <1>4. i \in I /\ \A y \in I : i <= y
    <2>1. I \subseteq Nat /\ I # {}
      BY <1>2, <1>3, <1>10
    <2> HIDE DEF I
    <2> QED
      BY <1>10, <2>1, MinIn, Zenon
  <1>5. k \in K
    <2>1. PICK m \in F : m[1] = i
      BY <1>4
    <2>2. m[2] \in K
      BY <2>1
    <2>3. ASSUME NEW y \in K
          PROVE  y \in 1..2
      <3>1. PICK n \in F : y = n[2]
        OBVIOUS
      <3> QED
        BY <1>3, <3>1
    <2> HIDE DEF K
    <2>4. K \subseteq 1..2 /\ K # {}
      BY <2>2, <2>3
    <2> QED
      BY <1>10, <2>4, MaxIn, Zenon
  <1>6. PICK m \in F : m[1] = i /\ m[2] = k
    BY <1>5, Zenon
  <1>7. i \in 1..Len(s) /\ k \in 1..2 /\ Match(s, i, k)
    BY <1>3, <1>6, Zenon
  <1>8. PICK g \in j..Len(filters) :
          ReadsFilter(t[j], i, k, filters[g], t[g + 1]) /\ (i = 1 => g = j)
    <2>1. \A a \in 1..Len(t[j]), b \in 1..2 :
            Match(t[j], a, b) =>
              \E g \in j..Len(filters) :
                ReadsFilter(t[j], a, b, filters[g], t[g + 1]) /\ (a = 1 => g = j)
      <3>1. t = FilterTails(filters)
        OBVIOUS
      <3> HIDE DEF t
      <3>2. \A e \in 1..(Len(filters) + 1) : \A a \in 1..Len(t[e]), b \in 1..2 :
              Match(t[e], a, b) =>
                \E g \in e..Len(filters) :
                  ReadsFilter(t[e], a, b, filters[g], t[g + 1]) /\ (a = 1 => g = e)
        BY <3>1, FilterTailsRead, Zenon
      <3> QED
        BY <3>2, Zenon
    <2> QED
      BY <1>7, <2>1, Zenon DEF s
  <1>9. ASSUME Bar(filters[j]), j <= Len(filters)
        PROVE  i = 1
    <2>1. j \in 1..Len(filters) /\ j + 1 \in 1..(Len(filters) + 1)
      <3>1. Len(filters) \in Nat
        BY FilterTailsAt, Zenon
      <3> QED
        BY <1>9, <3>1
    <2>2. /\ filters[j] \in LogFilters /\ s = FilterText(filters[j]) \o t[j + 1]
          /\ t[j + 1] \in Seq(Symbol)
      BY <2>1, FilterTailsAt, Zenon DEF s
    <2>3. <<1, Len(filters[j].op) - 1>> \in Filters(s)
      BY <1>9, <2>2, BarMatches, Zenon
    <2>4. 1 \in I
      <3> DEFINE q == <<1, Len(filters[j].op) - 1>>
      <3>1. q \in F /\ q[1] = 1
        BY <1>11, <2>3
      <3> HIDE DEF q
      <3> QED
        BY <3>1
    <2>5. i <= 1
      BY <1>4, <2>4, Zenon
    <2>6. i \in 1..Len(s)
      BY <1>7
    <2> HIDE DEF I
    <2> QED
      BY <1>2, <2>5, <2>6
  <1> QED
    BY <1>8, <1>9, Zenon DEF ReadsNext, s, i, k

----------------------------------------------------------------------------
\* Where the translators start

\* What strings.HasPrefix says of one symbol.
LEMMA StartsWith ==
  ASSUME NEW s \in Seq(Symbol), NEW x \in Symbol
  PROVE  IsPrefix(<<x>>, s) <=> s # <<>> /\ s[1] = x
  <1> DEFINE w == <<x>>
             a == SubSeq(w, 1, 1)
             b == SubSeq(s, 1, 1)
  <1>1. w \in Seq(Symbol) /\ Len(w) = 1 /\ w[1] = x
    BY ShortSequences
  <1>2. a = w
    <2> HIDE DEF w
    <2> QED
      BY <1>1, SubSeqFull
  <1>3. IsPrefix(w, s) <=> 1 <= Len(s) /\ a = b
    BY <1>1 DEF IsPrefix
  <1>4. s # <<>> <=> 1 <= Len(s)
    OBVIOUS
  <1>5. ASSUME 1 <= Len(s)
        PROVE  b \in Seq(Symbol) /\ Len(b) = 1 /\ b[1] = s[1]
    BY <1>5
  <1> HIDE DEF w, a, b
  <1>6. ASSUME 1 <= Len(s)
        PROVE  w = b <=> s[1] = x
    <2>1. w = b => s[1] = x
      BY <1>1, <1>5, <1>6
    <2>2. ASSUME s[1] = x
          PROVE  w = b
      <3>1. \A i \in 1..Len(w) : w[i] = b[i]
        BY <1>1, <1>5, <1>6, <2>2
      <3>2. Len(w) = Len(b)
        BY <1>1, <1>5, <1>6
      <3> QED
        BY <1>1, <1>5, <1>6, <3>1, <3>2, SeqEqual
    <2> QED
      BY <2>1, <2>2
  <1> QED
    BY <1>2, <1>3, <1>4, <1>6 DEF w

\* Three texts put together.
LEMMA Associative ==
  ASSUME NEW a \in Seq(Symbol), NEW b \in Seq(Symbol), NEW c \in Seq(Symbol)
  PROVE  (a \o b) \o c = a \o (b \o c)
  BY ConcatAssociative

\* A text is cut at the first place of a symbol.
LEMMA SplitSymbols ==
  ASSUME NEW a \in Seq(Symbol), NEW b \in Seq(Symbol), NEW x \in Symbol,
         \A i \in 1..Len(a) : a[i] # x
  PROVE  /\ Before(a \o (<<x>> \o b), <<x>>) = a
         /\ After(a \o (<<x>> \o b), <<x>>) = b
         /\ Behind(a \o (<<x>> \o b), <<x>>) = b
  BY SplitAt

\* What stands between two symbols ends where the second one occurs first.
LEMMA Enclosed ==
  ASSUME NEW o \in Symbol, NEW x \in Symbol, o # x,
         NEW c \in Seq(Symbol), NEW p \in Seq(Symbol), \A i \in 1..Len(c) : c[i] # x
  PROVE  /\ IsPrefix(<<o>>, ((<<o>> \o c) \o <<x>>) \o p)
         /\ Tail(Before(((<<o>> \o c) \o <<x>>) \o p, <<x>>)) = c
         /\ After(((<<o>> \o c) \o <<x>>) \o p, <<x>>) = p
  <1> DEFINE l == <<o>>
             r == <<x>>
             a == l \o c
             s == (a \o r) \o p
  <1>2. l \in Seq(Symbol) /\ Len(l) = 1 /\ l[1] = o /\ r \in Seq(Symbol)
    BY ShortSequences
  <1>3. s = (a \o r) \o p
    OBVIOUS
  <1>4. \A i \in 1..Len(c) : c[i] # x
    OBVIOUS
  <1>13. s = ((<<o>> \o c) \o <<x>>) \o p
    OBVIOUS
  <1> HIDE DEF l, r, s
  <1>5. /\ a \in Seq(Symbol) /\ Len(a) = Len(l) + Len(c)
        /\ Len(l) \in Nat /\ Len(c) \in Nat
        /\ \A i \in 1..Len(l) : a[i] = l[i]
        /\ \A i \in 1..Len(c) : a[Len(l) + i] = c[i]
    BY <1>2, ConcatSymbols, Zenon
  <1>6. \A i \in 1..Len(l) : l[i] # x
    BY <1>2
  <1>7. \A i \in 1..Len(a) : a[i] # x
    BY <1>2, <1>4, <1>6, ConcatLacks
  <1>8. Tail(a) = c
    <2> HIDE DEF a
    <2> DEFINE e == Tail(a)
    <2>1. a # <<>>
      BY <1>2, <1>5
    <2>2. /\ e \in Seq(Symbol) /\ Len(e) = Len(a) - 1
          /\ \A i \in 1..Len(e) : e[i] = a[i + 1]
      BY <1>5, <2>1, HeadTailProperties
    <2>3. Len(e) = Len(c)
      BY <1>2, <1>5, <2>2
    <2> HIDE DEF e
    <2>4. ASSUME NEW i \in 1..Len(e)
          PROVE  e[i] = c[i]
      <3>1. i \in 1..Len(c) /\ i + 1 = Len(l) + i
        BY <1>2, <2>3
      <3> QED
        BY <1>5, <2>2, <3>1
    <2>5. e = c
      BY <2>2, <2>3, <2>4, SeqEqual
    <2> QED
      BY <2>5 DEF e
  <1>9. s = a \o (r \o p)
    <2> HIDE DEF a
    <2>1. (a \o r) \o p = a \o (r \o p)
      BY <1>2, <1>5, Associative, Zenon
    <2> QED
      BY <1>3, <2>1, Zenon
  <1>10. Before(s, <<x>>) = a /\ After(s, <<x>>) = p
    <2> HIDE DEF a
    <2>1. /\ Before(a \o (<<x>> \o p), <<x>>) = a
          /\ After(a \o (<<x>> \o p), <<x>>) = p
      BY <1>5, <1>7, SplitSymbols, Zenon
    <2> QED
      BY <1>9, <2>1, Zenon DEF r
  <1>11. s # <<>> /\ s[1] = o /\ s \in Seq(Symbol)
    <2> HIDE DEF a
    <2> DEFINE y == r \o p
    <2>1. y \in Seq(Symbol)
      BY <1>2, ConcatSymbols, Zenon
    <2> HIDE DEF y
    <2>2. s = a \o y
      BY <1>9 DEF y
    <2> DEFINE z == a \o y
    <2>6. /\ z \in Seq(Symbol) /\ Len(z) = Len(a) + Len(y) /\ Len(y) \in Nat /\ Len(a) \in Nat
          /\ \A i \in 1..Len(a) : z[i] = a[i]
      BY <1>5, <2>1, ConcatSymbols, Zenon
    <2>3. /\ s \in Seq(Symbol) /\ Len(s) = Len(a) + Len(y) /\ Len(y) \in Nat /\ Len(a) \in Nat
          /\ \A i \in 1..Len(a) : s[i] = a[i]
      BY <2>2, <2>6
    <2>4. a[1] = o /\ 1 \in 1..Len(a)
      BY <1>2, <1>5
    <2>5. Len(s) # 0
      BY <2>3, <2>4
    <2> QED
      BY <2>3, <2>4, <2>5
  <1>12. IsPrefix(l, s)
    BY <1>11, StartsWith DEF l
  <1> QED
    BY <1>8, <1>10, <1>12, <1>13 DEF l

\* What was put between two symbols is cut out again.
LEMMA EnclosedTail ==
  \A c, p \in Seq(Symbol), o, x \in Symbol :
    o # x /\ (\A i \in 1..Len(c) : c[i] # x) =>
      Tail(Before(((<<o>> \o c) \o <<x>>) \o p, <<x>>)) = c
  BY Enclosed, ZenonT(40)

\* The first closing brace is the one the selector was closed with.
LEMMA OpenedSelector ==
  ASSUME NEW c \in Seq(Symbol), NEW p \in Seq(Symbol), \A i \in 1..Len(c) : c[i] # "}"
  PROVE  /\ IsPrefix(<<"{">>, ((<<"{">> \o c) \o <<"}">>) \o p)
         /\ Tail(Before(((<<"{">> \o c) \o <<"}">>) \o p, <<"}">>)) = c
         /\ After(((<<"{">> \o c) \o <<"}">>) \o p, <<"}">>) = p
  <1>1. "{" \in Symbol /\ "}" \in Symbol /\ "{" # "}"
    BY QueriesAreWritten, Zenon DEF SymbolAssumption, Punctuation
  <1>2. IsPrefix(<<"{">>, ((<<"{">> \o c) \o <<"}">>) \o p)
    BY <1>1, Enclosed, Zenon
  <1> DEFINE Z(o, x) == Tail(Before(((<<o>> \o c) \o <<x>>) \o p, <<x>>))
  <1>3. Z("{", "}") = c
    <2>1. \A o, x \in Symbol : o # x /\ (\A i \in 1..Len(c) : c[i] # x) => Z(o, x) = c
      BY EnclosedTail, Zenon
    <2> HIDE DEF Z
    <2> QED
      BY <1>1, <2>1, Zenon
  <1>4. After(((<<"{">> \o c) \o <<"}">>) \o p, <<"}">>) = p
    BY <1>1, Enclosed, Zenon
  <1> QED
    BY <1>2, <1>3, <1>4, Zenon

\* Filters without a selector do not start with a brace.
LEMMA OpenedFilters ==
  ASSUME NEW filters \in Seq(LogFilters), NEW s, s = FilterTails(filters)[1]
  PROVE  ~IsPrefix(<<"{">>, s)
  <1> DEFINE t == FilterTails(filters)
             n == Len(filters)
  <1>1. /\ n \in Nat /\ t[n + 1] = <<>>
        /\ \A j \in 1..(n + 1) : t[j] \in Seq(Symbol)
        /\ \A j \in 1..n : filters[j] \in LogFilters /\ t[j] = FilterText(filters[j]) \o t[j + 1]
    BY FilterTailsAt, Zenon
  <1>2. s = t[1]
    OBVIOUS
  <1> HIDE DEF t, n
  <1>3. s \in Seq(Symbol) /\ 1 \in 1..(n + 1)
    BY <1>1, <1>2
  <1>4. CASE n = 0
    <2>1. t[0 + 1] = <<>>
      BY <1>1, <1>4, Zenon
    <2>2. s = <<>>
      BY <1>2, <2>1
    <2> QED
      BY <1>3, <2>2, StartsWith, QueriesAreWritten DEF SymbolAssumption, Punctuation
  <1>5. CASE n # 0
    <2>1. 1 \in 1..n /\ 1 + 1 \in 1..(n + 1)
      BY <1>1, <1>5
    <2> DEFINE f == filters[1]
               r == t[1 + 1]
    <2>2. f \in LogFilters /\ s = FilterText(f) \o r /\ r \in Seq(Symbol)
      BY <1>1, <1>2, <2>1, Zenon
    <2> HIDE DEF f, r
    <2>3. s[1] = f.op[1]
      <3>4. \A i \in 1..Len(f.op) : (FilterText(f) \o r)[i] = f.op[i]
        BY <2>2, FilterTextSymbols, Zenon
      <3>1. \A i \in 1..Len(f.op) : s[i] = f.op[i]
        BY <2>2, <3>4
      <3>2. Len(f.op) \in {2, 3}
        BY <2>2, FilterSymbols
      <3>3. \A m \in {2, 3} : 1 \in 1..m
        OBVIOUS
      <3> QED
        BY <3>1, <3>2, <3>3, Zenon
    <2>4. Bar(f) \/ f.op[1] = "!"
      BY <2>2, FilterSymbols, Zenon
    <2>5. s[1] # "{"
      <3>1. "|" # "{" /\ "!" # "{"
        BY Zenon
      <3> QED
        BY <2>3, <2>4, <3>1, Zenon DEF Bar
    <2>6. "{" \in Symbol
      BY QueriesAreWritten, Zenon DEF SymbolAssumption, Punctuation
    <2> QED
      BY <1>3, <2>5, <2>6, StartsWith, Zenon
  <1> QED
    BY <1>4, <1>5

\* Behind `where' are the conditions.
LEMMA OpenedTrace ==
  ASSUME NEW st \in Stream, NEW conds \in Seq(TraceConds),
         \A j \in 1..Len(conds) : Legible(conds[j])
  PROVE  /\ TraceText(st, conds)[2] = st
         /\ Behind(TraceText(st, conds), <<"where">>) = CondTails("traceql", conds)[1]
  <1> DEFINE s == TraceText(st, conds)
             h == <<"from", st>>
             w == "where"
             t == CondTails("traceql", conds)
  <1>1. st \in Symbol /\ st # w /\ "from" \in Symbol /\ w \in Symbol /\ "from" # w
    BY NameSymbols, QueriesAreWritten DEF SymbolAssumption, Punctuation
  <1>2. h \in Seq(Symbol) /\ Len(h) = 2 /\ h[1] = "from" /\ h[2] = st
    BY <1>1, ShortSequences
  <1>3. t[Len(conds) + 1] = <<>> /\ \A j \in 1..(Len(conds) + 1) : t[j] \in Seq(Symbol)
    <2>1. t = Tails(CondTexts(conds), <<"and">>)
      BY DEF CondTails, Separator
    <2>2. ReadsParts(conds, Tails(CondTexts(conds), <<"and">>), <<"and">>)
      BY CondTailsStep, Zenon
    <2> QED
      BY <2>1, <2>2, Zenon DEF ReadsParts
  <1>4. Len(conds) \in Nat
    OBVIOUS
  <1> HIDE DEF h, w, t, s
  <1>5. \A i \in 1..Len(h) : h[i] # w
    BY <1>1, <1>2
  <1>6. CASE conds = <<>>
    <2>1. s = h \o <<>>
      BY <1>6 DEF TraceText, s, h
    <2>2. s = h
      BY <1>2, <2>1, ConcatEmptySeq
    <2>3. Behind(s, <<w>>) = <<>>
      BY <1>2, <1>5, <2>2, NoSymbol
    <2>4. t[1] = <<>>
      BY <1>3, <1>6
    <2> QED
      BY <1>2, <2>2, <2>3, <2>4 DEF w, t, s
  <1>7. CASE conds # <<>>
    <2> DEFINE x == <<w>>
               y == x \o t[1]
    <2>1. s = h \o y
      BY <1>7 DEF TraceText, s, h, w, t
    <2>2. t[1] \in Seq(Symbol)
      <3>1. 1 \in 1..(Len(conds) + 1)
        BY <1>4
      <3> QED
        BY <1>3, <3>1, Zenon
    <2>8. Behind(h \o (<<w>> \o t[1]), <<w>>) = t[1]
      BY <1>1, <1>2, <1>5, <2>2, SplitSymbols, Zenon
    <2>3. Behind(s, <<w>>) = t[1]
      BY <2>1, <2>8, Zenon
    <2>4. x \in Seq(Symbol)
      BY <1>1, ShortSequences
    <2> HIDE DEF x
    <2>5. y \in Seq(Symbol)
      BY <2>2, <2>4, ConcatSymbols, Zenon
    <2> HIDE DEF y
    <2>6. \A i \in 1..Len(h) : (h \o y)[i] = h[i]
      BY <1>2, <2>5, ConcatSymbols, Zenon
    <2>9. 2 \in 1..Len(h)
      BY <1>2
    <2>7. s[2] = st
      <3>1. (h \o y)[2] = h[2]
        BY <2>6, <2>9, Zenon
      <3> QED
        BY <1>2, <2>1, <3>1, Zenon
    <2> QED
      BY <2>3, <2>7 DEF w, t, s
  <1> QED
    BY <1>6, <1>7

----------------------------------------------------------------------------
\* The inductive invariant

\* What the translation adds for the stream, for a condition, for a filter.
StreamConditions(q) ==
  IF q.lang = "traceql" THEN {Condition("stream", <<>>, "=", <<q.text[2]>>)} ELSE {}
CondConditions(lang, c) ==
  IF lang = "logql" THEN Matcher(CondText(c)) ELSE TraceCondition(CondText(c))
FilterConditions(f) == FilterCondition(FilterOperator(f), f.value)

LegibleConds(q) == \A i \in 1..Len(q.conds) : Legible(q.conds[i])
OnlyBars(q) == \A i \in 1..Len(q.filters) : Bar(q.filters[i])

\* The conditions of the query before the j-th are translated, and its filters before the
\* g-th, apart from those without their bar; what is left to read is the text from there on,
\* and nothing else is in the WHERE clause.
Translates(q, r, p, w, j, g) ==
  /\ j \in 1..(Len(q.conds) + 1) /\ g \in 1..(Len(q.filters) + 1)
  /\ r = CondTails(q.lang, q.conds)[j]
  /\ p = FilterTails(q.filters)[g]
  /\ StreamConditions(q) \subseteq w
  /\ \A i \in 1..(j - 1) : CondConditions(q.lang, q.conds[i]) \subseteq w
  /\ OnlyBars(q) => \A i \in 1..(g - 1) : FilterConditions(q.filters[i]) \subseteq w
  /\ \A c \in w :
       \/ c \in StreamConditions(q)
       \/ \E i \in 1..Len(q.conds) : c \in CondConditions(q.lang, q.conds[i])
       \/ \E i \in 1..Len(q.filters) : Bar(q.filters[i]) /\ c \in FilterConditions(q.filters[i])

Translating == stage \in {"selector", "conditions", "done"}

TranslatorTypes ==
  /\ query \in Query /\ own \in BOOLEAN
  /\ stage \in {"lookup", "open", "failed", "selector", "conditions", "done"}
  /\ stage \in {"lookup", "open"} => rest = <<>> /\ pipeline = <<>> /\ where = {}
  /\ stage = "open" \/ Translating => table = TenantTable
  /\ stage = "selector" => query.lang = "logql"
  /\ stage = "conditions" => query.lang = "traceql"
  /\ stage = "done" => rest = <<>> /\ Filters(pipeline) = {}

Progress ==
  Translating /\ LegibleConds(query) =>
    \E j, g \in Nat : Translates(query, rest, pipeline, where, j, g)

TranslatorInvariant == TranslatorTypes /\ Progress

\* The parts of a query.
LEMMA QueryTypes ==
  ASSUME NEW q \in Query
  PROVE  /\ q.lang \in {"logql", "traceql"}
         /\ q.lang = "logql" => q.conds \in Seq(LogConds)
         /\ q.lang # "logql" => q.conds \in Seq(TraceConds)
         /\ q.filters \in Seq(LogFilters)
         /\ Malformed(q) \/ Written(q)
         /\ Len(q.conds) \in Nat /\ Len(q.filters) \in Nat
  <1>1. /\ q.lang \in {"logql", "traceql"}
        /\ q.conds \in Seq(IF q.lang = "logql" THEN LogConds ELSE TraceConds)
        /\ q.filters \in Seq(LogFilters)
        /\ Malformed(q) \/ Written(q)
    BY QueriesAreWritten DEF QueryAssumption
  <1>2. Len(q.conds) \in Nat /\ Len(q.filters) \in Nat
    BY <1>1, LenProperties
  <1> QED
    BY <1>1, <1>2

\* The text of a query's conditions, whatever the language
LEMMA QueryTails ==
  ASSUME NEW q \in Query, LegibleConds(q)
  PROVE  ReadsParts(q.conds, CondTails(q.lang, q.conds), Separator(q.lang))
  <1>1. \A i \in 1..Len(q.conds) : Legible(q.conds[i])
    BY DEF LegibleConds
  <1>2. PICK x \in {",", "and"} : Separator(q.lang) = <<x>>
    BY DEF Separator
  <1>3. PICK K : (K = LogConds \/ K = TraceConds) /\ q.conds \in Seq(K)
    BY QueryTypes, Zenon
  <1>4. ReadsParts(q.conds, Tails(CondTexts(q.conds), <<x>>), <<x>>)
    BY <1>1, <1>3, CondTailsStep, Zenon
  <1>5. CondTails(q.lang, q.conds) = Tails(CondTexts(q.conds), <<x>>)
    BY <1>2, Zenon DEF CondTails
  <1> QED
    BY <1>2, <1>4, <1>5, Zenon

\* Reading the next part of the text translates the next condition.
LEMMA ConditionRead ==
  ASSUME NEW q \in Query, LegibleConds(q), NEW r, NEW p, NEW w, NEW j \in Nat, NEW g \in Nat,
         Translates(q, r, p, w, j, g), r # <<>>
  PROVE  /\ Part(r, Separator(q.lang)) = CondText(q.conds[j])
         /\ Translates(q, Behind(r, Separator(q.lang)), p,
                       w \cup CondConditions(q.lang, q.conds[j]), j + 1, g)
  <1> DEFINE n == Len(q.conds)
             t == CondTails(q.lang, q.conds)
             sep == Separator(q.lang)
             new == CondConditions(q.lang, q.conds[j])
  <1>1. n \in Nat
    BY QueryTypes
  <1>2. /\ t[n + 1] = <<>>
        /\ \A i \in 1..n : Part(t[i], sep) = CondText(q.conds[i]) /\ Behind(t[i], sep) = t[i + 1]
    BY QueryTails, Zenon DEF ReadsParts
  <1>3. j \in 1..(n + 1) /\ r = t[j] /\ g \in 1..(Len(q.filters) + 1) /\ p = FilterTails(q.filters)[g]
    BY Zenon DEF Translates
  <1>4. /\ StreamConditions(q) \subseteq w
        /\ \A i \in 1..(j - 1) : CondConditions(q.lang, q.conds[i]) \subseteq w
        /\ OnlyBars(q) => \A i \in 1..(g - 1) : FilterConditions(q.filters[i]) \subseteq w
        /\ \A c \in w :
             \/ c \in StreamConditions(q)
             \/ \E i \in 1..n : c \in CondConditions(q.lang, q.conds[i])
             \/ \E i \in 1..Len(q.filters) :
                  Bar(q.filters[i]) /\ c \in FilterConditions(q.filters[i])
    BY Zenon DEF Translates
  <1> HIDE DEF n, t, sep
  <1>5. j # n + 1
    <2> SUFFICES ASSUME j = n + 1
                 PROVE  FALSE
      OBVIOUS
    <2>1. t[j] = t[n + 1]
      OBVIOUS
    <2> QED
      BY <1>2, <1>3, <2>1, Zenon
  <1>6. j \in 1..n /\ j + 1 \in 1..(n + 1) /\ \A i \in 1..((j + 1) - 1) : i = j \/ i \in 1..(j - 1)
    BY <1>1, <1>3, <1>5
  <1>7. Part(r, sep) = CondText(q.conds[j]) /\ Behind(r, sep) = t[j + 1]
    BY <1>2, <1>3, <1>6, Zenon
  <1>8. \A i \in 1..((j + 1) - 1) : CondConditions(q.lang, q.conds[i]) \subseteq w \cup new
    <2> TAKE i \in 1..((j + 1) - 1)
    <2>1. CASE i = j
      BY <2>1, Zenon
    <2>2. CASE i \in 1..(j - 1)
      BY <1>4, <2>2, Zenon
    <2> QED
      BY <1>6, <2>1, <2>2, Zenon
  <1> HIDE DEF new
  <1>9. OnlyBars(q) => \A i \in 1..(g - 1) : FilterConditions(q.filters[i]) \subseteq w \cup new
    BY <1>4, Zenon
  <1>10. \A c \in w \cup new :
           \/ c \in StreamConditions(q)
           \/ \E i \in 1..n : c \in CondConditions(q.lang, q.conds[i])
           \/ \E i \in 1..Len(q.filters) :
                Bar(q.filters[i]) /\ c \in FilterConditions(q.filters[i])
    BY <1>4, <1>6, Zenon DEF new
  <1>11. StreamConditions(q) \subseteq w \cup new
    BY <1>4, Zenon
  <1> QED
    BY <1>3, <1>6, <1>7, <1>8, <1>9, <1>10, <1>11, Zenon DEF Translates, new, n, t, sep

\* Reading the next match translates the next filter that has its bar.
LEMMA FilterRead ==
  ASSUME NEW q \in Query, NEW r, NEW p, NEW w, NEW j \in Nat, NEW g \in Nat,
         Translates(q, r, p, w, j, g), Filters(p) # {},
         NEW i, i = FirstMatched(p), NEW k, k = LongestMatched(p)
  PROVE  \E h \in Nat :
           Translates(q, r, SubSeq(p, i + k + 2, Len(p)),
                      w \cup FilterCondition(SubSeq(p, i + 1, i + k), p[i + k + 1]), j, h)
  <1> DEFINE n == Len(q.filters)
             t == FilterTails(q.filters)
             new == FilterCondition(SubSeq(p, i + 1, i + k), p[i + k + 1])
  <1>1. q.filters \in Seq(LogFilters) /\ n \in Nat
    BY QueryTypes, Zenon
  <1>3. /\ j \in 1..(Len(q.conds) + 1) /\ r = CondTails(q.lang, q.conds)[j]
        /\ g \in 1..(n + 1) /\ p = t[g]
    BY Zenon DEF Translates
  <1>4. /\ StreamConditions(q) \subseteq w
        /\ \A e \in 1..(j - 1) : CondConditions(q.lang, q.conds[e]) \subseteq w
        /\ OnlyBars(q) => \A e \in 1..(g - 1) : FilterConditions(q.filters[e]) \subseteq w
        /\ \A c \in w :
             \/ c \in StreamConditions(q)
             \/ \E e \in 1..Len(q.conds) : c \in CondConditions(q.lang, q.conds[e])
             \/ \E e \in 1..n : Bar(q.filters[e]) /\ c \in FilterConditions(q.filters[e])
    BY Zenon DEF Translates
  <1>5. PICK h \in g..n :
          /\ ReadsFilter(t[g], i, k, q.filters[h], t[h + 1])
          /\ Bar(q.filters[g]) /\ g <= n => h = g
    <2>1. Filters(t[g]) # {} /\ g \in 1..(Len(q.filters) + 1)
      BY <1>3, Zenon
    <2>2. ReadsNext(q.filters, t, g)
      BY <1>1, <2>1, NextFilter, Zenon
    <2>3. i = FirstMatched(t[g]) /\ k = LongestMatched(t[g])
      BY <1>3, Zenon
    <2> QED
      BY <2>2, <2>3, Zenon DEF ReadsNext
  <1> HIDE DEF n, t
  <1>6. /\ h \in 1..n /\ h + 1 \in 1..(n + 1) /\ h + 1 \in Nat /\ g <= n /\ g \in 1..n
        /\ \A e \in 1..((g + 1) - 1) : e = g \/ e \in 1..(g - 1)
    BY <1>1, <1>3
  <1>7. /\ Bar(q.filters[h]) /\ SubSeq(p, i + 1, i + k) = FilterOperator(q.filters[h])
        /\ p[i + k + 1] = q.filters[h].value
        /\ SubSeq(p, i + k + 2, Len(p)) = t[h + 1]
    BY <1>3, <1>5, Zenon DEF ReadsFilter
  <1>8. new = FilterConditions(q.filters[h])
    BY <1>7, Zenon DEF FilterConditions
  <1> HIDE DEF new
  <1>9. ASSUME OnlyBars(q), NEW e \in 1..((h + 1) - 1)
        PROVE  FilterConditions(q.filters[e]) \subseteq w \cup new
    <2>1. h = g
      <3>1. Bar(q.filters[g])
        BY <1>6, <1>9, Zenon DEF OnlyBars, n
      <3> QED
        BY <1>5, <1>6, <3>1, Zenon
    <2>2. e = g \/ e \in 1..(g - 1)
      BY <1>6, <2>1, Zenon
    <2>3. CASE e = g
      BY <1>8, <2>1, <2>3, Zenon
    <2>4. CASE e \in 1..(g - 1)
      BY <1>4, <1>9, <2>4, Zenon
    <2> QED
      BY <2>2, <2>3, <2>4, Zenon
  <1>10. \A c \in w \cup new :
           \/ c \in StreamConditions(q)
           \/ \E e \in 1..Len(q.conds) : c \in CondConditions(q.lang, q.conds[e])
           \/ \E e \in 1..n : Bar(q.filters[e]) /\ c \in FilterConditions(q.filters[e])
    BY <1>4, <1>6, <1>7, <1>8, Zenon
  <1>11. /\ StreamConditions(q) \subseteq w \cup new
         /\ \A e \in 1..(j - 1) : CondConditions(q.lang, q.conds[e]) \subseteq w \cup new
    BY <1>4, Zenon
  <1>12. Translates(q, r, t[h + 1], w \cup new, j, h + 1)
    BY <1>3, <1>6, <1>9, <1>10, <1>11, Zenon DEF Translates, n, t
  <1> QED
    BY <1>6, <1>7, <1>12, Zenon DEF new

\* Before anything is read, nothing but the stream is translated.
LEMMA Begins ==
  ASSUME NEW q \in Query
  PROVE  Translates(q, CondTails(q.lang, q.conds)[1], FilterTails(q.filters)[1],
                    StreamConditions(q), 1, 1)
  <1>1. Len(q.conds) \in Nat /\ Len(q.filters) \in Nat
    BY QueryTypes, Zenon
  <1>2. \A n \in Nat : 1 \in 1..(n + 1)
    OBVIOUS
  <1>3. \A i \in 1..(1 - 1) : FALSE
    OBVIOUS
  <1> QED
    BY <1>1, <1>2, <1>3, Zenon DEF Translates

\* A LogQL query is cut into its matchers and its filters.
LEMMA LogOpened ==
  ASSUME NEW q \in Query, q.lang = "logql", ~Malformed(q), LegibleConds(q)
  PROVE  IF IsPrefix(<<"{">>, q.text)
         THEN Translates(q, Tail(Before(q.text, <<"}">>)), After(q.text, <<"}">>), {}, 1, 1)
         ELSE Translates(q, <<>>, q.text, {}, 1, 1)
  <1> DEFINE c == CondTails(q.lang, q.conds)[1]
             p == FilterTails(q.filters)[1]
  <1>1. /\ Len(q.conds) \in Nat /\ Len(q.filters) \in Nat /\ q.filters \in Seq(LogFilters)
        /\ Written(q)
    BY QueryTypes, Zenon
  <1>2. Translates(q, c, p, {}, 1, 1)
    <2>1. StreamConditions(q) = {}
      BY Zenon DEF StreamConditions
    <2> QED
      BY <2>1, Begins, Zenon
  <1>3. ReadsParts(q.conds, CondTails(q.lang, q.conds), Separator(q.lang))
    BY QueryTails, Zenon
  <1>4. \A n \in Nat : 1 \in 1..(n + 1)
    OBVIOUS
  <1>5. c \in Seq(Symbol) /\ \A i \in 1..Len(c) : c[i] # "}"
    BY <1>1, <1>3, <1>4, Zenon DEF ReadsParts
  <1>6. p \in Seq(Symbol)
    BY <1>1, <1>4, FilterTailsAt, Zenon
  <1>7. \/ q.text = LogText(q.conds, q.filters)
        \/ q.conds = <<>> /\ q.text = p
    BY <1>1, Zenon DEF Written
  <1>8. CASE q.text = LogText(q.conds, q.filters)
    <2> DEFINE s == ((<<"{">> \o c) \o <<"}">>) \o p
    <2>1. q.text = s
      BY <1>8, Zenon DEF LogText
    <2> HIDE DEF c, p
    <2>2. IsPrefix(<<"{">>, s) /\ Tail(Before(s, <<"}">>)) = c /\ After(s, <<"}">>) = p
      BY <1>5, <1>6, OpenedSelector, Zenon
    <2> HIDE DEF s
    <2> QED
      BY <1>2, <2>1, <2>2, Zenon
  <1>9. CASE q.conds = <<>> /\ q.text = p
    <2>1. ~IsPrefix(<<"{">>, q.text)
      BY <1>1, <1>9, OpenedFilters, Zenon
    <2>2. c = <<>>
      <3>1. CondTails(q.lang, q.conds)[Len(q.conds) + 1] = <<>>
        BY <1>3, Zenon DEF ReadsParts
      <3>2. Len(q.conds) + 1 = 1
        BY <1>9
      <3> QED
        BY <3>1, <3>2, Zenon
    <2> HIDE DEF c, p
    <2>3. Translates(q, <<>>, q.text, {}, 1, 1)
      BY <1>2, <1>9, <2>2, Zenon
    <2> QED
      BY <2>1, <2>3, Zenon
  <1> QED
    BY <1>7, <1>8, <1>9, Zenon

\* A TraceQL query is cut into its stream and its conditions.
LEMMA TraceOpened ==
  ASSUME NEW q \in Query, q.lang = "traceql", ~Malformed(q), LegibleConds(q)
  PROVE  Translates(q, Behind(q.text, <<"where">>), <<>>,
                    {Condition("stream", <<>>, "=", Escape(<<q.text[2]>>))}, 1, 1)
  <1>1. "traceql" # "logql"
    OBVIOUS
  <1>2. q.conds \in Seq(TraceConds) /\ q.filters \in Seq(LogFilters) /\ Written(q)
    BY <1>1, QueryTypes, Zenon
  <1>3. q.filters = <<>> /\ \E st \in Stream : q.text = TraceText(st, q.conds)
    BY <1>1, <1>2, Zenon DEF Written
  <1>4. PICK st \in Stream : q.text = TraceText(st, q.conds)
    BY <1>3, Zenon
  <1>5. q.text[2] = st /\ Behind(q.text, <<"where">>) = CondTails("traceql", q.conds)[1]
    <2>1. \A j \in 1..Len(q.conds) : Legible(q.conds[j])
      BY Zenon DEF LegibleConds
    <2>2. /\ TraceText(st, q.conds)[2] = st
          /\ Behind(TraceText(st, q.conds), <<"where">>) = CondTails("traceql", q.conds)[1]
      BY <1>2, <2>1, OpenedTrace, Zenon
    <2> QED
      BY <1>4, <2>2, Zenon
  <1>6. FilterTails(q.filters)[1] = <<>>
    <2>1. FilterTails(q.filters)[Len(q.filters) + 1] = <<>>
      BY <1>2, FilterTailsAt, Zenon
    <2>2. Len(q.filters) + 1 = 1
      BY <1>3
    <2> QED
      BY <2>1, <2>2, Zenon
  <1>7. StreamConditions(q) = {Condition("stream", <<>>, "=", Escape(<<q.text[2]>>))}
    <2>1. st # "'"
      BY NameSymbols, Zenon DEF Punctuation
    <2>2. Escape(<<q.text[2]>>) = <<q.text[2]>>
      BY <1>5, <2>1, TrimOne, Zenon DEF Escape
    <2> QED
      BY <2>2, Zenon DEF StreamConditions
  <1>8. Translates(q, Behind(q.text, <<"where">>), <<>>,
                   {Condition("stream", <<>>, "=", Escape(<<q.text[2]>>))}, 1, 1)
    BY <1>5, <1>6, <1>7, Begins, Zenon
  <1> QED
    BY <1>8

\* The stages follow one another, and the table is the tenant's once it is looked up.
LEMMA TypesNext == TranslatorTypes /\ [Next]_vars => TranslatorTypes'
  <1> SUFFICES ASSUME TranslatorTypes, [Next]_vars
               PROVE  TranslatorTypes'
    OBVIOUS
  <1> USE DEF TranslatorTypes, Translating, TenantTable
  <1>1. CASE Resolve
    BY <1>1, Zenon DEF Resolve
  <1>2. CASE LookupFails
    BY <1>2, Zenon DEF LookupFails, LookupError, Fail
  <1>3. CASE Refuse
    BY <1>3, Zenon DEF Refuse, Fail
  <1>4. CASE OpenSelector
    BY <1>4, Zenon DEF OpenSelector
  <1>5. CASE ReadMatcher
    BY <1>5, Zenon DEF ReadMatcher
  <1>6. CASE ReadFilter
    BY <1>6, Zenon DEF ReadFilter
  <1>7. CASE OpenTrace
    BY <1>7, Zenon DEF OpenTrace
  <1>8. CASE ReadCondition
    BY <1>8, Zenon DEF ReadCondition
  <1>9. CASE Render
    BY <1>9, Zenon DEF Render
  <1>10. CASE UNCHANGED vars
    BY <1>10, Zenon DEF vars
  <1> QED
    BY <1>1, <1>2, <1>3, <1>4, <1>5, <1>6, <1>7, <1>8, <1>9, <1>10, Zenon DEF Next

\* A step leaves the query alone, and what it reads it translates.
LEMMA ProgressNext ==
  TranslatorTypes /\ Progress /\ [Next]_vars => Progress'
  <1> SUFFICES ASSUME TranslatorTypes, Progress, [Next]_vars,
                      Translating', LegibleConds(query')
               PROVE  \E j, g \in Nat : Translates(query', rest', pipeline', where', j, g)
    BY Zenon DEF Progress
  <1>0. query' = query
    BY Zenon DEF Next, vars, Resolve, LookupFails, LookupError, Fail, Refuse, OpenSelector,
                 ReadMatcher, ReadFilter, OpenTrace, ReadCondition, Render
  <1>1. query \in Query /\ LegibleConds(query)
    BY <1>0, Zenon DEF TranslatorTypes
  <1>2. 1 \in Nat /\ \A j \in Nat : j + 1 \in Nat
    OBVIOUS
  <1>3. CASE Resolve \/ LookupFails \/ Refuse
    BY <1>3, Zenon DEF Resolve, LookupFails, LookupError, Refuse, Fail, Translating
  <1>4. CASE OpenSelector
    <2>1. /\ query.lang = "logql" /\ ~Malformed(query) /\ stage = "open"
          /\ IF IsPrefix(<<"{">>, query.text)
             THEN /\ rest' = Tail(Before(query.text, <<"}">>))
                  /\ pipeline' = After(query.text, <<"}">>)
             ELSE rest' = <<>> /\ pipeline' = query.text
          /\ where' = where
      BY <1>4, Zenon DEF OpenSelector
    <2>2. where' = {}
      BY <2>1, Zenon DEF TranslatorTypes
    <2>3. Translates(query, rest', pipeline', where', 1, 1)
      BY <1>1, <2>1, <2>2, LogOpened, Zenon
    <2> QED
      BY <1>0, <1>2, <2>3, Zenon
  <1>5. CASE OpenTrace
    <2>1. /\ query.lang = "traceql" /\ ~Malformed(query) /\ stage = "open"
          /\ where' = {Condition("stream", <<>>, "=", Escape(<<query.text[2]>>))}
          /\ rest' = Behind(query.text, <<"where">>)
          /\ pipeline' = pipeline
      BY <1>5, Zenon DEF OpenTrace
    <2>2. pipeline' = <<>>
      BY <2>1, Zenon DEF TranslatorTypes
    <2>3. Translates(query, rest', pipeline', where', 1, 1)
      BY <1>1, <2>1, <2>2, TraceOpened, Zenon
    <2> QED
      BY <1>0, <1>2, <2>3, Zenon
  <1>6. CASE ReadMatcher
    <2>1. /\ stage = "selector" /\ rest # <<>>
          /\ where' = where \cup Matcher(Part(rest, <<",">>))
          /\ rest' = Behind(rest, <<",">>)
          /\ pipeline' = pipeline
      BY <1>6, Zenon DEF ReadMatcher
    <2>2. PICK j, g \in Nat : Translates(query, rest, pipeline, where, j, g)
      BY <1>1, <2>1, Zenon DEF Progress, Translating
    <2>3. query.lang = "logql" /\ Separator(query.lang) = <<",">>
      BY <2>1, Zenon DEF TranslatorTypes, Separator
    <2>4. /\ Part(rest, Separator(query.lang)) = CondText(query.conds[j])
          /\ Translates(query, Behind(rest, Separator(query.lang)), pipeline,
                        where \cup CondConditions(query.lang, query.conds[j]), j + 1, g)
      BY <1>1, <2>1, <2>2, ConditionRead, Zenon
    <2>5. where' = where \cup CondConditions(query.lang, query.conds[j])
      BY <2>1, <2>3, <2>4, Zenon DEF CondConditions
    <2>6. rest' = Behind(rest, Separator(query.lang))
      BY <2>1, <2>3, Zenon
    <2>7. Translates(query', rest', pipeline', where', j + 1, g)
      BY <1>0, <2>1, <2>4, <2>5, <2>6, Zenon
    <2> QED
      BY <1>2, <2>7, Zenon
  <1>7. CASE ReadCondition
    <2>1. /\ stage = "conditions" /\ rest # <<>>
          /\ where' = where \cup TraceCondition(Part(rest, <<"and">>))
          /\ rest' = Behind(rest, <<"and">>)
          /\ pipeline' = pipeline
      BY <1>7, Zenon DEF ReadCondition
    <2>2. PICK j, g \in Nat : Translates(query, rest, pipeline, where, j, g)
      BY <1>1, <2>1, Zenon DEF Progress, Translating
    <2>3. query.lang # "logql" /\ Separator(query.lang) = <<"and">>
      BY <2>1, Zenon DEF TranslatorTypes, Separator
    <2>4. /\ Part(rest, Separator(query.lang)) = CondText(query.conds[j])
          /\ Translates(query, Behind(rest, Separator(query.lang)), pipeline,
                        where \cup CondConditions(query.lang, query.conds[j]), j + 1, g)
      BY <1>1, <2>1, <2>2, ConditionRead, Zenon
    <2>5. where' = where \cup CondConditions(query.lang, query.conds[j])
      BY <2>1, <2>3, <2>4, Zenon DEF CondConditions
    <2>6. rest' = Behind(rest, Separator(query.lang))
      BY <2>1, <2>3, Zenon
    <2>7. Translates(query', rest', pipeline', where', j + 1, g)
      BY <1>0, <2>1, <2>4, <2>5, <2>6, Zenon
    <2> QED
      BY <1>2, <2>7, Zenon
  <1>8. CASE ReadFilter
    <2> DEFINE i == FirstMatched(pipeline)
               k == LongestMatched(pipeline)
    <2>1. /\ stage = "selector" /\ Filters(pipeline) # {}
          /\ where' = where \cup
               FilterCondition(SubSeq(pipeline, i + 1, i + k), pipeline[i + k + 1])
          /\ pipeline' = SubSeq(pipeline, i + k + 2, Len(pipeline))
          /\ rest' = rest
      BY <1>8, Zenon DEF ReadFilter, FirstMatched, LongestMatched
    <2>2. PICK j, g \in Nat : Translates(query, rest, pipeline, where, j, g)
      BY <1>1, <2>1, Zenon DEF Progress, Translating
    <2>3. PICK h \in Nat :
            Translates(query, rest, SubSeq(pipeline, i + k + 2, Len(pipeline)),
              where \cup FilterCondition(SubSeq(pipeline, i + 1, i + k), pipeline[i + k + 1]),
              j, h)
      BY <1>1, <2>1, <2>2, FilterRead, Zenon
    <2>4. Translates(query', rest', pipeline', where', j, h)
      BY <1>0, <2>1, <2>3, Zenon
    <2> QED
      BY <2>4, Zenon
  <1>9. CASE Render \/ UNCHANGED vars
    <2>1. Translating /\ rest' = rest /\ pipeline' = pipeline /\ where' = where
      BY <1>9, Zenon DEF Render, vars, Translating
    <2>2. PICK j, g \in Nat : Translates(query, rest, pipeline, where, j, g)
      BY <1>1, <2>1, Zenon DEF Progress
    <2> QED
      BY <1>0, <2>1, <2>2, Zenon
  <1> QED
    BY <1>3, <1>4, <1>5, <1>6, <1>7, <1>8, <1>9, Zenon DEF Next

\* Whatever was read so far is translated, and nothing else: the invariant the two promises of
\* the translators rest on, for queries of any length (client.go:181-187, 527-562, 600-617).
THEOREM TranslatedSoFar == Spec => []TranslatorInvariant
  <1>1. Init => TranslatorTypes /\ Progress
    BY Zenon DEF Init, TranslatorTypes, Progress, Translating
  <1>2. TranslatorTypes /\ Progress /\ [Next]_vars => (TranslatorTypes /\ Progress)'
    BY TypesNext, ProgressNext, Zenon
  <1> QED
    BY <1>1, <1>2, PTL DEF Spec, TranslatorInvariant

----------------------------------------------------------------------------
\* What the conditions mean

\* No two operators of a condition are the same.
LEMMA OperatorsDiffer ==
  /\ EQ # NE /\ EQ # GT /\ EQ # LT /\ EQ # <<"=", "~">> /\ EQ # <<"!", "~">> /\ EQ # <<">", "=">>
  /\ NE # GT /\ NE # LT /\ NE # <<"=", "~">> /\ NE # <<"!", "~">> /\ NE # <<">", "=">>
  /\ GT # LT /\ GT # <<"=", "~">> /\ GT # <<"!", "~">> /\ GT # <<">", "=">>
  /\ LT # <<"=", "~">> /\ LT # <<"!", "~">> /\ LT # <<">", "=">>
  BY DEF EQ, NE, GT, LT

\* What a condition holds of, by its operator
LEMMA HoldsOf ==
  ASSUME NEW d, NEW row
  PROVE  /\ d.op = "=" =>
              (Holds(d, row) <=> Read(d, row) # Absent /\ Read(d, row) = d.value)
         /\ d.op = "<>" =>
              (Holds(d, row) <=> Read(d, row) # Absent /\ Read(d, row) # d.value)
         /\ d.op = ">" =>
              (Holds(d, row) <=> /\ Comparable(Read(d, row), d.value)
                                 /\ Rank(Read(d, row)) > Rank(d.value))
         /\ d.op = "<" =>
              (Holds(d, row) <=> /\ Comparable(Read(d, row), d.value)
                                 /\ Rank(Read(d, row)) < Rank(d.value))
         /\ d.op \in {"ILIKE", "~"} => (Holds(d, row) <=> Matched(d.op, d.value[1], row))
         /\ d.op = "NOT ILIKE" => (Holds(d, row) <=> ~Matched("ILIKE", d.value[1], row))
         /\ d.op = "!~" => (Holds(d, row) <=> ~Matched("~", d.value[1], row))
  <1> DEFINE v == Read(d, row)
  <1>1. Holds(d, row) =
          CASE d.op = "=" -> v # Absent /\ v = d.value
            [] d.op = "<>" -> v # Absent /\ v # d.value
            [] d.op = ">" -> Comparable(v, d.value) /\ Rank(v) > Rank(d.value)
            [] d.op = "<" -> Comparable(v, d.value) /\ Rank(v) < Rank(d.value)
            [] d.op \in {"ILIKE", "~"} -> Matched(d.op, d.value[1], row)
            [] d.op = "NOT ILIKE" -> ~Matched("ILIKE", d.value[1], row)
            [] OTHER -> ~Matched("~", d.value[1], row)
    BY Zenon DEF Holds
  <1> HIDE DEF v
  <1>2. d.op = "=" => (Holds(d, row) <=> v # Absent /\ v = d.value)
    BY <1>1, Zenon
  <1>3. d.op = "<>" => (Holds(d, row) <=> v # Absent /\ v # d.value)
    BY <1>1, Zenon
  <1>4. d.op = ">" => (Holds(d, row) <=> Comparable(v, d.value) /\ Rank(v) > Rank(d.value))
    BY <1>1, Zenon
  <1>5. d.op = "<" => (Holds(d, row) <=> Comparable(v, d.value) /\ Rank(v) < Rank(d.value))
    BY <1>1, Zenon
  <1>6. d.op \in {"ILIKE", "~"} => (Holds(d, row) <=> Matched(d.op, d.value[1], row))
    BY <1>1, Zenon
  <1>7. d.op = "NOT ILIKE" => (Holds(d, row) <=> ~Matched("ILIKE", d.value[1], row))
    BY <1>1, Zenon
  <1>8. d.op = "!~" => (Holds(d, row) <=> ~Matched("~", d.value[1], row))
    BY <1>1, Zenon
  <1> QED
    BY <1>2, <1>3, <1>4, <1>5, <1>6, <1>7, <1>8, Zenon DEF v

\* What a condition of the query asks for, by its operator
LEMMA MeansOf ==
  ASSUME NEW c, NEW row
  PROVE  /\ c.op = EQ => (Means(c, row) <=> FieldOf(c.name, row) = c.value)
         /\ c.op = NE => (Means(c, row) <=> FieldOf(c.name, row) # c.value)
         /\ c.op = GT => (Means(c, row) <=> /\ Comparable(FieldOf(c.name, row), c.value)
                                            /\ Rank(FieldOf(c.name, row)) > Rank(c.value))
         /\ c.op = LT => (Means(c, row) <=> /\ Comparable(FieldOf(c.name, row), c.value)
                                            /\ Rank(FieldOf(c.name, row)) < Rank(c.value))
  <1> DEFINE v == FieldOf(c.name, row)
             T == <<"=", "~">>
             N == <<"!", "~">>
             G == <<">", "=">>
  <1>1. Means(c, row) =
          CASE c.op \in {EQ, T} -> v = c.value
            [] c.op \in {NE, N} -> v # c.value
            [] c.op = GT -> Comparable(v, c.value) /\ Rank(v) > Rank(c.value)
            [] c.op = G -> Comparable(v, c.value) /\ Rank(v) >= Rank(c.value)
            [] OTHER -> Comparable(v, c.value) /\ Rank(v) < Rank(c.value)
    BY Zenon DEF Means
  <1>2. /\ EQ # NE /\ EQ # GT /\ EQ # LT /\ EQ # T /\ EQ # N /\ EQ # G
        /\ NE # GT /\ NE # LT /\ NE # T /\ NE # N /\ NE # G
        /\ GT # LT /\ GT # T /\ GT # N /\ GT # G /\ LT # T /\ LT # N /\ LT # G
    BY OperatorsDiffer, Zenon
  <1> HIDE DEF v, T, N, G
  <1>3. c.op = EQ => (Means(c, row) <=> v = c.value)
    BY <1>1, <1>2, Zenon
  <1>4. c.op = NE => (Means(c, row) <=> v # c.value)
    BY <1>1, <1>2, Zenon
  <1>5. c.op = GT => (Means(c, row) <=> Comparable(v, c.value) /\ Rank(v) > Rank(c.value))
    BY <1>1, <1>2, Zenon
  <1>6. c.op = LT => (Means(c, row) <=> Comparable(v, c.value) /\ Rank(v) < Rank(c.value))
    BY <1>1, <1>2, Zenon
  <1> QED
    BY <1>3, <1>4, <1>5, <1>6, Zenon DEF v

\* What a condition reads of a row
LEMMA ReadOf ==
  ASSUME NEW d, NEW row
  PROVE  /\ d.of = "stream" => Read(d, row) = <<row.stream>>
         /\ \A n \in Name : d.of = "label" /\ d.name = <<n>> => Read(d, row) = row.label[n]
         /\ \A n \in Name : d.of = "attribute" /\ d.name = <<n>> =>
                              Read(d, row) = row.attribute[n]
         /\ \A n \in Column : d.of = "column" /\ d.name = <<n>> =>
                                Read(d, row) = <<row.column[n]>>
  <1> DEFINE L == d.of = "label" /\ \E n \in Name : d.name = <<n>>
             A == d.of = "attribute" /\ \E n \in Name : d.name = <<n>>
             C == d.of = "column" /\ \E n \in Column : d.name = <<n>>
  <1>1. Read(d, row) = CASE d.of = "stream" -> <<row.stream>>
                         [] L -> row.label[d.name[1]]
                         [] A -> row.attribute[d.name[1]]
                         [] C -> <<row.column[d.name[1]]>>
                         [] OTHER -> Absent
    BY Zenon DEF Read
  <1>2. \A n : d.name = <<n>> => d.name[1] = n
    OBVIOUS
  <1>3. /\ d.of = "stream" => ~L /\ ~A /\ ~C
        /\ L => d.of # "stream" /\ ~A /\ ~C
        /\ A => d.of # "stream" /\ ~L /\ ~C
        /\ C => d.of # "stream" /\ ~L /\ ~A
    BY Zenon
  <1>4. /\ \A n \in Name : d.of = "label" /\ d.name = <<n>> => L
        /\ \A n \in Name : d.of = "attribute" /\ d.name = <<n>> => A
        /\ \A n \in Column : d.of = "column" /\ d.name = <<n>> => C
    BY Zenon
  <1> HIDE DEF L, A, C
  <1>5. d.of = "stream" => Read(d, row) = <<row.stream>>
    BY <1>1, <1>3, Zenon
  <1>6. L => Read(d, row) = row.label[d.name[1]]
    BY <1>1, <1>3, Zenon
  <1>7. A => Read(d, row) = row.attribute[d.name[1]]
    BY <1>1, <1>3, Zenon
  <1>8. C => Read(d, row) = <<row.column[d.name[1]]>>
    BY <1>1, <1>3, Zenon
  <1>9. ASSUME NEW n \in Name, d.of = "label", d.name = <<n>>
        PROVE  Read(d, row) = row.label[n]
    BY <1>2, <1>4, <1>6, <1>9, Zenon
  <1>10. ASSUME NEW n \in Name, d.of = "attribute", d.name = <<n>>
         PROVE  Read(d, row) = row.attribute[n]
    BY <1>2, <1>4, <1>7, <1>10, Zenon
  <1>11. ASSUME NEW n \in Column, d.of = "column", d.name = <<n>>
         PROVE  Read(d, row) = <<row.column[n]>>
    BY <1>2, <1>4, <1>8, <1>11, Zenon
  <1> QED
    BY <1>5, <1>9, <1>10, <1>11, Zenon

\* What a name means: a label, a column or an attribute.
LEMMA FieldIs ==
  ASSUME NEW n, NEW row
  PROVE  /\ query.lang = "logql" => FieldOf(n, row) = row.label[n]
         /\ query.lang # "logql" /\ n \in Column => FieldOf(n, row) = <<row.column[n]>>
         /\ query.lang # "logql" /\ n \notin Column => FieldOf(n, row) = row.attribute[n]
  <1>1. FieldOf(n, row) = CASE query.lang = "logql" -> row.label[n]
                            [] query.lang # "logql" /\ n \in Column -> <<row.column[n]>>
                            [] OTHER -> row.attribute[n]
    BY Zenon DEF FieldOf
  <1>2. query.lang = "logql" => FieldOf(n, row) = row.label[n]
    BY <1>1, Zenon
  <1>3. query.lang # "logql" /\ n \in Column => FieldOf(n, row) = <<row.column[n]>>
    BY <1>1, Zenon
  <1>4. query.lang # "logql" /\ n \notin Column => FieldOf(n, row) = row.attribute[n]
    BY <1>1, Zenon
  <1> QED
    BY <1>2, <1>3, <1>4, Zenon

\* No value of a condition is NULL.
LEMMA ValueNotAbsent ==
  ASSUME NEW c, c \in LogConds \/ c \in TraceConds
  PROVE  c.value # Absent
  <1> DEFINE v == c.value
  <1>1. \A i \in 1..Len(v) : v[i] # "NULL"
    BY CondTypes, Zenon
  <1> SUFFICES ASSUME v = <<"NULL">>
               PROVE  FALSE
    BY Zenon DEF Absent
  <1>2. Len(v) = 1 /\ v[1] = "NULL"
    <2> HIDE DEF v
    <2> QED
      OBVIOUS
  <1>3. 1 \in 1..1
    OBVIOUS
  <1> QED
    BY <1>1, <1>2, <1>3, Zenon

\* What has an order is not NULL.
LEMMA ComparableNotAbsent ==
  ASSUME NEW v, NEW w, Comparable(v, w)
  PROVE  v # Absent
  <1>1. PICK n \in Plain : v = <<n>>
    BY Zenon DEF Comparable
  <1>2. n # "NULL"
    BY NameSymbols, Zenon DEF Punctuation
  <1>3. \A x, y : <<x>> = <<y>> => x = y
    OBVIOUS
  <1> QED
    BY <1>1, <1>2, <1>3, Zenon DEF Absent

\* An equality of SQL is the one of the query wherever the row has the name, and holds of no
\* row without it.
LEMMA EqualityMeans ==
  ASSUME NEW c, c \in LogConds \/ c \in TraceConds, NEW row, NEW d,
         Read(d, row) = FieldOf(c.name, row), d.value = c.value,
         (d.op = "=" /\ c.op = EQ) \/ (d.op = "<>" /\ c.op = NE)
  PROVE  Holds(d, row) <=> FieldOf(c.name, row) # Absent /\ Means(c, row)
  <1>1. CASE d.op = "=" /\ c.op = EQ
    <2>1. Holds(d, row) <=> Read(d, row) # Absent /\ Read(d, row) = d.value
      BY <1>1, HoldsOf, Zenon
    <2>2. Means(c, row) <=> FieldOf(c.name, row) = c.value
      BY <1>1, MeansOf, Zenon
    <2> QED
      BY <2>1, <2>2, Zenon
  <1>2. CASE d.op = "<>" /\ c.op = NE
    <2>1. Holds(d, row) <=> Read(d, row) # Absent /\ Read(d, row) # d.value
      BY <1>2, HoldsOf, Zenon
    <2>2. Means(c, row) <=> FieldOf(c.name, row) # c.value
      BY <1>2, MeansOf, Zenon
    <2> QED
      BY <2>1, <2>2, Zenon
  <1> QED
    BY <1>1, <1>2, Zenon

\* So is an order, which also holds of no row without the column.
LEMMA OrderMeans ==
  ASSUME NEW c, NEW row, NEW d,
         Read(d, row) = FieldOf(c.name, row), d.value = c.value,
         (d.op = ">" /\ c.op = GT) \/ (d.op = "<" /\ c.op = LT)
  PROVE  Holds(d, row) <=> FieldOf(c.name, row) # Absent /\ Means(c, row)
  <1> DEFINE v == FieldOf(c.name, row)
  <1>1. Comparable(v, c.value) => v # Absent
    BY ComparableNotAbsent, Zenon
  <1>2. CASE d.op = ">" /\ c.op = GT
    <2>1. Holds(d, row) <=> Comparable(v, c.value) /\ Rank(v) > Rank(c.value)
      BY <1>2, HoldsOf, Zenon
    <2>2. Means(c, row) <=> Comparable(v, c.value) /\ Rank(v) > Rank(c.value)
      BY <1>2, MeansOf, Zenon
    <2> QED
      BY <1>1, <2>1, <2>2, Zenon
  <1>3. CASE d.op = "<" /\ c.op = LT
    <2>1. Holds(d, row) <=> Comparable(v, c.value) /\ Rank(v) < Rank(c.value)
      BY <1>3, HoldsOf, Zenon
    <2>2. Means(c, row) <=> Comparable(v, c.value) /\ Rank(v) < Rank(c.value)
      BY <1>3, MeansOf, Zenon
    <2> QED
      BY <1>1, <2>1, <2>2, Zenon
  <1> QED
    BY <1>2, <1>3, Zenon

\* Each condition of the WHERE clause that a condition of the query became says the same.
LEMMA LogConditionMeans ==
  ASSUME query.lang = "logql", NEW c \in LogConds, Legible(c), NEW row
  PROVE  /\ \A d \in CondConditions(query.lang, c) :
              Holds(d, row) <=> FieldOf(c.name, row) # Absent /\ Means(c, row)
         /\ c.op # <<"!", "~">> => CondConditions(query.lang, c) # {}
  <1>1. CondConditions(query.lang, c) = Matcher(CondText(c))
    BY Zenon DEF CondConditions
  <1>2. FieldOf(c.name, row) = row.label[c.name]
    BY FieldIs, Zenon
  <1>3. ASSUME NEW o, c.name \in Name, (o = "=" /\ c.op = EQ) \/ (o = "<>" /\ c.op = NE),
               Matcher(CondText(c)) = {Condition("label", <<c.name>>, o, c.value)}
        PROVE  /\ \A d \in CondConditions(query.lang, c) :
                    Holds(d, row) <=> FieldOf(c.name, row) # Absent /\ Means(c, row)
               /\ CondConditions(query.lang, c) # {}
    <2> DEFINE d == Condition("label", <<c.name>>, o, c.value)
    <2>1. d.of = "label" /\ d.name = <<c.name>> /\ d.op = o /\ d.value = c.value
      BY Zenon DEF Condition
    <2>2. CondConditions(query.lang, c) = {d}
      BY <1>1, <1>3, Zenon
    <2> HIDE DEF d
    <2>3. Read(d, row) = FieldOf(c.name, row)
      BY <1>2, <1>3, <2>1, ReadOf, ZenonT(40)
    <2>4. Holds(d, row) <=> FieldOf(c.name, row) # Absent /\ Means(c, row)
      BY <1>3, <2>1, <2>3, EqualityMeans, Zenon
    <2> QED
      BY <2>2, <2>4, Zenon
  <1>4. \/ /\ c.op = EQ /\ c.name \in Name
           /\ Matcher(CondText(c)) = {Condition("label", <<c.name>>, "=", c.value)}
        \/ /\ c.op = NE /\ c.name \in Name
           /\ Matcher(CondText(c)) = {Condition("label", <<c.name>>, "<>", c.value)}
        \/ /\ c.op = <<"!", "~">>
           /\ Matcher(CondText(c)) = {}
    BY MatcherOf, Zenon
  <1> QED
    BY <1>1, <1>3, <1>4, Zenon

\* The same for the conditions of a trace query, none of which is dropped.
LEMMA TraceConditionMeans ==
  ASSUME query.lang # "logql", NEW c \in TraceConds, Legible(c), NEW row
  PROVE  /\ \A d \in CondConditions(query.lang, c) :
              Holds(d, row) <=> FieldOf(c.name, row) # Absent /\ Means(c, row)
         /\ CondConditions(query.lang, c) # {}
  <1>1. CondConditions(query.lang, c) = TraceCondition(CondText(c))
    BY Zenon DEF CondConditions
  <1>2. c.name \in Name => c.name \notin Column
    BY QueriesAreWritten, Zenon DEF SymbolAssumption
  <1>3. ASSUME NEW o, c.name \in Name, (o = "=" /\ c.op = EQ) \/ (o = "<>" /\ c.op = NE),
               TraceCondition(CondText(c)) = {Condition("attribute", <<c.name>>, o, c.value)}
        PROVE  /\ \A d \in CondConditions(query.lang, c) :
                    Holds(d, row) <=> FieldOf(c.name, row) # Absent /\ Means(c, row)
               /\ CondConditions(query.lang, c) # {}
    <2> DEFINE d == Condition("attribute", <<c.name>>, o, c.value)
    <2>1. d.of = "attribute" /\ d.name = <<c.name>> /\ d.op = o /\ d.value = c.value
      BY Zenon DEF Condition
    <2>2. CondConditions(query.lang, c) = {d}
      BY <1>1, <1>3, Zenon
    <2> HIDE DEF d
    <2>3. FieldOf(c.name, row) = row.attribute[c.name]
      BY <1>2, <1>3, FieldIs, Zenon
    <2>4. Read(d, row) = FieldOf(c.name, row)
      <3>1. c.name \in Name
        BY <1>3
      <3>2. Read(d, row) = row.attribute[c.name]
        BY <2>1, <3>1, ReadOf, Zenon
      <3> QED
        BY <2>3, <3>2, Zenon
    <2>5. Holds(d, row) <=> FieldOf(c.name, row) # Absent /\ Means(c, row)
      BY <1>3, <2>1, <2>4, EqualityMeans, Zenon
    <2> QED
      BY <2>2, <2>5, Zenon
  <1>4. ASSUME NEW o, c.name \in Column, (o = ">" /\ c.op = GT) \/ (o = "<" /\ c.op = LT),
               TraceCondition(CondText(c)) = {Condition("column", <<c.name>>, o, c.value)}
        PROVE  /\ \A d \in CondConditions(query.lang, c) :
                    Holds(d, row) <=> FieldOf(c.name, row) # Absent /\ Means(c, row)
               /\ CondConditions(query.lang, c) # {}
    <2> DEFINE d == Condition("column", <<c.name>>, o, c.value)
    <2>1. d.of = "column" /\ d.name = <<c.name>> /\ d.op = o /\ d.value = c.value
      BY Zenon DEF Condition
    <2>2. CondConditions(query.lang, c) = {d}
      BY <1>1, <1>4, Zenon
    <2> HIDE DEF d
    <2>3. FieldOf(c.name, row) = <<row.column[c.name]>>
      BY <1>4, FieldIs, Zenon
    <2>4. Read(d, row) = FieldOf(c.name, row)
      BY <1>4, <2>1, <2>3, ReadOf, ZenonT(40)
    <2>5. Holds(d, row) <=> FieldOf(c.name, row) # Absent /\ Means(c, row)
      BY <1>4, <2>1, <2>4, OrderMeans, Zenon
    <2> QED
      BY <2>2, <2>5, Zenon
  <1>5. \/ /\ c.op = EQ /\ c.name \in Name
           /\ TraceCondition(CondText(c)) = {Condition("attribute", <<c.name>>, "=", c.value)}
        \/ /\ c.op = NE /\ c.name \in Name
           /\ TraceCondition(CondText(c)) = {Condition("attribute", <<c.name>>, "<>", c.value)}
        \/ /\ c.op = GT /\ c.name \in Column
           /\ TraceCondition(CondText(c)) = {Condition("column", <<c.name>>, ">", c.value)}
        \/ /\ c.op = LT /\ c.name \in Column
           /\ TraceCondition(CondText(c)) = {Condition("column", <<c.name>>, "<", c.value)}
    BY TraceConditionOf, Zenon
  <1> QED
    BY <1>3, <1>4, <1>5, Zenon

----------------------------------------------------------------------------
\* What the filters mean

\* What a text of two symbols holds, and what is behind the first.
LEMMA PairPieces ==
  ASSUME NEW x, NEW y
  PROVE  /\ <<x, y>>[1] = x /\ Len(<<x, y>>) = 2 /\ SubSeq(<<x, y>>, 2, 2) = <<y>>
         /\ \A b : b \in ToSet(<<x, y>>) <=> b = x \/ b = y
  <1>1. <<x, y>>[1] = x /\ <<x, y>>[2] = y /\ Len(<<x, y>>) = 2 /\ DOMAIN <<x, y>> = 1..2
    OBVIOUS
  <1>2. SubSeq(<<x, y>>, 2, 2) = <<y>>
    <2> DEFINE s == SubSeq(<<x, y>>, 2, 2)
    <2>1. \A i \in 2..2 : <<x, y>>[i] \in {y}
      BY <1>1
    <2>2. /\ s \in Seq({y}) /\ Len(s) = IF 2 <= 2 THEN 2 - 2 + 1 ELSE 0
          /\ \A i \in 1..(2 - 2 + 1) : s[i] = <<x, y>>[2 + i - 1]
      BY <2>1, SubSeqProperties
    <2> HIDE DEF s
    <2>3. s \in Seq({y}) /\ Len(s) = 1 /\ s[1] = y
      BY <1>1, <2>2
    <2>4. <<y>> \in Seq({y}) /\ Len(<<y>>) = 1 /\ <<y>>[1] = y
      OBVIOUS
    <2>5. \A i \in 1..1 : s[i] = <<y>>[i]
      BY <2>3, <2>4
    <2>6. s = <<y>>
      BY <2>3, <2>4, <2>5, SeqEqual
    <2> QED
      BY <2>6 DEF s
  <1>3. ToSet(<<x, y>>) = {<<x, y>>[i] : i \in 1..2}
    BY <1>1 DEF ToSet
  <1>4. 1 \in 1..2 /\ 2 \in 1..2 /\ \A i \in 1..2 : i = 1 \/ i = 2
    OBVIOUS
  <1>5. \A b : b \in ToSet(<<x, y>>) <=> b = x \/ b = y
    BY <1>1, <1>3, <1>4, Zenon
  <1> QED
    BY <1>1, <1>2, <1>5, Zenon

\* The same for three symbols.
LEMMA TriplePieces ==
  ASSUME NEW x, NEW y, NEW z
  PROVE  /\ <<x, y, z>>[1] = x /\ Len(<<x, y, z>>) = 3 /\ SubSeq(<<x, y, z>>, 2, 3) = <<y, z>>
         /\ \A b : b \in ToSet(<<x, y, z>>) <=> b = x \/ b = y \/ b = z
  <1>1. /\ <<x, y, z>>[1] = x /\ <<x, y, z>>[2] = y /\ <<x, y, z>>[3] = z
        /\ Len(<<x, y, z>>) = 3 /\ DOMAIN <<x, y, z>> = 1..3
    OBVIOUS
  <1>2. SubSeq(<<x, y, z>>, 2, 3) = <<y, z>>
    <2> DEFINE s == SubSeq(<<x, y, z>>, 2, 3)
    <2>1. \A i \in 2..3 : <<x, y, z>>[i] \in {y, z}
      BY <1>1
    <2>2. /\ s \in Seq({y, z}) /\ Len(s) = IF 2 <= 3 THEN 3 - 2 + 1 ELSE 0
          /\ \A i \in 1..(3 - 2 + 1) : s[i] = <<x, y, z>>[2 + i - 1]
      BY <2>1, SubSeqProperties
    <2> HIDE DEF s
    <2>3. s \in Seq({y, z}) /\ Len(s) = 2 /\ s[1] = y /\ s[2] = z
      BY <1>1, <2>2
    <2>4. <<y, z>> \in Seq({y, z}) /\ Len(<<y, z>>) = 2 /\ <<y, z>>[1] = y /\ <<y, z>>[2] = z
      OBVIOUS
    <2>5. \A i \in 1..2 : s[i] = <<y, z>>[i]
      BY <2>3, <2>4
    <2>6. s = <<y, z>>
      BY <2>3, <2>4, <2>5, SeqEqual
    <2> QED
      BY <2>6 DEF s
  <1>3. ToSet(<<x, y, z>>) = {<<x, y, z>>[i] : i \in 1..3}
    BY <1>1 DEF ToSet
  <1>4. 1 \in 1..3 /\ 2 \in 1..3 /\ 3 \in 1..3 /\ \A i \in 1..3 : i = 1 \/ i = 2 \/ i = 3
    OBVIOUS
  <1>5. \A b : b \in ToSet(<<x, y, z>>) <=> b = x \/ b = y \/ b = z
    BY <1>1, <1>3, <1>4, Zenon
  <1> QED
    BY <1>1, <1>2, <1>5, Zenon

\* Behind the bar is an operator of SqlOperator, which excludes if it has an exclamation mark.
LEMMA FilterOperatorOf ==
  ASSUME NEW f \in LogFilters, Bar(f)
  PROVE  \/ FilterOperator(f) = EQ /\ ~Excludes(f)
         \/ FilterOperator(f) = <<"~">> /\ ~Excludes(f)
         \/ FilterOperator(f) = NE /\ Excludes(f)
         \/ FilterOperator(f) = <<"!", "~">> /\ Excludes(f)
  <1>1. f.op \in {<<"|", "=">>, <<"|", "!", "=">>, <<"|", "~">>, <<"|", "!", "~">>,
                  <<"!", "=">>, <<"!", "~">>}
    BY Zenon DEF LogFilters
  <1>2. ASSUME NEW y, y # "!", f.op = <<"|", y>>
        PROVE  FilterOperator(f) = <<y>> /\ ~Excludes(f)
    <2>0. /\ Len(<<"|", y>>) = 2 /\ SubSeq(<<"|", y>>, 2, 2) = <<y>>
          /\ \A b : b \in ToSet(<<"|", y>>) <=> b = "|" \/ b = y
      BY PairPieces, Zenon
    <2>1. Len(f.op) = 2 /\ SubSeq(f.op, 2, 2) = <<y>>
      BY <1>2, <2>0, Zenon
    <2>2. "!" \notin ToSet(f.op)
      BY <1>2, <2>0, Zenon
    <2> QED
      BY <2>1, <2>2, Zenon DEF FilterOperator, Excludes
  <1>3. ASSUME NEW y, f.op = <<"|", "!", y>>
        PROVE  FilterOperator(f) = <<"!", y>> /\ Excludes(f)
    <2>1. Len(<<"|", "!", y>>) = 3
      BY TriplePieces, Zenon
    <2>2. SubSeq(<<"|", "!", y>>, 2, 3) = <<"!", y>>
      <3>1. \A x, u : SubSeq(<<x, u, y>>, 2, 3) = <<u, y>>
        BY TriplePieces
      <3> QED
        BY <3>1, Zenon
    <2>3. "!" \in ToSet(<<"|", "!", y>>)
      BY TriplePieces, Zenon
    <2>4. Len(f.op) = 3 /\ SubSeq(f.op, 2, 3) = <<"!", y>> /\ "!" \in ToSet(f.op)
      BY <1>3, <2>1, <2>2, <2>3, Zenon
    <2> QED
      BY <2>4, Zenon DEF FilterOperator, Excludes
  <1>4. ASSUME NEW y, f.op = <<"!", y>>
        PROVE  FALSE
    <2>1. <<"!", y>>[1] = "!"
      BY PairPieces, Zenon
    <2> QED
      BY <1>4, <2>1, Zenon DEF Bar
  <1> QED
    BY <1>1, <1>2, <1>3, <1>4, Zenon DEF EQ, NE

\* The regular expression's operators are distinct, and each has its SQL operator.
LEMMA SqlOperatorOf ==
  /\ {x \in SqlOperator : x[1] = EQ} = {<<EQ, "ILIKE">>}
  /\ {x \in SqlOperator : x[1] = NE} = {<<NE, "NOT ILIKE">>}
  /\ {x \in SqlOperator : x[1] = <<"~">>} = {<<(<<"~">>), "~">>}
  /\ {x \in SqlOperator : x[1] = <<"!", "~">>} = {<<(<<"!", "~">>), "!~">>}
  <1> DEFINE T == <<"~">>
             N == <<"!", "~">>
             S == SqlOperator
  <1>1. EQ # NE /\ EQ # T /\ EQ # N /\ NE # T /\ NE # N /\ T # N
    BY DEF EQ, NE
  <1> HIDE DEF T, N, S
  <1>2. S = {<<EQ, "ILIKE">>, <<NE, "NOT ILIKE">>, <<T, "~">>, <<N, "!~">>}
    BY Zenon DEF SqlOperator, T, N, S
  <1>3. \A x, y : <<x, y>>[1] = x
    OBVIOUS
  <1>4. /\ <<EQ, "ILIKE">>[1] = EQ /\ <<NE, "NOT ILIKE">>[1] = NE
        /\ <<T, "~">>[1] = T /\ <<N, "!~">>[1] = N
    BY <1>3, Zenon
  <1>5. {x \in S : x[1] = EQ} = {<<EQ, "ILIKE">>}
    BY <1>1, <1>2, <1>4, Zenon
  <1>6. {x \in S : x[1] = NE} = {<<NE, "NOT ILIKE">>}
    BY <1>1, <1>2, <1>4, Zenon
  <1>7. {x \in S : x[1] = T} = {<<T, "~">>}
    BY <1>1, <1>2, <1>4, Zenon
  <1>8. {x \in S : x[1] = N} = {<<N, "!~">>}
    BY <1>1, <1>2, <1>4, Zenon
  <1> QED
    BY <1>5, <1>6, <1>7, <1>8, Zenon DEF S, T, N

\* The pattern of a filter is the one its operator of SQL matches.
LEMMA PatternOf ==
  ASSUME NEW f \in LogFilters, Bar(f)
  PROVE  /\ FilterOperator(f) \in {EQ, NE} => Pattern(f) = "ILIKE"
         /\ FilterOperator(f) \in {<<"~">>, <<"!", "~">>} => Pattern(f) = "~"
  <1>1. f.op \in {<<"|", "=">>, <<"|", "!", "=">>, <<"|", "~">>, <<"|", "!", "~">>,
                  <<"!", "=">>, <<"!", "~">>}
    BY Zenon DEF LogFilters
  <1>2. ASSUME NEW y, f.op = <<"|", y>>
        PROVE  FilterOperator(f) = <<y>> /\ ("=" \in ToSet(f.op) <=> y = "=")
    <2>1. /\ Len(<<"|", y>>) = 2 /\ SubSeq(<<"|", y>>, 2, 2) = <<y>>
          /\ \A b : b \in ToSet(<<"|", y>>) <=> b = "|" \/ b = y
      BY PairPieces, Zenon
    <2> QED
      BY <1>2, <2>1, Zenon DEF FilterOperator
  <1>3. ASSUME NEW y, f.op = <<"|", "!", y>>
        PROVE  FilterOperator(f) = <<"!", y>> /\ ("=" \in ToSet(f.op) <=> y = "=")
    <2>1. \A x, u : /\ Len(<<x, u, y>>) = 3 /\ SubSeq(<<x, u, y>>, 2, 3) = <<u, y>>
                    /\ \A b : b \in ToSet(<<x, u, y>>) <=> b = x \/ b = u \/ b = y
      BY TriplePieces
    <2> DEFINE w == <<"|", "!", y>>
    <2>2. Len(w) = 3 /\ SubSeq(w, 2, 3) = <<"!", y>>
      BY <2>1, Zenon
    <2>3. "=" \in ToSet(w) <=> y = "="
      <3>1. ASSUME NEW x, NEW u, NEW v, x # v, u # v
            PROVE  v \in ToSet(<<x, u, y>>) <=> y = v
        <4>1. \A b : b \in ToSet(<<x, u, y>>) <=> b = x \/ b = u \/ b = y
          BY TriplePieces
        <4> QED
          BY <3>1, <4>1
      <3> DEFINE bar == "|"
                 excl == "!"
                 eq == "="
      <3>2. bar # eq /\ excl # eq
        BY Zenon
      <3>3. w = <<bar, excl, y>>
        BY Zenon
      <3> HIDE DEF bar, excl, eq, w
      <3>4. eq \in ToSet(<<bar, excl, y>>) <=> y = eq
        BY <3>1, <3>2
      <3>5. eq \in ToSet(w) <=> y = eq
        BY <3>3, <3>4
      <3> QED
        BY <3>5, Zenon DEF eq
    <2> HIDE DEF w
    <2>4. f.op = w
      BY <1>3, Zenon DEF w
    <2> QED
      BY <2>2, <2>3, <2>4, Zenon DEF FilterOperator
  <1>4. ASSUME NEW y, f.op = <<"!", y>>
        PROVE  FALSE
    <2>1. <<"!", y>>[1] = "!"
      BY PairPieces, Zenon
    <2> QED
      BY <1>4, <2>1, Zenon DEF Bar
  <1>5. /\ <<"=">> # <<"~">> /\ <<"=">> # <<"!", "~">>
        /\ <<"!", "=">> # <<"~">> /\ <<"!", "=">> # <<"!", "~">>
    OBVIOUS
  <1>6. CASE f.op = <<"|", "=">> \/ f.op = <<"|", "!", "=">>
    <2>1. /\ "=" \in ToSet(f.op)
          /\ FilterOperator(f) = <<"=">> \/ FilterOperator(f) = <<"!", "=">>
      BY <1>2, <1>3, <1>6, Zenon
    <2> QED
      BY <1>5, <2>1, Zenon DEF Pattern, EQ, NE
  <1>7. CASE f.op = <<"|", "~">> \/ f.op = <<"|", "!", "~">>
    <2>1. /\ "=" \notin ToSet(f.op)
          /\ FilterOperator(f) = <<"~">> \/ FilterOperator(f) = <<"!", "~">>
      <3>1. "~" # "="
        BY Zenon
      <3>2. CASE f.op = <<"|", "~">>
        <4>1. FilterOperator(f) = <<"~">> /\ ("=" \in ToSet(f.op) <=> "~" = "=")
          BY <1>2, <3>2, Zenon
        <4> QED
          BY <3>1, <4>1, Zenon
      <3>3. CASE f.op = <<"|", "!", "~">>
        <4>1. FilterOperator(f) = <<"!", "~">> /\ ("=" \in ToSet(f.op) <=> "~" = "=")
          BY <1>3, <3>3, Zenon
        <4> QED
          BY <3>1, <4>1, Zenon
      <3> QED
        BY <1>7, <3>2, <3>3, Zenon
    <2> QED
      BY <1>5, <2>1, Zenon DEF Pattern, EQ, NE
  <1> QED
    BY <1>1, <1>4, <1>6, <1>7, Zenon

\* A row that a filter names matches its pattern, and the other way round if ILIKE takes no
\* other word for the value.
LEMMA MatchedMeans ==
  ASSUME NEW f \in LogFilters, NEW row
  PROVE  /\ Names(f, row) => Matched(Pattern(f), f.value, row)
         /\ LookAlikes(f, row) = {} /\ Matched(Pattern(f), f.value, row) => Names(f, row)
  <1>1. f.value \in Plain
    BY DEF LogFilters
  <1>2. "ILIKE" # "~"
    BY Zenon
  <1>3. CASE Pattern(f) = "~"
    BY <1>3, Zenon DEF Names
  <1>4. CASE Pattern(f) = "ILIKE"
    <2>1. Names(f, row) <=> f.value \in row.message
      BY <1>2, <1>4, Zenon DEF Names
    <2>2. <<f.value, f.value>> \in Matches["ILIKE"]
      BY <1>1, QueriesAreWritten, Zenon DEF MatchAssumption
    <2>3. ASSUME LookAlikes(f, row) = {}, Matched("ILIKE", f.value, row)
          PROVE  f.value \in row.message
      BY <1>4, <2>3, Zenon DEF LookAlikes, Matched
    <2> QED
      BY <1>4, <2>1, <2>2, <2>3, Zenon DEF Matched
  <1> QED
    BY <1>3, <1>4, Zenon DEF Pattern

\* The condition a filter with its bar becomes says of the message what the filter says, of
\* rows that have no word ILIKE takes for the value: one that includes holds of every row the
\* filter asks for, one that excludes of no row the filter excludes.
LEMMA FilterConditionMeans ==
  ASSUME NEW f \in LogFilters, Bar(f), NEW row
  PROVE  /\ \A d \in FilterConditions(f) :
              /\ FilterMeans(f, row) /\ (Excludes(f) => LookAlikes(f, row) = {}) => Holds(d, row)
              /\ Holds(d, row) /\ (~Excludes(f) => LookAlikes(f, row) = {}) => FilterMeans(f, row)
         /\ FilterConditions(f) # {}
  <1> DEFINE M == Matched(Pattern(f), f.value, row)
  <1>0. /\ Names(f, row) => M
        /\ LookAlikes(f, row) = {} /\ M => Names(f, row)
    BY MatchedMeans, Zenon
  <1> HIDE DEF M
  <1>1. ASSUME NEW o, NEW op, FilterOperator(f) = op,
               {x \in SqlOperator : x[1] = op} = {<<op, o>>},
               \A d : d.op = o /\ d.value = <<f.value>> =>
                       (Holds(d, row) <=> IF Excludes(f) THEN ~M ELSE M)
        PROVE  /\ \A d \in FilterConditions(f) :
                    /\ FilterMeans(f, row) /\ (Excludes(f) => LookAlikes(f, row) = {})
                         => Holds(d, row)
                    /\ Holds(d, row) /\ (~Excludes(f) => LookAlikes(f, row) = {})
                         => FilterMeans(f, row)
               /\ FilterConditions(f) # {}
    <2> DEFINE d == Condition("message", <<>>, o, <<f.value>>)
    <2>1. d.op = o /\ d.value = <<f.value>>
      BY Zenon DEF Condition
    <2>2. FilterConditions(f) = {d}
      <3>1. FilterCondition(op, f.value) =
              {Condition("message", <<>>, x[2], <<f.value>>) : x \in {<<op, o>>}}
        BY <1>1, Zenon DEF FilterCondition
      <3>2. <<op, o>>[2] = o
        OBVIOUS
      <3> QED
        BY <1>1, <3>1, <3>2, Zenon DEF FilterConditions
    <2> HIDE DEF d
    <2>3. Holds(d, row) <=> IF Excludes(f) THEN ~M ELSE M
      BY <1>1, <2>1, Zenon
    <2>4. CASE ~Excludes(f)
      BY <1>0, <2>2, <2>3, <2>4, Zenon DEF FilterMeans
    <2>5. CASE Excludes(f)
      BY <1>0, <2>2, <2>3, <2>5, Zenon DEF FilterMeans
    <2> QED
      BY <2>4, <2>5, Zenon
  <1>2. \A x : <<x>>[1] = x
    OBVIOUS
  <1>3. ASSUME NEW o, o \in {"ILIKE", "~"}, ~Excludes(f), Pattern(f) = o,
               NEW d, d.op = o, d.value = <<f.value>>
        PROVE  Holds(d, row) <=> IF Excludes(f) THEN ~M ELSE M
    <2>1. Holds(d, row) <=> Matched(d.op, d.value[1], row)
      BY <1>3, HoldsOf, Zenon
    <2> QED
      BY <1>2, <1>3, <2>1, Zenon DEF M
  <1>4. ASSUME NEW o, NEW p, (o = "NOT ILIKE" /\ p = "ILIKE") \/ (o = "!~" /\ p = "~"),
               Excludes(f), Pattern(f) = p, NEW d, d.op = o, d.value = <<f.value>>
        PROVE  Holds(d, row) <=> IF Excludes(f) THEN ~M ELSE M
    <2>1. Holds(d, row) <=> ~Matched(p, d.value[1], row)
      <3>1. CASE o = "NOT ILIKE" /\ p = "ILIKE"
        BY <1>4, <3>1, HoldsOf, Zenon
      <3>2. CASE o = "!~" /\ p = "~"
        BY <1>4, <3>2, HoldsOf, Zenon
      <3> QED
        BY <1>4, <3>1, <3>2, Zenon
    <2> QED
      BY <1>2, <1>4, <2>1, Zenon DEF M
  <1>5. CASE FilterOperator(f) = EQ /\ ~Excludes(f)
    <2>1. Pattern(f) = "ILIKE"
      BY <1>5, PatternOf, Zenon
    <2> QED
      BY <1>1, <1>3, <1>5, <2>1, SqlOperatorOf, Zenon
  <1>6. CASE FilterOperator(f) = <<"~">> /\ ~Excludes(f)
    <2>1. Pattern(f) = "~"
      BY <1>6, PatternOf, Zenon
    <2> QED
      BY <1>1, <1>3, <1>6, <2>1, SqlOperatorOf, Zenon
  <1>7. CASE FilterOperator(f) = NE /\ Excludes(f)
    <2>1. Pattern(f) = "ILIKE"
      BY <1>7, PatternOf, Zenon
    <2> QED
      BY <1>1, <1>4, <1>7, <2>1, SqlOperatorOf, Zenon
  <1>8. CASE FilterOperator(f) = <<"!", "~">> /\ Excludes(f)
    <2>1. Pattern(f) = "~"
      BY <1>8, PatternOf, Zenon
    <2> QED
      BY <1>1, <1>4, <1>8, <2>1, SqlOperatorOf, Zenon
  <1> QED
    BY <1>5, <1>6, <1>7, <1>8, FilterOperatorOf, Zenon

----------------------------------------------------------------------------
\* What the SELECT returns

\* The elements of a sequence are what is at its places.
LEMMA OfToSet ==
  ASSUME NEW S, NEW s \in Seq(S)
  PROVE  /\ \A i \in 1..Len(s) : s[i] \in S /\ s[i] \in ToSet(s)
         /\ \A x \in ToSet(s) : \E i \in 1..Len(s) : x = s[i]
  BY DEF ToSet

\* When nothing is left to read, every condition was read, and every filter if all have
\* their bar.
LEMMA FinishedReading ==
  ASSUME NEW q \in Query, LegibleConds(q), NEW p, NEW w, NEW j \in Nat, NEW g \in Nat,
         Translates(q, <<>>, p, w, j, g), Filters(p) = {}
  PROVE  j = Len(q.conds) + 1 /\ (OnlyBars(q) => g = Len(q.filters) + 1)
  <1> DEFINE n == Len(q.conds)
             m == Len(q.filters)
             t == CondTails(q.lang, q.conds)
             u == FilterTails(q.filters)
  <1>1. n \in Nat /\ m \in Nat /\ q.filters \in Seq(LogFilters)
    BY QueryTypes, Zenon
  <1>2. \A i \in 1..n : t[i] # <<>>
    BY QueryTails, Zenon DEF ReadsParts
  <1>3. /\ j \in 1..(n + 1) /\ g \in 1..(m + 1)
        /\ t[j] = <<>> /\ p = u[g]
    BY Zenon DEF Translates
  <1> HIDE DEF n, m
  <1>4. j \notin 1..n
    BY <1>2, <1>3, Zenon
  <1>5. j = n + 1
    <2> HIDE DEF t, u
    <2> QED
      BY <1>1, <1>3, <1>4
  <1>6. ASSUME OnlyBars(q), g \in 1..m
        PROVE  FALSE
    <2> DEFINE f == q.filters[g]
    <2>1. /\ f \in LogFilters
          /\ p = FilterText(f) \o u[g + 1]
      BY <1>1, <1>3, <1>6, FilterTailsAt, Zenon DEF m
    <2>2. \A i \in 1..m : i + 1 \in 1..(m + 1)
      BY <1>1
    <2>3. g + 1 \in 1..(m + 1)
      BY <1>6, <2>2, Zenon
    <2>4. u[g + 1] \in Seq(Symbol)
      BY <1>1, <2>3, FilterTailsAt, Zenon DEF m
    <2>5. Bar(f)
      BY <1>6, Zenon DEF OnlyBars, m
    <2>6. <<1, Len(f.op) - 1>> \in Filters(p)
      BY <2>1, <2>4, <2>5, BarMatches, Zenon
    <2> QED
      BY <2>6, Zenon
  <1>7. OnlyBars(q) => g \notin 1..m
    BY <1>6, Zenon
  <1>8. g \notin 1..m => g = m + 1
    <2> HIDE DEF t, u
    <2> QED
      BY <1>1, <1>3
  <1> QED
    BY <1>5, <1>7, <1>8, Zenon DEF n, m

\* The WHERE clause of a finished translation: of each condition and of each filter what they
\* become, and nothing else.
WhereComplete(q, w) ==
  /\ StreamConditions(q) \subseteq w
  /\ \A c \in ToSet(q.conds) : CondConditions(q.lang, c) \subseteq w
  /\ (\A f \in ToSet(q.filters) : Bar(f)) =>
       \A f \in ToSet(q.filters) : FilterConditions(f) \subseteq w

WhereSound(q, w) ==
  \A d \in w :
    \/ d \in StreamConditions(q)
    \/ \E c \in ToSet(q.conds) : d \in CondConditions(q.lang, c)
    \/ \E f \in ToSet(q.filters) : Bar(f) /\ d \in FilterConditions(f)

\* When nothing is left to read the WHERE clause is complete, and nothing else is in it.
LEMMA WhereFinished ==
  ASSUME NEW q \in Query, LegibleConds(q), NEW p, NEW w, NEW j \in Nat, NEW g \in Nat,
         Translates(q, <<>>, p, w, j, g), Filters(p) = {}
  PROVE  WhereComplete(q, w) /\ WhereSound(q, w)
  <1> DEFINE n == Len(q.conds)
             m == Len(q.filters)
  <1>1. n \in Nat /\ m \in Nat
    BY QueryTypes, Zenon
  <1>2. PICK K : q.conds \in Seq(K)
    BY QueryTypes, Zenon
  <1>3. /\ \A i \in 1..n : q.conds[i] \in ToSet(q.conds)
        /\ \A c \in ToSet(q.conds) : \E i \in 1..n : c = q.conds[i]
    BY <1>2, OfToSet, ZenonT(40)
  <1>4. /\ \A i \in 1..m : q.filters[i] \in ToSet(q.filters)
        /\ \A f \in ToSet(q.filters) : \E i \in 1..m : f = q.filters[i]
    BY QueryTypes, OfToSet, Zenon
  <1>5. /\ StreamConditions(q) \subseteq w
        /\ \A i \in 1..(j - 1) : CondConditions(q.lang, q.conds[i]) \subseteq w
        /\ OnlyBars(q) => \A i \in 1..(g - 1) : FilterConditions(q.filters[i]) \subseteq w
        /\ \A c \in w :
             \/ c \in StreamConditions(q)
             \/ \E i \in 1..n : c \in CondConditions(q.lang, q.conds[i])
             \/ \E i \in 1..m : Bar(q.filters[i]) /\ c \in FilterConditions(q.filters[i])
    BY Zenon DEF Translates
  <1>6. j = n + 1 /\ (OnlyBars(q) => g = m + 1)
    BY FinishedReading, Zenon
  <1> HIDE DEF n, m
  <1>7. \A k \in Nat : 1..((k + 1) - 1) = 1..k
    OBVIOUS
  <1>8. \A i \in 1..n : CondConditions(q.lang, q.conds[i]) \subseteq w
    BY <1>1, <1>5, <1>6, <1>7, Zenon
  <1>9. OnlyBars(q) => \A i \in 1..m : FilterConditions(q.filters[i]) \subseteq w
    BY <1>1, <1>5, <1>6, <1>7, Zenon
  <1>10. (\A f \in ToSet(q.filters) : Bar(f)) => OnlyBars(q)
    BY <1>4, Zenon DEF OnlyBars, m
  <1>11. WhereComplete(q, w)
    BY <1>3, <1>4, <1>5, <1>8, <1>9, <1>10, Zenon DEF WhereComplete
  <1>12. WhereSound(q, w)
    BY <1>3, <1>4, <1>5, Zenon DEF WhereSound
  <1> QED
    BY <1>11, <1>12, Zenon

\* The translator of a readable query ends with its WHERE clause and with its tenant's table.
LEMMA TranslationDone ==
  ASSUME TranslatorInvariant, stage = "done", Readable
  PROVE  /\ query \in Query /\ table = TenantTable
         /\ WhereComplete(query, where) /\ WhereSound(query, where)
  <1>1. /\ query \in Query /\ table = TenantTable /\ rest = <<>> /\ Filters(pipeline) = {}
        /\ Translating
    BY Zenon DEF TranslatorInvariant, TranslatorTypes, Translating
  <1>2. PICK K : query.conds \in Seq(K)
    BY <1>1, QueryTypes, Zenon
  <1>3. \A i \in 1..Len(query.conds) : query.conds[i] \in ToSet(query.conds)
    BY <1>2, OfToSet, Zenon
  <1>4. LegibleConds(query)
    BY <1>3, Zenon DEF Readable, LegibleConds
  <1>5. PICK j, g \in Nat : Translates(query, rest, pipeline, where, j, g)
    BY <1>1, <1>4, Zenon DEF TranslatorInvariant, Progress
  <1>6. Translates(query, <<>>, pipeline, where, j, g)
    BY <1>1, <1>5, Zenon
  <1> QED
    BY <1>1, <1>4, <1>6, WhereFinished, Zenon

\* Each condition and each filter of a query is one of its language.
LEMMA QueryParts ==
  ASSUME NEW q \in Query
  PROVE  /\ q.lang = "logql" => \A c \in ToSet(q.conds) : c \in LogConds
         /\ q.lang # "logql" => \A c \in ToSet(q.conds) : c \in TraceConds
         /\ \A f \in ToSet(q.filters) : f \in LogFilters
  <1>1. ASSUME NEW S, NEW s \in Seq(S)
        PROVE  \A x \in ToSet(s) : x \in S
    <2>1. \A i \in 1..Len(s) : s[i] \in S
      OBVIOUS
    <2>2. \A x \in ToSet(s) : \E i \in 1..Len(s) : x = s[i]
      BY OfToSet, Zenon
    <2> QED
      BY <2>1, <2>2, Zenon
  <1>2. /\ q.lang = "logql" => q.conds \in Seq(LogConds)
        /\ q.lang # "logql" => q.conds \in Seq(TraceConds)
        /\ q.filters \in Seq(LogFilters)
    BY QueryTypes, Zenon
  <1> QED
    BY <1>1, <1>2, Zenon

\* What a condition of a legible query becomes, in either language
LEMMA ConditionMeans ==
  ASSUME query \in Query, NEW c \in ToSet(query.conds), Legible(c), NEW row
  PROVE  /\ \A d \in CondConditions(query.lang, c) :
              Holds(d, row) <=> FieldOf(c.name, row) # Absent /\ Means(c, row)
         /\ c.op # <<"!", "~">> => CondConditions(query.lang, c) # {}
  <1>1. CASE query.lang = "logql"
    <2>1. c \in LogConds
      BY <1>1, QueryParts, Zenon
    <2> QED
      BY <1>1, <2>1, LogConditionMeans, Zenon
  <1>2. CASE query.lang # "logql"
    <2>1. c \in TraceConds
      BY <1>2, QueryParts, Zenon
    <2> QED
      BY <1>2, <2>1, TraceConditionMeans, Zenon
  <1> QED
    BY <1>1, <1>2, Zenon

\* A condition that is not dropped names a label or column the rows it asks for have, except
\* for a != of a row without the label.
LEMMA FieldPresent ==
  ASSUME query \in Query, NEW c \in ToSet(query.conds), Legible(c), NEW row, Means(c, row),
         CondConditions(query.lang, c) # {}, c.op = NE => FieldOf(c.name, row) # Absent
  PROVE  FieldOf(c.name, row) # Absent
  <1>1. c \in LogConds \/ c \in TraceConds
    BY QueryParts, Zenon
  <1>2. \/ c.op = EQ \/ c.op = NE \/ c.op = <<"!", "~">> \/ c.op = GT \/ c.op = LT
    BY Zenon DEF Legible
  <1>3. CASE c.op = EQ
    <2>1. FieldOf(c.name, row) = c.value
      BY <1>3, MeansOf, Zenon
    <2> QED
      BY <1>1, <2>1, ValueNotAbsent, Zenon
  <1>4. CASE c.op = GT \/ c.op = LT
    <2>1. Comparable(FieldOf(c.name, row), c.value)
      BY <1>4, MeansOf, Zenon
    <2> QED
      BY <2>1, ComparableNotAbsent, Zenon
  <1>5. CASE c.op = <<"!", "~">>
    <2>1. c.op # EQ /\ c.op # NE /\ c.op # GT /\ c.op # LT
      BY <1>5, OperatorsDiffer, Zenon
    <2>2. CASE query.lang = "logql"
      <3>1. c \in LogConds
        BY <2>2, QueryParts, Zenon
      <3>2. Matcher(CondText(c)) = {}
        BY <2>1, <3>1, MatcherOf, Zenon
      <3>3. CondConditions(query.lang, c) = {}
        BY <2>2, <3>2, Zenon DEF CondConditions
      <3> QED
        BY <3>3, Zenon
    <2>3. CASE query.lang # "logql"
      <3>1. c \in TraceConds
        BY <2>3, QueryParts, Zenon
      <3> QED
        BY <2>1, <3>1, TraceConditionOf, Zenon
    <2> QED
      BY <2>2, <2>3, Zenon
  <1> QED
    BY <1>2, <1>3, <1>4, <1>5, Zenon

\* The condition on the stream says that the row is of the stream the query names.
LEMMA StreamMeans ==
  ASSUME query \in Query, NEW row
  PROVE  /\ \A d \in StreamConditions(query) :
              /\ query.lang = "traceql"
              /\ Holds(d, row) <=> <<row.stream>> # Absent /\ row.stream = query.text[2]
         /\ query.lang = "traceql" => StreamConditions(query) # {}
  <1> DEFINE d == Condition("stream", <<>>, "=", <<query.text[2]>>)
  <1>1. d.of = "stream" /\ d.op = "=" /\ d.value = <<query.text[2]>>
    BY Zenon DEF Condition
  <1>2. /\ query.lang = "traceql" => StreamConditions(query) = {d}
        /\ query.lang # "traceql" => StreamConditions(query) = {}
    BY Zenon DEF StreamConditions
  <1> HIDE DEF d
  <1>3. Read(d, row) = <<row.stream>>
    BY <1>1, ReadOf, Zenon
  <1>4. Holds(d, row) <=> <<row.stream>> # Absent /\ <<row.stream>> = <<query.text[2]>>
    BY <1>1, <1>3, HoldsOf, Zenon
  <1>5. \A x, y : <<x>> = <<y>> <=> x = y
    OBVIOUS
  <1>6. Holds(d, row) <=> <<row.stream>> # Absent /\ row.stream = query.text[2]
    BY <1>4, <1>5, Zenon
  <1> QED
    BY <1>2, <1>6, Zenon

\* The stream of a row is never NULL.
LEMMA StreamPresent ==
  ASSUME NEW row \in Row("traceql")
  PROVE  <<row.stream>> # Absent
  <1>1. "traceql" # "logql"
    OBVIOUS
  <1>2. row \in [table : {"own", "shared"}, stream : Stream,
                 attribute : [Name -> Text \cup {Absent}], column : [Column -> Plain]]
    BY <1>1, Zenon DEF Row
  <1>3. row.stream \in Stream
    BY <1>2
  <1>4. row.stream # "NULL"
    BY <1>3, NameSymbols, Zenon DEF Punctuation
  <1>5. \A x, y : <<x>> = <<y>> <=> x = y
    OBVIOUS
  <1> QED
    BY <1>4, <1>5, Zenon DEF Absent

\* A row that all conditions hold of is asked for: each part of the query became one of them.
LEMMA OnlyWhatIsAsked ==
  ASSUME TranslatorInvariant, stage = "done", Supported, NEW row \in Row(query.lang),
         Selected(row), NoneIncluded(row)
  PROVE  Asked(row)
  <1>1. /\ Readable
        /\ \A c \in ToSet(query.conds) : c.op # <<"!", "~">>
        /\ \A f \in ToSet(query.filters) : Bar(f)
    BY Zenon DEF Supported, Bar
  <1>2. /\ query \in Query /\ table = TenantTable
        /\ WhereComplete(query, where)
    BY <1>1, TranslationDone, Zenon
  <1>3. /\ StreamConditions(query) \subseteq where
        /\ \A c \in ToSet(query.conds) : CondConditions(query.lang, c) \subseteq where
        /\ \A f \in ToSet(query.filters) : FilterConditions(f) \subseteq where
    BY <1>1, <1>2, Zenon DEF WhereComplete
  <1>4. row.table = table /\ \A d \in where : Holds(d, row)
    BY Zenon DEF Selected
  <1>5. row.table = TenantTable
    BY <1>2, <1>4, Zenon
  <1>6. ASSUME query.lang = "traceql"
        PROVE  row.stream = query.text[2]
    <2>1. PICK d : d \in StreamConditions(query)
      BY <1>2, <1>6, StreamMeans, Zenon
    <2>2. Holds(d, row)
      BY <1>3, <1>4, <2>1, Zenon
    <2> QED
      BY <1>2, <2>1, <2>2, StreamMeans, Zenon
  <1>7. ASSUME NEW c \in ToSet(query.conds)
        PROVE  Means(c, row)
    <2>1. Legible(c) /\ c.op # <<"!", "~">>
      BY <1>1, <1>7, Zenon DEF Readable
    <2>2. PICK d : d \in CondConditions(query.lang, c)
      BY <1>2, <1>7, <2>1, ConditionMeans, Zenon
    <2>3. Holds(d, row)
      BY <1>3, <1>4, <1>7, <2>2, Zenon
    <2> QED
      BY <1>2, <1>7, <2>1, <2>2, <2>3, ConditionMeans, Zenon
  <1>8. ASSUME NEW f \in ToSet(query.filters)
        PROVE  FilterMeans(f, row)
    <2>1. f \in LogFilters /\ Bar(f)
      BY <1>1, <1>2, <1>8, QueryParts, Zenon
    <2>2. PICK d : d \in FilterConditions(f)
      BY <2>1, FilterConditionMeans, Zenon
    <2>3. Holds(d, row)
      BY <1>3, <1>4, <1>8, <2>2, Zenon
    <2>4. ~Excludes(f) => LookAlikes(f, row) = {}
      BY <1>8, Zenon DEF NoneIncluded
    <2> QED
      BY <2>1, <2>2, <2>3, <2>4, FilterConditionMeans, Zenon
  <1> QED
    BY <1>5, <1>6, <1>7, <1>8, Zenon DEF Asked

\* A row that is asked for is selected: each condition of the WHERE clause came of a part.
LEMMA AllThatIsAsked ==
  ASSUME TranslatorInvariant, stage = "done", Readable, NEW row \in Row(query.lang),
         Asked(row), HasLabels(row), NoneExcluded(row)
  PROVE  Selected(row)
  <1>1. /\ query \in Query /\ table = TenantTable
        /\ WhereSound(query, where)
    BY TranslationDone, Zenon
  <1>2. /\ row.table = TenantTable
        /\ query.lang = "traceql" => row.stream = query.text[2]
        /\ \A c \in ToSet(query.conds) : Means(c, row)
        /\ \A f \in ToSet(query.filters) : FilterMeans(f, row)
    BY Zenon DEF Asked
  <1>3. ASSUME NEW d \in StreamConditions(query)
        PROVE  Holds(d, row)
    <2>1. query.lang = "traceql"
      BY <1>1, <1>3, StreamMeans, Zenon
    <2>2. row \in Row("traceql")
      BY <2>1, Zenon
    <2>3. <<row.stream>> # Absent
      BY <2>2, StreamPresent, Zenon
    <2> QED
      BY <1>1, <1>2, <1>3, <2>1, <2>3, StreamMeans, Zenon
  <1>4. ASSUME NEW c \in ToSet(query.conds), NEW d \in CondConditions(query.lang, c)
        PROVE  Holds(d, row)
    <2>1. Legible(c) /\ Means(c, row)
      BY <1>2, <1>4, Zenon DEF Readable
    <2>2. c.op = NE => FieldOf(c.name, row) # Absent
      BY <1>4, Zenon DEF HasLabels
    <2>3. CondConditions(query.lang, c) # {}
      BY <1>4, Zenon
    <2>4. FieldOf(c.name, row) # Absent
      BY <1>1, <1>4, <2>1, <2>2, <2>3, FieldPresent, Zenon
    <2> QED
      BY <1>1, <1>4, <2>1, <2>4, ConditionMeans, Zenon
  <1>5. ASSUME NEW f \in ToSet(query.filters), Bar(f), NEW d \in FilterConditions(f)
        PROVE  Holds(d, row)
    <2>1. f \in LogFilters
      BY <1>1, <1>5, QueryParts, Zenon
    <2>2. FilterMeans(f, row) /\ (Excludes(f) => LookAlikes(f, row) = {})
      BY <1>2, <1>5, Zenon DEF NoneExcluded
    <2> QED
      BY <1>5, <2>1, <2>2, FilterConditionMeans, Zenon
  <1>6. \A d \in where : Holds(d, row)
    BY <1>1, <1>3, <1>4, <1>5, Zenon DEF WhereSound
  <1> QED
    BY <1>1, <1>2, <1>6, Zenon DEF Selected

\* Of a query of the supported fragment, whatever its length, the SELECT returns no row the
\* query does not ask for and none of another tenant's table: no operator is taken for another
\* one and no condition is lost between two separators (client.go:527-562, 600-617).  Rows with
\* a word that |= or |~ takes for the one asked for are the exception.
THEOREM SelectsNoOther == Spec => []SelectsOnlyWhatIsAsked
  <1>1. TranslatorInvariant => SelectsOnlyWhatIsAsked
    BY OnlyWhatIsAsked, Zenon DEF SelectsOnlyWhatIsAsked
  <1> QED
    BY <1>1, TranslatedSoFar, PTL

\* Every row a readable query asks for is selected, whatever its length and its filters; rows
\* that lack a label a `!=' names, or that have a word |!= or |!~ takes for the one to exclude,
\* are the exception (client.go:181-187, 527-562, 600-617).
THEOREM SelectsEverythingAsked == Spec => []SelectsAllThatIsAsked
  <1>1. TranslatorInvariant => SelectsAllThatIsAsked
    BY AllThatIsAsked, Zenon DEF SelectsAllThatIsAsked
  <1> QED
    BY <1>1, TranslatedSoFar, PTL
=============================================================================
