----------------------------- MODULE ChunkProofs -----------------------------
(***************************************************************************)
(* Proofs about ChunkLayout, for any chunk sizes, bytes and lengths.       *)
(*                                                                         *)
(* Everything is reduced to parts of a sequence, Part(d, a, b) with        *)
(* a <= b <= Len(d): row i of a content is the part between two multiples  *)
(* of the chunk size, a join of rows is a part, and an append replaces the *)
(* rows from the one that its first byte falls into.                       *)
(***************************************************************************)
EXTENDS ChunkLayout, SequenceTheorems, WellFoundedInduction, TLAPS

-----------------------------------------------------------------------------
(* Parts of sequences *)

\* data[a:b] within the data.
Part(d, a, b) == SubSeq(d, a + 1, b)

LEMMA PartFacts ==
    ASSUME NEW d \in Seq(Byte), NEW a \in Nat, NEW b \in Nat, a <= b, b <= Len(d)
    PROVE  /\ Part(d, a, b) \in Seq(Byte) /\ Len(Part(d, a, b)) = b - a
           /\ \A i \in 1 .. b - a : Part(d, a, b)[i] = d[a + i]
<1>1. Len(d) \in Nat /\ \A i \in 1 .. Len(d) : d[i] \in Byte
  BY LenProperties, ElementOfSeq
<1>2. PICK m \in Int : m = a + 1
  OBVIOUS
<1>3. \A i \in m .. b : d[i] \in Byte
  BY <1>1, <1>2
<1>4. /\ SubSeq(d, m, b) \in Seq(Byte) /\ Len(SubSeq(d, m, b)) = IF m <= b THEN b - m + 1 ELSE 0
      /\ \A i \in 1 .. b - m + 1 : SubSeq(d, m, b)[i] = d[m + i - 1]
  BY <1>3, SubSeqProperties
<1> QED
  BY <1>2, <1>4 DEF Part

LEMMA PartType ==
    ASSUME NEW d \in Seq(Byte), NEW a \in Nat, NEW b \in Nat, a <= b, b <= Len(d)
    PROVE  Part(d, a, b) \in Seq(Byte) /\ Len(Part(d, a, b)) = b - a
BY PartFacts

LEMMA PartWhole ==
    ASSUME NEW d \in Seq(Byte)
    PROVE  Part(d, 0, Len(d)) = d /\ \A a \in Nat : Part(d, a, a) = << >>
<1>1. SubSeq(d, 1, Len(d)) = d
  BY SubSeqFull
<1>2. ASSUME NEW a \in Nat PROVE SubSeq(d, a + 1, a) = << >>
  BY SubSeqEmpty
<1> QED
  BY <1>1, <1>2 DEF Part

LEMMA PartJoin ==
    ASSUME NEW d \in Seq(Byte), NEW a \in Nat, NEW b \in Nat, NEW e \in Nat,
           a <= b, b <= e, e <= Len(d)
    PROVE  Part(d, a, b) \o Part(d, b, e) = Part(d, a, e)
<1>1. Len(d) \in Nat
  BY LenProperties
<1>2. a + 1 \in 1 .. Len(d) + 1 /\ b \in (a + 1) - 1 .. Len(d) /\ e \in b .. Len(d)
  BY <1>1
<1> QED
  BY <1>2, ConcatAdjacentSubSeq DEF Part

LEMMA PartPart ==
    ASSUME NEW d \in Seq(Byte), NEW a \in Nat, NEW b \in Nat, a <= b, b <= Len(d),
           NEW i \in Nat, NEW j \in Nat, i <= j, j <= b - a
    PROVE  Part(Part(d, a, b), i, j) = Part(d, a + i, a + j)
<1>x. PICK x : x = Part(d, a, b)
  OBVIOUS
<1>1. x \in Seq(Byte) /\ Len(x) = b - a /\ \A n \in 1 .. b - a : x[n] = d[a + n]
  BY PartFacts, <1>x
<1>2. Len(d) \in Nat /\ j <= Len(x)
  BY <1>1, LenProperties
<1>y. PICK y : y = Part(x, i, j)
  OBVIOUS
<1>3. y \in Seq(Byte) /\ Len(y) = j - i /\ \A n \in 1 .. j - i : y[n] = x[i + n]
  <2>1. x \in Seq(Byte) /\ j <= Len(x)
    BY <1>1, <1>2
  <2> QED
    BY <2>1, PartFacts, <1>y
<1>4. PICK m \in Nat, n \in Nat : m = a + i /\ n = a + j
  OBVIOUS
<1>5. m <= n /\ n <= Len(d)
  BY <1>2, <1>4
<1>z. PICK z : z = Part(d, m, n)
  OBVIOUS
<1>6. z \in Seq(Byte) /\ Len(z) = n - m /\ \A k \in 1 .. n - m : z[k] = d[m + k]
  <2>1. /\ Part(d, m, n) \in Seq(Byte) /\ Len(Part(d, m, n)) = n - m
        /\ \A k \in 1 .. n - m : Part(d, m, n)[k] = d[m + k]
    BY <1>5, PartFacts
  <2> QED
    BY <2>1, <1>z
<1>7. Len(y) = Len(z)
  BY <1>3, <1>4, <1>6
<1>8. ASSUME NEW k \in 1 .. Len(y) PROVE y[k] = z[k]
  <2>1. k \in 1 .. j - i /\ k \in 1 .. n - m /\ i + k \in 1 .. b - a
    BY <1>3, <1>4
  <2>2. y[k] = x[i + k] /\ x[i + k] = d[a + (i + k)] /\ z[k] = d[m + k]
    BY <1>1, <1>3, <1>6, <2>1
  <2>3. a + (i + k) = m + k
    BY <1>4, <2>1
  <2> QED
    BY <2>2, <2>3
<1>9. y = z
  BY <1>3, <1>6, <1>7, <1>8, SeqEqual
<1>10. y = Part(Part(d, a, b), i, j)
  BY <1>x, <1>y
<1>11. z = Part(d, a + i, a + j)
  BY <1>z, <1>4
<1> QED
  BY <1>9, <1>10, <1>11

\* A part of a concatenation, within the first or within the second sequence.
LEMMA PartConcat ==
    ASSUME NEW d \in Seq(Byte), NEW e \in Seq(Byte), NEW a \in Nat, NEW b \in Nat, a <= b
    PROVE  /\ b <= Len(d) => Part(d \o e, a, b) = Part(d, a, b)
           /\ b <= Len(e) => Part(d \o e, Len(d) + a, Len(d) + b) = Part(e, a, b)
<1>x. PICK x : x = d \o e
  OBVIOUS
<1>1. x \in Seq(Byte) /\ Len(x) = Len(d) + Len(e)
      /\ \A i \in 1 .. Len(d) + Len(e) : x[i] = IF i <= Len(d) THEN d[i] ELSE e[i - Len(d)]
  BY ConcatProperties, <1>x
<1>2. Len(d) \in Nat /\ Len(e) \in Nat
  BY LenProperties
<1>3. ASSUME b <= Len(d) PROVE Part(x, a, b) = Part(d, a, b)
  <2>1. x \in Seq(Byte) /\ b <= Len(x)
    BY <1>1, <1>2, <1>3
  <2>y. PICK y : y = Part(x, a, b)
    OBVIOUS
  <2>2. y \in Seq(Byte) /\ Len(y) = b - a /\ \A n \in 1 .. b - a : y[n] = x[a + n]
    BY <2>1, PartFacts, <2>y
  <2>z. PICK z : z = Part(d, a, b)
    OBVIOUS
  <2>3. z \in Seq(Byte) /\ Len(z) = b - a /\ \A n \in 1 .. b - a : z[n] = d[a + n]
    BY <1>3, PartFacts, <2>z
  <2>4. ASSUME NEW k \in 1 .. Len(y) PROVE y[k] = z[k]
    <3>1. k \in 1 .. b - a /\ a + k \in 1 .. Len(d) + Len(e) /\ a + k <= Len(d)
      BY <1>2, <1>3, <2>2
    <3> QED
      BY <1>1, <2>2, <2>3, <3>1
  <2>5. Len(y) = Len(z)
    BY <2>2, <2>3
  <2>6. y = z
    BY <2>2, <2>3, <2>4, <2>5, SeqEqual
  <2> QED
    BY <2>y, <2>z, <2>6
<1>4. ASSUME b <= Len(e) PROVE Part(x, Len(d) + a, Len(d) + b) = Part(e, a, b)
  <2>1. PICK m \in Nat, n \in Nat : m = Len(d) + a /\ n = Len(d) + b
    BY <1>2
  <2>2. m <= n /\ n <= Len(x) /\ n - m = b - a
    BY <1>1, <1>2, <1>4, <2>1
  <2>y. PICK y : y = Part(x, m, n)
    OBVIOUS
  <2>3. y \in Seq(Byte) /\ Len(y) = n - m /\ \A k \in 1 .. n - m : y[k] = x[m + k]
    <3>1. x \in Seq(Byte) /\ m \in Nat /\ n \in Nat /\ m <= n /\ n <= Len(x)
      BY <1>1, <2>1, <2>2
    <3>2. /\ Part(x, m, n) \in Seq(Byte) /\ Len(Part(x, m, n)) = n - m
          /\ \A k \in 1 .. n - m : Part(x, m, n)[k] = x[m + k]
      BY <3>1, PartFacts
    <3> QED
      BY <2>y, <3>2
  <2>z. PICK z : z = Part(e, a, b)
    OBVIOUS
  <2>4. z \in Seq(Byte) /\ Len(z) = b - a /\ \A k \in 1 .. b - a : z[k] = e[a + k]
    BY <1>4, PartFacts, <2>z
  <2>5. ASSUME NEW k \in 1 .. Len(y) PROVE y[k] = z[k]
    <3>1. /\ k \in 1 .. n - m /\ k \in 1 .. b - a
          /\ m + k \in 1 .. Len(d) + Len(e) /\ ~(m + k <= Len(d)) /\ (m + k) - Len(d) = a + k
      BY <1>2, <1>4, <2>1, <2>2, <2>3
    <3> QED
      BY <1>1, <2>3, <2>4, <3>1
  <2>6. Len(y) = Len(z)
    BY <2>2, <2>3, <2>4
  <2>7. y = z
    BY <2>3, <2>4, <2>5, <2>6, SeqEqual
  <2> QED
    BY <2>1, <2>y, <2>z, <2>7
<1> QED
  BY <1>x, <1>3, <1>4

\* What follows a in d, continued with e.
LEMMA PartTail ==
    ASSUME NEW d \in Seq(Byte), NEW e \in Seq(Byte), NEW a \in Nat, a <= Len(d)
    PROVE  Part(d, a, Len(d)) \o e = Part(d \o e, a, Len(d) + Len(e))
<1>x. PICK x : x = d \o e
  OBVIOUS
<1>1. PICK l \in Nat : l = Len(d)
  BY LenProperties
<1>2. PICK m \in Nat : m = Len(e)
  BY LenProperties
<1>3. x \in Seq(Byte) /\ Len(x) = l + m
  BY <1>1, <1>2, <1>x, ConcatProperties
<1>4. Part(x, a, l) = Part(d, a, l)
  BY <1>1, <1>x, PartConcat
<1>5. Part(x, l, l + m) = e
  <2>1. Part(x, l + 0, l + m) = Part(e, 0, m)
    <3>1. 0 \in Nat /\ 0 <= m /\ m <= Len(e)
      BY <1>2
    <3>2. Part(d \o e, Len(d) + 0, Len(d) + m) = Part(e, 0, m)
      BY <3>1, PartConcat
    <3> QED
      BY <1>1, <1>x, <3>2
  <2>2. Part(e, 0, m) = e
    BY <1>2, PartWhole
  <2>3. l + 0 = l
    OBVIOUS
  <2> QED
    BY <2>1, <2>2, <2>3
<1>6. PICK n \in Nat : n = l + m
  OBVIOUS
<1>7. a <= l /\ l <= n /\ n <= Len(x)
  BY <1>1, <1>3, <1>6
<1>8. Part(x, a, l) \o Part(x, l, n) = Part(x, a, n)
  BY <1>3, <1>7, PartJoin
<1> QED
  BY <1>1, <1>2, <1>x, <1>4, <1>5, <1>6, <1>8

LEMMA ConcatAssoc ==
    ASSUME NEW a \in Seq(Byte), NEW b \in Seq(Byte), NEW c \in Seq(Byte)
    PROVE  (a \o b) \o c = a \o (b \o c)
BY ConcatAssociative

LEMMA LeastFacts ==
    ASSUME NEW a \in Nat, NEW b \in Nat
    PROVE  /\ Least(a, b) \in Nat /\ Least(a, b) <= a /\ Least(a, b) <= b
           /\ a <= b => Least(a, b) = a
           /\ b <= a => Least(a, b) = b
BY DEF Least

LEMMA LeastShift ==
    ASSUME NEW a \in Nat, NEW b \in Nat, NEW p \in Nat, p <= a, p <= b
    PROVE  /\ Least(a - p, b - p) \in Nat /\ Least(a - p, b - p) <= b - p
           /\ p + Least(a - p, b - p) = Least(a, b)
BY DEF Least

\* Python's slices are parts, also past the end.
LEMMA SliceIsPart ==
    ASSUME NEW d \in Seq(Byte), NEW a \in Nat, NEW b \in Nat, a <= b
    PROVE  Slice(d, a, b) = Part(d, Least(a, Len(d)), Least(b, Len(d)))
<1>1. PICK n \in Nat : n = Len(d)
  BY LenProperties
<1>2. CASE a <= n
  BY <1>1, <1>2, LeastFacts DEF Slice, Part
<1>3. CASE n < a
  <2>1. Least(a, n) = n /\ Least(b, n) = n
    BY <1>1, <1>3 DEF Least
  <2>2. SubSeq(d, a + 1, n) = << >>
    BY <1>1, <1>3, SubSeqEmpty
  <2>3. Part(d, n, n) = << >>
    BY PartWhole
  <2> QED
    BY <1>1, <2>1, <2>2, <2>3 DEF Slice
<1> QED
  BY <1>1, <1>2, <1>3

-----------------------------------------------------------------------------
(* Chunk numbers *)

\* Multiples of a chunk size.
LEMMA Multiples ==
    ASSUME NEW cs \in Nat \ {0}, NEW i \in Nat, NEW j \in Nat
    PROVE  /\ i * cs \in Nat /\ i <= i * cs /\ (i + 1) * cs = i * cs + cs /\ 0 * cs = 0
           /\ i <= j => i * cs <= j * cs /\ (j - i) * cs = j * cs - i * cs
           /\ i < j => i * cs + cs <= j * cs
<1>1. i * cs \in Nat /\ i <= i * cs /\ (i + 1) * cs = i * cs + cs /\ 0 * cs = 0
  OBVIOUS
<1>2. ASSUME i <= j PROVE i * cs <= j * cs /\ (j - i) * cs = j * cs - i * cs
  <2>1. PICK n \in Nat : j = i + n
    <3>1. j - i \in Nat /\ j = i + (j - i)
      BY <1>2
    <3> QED
      BY <3>1
  <2>2. (i + n) * cs = i * cs + n * cs /\ n * cs \in Nat
    OBVIOUS
  <2>3. j - i = n
    BY <2>1
  <2>4. j * cs = i * cs + n * cs
    BY <2>1, <2>2
  <2> QED
    BY <1>1, <2>2, <2>3, <2>4
<1>3. ASSUME i < j PROVE i * cs + cs <= j * cs
  <2>1. PICK n \in Nat : j = (i + 1) + n
    <3>1. j - (i + 1) \in Nat /\ j = (i + 1) + (j - (i + 1))
      BY <1>3
    <3> QED
      BY <3>1
  <2>2. ((i + 1) + n) * cs = i * cs + cs + n * cs /\ n * cs \in Nat
    OBVIOUS
  <2> QED
    BY <1>1, <2>1, <2>2
<1> QED
  BY <1>1, <1>2, <1>3

\* The chunk that a length ends in, and how much of that chunk it fills.
LEMMA LastChunk ==
    ASSUME NEW cs \in Nat \ {0}, NEW n \in Nat
    PROVE  /\ n \div cs \in Nat /\ n % cs \in 0 .. cs - 1
           /\ n = (n \div cs) * cs + (n % cs)
OBVIOUS

\* Chunk i is one of those of n bytes when it begins within them.
LEMMA ChunkCount ==
    ASSUME NEW cs \in Nat \ {0}, NEW n \in Nat, NEW i \in Nat
    PROVE  i <= ((n + cs - 1) \div cs) - 1 <=> i * cs < n
<1>1. PICK m \in Nat : m = n + cs - 1
  OBVIOUS
<1>2. PICK q \in Nat : q = m \div cs /\ q * cs <= m /\ m < q * cs + cs
  BY LastChunk
<1>3. i * cs \in Nat /\ q * cs \in Nat
  BY Multiples
<1>4. ASSUME i < q PROVE i * cs < n
  <2>1. i * cs + cs <= q * cs
    BY <1>4, Multiples
  <2> QED
    BY <1>1, <1>2, <1>3, <2>1
<1>5. ASSUME q <= i PROVE ~(i * cs < n)
  <2>1. q * cs <= i * cs
    BY <1>5, Multiples
  <2> QED
    BY <1>1, <1>2, <1>3, <2>1
<1>6. i <= ((n + cs - 1) \div cs) - 1 <=> i < q
  BY <1>1, <1>2
<1> QED
  BY <1>4, <1>5, <1>6

\* Division is monotone: the chunk of an earlier byte is not a later one.
LEMMA EarlierChunk ==
    ASSUME NEW cs \in Nat \ {0}, NEW m \in Nat, NEW n \in Nat, m <= n
    PROVE  m \div cs <= n \div cs
<1>1. PICK p \in Nat : p = m \div cs /\ p * cs <= m
  BY LastChunk
<1>4. PICK q \in Nat : q = n \div cs /\ n < q * cs + cs
  BY LastChunk
<1>2. p * cs \in Nat /\ q * cs \in Nat
  BY Multiples
<1>3. ASSUME q < p PROVE FALSE
  <2>1. q * cs + cs <= p * cs
    BY <1>3, Multiples
  <2> QED
    BY <1>1, <1>2, <1>4, <2>1
<1> QED
  BY <1>1, <1>3, <1>4

-----------------------------------------------------------------------------
(* Rows *)

\* Row i of d in chunks of cs bytes is the part between two bounds.
Bound(d, cs, i) == Least(i * cs, Len(d))
Row(d, cs, i) == Part(d, Bound(d, cs, i), Bound(d, cs, i + 1))

\* The numbers of the rows of n bytes, from `first` on.
Numbered(n, cs, first) == {i \in Nat : first <= i /\ (i - first) * cs < n}

LEMMA BoundFacts ==
    ASSUME NEW d \in Seq(Byte), NEW cs \in Nat \ {0}, NEW i \in Nat, NEW j \in Nat, i <= j
    PROVE  /\ Bound(d, cs, i) \in Nat /\ Bound(d, cs, i) <= Bound(d, cs, j)
           /\ Bound(d, cs, j) \in Nat /\ Bound(d, cs, j) <= Len(d)
<1>1. i * cs \in Nat /\ j * cs \in Nat /\ i * cs <= j * cs
  BY Multiples
<1>2. Len(d) \in Nat
  BY LenProperties
<1> QED
  BY <1>1, <1>2 DEF Bound, Least

LEMMA CutRows ==
    ASSUME NEW d \in Seq(Byte), NEW cs \in Nat \ {0}, NEW first \in Nat
    PROVE  Cut(d, cs, first) = [i \in Numbered(Len(d), cs, first) |-> Row(d, cs, i - first)]
<1>1. PICK n \in Nat : n = Len(d)
  BY LenProperties
<1>2. (n + cs - 1) \div cs \in Nat
  <2>1. n + cs - 1 \in Nat
    OBVIOUS
  <2> QED
    BY <2>1, LastChunk
<1>3. ASSUME NEW i
      PROVE  i \in first .. first + ((n + cs - 1) \div cs) - 1 <=> i \in Numbered(n, cs, first)
  <2>1. CASE i \in Nat /\ first <= i
    <3>1. PICK k \in Nat : k = i - first
      BY <2>1
    <3>2. k <= ((n + cs - 1) \div cs) - 1 <=> k * cs < n
      BY ChunkCount
    <3>3. i \in first .. first + ((n + cs - 1) \div cs) - 1
              <=> k <= ((n + cs - 1) \div cs) - 1
      BY <1>2, <2>1, <3>1
    <3>4. i \in Numbered(n, cs, first) <=> k * cs < n
      BY <2>1, <3>1 DEF Numbered
    <3> QED
      BY <3>2, <3>3, <3>4
  <2>2. CASE ~(i \in Nat /\ first <= i)
    <3>1. i \notin first .. first + ((n + cs - 1) \div cs) - 1
      BY <1>2, <2>2
    <3>2. i \notin Numbered(n, cs, first)
      BY <2>2 DEF Numbered
    <3> QED
      BY <3>1, <3>2
  <2> QED
    BY <2>1, <2>2
<1>4. first .. first + ((n + cs - 1) \div cs) - 1 = Numbered(n, cs, first)
  BY <1>3
<1>5. ASSUME NEW i \in Numbered(n, cs, first)
      PROVE  Slice(d, (i - first) * cs, (i - first + 1) * cs) = Row(d, cs, i - first)
  <2>1. PICK k \in Nat : k = i - first
    BY DEF Numbered
  <2>2. k * cs \in Nat /\ (k + 1) * cs \in Nat /\ k * cs <= (k + 1) * cs
    BY Multiples
  <2>3. Slice(d, k * cs, (k + 1) * cs) = Row(d, cs, k)
    BY <2>2, SliceIsPart DEF Row, Bound
  <2> QED
    BY <2>1, <2>3
<1> QED
  BY <1>1, <1>4, <1>5 DEF Cut

\* The rows of a whole content.
LEMMA WholeRows ==
    ASSUME NEW d \in Seq(Byte), NEW cs \in Nat \ {0}
    PROVE  Whole(d, cs) = [i \in {j \in Nat : j * cs < Len(d)} |-> Row(d, cs, i)]
<1>1. Cut(d, cs, 0) = [i \in Numbered(Len(d), cs, 0) |-> Row(d, cs, i - 0)]
  BY CutRows
<1>2. Numbered(Len(d), cs, 0) = {j \in Nat : j * cs < Len(d)}
  <2>1. ASSUME NEW j \in Nat PROVE 0 <= j /\ j - 0 = j
    OBVIOUS
  <2> QED
    BY <2>1 DEF Numbered
<1>3. ASSUME NEW i \in {j \in Nat : j * cs < Len(d)} PROVE Row(d, cs, i - 0) = Row(d, cs, i)
  <2>1. i - 0 = i
    OBVIOUS
  <2> QED
    BY <2>1
<1> QED
  BY <1>1, <1>2, <1>3 DEF Whole

\* The rows from the one numbered no on are those of what follows no chunks.
LEMMA RowOfRest ==
    ASSUME NEW x \in Seq(Byte), NEW cs \in Nat \ {0}, NEW no \in Nat,
           NEW p \in Nat, p = no * cs, p <= Len(x), NEW i \in Nat, no <= i
    PROVE  Row(Part(x, p, Len(x)), cs, i - no) = Row(x, cs, i)
<1>1. p = no * cs
  OBVIOUS
<1>2. PICK n \in Nat : n = Len(x)
  BY LenProperties
<1>3. PICK k \in Nat : k = i - no
  OBVIOUS
<1>r. PICK r : r = Part(x, p, n)
  OBVIOUS
<1>4. r \in Seq(Byte) /\ Len(r) = n - p
  <2>1. p <= n /\ n <= Len(x)
    BY <1>1, <1>2
  <2>2. Part(x, p, n) \in Seq(Byte) /\ Len(Part(x, p, n)) = n - p
    BY <2>1, PartType
  <2> QED
    BY <1>r, <2>2
<1>5. PICK u \in Nat, v \in Nat : u = i * cs /\ v = (i + 1) * cs /\ u <= v
  <2>1. i * cs \in Nat /\ (i + 1) * cs \in Nat /\ i * cs <= (i + 1) * cs
    BY Multiples
  <2> QED
    BY <2>1
<1>6. k * cs = u - p /\ (k + 1) * cs = v - p /\ p <= u
  <2>1. (i - no) * cs = i * cs - no * cs /\ no * cs <= i * cs
    BY Multiples
  <2>2. no <= i + 1 /\ i + 1 \in Nat
    OBVIOUS
  <2>3. ((i + 1) - no) * cs = (i + 1) * cs - no * cs
    BY <2>2, Multiples
  <2>4. (i + 1) - no = k + 1
    BY <1>3
  <2> QED
    BY <1>1, <1>3, <1>5, <2>1, <2>3, <2>4
<1>p. p <= u /\ p <= v /\ p <= n
  BY <1>1, <1>2, <1>5, <1>6
<1>7. PICK a \in Nat : a = Least(u - p, n - p) /\ a <= n - p /\ p + a = Least(u, n)
  <2>1. /\ Least(u - p, n - p) \in Nat /\ Least(u - p, n - p) <= n - p
        /\ p + Least(u - p, n - p) = Least(u, n)
    BY <1>p, LeastShift
  <2> QED
    BY <2>1
<1>8. PICK b \in Nat : b = Least(v - p, n - p) /\ b <= n - p /\ p + b = Least(v, n)
  <2>1. /\ Least(v - p, n - p) \in Nat /\ Least(v - p, n - p) <= n - p
        /\ p + Least(v - p, n - p) = Least(v, n)
    BY <1>p, LeastShift
  <2> QED
    BY <2>1
<1>9. a <= b
  BY <1>1, <1>2, <1>5, <1>6, <1>7, <1>8 DEF Least
<1>10. Part(r, a, b) = Part(x, p + a, p + b)
  BY <1>1, <1>2, <1>8, <1>9, <1>r, PartPart
<1>11. Row(r, cs, k) = Part(r, a, b)
  <2>1. Bound(r, cs, k) = a
    BY <1>4, <1>6, <1>7 DEF Bound
  <2>2. Bound(r, cs, k + 1) = b
    BY <1>4, <1>6, <1>8 DEF Bound
  <2> QED
    BY <2>1, <2>2 DEF Row
<1>12. Row(x, cs, i) = Part(x, p + a, p + b)
  <2>1. Bound(x, cs, i) = p + a
    BY <1>2, <1>5, <1>7 DEF Bound
  <2>2. Bound(x, cs, i + 1) = p + b
    BY <1>2, <1>5, <1>8 DEF Bound
  <2> QED
    BY <2>1, <2>2 DEF Row
<1> QED
  BY <1>1, <1>2, <1>3, <1>r, <1>10, <1>11, <1>12

\* Writing what follows the last full chunk again, with e behind it, gives the
\* rows of the longer content.
LEMMA ExtendRows ==
    ASSUME NEW d \in Seq(Byte), NEW e \in Seq(Byte), NEW cs \in Nat \ {0},
           NEW no \in Nat, NEW p \in Nat, p = no * cs, p <= Len(d), Len(d) < p + cs
    PROVE  Put(Whole(d, cs), Cut(Part(d, p, Len(d)) \o e, cs, no)) = Whole(d \o e, cs)
<1>x. PICK x : x = d \o e
  OBVIOUS
<1>1. PICK l \in Nat : l = Len(d)
  BY LenProperties
<1>2. PICK m \in Nat : m = Len(e)
  BY LenProperties
<1>3. PICK n \in Nat : n = l + m
  OBVIOUS
<1>4. x \in Seq(Byte) /\ Len(x) = n
  BY <1>1, <1>2, <1>3, <1>x, ConcatProperties
<1>5. p = no * cs /\ p <= l
  BY <1>1
<1>r. PICK r : r = Part(x, p, n)
  OBVIOUS
<1>6. Part(d, p, l) \o e = r
  <2>1. p <= Len(d)
    BY <1>1, <1>5
  <2>2. Part(d, p, Len(d)) \o e = Part(d \o e, p, Len(d) + Len(e))
    BY <2>1, PartTail
  <2> QED
    BY <1>1, <1>2, <1>3, <1>x, <1>r, <2>2
<1>7. p <= n /\ n <= Len(x)
  BY <1>3, <1>4, <1>5
<1>8. r \in Seq(Byte) /\ Len(r) = n - p
  <2>1. Part(x, p, n) \in Seq(Byte) /\ Len(Part(x, p, n)) = n - p
    BY <1>4, <1>7, PartType
  <2> QED
    BY <1>r, <2>1
<1>w. PICK w : w = Whole(d, cs)
  OBVIOUS
<1>9. w = [i \in {j \in Nat : j * cs < l} |-> Row(d, cs, i)]
  <2>1. Whole(d, cs) = [i \in {j \in Nat : j * cs < Len(d)} |-> Row(d, cs, i)]
    BY WholeRows
  <2> QED
    BY <1>1, <1>w, <2>1
<1>c. PICK c : c = Cut(r, cs, no)
  OBVIOUS
<1>10. c = [i \in Numbered(n - p, cs, no) |-> Row(r, cs, i - no)]
  <2>1. Cut(r, cs, no) = [i \in Numbered(Len(r), cs, no) |-> Row(r, cs, i - no)]
    BY <1>8, CutRows
  <2> QED
    BY <1>8, <1>c, <2>1
<1>11. ASSUME NEW i \in Nat
       PROVE  i \in Numbered(n - p, cs, no) <=> no <= i /\ i * cs < n
  <2>1. ASSUME no <= i PROVE (i - no) * cs < n - p <=> i * cs < n
    <3>1. PICK u \in Nat : u = i * cs
      BY Multiples
    <3>2. (i - no) * cs = u - p
      BY <1>5, <2>1, <3>1, Multiples
    <3> QED
      BY <3>1, <3>2
  <2> QED
    BY <2>1 DEF Numbered
<1>12. ASSUME NEW i \in Nat
       PROVE  i * cs < n <=> i * cs < l \/ (no <= i /\ i * cs < n)
  <2>1. PICK u \in Nat : u = i * cs
    BY Multiples
  <2>2. ASSUME i < no PROVE u < l
    <3>1. u + cs <= p
      BY <1>5, <2>1, <2>2, Multiples
    <3> QED
      BY <1>5, <3>1
  <2> QED
    BY <1>3, <2>1, <2>2
<1>13. ASSUME NEW i \in Nat, no <= i PROVE Row(r, cs, i - no) = Row(x, cs, i)
  <2>1. Row(Part(x, p, Len(x)), cs, i - no) = Row(x, cs, i)
    <3>1. x \in Seq(Byte) /\ p <= Len(x)
      BY <1>4, <1>7
    <3> QED
      BY <1>5, <1>13, <3>1, RowOfRest
  <2> QED
    BY <1>4, <1>5, <1>r, <2>1
<1>14. ASSUME NEW i \in Nat, i < no PROVE Row(d, cs, i) = Row(x, cs, i)
  <2>1. PICK u \in Nat : u = i * cs
    BY Multiples
  <2>2. PICK v \in Nat : v = (i + 1) * cs
    BY Multiples
  <2>3. v = u + cs /\ v <= p
    BY <1>5, <1>14, <2>1, <2>2, Multiples
  <2>4. u <= l /\ v <= l /\ u <= n /\ v <= n /\ u <= v
    BY <1>3, <1>5, <2>3
  <2>5. Bound(d, cs, i) = u /\ Bound(d, cs, i + 1) = v
    BY <1>1, <2>1, <2>2, <2>4, LeastFacts DEF Bound
  <2>6. Bound(x, cs, i) = u /\ Bound(x, cs, i + 1) = v
    BY <1>4, <2>1, <2>2, <2>4, LeastFacts DEF Bound
  <2>7. Part(x, u, v) = Part(d, u, v)
    BY <1>1, <1>x, <2>4, PartConcat
  <2> QED
    BY <2>5, <2>6, <2>7 DEF Row
<1>15. DOMAIN w = {j \in Nat : j * cs < l} /\ DOMAIN c = Numbered(n - p, cs, no)
  BY <1>9, <1>10
<1>16. DOMAIN w \cup DOMAIN c = {j \in Nat : j * cs < n}
  <2>1. \A i \in DOMAIN c : i \in Nat
    BY <1>15 DEF Numbered
  <2>2. ASSUME NEW i \in Nat PROVE i \in DOMAIN w \cup DOMAIN c <=> i * cs < n
    BY <1>11, <1>12, <1>15
  <2>3. \A i \in DOMAIN w : i \in Nat
    BY <1>15
  <2> QED
    BY <2>1, <2>2, <2>3
<1>17. ASSUME NEW i \in {j \in Nat : j * cs < n}
       PROVE  (IF i \in DOMAIN c THEN c[i] ELSE w[i]) = Row(x, cs, i)
  <2>1. CASE i \in DOMAIN c
    <3>1. c[i] = Row(r, cs, i - no) /\ no <= i
      BY <1>10, <1>11, <1>15, <2>1
    <3> QED
      BY <1>13, <2>1, <3>1
  <2>2. CASE i \notin DOMAIN c
    <3>1. ~(no <= i)
      BY <1>11, <1>15, <2>2
    <3>2. i \in DOMAIN w
      BY <1>16, <2>2
    <3>3. w[i] = Row(d, cs, i)
      BY <1>9, <1>15, <3>2
    <3>4. Row(d, cs, i) = Row(x, cs, i)
      BY <1>14, <3>1
    <3> QED
      BY <2>2, <3>3, <3>4
  <2> QED
    BY <2>1, <2>2
<1>18. Put(w, c) = [i \in {j \in Nat : j * cs < n} |-> Row(x, cs, i)]
  BY <1>16, <1>17 DEF Put
<1>19. Whole(x, cs) = [i \in {j \in Nat : j * cs < n} |-> Row(x, cs, i)]
  BY <1>4, WholeRows
<1> QED
  BY <1>1, <1>5, <1>6, <1>x, <1>w, <1>c, <1>18, <1>19

\* No more than a chunk is cut into one row, and nothing into none.
LEMMA OneRow ==
    ASSUME NEW d \in Seq(Byte), NEW cs \in Nat \ {0}, NEW no \in Nat,
           0 < Len(d), Len(d) <= cs
    PROVE  Cut(d, cs, no) = [i \in {no} |-> d]
<1>1. PICK n \in Nat : n = Len(d) /\ 0 < n /\ n <= cs
  BY LenProperties
<1>2. ASSUME NEW i \in Nat, no <= i PROVE (i - no) * cs < n <=> i = no
  <2>1. PICK k \in Nat : k = i - no
    BY <1>2
  <2>2. k <= k * cs /\ (k = 0 => k * cs = 0) /\ (0 < k => 0 * cs + cs <= k * cs) /\ 0 * cs = 0
    BY Multiples
  <2>3. k * cs < n <=> k = 0
    BY <1>1, <2>2
  <2> QED
    BY <1>2, <2>1, <2>3
<1>3. Numbered(n, cs, no) = {no}
  <2>1. \A i \in Nat : no <= i /\ (i - no) * cs < n <=> i = no
    BY <1>2
  <2> QED
    BY <2>1 DEF Numbered
<1>4. Cut(d, cs, no) = [i \in {no} |-> Row(d, cs, i - no)]
  <2>1. Cut(d, cs, no) = [i \in Numbered(Len(d), cs, no) |-> Row(d, cs, i - no)]
    BY CutRows
  <2> QED
    BY <1>1, <1>3, <2>1
<1>5. Row(d, cs, no - no) = d
  <2>1. 0 * cs = 0 /\ (0 + 1) * cs = cs /\ no - no = 0
    OBVIOUS
  <2>2. Bound(d, cs, 0) = 0 /\ Bound(d, cs, 0 + 1) = n
    BY <1>1, <2>1 DEF Bound, Least
  <2>3. Part(d, 0, n) = d
    BY <1>1, PartWhole
  <2> QED
    BY <2>1, <2>2, <2>3 DEF Row
<1> QED
  BY <1>4, <1>5

LEMMA NoRow ==
    ASSUME NEW w, w = [i \in DOMAIN w |-> w[i]], NEW cs \in Nat \ {0}, NEW no \in Nat
    PROVE  Put(w, Cut(<< >>, cs, no)) = w
<1>1. << >> \in Seq(Byte) /\ Len(<< >>) = 0
  BY EmptySeq
<1>2. Numbered(0, cs, no) = {}
  <2>1. ASSUME NEW i \in Nat, no <= i PROVE ~((i - no) * cs < 0)
    <3>1. i - no \in Nat
      BY <2>1
    <3>2. (i - no) * cs \in Nat
      BY <3>1, Multiples
    <3> QED
      BY <3>2
  <2> QED
    BY <2>1 DEF Numbered
<1>3. DOMAIN Cut(<< >>, cs, no) = {}
  <2>1. Cut(<< >>, cs, no) = [i \in Numbered(Len(<< >>), cs, no) |-> Row(<< >>, cs, i - no)]
    BY <1>1, CutRows
  <2> QED
    BY <1>1, <1>2, <2>1
<1>4. Put(w, Cut(<< >>, cs, no)) = [i \in DOMAIN w |-> w[i]]
  BY <1>3 DEF Put
<1> QED
  BY <1>4

\* The partial chunk that a content ends in.
LEMMA LastRow ==
    ASSUME NEW d \in Seq(Byte), NEW cs \in Nat \ {0}, NEW no \in Nat, NEW p \in Nat,
           p = no * cs, p < Len(d), Len(d) < p + cs
    PROVE  no \in DOMAIN Whole(d, cs) /\ Whole(d, cs)[no] = Part(d, p, Len(d))
<1>1. PICK n \in Nat : n = Len(d) /\ p < n /\ n < p + cs
  BY LenProperties
<1>2. Whole(d, cs) = [i \in {j \in Nat : j * cs < Len(d)} |-> Row(d, cs, i)]
  BY WholeRows
<1>3. no \in {j \in Nat : j * cs < Len(d)}
  OBVIOUS
<1>4. (no + 1) * cs = p + cs
  BY Multiples
<1>5. Bound(d, cs, no) = p /\ Bound(d, cs, no + 1) = n
  BY <1>1, <1>4 DEF Bound, Least
<1> QED
  BY <1>1, <1>2, <1>3, <1>5 DEF Row

-----------------------------------------------------------------------------
(* Joining rows *)

\* Some number of a set of naturals is the least.
LEMMA LeastOne ==
    ASSUME NEW D, D \subseteq Nat, D # {}
    PROVE  \E x \in D : \A y \in D : ~(y < x)
<1>1. PICK R : R = {ss \in Nat \X Nat : ss[1] < ss[2]}
  OBVIOUS
<1>2. IsWellFoundedOn(R, Nat)
  <2>1. OpToRel(<, Nat) = R
    BY <1>1 DEF OpToRel
  <2> QED
    BY <2>1, NatLessThanWellFounded
<1>3. PICK x \in D : \A y \in D : ~(<<y, x>> \in R)
  BY <1>2, WFMin
<1>4. ASSUME NEW y \in D, y < x PROVE FALSE
  <2>1. <<y, x>> \in R
    BY <1>1, <1>4
  <2> QED
    BY <1>3, <2>1
<1> QED
  BY <1>4

LEMMA NearerTheEnd ==
    ASSUME NEW i \in Nat, NEW hi \in Nat
    PROVE  hi - (i + 1) < hi - i
OBVIOUS

\* What a recursion that counts up gives is settled from the end: a bounded set
\* that with each number holds the next one is empty.
LEMMA SettledFromTheEnd ==
    ASSUME NEW lo \in Nat, NEW hi \in Nat, NEW T, T \subseteq lo .. hi
    PROVE  (\A i \in T : i + 1 \in T) => T = {}
<1> SUFFICES ASSUME T # {} PROVE \E i \in T : i + 1 \notin T
  OBVIOUS
<1>1. PICK D : D = {hi - i : i \in T}
  OBVIOUS
<1>2. D \subseteq Nat /\ D # {}
  <2>1. \A i \in T : hi - i \in Nat
    OBVIOUS
  <2>2. D \subseteq Nat
    BY <1>1, <2>1
  <2>3. D # {}
    BY <1>1
  <2> QED
    BY <2>2, <2>3
<1>3. PICK x \in D : \A y \in D : ~(y < x)
  BY <1>2, LeastOne
<1>4. PICK i \in T : x = hi - i
  BY <1>1, <1>3
<1>5. hi - (i + 1) < hi - i
  <2>1. i \in Nat
    OBVIOUS
  <2> QED
    BY <2>1, NearerTheEnd
<1>6. ASSUME i + 1 \in T PROVE FALSE
  <2>1. PICK y \in D : y = hi - (i + 1)
    BY <1>1, <1>6
  <2>2. y < x
    BY <1>4, <1>5, <2>1, Zenon
  <2> QED
    BY <1>3, <2>2
<1> QED
  BY <1>6

\* Joined rows are the part between the first and the last bound.
LEMMA JoinRows ==
    ASSUME NEW d \in Seq(Byte), NEW cs \in Nat \ {0}, NEW lo \in Nat, NEW hi \in Nat, lo <= hi
    PROVE  Join(Whole(d, cs), lo, hi) = Part(d, Bound(d, cs, lo), Bound(d, cs, hi))
<1>w. PICK w : w = Whole(d, cs)
  OBVIOUS
<1>b. PICK b : b = [i \in Nat |-> Bound(d, cs, i)]
  OBVIOUS
<1>1. PICK n \in Nat : n = Len(d)
  BY LenProperties
<1>2. ASSUME NEW i \in Nat, NEW j \in Nat, i <= j
      PROVE  b[i] \in Nat /\ b[j] \in Nat /\ b[i] <= b[j] /\ b[j] <= Len(d)
  BY <1>b, <1>2, BoundFacts
<1>3. ASSUME NEW i \in Nat
      PROVE  (IF i \in DOMAIN w THEN w[i] ELSE << >>) = Part(d, b[i], b[i + 1])
  <2>1. w = [k \in {j \in Nat : j * cs < Len(d)} |-> Row(d, cs, k)]
    BY <1>w, WholeRows
  <2>2. b[i] = Bound(d, cs, i) /\ b[i + 1] = Bound(d, cs, i + 1)
    BY <1>b
  <2>3. CASE i * cs < Len(d)
    <3>1. i \in DOMAIN w /\ w[i] = Row(d, cs, i)
      BY <2>1, <2>3
    <3> QED
      BY <2>2, <3>1 DEF Row
  <2>4. CASE ~(i * cs < Len(d))
    <3>1. i \notin DOMAIN w
      BY <2>1, <2>4
    <3>2. PICK u \in Nat : u = i * cs
      BY Multiples
    <3>3. PICK v \in Nat : v = (i + 1) * cs
      BY Multiples
    <3>4. n <= u /\ n <= v
      <4>1. v = u + cs
        BY <3>2, <3>3, Multiples
      <4> QED
        BY <1>1, <2>4, <3>2, <4>1
    <3>5. b[i] = n /\ b[i + 1] = n
      BY <1>1, <2>2, <3>2, <3>3, <3>4, LeastFacts DEF Bound
    <3>6. Part(d, n, n) = << >>
      BY PartWhole
    <3> QED
      BY <3>1, <3>5, <3>6
  <2> QED
    BY <2>3, <2>4
<1>f. PICK f : f = [i \in lo .. hi |-> Part(d, b[i], b[hi])]
  OBVIOUS
<1>4. f[hi] = << >>
  <2>1. b[hi] \in Nat /\ hi \in lo .. hi
    BY <1>2
  <2>2. Part(d, b[hi], b[hi]) = << >>
    BY <2>1, PartWhole
  <2> QED
    BY <1>f, <2>1, <2>2
<1>5. ASSUME NEW i \in lo .. hi, i # hi
      PROVE  f[i] = (IF i \in DOMAIN w THEN w[i] ELSE << >>) \o f[i + 1]
  <2>1. i \in Nat /\ i + 1 \in Nat /\ i <= i + 1 /\ i + 1 <= hi /\ i + 1 \in lo .. hi
    BY <1>5
  <2>2. b[i] \in Nat /\ b[i + 1] \in Nat /\ b[hi] \in Nat
        /\ b[i] <= b[i + 1] /\ b[i + 1] <= b[hi] /\ b[hi] <= Len(d)
    BY <1>2, <2>1
  <2>3. Part(d, b[i], b[i + 1]) \o Part(d, b[i + 1], b[hi]) = Part(d, b[i], b[hi])
    BY <2>2, PartJoin
  <2>4. f[i] = Part(d, b[i], b[hi]) /\ f[i + 1] = Part(d, b[i + 1], b[hi])
    BY <1>f, <2>1
  <2> QED
    BY <1>3, <2>1, <2>3, <2>4
<1>6. CASE lo = hi
  <2>1. b[lo] \in Nat /\ b[lo] = Bound(d, cs, lo)
    BY <1>2, <1>b
  <2>2. Part(d, b[lo], b[lo]) = << >>
    BY <2>1, PartWhole
  <2> QED
    BY <1>6, <2>1, <2>2 DEF Join
<1>7. CASE lo < hi
  <2>1. f = [i \in lo .. hi |->
                IF i = hi THEN << >>
                ELSE (IF i \in DOMAIN w THEN w[i] ELSE << >>) \o f[i + 1]]
    <3>1. ASSUME NEW i \in lo .. hi
          PROVE  f[i] = IF i = hi THEN << >>
                        ELSE (IF i \in DOMAIN w THEN w[i] ELSE << >>) \o f[i + 1]
      <4>1. CASE i = hi
        BY <1>4, <4>1
      <4>2. CASE i # hi
        BY <1>5, <4>2
      <4> QED
        BY <4>1, <4>2
    <3>2. f = [i \in lo .. hi |-> f[i]]
      BY <1>f
    <3> QED
      BY <3>1, <3>2
  <2>g. PICK g : g = CHOOSE h : h = [i \in lo .. hi |->
                                        IF i = hi THEN << >>
                                        ELSE (IF i \in DOMAIN w THEN w[i] ELSE << >>) \o h[i + 1]]
    OBVIOUS
  <2>2. g = [i \in lo .. hi |->
                IF i = hi THEN << >>
                ELSE (IF i \in DOMAIN w THEN w[i] ELSE << >>) \o g[i + 1]]
    BY <2>1, <2>g
  <2>8. Join(w, lo, hi) = g[lo]
    BY <1>7, <2>g DEF Join
  <2>9. g[hi] = << >>
    BY <1>7, <2>2
  <2>10. ASSUME NEW i \in lo .. hi, i # hi
         PROVE  g[i] = (IF i \in DOMAIN w THEN w[i] ELSE << >>) \o g[i + 1]
    BY <2>2, <2>10
  <2>3. PICK T : T = {i \in lo .. hi : g[i] # f[i]}
    OBVIOUS
  <2>4. ASSUME NEW i \in T PROVE i + 1 \in T
    <3>1. i \in lo .. hi /\ g[i] # f[i]
      BY <2>3
    <3>2. i # hi
      BY <1>4, <2>9, <3>1
    <3>3. g[i] = (IF i \in DOMAIN w THEN w[i] ELSE << >>) \o g[i + 1]
      BY <2>10, <3>1, <3>2
    <3>4. f[i] = (IF i \in DOMAIN w THEN w[i] ELSE << >>) \o f[i + 1]
      BY <1>5, <3>1, <3>2
    <3>5. i + 1 \in lo .. hi
      BY <3>1, <3>2
    <3>6. g[i + 1] # f[i + 1]
      BY <3>1, <3>3, <3>4
    <3> QED
      BY <2>3, <3>5, <3>6
  <2>5. T \subseteq lo .. hi
    BY <2>3
  <2>6. T = {}
    BY <2>4, <2>5, SettledFromTheEnd
  <2>7. g[lo] = f[lo] /\ lo \in lo .. hi
    BY <1>7, <2>3, <2>6
  <2> QED
    BY <1>b, <1>f, <1>w, <2>7, <2>8
<1> QED
  BY <1>6, <1>7

\* All rows of a content within the bound are the content.
LEMMA AllRows ==
    ASSUME NEW d \in Seq(Byte), Len(d) <= MaxLen, NEW cs \in Nat \ {0}
    PROVE  All(Whole(d, cs)) = d
<1>1. MaxLen \in Nat
  BY ChunkAssumption
<1>2. PICK n \in Nat : n = Len(d) /\ n <= MaxLen
  BY LenProperties
<1>3. Join(Whole(d, cs), 0, MaxLen) = Part(d, Bound(d, cs, 0), Bound(d, cs, MaxLen))
  <2>1. 0 \in Nat /\ 0 <= MaxLen
    BY <1>1
  <2> QED
    BY <1>1, <2>1, JoinRows
<1>4. Bound(d, cs, 0) = 0
  <2>1. 0 * cs = 0
    OBVIOUS
  <2> QED
    BY <1>2, <2>1 DEF Bound, Least
<1>5. Bound(d, cs, MaxLen) = n
  <2>1. PICK u \in Nat : u = MaxLen * cs
    BY <1>1, Multiples
  <2>2. n <= u
    <3>1. MaxLen <= MaxLen * cs
      BY <1>1, Multiples
    <3> QED
      BY <1>1, <1>2, <2>1, <3>1
  <2> QED
    BY <1>2, <2>1, <2>2 DEF Bound, Least
<1>6. Part(d, 0, n) = d
  BY <1>2, PartWhole
<1> QED
  BY <1>3, <1>4, <1>5, <1>6 DEF All

-----------------------------------------------------------------------------
(* Rows of one write *)

\* A node, or a staged upload, that holds d as one write would have cut it.
Laid(n, d) == /\ n.chunk_size \in Nat \ {0} /\ n.size = Len(d)
              /\ n.chunks = Whole(d, n.chunk_size)

\* Staging a part keeps that.
LEMMA StagedWhole ==
    ASSUME NEW u, NEW d \in Seq(Byte), NEW e \in Seq(Byte), Laid(u, d), e # << >>
    PROVE  StagedRows(u, e) = Whole(d \o e, u.chunk_size)
<1>c. PICK cs \in Nat \ {0} : cs = u.chunk_size
  BY DEF Laid
<1>l. PICK l \in Nat : l = Len(d)
  BY LenProperties
<1>m. PICK m \in Nat : m = Len(e) /\ m > 0
  BY LenProperties, EmptySeq
<1>n. PICK no \in Nat : no = l \div cs
  BY LastChunk
<1>o. PICK part \in Nat : part = l % cs /\ part < cs
  <2>1. l % cs \in 0 .. cs - 1
    BY LastChunk
  <2> QED
    BY <2>1
<1>p. PICK p \in Nat : p = no * cs
  BY Multiples
<1>1. l = p + part
  BY <1>n, <1>o, <1>p, LastChunk
<1>w. PICK w : w = Whole(d, cs)
  OBVIOUS
<1>2. u.chunk_size = cs /\ u.size = l /\ u.chunks = w
  BY <1>c, <1>l, <1>w DEF Laid
<1>3. p <= Len(d) /\ Len(d) < p + cs
  BY <1>l, <1>o, <1>1
<1>4. /\ u.chunk_size = cs /\ u.chunks = w
      /\ u.size \div u.chunk_size = no /\ u.size % u.chunk_size = part
  BY <1>2, <1>n, <1>o
<1>x. ASSUME NEW a \in Seq(Byte)
      PROVE  Put(Whole(d, cs), Cut(Part(d, p, Len(d)) \o a, cs, no)) = Whole(d \o a, cs)
  BY <1>3, <1>p, ExtendRows
<1>5. ASSUME part = 0 PROVE StagedRows(u, e) = Whole(d \o e, cs)
  <2>1. StagedRows(u, e) = Put(w, Cut(e, cs, no))
    BY <1>5, <1>4 DEF StagedRows
  <2>2. Part(d, p, Len(d)) \o e = e
    <3>1. p = Len(d)
      BY <1>l, <1>1, <1>5
    <3>2. Part(d, p, Len(d)) = << >>
      BY <3>1, PartWhole
    <3>3. << >> \o e = e
      BY ConcatEmptySeq
    <3> QED
      BY <3>2, <3>3
  <2>3. Put(Whole(d, cs), Cut(Part(d, p, Len(d)) \o e, cs, no)) = Whole(d \o e, cs)
    BY <1>x
  <2> QED
    BY <1>w, <2>1, <2>2, <2>3
<1>6. ASSUME part > 0 PROVE StagedRows(u, e) = Whole(d \o e, cs)
  <2>t. PICK take \in Nat : take = Least(cs - part, m)
    <3>1. cs - part \in Nat
      BY <1>o
    <3>2. Least(cs - part, m) \in Nat
      BY <3>1, LeastFacts
    <3> QED
      BY <3>2
  <2>1. take > 0 /\ take <= m /\ part + take <= cs /\ (take = m \/ part + take = cs)
    BY <1>m, <1>o, <2>t DEF Least
  <2>a. PICK a : a = Part(e, 0, take)
    OBVIOUS
  <2>b. PICK b : b = Part(e, take, m)
    OBVIOUS
  <2>2. Slice(e, 0, take) = a
    <3>1. Least(0, m) = 0 /\ Least(take, m) = take
      BY <2>1 DEF Least
    <3>2. Slice(e, 0, take) = Part(e, Least(0, Len(e)), Least(take, Len(e)))
      BY SliceIsPart
    <3> QED
      BY <1>m, <2>a, <3>1, <3>2
  <2>3. Slice(e, take, m) = b
    <3>1. Least(take, m) = take /\ Least(m, m) = m
      BY <2>1 DEF Least
    <3>2. Slice(e, take, m) = Part(e, Least(take, Len(e)), Least(m, Len(e)))
      BY <2>1, SliceIsPart
    <3> QED
      BY <1>m, <2>b, <3>1, <3>2
  <2>4. a \in Seq(Byte) /\ Len(a) = take
    <3>1. 0 <= take /\ take <= Len(e) /\ take - 0 = take
      BY <1>m, <2>1
    <3>2. Part(e, 0, take) \in Seq(Byte) /\ Len(Part(e, 0, take)) = take - 0
      BY <3>1, PartType
    <3> QED
      BY <2>a, <3>1, <3>2
  <2>5. b \in Seq(Byte)
    <3>1. take <= m /\ m <= Len(e)
      BY <1>m, <2>1
    <3>2. Part(e, take, m) \in Seq(Byte)
      BY <3>1, PartType
    <3> QED
      BY <2>b, <3>2
  <2>6. a \o b = e
    <3>1. 0 <= take /\ take <= m /\ m <= Len(e)
      BY <1>m, <2>1
    <3>2. Part(e, 0, take) \o Part(e, take, m) = Part(e, 0, m)
      BY <3>1, PartJoin
    <3>3. Part(e, 0, m) = e
      BY <1>m, PartWhole
    <3> QED
      BY <2>a, <2>b, <3>2, <3>3
  <2>g. PICK merged : merged = Part(d, p, l) \o a
    OBVIOUS
  <2>7. merged \in Seq(Byte) /\ Len(merged) = part + take
    <3>1. Part(d, p, l) \in Seq(Byte) /\ Len(Part(d, p, l)) = l - p
      <4>1. p <= l /\ l <= Len(d)
        BY <1>l, <1>1
      <4> QED
        BY <4>1, PartType
    <3>2. l - p = part
      BY <1>1
    <3> QED
      BY <2>4, <2>g, <3>1, <3>2, ConcatProperties
  <2>8. w[no] = Part(d, p, l)
    <3>1. p < Len(d)
      BY <1>l, <1>1, <1>6
    <3>2. Whole(d, cs)[no] = Part(d, p, Len(d))
      BY <1>3, <1>p, <3>1, LastRow
    <3> QED
      BY <1>l, <1>w, <3>2
  <2>x. PICK x : x = d \o a
    OBVIOUS
  <2>9. x \in Seq(Byte) /\ Len(x) = l + take
    BY <1>l, <2>4, <2>x, ConcatProperties
  <2>10. x \o b = d \o e
    <3>1. (d \o a) \o b = d \o (a \o b)
      <4>1. d \in Seq(Byte) /\ a \in Seq(Byte) /\ b \in Seq(Byte)
        BY <2>4, <2>5
      <4> QED
        BY <4>1, ConcatAssoc
    <3> QED
      BY <2>6, <2>x, <3>1
  <2>11. Put(w, [i \in {no} |-> merged]) = Whole(x, cs)
    <3>1. Put(Whole(d, cs), Cut(Part(d, p, Len(d)) \o a, cs, no)) = Whole(d \o a, cs)
      BY <1>x, <2>4
    <3>2. Cut(merged, cs, no) = [i \in {no} |-> merged]
      <4>1. 0 < Len(merged) /\ Len(merged) <= cs
        BY <2>1, <2>7
      <4> QED
        BY <2>7, <4>1, OneRow
    <3> QED
      BY <1>l, <1>w, <2>g, <2>x, <3>1, <3>2
  <2>12. PICK next \in Nat : next = IF Len(merged) = cs THEN no + 1 ELSE no
    OBVIOUS
  <2>13. StagedRows(u, e) = Put(Put(w, [i \in {no} |-> merged]), Cut(b, cs, next))
    <3>1. take # 0 /\ part # 0 /\ part > 0
      BY <1>6, <2>1
    <3>2. (IF part = 0 THEN 0 ELSE Least(cs - part, Len(e))) = take
      BY <1>m, <2>t, <3>1
    <3>3. w[no] \o Slice(e, 0, take) = merged /\ Slice(e, take, Len(e)) = b
      BY <1>m, <2>2, <2>3, <2>8, <2>g
    <3>4. (IF part > 0 /\ Len(merged) = cs THEN no + 1 ELSE no) = next
      BY <2>12, <3>1
    <3> QED
      BY <1>4, <3>1, <3>2, <3>3, <3>4 DEF StagedRows
  <2>14. CASE part + take = cs
    <3>1. next = no + 1
      BY <2>7, <2>12, <2>14
    <3>2. PICK q \in Nat : q = p + cs
      OBVIOUS
    <3>3. q = next * cs
      BY <1>p, <3>1, <3>2, Multiples
    <3>4. q = Len(x)
      BY <1>1, <2>9, <2>14, <3>2
    <3>5. q <= Len(x) /\ Len(x) < q + cs
      BY <3>4
    <3>6. Part(x, q, Len(x)) \o b = b
      <4>1. Part(x, q, Len(x)) = << >>
        BY <2>9, <3>4, PartWhole
      <4>2. << >> \o b = b
        BY <2>5, ConcatEmptySeq
      <4> QED
        BY <4>1, <4>2
    <3>7. Put(Whole(x, cs), Cut(Part(x, q, Len(x)) \o b, cs, next)) = Whole(x \o b, cs)
      <4>1. x \in Seq(Byte) /\ b \in Seq(Byte)
        BY <2>5, <2>9
      <4> QED
        BY <3>3, <3>5, <4>1, ExtendRows
    <3> QED
      BY <2>10, <2>11, <2>13, <3>6, <3>7
  <2>15. CASE take = m
    <3>1. b = << >>
      BY <1>m, <2>b, <2>15, PartWhole
    <3>2. x = d \o e
      <4>1. Part(e, 0, m) = e
        BY <1>m, PartWhole
      <4> QED
        BY <2>15, <2>a, <2>x, <4>1
    <3>3. Put(Whole(x, cs), Cut(<< >>, cs, next)) = Whole(x, cs)
      <4>1. Whole(x, cs) = [i \in {j \in Nat : j * cs < Len(x)} |-> Row(x, cs, i)]
        BY <2>9, WholeRows
      <4>2. PICK y : y = Whole(x, cs)
        OBVIOUS
      <4>3. y = [i \in DOMAIN y |-> y[i]]
        BY <4>1, <4>2
      <4>4. Put(y, Cut(<< >>, cs, next)) = y
        BY <4>3, NoRow
      <4> QED
        BY <4>2, <4>4
    <3> QED
      BY <2>11, <2>13, <3>1, <3>2, <3>3
  <2> QED
    BY <2>1, <2>14, <2>15
<1> QED
  BY <1>o, <1>5, <1>6, <1>c

\* An append keeps that, whatever the chunk size of the upload.
LEMMA AppendedWhole ==
    ASSUME NEW n, NEW u, NEW d \in Seq(Byte), NEW e \in Seq(Byte),
           Laid(n, d), Laid(u, e), Len(e) <= MaxLen
    PROVE  AppendedRows(n, u) = Whole(d \o e, n.chunk_size)
<1>c. PICK cs \in Nat \ {0} : cs = n.chunk_size
  BY DEF Laid
<1>l. PICK l \in Nat : l = Len(d)
  BY LenProperties
<1>n. PICK no \in Nat : no = l \div cs
  BY LastChunk
<1>o. PICK part \in Nat : part = l % cs /\ part < cs
  <2>1. l % cs \in 0 .. cs - 1
    BY LastChunk
  <2> QED
    BY <2>1
<1>p. PICK p \in Nat : p = no * cs
  BY Multiples
<1>1. l = p + part
  BY <1>n, <1>o, <1>p, LastChunk
<1>w. PICK w : w = Whole(d, cs)
  OBVIOUS
<1>2. /\ n.chunk_size = cs /\ n.chunks = w
      /\ n.size \div n.chunk_size = no /\ n.size % n.chunk_size = part
  BY <1>c, <1>l, <1>n, <1>o, <1>w DEF Laid
<1>3. p <= Len(d) /\ Len(d) < p + cs
  BY <1>l, <1>o, <1>1
<1>4. All(u.chunks) = e /\ u.size = Len(e)
  <2>1. u.chunk_size \in Nat \ {0}
    BY DEF Laid
  <2>2. All(Whole(e, u.chunk_size)) = e
    BY <2>1, AllRows
  <2> QED
    BY <2>2 DEF Laid
<1>t. PICK tail : tail = Part(d, p, Len(d))
  OBVIOUS
<1>5. (IF part > 0 THEN Slice(w[no], 0, part) ELSE << >>) = tail
  <2>1. CASE part = 0
    <3>1. p = Len(d)
      BY <1>l, <1>1, <2>1
    <3>2. Part(d, p, Len(d)) = << >>
      BY <3>1, PartWhole
    <3> QED
      BY <1>t, <2>1, <3>2
  <2>2. CASE part > 0
    <3>1. p < Len(d)
      BY <1>l, <1>1, <2>2
    <3>2. w[no] = tail
      BY <1>3, <1>p, <1>t, <1>w, <3>1, LastRow
    <3>3. tail \in Seq(Byte) /\ Len(tail) = part
      <4>1. PICK q \in Nat : q = Len(d) /\ p <= q /\ q <= Len(d) /\ q - p = part
        BY <1>l, <1>1
      <4>2. Part(d, p, q) \in Seq(Byte) /\ Len(Part(d, p, q)) = q - p
        BY <4>1, PartType
      <4> QED
        BY <1>t, <4>1, <4>2
    <3>4. Slice(tail, 0, part) = Part(tail, 0, part)
      <4>1. Slice(tail, 0, part) = Part(tail, Least(0, Len(tail)), Least(part, Len(tail)))
        BY <3>3, SliceIsPart
      <4>2. Least(0, part) = 0 /\ Least(part, part) = part
        BY <2>2 DEF Least
      <4> QED
        BY <3>3, <4>1, <4>2
    <3>5. Part(tail, 0, part) = tail
      BY <3>3, PartWhole
    <3> QED
      BY <2>2, <3>2, <3>4, <3>5
  <2> QED
    BY <2>1, <2>2
<1>6. Put(w, Cut(tail \o e, cs, no)) = Whole(d \o e, cs)
  BY <1>3, <1>p, <1>t, <1>w, ExtendRows
<1>7. CASE u.size = 0
  <2>1. e = << >>
    BY <1>4, <1>7, EmptySeq
  <2>2. d \o e = d
    BY <2>1, ConcatEmptySeq
  <2> QED
    BY <1>2, <1>7, <1>w, <2>2 DEF AppendedRows
<1>8. CASE u.size # 0
  <2>1. AppendedRows(n, u) = Put(w, Cut(tail \o e, cs, no))
    BY <1>2, <1>4, <1>5, <1>8 DEF AppendedRows
  <2> QED
    BY <1>c, <1>6, <2>1
<1> QED
  BY <1>7, <1>8

\* Reading and hashing take the whole of it.
LEMMA WholeSlice ==
    ASSUME NEW d \in Seq(Byte)
    PROVE  Slice(d, 0, Len(d)) = d
<1>1. PICK n \in Nat : n = Len(d)
  BY LenProperties
<1>2. Slice(d, 0, n) = Part(d, Least(0, n), Least(n, n))
  BY <1>1, SliceIsPart
<1>3. Least(0, n) = 0 /\ Least(n, n) = n
  BY DEF Least
<1>4. Part(d, 0, n) = d
  BY <1>1, PartWhole
<1> QED
  BY <1>1, <1>2, <1>3, <1>4

LEMMA LaidAll ==
    ASSUME NEW n, NEW d \in Seq(Byte), Laid(n, d), Len(d) <= MaxLen
    PROVE  All(n.chunks) = d /\ ReadFile(n) = d
<1>1. All(Whole(d, n.chunk_size)) = d
  <2>1. n.chunk_size \in Nat \ {0}
    BY DEF Laid
  <2> QED
    BY <2>1, AllRows
<1>2. All(n.chunks) = d /\ n.size = Len(d)
  BY <1>1 DEF Laid
<1> QED
  BY <1>2, WholeSlice DEF ReadFile

LEMMA AppendedHashExact ==
    ASSUME NEW n, NEW u, NEW d \in Seq(Byte), NEW e \in Seq(Byte),
           Laid(n, d), Laid(u, e), Len(d) <= MaxLen, Len(e) <= MaxLen
    PROVE  AppendedHash(n, u) = d \o e
<1>1. All(n.chunks) = d /\ All(u.chunks) = e
  BY LaidAll
<1>2. n.size = Len(d) /\ u.size = Len(e)
  BY DEF Laid
<1>3. Slice(d, 0, Len(d)) = d /\ Slice(e, 0, Len(e)) = e
  BY WholeSlice
<1> QED
  BY <1>1, <1>2, <1>3 DEF AppendedHash

-----------------------------------------------------------------------------
(* Reading *)

\* read_range reads the chunks that overlap the range, and slices them.
LEMMA ReadRangeExact ==
    ASSUME NEW n, NEW d \in Seq(Byte), Laid(n, d), NEW start \in Int, NEW end \in Int
    PROVE  ReadRange(n, start, end) = Slice(d, Most(0, start), end)
<1>c. PICK cs \in Nat \ {0} : cs = n.chunk_size
  BY DEF Laid
<1>l. PICK l \in Nat : l = Len(d)
  BY LenProperties
<1>w. PICK w : w = Whole(d, cs)
  OBVIOUS
<1>1. n.chunk_size = cs /\ n.size = l /\ n.chunks = w
  BY <1>c, <1>l, <1>w DEF Laid
<1>a. PICK a \in Nat : a = Most(0, start)
  <2>1. Most(0, start) \in Nat
    BY DEF Most
  <2> QED
    BY <2>1
<1>b. PICK b \in Int : b = Least(end, l)
  <2>1. Least(end, l) \in Int
    BY DEF Least
  <2> QED
    BY <2>1
<1>2. b <= end /\ b <= l
  BY <1>b DEF Least
<1>3. Slice(d, Most(0, start), end) = SubSeq(d, a + 1, b)
  BY <1>a, <1>b, <1>l DEF Slice
<1>4. CASE end <= a \/ a >= b
  <2>1. b < a + 1
    BY <1>2, <1>4
  <2>2. SubSeq(d, a + 1, b) = << >>
    BY <2>1, SubSeqEmpty
  <2>3. ReadRange(n, start, end) = << >>
    BY <1>1, <1>4, <1>a, <1>b DEF ReadRange
  <2> QED
    BY <1>3, <2>2, <2>3
<1>5. CASE ~(end <= a \/ a >= b)
  <2>1. PICK e \in Nat : e = b /\ a < e /\ e <= l
    <3>1. b \in Nat /\ a < b
      BY <1>5
    <3> QED
      BY <1>2, <3>1
  <2>2. PICK first \in Nat : first = a \div cs
    BY LastChunk
  <2>3. PICK y \in Nat : y = e - 1 /\ a <= y
    <3>1. e - 1 \in Nat /\ a <= e - 1
      BY <2>1
    <3> QED
      BY <3>1
  <2>4. PICK last \in Nat : last = y \div cs
    BY LastChunk
  <2>5. PICK f \in Nat : f = first * cs /\ f <= a
    <3>1. PICK f \in Nat : f = first * cs
      BY Multiples
    <3>2. f <= a
      BY <2>2, <3>1, LastChunk
    <3> QED
      BY <3>1, <3>2
  <2>6. PICK hi \in Nat : hi = last + 1 /\ first <= hi
    <3>1. first <= last
      BY <2>2, <2>3, <2>4, EarlierChunk
    <3> QED
      BY <3>1
  <2>7. PICK v \in Nat : v = hi * cs /\ y < v
    <3>1. PICK u \in Nat : u = last * cs
      BY Multiples
    <3>2. y < u + cs
      BY <2>4, <3>1, LastChunk
    <3>3. PICK v \in Nat : v = hi * cs
      BY Multiples
    <3>4. v = u + cs
      BY <2>6, <3>1, <3>3, Multiples
    <3> QED
      BY <3>2, <3>3, <3>4
  <2>8. PICK g \in Nat : g = Least(v, l) /\ e <= g /\ g <= l
    <3>1. Least(v, l) \in Nat /\ Least(v, l) <= l
      BY LeastFacts
    <3>2. e <= Least(v, l)
      BY <2>1, <2>3, <2>7 DEF Least
    <3> QED
      BY <3>1, <3>2
  <2>r. PICK r : r = Part(d, f, g)
    OBVIOUS
  <2>9. Join(w, first, hi) = r
    <3>1. Join(Whole(d, cs), first, hi) = Part(d, Bound(d, cs, first), Bound(d, cs, hi))
      BY <2>6, JoinRows
    <3>2. Bound(d, cs, first) = f
      <4>1. f <= l
        BY <2>1, <2>5
      <4> QED
        BY <1>l, <2>5, <4>1, LeastFacts DEF Bound
    <3>3. Bound(d, cs, hi) = g
      BY <1>l, <2>7, <2>8 DEF Bound
    <3> QED
      BY <1>w, <2>r, <3>1, <3>2, <3>3
  <2>10. r \in Seq(Byte) /\ Len(r) = g - f
    <3>1. f <= g /\ g <= Len(d)
      BY <1>l, <2>1, <2>5, <2>8
    <3>2. Part(d, f, g) \in Seq(Byte) /\ Len(Part(d, f, g)) = g - f
      BY <3>1, PartType
    <3> QED
      BY <2>r, <3>2
  <2>11. PICK o \in Nat : o = a - f
    BY <2>5
  <2>12. PICK q \in Nat : q = o + (e - a)
    BY <2>1
  <2>13. o <= q /\ q <= g - f /\ o <= g - f /\ f + o = a /\ f + q = e
    BY <2>1, <2>5, <2>8, <2>11, <2>12
  <2>14. Slice(r, o, q) = Part(r, o, q)
    <3>1. Slice(r, o, q) = Part(r, Least(o, Len(r)), Least(q, Len(r)))
      BY <2>10, <2>13, SliceIsPart
    <3>2. PICK k \in Nat : k = g - f
      BY <2>1, <2>5, <2>8
    <3>3. Least(o, k) = o /\ Least(q, k) = q
      BY <2>13, <3>2, LeastFacts
    <3> QED
      BY <2>10, <3>1, <3>2, <3>3
  <2>15. Part(r, o, q) = Part(d, a, e)
    <3>1. f <= g /\ g <= Len(d)
      BY <1>l, <2>1, <2>5, <2>8
    <3>2. Part(Part(d, f, g), o, q) = Part(d, f + o, f + q)
      BY <2>13, <3>1, PartPart
    <3> QED
      BY <2>r, <2>13, <3>2
  <2>16. ReadRange(n, start, end) = Slice(r, o, q)
    <3>1. /\ n.chunk_size = cs /\ n.chunks = w
          /\ Most(0, start) = a /\ Least(end, n.size) = e
      BY <1>1, <1>a, <1>b, <2>1
    <3>2. /\ a \div cs = first /\ (e - 1) \div cs + 1 = hi /\ Join(w, first, hi) = r
          /\ a - first * cs = o /\ o + (e - a) = q /\ ~(end <= a \/ a >= e)
      BY <1>5, <2>1, <2>2, <2>3, <2>4, <2>5, <2>6, <2>9, <2>11, <2>12
    <3> QED
      BY <3>1, <3>2 DEF ReadRange
  <2>17. Part(d, a, e) = SubSeq(d, a + 1, b)
    BY <2>1 DEF Part
  <2> QED
    BY <1>3, <2>14, <2>15, <2>16, <2>17
<1> QED
  BY <1>4, <1>5

\* cat_file slices as Python does.
LEMMA CatFileExact ==
    ASSUME NEW n, NEW d \in Seq(Byte), Laid(n, d), Len(d) <= MaxLen,
           NEW start \in Int, NEW end \in Int
    PROVE  CatFile(n, start, end) = PySlice(d, start, end)
<1>1. ReadFile(n) = d
  BY LaidAll
<1>2. ReadRange(n, start, end) = Slice(d, Most(0, start), end)
  BY ReadRangeExact
<1>3. CASE start < 0 \/ end < 0
  BY <1>1, <1>3 DEF CatFile
<1>4. CASE ~(start < 0 \/ end < 0)
  <2>1. Most(0, start) = start
    BY <1>4 DEF Most
  <2>2. CatFile(n, start, end) = Slice(d, start, end)
    BY <1>2, <1>4, <2>1 DEF CatFile
  <2>3. PySlice(d, start, end) = Slice(d, start, end)
    BY <1>4 DEF PySlice
  <2> QED
    BY <2>2, <2>3
<1> QED
  BY <1>3, <1>4

\* An export gets all blocks, of whatever length.
LEMMA ExportWhole ==
    ASSUME NEW n, NEW d \in Seq(Byte), Laid(n, d), Len(d) <= MaxLen, NEW block \in Nat \ {0}
    PROVE  Export(n, block) = d
<1>l. PICK l \in Nat : l = Len(d) /\ l <= MaxLen
  BY LenProperties
<1>s. n.size = l
  BY <1>l DEF Laid
<1>h. PICK hi \in Nat : hi = MaxLen + 1 /\ MaxLen \in Nat
  BY ChunkAssumption
<1>b. PICK b : b = [k \in Nat |-> Bound(d, block, k)]
  OBVIOUS
<1>f. PICK f : f = [k \in 0 .. hi |-> Part(d, b[k], l)]
  OBVIOUS
<1>1. ASSUME NEW k \in Nat
      PROVE  /\ b[k] \in Nat /\ b[k] <= l /\ b[k + 1] \in Nat /\ b[k] <= b[k + 1] /\ b[k + 1] <= l
             /\ b[k] = Least(k * block, l) /\ b[k + 1] = Least((k + 1) * block, l)
  <2>1. k + 1 \in Nat /\ k <= k + 1 /\ k <= k
    OBVIOUS
  <2>2. b[k] = Bound(d, block, k) /\ b[k + 1] = Bound(d, block, k + 1)
    BY <1>b
  <2>3. /\ Bound(d, block, k) \in Nat /\ Bound(d, block, k) <= Bound(d, block, k + 1)
        /\ Bound(d, block, k + 1) \in Nat /\ Bound(d, block, k + 1) <= Len(d)
    BY <2>1, BoundFacts
  <2>4. Bound(d, block, k) <= Len(d)
    BY <2>1, BoundFacts
  <2> QED
    BY <1>l, <2>2, <2>3, <2>4 DEF Bound
<1>2. ASSUME NEW k \in Nat, k * block >= l PROVE Part(d, b[k], l) = << >>
  <2>1. PICK u \in Nat : u = k * block
    BY Multiples
  <2>2. b[k] = l
    <3>1. b[k] = Least(u, l)
      BY <1>1, <2>1
    <3>2. Least(u, l) = l
      BY <1>2, <2>1 DEF Least
    <3> QED
      BY <3>1, <3>2
  <2>3. Part(d, l, l) = << >>
    BY PartWhole
  <2> QED
    BY <2>2, <2>3
<1>3. ASSUME NEW k \in 0 .. hi, ~(k * block >= l)
      PROVE  /\ k + 1 \in 0 .. hi
             /\ ReadRange(n, k * block, Least((k + 1) * block, n.size)) = Part(d, b[k], b[k + 1])
             /\ f[k] = Part(d, b[k], b[k + 1]) \o f[k + 1]
  <2>1. PICK u \in Nat : u = k * block /\ k <= u /\ u < l
    <3>1. k * block \in Nat /\ k <= k * block
      <4>1. k \in Nat
        OBVIOUS
      <4> QED
        BY <4>1, Multiples
    <3>2. k * block < l
      BY <1>3, <3>1
    <3> QED
      BY <3>1, <3>2
  <2>2. k \in Nat /\ k + 1 \in 0 .. hi
    <3>1. k \in Nat /\ k < hi
      BY <1>h, <1>l, <2>1
    <3> QED
      BY <3>1
  <2>3. PICK v \in Nat : v = b[k + 1] /\ v <= l /\ v = Least((k + 1) * block, l) /\ b[k] <= v
    BY <1>1, <2>2
  <2>4. b[k] = u
    <3>1. b[k] = Least(u, l)
      BY <1>1, <2>1, <2>2
    <3>2. Least(u, l) = u
      BY <2>1 DEF Least
    <3> QED
      BY <3>1, <3>2
  <2>5. ReadRange(n, u, v) = Slice(d, Most(0, u), v)
    BY ReadRangeExact
  <2>6. Most(0, u) = u
    BY DEF Most
  <2>7. Slice(d, u, v) = Part(d, u, v)
    <3>1. u <= v
      BY <2>3, <2>4
    <3>2. Slice(d, u, v) = Part(d, Least(u, l), Least(v, l))
      BY <1>l, <3>1, SliceIsPart
    <3>3. Least(u, l) = u /\ Least(v, l) = v
      BY <2>1, <2>3 DEF Least
    <3> QED
      BY <3>2, <3>3
  <2>8. Part(d, u, v) \o Part(d, v, l) = Part(d, u, l)
    <3>1. u <= v /\ v <= l /\ l <= Len(d)
      BY <1>l, <2>3, <2>4
    <3> QED
      BY <3>1, PartJoin
  <2>9. f[k] = Part(d, u, l) /\ f[k + 1] = Part(d, v, l)
    BY <1>f, <2>2, <2>3, <2>4
  <2>10. ReadRange(n, k * block, Least((k + 1) * block, n.size)) = Part(d, u, v)
    BY <1>s, <2>1, <2>3, <2>5, <2>6, <2>7
  <2> QED
    BY <2>2, <2>3, <2>4, <2>8, <2>9, <2>10
<1>4. f = [k \in 0 .. hi |->
              IF k * block >= l THEN << >>
              ELSE ReadRange(n, k * block, Least((k + 1) * block, n.size)) \o f[k + 1]]
  <2>1. ASSUME NEW k \in 0 .. hi
        PROVE  f[k] = IF k * block >= l THEN << >>
                      ELSE ReadRange(n, k * block, Least((k + 1) * block, n.size)) \o f[k + 1]
    <3>1. CASE k * block >= l
      <4>1. k \in Nat
        OBVIOUS
      <4>2. f[k] = << >>
        BY <1>2, <1>f, <3>1, <4>1
      <4> QED
        BY <3>1, <4>2
    <3>2. CASE ~(k * block >= l)
      BY <1>3, <3>2
    <3> QED
      BY <3>1, <3>2
  <2>2. f = [k \in 0 .. hi |-> f[k]]
    BY <1>f
  <2> QED
    BY <2>1, <2>2
<1>g. PICK g : g = CHOOSE h : h = [k \in 0 .. hi |->
                                      IF k * block >= l THEN << >>
                                      ELSE ReadRange(n, k * block, Least((k + 1) * block, n.size))
                                           \o h[k + 1]]
  OBVIOUS
<1>5. g = [k \in 0 .. hi |->
              IF k * block >= l THEN << >>
              ELSE ReadRange(n, k * block, Least((k + 1) * block, n.size)) \o g[k + 1]]
  BY <1>4, <1>g
<1>6. Export(n, block) = g[0]
  BY <1>g, <1>h, <1>s DEF Export
<1>7. ASSUME NEW k \in 0 .. hi
      PROVE  g[k] = IF k * block >= l THEN << >>
                    ELSE ReadRange(n, k * block, Least((k + 1) * block, n.size)) \o g[k + 1]
  BY <1>5
<1>8. PICK T : T = {k \in 0 .. hi : g[k] # f[k]}
  OBVIOUS
<1>9. ASSUME NEW k \in T PROVE k + 1 \in T
  <2>1. k \in 0 .. hi /\ k \in Nat /\ g[k] # f[k]
    BY <1>8
  <2>2. ~(k * block >= l)
    <3>1. ASSUME k * block >= l PROVE FALSE
      <4>1. g[k] = << >>
        BY <1>7, <2>1, <3>1
      <4>2. f[k] = << >>
        BY <1>2, <1>f, <2>1, <3>1
      <4> QED
        BY <2>1, <4>1, <4>2
    <3> QED
      BY <3>1
  <2>3. g[k] = Part(d, b[k], b[k + 1]) \o g[k + 1]
    BY <1>3, <1>7, <2>1, <2>2
  <2>4. f[k] = Part(d, b[k], b[k + 1]) \o f[k + 1] /\ k + 1 \in 0 .. hi
    BY <1>3, <2>1, <2>2
  <2>5. g[k + 1] # f[k + 1]
    BY <2>1, <2>3, <2>4
  <2> QED
    BY <1>8, <2>4, <2>5
<1>10. T \subseteq 0 .. hi
  BY <1>8
<1>11. T = {}
  BY <1>9, <1>10, SettledFromTheEnd
<1>12. 0 \in 0 .. hi
  OBVIOUS
<1>13. g[0] = f[0]
  BY <1>8, <1>11, <1>12
<1>14. f[0] = Part(d, 0, l)
  <2>1. 0 * block = 0 /\ 0 \in Nat
    OBVIOUS
  <2>2. b[0] = Least(0, l)
    BY <1>1, <2>1
  <2>3. Least(0, l) = 0
    BY DEF Least
  <2> QED
    BY <1>12, <1>f, <2>2, <2>3
<1>15. Part(d, 0, l) = d
  BY <1>l, PartWhole
<1> QED
  BY <1>6, <1>13, <1>14, <1>15

-----------------------------------------------------------------------------
(* The invariant *)

\* A staged upload that holds d.
StagedUpload(d, cs) == [chunk_size |-> cs, size |-> Len(d), sha |-> << >>,
                        chunks |-> Whole(d, cs)]

\* The file, and the upload while there is one, are as one write of what they
\* should hold would have made them.
LayInv == /\ content \in Seq(Byte) /\ Len(content) <= MaxLen
          /\ \E cs \in Nat \ {0} : file = Node(content, cs)
          /\ sent \in Seq(Byte) /\ Len(sent) <= MaxLen
          /\ upload # NoUpload => \E cs \in Nat \ {0} : upload = StagedUpload(sent, cs)

LEMMA ContentsFacts ==
    ASSUME NEW data \in Contents
    PROVE  data \in Seq(Byte) /\ Len(data) <= MaxLen
<1>1. PICK k \in 0 .. MaxLen : data \in [1 .. k -> Byte]
  BY DEF Contents
<1>2. k \in Nat /\ k <= MaxLen
  BY ChunkAssumption
<1>3. data \in Seq(Byte) /\ Len(data) = k
  BY <1>1, <1>2
<1> QED
  BY <1>2, <1>3

LEMMA MadeLaid ==
    ASSUME NEW d, NEW cs \in Nat \ {0}
    PROVE  Laid(Node(d, cs), d) /\ Laid(StagedUpload(d, cs), d)
BY DEF Laid, Node, StagedUpload

LEMMA NothingStaged ==
    ASSUME NEW cs \in Nat \ {0}
    PROVE  Whole(<< >>, cs) = NoRows
<1>1. << >> \in Seq(Byte) /\ Len(<< >>) = 0
  BY EmptySeq
<1>2. Whole(<< >>, cs) = [i \in {j \in Nat : j * cs < 0} |-> Row(<< >>, cs, i)]
  <2>1. Whole(<< >>, cs) = [i \in {j \in Nat : j * cs < Len(<< >>)} |-> Row(<< >>, cs, i)]
    BY <1>1, WholeRows
  <2> QED
    BY <1>1, <2>1
<1>3. {j \in Nat : j * cs < 0} = {}
  <2>1. ASSUME NEW j \in Nat PROVE ~(j * cs < 0)
    <3>1. j * cs \in Nat
      BY Multiples
    <3> QED
      BY <3>1
  <2> QED
    BY <2>1
<1> QED
  BY <1>2, <1>3 DEF NoRows

LEMMA LayInit == Init => LayInv
<1> SUFFICES ASSUME Init PROVE LayInv
  OBVIOUS
<1>1. << >> \in Seq(Byte) /\ Len(<< >>) = 0 /\ 0 <= MaxLen /\ DefaultSize \in Nat \ {0}
  BY ChunkAssumption, EmptySeq
<1>2. content = << >> /\ sent = << >> /\ upload = NoUpload /\ file = Node(<< >>, DefaultSize)
  BY DEF Init
<1> QED
  BY <1>1, <1>2 DEF LayInv

LEMMA LayWrite ==
    ASSUME LayInv, NEW data \in Contents, NEW cs \in ChunkSizes, WriteFile(data, cs)
    PROVE  LayInv'
<1>1. data \in Seq(Byte) /\ Len(data) <= MaxLen /\ cs \in Nat \ {0}
  BY ContentsFacts, ChunkAssumption
<1>2. file' = Node(data, cs) /\ content' = data /\ upload' = upload /\ sent' = sent
  BY DEF WriteFile
<1>3. /\ sent' \in Seq(Byte) /\ Len(sent') <= MaxLen
      /\ upload' # NoUpload => \E c \in Nat \ {0} : upload' = StagedUpload(sent', c)
  BY <1>2 DEF LayInv
<1>4. \E c \in Nat \ {0} : file' = Node(content', c)
  BY <1>1, <1>2
<1> QED
  BY <1>1, <1>2, <1>3, <1>4 DEF LayInv, Node, StagedUpload

LEMMA LayStart ==
    ASSUME LayInv, NEW cs \in ChunkSizes, StartUpload(cs)
    PROVE  LayInv'
<1>1. << >> \in Seq(Byte) /\ Len(<< >>) = 0 /\ 0 <= MaxLen /\ cs \in Nat \ {0}
  BY ChunkAssumption, EmptySeq
<1>2. /\ upload' = [NoUpload EXCEPT !.chunk_size = cs]
      /\ sent' = << >> /\ file' = file /\ content' = content
  BY DEF StartUpload
<1>3. upload' = StagedUpload(<< >>, cs)
  <2>1. Whole(<< >>, cs) = NoRows
    BY <1>1, NothingStaged
  <2> QED
    BY <1>1, <1>2, <2>1 DEF StagedUpload, NoUpload
<1> QED
  BY <1>1, <1>2, <1>3 DEF LayInv, Node, StagedUpload

LEMMA LayPart ==
    ASSUME LayInv, NEW data \in Contents, UploadPart(data)
    PROVE  LayInv'
<1>1. data \in Seq(Byte) /\ data # << >> /\ upload # NoUpload
      /\ upload.size + Len(data) <= MaxLen
  BY ContentsFacts DEF UploadPart
<1>2. PICK cs \in Nat \ {0} : upload = StagedUpload(sent, cs)
  BY <1>1 DEF LayInv
<1>3. /\ upload' = [upload EXCEPT !.chunks = StagedRows(upload, data), !.size = @ + Len(data)]
      /\ sent' = sent \o data /\ file' = file /\ content' = content
  BY DEF UploadPart
<1>4. sent \in Seq(Byte)
  BY DEF LayInv
<1>5. upload.chunk_size = cs /\ upload.size = Len(sent) /\ upload.sha = << >>
  BY <1>2 DEF StagedUpload
<1>6. StagedRows(upload, data) = Whole(sent \o data, cs)
  <2>1. Laid(upload, sent)
    BY <1>2, MadeLaid
  <2>2. StagedRows(upload, data) = Whole(sent \o data, upload.chunk_size)
    BY <1>1, <1>4, <2>1, StagedWhole
  <2> QED
    BY <1>5, <2>2
<1>7. sent \o data \in Seq(Byte) /\ Len(sent \o data) = Len(sent) + Len(data)
  BY <1>1, <1>4, ConcatProperties
<1>8. upload' = StagedUpload(sent', cs)
  BY <1>2, <1>3, <1>5, <1>6, <1>7 DEF StagedUpload
<1>9. sent' \in Seq(Byte) /\ Len(sent') <= MaxLen
  BY <1>1, <1>3, <1>5, <1>7
<1> QED
  BY <1>3, <1>8, <1>9 DEF LayInv, Node, StagedUpload

LEMMA LayOverwrite ==
    ASSUME LayInv, Overwrite
    PROVE  LayInv'
<1>1. PICK cs \in Nat \ {0} : upload = StagedUpload(sent, cs)
  BY DEF LayInv, Overwrite
<1>2. /\ file' = [chunk_size |-> upload.chunk_size, size |-> upload.size,
                  sha |-> All(upload.chunks), chunks |-> upload.chunks]
      /\ content' = sent /\ upload' = NoUpload /\ sent' = << >>
  BY DEF Overwrite
<1>3. sent \in Seq(Byte) /\ Len(sent) <= MaxLen
  BY DEF LayInv
<1>4. All(upload.chunks) = sent
  <2>1. Laid(upload, sent)
    BY <1>1, MadeLaid
  <2> QED
    BY <1>3, <2>1, LaidAll
<1>5. file' = Node(sent, cs)
  BY <1>1, <1>2, <1>4 DEF Node, StagedUpload
<1>6. << >> \in Seq(Byte) /\ Len(<< >>) = 0 /\ 0 <= MaxLen
  BY ChunkAssumption, EmptySeq
<1> QED
  BY <1>2, <1>3, <1>5, <1>6 DEF LayInv, NoUpload, NoRows

LEMMA LayAppend ==
    ASSUME LayInv, Append_
    PROVE  LayInv'
<1>1. PICK us \in Nat \ {0} : upload = StagedUpload(sent, us)
  BY DEF LayInv, Append_
<1>2. PICK cs \in Nat \ {0} : file = Node(content, cs)
  BY DEF LayInv
<1>3. /\ file' = [file EXCEPT !.chunks = AppendedRows(file, upload), !.size = @ + upload.size,
                              !.sha = AppendedHash(file, upload)]
      /\ content' = content \o sent /\ upload' = NoUpload /\ sent' = << >>
      /\ file.size + upload.size <= MaxLen
  BY DEF Append_
<1>4. content \in Seq(Byte) /\ Len(content) <= MaxLen /\ sent \in Seq(Byte) /\ Len(sent) <= MaxLen
  BY DEF LayInv
<1>5. Laid(file, content) /\ Laid(upload, sent)
  BY <1>1, <1>2, MadeLaid
<1>6. file.chunk_size = cs /\ file.size = Len(content) /\ upload.size = Len(sent)
  BY <1>1, <1>2 DEF Node, StagedUpload
<1>7. AppendedRows(file, upload) = Whole(content \o sent, cs)
  <2>1. AppendedRows(file, upload) = Whole(content \o sent, file.chunk_size)
    BY <1>4, <1>5, AppendedWhole
  <2> QED
    BY <1>6, <2>1
<1>8. AppendedHash(file, upload) = content \o sent
  BY <1>4, <1>5, AppendedHashExact
<1>9. content \o sent \in Seq(Byte) /\ Len(content \o sent) = Len(content) + Len(sent)
  BY <1>4, ConcatProperties
<1>10. file' = Node(content', cs)
  BY <1>2, <1>3, <1>6, <1>7, <1>8, <1>9 DEF Node
<1>11. content' \in Seq(Byte) /\ Len(content') <= MaxLen
  BY <1>3, <1>6, <1>9
<1>12. << >> \in Seq(Byte) /\ Len(<< >>) = 0 /\ 0 <= MaxLen
  BY ChunkAssumption, EmptySeq
<1> QED
  BY <1>3, <1>10, <1>11, <1>12 DEF LayInv, NoUpload, NoRows

LEMMA LayNext == LayInv /\ [Next]_vars => LayInv'
<1> SUFFICES ASSUME LayInv, [Next]_vars PROVE LayInv'
  OBVIOUS
<1>1. ASSUME NEW data \in Contents, NEW cs \in ChunkSizes, WriteFile(data, cs) PROVE LayInv'
  BY <1>1, LayWrite
<1>2. ASSUME NEW cs \in ChunkSizes, StartUpload(cs) PROVE LayInv'
  BY <1>2, LayStart
<1>3. ASSUME NEW data \in Contents, UploadPart(data) PROVE LayInv'
  BY <1>3, LayPart
<1>4. CASE Overwrite
  BY <1>4, LayOverwrite
<1>5. CASE Append_
  BY <1>5, LayAppend
<1>6. CASE UNCHANGED vars
  BY <1>6 DEF LayInv, vars, Node, StagedUpload, NoUpload, NoRows
<1> QED
  BY <1>1, <1>2, <1>3, <1>4, <1>5, <1>6 DEF Next

-----------------------------------------------------------------------------
(* What follows from it *)

\* Rows as one write makes them have none of the faults that staging and
\* appending look for.
LEMMA LaidSound ==
    ASSUME NEW n, NEW d \in Seq(Byte), Laid(n, d), Len(d) <= MaxLen
    PROVE  ~TailMissing(n) /\ ~PartialMissing(n) /\ ~Short(n) /\ \A u : ~Collides(n, u)
<1>c. PICK cs \in Nat \ {0} : cs = n.chunk_size
  BY DEF Laid
<1>l. PICK l \in Nat : l = Len(d)
  BY LenProperties
<1>n. PICK no \in Nat : no = l \div cs
  BY LastChunk
<1>o. PICK part \in Nat : part = l % cs /\ part < cs
  <2>1. l % cs \in 0 .. cs - 1
    BY LastChunk
  <2> QED
    BY <2>1
<1>p. PICK p \in Nat : p = no * cs
  BY Multiples
<1>1. l = p + part
  BY <1>n, <1>o, <1>p, LastChunk
<1>w. PICK w : w = Whole(d, cs)
  OBVIOUS
<1>2. /\ n.chunk_size = cs /\ n.chunks = w /\ n.size = l
      /\ n.size \div n.chunk_size = no /\ n.size % n.chunk_size = part
  BY <1>c, <1>l, <1>n, <1>o, <1>w DEF Laid
<1>3. ASSUME part > 0 PROVE no \in DOMAIN w /\ Len(w[no]) = part
  <2>1. p < Len(d) /\ Len(d) < p + cs
    BY <1>l, <1>o, <1>1, <1>3
  <2>2. no \in DOMAIN w /\ w[no] = Part(d, p, Len(d))
    BY <1>p, <1>w, <2>1, LastRow
  <2>3. PICK q \in Nat : q = Len(d) /\ p <= q /\ q <= Len(d) /\ q - p = part
    BY <1>l, <1>1
  <2>4. Len(Part(d, p, q)) = q - p
    BY <2>3, PartType
  <2> QED
    BY <2>2, <2>3, <2>4
<1>4. ~TailMissing(n)
  BY <1>2, <1>3, <1>o DEF TailMissing
<1>5. ~PartialMissing(n)
  BY <1>2, <1>3, <1>o DEF PartialMissing
<1>6. ~Short(n)
  <2>1. All(n.chunks) = d
    BY LaidAll
  <2> QED
    BY <1>2, <1>l, <2>1 DEF Short
<1>7. ASSUME NEW u PROVE ~Collides(n, u)
  <2>1. ASSUME NEW i \in DOMAIN w PROVE ~(i > no \/ (i = no /\ part = 0))
    <3>1. w = [k \in {j \in Nat : j * cs < Len(d)} |-> Row(d, cs, k)]
      BY <1>w, WholeRows
    <3>2. i \in Nat /\ i * cs < l
      BY <1>l, <2>1, <3>1
    <3>3. PICK v \in Nat : v = i * cs /\ v < l
      <4>1. i * cs \in Nat
        BY <3>2, Multiples
      <4> QED
        BY <3>2, <4>1
    <3>4. ASSUME i > no PROVE FALSE
      <4>1. no < i
        BY <3>2, <3>4
      <4>2. p + cs <= v
        BY <1>p, <3>2, <3>3, <4>1, Multiples
      <4> QED
        BY <1>o, <1>1, <3>3, <4>2
    <3>5. ASSUME i = no, part = 0 PROVE FALSE
      <4>1. v = p
        BY <1>p, <3>3, <3>5
      <4> QED
        BY <1>1, <3>3, <3>5, <4>1
    <3> QED
      BY <3>4, <3>5
  <2> QED
    BY <1>2, <2>1 DEF Collides
<1> QED
  BY <1>4, <1>5, <1>6, <1>7

LEMMA LayGoals ==
    ASSUME LayInv
    PROVE  LaidOutAsWritten /\ ReadsExact /\ HashesExact /\ NeverCorrupt
<1>1. content \in Seq(Byte) /\ Len(content) <= MaxLen /\ sent \in Seq(Byte) /\ Len(sent) <= MaxLen
  BY DEF LayInv
<1>2. PICK cs \in Nat \ {0} : file = Node(content, cs)
  BY DEF LayInv
<1>3. Laid(file, content)
  BY <1>2, MadeLaid
<1>4. upload # NoUpload => Laid(upload, sent)
  BY MadeLaid DEF LayInv
<1>5. LaidOutAsWritten
  BY <1>3, <1>4 DEF Laid, LaidOutAsWritten
<1>6. HashesExact
  BY <1>2 DEF HashesExact, Node
<1>7. ReadsExact
  <2>1. ReadFile(file) = content
    BY <1>1, <1>3, LaidAll
  <2>2. MaxLen \in Nat
    BY ChunkAssumption
  <2>3. ASSUME NEW start \in -1 .. MaxLen + 1, NEW end \in -1 .. MaxLen + 1
        PROVE  ReadRange(file, start, end) = Slice(content, Most(0, start), end)
    <3>1. start \in Int /\ end \in Int
      BY <2>2
    <3> QED
      BY <1>1, <1>3, <3>1, ReadRangeExact
  <2>4. ASSUME NEW start \in -(MaxLen + 1) .. MaxLen + 1, NEW end \in -(MaxLen + 1) .. MaxLen + 1
        PROVE  CatFile(file, start, end) = PySlice(content, start, end)
    <3>1. start \in Int /\ end \in Int
      BY <2>2
    <3> QED
      BY <1>1, <1>3, <3>1, CatFileExact
  <2>5. ASSUME NEW block \in 1 .. MaxLen + 1
        PROVE  Export(file, block) = content
    <3>1. block \in Nat \ {0}
      BY <2>2
    <3> QED
      BY <1>1, <1>3, <3>1, ExportWhole
  <2> QED
    BY <2>1, <2>3, <2>4, <2>5 DEF ReadsExact
<1>8. NeverCorrupt
  <2>1. ~TailMissing(file) /\ ~Short(file) /\ ~Collides(file, upload)
    BY <1>1, <1>3, LaidSound
  <2>2. upload # NoUpload => ~PartialMissing(upload) /\ ~Short(upload)
    BY <1>1, <1>4, LaidSound
  <2> QED
    BY <2>1, <2>2 DEF NeverCorrupt
<1> QED
  BY <1>5, <1>6, <1>7, <1>8

\* LayInv holds throughout: rows, size and digest are those of one write, for
\* any chunk sizes of the providers, any bytes and any lengths.
THEOREM Laying == Spec => []LayInv
<1>1. Init => LayInv
  BY LayInit
<1>2. LayInv /\ [Next]_vars => LayInv'
  BY LayNext
<1> QED
  BY <1>1, <1>2, PTL DEF Spec

\* However parts were staged and appended (_stage_upload_part,
\* _append_staged_chunks), the rows are those that one write of the whole
\* content would have inserted (_insert_content_chunks).
THEOREM RowsAsWritten == Spec => []LaidOutAsWritten
<1>1. LayInv => LaidOutAsWritten
  BY LayGoals
<1> QED
  BY <1>1, Laying, PTL

\* read_file, read_range, _cat_file and the blocks of _get_file return exactly
\* the bytes of the range asked for.
THEOREM ReadsAreExact == Spec => []ReadsExact
<1>1. LayInv => ReadsExact
  BY LayGoals
<1> QED
  BY <1>1, Laying, PTL

\* The digest that a write, a publication or _append_sha256 stores is that of
\* the whole content.
THEOREM HashesAreExact == Spec => []HashesExact
<1>1. LayInv => HashesExact
  BY LayGoals
<1> QED
  BY <1>1, Laying, PTL

\* Staging and appending never come upon a missing, short or extra chunk: their
\* RuntimeErrors and the primary key of the chunk tables are never met.
THEOREM ChunksNeverCorrupt == Spec => []NeverCorrupt
<1>1. LayInv => NeverCorrupt
  BY LayGoals
<1> QED
  BY <1>1, Laying, PTL
=============================================================================
