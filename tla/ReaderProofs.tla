----------------------------- MODULE ReaderProofs -----------------------------
(* Proofs about Builder and Reader, for any number of attempts and faults, any *)
(* directories and any damage: what the API signs, leaves behind and returns,  *)
(* what the viewer opens, and that what is read of it are the files that were  *)
(* packed.  The first half is about containers alone: concatenation and        *)
(* slicing of sequences, how files become chunks, what a container whose       *)
(* checks pass holds, and what a read of it answers after storage has damaged  *)
(* it.  Where a whole is cut into pieces, Marks says where the cuts are.       *)
EXTENDS Reader, SequenceTheorems, WellFoundedInduction, FiniteSetTheorems, TLAPS

-------------------------------------------------------------------------------
(* Sequences, their concatenation and their parts *)

\* A function on the first numbers is a sequence.
LEMMA ListIsSeq ==
  ASSUME NEW S, NEW n \in Nat, NEW f \in [1..n -> S]
  PROVE  f \in Seq(S) /\ Len(f) = n
OBVIOUS

\* Some numbers have a least one.
LEMMA LeastNumber ==
  ASSUME NEW S \in SUBSET Nat, S # {}
  PROVE  \E k \in S : \A m \in S : k <= m
<1> DEFINE Less == {pair \in Nat \X Nat : pair[1] < pair[2]}
<1>1. IsWellFoundedOn(Less, Nat)
  BY NatLessThanWellFounded DEF OpToRel
<1>2. PICK k \in S : \A m \in S : ~(<<m, k>> \in Less)
  <2> HIDE DEF Less
  <2> QED
    BY <1>1, WFMin
<1>3. ASSUME NEW m \in S PROVE k <= m
  <2>1. ~(m < k)
    BY <1>2
  <2> QED
    BY <2>1
<1> QED
  BY <1>3

\* A place of a part is a place of the whole.
LEMMA Within ==
  ASSUME NEW p \in Nat, NEW length \in Nat, NEW c \in Nat, NEW n \in Nat,
         p + length = c, c <= n, NEW s \in 1..length
  PROVE  p + s \in 1..n
OBVIOUS

\* At most the one before the last, so at most the last.
LEMMA AtMost ==
  ASSUME NEW x \in Nat, NEW y \in Nat, NEW z \in Nat, x <= y, y <= z
  PROVE  x <= z
OBVIOUS

\* What is joined of the first i sequences.
Joined(flat, seqs) ==
  /\ flat[1] = seqs[1]
  /\ \A i \in 2..Len(seqs) : flat[i] = flat[i - 1] \o seqs[i]
  /\ FlattenSeq(seqs) = flat[Len(seqs)]

\* The elements of two sequences, one after the other.
LEMMA Concatenated ==
  ASSUME NEW V, NEW a \in Seq(V), NEW b \in Seq(V)
  PROVE  /\ a \o b \in Seq(V)
         /\ Len(a) \in Nat /\ Len(b) \in Nat /\ Len(a \o b) = Len(a) + Len(b)
         /\ \A z \in 1..Len(a) : (a \o b)[z] = a[z]
         /\ \A z \in 1..Len(b) : (a \o b)[Len(a) + z] = b[z]
<1>1. \A z \in 1..Len(a) : (a \o b)[z] = a[z]
  OBVIOUS
<1>2. ASSUME NEW z \in 1..Len(b) PROVE (a \o b)[Len(a) + z] = b[z]
  <2>1. /\ Len(a) + z \in 1..(Len(a) + Len(b)) /\ ~(Len(a) + z <= Len(a))
        /\ Len(a) + z - Len(a) = z
    OBVIOUS
  <2> QED
    BY <2>1
<1> QED
  BY <1>1, <1>2

\* Sequences are joined one after the other.
LEMMA JoinedOneByOne ==
  ASSUME NEW V, NEW seqs \in Seq(Seq(V)), Len(seqs) # 0
  PROVE  \E flat \in [1..Len(seqs) -> Seq(V)] : Joined(flat, seqs)
<1> DEFINE n == Len(seqs)
           Take(g, i) == IF i = 1 THEN seqs[i] ELSE g[i - 1] \o seqs[i]
           IsFlat(g, k) == g = [i \in 1..k |-> Take(g, i)]
           missing == {k \in 1..n : \A g : ~IsFlat(g, k)}
<1>1. n \in Nat \ {0} /\ \A i \in 1..n : seqs[i] \in Seq(V)
  OBVIOUS
<1>8. ASSUME NEW g, NEW h, NEW i, i = 1 \/ g[i - 1] = h[i - 1]
      PROVE  Take(g, i) = Take(h, i)
  BY <1>8
<1> HIDE DEF n
<1>9. ASSUME NEW g
      PROVE  /\ Take(g, 1) = seqs[1]
             /\ \A i \in 2..n : Take(g, i) = g[i - 1] \o seqs[i]
  <2>1. \A i \in 2..n : i # 1
    BY <1>1
  <2> QED
    BY <2>1
<1> HIDE DEF Take
<1>2. missing = {}
  <2> SUFFICES ASSUME missing # {} PROVE FALSE
    OBVIOUS
  <2>1. PICK k \in missing : \A m \in missing : k <= m
    <3>1. missing \in SUBSET Nat
      BY <1>1
    <3> HIDE DEF missing
    <3> QED
      BY <3>1, LeastNumber
  <2>2. k \in 1..n /\ k \in Nat
    BY <1>1, <2>1
  <2>3. CASE k = 1
    <3> DEFINE g == [i \in 1..1 |-> Take(<<>>, i)]
    <3>1. ASSUME NEW i \in 1..1 PROVE g[i] = Take(g, i)
      <4>1. i = 1
        OBVIOUS
      <4>2. g[i] = Take(<<>>, i)
        OBVIOUS
      <4> HIDE DEF g
      <4> QED
        BY <4>1, <4>2, <1>8
    <3>2. IsFlat(g, 1)
      BY <3>1
    <3> QED
      BY <2>1, <2>3, <3>2
  <2>4. CASE k # 1
    <3>1. k - 1 \in 1..n /\ ~(k - 1 \in missing)
      <4> HIDE DEF missing
      <4> QED
        BY <2>1, <2>2, <2>4, <1>1
    <3>2. PICK g : IsFlat(g, k - 1)
      BY <3>1
    <3> DEFINE h == [i \in 1..k |-> IF i < k THEN g[i] ELSE Take(g, k)]
    <3>3. ASSUME NEW i \in 1..k PROVE h[i] = Take(h, i)
      <4>1. i = 1 \/ g[i - 1] = h[i - 1]
        BY <2>2
      <4>2. Take(g, i) = Take(h, i)
        <5> HIDE DEF h
        <5> QED
          BY <4>1, <1>8
      <4>3. h[i] = Take(g, i)
        <5>1. i < k => i \in 1..(k - 1)
          BY <2>2
        <5>2. ~(i < k) => i = k
          BY <2>2
        <5> QED
          BY <3>2, <5>1, <5>2
      <4> QED
        BY <4>2, <4>3
    <3>4. IsFlat(h, k)
      BY <3>3
    <3> QED
      BY <2>1, <3>4
  <2> QED
    BY <2>3, <2>4
<1> DEFINE flat == CHOOSE g : IsFlat(g, n)
<1>3. IsFlat(flat, n)
  <2>1. n \in 1..n
    BY <1>1
  <2>2. \E g : IsFlat(g, n)
    BY <1>2, <2>1
  <2> HIDE DEF IsFlat
  <2> QED
    BY <2>2
<1>4. FlattenSeq(seqs) = flat[n]
  BY DEF FlattenSeq, n, Take
<1> HIDE DEF flat
<1>5. flat[1] = seqs[1] /\ \A i \in 2..n : flat[i] = flat[i - 1] \o seqs[i]
  <2>1. \A i \in 1..n : flat[i] = Take(flat, i)
    BY <1>3
  <2>2. 1 \in 1..n /\ \A i \in 2..n : i \in 1..n
    BY <1>1
  <2> QED
    BY <1>9, <2>1, <2>2
<1> DEFINE Bad == {k \in 1..n : flat[k] \notin Seq(V)}
<1>6. Bad = {}
  <2> SUFFICES ASSUME Bad # {} PROVE FALSE
    OBVIOUS
  <2>1. PICK k \in Bad : \A m \in Bad : k <= m
    <3>1. Bad \in SUBSET Nat
      BY <1>1
    <3> HIDE DEF Bad
    <3> QED
      BY <3>1, LeastNumber
  <2>2. k \in 1..n /\ k \in Nat /\ flat[k] \notin Seq(V)
    BY <1>1, <2>1
  <2>3. CASE k = 1
    BY <1>1, <1>5, <2>2, <2>3
  <2>4. CASE k # 1
    <3>1. k - 1 \in 1..n /\ k - 1 < k /\ k \in 2..n
      BY <1>1, <2>2, <2>4
    <3>2. flat[k - 1] \in Seq(V)
      BY <2>1, <3>1, <2>2
    <3>3. flat[k - 1] \o seqs[k] \in Seq(V)
      BY <1>1, <2>2, <3>2
    <3> QED
      BY <1>5, <2>2, <3>1, <3>3
  <2> QED
    BY <2>3, <2>4
<1>7. flat \in [1..n -> Seq(V)]
  <2>1. flat = [i \in 1..n |-> flat[i]]
    BY <1>3
  <2>2. \A i \in 1..n : flat[i] \in Seq(V)
    BY <1>6
  <2> QED
    BY <2>1, <2>2
<1> QED
  BY <1>4, <1>5, <1>7 DEF Joined, n

\* Joined sequences are a sequence of the same.
LEMMA JoinedType ==
  ASSUME NEW V, NEW seqs \in Seq(Seq(V))
  PROVE  FlattenSeq(seqs) \in Seq(V)
<1>1. CASE Len(seqs) = 0
  <2>1. seqs = <<>>
    BY <1>1
  <2> QED
    BY <1>1, <2>1 DEF FlattenSeq
<1>2. CASE Len(seqs) # 0
  <2>1. PICK flat \in [1..Len(seqs) -> Seq(V)] : Joined(flat, seqs)
    BY <1>2, JoinedOneByOne
  <2>2. Len(seqs) \in 1..Len(seqs)
    <3>1. Len(seqs) \in Nat
      OBVIOUS
    <3> QED
      BY <1>2, <3>1
  <2> QED
    BY <2>1, <2>2 DEF Joined
<1> QED
  BY <1>1, <1>2

\* Whatever is in joined sequences is in one of them.
LEMMA JoinedFrom ==
  ASSUME NEW V, NEW seqs \in Seq(Seq(V)), NEW x \in 1..Len(FlattenSeq(seqs))
  PROVE  \E i \in 1..Len(seqs) : \E s \in 1..Len(seqs[i]) : FlattenSeq(seqs)[x] = seqs[i][s]
<1> DEFINE n == Len(seqs)
<1>1. n \in Nat /\ \A i \in 1..n : seqs[i] \in Seq(V)
  OBVIOUS
<1>2. n # 0
  <2> SUFFICES ASSUME n = 0 PROVE FALSE
    OBVIOUS
  <2>1. seqs = <<>>
    OBVIOUS
  <2>2. FlattenSeq(seqs) = <<>>
    BY <2>1 DEF FlattenSeq
  <2> QED
    BY <2>2
<1>3. PICK flat \in [1..n -> Seq(V)] : Joined(flat, seqs)
  BY <1>2, JoinedOneByOne
<1> DEFINE From(k, y) == \E i \in 1..k : \E s \in 1..Len(seqs[i]) : flat[k][y] = seqs[i][s]
           Bad == {k \in 1..n : \E y \in 1..Len(flat[k]) : ~From(k, y)}
<1>4. /\ flat[1] = seqs[1] /\ \A i \in 2..n : flat[i] = flat[i - 1] \o seqs[i]
      /\ FlattenSeq(seqs) = flat[n]
  BY <1>3 DEF Joined
<1> HIDE DEF n
<1>5. Bad = {}
  <2> SUFFICES ASSUME Bad # {} PROVE FALSE
    OBVIOUS
  <2>1. PICK k \in Bad : \A m \in Bad : k <= m
    <3>1. Bad \in SUBSET Nat
      BY <1>1
    <3> HIDE DEF Bad
    <3> QED
      BY <3>1, LeastNumber
  <2>2. k \in 1..n /\ k \in Nat
    BY <1>1, <2>1
  <2>3. PICK y \in 1..Len(flat[k]) : ~From(k, y)
    BY <2>1
  <2>4. CASE k = 1
    <3>1. y \in 1..Len(seqs[1]) /\ flat[k][y] = seqs[1][y] /\ 1 \in 1..k
      BY <1>4, <2>3, <2>4
    <3> QED
      BY <2>3, <3>1
  <2>5. CASE k # 1
    <3> DEFINE a == flat[k - 1]
               b == seqs[k]
    <3>1. k - 1 \in 1..n /\ k - 1 < k /\ k \in 2..n
      BY <1>1, <2>2, <2>5
    <3>2. a \in Seq(V) /\ b \in Seq(V) /\ flat[k] = a \o b
      BY <1>1, <1>3, <1>4, <2>2, <3>1
    <3>3. k - 1 \notin Bad
      <4> HIDE DEF Bad
      <4> QED
        BY <2>1, <2>2, <3>1
    <3>4. \A z \in 1..Len(a) : From(k - 1, z)
      BY <3>1, <3>3
    <3> HIDE DEF a, b
    <3>5. /\ Len(a) \in Nat /\ Len(b) \in Nat /\ Len(flat[k]) = Len(a) + Len(b)
          /\ \A z \in 1..(Len(a) + Len(b)) :
               flat[k][z] = IF z <= Len(a) THEN a[z] ELSE b[z - Len(a)]
      BY <3>2
    <3>6. CASE y <= Len(a)
      <4>1. y \in 1..Len(a) /\ flat[k][y] = a[y]
        BY <2>3, <3>5, <3>6
      <4>2. PICK i \in 1..(k - 1) : \E s \in 1..Len(seqs[i]) : a[y] = seqs[i][s]
        BY <3>4, <4>1 DEF a
      <4>3. i \in 1..k
        BY <2>2
      <4> QED
        BY <2>3, <4>1, <4>2, <4>3
    <3>7. CASE ~(y <= Len(a))
      <4>1. PICK s \in 1..Len(b) : s = y - Len(a)
        BY <2>3, <3>5, <3>7
      <4>2. flat[k][y] = b[s]
        BY <2>3, <3>5, <3>7, <4>1
      <4>3. k \in 1..k
        BY <2>2
      <4> QED
        BY <2>3, <4>1, <4>2, <4>3 DEF b
    <3> QED
      BY <3>6, <3>7
  <2> QED
    BY <2>4, <2>5
<1>6. n \in 1..n
  BY <1>1, <1>2
<1>7. From(n, x)
  <2>1. n \notin Bad
    BY <1>5
  <2>2. x \in 1..Len(flat[n])
    BY <1>4
  <2> HIDE DEF From
  <2> QED
    BY <1>6, <2>1, <2>2
<1> QED
  BY <1>4, <1>7 DEF n

\* Where the elements of joined sequences are, when cut[i] is how long the first i are.
LEMMA JoinedAt ==
  ASSUME NEW V, NEW seqs \in Seq(Seq(V)), NEW cut \in [0..Len(seqs) -> Nat], cut[0] = 0,
         \A i \in 1..Len(seqs) : cut[i] = cut[i - 1] + Len(seqs[i])
  PROVE  /\ Len(FlattenSeq(seqs)) = cut[Len(seqs)]
         /\ \A i \in 1..Len(seqs) : \A s \in 1..Len(seqs[i]) :
              FlattenSeq(seqs)[cut[i - 1] + s] = seqs[i][s]
<1> DEFINE n == Len(seqs)
<1>1. n \in Nat /\ \A i \in 1..n : seqs[i] \in Seq(V) /\ Len(seqs[i]) \in Nat
  OBVIOUS
<1>2. CASE n = 0
  <2>1. seqs = <<>>
    BY <1>2
  <2>2. FlattenSeq(seqs) = <<>>
    BY <2>1 DEF FlattenSeq
  <2> QED
    BY <1>2, <2>2
<1>3. CASE n # 0
  <2>1. PICK flat \in [1..n -> Seq(V)] : Joined(flat, seqs)
    BY <1>3, JoinedOneByOne
  <2>2. /\ flat[1] = seqs[1] /\ \A i \in 2..n : flat[i] = flat[i - 1] \o seqs[i]
        /\ FlattenSeq(seqs) = flat[n]
    BY <2>1 DEF Joined
  <2> DEFINE Good(k) == /\ Len(flat[k]) = cut[k]
                        /\ \A i \in 1..k : cut[i] <= cut[k]
                        /\ \A i \in 1..k : \A s \in 1..Len(seqs[i]) :
                             flat[k][cut[i - 1] + s] = seqs[i][s]
             Bad == {k \in 1..n : ~Good(k)}
  <2> HIDE DEF n
  <2>3. /\ cut \in [0..n -> Nat]
        /\ \A i \in 1..n : cut[i] = cut[i - 1] + Len(seqs[i])
    BY DEF n
  <2>4. ASSUME NEW i \in 1..n
        PROVE  i - 1 \in 0..n /\ cut[i - 1] \in Nat /\ cut[i] \in Nat /\ cut[i - 1] <= cut[i]
    <3>1. i - 1 \in 0..n /\ i \in 0..n
      BY <1>1
    <3>2. cut[i - 1] \in Nat /\ cut[i] \in Nat /\ Len(seqs[i]) \in Nat
      BY <1>1, <2>3, <3>1
    <3>3. cut[i] = cut[i - 1] + Len(seqs[i])
      BY <2>3
    <3> QED
      BY <3>1, <3>2, <3>3
  <2>6. \A i \in 1..n : Len(seqs[i]) \in Nat
    BY <1>1 DEF n
  <2>5. Bad = {}
    <3> SUFFICES ASSUME Bad # {} PROVE FALSE
      OBVIOUS
    <3>1. PICK k \in Bad : \A m \in Bad : k <= m
      <4>1. Bad \in SUBSET Nat
        BY <1>1
      <4> HIDE DEF Bad
      <4> QED
        BY <4>1, LeastNumber
    <3>2. k \in 1..n /\ k \in Nat /\ ~Good(k)
      BY <1>1, <3>1
    <3>3. CASE k = 1
      <4>1. cut[1 - 1] = 0 /\ 1 \in 1..n /\ Len(seqs[1]) \in Nat
        BY <1>1, <3>2, <3>3
      <4>2. cut[1] = cut[1 - 1] + Len(seqs[1])
        BY <2>3, <4>1
      <4>3. Len(flat[1]) = cut[1] /\ cut[1] \in Nat
        BY <2>2, <4>1, <4>2
      <4>4. ASSUME NEW i \in 1..1, NEW s \in 1..Len(seqs[i])
            PROVE  flat[1][cut[i - 1] + s] = seqs[i][s]
        <5>1. i = 1 /\ i - 1 = 1 - 1
          OBVIOUS
        <5>2. cut[i - 1] + s = s
          <6>1. s \in Nat
            BY <4>1, <5>1
          <6> QED
            BY <4>1, <5>1, <6>1
        <5> QED
          BY <2>2, <5>1, <5>2
      <4>5. \A i \in 1..1 : cut[i] <= cut[1]
        <5>1. \A i \in 1..1 : i = 1
          OBVIOUS
        <5> QED
          BY <4>3, <5>1
      <4> QED
        BY <3>2, <3>3, <4>3, <4>4, <4>5
    <3>4. CASE k # 1
      <4> DEFINE a == flat[k - 1]
                 b == seqs[k]
      <4>1. k - 1 \in 1..n /\ k - 1 < k /\ k \in 2..n
        BY <1>1, <3>2, <3>4
      <4>2. a \in Seq(V) /\ b \in Seq(V) /\ flat[k] = a \o b
        BY <1>1, <2>1, <2>2, <3>2, <4>1
      <4>3. k - 1 \notin Bad
        <5> HIDE DEF Bad
        <5> QED
          BY <3>1, <3>2, <4>1
      <4>4. Good(k - 1)
        <5> HIDE DEF Good
        <5> QED
          BY <4>1, <4>3
      <4>5. Len(a) = cut[k - 1]
        BY <4>4
      <4> HIDE DEF a, b
      <4>6. /\ Len(a) \in Nat /\ Len(b) \in Nat /\ Len(flat[k]) = Len(a) + Len(b)
            /\ \A z \in 1..Len(a) : flat[k][z] = a[z]
            /\ \A z \in 1..Len(b) : flat[k][Len(a) + z] = b[z]
        BY <4>2, Concatenated
      <4>7. Len(flat[k]) = cut[k]
        BY <2>3, <3>2, <4>5, <4>6 DEF b
      <4>8. ASSUME NEW i \in 1..k, NEW s \in 1..Len(seqs[i])
            PROVE  flat[k][cut[i - 1] + s] = seqs[i][s]
        <5>1. CASE i = k
          <6>1. s \in 1..Len(b) /\ cut[i - 1] = Len(a) /\ b = seqs[i]
            BY <4>5, <5>1 DEF b
          <6> QED
            BY <4>6, <5>1, <6>1
        <5>2. CASE i # k
          <6>1. i \in 1..(k - 1) /\ i \in 1..n
            BY <3>2, <5>2, <1>1
          <6>2. a[cut[i - 1] + s] = seqs[i][s]
            BY <4>4, <6>1 DEF a
          <6>3. cut[i] <= cut[k - 1]
            BY <4>4, <6>1
          <6>4. cut[i - 1] + s \in 1..Len(a)
            <7>1. Len(seqs[i]) \in Nat
              BY <2>6, <6>1
            <7>2. cut[i - 1] + Len(seqs[i]) = cut[i]
              BY <2>3, <6>1
            <7>3. cut[i - 1] \in Nat /\ cut[i] \in Nat
              BY <2>4, <6>1
            <7>4. cut[i] <= Len(a)
              BY <4>5, <6>3
            <7>5. PICK p \in Nat, c \in Nat, m \in Nat, l \in Nat :
                    p = cut[i - 1] /\ c = cut[i] /\ m = Len(a) /\ l = Len(seqs[i])
              BY <4>6, <7>1, <7>3
            <7>6. p + l = c /\ c <= m /\ s \in 1..l
              BY <7>2, <7>4, <7>5
            <7>7. p + s \in 1..m
              BY <7>6, Within
            <7> QED
              BY <7>5, <7>7
          <6> QED
            BY <4>6, <6>2, <6>4
        <5> QED
          BY <5>1, <5>2
      <4>9. \A i \in 1..k : cut[i] <= cut[k]
        <5>0. k \in 1..n
          BY <3>2
        <5>1. cut[k - 1] <= cut[k] /\ cut[k - 1] \in Nat /\ cut[k] \in Nat
          BY <2>4, <5>0
        <5>2. ASSUME NEW i \in 1..k PROVE cut[i] <= cut[k]
          <6>1. i # k => i \in 1..(k - 1)
            BY <3>2
          <6>2. i \in 1..n
            BY <1>1, <3>2
          <6>3. i # k => cut[i] <= cut[k - 1]
            BY <4>4, <6>1
          <6>4. cut[i] \in Nat
            BY <2>4, <6>2
          <6>5. CASE i = k
            BY <5>1, <6>5
          <6>6. CASE i # k
            BY <5>1, <6>3, <6>4, <6>6, AtMost
          <6> QED
            BY <6>5, <6>6
        <5> QED
          BY <5>2
      <4> QED
        BY <3>2, <4>7, <4>8, <4>9
    <3> QED
      BY <3>3, <3>4
  <2>7. Good(n)
    <3>1. n \in 1..n
      BY <1>1, <1>3 DEF n
    <3> HIDE DEF Good
    <3> QED
      BY <2>5, <3>1
  <2> QED
    BY <2>2, <2>7 DEF n
<1> QED
  BY <1>2, <1>3

\* A part of a sequence.
LEMMA Part ==
  ASSUME NEW V, NEW whole \in Seq(V), NEW a \in Nat, NEW b \in Nat, a <= b, b <= Len(whole)
  PROVE  /\ SubSeq(whole, a + 1, b) \in Seq(V)
         /\ Len(SubSeq(whole, a + 1, b)) = b - a
         /\ \A z \in 1..(b - a) : SubSeq(whole, a + 1, b)[z] = whole[a + z]
<1>1. Len(whole) \in Nat /\ \A x \in 1..Len(whole) : whole[x] \in V
  OBVIOUS
<1>2. SubSeq(whole, a + 1, b) = [z \in 1..(b - a) |-> whole[a + z]]
  <2>1. 1 + b - (a + 1) = b - a /\ \A z \in 1..(b - a) : z + (a + 1) - 1 = a + z
    OBVIOUS
  <2> QED
    BY <2>1
<1>3. \A z \in 1..(b - a) : a + z \in 1..Len(whole)
  BY <1>1
<1>4. [z \in 1..(b - a) |-> whole[a + z]] \in Seq(V)
  <2>1. b - a \in Nat
    OBVIOUS
  <2> QED
    BY <1>1, <1>3, <2>1
<1> QED
  BY <1>2, <1>4

\* Two parts that meet are one.
LEMMA PartsMeet ==
  ASSUME NEW V, NEW whole \in Seq(V), NEW a \in Nat, NEW b \in Nat, NEW c \in Nat,
         a <= b, b <= c, c <= Len(whole)
  PROVE  SubSeq(whole, a + 1, b) \o SubSeq(whole, b + 1, c) = SubSeq(whole, a + 1, c)
<1>1. Len(whole) \in Nat
  OBVIOUS
<1>2. a + 1 \in 1..(Len(whole) + 1) /\ b \in (a + 1 - 1)..Len(whole) /\ c \in b..Len(whole)
  BY <1>1
<1> QED
  BY <1>2, ConcatAdjacentSubSeq

\* Marks in a sequence of length n, in their order.
Marks(cut, n, length) ==
  /\ cut \in [0..n -> Nat]
  /\ \A i \in 1..n : cut[i - 1] <= cut[i]
  /\ cut[n] <= length

\* All marks are between the first and the last.
LEMMA MarksInOrder ==
  ASSUME NEW n \in Nat, NEW length \in Nat, NEW cut, Marks(cut, n, length),
         NEW j \in 0..n
  PROVE  /\ cut[j] \in Nat /\ cut[0] <= cut[j] /\ cut[j] <= cut[n] /\ cut[n] \in Nat
         /\ cut[j] <= length
<1> DEFINE Low == {k \in 0..n : ~(cut[0] <= cut[k])}
           High == {k \in 0..n : ~(cut[n - k] <= cut[n])}
<1>1. \A k \in 0..n : cut[k] \in Nat
  BY DEF Marks
<1>2. ASSUME NEW k \in 1..n PROVE k - 1 \in 0..n /\ cut[k - 1] <= cut[k]
  BY DEF Marks
<1>3. 0 \in 0..n /\ n \in 0..n
  OBVIOUS
<1>4. Low = {}
  <2> SUFFICES ASSUME Low # {} PROVE FALSE
    OBVIOUS
  <2>1. PICK k \in Low : \A m \in Low : k <= m
    <3>1. Low \in SUBSET Nat
      OBVIOUS
    <3> HIDE DEF Low
    <3> QED
      BY <3>1, LeastNumber
  <2>2. k # 0
    BY <1>1, <1>3, <2>1
  <2>3. k \in 1..n /\ k - 1 < k
    BY <2>1, <2>2
  <2>4. k - 1 \notin Low
    <3> HIDE DEF Low
    <3> QED
      BY <2>1, <2>3
  <2>5. cut[0] <= cut[k - 1]
    BY <1>2, <2>3, <2>4
  <2>6. k \in 0..n /\ ~(cut[0] <= cut[k])
    BY <2>1
  <2> QED
    BY <1>1, <1>2, <1>3, <2>3, <2>5, <2>6, AtMost
<1>5. High = {}
  <2> SUFFICES ASSUME High # {} PROVE FALSE
    OBVIOUS
  <2>1. PICK k \in High : \A m \in High : k <= m
    <3>1. High \in SUBSET Nat
      OBVIOUS
    <3> HIDE DEF High
    <3> QED
      BY <3>1, LeastNumber
  <2>2. k # 0
    <3>1. n - 0 = n
      OBVIOUS
    <3> QED
      BY <1>1, <1>3, <2>1, <3>1
  <2>3. k \in 1..n /\ k - 1 < k /\ k - 1 \in 0..n
    BY <2>1, <2>2
  <2>4. k - 1 \notin High
    <3> HIDE DEF High
    <3> QED
      BY <2>1, <2>3
  <2>5. n - (k - 1) \in 1..n /\ n - (k - 1) - 1 = n - k /\ n - k \in 0..n
    BY <2>3
  <2>6. cut[n - (k - 1)] <= cut[n]
    BY <2>3, <2>4
  <2>7. cut[n - k] <= cut[n - (k - 1)]
    BY <1>2, <2>5
  <2>8. ~(cut[n - k] <= cut[n])
    BY <2>1
  <2>9. cut[n - k] \in Nat /\ cut[n - (k - 1)] \in Nat /\ cut[n] \in Nat
    BY <1>1, <1>3, <2>5
  <2> HIDE DEF High
  <2> QED
    BY <2>6, <2>7, <2>8, <2>9, AtMost
<1>6. cut[0] <= cut[j]
  BY <1>4
<1>7. cut[j] <= cut[n]
  <2>1. n - j \in 0..n /\ n - (n - j) = j
    OBVIOUS
  <2>2. n - j \notin High
    BY <1>5
  <2> QED
    BY <2>1, <2>2
<1>8. cut[n] <= length
  BY DEF Marks
<1> HIDE DEF Low, High
<1>9. cut[j] \in Nat /\ cut[n] \in Nat
  BY <1>1, <1>3
<1> QED
  BY <1>6, <1>7, <1>8, <1>9, AtMost

\* What is cut at the marks and joined again is what is between the first mark and the last.
LEMMA JoinedParts ==
  ASSUME NEW V, NEW whole \in Seq(V), NEW seqs \in Seq(Seq(V)), NEW cut,
         Marks(cut, Len(seqs), Len(whole)),
         \A i \in 1..Len(seqs) : seqs[i] = SubSeq(whole, cut[i - 1] + 1, cut[i])
  PROVE  FlattenSeq(seqs) = SubSeq(whole, cut[0] + 1, cut[Len(seqs)])
<1> DEFINE n == Len(seqs)
<1>1. n \in Nat /\ Len(whole) \in Nat
  OBVIOUS
<1>2. CASE n = 0
  <2>1. seqs = <<>>
    BY <1>2
  <2>2. FlattenSeq(seqs) = <<>>
    BY <2>1 DEF FlattenSeq
  <2>3. 0 \in 0..n
    BY <1>1
  <2>4. cut[0] \in Nat
    BY <2>3 DEF Marks
  <2>5. cut[0] + 1 \in Int /\ cut[0] \in Int /\ cut[0] < cut[0] + 1
    BY <2>4
  <2>6. SubSeq(whole, cut[0] + 1, cut[0]) = <<>>
    BY <2>5, SubSeqEmpty
  <2> QED
    BY <1>2, <2>2, <2>6
<1>3. CASE n # 0
  <2>1. PICK flat \in [1..n -> Seq(V)] : Joined(flat, seqs)
    BY <1>3, JoinedOneByOne
  <2>2. /\ flat[1] = seqs[1] /\ \A i \in 2..n : flat[i] = flat[i - 1] \o seqs[i]
        /\ FlattenSeq(seqs) = flat[n]
    BY <2>1 DEF Joined
  <2>0. \A i \in 1..n : seqs[i] = SubSeq(whole, cut[i - 1] + 1, cut[i])
    OBVIOUS
  <2>3. \A j \in 0..n : cut[j] \in Nat /\ cut[0] <= cut[j] /\ cut[j] <= Len(whole)
    BY <1>1, MarksInOrder
  <2>4. \A i \in 1..n : i - 1 \in 0..n /\ i \in 0..n /\ cut[i - 1] <= cut[i]
    BY <1>1 DEF Marks
  <2> DEFINE Good(k) == flat[k] = SubSeq(whole, cut[0] + 1, cut[k])
             Bad == {k \in 1..n : ~Good(k)}
  <2> HIDE DEF n
  <2>5. Bad = {}
    <3> SUFFICES ASSUME Bad # {} PROVE FALSE
      OBVIOUS
    <3>1. PICK k \in Bad : \A m \in Bad : k <= m
      <4>1. Bad \in SUBSET Nat
        BY <1>1
      <4> HIDE DEF Bad
      <4> QED
        BY <4>1, LeastNumber
    <3>2. k \in 1..n /\ k \in Nat /\ ~Good(k)
      BY <1>1, <3>1
    <3>3. CASE k = 1
      <4>1. 1 \in 1..n /\ 1 - 1 = 0
        BY <3>2, <3>3
      <4>2. seqs[1] = SubSeq(whole, cut[1 - 1] + 1, cut[1])
        BY <2>0, <4>1
      <4> QED
        BY <2>2, <3>2, <3>3, <4>1, <4>2
    <3>4. CASE k # 1
      <4>1. k - 1 \in 1..n /\ k - 1 < k /\ k \in 2..n
        BY <1>1, <3>2, <3>4
      <4>2. k - 1 \notin Bad
        <5> HIDE DEF Bad
        <5> QED
          BY <3>1, <3>2, <4>1
      <4>3. flat[k - 1] = SubSeq(whole, cut[0] + 1, cut[k - 1])
        BY <4>1, <4>2
      <4>4. seqs[k] = SubSeq(whole, cut[k - 1] + 1, cut[k])
        BY <2>0, <3>2
      <4>5. flat[k] = flat[k - 1] \o seqs[k]
        BY <2>2, <4>1
      <4>6. k - 1 \in 0..n /\ k \in 0..n /\ 0 \in 0..n /\ cut[k - 1] <= cut[k]
        BY <1>1, <2>4, <3>2
      <4>7. /\ cut[0] \in Nat /\ cut[k - 1] \in Nat /\ cut[k] \in Nat
            /\ cut[0] <= cut[k - 1] /\ cut[k] <= Len(whole)
        BY <2>3, <4>6
      <4>8. SubSeq(whole, cut[0] + 1, cut[k - 1]) \o SubSeq(whole, cut[k - 1] + 1, cut[k])
              = SubSeq(whole, cut[0] + 1, cut[k])
        <5>1. PICK a \in Nat, b \in Nat, c \in Nat : a = cut[0] /\ b = cut[k - 1] /\ c = cut[k]
          BY <4>7
        <5>2. a <= b /\ b <= c /\ c <= Len(whole)
          BY <4>6, <4>7, <5>1
        <5>3. SubSeq(whole, a + 1, b) \o SubSeq(whole, b + 1, c) = SubSeq(whole, a + 1, c)
          BY <5>2, PartsMeet
        <5> QED
          BY <5>1, <5>3
      <4>9. flat[k] = SubSeq(whole, cut[0] + 1, cut[k])
        BY <4>3, <4>4, <4>5, <4>8
      <4> QED
        BY <3>2, <4>9
    <3> QED
      BY <3>3, <3>4
  <2>6. Good(n)
    <3>1. n \in 1..n
      BY <1>1, <1>3 DEF n
    <3> HIDE DEF Good
    <3> QED
      BY <2>5, <3>1
  <2> QED
    BY <2>2, <2>6 DEF n
<1> QED
  BY <1>2, <1>3

\* Joined sequences are cut again where one ends and the next begins.
LEMMA PartsOfJoined ==
  ASSUME NEW V, NEW seqs \in Seq(Seq(V)), NEW cut \in [0..Len(seqs) -> Nat], cut[0] = 0,
         \A i \in 1..Len(seqs) : cut[i] = cut[i - 1] + Len(seqs[i]),
         NEW i \in 1..Len(seqs)
  PROVE  seqs[i] = SubSeq(FlattenSeq(seqs), cut[i - 1] + 1, cut[i])
<1> DEFINE flat == FlattenSeq(seqs)
           n == Len(seqs)
<1>1. n \in Nat /\ seqs[i] \in Seq(V) /\ \A k \in 1..n : Len(seqs[k]) \in Nat
  OBVIOUS
<1>2. flat \in Seq(V)
  BY JoinedType
<1>3. Len(flat) = cut[n] /\ \A s \in 1..Len(seqs[i]) : flat[cut[i - 1] + s] = seqs[i][s]
  BY JoinedAt, ZenonT(60)
<1>4. cut \in [0..n -> Nat] /\ \A k \in 1..n : cut[k] = cut[k - 1] + Len(seqs[k])
  OBVIOUS
<1> HIDE DEF flat, n
<1>5. Marks(cut, n, Len(flat))
  <2>1. ASSUME NEW k \in 1..n PROVE cut[k - 1] <= cut[k]
    <3>1. k - 1 \in 0..n
      BY <1>1
    <3>2. cut[k - 1] \in Nat /\ Len(seqs[k]) \in Nat /\ cut[k] = cut[k - 1] + Len(seqs[k])
      BY <1>1, <1>4, <3>1
    <3> QED
      BY <3>2
  <2>2. cut[n] <= Len(flat)
    <3>1. n \in 0..n
      BY <1>1
    <3>2. cut[n] \in Nat
      BY <1>4, <3>1
    <3> QED
      BY <1>3, <3>2
  <2> QED
    BY <1>4, <2>1, <2>2 DEF Marks
<1>6. i \in 1..n /\ i \in 0..n /\ i - 1 \in 0..n
  BY <1>1 DEF n
<1>7. /\ cut[i - 1] \in Nat /\ cut[i] \in Nat /\ cut[i - 1] <= cut[i] /\ cut[i] <= Len(flat)
      /\ cut[i] = cut[i - 1] + Len(seqs[i])
  <2>1. Len(flat) \in Nat
    BY <1>2
  <2>2. cut[i - 1] <= cut[i]
    BY <1>5, <1>6 DEF Marks
  <2> QED
    BY <1>1, <1>4, <1>5, <1>6, <2>1, <2>2, MarksInOrder
<1>8. cut[i] - cut[i - 1] = Len(seqs[i])
  BY <1>1, <1>6, <1>7
<1> DEFINE part == SubSeq(flat, cut[i - 1] + 1, cut[i])
<1>9. /\ part \in Seq(V) /\ Len(part) = Len(seqs[i])
      /\ \A s \in 1..Len(seqs[i]) : part[s] = flat[cut[i - 1] + s]
  <2>1. PICK a \in Nat, b \in Nat : a = cut[i - 1] /\ b = cut[i]
    BY <1>7
  <2>2. a <= b /\ b <= Len(flat) /\ b - a = Len(seqs[i])
    BY <1>7, <1>8, <2>1
  <2>3. /\ SubSeq(flat, a + 1, b) \in Seq(V)
        /\ Len(SubSeq(flat, a + 1, b)) = b - a
        /\ \A z \in 1..(b - a) : SubSeq(flat, a + 1, b)[z] = flat[a + z]
    <3>1. flat \in Seq(V) /\ a <= b /\ b <= Len(flat)
      BY <1>2, <2>2
    <3> QED
      BY <3>1, Part, ZenonT(60)
  <2>4. part = SubSeq(flat, a + 1, b)
    BY <2>1
  <2> HIDE DEF part
  <2>5. /\ part \in Seq(V) /\ Len(part) = Len(seqs[i])
        /\ \A z \in 1..Len(seqs[i]) : part[z] = flat[a + z]
    BY <2>2, <2>3, <2>4
  <2> QED
    BY <2>1, <2>5
<1> HIDE DEF part
<1>10. part = seqs[i]
  <2>1. \A s \in 1..Len(part) : part[s] = seqs[i][s]
    BY <1>3, <1>9
  <2>2. part \in Seq(V) /\ seqs[i] \in Seq(V) /\ Len(part) = Len(seqs[i])
    BY <1>1, <1>9
  <2>3. PICK t \in Seq(V) : t = seqs[i]
    BY <2>2
  <2>4. part = t
    BY <2>1, <2>2, <2>3, SeqEqual
  <2> QED
    BY <2>3, <2>4
<1> QED
  BY <1>10 DEF part, flat

\* A part of a part is a part of the whole.
LEMMA PartOfPart ==
  ASSUME NEW V, NEW whole \in Seq(V), NEW s \in Nat, NEW a \in Nat, NEW b \in Nat, NEW t \in Nat,
         s <= a, a <= b, b <= t, t <= Len(whole)
  PROVE  SubSeq(SubSeq(whole, s + 1, t), (a - s) + 1, b - s) = SubSeq(whole, a + 1, b)
<1> DEFINE u == SubSeq(whole, s + 1, t)
           v == SubSeq(u, (a - s) + 1, b - s)
           w == SubSeq(whole, a + 1, b)
<1>0. s <= t /\ a <= t /\ b <= Len(whole) /\ a - s \in Nat /\ b - s \in Nat
      /\ a - s <= b - s /\ b - s <= t - s /\ (b - s) - (a - s) = b - a
  <2>1. Len(whole) \in Nat
    OBVIOUS
  <2> QED
    BY <2>1
<1>1. u \in Seq(V) /\ Len(u) = t - s /\ \A z \in 1..(t - s) : u[z] = whole[s + z]
  BY <1>0, Part
<1>2. w \in Seq(V) /\ Len(w) = b - a /\ \A z \in 1..(b - a) : w[z] = whole[a + z]
  BY <1>0, Part
<1> HIDE DEF u, w
<1>3. v \in Seq(V) /\ Len(v) = b - a /\ \A z \in 1..(b - a) : v[z] = u[(a - s) + z]
  <2>1. PICK x \in Nat, y \in Nat : x = a - s /\ y = b - s
    BY <1>0
  <2>2. x <= y /\ y <= Len(u) /\ y - x = b - a
    BY <1>0, <1>1, <2>1
  <2>3. /\ SubSeq(u, x + 1, y) \in Seq(V)
        /\ Len(SubSeq(u, x + 1, y)) = y - x
        /\ \A z \in 1..(y - x) : SubSeq(u, x + 1, y)[z] = u[x + z]
    <3>1. u \in Seq(V) /\ x <= y /\ y <= Len(u)
      BY <1>1, <2>2
    <3> QED
      BY <3>1, Part
  <2>4. v = SubSeq(u, x + 1, y)
    BY <2>1
  <2> HIDE DEF v
  <2> QED
    BY <2>1, <2>2, <2>3, <2>4
<1> HIDE DEF v
<1>4. \A z \in 1..(b - a) : v[z] = w[z]
  <2>1. ASSUME NEW z \in 1..(b - a) PROVE v[z] = w[z]
    <3>1. (a - s) + z \in 1..(t - s) /\ s + ((a - s) + z) = a + z
      BY <1>0
    <3> QED
      BY <1>1, <1>2, <1>3, <3>1
  <2> QED
    BY <2>1
<1>5. v = w
  BY <1>2, <1>3, <1>4, SeqEqual
<1> QED
  BY <1>5 DEF u, v, w

-------------------------------------------------------------------------------
(* Pieces, chunks and windows *)

\* Products with a number that is not 0.
LEMMA Product ==
  ASSUME NEW c \in Nat \ {0}
  PROVE  /\ \A x \in Nat : x * c \in Nat
         /\ \A x \in Nat : (x + 1) * c = x * c + c
         /\ \A x, y \in Nat : x <= y => x * c <= y * c
         /\ \A x, y \in Nat : x * c < y * c => x < y
         /\ 0 * c = 0
<1>1. \A x \in Nat : x * c \in Nat
  OBVIOUS
<1>2. \A x \in Nat : (x + 1) * c = x * c + c
  OBVIOUS
<1>3. \A x, y \in Nat : x <= y => x * c <= y * c
  <2> SUFFICES ASSUME NEW x \in Nat, NEW y \in Nat, x <= y PROVE x * c <= y * c
    OBVIOUS
  <2>1. PICK d \in Nat : y = x + d
    <3>1. y - x \in Nat /\ y = x + (y - x)
      OBVIOUS
    <3> QED
      BY <3>1
  <2>2. y * c = x * c + d * c /\ d * c \in Nat /\ x * c \in Nat
    BY <2>1
  <2> QED
    BY <2>2
<1>4. \A x, y \in Nat : x * c < y * c => x < y
  <2> SUFFICES ASSUME NEW x \in Nat, NEW y \in Nat, x * c < y * c, ~(x < y) PROVE FALSE
    OBVIOUS
  <2>1. y <= x
    OBVIOUS
  <2>2. y * c <= x * c /\ x * c \in Nat /\ y * c \in Nat
    BY <1>1, <1>3, <2>1
  <2> QED
    BY <2>2
<1> QED
  BY <1>1, <1>2, <1>3, <1>4

\* A quotient is what fits.
LEMMA Quotient ==
  ASSUME NEW a \in Nat, NEW c \in Nat \ {0}
  PROVE  /\ a \div c \in Nat
         /\ (a \div c) * c <= a
         /\ a < (a \div c) * c + c
<1>1. a \div c \in Nat /\ a % c \in 0..(c - 1) /\ a = c * (a \div c) + (a % c)
  OBVIOUS
<1>2. c * (a \div c) = (a \div c) * c
  BY <1>1
<1> QED
  BY <1>1, <1>2

\* Where pieces of length c end, the last as long as what is left of the whole.
Ends(size, c) == [i \in 0..((size + c - 1) \div c) |-> MinOf(i * c, size)]

\* The pieces are within the whole, and it ends with the last.
LEMMA Pieced ==
  ASSUME NEW size \in Nat, NEW c \in Nat \ {0}
  PROVE  LET n == (size + c - 1) \div c
             cut == Ends(size, c)
         IN /\ n \in Nat
            /\ Marks(cut, n, size) /\ cut[0] = 0 /\ cut[n] = size
            /\ \A i \in 1..n :
                 /\ (i - 1) * c \in Nat /\ (i - 1) * c < size /\ cut[i - 1] = (i - 1) * c
                 /\ cut[i] = MinOf(i * c, size) /\ i * c = (i - 1) * c + c
                 /\ cut[i] = cut[i - 1] + MinOf(c, size - (i - 1) * c)
            /\ \A x \in Nat : x * c < size => x < n
<1> DEFINE n == (size + c - 1) \div c
           cut == Ends(size, c)
<1>1. size + c - 1 \in Nat
  OBVIOUS
<1>2. n \in Nat /\ n * c <= size + c - 1 /\ size + c - 1 < n * c + c
  BY <1>1, Quotient
<1>3. cut = [i \in 0..n |-> MinOf(i * c, size)]
  BY DEF Ends
<1> HIDE DEF n, cut
<1>4. n * c \in Nat /\ size <= n * c
  BY <1>2, Product
<1>5. ASSUME NEW i \in 0..n PROVE cut[i] \in Nat /\ cut[i] = MinOf(i * c, size) /\ i * c \in Nat
  <2>1. i * c \in Nat
    BY Product
  <2> QED
    BY <1>3, <2>1 DEF MinOf
<1>6. ASSUME NEW i \in 1..n
      PROVE  /\ (i - 1) * c \in Nat /\ (i - 1) * c < size /\ cut[i - 1] = (i - 1) * c
             /\ cut[i] = MinOf(i * c, size) /\ i * c = (i - 1) * c + c
             /\ cut[i] = cut[i - 1] + MinOf(c, size - (i - 1) * c)
  <2>1. PICK j \in Nat : j = i - 1
    OBVIOUS
  <2>2. i = j + 1 /\ j \in 0..n /\ i \in 0..n /\ j + 1 <= n /\ j + 1 \in Nat
    BY <1>2, <2>1
  <2>3. j * c \in Nat /\ (j + 1) * c = j * c + c /\ (j + 1) * c <= n * c
    BY <1>2, <2>2, Product
  <2>4. j * c < size
    <3>1. PICK x \in Nat, y \in Nat : x = j * c /\ y = n * c
      BY <1>4, <2>3
    <3>2. x + c <= y /\ y <= size + c - 1
      BY <1>2, <2>3, <3>1
    <3>3. x < size
      BY <3>2
    <3> QED
      BY <3>1, <3>3
  <2>5. cut[j] = j * c
    BY <1>5, <2>2, <2>3, <2>4 DEF MinOf
  <2>6. cut[i] = MinOf(j * c + c, size)
    BY <1>5, <2>2, <2>3
  <2>7. MinOf(j * c + c, size) = j * c + MinOf(c, size - j * c)
    BY <2>3, <2>4 DEF MinOf
  <2>8. cut[i] = MinOf(i * c, size)
    BY <1>5, <2>2
  <2>9. i * c = j * c + c
    BY <2>2, <2>3
  <2>10. cut[i] = cut[j] + MinOf(c, size - j * c)
    BY <2>5, <2>6, <2>7
  <2> QED
    BY <2>1, <2>3, <2>4, <2>5, <2>8, <2>9, <2>10
<1>7. cut[0] = 0 /\ cut[n] = size
  <2>1. 0 \in 0..n /\ n \in 0..n /\ 0 * c = 0
    BY <1>2, Product
  <2> QED
    BY <1>4, <1>5, <2>1 DEF MinOf
<1>8. Marks(cut, n, size)
  <2>1. \A i \in 1..n : cut[i - 1] <= cut[i]
    <3>1. ASSUME NEW i \in 1..n PROVE cut[i - 1] <= cut[i]
      <4>1. i - 1 \in 0..n
        BY <1>2
      <4>2. cut[i - 1] \in Nat /\ cut[i - 1] < size
        BY <1>6
      <4>3. MinOf(c, size - cut[i - 1]) \in Nat
        BY <4>2 DEF MinOf
      <4>4. cut[i] = cut[i - 1] + MinOf(c, size - cut[i - 1])
        BY <1>6
      <4> QED
        BY <4>2, <4>3, <4>4
    <3> QED
      BY <3>1
  <2>2. cut \in [0..n -> Nat]
    BY <1>3, <1>5
  <2> QED
    BY <1>7, <2>1, <2>2 DEF Marks
<1>9. \A x \in Nat : x * c < size => x < n
  <2>1. ASSUME NEW x \in Nat, x * c < size PROVE x < n
    <3>1. x * c < n * c
      <4>1. x * c \in Nat
        BY Product
      <4> QED
        BY <1>4, <2>1, <4>1
    <3> QED
      BY <1>2, <3>1, Product
  <2> QED
    BY <2>1
<1> QED
  BY <1>2, <1>6, <1>7, <1>8, <1>9 DEF n, cut

\* The plaintexts of the chunks of a file.
Plains(plains, bytes) ==
  /\ plains \in Seq(Seq(Nat))
  /\ Len(plains) = (Len(bytes) + Chunk - 1) \div Chunk
  /\ \A i \in 1..Len(plains) : Len(plains[i]) = MinOf(Chunk, Len(bytes) - (i - 1) * Chunk)
  /\ FlattenSeq(plains) = bytes

\* Chunks that are the file when joined are its parts.
LEMMA PlainIsPart ==
  ASSUME NEW bytes \in Seq(Nat), NEW plains, Plains(plains, bytes), NEW i \in 1..Len(plains)
  PROVE  /\ plains[i] = SubSeq(bytes, (i - 1) * Chunk + 1, MinOf((i - 1) * Chunk + Chunk, Len(bytes)))
         /\ (i - 1) * Chunk \in Nat /\ (i - 1) * Chunk < Len(bytes)
<1> DEFINE size == Len(bytes)
           n == Len(plains)
           cut == Ends(size, Chunk)
<1>1. size \in Nat /\ Chunk \in Nat \ {0} /\ plains \in Seq(Seq(Nat))
  BY ContainerAssumption DEF Plains
<1>2. n = (size + Chunk - 1) \div Chunk
  BY DEF Plains
<1>3. /\ n \in Nat /\ Marks(cut, n, size) /\ cut[0] = 0
      /\ \A k \in 1..n :
           /\ (k - 1) * Chunk \in Nat /\ (k - 1) * Chunk < size /\ cut[k - 1] = (k - 1) * Chunk
           /\ cut[k] = MinOf(k * Chunk, size) /\ k * Chunk = (k - 1) * Chunk + Chunk
           /\ cut[k] = cut[k - 1] + MinOf(Chunk, size - (k - 1) * Chunk)
  <2> HIDE DEF size, n, cut
  <2> QED
    BY <1>1, <1>2, Pieced DEF cut
<1>4. cut \in [0..n -> Nat]
  BY <1>3 DEF Marks
<1>5. \A k \in 1..n : Len(plains[k]) = MinOf(Chunk, size - (k - 1) * Chunk)
  BY DEF Plains
<1>6. FlattenSeq(plains) = bytes
  BY DEF Plains
<1> HIDE DEF cut
<1>7. plains[i] = SubSeq(bytes, cut[i - 1] + 1, cut[i])
  <2>1. \A k \in 1..Len(plains) : cut[k] = cut[k - 1] + Len(plains[k])
    BY <1>3, <1>5
  <2>2. cut \in [0..Len(plains) -> Nat] /\ cut[0] = 0 /\ i \in 1..Len(plains)
    BY <1>3, <1>4
  <2> QED
    BY <1>1, <1>6, <2>1, <2>2, PartsOfJoined
<1>8. /\ (i - 1) * Chunk \in Nat /\ (i - 1) * Chunk < size /\ cut[i - 1] = (i - 1) * Chunk
      /\ cut[i] = MinOf(i * Chunk, size) /\ i * Chunk = (i - 1) * Chunk + Chunk
  BY <1>3
<1>9. cut[i] = MinOf((i - 1) * Chunk + Chunk, size)
  BY <1>8
<1> QED
  BY <1>7, <1>8, <1>9

\* What a part of the file from start adds to a range.
LEMMA SliceOfPart ==
  ASSUME NEW bytes \in Seq(Nat), NEW n \in Nat, NEW offset \in Nat, NEW end \in Nat,
         n * Chunk \in Nat, n * Chunk < end, offset < n * Chunk + Chunk,
         offset < end, end <= Len(bytes)
  PROVE  Slice(SubSeq(bytes, n * Chunk + 1, MinOf(n * Chunk + Chunk, Len(bytes))), n, offset, end)
           = SubSeq(bytes, MaxOf(offset, n * Chunk) + 1, MinOf(end, n * Chunk + Chunk))
<1>1. PICK s \in Nat : s = n * Chunk
  OBVIOUS
<1>2. Len(bytes) \in Nat /\ Chunk \in Nat \ {0}
  BY ContainerAssumption
<1>3. PICK t \in Nat : t = MinOf(s + Chunk, Len(bytes))
  BY <1>2 DEF MinOf
<1>4. PICK a \in Nat : a = MaxOf(offset, s)
  BY DEF MaxOf
<1>5. PICK b \in Nat : b = MinOf(end, s + Chunk)
  BY <1>2 DEF MinOf
<1>6. s <= a /\ a <= b /\ b <= t /\ t <= Len(bytes) /\ s <= t
  BY <1>1, <1>2, <1>3, <1>4, <1>5 DEF MinOf, MaxOf
<1>7. Len(SubSeq(bytes, s + 1, t)) = t - s
  BY <1>6, Part, ZenonT(60)
<1>8. MinOf(end, s + (t - s)) = b
  BY <1>1, <1>2, <1>3, <1>5 DEF MinOf
<1>9. Slice(SubSeq(bytes, s + 1, t), n, offset, end) =
        SubSeq(SubSeq(bytes, s + 1, t), a - s + 1, b - s)
  BY <1>1, <1>4, <1>7, <1>8 DEF Slice
<1>10. SubSeq(SubSeq(bytes, s + 1, t), (a - s) + 1, b - s) = SubSeq(bytes, a + 1, b)
  BY <1>6, PartOfPart
<1> QED
  BY <1>1, <1>3, <1>4, <1>5, <1>9, <1>10

\* The chunks a range is in, and what they add to it.
FirstOf(offset) == offset \div Chunk
CountOf(offset, end) == (end - 1) \div Chunk - FirstOf(offset) + 1

\* The slices of the chunks of a range are the range.
SlicesMeet(plains, bytes, offset, end) ==
  /\ \A i \in 1..CountOf(offset, end) : FirstOf(offset) + i \in 1..Len(plains)
  /\ FlattenSeq([i \in 1..CountOf(offset, end) |->
       Slice(plains[FirstOf(offset) + i], FirstOf(offset) + i - 1, offset, end)])
       = SubSeq(bytes, offset + 1, end)

\* They do, for every range that is in the file.
LEMMA SlicesJoin ==
  ASSUME NEW bytes \in Seq(Nat), NEW plains, Plains(plains, bytes),
         NEW offset \in Nat, NEW end \in Nat, offset < end, end <= Len(bytes)
  PROVE  /\ FirstOf(offset) \in Nat /\ CountOf(offset, end) \in Nat
         /\ SlicesMeet(plains, bytes, offset, end)
<1> DEFINE f == FirstOf(offset)
           l == (end - 1) \div Chunk
           n == CountOf(offset, end)
           size == Len(bytes)
           at == [j \in 0..n |-> IF j = 0 THEN offset ELSE MinOf(end, (f + j) * Chunk)]
           seqs == [i \in 1..n |-> Slice(plains[f + i], f + i - 1, offset, end)]
<1>1. size \in Nat /\ Chunk \in Nat \ {0} /\ end - 1 \in Nat
  BY ContainerAssumption
<1>2. f \in Nat /\ f * Chunk \in Nat /\ f * Chunk <= offset /\ offset < f * Chunk + Chunk
  BY <1>1, Quotient, Product DEF FirstOf
<1>3. l \in Nat /\ l * Chunk \in Nat /\ l * Chunk <= end - 1 /\ end - 1 < l * Chunk + Chunk
  BY <1>1, Quotient, Product
<1>4. n = l - f + 1
  BY DEF CountOf
<1> HIDE DEF f, l, n
<1>5. f <= l
  <2>1. f * Chunk < (l + 1) * Chunk
    <3>1. (l + 1) * Chunk = l * Chunk + Chunk
      BY <1>1, <1>3, Product
    <3> QED
      BY <1>1, <1>2, <1>3, <3>1
  <2>2. f < l + 1
    BY <1>1, <1>2, <1>3, <2>1, Product
  <2> QED
    BY <1>2, <1>3, <2>2
<1>6. n \in Nat /\ n # 0
  BY <1>2, <1>3, <1>4, <1>5
\* The n-th chunk begins before the range ends, and the first of them is f.
<1>7. ASSUME NEW i \in 1..n
      PROVE  /\ f + i - 1 \in Nat /\ (f + i - 1) * Chunk \in Nat /\ (f + i - 1) * Chunk < end
             /\ (f + i) * Chunk = (f + i - 1) * Chunk + Chunk
             /\ offset < (f + i - 1) * Chunk + Chunk
             /\ i # 1 => offset <= (f + i - 1) * Chunk
  <2>1. PICK x \in Nat : x = f + i - 1
    BY <1>2
  <2>2. f <= x /\ x <= l /\ f + i = x + 1
    BY <1>2, <1>3, <1>4, <2>1
  <2>3. x * Chunk \in Nat /\ f * Chunk <= x * Chunk /\ x * Chunk <= l * Chunk
        /\ (x + 1) * Chunk = x * Chunk + Chunk
    BY <1>1, <1>2, <1>3, <2>2, Product
  <2>4. i # 1 => f * Chunk + Chunk <= x * Chunk
    <3>1. ASSUME i # 1 PROVE (f + 1) * Chunk <= x * Chunk
      <4>1. f + 1 \in Nat /\ f + 1 <= x
        BY <1>2, <2>1, <3>1
      <4> QED
        BY <1>1, <4>1, Product
    <3>2. (f + 1) * Chunk = f * Chunk + Chunk
      BY <1>1, <1>2, Product
    <3> QED
      BY <3>1, <3>2
  <2>5. x * Chunk < end /\ offset < x * Chunk + Chunk /\ (i # 1 => offset <= x * Chunk)
    BY <1>1, <1>2, <1>3, <2>3, <2>4
  <2> QED
    BY <2>1, <2>2, <2>3, <2>5
<1>8. ASSUME NEW i \in 1..n PROVE f + i \in 1..Len(plains)
  <2>1. (f + i - 1) * Chunk < size /\ f + i - 1 \in Nat
    BY <1>1, <1>7
  <2>2. Len(plains) = (size + Chunk - 1) \div Chunk
    BY DEF Plains
  <2>3. \A x \in Nat : x * Chunk < size => x < Len(plains)
    <3> HIDE DEF size
    <3>1. \A x \in Nat : x * Chunk < size => x < (size + Chunk - 1) \div Chunk
      <4>1. PICK c \in Nat \ {0} : c = Chunk
        BY <1>1
      <4>2. \A x \in Nat : x * c < size => x < (size + c - 1) \div c
        BY <1>1, Pieced
      <4> QED
        BY <4>1, <4>2
    <3> QED
      BY <2>2, <3>1
  <2>4. f + i - 1 < Len(plains)
    BY <2>1, <2>3
  <2>5. Len(plains) \in Nat
    BY DEF Plains
  <2> QED
    BY <1>2, <2>4, <2>5
<1>9. ASSUME NEW j \in 0..n
      PROVE  at[j] = IF j = 0 THEN offset ELSE MinOf(end, (f + j) * Chunk)
  OBVIOUS
<1>10. ASSUME NEW i \in 1..n
       PROVE  /\ at[i] \in Nat /\ at[i] = MinOf(end, (f + i - 1) * Chunk + Chunk)
              /\ at[i - 1] \in Nat /\ at[i - 1] = MaxOf(offset, (f + i - 1) * Chunk)
              /\ at[i - 1] <= at[i]
  <2>1. PICK s \in Nat : s = (f + i - 1) * Chunk
    BY <1>7
  <2>2. s < end /\ (f + i) * Chunk = s + Chunk /\ offset < s + Chunk /\ (i # 1 => offset <= s)
    BY <1>7, <2>1
  <2>3. at[i] = MinOf(end, s + Chunk)
    BY <1>6, <1>9, <2>2
  <2>4. at[i - 1] = MaxOf(offset, s)
    <3>1. CASE i = 1
      <4>1. at[i - 1] = offset
        <5>1. i - 1 = 0 /\ 0 \in 0..n
          BY <1>6, <3>1
        <5> QED
          BY <1>9, <5>1
      <4>2. s <= offset
        <5>1. f + i - 1 = f
          BY <1>2, <3>1
        <5> QED
          BY <1>2, <2>1, <5>1
      <4> QED
        BY <4>1, <4>2 DEF MaxOf
    <3>2. CASE i # 1
      <4>1. i - 1 \in 0..n /\ i - 1 # 0 /\ f + (i - 1) = f + i - 1
        BY <1>2, <1>6, <3>2
      <4>2. at[i - 1] = MinOf(end, s)
        BY <1>9, <2>1, <4>1
      <4> QED
        BY <2>2, <3>2, <4>2 DEF MinOf, MaxOf
    <3> QED
      BY <3>1, <3>2
  <2> HIDE DEF at
  <2> QED
    BY <1>1, <2>1, <2>2, <2>3, <2>4 DEF MinOf, MaxOf
<1>11. at[0] = offset /\ at[n] = end
  <2>1. at[0] = offset
    <3>1. 0 \in 0..n
      BY <1>6
    <3> QED
      BY <1>9, <3>1
  <2>2. f + n - 1 = l /\ n \in 1..n
    BY <1>2, <1>3, <1>4, <1>6
  <2>3. at[n] = MinOf(end, l * Chunk + Chunk)
    <3> HIDE DEF at
    <3> QED
      BY <1>10, <2>2
  <2>4. MinOf(end, l * Chunk + Chunk) = end
    BY <1>1, <1>3 DEF MinOf
  <2> QED
    BY <2>1, <2>3, <2>4
<1>12. ASSUME NEW i \in 1..n PROVE seqs[i] = SubSeq(bytes, at[i - 1] + 1, at[i])
  <2>1. PICK x \in Nat : x = f + i - 1
    BY <1>7
  <2>2. /\ x * Chunk \in Nat /\ x * Chunk < end /\ offset < x * Chunk + Chunk
        /\ at[i] = MinOf(end, x * Chunk + Chunk) /\ at[i - 1] = MaxOf(offset, x * Chunk)
    <3> HIDE DEF at
    <3> QED
      BY <1>7, <1>10, <2>1
  <2>3. PICK m \in 1..Len(plains) : m = f + i
    BY <1>8
  <2>4. m - 1 = x
    BY <1>2, <2>1, <2>3
  <2>5. plains[m] = SubSeq(bytes, x * Chunk + 1, MinOf(x * Chunk + Chunk, size))
    BY <2>4, PlainIsPart
  <2>6. Slice(SubSeq(bytes, x * Chunk + 1, MinOf(x * Chunk + Chunk, size)), x, offset, end)
          = SubSeq(bytes, MaxOf(offset, x * Chunk) + 1, MinOf(end, x * Chunk + Chunk))
    BY <2>2, SliceOfPart
  <2>7. seqs[i] = Slice(plains[m], x, offset, end)
    BY <2>1, <2>3
  <2> HIDE DEF seqs, at
  <2> QED
    BY <2>2, <2>5, <2>6, <2>7
<1>13. seqs \in Seq(Seq(Nat)) /\ Len(seqs) = n
  <2>1. ASSUME NEW i \in 1..n PROVE seqs[i] \in Seq(Nat)
    <3> HIDE DEF seqs, at
    <3>1. at[i - 1] \in Nat /\ at[i] \in Nat /\ at[i - 1] <= at[i] /\ at[i] <= size
      <4>1. at[i] \in Nat /\ at[i] = MinOf(end, (f + i - 1) * Chunk + Chunk)
            /\ (f + i - 1) * Chunk \in Nat
        BY <1>7, <1>10
      <4>2. at[i] <= end
        BY <1>1, <4>1 DEF MinOf
      <4> QED
        BY <1>1, <1>10, <4>1, <4>2, AtMost
    <3>2. PICK a \in Nat, b \in Nat : a = at[i - 1] /\ b = at[i]
      BY <3>1
    <3>3. SubSeq(bytes, a + 1, b) \in Seq(Nat)
      <4>1. a <= b /\ b <= Len(bytes)
        BY <3>1, <3>2
      <4> QED
        BY <4>1, Part
    <3> QED
      BY <1>12, <3>2, <3>3
  <2>2. seqs = [i \in 1..n |-> seqs[i]]
    OBVIOUS
  <2> HIDE DEF seqs
  <2>3. seqs \in [1..n -> Seq(Nat)]
    BY <2>1, <2>2
  <2> QED
    BY <1>6, <2>3, ListIsSeq
<1>14. Marks(at, n, size)
  <2>1. at \in [0..n -> Nat]
    <3>1. \A j \in 0..n : at[j] \in Nat
      <4> HIDE DEF at
      <4>1. ASSUME NEW j \in 0..n PROVE at[j] \in Nat
        <5>1. j = 0 \/ j \in 1..n
          OBVIOUS
        <5> QED
          BY <1>10, <1>11, <5>1
      <4> QED
        BY <4>1
    <3>2. at = [j \in 0..n |-> at[j]]
      OBVIOUS
    <3> HIDE DEF at
    <3> QED
      BY <3>1, <3>2
  <2> HIDE DEF at
  <2> QED
    BY <1>10, <1>11, <2>1 DEF Marks
<1> HIDE DEF at, seqs
<1>15. FlattenSeq(seqs) = SubSeq(bytes, at[0] + 1, at[Len(seqs)])
  BY <1>12, <1>13, <1>14, JoinedParts DEF size
<1>16. FlattenSeq(seqs) = SubSeq(bytes, offset + 1, end)
  BY <1>11, <1>13, <1>15
<1> QED
  BY <1>2, <1>6, <1>8, <1>16 DEF f, n, seqs, SlicesMeet

\* The length of a window of a read of the whole.
Window(size, w) == MinOf(MaxRead, size - (w - 1) * MaxRead)

\* Windows as long as a read may be make up the file.
LEMMA WindowsJoin ==
  ASSUME NEW bytes \in Seq(Nat)
  PROVE  LET size == Len(bytes)
             n == (size + MaxRead - 1) \div MaxRead
         IN /\ n \in Nat
            /\ \A w \in 1..n : /\ (w - 1) * MaxRead \in Nat /\ Window(size, w) \in Nat
                               /\ Window(size, w) <= MaxRead
                               /\ (w - 1) * MaxRead + Window(size, w) <= size
            /\ FlattenSeq([w \in 1..n |-> SubSeq(bytes, (w - 1) * MaxRead + 1,
                                                 (w - 1) * MaxRead + Window(size, w))]) = bytes
<1> DEFINE size == Len(bytes)
           n == (size + MaxRead - 1) \div MaxRead
           cut == Ends(size, MaxRead)
           seqs == [w \in 1..n |-> SubSeq(bytes, (w - 1) * MaxRead + 1,
                                                 (w - 1) * MaxRead + Window(size, w))]
<1>1. size \in Nat /\ MaxRead \in Nat \ {0}
  BY ContainerAssumption
<1>2. /\ n \in Nat /\ Marks(cut, n, size) /\ cut[0] = 0 /\ cut[n] = size
      /\ \A i \in 1..n :
           /\ (i - 1) * MaxRead \in Nat /\ (i - 1) * MaxRead < size
           /\ cut[i - 1] = (i - 1) * MaxRead
           /\ cut[i] = cut[i - 1] + MinOf(MaxRead, size - (i - 1) * MaxRead)
  <2> HIDE DEF size
  <2> QED
    BY <1>1, Pieced
<1> HIDE DEF n, cut
<1>3. ASSUME NEW w \in 1..n
      PROVE  /\ (w - 1) * MaxRead \in Nat /\ Window(size, w) \in Nat
             /\ Window(size, w) <= MaxRead
             /\ (w - 1) * MaxRead + Window(size, w) <= size
             /\ cut[w - 1] = (w - 1) * MaxRead /\ cut[w] = (w - 1) * MaxRead + Window(size, w)
  <2>1. PICK x \in Nat : x = (w - 1) * MaxRead
    BY <1>2
  <2>2. x < size /\ cut[w - 1] = x /\ cut[w] = x + Window(size, w)
    BY <1>2, <2>1 DEF Window
  <2>3. Window(size, w) = MinOf(MaxRead, size - x)
    BY <2>1 DEF Window
  <2>4. /\ Window(size, w) \in Nat /\ Window(size, w) <= MaxRead
        /\ x + Window(size, w) <= size
    <3> HIDE DEF size
    <3> QED
      BY <1>1, <2>2, <2>3 DEF MinOf
  <2> QED
    BY <2>1, <2>2, <2>4
<1>4. ASSUME NEW w \in 1..n
      PROVE  seqs[w] = SubSeq(bytes, cut[w - 1] + 1, cut[w]) /\ seqs[w] \in Seq(Nat)
  <2>1. PICK a \in Nat, b \in Nat : a = cut[w - 1] /\ b = cut[w]
    BY <1>3
  <2>2. a <= b /\ b <= Len(bytes)
    BY <1>1, <1>3, <2>1
  <2>3. SubSeq(bytes, a + 1, b) \in Seq(Nat)
    BY <2>2, Part
  <2>4. seqs[w] = SubSeq(bytes, cut[w - 1] + 1, cut[w])
    BY <1>3
  <2> HIDE DEF seqs
  <2> QED
    BY <2>1, <2>3, <2>4
<1>5. seqs \in Seq(Seq(Nat)) /\ Len(seqs) = n
  <2>1. seqs = [w \in 1..n |-> seqs[w]]
    OBVIOUS
  <2> HIDE DEF seqs
  <2>2. seqs \in [1..n -> Seq(Nat)]
    BY <1>4, <2>1
  <2> QED
    BY <1>2, <2>2, ListIsSeq
<1>6. FlattenSeq(seqs) = bytes
  <2> HIDE DEF seqs
  <2>1. FlattenSeq(seqs) = SubSeq(bytes, cut[0] + 1, cut[Len(seqs)])
    <3>1. \A i \in 1..Len(seqs) : seqs[i] = SubSeq(bytes, cut[i - 1] + 1, cut[i])
      BY <1>4, <1>5
    <3>2. Marks(cut, Len(seqs), Len(bytes)) /\ seqs \in Seq(Seq(Nat))
      BY <1>2, <1>5
    <3> QED
      BY <3>1, <3>2, JoinedParts
  <2>2. SubSeq(bytes, 1, Len(bytes)) = bytes
    BY SubSeqFull
  <2> QED
    BY <1>2, <1>5, <2>1, <2>2 DEF size
<1> HIDE DEF seqs
<1> QED
  BY <1>2, <1>3, <1>6 DEF n, seqs

-------------------------------------------------------------------------------
(* The files of a directory, in the order of their paths *)

\* A strict total order on a set.
Total(R, S) ==
  /\ \A x \in S : <<x, x>> \notin R
  /\ \A x, y \in S : x # y => <<x, y>> \in R \/ <<y, x>> \in R
  /\ \A x, y, z \in S : <<x, y>> \in R /\ <<y, z>> \in R => <<x, z>> \in R
Below(R, S, x) == {y \in S : <<y, x>> \in R}
rank(R, S, x) == Cardinality(Below(R, S, x))

\* What comes later in a total order has more before it.
LEMMA LaterRank ==
  ASSUME NEW S, IsFiniteSet(S), NEW R, Total(R, S),
         NEW x \in S, NEW y \in S, <<x, y>> \in R
  PROVE  rank(R, S, x) < rank(R, S, y)
<1>1. IsFiniteSet(Below(R, S, y)) /\ rank(R, S, x) \in Nat /\ rank(R, S, y) \in Nat
  <2>1. \A z : IsFiniteSet(Below(R, S, z))
    BY FS_Subset DEF Below
  <2> QED
    BY <2>1, FS_CardinalityType DEF rank
<1>2. /\ Below(R, S, x) \subseteq Below(R, S, y)
      /\ x \in Below(R, S, y) /\ x \notin Below(R, S, x)
  BY DEF Below, Total
<1>3. Below(R, S, x) \subseteq Below(R, S, y) /\ Below(R, S, x) # Below(R, S, y)
  BY <1>2
<1> QED
  BY <1>1, <1>3, FS_Subset DEF rank

\* A finite set in a total order is a sequence in that order.
LEMMA InOrder ==
  ASSUME NEW S, IsFiniteSet(S), NEW R, Total(R, S)
  PROVE  \E f \in Bijection(1 .. Cardinality(S), S) :
            \A i, j \in 1 .. Cardinality(S) : i < j => <<f[i], f[j]>> \in R
<1> DEFINE n == Cardinality(S)
           g == [x \in S |-> rank(R, S, x) + 1]
<1>1. n \in Nat
  BY FS_CardinalityType
<1>2. ASSUME NEW x \in S PROVE rank(R, S, x) \in 0 .. n - 1
  <2>1. Below(R, S, x) \subseteq S /\ Below(R, S, x) # S
    BY DEF Below, Total
  <2>2. IsFiniteSet(Below(R, S, x)) /\ rank(R, S, x) \in Nat
    BY <2>1, FS_Subset, FS_CardinalityType DEF rank
  <2>3. rank(R, S, x) <= n /\ rank(R, S, x) # n
    BY <2>1, FS_Subset DEF rank
  <2> QED
    BY <1>1, <2>2, <2>3
<1>3. \A x, y \in S : <<x, y>> \in R => g[x] < g[y]
  BY <1>2, LaterRank
<1>4. g \in Injection(S, 1 .. n)
  <2>1. \A x \in S : g[x] \in 1 .. n
    BY <1>1, <1>2
  <2>2. \A x, y \in S : g[x] = g[y] => x = y
    <3> HIDE DEF g
    <3> SUFFICES ASSUME NEW x \in S, NEW y \in S, g[x] = g[y], x # y
                 PROVE  FALSE
      OBVIOUS
    <3>1. g[x] \in Nat /\ g[y] \in Nat
      BY <2>1, <1>1
    <3>2. <<x, y>> \in R \/ <<y, x>> \in R
      BY DEF Total
    <3> QED
      BY <1>3, <3>1, <3>2
  <2> QED
    BY <2>1, <2>2 DEF Injection, IsInjective
<1>5. IsFiniteSet(1 .. n) /\ Cardinality(1 .. n) = n
  <2>1. /\ IsFiniteSet(1 .. n)
        /\ Cardinality(1 .. n) = IF 1 > n THEN 0 ELSE n - 1 + 1
    <3>1. 1 \in Int /\ n \in Int
      BY <1>1
    <3> QED
      BY <3>1, FS_Interval
  <2> QED
    BY <1>1, <2>1
<1>6. g \in Surjection(S, 1 .. n)
  <2> HIDE DEF g
  <2> QED
    BY <1>4, <1>5, FS_Injection
<1> DEFINE f == [i \in 1 .. n |-> CHOOSE x \in S : g[x] = i]
<1>7. ASSUME NEW i \in 1 .. n PROVE f[i] \in S /\ g[f[i]] = i
  <2>1. \E x \in S : g[x] = i
    <3> HIDE DEF g
    <3> QED
      BY <1>6 DEF Surjection
  <2> HIDE DEF g
  <2> QED
    BY <2>1
<1>8. ASSUME NEW x \in S PROVE g[x] \in 1 .. n /\ f[g[x]] = x
  <2>1. g[x] \in 1 .. n
    <3> HIDE DEF g
    <3> QED
      BY <1>4 DEF Injection
  <2>2. f[g[x]] \in S /\ g[f[g[x]]] = g[x]
    <3> HIDE DEF f, g
    <3> QED
      BY <2>1, <1>7
  <2> HIDE DEF f, g
  <2> QED
    BY <1>4, <2>1, <2>2 DEF Injection, IsInjective
<1>9. \A i, j \in 1 .. n : i < j => <<f[i], f[j]>> \in R
  <2> SUFFICES ASSUME NEW i \in 1 .. n, NEW j \in 1 .. n, i < j
               PROVE  <<f[i], f[j]>> \in R
    OBVIOUS
  <2> HIDE DEF f, g, n
  <2>1. f[i] \in S /\ f[j] \in S /\ g[f[i]] = i /\ g[f[j]] = j
    BY <1>7
  <2>2. f[i] # f[j] /\ ~(g[f[j]] < g[f[i]])
    BY <1>1, <2>1
  <2> QED
    BY <1>3, <2>1, <2>2 DEF Total
<1>10. f \in [1 .. n -> S]
  BY <1>7
<1> HIDE DEF f, g, n
<1>11. f \in Bijection(1 .. n, S)
  <2>1. f \in Surjection(1 .. n, S)
    BY <1>8, <1>10 DEF Surjection
  <2>2. f \in Injection(1 .. n, S)
    BY <1>7, <1>10 DEF Injection, IsInjective
  <2> QED
    BY <2>1, <2>2 DEF Bijection
<1> QED
  BY <1>9, <1>11 DEF n

\* Two paths differ at a first place.
LEMMA PathsDiffer ==
  ASSUME NEW p \in Seq(Nat), NEW q \in Seq(Nat), p # q
  PROVE  Before(p, q) \/ Before(q, p)
<1> DEFINE Differ == {i \in Nat \ {0} : ~(i \in DOMAIN p /\ i \in DOMAIN q /\ p[i] = q[i])}
<1>1. /\ Len(p) \in Nat /\ DOMAIN p = 1..Len(p) /\ \A i \in 1..Len(p) : p[i] \in Nat
      /\ Len(q) \in Nat /\ DOMAIN q = 1..Len(q) /\ \A i \in 1..Len(q) : q[i] \in Nat
  OBVIOUS
<1>2. Differ # {}
  <2>1. Len(p) + 1 \in Differ
    BY <1>1
  <2> HIDE DEF Differ
  <2> QED
    BY <2>1
<1>3. PICK k \in Differ : \A m \in Differ : k <= m
  <2>1. Differ \in SUBSET Nat
    OBVIOUS
  <2> HIDE DEF Differ
  <2> QED
    BY <1>2, <2>1, LeastNumber
<1>4. k \in Nat \ {0} /\ ~(k \in DOMAIN p /\ k \in DOMAIN q /\ p[k] = q[k])
  BY <1>3
<1>5. \A j \in 1..(k - 1) : j \in DOMAIN p /\ j \in DOMAIN q /\ p[j] = q[j]
  <2>1. ASSUME NEW j \in 1..(k - 1) PROVE j \in DOMAIN p /\ j \in DOMAIN q /\ p[j] = q[j]
    <3>1. j \in Nat \ {0} /\ ~(k <= j)
      BY <1>4
    <3>2. j \notin Differ
      <4> HIDE DEF Differ
      <4> QED
        BY <1>3, <3>1
    <3> QED
      BY <3>1, <3>2
  <2> QED
    BY <2>1
<1> HIDE DEF Differ
<1>6. k \in DOMAIN p \/ k \in DOMAIN q
  <2> SUFFICES ASSUME k \notin DOMAIN p, k \notin DOMAIN q PROVE FALSE
    OBVIOUS
  <2>1. Len(p) < k /\ Len(q) < k
    BY <1>1, <1>4
  <2>2. Len(p) = Len(q)
    <3>1. CASE Len(p) < Len(q)
      <4>1. Len(q) \in 1..(k - 1) /\ Len(q) \notin DOMAIN p
        BY <1>1, <1>4, <2>1, <3>1
      <4> QED
        BY <1>5, <4>1
    <3>2. CASE Len(q) < Len(p)
      <4>1. Len(p) \in 1..(k - 1) /\ Len(p) \notin DOMAIN q
        BY <1>1, <1>4, <2>1, <3>2
      <4> QED
        BY <1>5, <4>1
    <3>3. PICK x \in Nat, y \in Nat : x = Len(p) /\ y = Len(q)
      BY <1>1
    <3> QED
      BY <3>1, <3>2, <3>3
  <2>3. \A i \in 1..Len(p) : p[i] = q[i]
    <3>1. \A i \in 1..Len(p) : i \in 1..(k - 1)
      BY <1>1, <1>4, <2>1
    <3> QED
      BY <1>5, <3>1
  <2> QED
    BY <2>2, <2>3, SeqEqual
<1>7. CASE k \notin DOMAIN p
  <2>1. k \in DOMAIN q /\ k \in DOMAIN p => p[k] < q[k]
    BY <1>6, <1>7
  <2> QED
    BY <1>5, <1>6, <1>7 DEF Before
<1>8. CASE k \notin DOMAIN q
  <2>1. \A j \in 1..(k - 1) : j \in DOMAIN q /\ q[j] = p[j]
    BY <1>5
  <2> QED
    BY <1>6, <1>8, <2>1 DEF Before
<1>9. CASE k \in DOMAIN p /\ k \in DOMAIN q
  <2>1. p[k] # q[k] /\ p[k] \in Nat /\ q[k] \in Nat
    BY <1>1, <1>4, <1>9
  <2>2. CASE p[k] < q[k]
    BY <1>5, <1>9, <2>2 DEF Before
  <2>3. CASE q[k] < p[k]
    <3>1. \A j \in 1..(k - 1) : j \in DOMAIN q /\ q[j] = p[j]
      BY <1>5
    <3> QED
      BY <1>9, <2>3, <3>1 DEF Before
  <2> QED
    BY <2>1, <2>2, <2>3
<1> QED
  BY <1>7, <1>8, <1>9

\* Before goes on.
LEMMA BeforeGoesOn ==
  ASSUME NEW p \in Seq(Nat), NEW q \in Seq(Nat), NEW r \in Seq(Nat), Before(p, q), Before(q, r)
  PROVE  Before(p, r)
<1>1. /\ Len(p) \in Nat /\ DOMAIN p = 1..Len(p) /\ \A i \in 1..Len(p) : p[i] \in Nat
      /\ Len(q) \in Nat /\ DOMAIN q = 1..Len(q) /\ \A i \in 1..Len(q) : q[i] \in Nat
      /\ Len(r) \in Nat /\ DOMAIN r = 1..Len(r) /\ \A i \in 1..Len(r) : r[i] \in Nat
  OBVIOUS
<1>2. PICK i \in DOMAIN q : /\ \A j \in 1..(i - 1) : j \in DOMAIN p /\ p[j] = q[j]
                            /\ i \in DOMAIN p => p[i] < q[i]
  BY DEF Before
<1>3. PICK k \in DOMAIN r : /\ \A j \in 1..(k - 1) : j \in DOMAIN q /\ q[j] = r[j]
                            /\ k \in DOMAIN q => q[k] < r[k]
  BY DEF Before
<1>4. i \in Nat \ {0} /\ k \in Nat \ {0}
  BY <1>1
<1>5. CASE i < k
  <2>1. i \in DOMAIN r /\ i \in 1..(k - 1)
    BY <1>1, <1>4, <1>5
  <2>2. i \in DOMAIN p => p[i] < r[i]
    BY <1>2, <1>3, <2>1
  <2>3. \A j \in 1..(i - 1) : j \in DOMAIN p /\ p[j] = r[j]
    <3>1. \A j \in 1..(i - 1) : j \in 1..(k - 1)
      BY <1>4, <1>5
    <3> QED
      BY <1>2, <1>3, <3>1
  <2> QED
    BY <2>1, <2>2, <2>3 DEF Before
<1>6. CASE i = k
  <2>1. \A j \in 1..(k - 1) : j \in DOMAIN p /\ p[j] = r[j]
    BY <1>2, <1>3, <1>6
  <2>2. k \in DOMAIN p => p[k] < r[k]
    <3>1. ASSUME k \in DOMAIN p PROVE p[k] < r[k]
      <4>1. p[k] < q[k] /\ q[k] < r[k]
        BY <1>2, <1>3, <1>6, <3>1
      <4>2. p[k] \in Nat /\ q[k] \in Nat /\ r[k] \in Nat
        BY <1>1, <1>2, <1>3, <1>6, <3>1
      <4>3. \A x, y, z \in Nat : x < y /\ y < z => x < z
        OBVIOUS
      <4> QED
        BY <4>1, <4>2, <4>3, Zenon
    <3> QED
      BY <3>1
  <2> QED
    BY <1>3, <2>1, <2>2 DEF Before
<1>7. CASE k < i
  <2>1. k \in DOMAIN q /\ k \in 1..(i - 1)
    BY <1>1, <1>4, <1>7
  <2>2. k \in DOMAIN p /\ p[k] = q[k] /\ q[k] < r[k]
    BY <1>2, <1>3, <2>1
  <2>3. \A j \in 1..(k - 1) : j \in DOMAIN p /\ p[j] = r[j]
    <3>1. \A j \in 1..(k - 1) : j \in 1..(i - 1)
      BY <1>4, <1>7
    <3> QED
      BY <1>2, <1>3, <3>1
  <2>4. p[k] < r[k]
    BY <2>2
  <2> QED
    BY <1>3, <2>3, <2>4 DEF Before
<1> QED
  BY <1>4, <1>5, <1>6, <1>7

\* The files of a directory are listed.
LEMMA ListedFiles ==
  ASSUME NEW d \in DOMAIN Directories
  PROVE  /\ Discover(d) \in Seq(Directories[d])
         /\ \A k \in DOMAIN Discover(d) : Discover(d)[k].bytes \in Seq(Nat)
<1> DEFINE S == Directories[d]
           R == {x \in S \X S : Before(x[1].path, x[2].path)}
           n == Cardinality(S)
<1>1. /\ IsFiniteSet(S) /\ \A f \in S : f.path \in Seq(Nat) /\ f.bytes \in Seq(Nat)
      /\ \A f, g \in S : f.path = g.path => f = g
  BY DirectoriesAssumption
<1>2. \A f, g \in S : <<f, g>> \in R <=> Before(f.path, g.path)
  OBVIOUS
<1>7. Discover(d) = CHOOSE files \in SetToSeqs(S) :
                      \A i, j \in DOMAIN files : i < j => Before(files[i].path, files[j].path)
  BY DEF Discover, Listings
<1> HIDE DEF R, S
<1>3. Total(R, S)
  <2>1. ASSUME NEW f \in S PROVE ~Before(f.path, f.path)
    <3> SUFFICES ASSUME Before(f.path, f.path) PROVE FALSE
      OBVIOUS
    <3>1. PICK i \in DOMAIN f.path : f.path[i] < f.path[i]
      BY DEF Before
    <3>2. f.path[i] \in Nat
      BY <1>1
    <3> QED
      BY <3>1, <3>2
  <2>2. ASSUME NEW f \in S, NEW g \in S, f # g
        PROVE  Before(f.path, g.path) \/ Before(g.path, f.path)
    BY <1>1, <2>2, PathsDiffer
  <2>3. ASSUME NEW f \in S, NEW g \in S, NEW h \in S, Before(f.path, g.path), Before(g.path, h.path)
        PROVE  Before(f.path, h.path)
    BY <1>1, <2>3, BeforeGoesOn
  <2> QED
    BY <1>2, <2>1, <2>2, <2>3 DEF Total
<1>4. n \in Nat
  BY <1>1, FS_CardinalityType
<1>5. PICK order \in Bijection(1..n, S) : \A i, j \in 1..n : i < j => <<order[i], order[j]>> \in R
  BY <1>1, <1>3, InOrder
<1>6. SetToSeqs(S) = {f \in [1..n -> S] : \A i, j \in 1..n : i # j => f[i] # f[j]}
  BY DEF SetToSeqs
<1> HIDE DEF n
<1>8. order \in SetToSeqs(S) /\ DOMAIN order = 1..n /\ \A i \in 1..n : order[i] \in S
  <2>1. order \in [1..n -> S] /\ \A i, j \in 1..n : order[i] = order[j] => i = j
    BY <1>5 DEF Bijection, Injection, IsInjective
  <2> QED
    BY <1>6, <2>1
<1>9. \A i, j \in DOMAIN order : i < j => Before(order[i].path, order[j].path)
  BY <1>2, <1>5, <1>8
<1>10. Discover(d) \in SetToSeqs(S)
  BY <1>7, <1>8, <1>9
<1>11. Discover(d) \in Seq(S)
  BY <1>4, <1>6, <1>10, ListIsSeq
<1>12. \A k \in DOMAIN Discover(d) : Discover(d)[k] \in S
  BY <1>11
<1> QED
  BY <1>1, <1>11, <1>12 DEF S

-------------------------------------------------------------------------------
(* Manifest, index and data *)

\* The pieces of a file.
LEMMA PiecesType ==
  ASSUME NEW bytes \in Seq(Nat)
  PROVE  /\ Pieces(bytes) \in Seq(Seq(Nat))
         /\ Len(Pieces(bytes)) = (Len(bytes) + Chunk - 1) \div Chunk
<1> DEFINE size == Len(bytes)
           n == (size + Chunk - 1) \div Chunk
<1>1. size \in Nat /\ Chunk \in Nat \ {0}
  BY ContainerAssumption
<1>2. /\ n \in Nat
      /\ \A i \in 1..n :
           /\ (i - 1) * Chunk \in Nat /\ (i - 1) * Chunk < size /\ i * Chunk = (i - 1) * Chunk + Chunk
  <2> HIDE DEF size
  <2> QED
    BY <1>1, Pieced
<1>3. Pieces(bytes) = [i \in 1..n |-> SubSeq(bytes, (i - 1) * Chunk + 1, MinOf(i * Chunk, size))]
  BY DEF Pieces
<1> HIDE DEF n, size
<1>4. ASSUME NEW i \in 1..n PROVE Pieces(bytes)[i] \in Seq(Nat)
  <2>1. PICK a \in Nat : a = (i - 1) * Chunk /\ a < size /\ i * Chunk = a + Chunk
    BY <1>2
  <2>2. PICK b \in Nat : b = MinOf(a + Chunk, size)
    BY <1>1, <2>1 DEF MinOf
  <2>3. a <= b /\ b <= Len(bytes)
    BY <1>1, <2>1, <2>2 DEF MinOf, size
  <2>4. SubSeq(bytes, a + 1, b) \in Seq(Nat)
    BY <2>3, Part
  <2> QED
    BY <1>3, <2>1, <2>2, <2>4
<1>5. Pieces(bytes) \in [1..n -> Seq(Nat)]
  BY <1>3, <1>4
<1> QED
  BY <1>2, <1>5, ListIsSeq DEF n, size

\* The pieces of the files of a directory.
LEMMA AllPiecesType ==
  ASSUME NEW d \in DOMAIN Directories
  PROVE  AllPieces(Discover(d)) \in Seq(Seq(Nat))
<1> DEFINE files == Discover(d)
           seqs == [k \in DOMAIN files |-> Pieces(files[k].bytes)]
<1>1. DOMAIN files = 1..Len(files) /\ Len(files) \in Nat
  BY ListedFiles
<1>2. \A k \in 1..Len(files) : Pieces(files[k].bytes) \in Seq(Seq(Nat))
  BY <1>1, ListedFiles, PiecesType
<1> HIDE DEF files
<1>3. seqs \in [1..Len(files) -> Seq(Seq(Nat))]
  BY <1>1, <1>2
<1>4. seqs \in Seq(Seq(Seq(Nat)))
  <2> HIDE DEF seqs
  <2> QED
    BY <1>1, <1>3, ListIsSeq
<1>5. AllPieces(files) = FlattenSeq(seqs)
  BY DEF AllPieces
<1> HIDE DEF seqs
<1> QED
  BY <1>4, <1>5, JoinedType DEF files

\* There is a record of each piece.
LEMMA RecordsAreListed ==
  ASSUME NEW d \in DOMAIN Directories
  PROVE  LET records == Records(Discover(d)) IN
         /\ Len(records) \in Nat /\ DOMAIN records = 1..Len(records)
         /\ Len(records) = Len(AllPieces(Discover(d)))
         /\ records = [i \in DOMAIN records |-> records[i]]
<1> DEFINE records == Records(Discover(d))
           n == Len(AllPieces(Discover(d)))
<1>1. n \in Nat /\ DOMAIN AllPieces(Discover(d)) = 1..n
  BY AllPiecesType
<1>2. DOMAIN records = DOMAIN AllPieces(Discover(d)) /\ records = [i \in DOMAIN records |-> records[i]]
  BY DEF Records
<1> HIDE DEF records, n
<1>3. records \in [1..n -> {records[i] : i \in 1..n}]
  BY <1>1, <1>2
<1>4. Len(records) = n
  BY <1>1, <1>3, ListIsSeq
<1> QED
  BY <1>1, <1>2, <1>4 DEF records, n

\* What the data of a directory holds, cell by cell.
LEMMA DataCells ==
  ASSUME NEW d \in DOMAIN Directories, NEW key, NEW header
  PROVE  LET data == Data(key, header, Discover(d)) IN
         /\ Len(data) \in Nat /\ Len(data) >= 1 /\ DOMAIN data = 1..Len(data)
         /\ data[1] \in [count : Nat]
         /\ \A x \in 2..Len(data) : data[x].seal.plain \in Seq(Nat)
<1> DEFINE pieces == AllPieces(Discover(d))
           n == Len(pieces)
           cell(i, x) == [seal |-> Sealed(key, header, <<"chunk", i - 1>>, pieces[i]), at |-> x]
           V == {cell(i, x) : i \in 1..n, x \in Nat}
           seqs == [i \in DOMAIN pieces |-> SealedChunk(key, header, i - 1, pieces[i])]
           first == [count |-> n]
<1>1. n \in Nat /\ DOMAIN pieces = 1..n /\ \A i \in 1..n : pieces[i] \in Seq(Nat)
  BY AllPiecesType
<1>2. Data(key, header, Discover(d)) = <<first>> \o FlattenSeq(seqs)
  BY DEF Data
<1> HIDE DEF pieces, n
<1>3. ASSUME NEW i \in 1..n PROVE SealedChunk(key, header, i - 1, pieces[i]) \in Seq(V)
  <2>1. Len(pieces[i]) + Tag \in Nat
    BY <1>1, ContainerAssumption
  <2>2. SealedChunk(key, header, i - 1, pieces[i]) = [x \in 1..(Len(pieces[i]) + Tag) |-> cell(i, x)]
    BY DEF SealedChunk
  <2> HIDE DEF cell
  <2>3. SealedChunk(key, header, i - 1, pieces[i]) \in [1..(Len(pieces[i]) + Tag) -> V]
    BY <2>1, <2>2
  <2> HIDE DEF V
  <2>4. PICK m \in Nat : m = Len(pieces[i]) + Tag
    BY <2>1
  <2>5. SealedChunk(key, header, i - 1, pieces[i]) \in [1..m -> V]
    BY <2>3, <2>4
  <2> QED
    BY <2>5, ListIsSeq
<1>4. \A v \in V : v.seal.plain \in Seq(Nat)
  BY <1>1 DEF Sealed
<1> HIDE DEF V, cell
<1>5. seqs \in Seq(Seq(V))
  <2>1. seqs \in [1..n -> Seq(V)]
    BY <1>1, <1>3
  <2> HIDE DEF seqs
  <2> QED
    BY <1>1, <2>1, ListIsSeq
<1> HIDE DEF seqs
<1>6. PICK flat \in Seq(V) : flat = FlattenSeq(seqs)
  BY <1>5, JoinedType
<1> DEFINE W == V \cup {first}
<1>7. flat \in Seq(W) /\ <<first>> \in Seq(W) /\ Len(<<first>>) = 1 /\ <<first>>[1] = first
  OBVIOUS
<1>8. first \in [count : Nat]
  BY <1>1
<1>9. \A z \in 1..Len(flat) : flat[z] \in V
  OBVIOUS
<1> HIDE DEF first, W
<1>10. PICK data : data = <<first>> \o flat
  OBVIOUS
<1>11. /\ data \in Seq(W) /\ Len(flat) \in Nat /\ Len(data) = 1 + Len(flat)
       /\ data[1] = first
       /\ \A z \in 1..Len(flat) : data[1 + z] = flat[z]
  <2>1. PICK a \in Seq(W) : a = <<first>> /\ Len(a) = 1 /\ a[1] = first
    BY <1>7
  <2>2. /\ a \o flat \in Seq(W)
        /\ Len(a) \in Nat /\ Len(flat) \in Nat /\ Len(a \o flat) = Len(a) + Len(flat)
        /\ \A z \in 1..Len(a) : (a \o flat)[z] = a[z]
        /\ \A z \in 1..Len(flat) : (a \o flat)[Len(a) + z] = flat[z]
    BY <1>7, Concatenated
  <2> QED
    BY <1>10, <2>1, <2>2
<1>12. \A x \in 2..Len(data) : data[x] \in V
  <2>1. ASSUME NEW x \in 2..Len(data) PROVE data[x] \in V
    <3>1. PICK z \in 1..Len(flat) : x = 1 + z
      <4>1. x - 1 \in 1..Len(flat) /\ x = 1 + (x - 1)
        BY <1>11
      <4> QED
        BY <4>1
    <3> QED
      BY <1>9, <1>11, <3>1
  <2> QED
    BY <2>1
<1>13. data = Data(key, header, Discover(d))
  BY <1>2, <1>6, <1>10
<1>14. Len(data) \in Nat /\ Len(data) >= 1 /\ DOMAIN data = 1..Len(data)
  BY <1>11
<1> QED
  BY <1>4, <1>8, <1>11, <1>12, <1>13, <1>14

\* Valid records are of parts of the data after its count.
LEMMA RecordBounds ==
  ASSUME NEW records, Len(records) \in Nat, DOMAIN records = 1..Len(records),
         records = [i \in DOMAIN records |-> records[i]], ValidRecords(records)
  PROVE  /\ \A i \in 1..Len(records) :
              /\ records[i].offset \in Nat /\ records[i].offset >= 1
              /\ records[i].plaintext \in Nat /\ records[i].plaintext >= 1
              /\ records[i].ciphertext \in Nat /\ records[i].ciphertext >= 1
              /\ records[i].ciphertext = records[i].plaintext + Tag
              /\ records[i].offset + records[i].ciphertext <= DataLength(records)
         /\ DataLength(records) \in Nat
         /\ Len(records) # 0 => DataLength(records) =
              records[Len(records)].offset + records[Len(records)].ciphertext
         /\ Len(records) = 0 => DataLength(records) = 1
<1> DEFINE n == Len(records)
           end(i) == records[i].offset + records[i].ciphertext
           Low == {i \in 1..n : ~(records[i].offset \in Nat /\ records[i].offset >= 1)}
<1>1. n \in Nat /\ Chunk \in Nat \ {0} /\ Tag \in Nat
  BY ContainerAssumption
<1>2. ASSUME NEW i \in 1..n
      PROVE  /\ records[i].plaintext \in Nat /\ records[i].plaintext >= 1
             /\ records[i].ciphertext \in Nat /\ records[i].ciphertext >= 1
             /\ records[i].ciphertext = records[i].plaintext + Tag
             /\ records[i].offset = IF i = 1 THEN 1 ELSE end(i - 1)
  <2>1. /\ records[i].offset = IF i = 1 THEN 1 ELSE end(i - 1)
        /\ records[i].plaintext \in 1..Chunk
        /\ records[i].ciphertext = records[i].plaintext + Tag
    BY DEF ValidRecords
  <2> HIDE DEF end
  <2> QED
    BY <1>1, <2>1
<1>3. Low = {}
  <2> SUFFICES ASSUME Low # {} PROVE FALSE
    OBVIOUS
  <2>1. PICK k \in Low : \A m \in Low : k <= m
    <3>1. Low \in SUBSET Nat
      BY <1>1
    <3> HIDE DEF Low
    <3> QED
      BY <3>1, LeastNumber
  <2>2. k \in 1..n /\ k \in Nat /\ ~(records[k].offset \in Nat /\ records[k].offset >= 1)
    BY <1>1, <2>1
  <2>3. k # 1
    BY <1>2, <2>2
  <2>4. k - 1 \in 1..n /\ k - 1 < k
    BY <1>1, <2>2, <2>3
  <2>5. k - 1 \notin Low
    <3> HIDE DEF Low
    <3> QED
      BY <2>1, <2>2, <2>4
  <2>6. records[k - 1].offset \in Nat /\ records[k - 1].offset >= 1
    BY <2>4, <2>5
  <2>7. records[k - 1].ciphertext \in Nat
    BY <1>2, <2>4
  <2>8. records[k].offset = records[k - 1].offset + records[k - 1].ciphertext
    BY <1>2, <2>2, <2>3
  <2> HIDE DEF Low
  <2>9. PICK x \in Nat, y \in Nat : x = records[k - 1].offset /\ y = records[k - 1].ciphertext
    BY <2>6, <2>7
  <2> QED
    BY <2>2, <2>6, <2>8, <2>9
<1>4. ASSUME NEW i \in 1..n
      PROVE  records[i].offset \in Nat /\ records[i].offset >= 1 /\ end(i) \in Nat
  <2>1. records[i].offset \in Nat /\ records[i].offset >= 1
    BY <1>3
  <2> QED
    BY <1>2, <2>1
<1> HIDE DEF Low
\* The ends are marks.
<1>5. n # 0 => \A i \in 1..n : end(i) <= end(n)
  <2> SUFFICES ASSUME n # 0, NEW i \in 1..n PROVE end(i) <= end(n)
    OBVIOUS
  <2> DEFINE cut == [j \in 0..n |-> IF j = 0 THEN 1 ELSE end(j)]
  <2>1. \A j \in 0..n : cut[j] = IF j = 0 THEN 1 ELSE end(j)
    OBVIOUS
  <2>2. \A j \in 0..n : cut[j] \in Nat
    <3>1. \A j \in 0..n : j = 0 \/ j \in 1..n
      BY <1>1
    <3> HIDE DEF cut, end
    <3> QED
      BY <1>4, <2>1, <3>1
  <2>3. cut = [j \in 0..n |-> cut[j]]
    OBVIOUS
  <2> HIDE DEF cut
  <2>4. cut \in [0..n -> Nat]
    BY <2>2, <2>3
  <2>5. \A j \in 1..n : cut[j - 1] <= cut[j]
    <3>1. ASSUME NEW j \in 1..n PROVE cut[j - 1] <= cut[j]
      <4>1. j - 1 \in 0..n /\ j \in 0..n /\ j # 0 /\ (j = 1 <=> j - 1 = 0)
        BY <1>1
      <4>2. cut[j - 1] = records[j].offset
        BY <1>2, <2>1, <4>1
      <4>3. cut[j] = records[j].offset + records[j].ciphertext
        BY <2>1, <4>1
      <4>4. records[j].offset \in Nat /\ records[j].ciphertext \in Nat
        BY <1>2, <1>4
      <4>5. PICK x \in Nat, y \in Nat : x = records[j].offset /\ y = records[j].ciphertext
        BY <4>4
      <4> QED
        BY <4>2, <4>3, <4>5
    <3> QED
      BY <3>1
  <2>6. n \in 0..n /\ i \in 0..n /\ i # 0
    BY <1>1
  <2>7. cut[n] \in Nat /\ cut[n] <= cut[n]
    BY <2>2, <2>6
  <2>8. Marks(cut, n, cut[n])
    BY <2>4, <2>5, <2>7 DEF Marks
  <2>9. cut[i] <= cut[n]
    BY <1>1, <2>6, <2>7, <2>8, MarksInOrder
  <2> QED
    BY <2>1, <2>6, <2>9
<1>6. n # 0 => DataLength(records) = end(n) /\ n \in 1..n
  <2>1. n # 0 => records # <<>>
    OBVIOUS
  <2> QED
    BY <1>1, <2>1 DEF DataLength, Last
<1>7. n = 0 => DataLength(records) = 1
  <2>1. n = 0 => records = <<>>
    <3>1. ASSUME n = 0 PROVE records = <<>>
      <4>1. DOMAIN records = {}
        BY <3>1
      <4> QED
        BY <4>1
    <3> QED
      BY <3>1
  <2> QED
    BY <2>1 DEF DataLength
<1>8. DataLength(records) \in Nat
  BY <1>4, <1>6, <1>7
<1>9. \A i \in 1..n : end(i) <= DataLength(records)
  <2>1. \A i \in 1..n : n # 0
    BY <1>1
  <2> HIDE DEF n, end
  <2> QED
    BY <1>5, <1>6, <2>1
<1> QED
  BY <1>2, <1>4, <1>6, <1>7, <1>8, <1>9

-------------------------------------------------------------------------------
(* What a container that opens holds *)

\* The data as they were written.
Stored(c) == Data(c.key, c.header, Discover(c.streamed))

\* The sections of a container.
LEMMA BytesParts ==
  ASSUME NEW c
  PROVE  /\ Bytes(c).prelude = IF c.harm = "prelude" THEN Garbage ELSE Prelude(Stored(c))
         /\ Bytes(c).header = IF c.harm = "header" THEN Garbage ELSE c.header
         /\ Bytes(c).manifest = IF c.harm = "manifest" THEN Garbage
              ELSE Sealed(c.key, c.header, <<"manifest", 0>>, Manifest(c.header, Discover(c.planned)))
         /\ Bytes(c).index = IF c.harm = "index" THEN Garbage
              ELSE Sealed(c.key, c.header, <<"index", 0>>, Records(Discover(c.planned)))
         /\ Bytes(c).data = IF c.harm = "data"
              THEN [Stored(c) EXCEPT ![Len(Stored(c))] = Garbage] ELSE Stored(c)
         /\ Bytes(c).prefix = IF c.harm = "prefix" THEN Garbage ELSE KeyId
BY DEF Bytes, Stored

\* A content is of two directories.
OfDirectories(c) == c.planned \in DOMAIN Directories /\ c.streamed \in DOMAIN Directories

\* The cells of a container's data are as many as were written, and each is what was
\* written or garbage.
LEMMA StoredCells ==
  ASSUME NEW c, OfDirectories(c)
  PROVE  LET data == Bytes(c).data IN
         /\ Len(data) \in Nat /\ Len(data) >= 1 /\ DOMAIN data = 1..Len(data)
         /\ \A x \in 2..Len(data) : data[x] = Garbage \/ data[x].seal.plain \in Seq(Nat)
         /\ Len(data) = Len(Stored(c))
         /\ c.harm = "data" => data[Len(data)] = Garbage
         /\ c.harm # "data" => data = Stored(c)
         /\ \A x \in 1..Len(data) : data[x] \in {Stored(c)[x], Garbage}
<1> DEFINE written == Stored(c)
           n == Len(written)
<1>1. /\ n \in Nat /\ n >= 1 /\ DOMAIN written = 1..n
      /\ \A x \in 2..n : written[x].seal.plain \in Seq(Nat)
      /\ written[1] \in [count : Nat]
  BY DataCells DEF Stored, OfDirectories
<1>2. CASE c.harm # "data"
  <2>1. Bytes(c).data = written
    BY <1>2, BytesParts
  <2> HIDE DEF written
  <2> QED
    BY <1>1, <1>2, <2>1 DEF written
<1>3. CASE c.harm = "data"
  <2>1. Bytes(c).data = [written EXCEPT ![n] = Garbage]
    BY <1>3, BytesParts
  <2> HIDE DEF written
  <2>2. PICK data : data = [written EXCEPT ![n] = Garbage]
    OBVIOUS
  <2>3. /\ DOMAIN data = 1..n /\ data[n] = Garbage
        /\ \A x \in 1..n : data[x] = IF x = n THEN Garbage ELSE written[x]
    BY <1>1, <2>2
  <2>4. Len(data) = n
    <3>1. data = [x \in 1..n |-> data[x]]
      BY <1>1, <2>2, <2>3
    <3>2. data \in [1..n -> {data[x] : x \in 1..n}]
      BY <3>1
    <3> QED
      BY <1>1, <3>2, ListIsSeq
  <2>5. \A x \in 2..n : data[x] = Garbage \/ data[x].seal.plain \in Seq(Nat)
    <3>1. \A x \in 2..n : x \in 1..n
      BY <1>1
    <3>2. \A x \in 2..n : data[x] = Garbage \/ data[x] = written[x]
      BY <2>3, <3>1
    <3> QED
      BY <1>1, <3>2
  <2>6. \A x \in 1..n : data[x] \in {written[x], Garbage}
    BY <2>3
  <2> HIDE DEF n
  <2>7. /\ Len(data) \in Nat /\ Len(data) >= 1 /\ DOMAIN data = 1..Len(data)
        /\ data[Len(data)] = Garbage /\ Len(data) = Len(written)
    BY <1>1, <2>3, <2>4 DEF n
  <2> QED
    BY <1>3, <2>1, <2>2, <2>4, <2>5, <2>6, <2>7 DEF n, written
<1> QED
  BY <1>2, <1>3

\* What an opened container tells of its data and its files.
Consistent(records, data, files) ==
  /\ Len(records) \in Nat /\ DOMAIN records = 1..Len(records)
  /\ \A i \in 1..Len(records) :
       /\ records[i].offset \in Nat /\ records[i].offset >= 1
       /\ records[i].plaintext \in Nat /\ records[i].plaintext >= 1
       /\ records[i].ciphertext \in Nat /\ records[i].ciphertext >= 1
       /\ records[i].ciphertext = records[i].plaintext + Tag
       /\ records[i].offset + records[i].ciphertext <= Len(data)
  /\ Len(records) # 0 => Len(data) =
       records[Len(records)].offset + records[Len(records)].ciphertext
  /\ Len(files) \in Nat /\ DOMAIN files = 1..Len(files)
  /\ \A k \in 1..Len(files) :
       /\ files[k].size \in Nat
       /\ Len(files[k].chunks) = (files[k].size + Chunk - 1) \div Chunk
       /\ Len(files[k].chunks) \in Nat /\ DOMAIN files[k].chunks = 1..Len(files[k].chunks)
       /\ files[k].chunks = [i \in 1..Len(files[k].chunks) |-> files[k].chunks[i]]
       /\ \A i \in 1..Len(files[k].chunks) :
            /\ files[k].chunks[i] + 1 \in 1..Len(records)
            /\ records[files[k].chunks[i] + 1].plaintext
                 = MinOf(Chunk, files[k].size - (i - 1) * Chunk)

\* The manifest of a directory has its files and their chunks.
LEMMA ManifestFiles ==
  ASSUME NEW d \in DOMAIN Directories, NEW header
  PROVE  LET files == Manifest(header, Discover(d)).files IN
         /\ Len(files) \in Nat /\ DOMAIN files = 1..Len(files)
         /\ \A k \in 1..Len(files) :
              /\ files[k].size \in Nat
              /\ Len(files[k].chunks) = (files[k].size + Chunk - 1) \div Chunk
              /\ Len(files[k].chunks) \in Nat /\ DOMAIN files[k].chunks = 1..Len(files[k].chunks)
              /\ files[k].chunks = [i \in 1..Len(files[k].chunks) |-> files[k].chunks[i]]
<1> DEFINE listed == Discover(d)
           files == Manifest(header, listed).files
           n == Len(listed)
<1>1. n \in Nat /\ DOMAIN listed = 1..n /\ \A k \in 1..n : listed[k].bytes \in Seq(Nat)
  BY ListedFiles
<1>2. /\ DOMAIN files = DOMAIN listed /\ files = [k \in DOMAIN listed |-> files[k]]
      /\ \A k \in DOMAIN listed :
           /\ files[k].size = Len(listed[k].bytes)
           /\ DOMAIN files[k].chunks = DOMAIN Pieces(listed[k].bytes)
           /\ files[k].chunks = [i \in DOMAIN files[k].chunks |-> files[k].chunks[i]]
  BY DEF Manifest
<1> HIDE DEF listed, files, n
<1>3. Len(files) = n
  <2>1. files \in [1..n -> {files[k] : k \in 1..n}]
    BY <1>1, <1>2
  <2> QED
    BY <1>1, <2>1, ListIsSeq
<1>4. ASSUME NEW k \in 1..n
      PROVE  /\ files[k].size \in Nat
             /\ Len(files[k].chunks) = (files[k].size + Chunk - 1) \div Chunk
             /\ Len(files[k].chunks) \in Nat /\ DOMAIN files[k].chunks = 1..Len(files[k].chunks)
             /\ files[k].chunks = [i \in 1..Len(files[k].chunks) |-> files[k].chunks[i]]
  <2>1. PICK bytes \in Seq(Nat) : bytes = listed[k].bytes
    BY <1>1
  <2>2. PICK m \in Nat : m = Len(Pieces(bytes)) /\ DOMAIN Pieces(bytes) = 1..m
    BY PiecesType
  <2>3. Len(Pieces(bytes)) = (Len(bytes) + Chunk - 1) \div Chunk
    BY PiecesType
  <2>4. PICK chunks : chunks = files[k].chunks
    OBVIOUS
  <2>5. DOMAIN chunks = 1..m /\ chunks = [i \in 1..m |-> chunks[i]]
    BY <1>1, <1>2, <2>1, <2>2, <2>4
  <2>6. chunks \in [1..m -> {chunks[i] : i \in 1..m}]
    BY <2>5
  <2>7. Len(chunks) = m
    BY <2>6, ListIsSeq
  <2>8. files[k].size = Len(bytes) /\ Len(bytes) \in Nat
    <3>1. files[k].size = Len(listed[k].bytes)
      BY <1>1, <1>2
    <3>2. Len(bytes) \in Nat
      OBVIOUS
    <3> QED
      BY <2>1, <3>1, <3>2
  <2> QED
    BY <2>2, <2>3, <2>4, <2>5, <2>7, <2>8
<1> QED
  BY <1>1, <1>2, <1>3, <1>4 DEF files, listed

\* What is readable is consistent, and is the manifest and index that were written.
LEMMA ReadableIsConsistent ==
  ASSUME NEW c, OfDirectories(c), NEW key, Readable(Bytes(c), key)
  PROVE  /\ Consistent(Bytes(c).index.plain, Bytes(c).data, Bytes(c).manifest.plain.files)
         /\ c.harm \notin {"manifest", "index"}
         /\ Bytes(c).index.plain = Records(Discover(c.planned))
         /\ Bytes(c).manifest.plain = Manifest(c.header, Discover(c.planned))
<1> DEFINE records == Records(Discover(c.planned))
           files == Manifest(c.header, Discover(c.planned)).files
           data == Bytes(c).data
<1>1. c.harm # "manifest" /\ c.harm # "index"
  BY BytesParts DEF Readable, Opens
<1>2. Bytes(c).index.plain = records /\ Bytes(c).manifest.plain = Manifest(c.header, Discover(c.planned))
  <2>1. /\ Bytes(c).index = Sealed(c.key, c.header, <<"index", 0>>, records)
        /\ Bytes(c).manifest =
             Sealed(c.key, c.header, <<"manifest", 0>>, Manifest(c.header, Discover(c.planned)))
    BY <1>1, BytesParts
  <2>2. \A key0, header0, place, plain : Sealed(key0, header0, place, plain).plain = plain
    BY DEF Sealed
  <2> QED
    BY <2>1, <2>2
<1>3. /\ ValidRecords(records) /\ Len(data) = DataLength(records)
      /\ LengthsMatch(Bytes(c).manifest.plain, records)
  BY <1>2 DEF Readable
<1>4. c.planned \in DOMAIN Directories
  BY DEF OfDirectories
<1>5. /\ Len(records) \in Nat /\ DOMAIN records = 1..Len(records)
      /\ records = [i \in DOMAIN records |-> records[i]]
  BY <1>4, RecordsAreListed
<1>6. /\ Len(files) \in Nat /\ DOMAIN files = 1..Len(files)
      /\ \A k \in 1..Len(files) :
           /\ files[k].size \in Nat
           /\ Len(files[k].chunks) = (files[k].size + Chunk - 1) \div Chunk
           /\ Len(files[k].chunks) \in Nat /\ DOMAIN files[k].chunks = 1..Len(files[k].chunks)
           /\ files[k].chunks = [i \in 1..Len(files[k].chunks) |-> files[k].chunks[i]]
  BY <1>4, ManifestFiles
<1>7. \A k \in DOMAIN files : \A i \in DOMAIN files[k].chunks :
        /\ files[k].chunks[i] + 1 \in DOMAIN records
        /\ records[files[k].chunks[i] + 1].plaintext = MinOf(Chunk, files[k].size - (i - 1) * Chunk)
  BY <1>2, <1>3 DEF LengthsMatch
<1>8. /\ \A i \in 1..Len(records) :
              /\ records[i].offset \in Nat /\ records[i].offset >= 1
              /\ records[i].plaintext \in Nat /\ records[i].plaintext >= 1
              /\ records[i].ciphertext \in Nat /\ records[i].ciphertext >= 1
              /\ records[i].ciphertext = records[i].plaintext + Tag
              /\ records[i].offset + records[i].ciphertext <= DataLength(records)
      /\ Len(records) # 0 => DataLength(records) =
              records[Len(records)].offset + records[Len(records)].ciphertext
  <2> HIDE DEF records
  <2> QED
    BY <1>3, <1>5, RecordBounds
<1> HIDE DEF records, files, data
<1>9. Consistent(records, data, files)
  BY <1>3, <1>5, <1>6, <1>7, <1>8 DEF Consistent
<1> QED
  BY <1>1, <1>2, <1>9 DEF records, files, data

\* The cells of a chunk.
LEMMA CellsOfChunk ==
  ASSUME NEW data, NEW record, record.offset \in Nat, record.ciphertext \in Nat
  PROVE  LET cells == Ciphertext(data, record) IN
         /\ Len(cells) = record.ciphertext /\ DOMAIN cells = 1..record.ciphertext
         /\ \A z \in 1..record.ciphertext : cells[z] = data[record.offset + z]
         /\ cells = [z \in 1..record.ciphertext |-> data[record.offset + z]]
<1>1. PICK m \in Nat, n \in Nat : m = record.offset /\ n = record.ciphertext
  OBVIOUS
<1> DEFINE S == {data[x] : x \in (m + 1)..(m + n)}
           cells == SubSeq(data, m + 1, m + n)
<1>2. m + 1 \in Int /\ m + n \in Int /\ \A x \in (m + 1)..(m + n) : data[x] \in S
  OBVIOUS
<1> HIDE DEF S
<1>3. /\ cells \in Seq(S)
      /\ Len(cells) = IF m + 1 <= m + n THEN m + n - (m + 1) + 1 ELSE 0
      /\ \A z \in 1..(m + n - (m + 1) + 1) : cells[z] = data[(m + 1) + z - 1]
  BY <1>2, SubSeqProperties
<1> HIDE DEF cells
<1>4. Len(cells) = n
  BY <1>3
<1>5. \A z \in 1..n : cells[z] = data[m + z]
  <2>1. m + n - (m + 1) + 1 = n /\ \A z \in 1..n : (m + 1) + z - 1 = m + z
    OBVIOUS
  <2> QED
    BY <1>3, <2>1
<1>6. DOMAIN cells = 1..n
  BY <1>3, <1>4
<1>7. cells = [z \in 1..n |-> data[m + z]]
  <2>1. cells = [z \in 1..n |-> cells[z]]
    BY <1>3, <1>6
  <2> QED
    BY <1>5, <2>1
<1>8. Ciphertext(data, record) = cells
  BY <1>1 DEF Ciphertext, cells
<1> QED
  BY <1>1, <1>4, <1>5, <1>6, <1>7, <1>8

\* The bytes of a container that was checked are not damaged where the data ends.
LEMMA DataIsWhole ==
  ASSUME NEW c, OfDirectories(c), NEW key, Readable(Bytes(c), key), DataMatches(Bytes(c), key)
  PROVE  c.harm # "data"
<1> SUFFICES ASSUME c.harm = "data" PROVE FALSE
  OBVIOUS
<1> DEFINE records == Bytes(c).index.plain
           files == Bytes(c).manifest.plain.files
           data == Bytes(c).data
           n == Len(records)
<1>1. Consistent(records, data, files)
  BY ReadableIsConsistent
<1>2. /\ Len(data) \in Nat /\ Len(data) >= 1 /\ DOMAIN data = 1..Len(data)
      /\ data[Len(data)] = Garbage
  BY StoredCells
<1>3. /\ data[1] = [count |-> n] /\ Len(data) = DataLength(records)
      /\ FlattenSeq([k \in DOMAIN files |-> files[k].chunks]) = [i \in 1..n |-> i - 1]
  BY DEF Readable, ValidManifest
<1>4. \A k \in DOMAIN files : \A i \in DOMAIN files[k].chunks :
        Decrypts(Ciphertext(data, records[files[k].chunks[i] + 1]), key, Bytes(c).header,
                 files[k].chunks[i], records[files[k].chunks[i] + 1].plaintext)
  BY DEF DataMatches
<1>5. n \in Nat /\ ValidRecords(records)
  BY <1>1 DEF Consistent, Readable
<1>6. n = 0 => DataLength(records) = 1
  <2>1. records = [i \in DOMAIN records |-> records[i]]
    BY ReadableIsConsistent, RecordsAreListed DEF OfDirectories
  <2>2. Len(records) \in Nat /\ DOMAIN records = 1..Len(records)
    BY <1>1 DEF Consistent
  <2> HIDE DEF records
  <2> QED
    BY <1>5, <2>1, <2>2, RecordBounds
<1> HIDE DEF records, files, data
<1>7. CASE n = 0
  <2>1. data[1] = Garbage
    BY <1>2, <1>3, <1>6, <1>7
  <2>2. [count |-> n] \in [count : Nat]
    BY <1>5
  <2> QED
    BY <1>3, <2>1, <2>2, ContainerAssumption
<1>8. CASE n # 0
  <2> DEFINE seqs == [k \in DOMAIN files |-> files[k].chunks]
  <2>1. /\ Len(files) \in Nat /\ DOMAIN files = 1..Len(files)
        /\ \A k \in 1..Len(files) :
             /\ Len(files[k].chunks) \in Nat /\ DOMAIN files[k].chunks = 1..Len(files[k].chunks)
             /\ files[k].chunks = [i \in 1..Len(files[k].chunks) |-> files[k].chunks[i]]
    BY <1>1 DEF Consistent
  <2> DEFINE V == {files[x].chunks[y] : x \in 1..Len(files), y \in Nat}
  <2>2. ASSUME NEW k \in 1..Len(files) PROVE files[k].chunks \in Seq(V)
    <3>0. PICK chunks : chunks = files[k].chunks
      OBVIOUS
    <3>1. PICK m \in Nat : chunks = files[k].chunks /\ m = Len(chunks)
      BY <2>1, <3>0
    <3>2. chunks = [i \in 1..m |-> chunks[i]]
      BY <2>1, <3>1
    <3>3. \A i \in 1..m : chunks[i] \in V
      <4>1. \A y \in 1..m : y \in Nat
        OBVIOUS
      <4>2. \A y \in Nat : files[k].chunks[y] \in V
        OBVIOUS
      <4> QED
        BY <3>1, <4>1, <4>2
    <3> HIDE DEF V
    <3>4. chunks \in [1..m -> V]
      BY <3>2, <3>3
    <3> QED
      BY <3>1, <3>4, ListIsSeq
  <2> HIDE DEF V
  <2>3. seqs \in [1..Len(files) -> Seq(V)]
    BY <2>1, <2>2
  <2>4. Len(seqs) = Len(files) /\ seqs \in Seq(Seq(V)) /\ \A k \in 1..Len(files) : seqs[k] = files[k].chunks
    <3>1. \A k \in 1..Len(files) : seqs[k] = files[k].chunks
      BY <2>1
    <3> HIDE DEF seqs
    <3> QED
      BY <2>1, <2>3, <3>1, ListIsSeq
  <2> HIDE DEF seqs
  <2>5. FlattenSeq(seqs) = [i \in 1..n |-> i - 1]
    BY <1>3 DEF seqs
  <2>6. Len(FlattenSeq(seqs)) = n /\ n \in 1..n /\ FlattenSeq(seqs)[n] = n - 1
    <3>1. [i \in 1..n |-> i - 1] \in [1..n -> Int]
      BY <1>5
    <3>2. Len([i \in 1..n |-> i - 1]) = n
      BY <1>5, <3>1, ListIsSeq
    <3> QED
      BY <1>5, <1>8, <2>5, <3>2
  <2>7. PICK k \in 1..Len(files) : \E i \in 1..Len(files[k].chunks) : n - 1 = files[k].chunks[i]
    <3>1. \E k \in 1..Len(seqs) : \E i \in 1..Len(seqs[k]) : FlattenSeq(seqs)[n] = seqs[k][i]
      BY <2>4, <2>6, JoinedFrom
    <3> QED
      BY <2>4, <2>6, <3>1
  <2>0. PICK i \in 1..Len(files[k].chunks) : n - 1 = files[k].chunks[i]
    BY <2>7
  <2>8. PICK record : record = records[n]
    OBVIOUS
  <2>9. /\ record.offset \in Nat /\ record.ciphertext \in Nat /\ record.ciphertext >= 1
        /\ Len(data) = record.offset + record.ciphertext
    BY <1>1, <1>8, <2>6, <2>8 DEF Consistent
  <2>10. \A z \in DOMAIN Ciphertext(data, record) : Ciphertext(data, record)[z] # Garbage
    <3>1. k \in DOMAIN files /\ i \in DOMAIN files[k].chunks /\ files[k].chunks[i] + 1 = n
      BY <1>5, <2>1, <2>0
    <3>2. records[files[k].chunks[i] + 1] = record
      BY <2>8, <3>1
    <3> QED
      BY <1>4, <3>1, <3>2 DEF Decrypts
  <2>11. PICK m \in Nat : m = record.ciphertext /\ m >= 1
    BY <2>9
  <2>12. m \in 1..m
    BY <2>11
  <2>13. Ciphertext(data, record)[m] = data[Len(data)] /\ m \in DOMAIN Ciphertext(data, record)
    BY <2>9, <2>11, <2>12, CellsOfChunk
  <2> QED
    BY <1>2, <2>10, <2>13
<1> QED
  BY <1>7, <1>8

-------------------------------------------------------------------------------
(* What a read answers *)

\* The cells of a chunk of a file, where they are now, and what they say.
ChunkOf(c, k, i) == Bytes(c).manifest.plain.files[k].chunks[i]
RecordOf(c, k, i) == Bytes(c).index.plain[ChunkOf(c, k, i) + 1]
CellsOf(c, now, k, i) == Ciphertext(Bytes(now).data, RecordOf(c, k, i))
PlainOf(c, now, k, i) == CellsOf(c, now, k, i)[1].seal.plain
SoundAt(c, now, key, k, i) ==
  Decrypts(CellsOf(c, now, k, i), key, Bytes(c).header, ChunkOf(c, k, i), RecordOf(c, k, i).plaintext)
ChunksOf(c, k) == Len(Bytes(c).manifest.plain.files[k].chunks)

\* A container all of whose chunks decrypt and hash to what was planned.
Checked(c, key) == OfDirectories(c) /\ Readable(Bytes(c), key) /\ DataMatches(Bytes(c), key)

\* The plaintexts of the chunks of a file are the pieces of what was planned.
LEMMA PlainsOfFile ==
  ASSUME NEW c, NEW key, Checked(c, key), NEW k \in DOMAIN Bytes(c).manifest.plain.files,
         NEW bytes \in Seq(Nat), Bytes(c).manifest.plain.files[k].hash = bytes,
         Bytes(c).manifest.plain.files[k].size = Len(bytes)
  PROVE  /\ ChunksOf(c, k) \in Nat
         /\ Plains([i \in 1..ChunksOf(c, k) |-> PlainOf(c, c, k, i)], bytes)
         /\ \A i \in 1..ChunksOf(c, k) : SoundAt(c, c, key, k, i)
<1> DEFINE records == Bytes(c).index.plain
           files == Bytes(c).manifest.plain.files
           data == Bytes(c).data
           m == ChunksOf(c, k)
           plains == [i \in 1..m |-> PlainOf(c, c, k, i)]
<1>1. Consistent(records, data, files)
  BY ReadableIsConsistent DEF Checked
<1>2. /\ Len(data) \in Nat
      /\ \A x \in 2..Len(data) : data[x] = Garbage \/ data[x].seal.plain \in Seq(Nat)
  BY StoredCells DEF Checked
<1>3. /\ \A i \in DOMAIN files[k].chunks : SoundAt(c, c, key, k, i)
      /\ FlattenSeq([i \in DOMAIN files[k].chunks |-> PlainOf(c, c, k, i)]) = files[k].hash
  BY DEF Checked, DataMatches, SoundAt, PlainOf, CellsOf, RecordOf, ChunkOf
<1>4. /\ m \in Nat /\ DOMAIN files[k].chunks = 1..m
      /\ m = (Len(bytes) + Chunk - 1) \div Chunk
      /\ \A i \in 1..m :
           /\ ChunkOf(c, k, i) + 1 \in 1..Len(records)
           /\ RecordOf(c, k, i).plaintext = MinOf(Chunk, Len(bytes) - (i - 1) * Chunk)
  <2>1. k \in 1..Len(files)
    BY <1>1 DEF Consistent
  <2> QED
    BY <1>1, <2>1 DEF Consistent, ChunksOf, ChunkOf, RecordOf
<1>5. \A r \in 1..Len(records) :
        /\ records[r].offset \in Nat /\ records[r].offset >= 1
        /\ records[r].ciphertext \in Nat /\ records[r].ciphertext >= 1
        /\ records[r].offset + records[r].ciphertext <= Len(data)
  BY <1>1 DEF Consistent
<1> HIDE DEF records, files, data, m
<1>6. ASSUME NEW i \in 1..m
      PROVE  /\ PlainOf(c, c, k, i) \in Seq(Nat)
             /\ Len(PlainOf(c, c, k, i)) = MinOf(Chunk, Len(bytes) - (i - 1) * Chunk)
  <2>1. PICK record : record = RecordOf(c, k, i)
    OBVIOUS
  <2>2. SoundAt(c, c, key, k, i)
    BY <1>3, <1>4
  <2>3. /\ \A z \in DOMAIN CellsOf(c, c, k, i) : CellsOf(c, c, k, i)[z] # Garbage
        /\ Len(PlainOf(c, c, k, i)) = record.plaintext
    BY <2>1, <2>2 DEF SoundAt, Decrypts, PlainOf
  <2>4. /\ record.offset \in Nat /\ record.offset >= 1
        /\ record.ciphertext \in Nat /\ record.ciphertext >= 1
        /\ record.offset + record.ciphertext <= Len(data)
    <3>1. PICK r \in 1..Len(records) : r = ChunkOf(c, k, i) + 1
      BY <1>4
    <3>2. record = records[r]
      BY <2>1, <3>1 DEF RecordOf, records
    <3> QED
      BY <1>5, <3>2
  <2>5. CellsOf(c, c, k, i)[1] = data[record.offset + 1] /\ 1 \in DOMAIN CellsOf(c, c, k, i)
    <3>1. PICK w \in Nat : w = record.ciphertext /\ w >= 1
      BY <2>4
    <3>2. 1 \in 1..w
      BY <3>1
    <3> QED
      BY <2>1, <2>4, <3>1, <3>2, CellsOfChunk DEF CellsOf, data
  <2>6. record.offset + 1 \in 2..Len(data)
    <3>1. PICK o \in Nat, w \in Nat : o = record.offset /\ w = record.ciphertext
      BY <2>4
    <3> QED
      BY <1>2, <2>4, <3>1
  <2>7. data[record.offset + 1] # Garbage
    BY <2>3, <2>5
  <2>8. data[record.offset + 1].seal.plain \in Seq(Nat)
    BY <1>2, <2>6, <2>7
  <2>9. PlainOf(c, c, k, i) \in Seq(Nat)
    BY <2>5, <2>8 DEF PlainOf
  <2> QED
    BY <1>4, <2>1, <2>3, <2>9
<1>7. plains \in Seq(Seq(Nat)) /\ Len(plains) = m /\ \A i \in 1..m : plains[i] = PlainOf(c, c, k, i)
  <2>1. plains \in [1..m -> Seq(Nat)] /\ \A i \in 1..m : plains[i] = PlainOf(c, c, k, i)
    BY <1>6
  <2> HIDE DEF plains
  <2>2. m \in Nat
    BY <1>4
  <2>3. plains \in Seq(Seq(Nat)) /\ Len(plains) = m
    BY <2>1, <2>2, ListIsSeq
  <2> QED
    BY <2>1, <2>3
<1>8. FlattenSeq(plains) = bytes
  BY <1>3, <1>4 DEF files
<1> HIDE DEF plains
<1>9. Plains(plains, bytes)
  <2>1. \A i \in 1..Len(plains) : Len(plains[i]) = MinOf(Chunk, Len(bytes) - (i - 1) * Chunk)
    BY <1>6, <1>7
  <2>2. Len(plains) = (Len(bytes) + Chunk - 1) \div Chunk
    BY <1>4, <1>7
  <2> QED
    BY <1>7, <1>8, <2>1, <2>2 DEF Plains
<1> QED
  BY <1>3, <1>4, <1>9 DEF plains, m, files

\* A chunk that decrypts is as it was.
LEMMA SoundIsAsItWas ==
  ASSUME NEW c, NEW now, NEW key, Checked(c, key), Worn(c, now),
         NEW k \in DOMAIN Bytes(c).manifest.plain.files, NEW i \in 1..ChunksOf(c, k),
         SoundAt(c, now, key, k, i)
  PROVE  CellsOf(c, now, k, i) = CellsOf(c, c, k, i)
<1> DEFINE records == Bytes(c).index.plain
           files == Bytes(c).manifest.plain.files
           data == Bytes(c).data
           later == Bytes(now).data
<1>1. Consistent(records, data, files)
  BY ReadableIsConsistent DEF Checked
<1>2. data = Stored(c) /\ Len(data) \in Nat
  BY DataIsWhole, StoredCells DEF Checked
<1>3. Stored(now) = data
  BY <1>2 DEF Stored, Worn
<1>4. Len(later) = Len(data) /\ \A x \in 1..Len(later) : later[x] \in {data[x], Garbage}
  <2>1. OfDirectories(now)
    BY DEF Checked, OfDirectories, Worn
  <2> QED
    BY <1>3, <2>1, StoredCells
<1> HIDE DEF data, later
<1>5. PICK record : record = RecordOf(c, k, i)
  OBVIOUS
<1>6. PICK o \in Nat, w \in Nat : o = record.offset /\ w = record.ciphertext /\ o + w <= Len(data)
  <2>1. k \in 1..Len(files)
    BY <1>1 DEF Consistent
  <2>2. ChunkOf(c, k, i) + 1 \in 1..Len(records)
    BY <1>1, <2>1 DEF Consistent, ChunksOf, ChunkOf
  <2>3. PICK r \in 1..Len(records) : r = ChunkOf(c, k, i) + 1
    BY <2>2
  <2>4. record = records[r]
    BY <1>5, <2>3 DEF RecordOf
  <2>5. /\ records[r].offset \in Nat /\ records[r].ciphertext \in Nat
        /\ records[r].offset + records[r].ciphertext <= Len(data)
    BY <1>1 DEF Consistent
  <2> QED
    BY <2>4, <2>5
<1>7. /\ CellsOf(c, now, k, i) = [z \in 1..w |-> later[o + z]]
      /\ CellsOf(c, c, k, i) = [z \in 1..w |-> data[o + z]]
  <2>1. record.offset \in Nat /\ record.ciphertext \in Nat
    BY <1>6
  <2>2. /\ Ciphertext(later, record) = [z \in 1..record.ciphertext |-> later[record.offset + z]]
        /\ Ciphertext(data, record) = [z \in 1..record.ciphertext |-> data[record.offset + z]]
    BY <2>1, CellsOfChunk
  <2>3. CellsOf(c, now, k, i) = Ciphertext(later, record) /\ CellsOf(c, c, k, i) = Ciphertext(data, record)
    BY <1>5 DEF CellsOf, later, data
  <2> QED
    BY <1>6, <2>2, <2>3
<1>8. \A z \in 1..w : later[o + z] # Garbage
  <2>1. \A z \in DOMAIN CellsOf(c, now, k, i) : CellsOf(c, now, k, i)[z] # Garbage
    BY DEF SoundAt, Decrypts
  <2>2. PICK cells : cells = CellsOf(c, now, k, i)
    OBVIOUS
  <2>3. cells = [z \in 1..w |-> later[o + z]] /\ \A z \in DOMAIN cells : cells[z] # Garbage
    BY <1>7, <2>1, <2>2
  <2>4. ASSUME NEW z \in 1..w PROVE later[o + z] # Garbage
    <3>1. z \in DOMAIN cells /\ cells[z] = later[o + z]
      BY <2>3
    <3> QED
      BY <2>3, <3>1
  <2> QED
    BY <2>4
<1>9. \A z \in 1..w : later[o + z] = data[o + z]
  <2>1. \A z \in 1..w : o + z \in 1..Len(later)
    BY <1>2, <1>4, <1>6
  <2> QED
    BY <1>4, <1>8, <2>1
<1> QED
  BY <1>7, <1>9

\* What a read of a range of a file does, chunk by chunk.
LEMMA RangeByChunks ==
  ASSUME NEW c, NEW now, NEW key, NEW k, NEW offset, NEW length
  PROVE  LET end == offset + length
             f == FirstOf(offset)
             n == CountOf(offset, end)
         IN ReadFileRange(c, now, key, k, offset, length) =
              IF length > MaxRead \/ end > Bytes(c).manifest.plain.files[k].size THEN Refused
                ELSE IF length = 0 THEN <<>>
                ELSE IF ~(\A i \in 1..n : SoundAt(c, now, key, k, f + i)) THEN Refused
                ELSE FlattenSeq([i \in 1..n |-> Slice(PlainOf(c, now, k, f + i), f + i - 1, offset, end)])
<1> DEFINE end == offset + length
           f == FirstOf(offset)
           n == CountOf(offset, end)
           file == Bytes(c).manifest.plain.files[k]
           records == Bytes(c).index.plain
           chunks == [i \in 1..n |-> file.chunks[f + i]]
           Of(i) == Ciphertext(Bytes(now).data, records[chunks[i] + 1])
<1>1. \A i \in 1..n : chunks[i] = ChunkOf(c, k, f + i)
  BY DEF ChunkOf
<1>2. DOMAIN chunks = 1..n
  OBVIOUS
<1>3. \A i \in 1..n :
        /\ Decrypts(Of(i), key, Bytes(c).header, chunks[i], records[chunks[i] + 1].plaintext)
             <=> SoundAt(c, now, key, k, f + i)
        /\ Of(i)[1].seal.plain = PlainOf(c, now, k, f + i)
  <2> HIDE DEF n
  <2> QED
    BY <1>1 DEF SoundAt, PlainOf, CellsOf, RecordOf
<1>4. ReadFileRange(c, now, key, k, offset, length) =
        IF length > MaxRead \/ end > file.size THEN Refused
          ELSE IF length = 0 THEN <<>>
          ELSE IF ~(\A i \in DOMAIN chunks :
                      Decrypts(Of(i), key, Bytes(c).header, chunks[i], records[chunks[i] + 1].plaintext))
                 THEN Refused
          ELSE FlattenSeq([i \in DOMAIN chunks |-> Slice(Of(i)[1].seal.plain, f + i - 1, offset, end)])
  BY DEF ReadFileRange, FirstOf, CountOf
<1>5. [i \in 1..n |-> Slice(Of(i)[1].seal.plain, f + i - 1, offset, end)]
        = [i \in 1..n |-> Slice(PlainOf(c, now, k, f + i), f + i - 1, offset, end)]
  <2> HIDE DEF n, Of, f, end
  <2> QED
    BY <1>3
<1> HIDE DEF n, chunks, Of, f, file
<1>6. (\A i \in DOMAIN chunks :
         Decrypts(Of(i), key, Bytes(c).header, chunks[i], records[chunks[i] + 1].plaintext))
        <=> \A i \in 1..n : SoundAt(c, now, key, k, f + i)
  BY <1>2, <1>3
<1> QED
  BY <1>2, <1>4, <1>5, <1>6 DEF n, f, file

\* What a range of bytes may be answered with: a refusal when it is too long or
\* ends after them, and the range or, of what is not whole, a refusal.
RangeAnswer(answer, whole, bytes, offset, length) ==
  LET range == SubSeq(bytes, offset + 1, offset + length) IN
  IF length > MaxRead \/ offset + length > Len(bytes) THEN answer = Refused
    ELSE /\ answer \in {range, Refused}
         /\ whole => answer = range

\* What a read of a checked container answers is the range of the file, and while
\* the container is whole nothing else.
LEMMA RangeRead ==
  ASSUME NEW c, NEW now, NEW key, Checked(c, key), Worn(c, now),
         NEW k \in DOMAIN Bytes(c).manifest.plain.files,
         NEW bytes \in Seq(Nat), Bytes(c).manifest.plain.files[k].hash = bytes,
         Bytes(c).manifest.plain.files[k].size = Len(bytes),
         NEW offset \in Nat, NEW length \in Nat
  PROVE  RangeAnswer(ReadFileRange(c, now, key, k, offset, length), now = c, bytes, offset, length)
<1> DEFINE end == offset + length
           f == FirstOf(offset)
           n == CountOf(offset, end)
           answer == ReadFileRange(c, now, key, k, offset, length)
           joined == FlattenSeq([i \in 1..n |-> Slice(PlainOf(c, now, k, f + i), f + i - 1, offset, end)])
           Whole == \A i \in 1..n : SoundAt(c, now, key, k, f + i)
<1>1. answer = IF length > MaxRead \/ end > Len(bytes) THEN Refused
                ELSE IF length = 0 THEN <<>>
                ELSE IF ~Whole THEN Refused ELSE joined
  BY RangeByChunks
<1>2. Len(bytes) \in Nat /\ end \in Nat /\ MaxRead \in Nat
  BY ContainerAssumption
<1> HIDE DEF answer, joined, Whole
<1>3. CASE length > MaxRead \/ end > Len(bytes)
  BY <1>1, <1>3 DEF answer, RangeAnswer
<1>4. CASE ~(length > MaxRead \/ end > Len(bytes)) /\ length = 0
  <2>1. SubSeq(bytes, offset + 1, end) = <<>>
    <3>1. offset + 1 \in Int /\ end \in Int /\ end < offset + 1
      BY <1>4
    <3> QED
      BY <3>1, SubSeqEmpty
  <2> QED
    BY <1>1, <1>4, <2>1 DEF answer, RangeAnswer
<1>5. CASE ~(length > MaxRead \/ end > Len(bytes)) /\ length # 0
  <2> DEFINE plains == [i \in 1..ChunksOf(c, k) |-> PlainOf(c, c, k, i)]
  <2>1. /\ ChunksOf(c, k) \in Nat /\ Plains(plains, bytes)
        /\ \A i \in 1..ChunksOf(c, k) : SoundAt(c, c, key, k, i)
    BY PlainsOfFile
  <2>2. offset < end /\ end <= Len(bytes)
    BY <1>2, <1>5
  <2>3. Len(plains) = ChunksOf(c, k) /\ \A i \in 1..ChunksOf(c, k) : plains[i] = PlainOf(c, c, k, i)
    <3>1. \A i \in 1..ChunksOf(c, k) : plains[i] = PlainOf(c, c, k, i)
      OBVIOUS
    <3>2. DOMAIN plains = 1..ChunksOf(c, k)
      OBVIOUS
    <3> HIDE DEF plains
    <3>3. plains \in Seq(Seq(Nat))
      BY <2>1 DEF Plains
    <3>4. 1..Len(plains) = 1..ChunksOf(c, k) /\ Len(plains) \in Nat
      BY <3>2, <3>3
    <3>5. Len(plains) = ChunksOf(c, k)
      <4>1. PICK x \in Nat, y \in Nat : x = Len(plains) /\ y = ChunksOf(c, k)
        BY <2>1, <3>4
      <4>2. 1..x = 1..y
        BY <3>4, <4>1
      <4>3. x = y
        <5>1. x # 0 => x \in 1..y
          BY <4>2
        <5>2. y # 0 => y \in 1..x
          BY <4>2
        <5> QED
          BY <5>1, <5>2
      <4> QED
        BY <4>1, <4>3
    <3> QED
      BY <3>1, <3>5
  <2> HIDE DEF plains
  <2>4. /\ \A i \in 1..n : f + i \in 1..Len(plains)
        /\ FlattenSeq([i \in 1..n |-> Slice(plains[f + i], f + i - 1, offset, end)])
             = SubSeq(bytes, offset + 1, end)
    <3>1. PICK e \in Nat : e = end
      BY <1>2
    <3>2. Plains(plains, bytes) /\ offset < e /\ e <= Len(bytes)
      BY <2>1, <2>2, <3>1
    <3>3. SlicesMeet(plains, bytes, offset, e)
      BY <3>2, SlicesJoin
    <3> QED
      BY <3>1, <3>3 DEF SlicesMeet
  <2> HIDE DEF n, f, end
  <2>5. Whole => joined = SubSeq(bytes, offset + 1, end)
    <3> SUFFICES ASSUME Whole PROVE joined = SubSeq(bytes, offset + 1, end)
      OBVIOUS
    <3>1. ASSUME NEW i \in 1..n PROVE PlainOf(c, now, k, f + i) = plains[f + i]
      <4>1. PICK x \in 1..ChunksOf(c, k) : x = f + i
        BY <2>3, <2>4
      <4>2. SoundAt(c, now, key, k, x)
        BY <4>1 DEF Whole
      <4>3. CellsOf(c, now, k, x) = CellsOf(c, c, k, x)
        BY <4>2, SoundIsAsItWas
      <4>4. PlainOf(c, now, k, x) = PlainOf(c, c, k, x)
        BY <4>3 DEF PlainOf
      <4> QED
        BY <2>3, <4>1, <4>4
    <3>2. [i \in 1..n |-> Slice(PlainOf(c, now, k, f + i), f + i - 1, offset, end)]
            = [i \in 1..n |-> Slice(plains[f + i], f + i - 1, offset, end)]
      BY <3>1
    <3> QED
      BY <2>4, <3>2 DEF joined
  <2>6. now = c => Whole
    BY <2>1, <2>3, <2>4 DEF Whole
  <2> QED
    BY <1>1, <1>5, <2>5, <2>6 DEF answer, end, RangeAnswer
<1> QED
  BY <1>3, <1>4, <1>5 DEF answer

\* A whole file is what was planned or a refusal, and while the container is
\* whole nothing else.
LEMMA CompleteRead ==
  ASSUME NEW c, NEW now, NEW key, Checked(c, key), Worn(c, now),
         NEW k \in DOMAIN Bytes(c).manifest.plain.files,
         NEW bytes \in Seq(Nat), Bytes(c).manifest.plain.files[k].hash = bytes,
         Bytes(c).manifest.plain.files[k].size = Len(bytes)
  PROVE  /\ ReadCompleteFile(c, now, key, k) \in {bytes, Refused}
         /\ now = c => ReadCompleteFile(c, now, key, k) = bytes
<1> DEFINE size == Len(bytes)
           n == (size + MaxRead - 1) \div MaxRead
           windows == [w \in 1..n |-> ReadFileRange(c, now, key, k, (w - 1) * MaxRead, Window(size, w))]
           parts == [w \in 1..n |-> SubSeq(bytes, (w - 1) * MaxRead + 1,
                                                  (w - 1) * MaxRead + Window(size, w))]
<1>1. ReadCompleteFile(c, now, key, k) =
        IF \E w \in DOMAIN windows : windows[w] = Refused THEN Refused
          ELSE IF FlattenSeq(windows) = bytes THEN bytes ELSE Refused
  BY DEF ReadCompleteFile, Window
<1>2. /\ n \in Nat
      /\ \A w \in 1..n : /\ (w - 1) * MaxRead \in Nat /\ Window(size, w) \in Nat
                         /\ Window(size, w) <= MaxRead
                         /\ (w - 1) * MaxRead + Window(size, w) <= size
      /\ FlattenSeq(parts) = bytes
  BY WindowsJoin
<1>3. ASSUME now = c, NEW w \in 1..n PROVE windows[w] = parts[w] /\ windows[w] # Refused
  <2>0. /\ (w - 1) * MaxRead \in Nat /\ Window(size, w) \in Nat
        /\ Window(size, w) <= MaxRead
        /\ (w - 1) * MaxRead + Window(size, w) <= size
    <3> HIDE DEF n, size
    <3> QED
      BY <1>2
  <2>1. PICK offset \in Nat, length \in Nat : offset = (w - 1) * MaxRead /\ length = Window(size, w)
    BY <2>0
  <2>2. ~(length > MaxRead \/ offset + length > Len(bytes))
    <3>1. length <= MaxRead /\ offset + length <= size
      BY <2>0, <2>1
    <3>2. MaxRead \in Nat /\ size \in Nat
      BY ContainerAssumption
    <3> HIDE DEF size
    <3>3. ~(length > MaxRead) /\ ~(offset + length > size)
      BY <3>1, <3>2
    <3> QED
      BY <3>3 DEF size
  <2>3. ReadFileRange(c, now, key, k, offset, length) = SubSeq(bytes, offset + 1, offset + length)
    <3>1. RangeAnswer(ReadFileRange(c, now, key, k, offset, length), now = c, bytes, offset, length)
      BY RangeRead
    <3> QED
      BY <1>3, <2>2, <3>1 DEF RangeAnswer
  <2>4. windows[w] = SubSeq(bytes, offset + 1, offset + length) /\ parts[w] = windows[w]
    BY <2>1, <2>3
  <2>5. SubSeq(bytes, offset + 1, offset + length) \in Seq(Nat)
    <3>1. PICK e \in Nat : e = offset + length /\ offset <= e
      OBVIOUS
    <3>2. e <= Len(bytes)
      BY <2>2, <3>1
    <3> QED
      BY <3>1, <3>2, Part
  <2> QED
    BY <2>4, <2>5, ContainerAssumption
<1>4. now = c => windows = parts
  <2> SUFFICES ASSUME now = c PROVE windows = parts
    OBVIOUS
  <2>1. \A w \in 1..n : windows[w] = parts[w]
    BY <1>3
  <2> HIDE DEF n
  <2> QED
    BY <2>1
<1>5. DOMAIN windows = 1..n
  OBVIOUS
<1> HIDE DEF windows, parts, n, size
<1> QED
  BY <1>1, <1>2, <1>3, <1>4, <1>5

-------------------------------------------------------------------------------
(* Type correctness *)

\* None is nothing that a variable holds.
LEMMA NoneIsNothing ==
  /\ None \notin Builds /\ None \notin DOMAIN Directories
  /\ None \notin Contents /\ None \notin Files /\ None \notin Plans
  /\ None \notin Sightings /\ None \notin Signatures
  /\ Garbage \notin Contents
  BY BuilderAssumption

\* The types of the variables, and that what a process has got to is there.
Parents == Active \cup {"idle", "returned", "failed", "gone"}
Children == Running \cup {"none", "failed", "dead", "completed"}
PathType == /\ metadata \in Builds \cup {None} /\ pending \in Builds \cup {None}
            /\ output \in Builds \cup {None}
SourceType == source \in [Builds -> DOMAIN Directories \cup {None}]
DiskType == disk \in [Builds -> Files \cup {None}]
ParentType == parent \in [Builds -> Parents]
ApiType == /\ stopped \in [Builds -> BOOLEAN]
           /\ handler \in [Builds -> {"none", "verifying", "done"}]
           /\ verifier \in [Builds -> {"off", "opening", "digesting", "passed", "refused"}]
           /\ seen \in [Builds -> Sightings \cup {None}]
           /\ signed \in [Builds -> Signatures \cup {None}]
ChildType == /\ child \in [Builds -> Children]
             /\ plan \in [Builds -> Plans \cup {None}]
             /\ digest \in [Builds -> Contents \cup {None}]
             /\ told \in [Builds -> Files \cup {None}]
Has == \A b \in Builds :
         /\ child[b] \in {"framed", "appended", "checked", "linked", "completed"} => digest[b] # None
         /\ child[b] \in {"checked", "linked", "completed"} => told[b] # None
Saw == \A b \in Builds : verifier[b] \in {"digesting", "passed"} => seen[b] # None

\* Together they are the type invariant.
LEMMA TypeParts ==
  /\ BuilderTypeOK <=> /\ PathType /\ SourceType /\ DiskType /\ ParentType /\ ApiType
                       /\ ChildType /\ Has /\ Saw /\ faults \in 0..MaxFaults
  /\ BuilderTypeOK' <=> /\ PathType' /\ SourceType' /\ DiskType' /\ ParentType' /\ ApiType'
                        /\ ChildType' /\ Has' /\ Saw' /\ faults' \in 0..MaxFaults
  BY DEF BuilderTypeOK, PathType, SourceType, DiskType, ParentType, Parents, ApiType, ChildType,
         Children, Has, Saw

\* What is untouched stays in its type.
LEMMA TypeFrom ==
  ASSUME BuilderTypeOK,
         UNCHANGED pathVars \/ PathType', source' = source \/ SourceType',
         disk' = disk \/ DiskType', parent' = parent \/ ParentType',
         UNCHANGED <<stopped, handler, verifier, seen, signed>> \/ (ApiType' /\ Saw'),
         UNCHANGED childVars \/ (ChildType' /\ Has'),
         faults' = faults \/ Fault
  PROVE  BuilderTypeOK'
<1>1. faults' \in 0..MaxFaults
  BY BuilderAssumption, TypeParts DEF Fault
<1> QED
  BY <1>1, TypeParts DEF PathType, SourceType, DiskType, ParentType, ApiType, ChildType,
     Has, Saw, pathVars, childVars

\* A content is a record of its fields.
LEMMA ContentFields ==
  ASSUME NEW c \in Contents
  PROVE  /\ c.key \in Builds /\ c.header \in Builds /\ c.planned \in DOMAIN Directories
         /\ c.streamed \in DOMAIN Directories
  BY DEF Contents

\* A child's error takes names away, and writes nothing.
LEMMA FailsType ==
  ASSUME BuilderTypeOK, NEW b \in Builds, Fails(b), UNCHANGED <<source, metadata, apiVars>>,
         faults' = faults \/ Fault
  PROVE  BuilderTypeOK'
<1>1. PathType'
  BY TypeParts DEF Fails, PathType
<1>2. ChildType' /\ Has'
  BY TypeParts DEF Fails, ChildType, Children, Has
<1> QED
  BY <1>1, <1>2, TypeFrom DEF Fails, apiVars

\* What is written is a file.
LEMMA FilesWritten ==
  /\ \A c \in Contents : Unsigned(c) \in Files
  /\ \A f \in Files, c \in Contents \cup {Garbage} : [f EXCEPT !.signature = c] \in Files
  /\ \A f \in Files : f.content \in Contents
<1>1. \A c \in Contents : Unsigned(c) \in Files
  BY DEF Unsigned, Files
<1>2. ASSUME NEW f \in Files, NEW c \in Contents \cup {Garbage}
      PROVE  [f EXCEPT !.signature = c] \in Files
  BY DEF Files
<1>3. \A f \in Files : f.content \in Contents
  BY DEF Files
<1> QED
  BY <1>1, <1>2, <1>3

\* The child writes its own content.
LEMMA ContentType ==
  ASSUME BuilderTypeOK, NEW b \in Builds, plan[b] # None, NEW d \in DOMAIN Directories,
         NEW harm \in {"none", "cut"}
  PROVE  Content(b, d, harm) \in Contents
<1>1. plan[b] \in Plans
  BY TypeParts DEF ChildType
<1> QED
  BY <1>1 DEF Content, Contents, Plans

\* The child's steps keep the types.
LEMMA ChildKeepsType ==
  ASSUME BuilderTypeOK, ProcessInv, FilesInv, NEW b \in Builds, Child(b)
  PROVE  BuilderTypeOK'
<1>1. SUFFICES ASSUME ~Fails(b) PROVE BuilderTypeOK'
  BY FailsType DEF Child, Prepare, CreatePending, Stream, ReportDigest, AcceptSignature,
     EndOfInput, CheckFinalized, LinkOutput, RemovePending, ChildUnchanged
<1>2. CASE Prepare(b)
  <2>1. source[b] \in DOMAIN Directories /\ metadata \in Builds
    BY <1>1, <1>2, TypeParts DEF Prepare, CanPack, SourceType, PathType
  <2>2. [directory |-> source[b], header |-> metadata] \in Plans
    BY <2>1 DEF Plans
  <2>3. ChildType' /\ Has'
    BY <1>1, <1>2, <2>2, TypeParts DEF Prepare, Steps, ChildType, Children, Running, Has
  <2> QED
    BY <1>1, <1>2, <2>3, TypeFrom DEF Prepare, ChildUnchanged, apiVars, pathVars
<1>3. CASE CreatePending(b)
  <2>1. plan[b] # None /\ plan[b] \in Plans
    BY <1>3, TypeParts DEF CreatePending, ProcessInv, Running, ChildType
  <2>2. plan[b].directory \in DOMAIN Directories
    BY <2>1 DEF Plans
  <2>3. Unsigned(Content(b, plan[b].directory, "cut")) \in Files
    BY <2>1, <2>2, ContentType, FilesWritten
  <2>4. DiskType'
    BY <1>1, <1>3, <2>3, TypeParts DEF CreatePending, DiskType
  <2>5. ChildType' /\ Has' /\ PathType'
    BY <1>1, <1>3, TypeParts
       DEF CreatePending, Steps, ChildType, Children, Running, Has, PathType, ChildUnchanged
  <2> QED
    BY <1>1, <1>3, <2>4, <2>5, TypeFrom DEF CreatePending, ChildUnchanged, apiVars
<1>4. CASE Stream(b)
  <2>1. plan[b] # None
    BY <1>4 DEF Stream, ProcessInv, Running
  <2>2. source[b] \in DOMAIN Directories
    BY <1>1, <1>4, TypeParts DEF Stream, CanPack, SourceType
  <2>3. Unsigned(Content(b, source[b], "none")) \in Files
    BY <2>1, <2>2, ContentType, FilesWritten
  <2>4. DiskType'
    BY <1>1, <1>4, <2>3, TypeParts DEF Stream, DiskType
  <2>5. ChildType' /\ Has'
    BY <1>1, <1>4, TypeParts DEF Stream, Steps, ChildType, Children, Running, Has
  <2> QED
    BY <1>1, <1>4, <2>4, <2>5, TypeFrom DEF Stream, ChildUnchanged, apiVars, pathVars
<1>5. CASE ReportDigest(b)
  <2>1. pending \in Builds /\ disk[pending] \in Files
    BY <1>1, <1>5, TypeParts DEF ReportDigest, TakesDigest, PathType, DiskType, FilesInv
  <2>2. disk[pending].content \in Contents /\ disk[pending].content # None
    BY <2>1, FilesWritten, NoneIsNothing
  <2>3. ChildType' /\ Has'
    BY <1>1, <1>5, <2>2, TypeParts DEF ReportDigest, Steps, ChildType, Children, Running, Has
  <2> QED
    BY <1>1, <1>5, <2>3, TypeFrom DEF ReportDigest, ChildUnchanged, apiVars, pathVars
<1>6. CASE AcceptSignature(b)
  <2>1. pending \in Builds /\ disk[pending] \in Files
    BY <1>1, <1>6, TypeParts DEF AcceptSignature, TakesDigest, PathType, DiskType, FilesInv
  <2>2. signed[b].digest \in Contents
    BY <1>6, TypeParts DEF AcceptSignature, ApiType, Signatures
  <2>3. [disk[pending] EXCEPT !.signature = signed[b].digest] \in Files
    BY <2>1, <2>2, FilesWritten
  <2>4. DiskType'
    BY <1>1, <1>6, <2>1, <2>3, TypeParts DEF AcceptSignature, DiskType
  <2>5. ChildType' /\ Has'
    BY <1>1, <1>6, TypeParts DEF AcceptSignature, Steps, ChildType, Children, Running, Has
  <2> QED
    BY <1>1, <1>6, <2>4, <2>5, TypeFrom DEF AcceptSignature, ChildUnchanged, apiVars, pathVars
<1>7. CASE CheckFinalized(b)
  <2>1. digest[b] # None
    BY <1>7, TypeParts DEF CheckFinalized, Has
  <2>2. digest[b].key \in Builds
    BY <2>1, TypeParts, ContentFields DEF ChildType
  <2>3. pending \in Builds
    BY <1>1, <1>7, <2>2 DEF CheckFinalized, Identity
  <2>4. disk[pending] # None
    BY <2>3, NoneIsNothing DEF FilesInv
  <2>5. FileAt(pending) \in Files /\ FileAt(pending) # None
    BY <2>3, <2>4, TypeParts DEF FileAt, DiskType
  <2>6. ChildType' /\ Has'
    BY <1>1, <1>7, <2>1, <2>5, TypeParts
       DEF CheckFinalized, Steps, ChildType, Children, Running, Has
  <2> QED
    BY <1>1, <1>7, <2>6, TypeFrom DEF CheckFinalized, ChildUnchanged, apiVars, pathVars
<1>8. CASE LinkOutput(b) \/ RemovePending(b)
  <2>1. ChildType' /\ Has' /\ PathType'
    BY <1>1, <1>8, TypeParts DEF LinkOutput, RemovePending, Steps, ChildType, Children, Running,
       Has, PathType, ChildUnchanged
  <2> QED
    BY <1>1, <1>8, <2>1, TypeFrom DEF LinkOutput, RemovePending, ChildUnchanged, apiVars
<1> QED
  BY <1>1, <1>2, <1>3, <1>4, <1>5, <1>6, <1>7, <1>8 DEF Child, EndOfInput

\* The verifier's steps keep the types.
LEMMA VerifierKeepsType ==
  ASSUME BuilderTypeOK, FilesInv, NEW b \in Builds, VerifyPending(b) \/ VerifyDigest(b)
  PROVE  BuilderTypeOK'
<1>1. ApiType' /\ Saw'
  <2>1. CASE VerifyPending(b) /\ verifier' = [verifier EXCEPT ![b] = "digesting"]
    <3>0. verifier' # [verifier EXCEPT ![b] = "refused"]
      BY <2>1, TypeParts DEF ApiType
    <3>1. /\ seen' = [seen EXCEPT ![b] = [directory |-> source[b], file |-> pending, digest |-> None]]
          /\ verifier' = [verifier EXCEPT ![b] = "digesting"]
          /\ source[b] \in DOMAIN Directories /\ pending \in Builds
      BY <2>1, <3>0, TypeParts DEF VerifyPending, SourceType, PathType
    <3>2. [directory |-> source[b], file |-> pending, digest |-> None] \in Sightings
      BY <3>1 DEF Sightings
    <3> QED
      BY <2>1, <3>1, <3>2, TypeParts, NoneIsNothing DEF VerifyPending, ApiType, Saw
  <2>2. CASE VerifyDigest(b) /\ verifier' = [verifier EXCEPT ![b] = "passed"]
    <3>0. verifier' # [verifier EXCEPT ![b] = "refused"]
      BY <2>2, TypeParts DEF ApiType
    <3>1. /\ seen' = [seen EXCEPT ![b].digest = disk[pending].content]
          /\ verifier' = [verifier EXCEPT ![b] = "passed"]
          /\ verifier[b] = "digesting" /\ pending = seen[b].file
      BY <2>2, <3>0 DEF VerifyDigest
    <3>2. seen[b] \in Sightings
      BY <3>1, TypeParts DEF Saw, ApiType
    <3>3. disk[pending].content \in Contents
      <4>1. pending \in Builds
        BY <3>1, <3>2 DEF Sightings
      <4>2. disk[pending] \in Files
        BY <4>1, TypeParts, NoneIsNothing DEF FilesInv, DiskType
      <4> QED
        BY <4>2, FilesWritten
    <3>4. [seen[b] EXCEPT !.digest = disk[pending].content] \in Sightings
      BY <3>2, <3>3 DEF Sightings
    <3>5. seen' \in [Builds -> Sightings \cup {None}] /\ seen'[b] \in Sightings
      BY <3>1, <3>4, TypeParts DEF ApiType
    <3>6. \A a \in Builds \ {b} : seen'[a] = seen[a]
      BY <3>1, TypeParts DEF ApiType
    <3> QED
      BY <2>2, <3>1, <3>5, <3>6, TypeParts, NoneIsNothing DEF VerifyDigest, ApiType, Saw
  <2>3. CASE seen' = seen /\ verifier' = [verifier EXCEPT ![b] = "refused"]
    BY <2>3, TypeParts, NoneIsNothing DEF VerifyPending, VerifyDigest, ApiType, Saw
  <2> QED
    BY <2>1, <2>2, <2>3 DEF VerifyPending, VerifyDigest
<1> QED
  BY <1>1, TypeFrom DEF VerifyPending, VerifyDigest

\* What the end of a build clears keeps the types.
LEMMA RejectType ==
  ASSUME BuilderTypeOK, NEW b \in Builds, Reject(b), pending' \in {pending, None}
  PROVE  PathType' /\ SourceType' /\ ParentType'
  BY TypeParts DEF Reject, PathType, SourceType, ParentType, Parents

\* What the API signs is in its type.
LEMMA SignType ==
  ASSUME BuilderTypeOK, VerifierInv, NEW b \in Builds, Sign(b)
  PROVE  BuilderTypeOK'
<1>1. seen[b] \in Sightings /\ digest[b] \in Contents
  BY TypeParts DEF Sign, Saw, ApiType, VerifierInv, ChildType
<1>2. [digest |-> digest[b], directory |-> seen[b].directory] \in Signatures
  BY <1>1 DEF Sightings, Signatures
<1>3. ApiType' /\ Saw'
  BY <1>2, TypeParts DEF Sign, ApiType, Saw, RequestStop, Forget
<1> QED
  BY <1>3, TypeFrom DEF Sign

\* The API's steps keep the types.
LEMMA ApiKeepsType ==
  ASSUME BuilderTypeOK, VerifierInv, NEW b \in Builds, Api(b)
  PROVE  BuilderTypeOK'
<1>1. CASE StartBuild(b)
  <2>1. SourceType' /\ PathType' /\ ParentType' /\ ChildType' /\ Has'
    BY <1>1, TypeParts DEF StartBuild, SourceType, PathType, ParentType, Parents, Active,
       ChildType, Children, Running, Has
  <2> QED
    BY <1>1, <2>1, TypeFrom DEF StartBuild
<1>2. CASE ReceiveFrame(b) \/ Abort(b) \/ JobTimeout(b)
  <2>1. ApiType' /\ Saw'
    BY <1>2, TypeParts DEF ReceiveFrame, Abort, JobTimeout, RequestStop, Forget, ApiType, Saw
  <2> QED
    BY <1>2, <2>1, TypeFrom DEF ReceiveFrame, Abort, JobTimeout, RequestStop
<1>3. CASE Sign(b)
  BY <1>3, SignType
<1>4. CASE Close(b) \/ FinalVerify(b) \/ FinalTimeout(b) \/ FinalHash(b)
  <2>1. PathType' /\ SourceType' /\ ParentType'
    <3>1. CASE Reject(b) /\ pending' \in {pending, None}
      BY <3>1, RejectType
    <3>2. CASE ~(Reject(b) /\ pending' \in {pending, None})
      BY <1>4, <3>2, TypeParts DEF Close, FinalVerify, FinalTimeout, FinalHash, pathVars,
         PathType, SourceType, ParentType, Parents, Active
    <3> QED
      BY <3>1, <3>2
  <2> QED
    BY <1>4, <2>1, TypeFrom DEF Close, FinalVerify, FinalTimeout, FinalHash
<1> QED
  BY <1>1, <1>2, <1>3, <1>4 DEF Api

\* Damage keeps the types.
LEMMA DamageType ==
  ASSUME BuilderTypeOK, FilesInv, NEW b \in Builds, NEW harm \in Harms, Damage(b, harm)
  PROVE  BuilderTypeOK'
<1>1. disk[b] \in Files
  BY TypeParts, NoneIsNothing DEF Damage, FilesInv, DiskType
<1>2. CASE harm = "signature"
  <2>1. [disk[b] EXCEPT !.signature = Garbage] \in Files
    BY <1>1, FilesWritten
  <2>2. DiskType'
    BY <1>2, <2>1, TypeParts DEF Damage, DiskType
  <2> QED
    BY <2>2, TypeFrom DEF Damage, apiVars, childVars
<1>3. CASE harm # "signature"
  <2>1. PICK c : c = [disk[b].content EXCEPT !.harm = harm]
    OBVIOUS
  <2>2. harm \in {"none", "cut"} \cup Sections /\ disk[b].content \in Contents
    BY <1>1, <1>3, BuilderAssumption, FilesWritten
  <2>3. c \in Contents
    BY <2>1, <2>2 DEF Contents
  <2>4. [disk[b] EXCEPT !.content = c] \in Files
    BY <1>1, <2>3 DEF Files
  <2>5. disk' = [disk EXCEPT ![b] = [disk[b] EXCEPT !.content = c]]
    BY <1>3, <2>1 DEF Damage
  <2>6. DiskType'
    BY <2>4, <2>5, TypeParts DEF DiskType
  <2> QED
    BY <2>6, TypeFrom DEF Damage, apiVars, childVars
<1> QED
  BY <1>2, <1>3

\* The other faults keep the types.
LEMMA FaultType ==
  ASSUME BuilderTypeOK, NEW b \in Builds, ChildDies(b) \/ ChildErrs(b) \/ ApiCrash(b) \/ Edit(b)
  PROVE  BuilderTypeOK'
<1>1. CASE ChildDies(b)
  <2>1. ChildType' /\ Has'
    BY <1>1, TypeParts DEF ChildDies, ChildType, Children, Has
  <2> QED
    BY <1>1, <2>1, TypeFrom DEF ChildDies, apiVars
<1>2. CASE ChildErrs(b)
  BY <1>2, FailsType DEF ChildErrs
<1>3. CASE ApiCrash(b)
  <2>1. ParentType' /\ ApiType' /\ Saw'
    BY <1>3, TypeParts DEF ApiCrash, ParentType, Parents, ApiType, Saw
  <2> QED
    BY <1>3, <2>1, TypeFrom DEF ApiCrash
<1>4. CASE Edit(b)
  <2>1. SourceType'
    BY <1>4, TypeParts DEF Edit, SourceType
  <2> QED
    BY <1>4, <2>1, TypeFrom DEF Edit, apiVars
<1> QED
  BY <1>1, <1>2, <1>3, <1>4

\* Types are kept by every step of the building.
LEMMA BuilderKeepsType ==
  ASSUME BuilderTypeOK, ProcessInv, FilesInv, VerifierInv, BuilderNext
  PROVE  BuilderTypeOK'
  BY ChildKeepsType, VerifierKeepsType, ApiKeepsType, DamageType, FaultType DEF BuilderNext

-------------------------------------------------------------------------------
(* Attempts and processes *)

\* What a step of the child leaves alone.
LEMMA ChildFrame ==
  ASSUME NEW b, Child(b) \/ ChildErrs(b) \/ ChildDies(b)
  PROVE  UNCHANGED <<source, metadata, apiVars>>
  BY DEF Child, Prepare, CreatePending, Stream, ReportDigest, AcceptSignature, EndOfInput,
     CheckFinalized, LinkOutput, RemovePending, ChildErrs, ChildDies, ChildUnchanged, pathVars

\* Only a child's step, its start and an error change where children are.
LEMMA ChildGoesOn ==
  ASSUME BuilderTypeOK, NEW b \in Builds, Child(b) \/ ChildErrs(b) \/ ChildDies(b)
  PROVE  /\ child[b] \in Running
         /\ child'[b] \in (Running \ {"started"}) \cup {"failed", "dead", "completed"}
         /\ \A a \in Builds \ {b} : child'[a] = child[a]
<1>1. child \in [Builds -> Children]
  BY TypeParts DEF ChildType
<1> QED
  BY <1>1 DEF Child, Prepare, CreatePending, Stream, ReportDigest, AcceptSignature, EndOfInput,
     CheckFinalized, LinkOutput, RemovePending, ChildErrs, ChildDies, Fails, Steps, Running

\* What is left alone by every other step but the start of a build.
LEMMA OtherFrame ==
  ASSUME NEW b \in Builds,
         \/ Api(b) /\ ~StartBuild(b)
         \/ VerifyPending(b) \/ VerifyDigest(b) \/ ApiCrash(b) \/ Edit(b)
         \/ \E harm \in Harms : Damage(b, harm)
  PROVE  UNCHANGED childVars
  BY DEF Api, ReceiveFrame, Sign, Abort, JobTimeout, Close, FinalVerify, FinalTimeout,
     FinalHash, VerifyPending, VerifyDigest, ApiCrash, Edit, Damage, childVars

\* How the promise of a build goes on.
ParentGoes(b) ==
  \/ UNCHANGED parent
  \/ parent[b] = "idle" /\ StartBuild(b)
  \/ /\ parent[b] \in Active
     /\ \E p \in {"finishing", "hashing", "returned", "failed", "gone"} :
          parent' = [parent EXCEPT ![b] = p]

\* Only the API's steps and its crash take it on.
LEMMA ParentGoesOn ==
  ASSUME NEW b \in Builds,
         \/ Api(b) \/ VerifyPending(b) \/ VerifyDigest(b) \/ ApiCrash(b) \/ Edit(b)
         \/ \E harm \in Harms : Damage(b, harm)
  PROVE  ParentGoes(b)
<1>1. CASE ApiCrash(b)
  BY <1>1 DEF ApiCrash, ParentGoes
<1>2. CASE Close(b) \/ FinalVerify(b) \/ FinalTimeout(b) \/ FinalHash(b)
  BY <1>2 DEF Close, FinalVerify, FinalTimeout, FinalHash, Reject, ParentGoes, Active
<1>3. CASE StartBuild(b)
  BY <1>3 DEF StartBuild, ParentGoes
<1> QED
  BY <1>1, <1>2, <1>3 DEF Api, ReceiveFrame, Sign, Abort, JobTimeout, VerifyPending,
     VerifyDigest, Edit, Damage, apiVars, ParentGoes

\* Attempts stay one after the other.
LEMMA SerialStep ==
  ASSUME BuilderTypeOK, SerialInv, BuilderNext
  PROVE  SerialInv'
<1>1. PICK b \in Builds : UNCHANGED parent \/ ParentGoes(b)
  BY ChildFrame, ParentGoesOn DEF BuilderNext, apiVars
<1>2. parent \in [Builds -> Parents]
  BY TypeParts DEF ParentType
<1>3. CASE UNCHANGED parent
  BY <1>3 DEF SerialInv
<1>4. CASE StartBuild(b)
  BY <1>2, <1>4 DEF StartBuild, SerialInv, Builds
<1>5. ASSUME parent[b] \in Active,
             NEW p \in {"finishing", "hashing", "returned", "failed", "gone"},
             parent' = [parent EXCEPT ![b] = p]
      PROVE  SerialInv'
  BY <1>2, <1>5 DEF SerialInv, Active
<1> QED
  BY <1>1, <1>3, <1>4, <1>5 DEF ParentGoes

\* A build and its child stay in step.
LEMMA ProcessStep ==
  ASSUME BuilderTypeOK, ProcessInv, BuilderNext
  PROVE  ProcessInv'
<1>1. /\ parent \in [Builds -> Parents] /\ child \in [Builds -> Children]
      /\ plan \in [Builds -> Plans \cup {None}]
  BY TypeParts DEF ParentType, ChildType
<1>2. ASSUME NEW b \in Builds, Child(b) \/ ChildErrs(b) \/ ChildDies(b)
      PROVE  ProcessInv'
  <2>1. UNCHANGED parent
    BY <1>2, ChildFrame DEF apiVars
  <2>2. CASE Prepare(b) /\ ~Fails(b)
    <3>1. [directory |-> source[b], header |-> metadata] \in Plans
      BY <2>2, TypeParts DEF Prepare, CanPack, SourceType, PathType, Plans
    <3>2. plan'[b] # None /\ \A a \in Builds \ {b} : plan'[a] = plan[a]
      BY <1>1, <2>2, <3>1, NoneIsNothing DEF Prepare
    <3> QED
      BY <1>2, <2>1, <3>2, ChildGoesOn DEF ProcessInv, Running
  <2>3. CASE ~(Prepare(b) /\ ~Fails(b))
    <3>1. UNCHANGED plan
      BY <1>2, <2>3 DEF Child, Prepare, CreatePending, Stream, ReportDigest, AcceptSignature,
         EndOfInput, CheckFinalized, LinkOutput, RemovePending, ChildErrs, ChildDies, Fails
    <3>2. child[b] = "started" => child'[b] \in {"failed", "dead"}
      BY <1>1, <1>2, <2>3 DEF Child, Prepare, CreatePending, Stream, ReportDigest,
         AcceptSignature, EndOfInput, CheckFinalized, LinkOutput, RemovePending, ChildErrs,
         ChildDies, Fails, Steps
    <3> QED
      BY <1>2, <2>1, <3>1, <3>2, ChildGoesOn DEF ProcessInv, Running
  <2> QED
    BY <2>2, <2>3
<1>3. ASSUME NEW b \in Builds, StartBuild(b)
      PROVE  ProcessInv'
  BY <1>1, <1>3 DEF StartBuild, ProcessInv, Running
<1>4. ASSUME NEW b \in Builds, ApiCrash(b) \/ Close(b) \/ FinalVerify(b) \/ FinalTimeout(b) \/ FinalHash(b)
      PROVE  ProcessInv'
  <2>1. UNCHANGED childVars
    BY <1>4, OtherFrame DEF Api, ApiCrash, Close, FinalVerify, FinalTimeout, FinalHash, childVars
  <2>2. CASE ApiCrash(b)
    BY <1>1, <2>1, <2>2 DEF ApiCrash, ProcessInv, Active, childVars
  <2>3. CASE Close(b)
    BY <1>1, <2>1, <2>3 DEF Close, Reject, ProcessInv, Running, childVars
  <2>4. CASE FinalVerify(b) \/ FinalTimeout(b) \/ FinalHash(b)
    BY <1>1, <2>1, <2>4 DEF FinalVerify, FinalTimeout, FinalHash, Reject, ProcessInv, Running, childVars
  <2> QED
    BY <1>4, <2>2, <2>3, <2>4
<1>5. CASE UNCHANGED <<parent, childVars>>
  BY <1>5 DEF ProcessInv, childVars
<1> QED
  BY <1>2, <1>3, <1>4, <1>5 DEF BuilderNext, Api, ReceiveFrame, Sign, Abort, JobTimeout,
     VerifyPending, VerifyDigest, Edit, Damage, apiVars, childVars

-------------------------------------------------------------------------------
(* Files, digests and signatures *)

\* What was checked under a key was made with it.
LEMMA VerifiedUnderKey ==
  ASSUME NEW c, NEW d, NEW m, NEW b, ProtectedContents(c, d, m, b)
  PROVE  c.key = b
<1>1. Opens(Bytes(c).index, b, Bytes(c).header, <<"index", 0>>)
  BY DEF ProtectedContents, Readable
<1>2. Bytes(c).index # Garbage /\ Bytes(c).index.key = b
  BY <1>1 DEF Opens
<1>3. Bytes(c).index = IF c.harm = "index" THEN Garbage
        ELSE Sealed(c.key, c.header, <<"index", 0>>, Records(Discover(c.planned)))
  BY DEF Bytes
<1> QED
  BY <1>2, <1>3 DEF Sealed

\* The types that the rest of the proofs use.
LEMMA Kinds ==
  ASSUME BuilderTypeOK
  PROVE  /\ disk \in [Builds -> Files \cup {None}] /\ child \in [Builds -> Children]
         /\ digest \in [Builds -> Contents \cup {None}] /\ told \in [Builds -> Files \cup {None}]
         /\ seen \in [Builds -> Sightings \cup {None}]
         /\ signed \in [Builds -> Signatures \cup {None}]
         /\ plan \in [Builds -> Plans \cup {None}]
         /\ handler \in [Builds -> {"none", "verifying", "done"}]
         /\ verifier \in [Builds -> {"off", "opening", "digesting", "passed", "refused"}]
         /\ parent \in [Builds -> Parents]
         /\ metadata \in Builds \cup {None} /\ pending \in Builds \cup {None}
         /\ output \in Builds \cup {None}
  BY TypeParts DEF DiskType, ChildType, ApiType, ParentType, PathType

\* What is at a path is a file.
LEMMA AtPath ==
  ASSUME BuilderTypeOK, FilesInv
  PROVE  \A f \in {pending, output} \ {None} :
           f \in Builds /\ disk[f] \in Files /\ disk[f].content \in Contents /\ disk[f].content.key = f
  BY Kinds, FilesWritten DEF FilesInv

\* What FilesInv says of one file.
FileOf(b) ==
  disk[b] # None =>
    /\ disk[b].content.key = b
    /\ child[b] \notin {"none", "started", "planned"}
    /\ child[b] = "writing" => disk[b].content.harm = "cut"
    /\ \/ disk[b].signature \in {None, Garbage}
       \/ signed[b] # None /\ disk[b].signature = signed[b].digest

\* It is enough to look at the file that is written, or whose process goes on.
LEMMA FilesFrom ==
  ASSUME FilesInv, NEW b \in Builds, FileOf(b)', disk[b] # None => disk'[b] # None,
         \A a \in Builds \ {b} :
           disk'[a] = disk[a] /\ child'[a] = child[a] /\ signed'[a] = signed[a],
         {pending', output'} \subseteq {pending, output, None} \cup {b},
         b \in {pending', output'} \ {pending, output} => disk'[b] # None,
         BuilderTypeOK
  PROVE  FilesInv'
<1>1. \A a \in Builds : FileOf(a)'
  BY DEF FilesInv, FileOf
<1>2. \A a \in {pending', output'} \ {None} : disk'[a] # None
  BY Kinds DEF FilesInv
<1> QED
  BY <1>1, <1>2 DEF FilesInv, FileOf

\* The child's file is its own.
LEMMA ChildFiles ==
  ASSUME BuilderTypeOK, ProcessInv, FilesInv, DigestInv, SignedInv, NEW b \in Builds,
         Child(b) \/ ChildErrs(b) \/ ChildDies(b)
  PROVE  FilesInv'
<1> USE Kinds
<1>0. UNCHANGED signed
  BY ChildFrame DEF apiVars
<1>1. \A a \in Builds \ {b} : child'[a] = child[a]
  BY ChildGoesOn
<1>2. CASE CreatePending(b) /\ ~Fails(b)
  <2>1. plan[b] # None /\ plan[b] \in Plans
    BY <1>2 DEF CreatePending, ProcessInv, Running
  <2>2. plan[b].directory \in DOMAIN Directories
    BY <2>1 DEF Plans
  <2>3. PICK c : c = Content(b, plan[b].directory, "cut")
    OBVIOUS
  <2>4. c \in Contents /\ c.key = b /\ c.harm = "cut"
    BY <2>1, <2>2, <2>3, ContentType DEF Content
  <2>5. disk'[b] = Unsigned(c) /\ \A a \in Builds \ {b} : disk'[a] = disk[a]
    BY <1>2, <2>3 DEF CreatePending
  <2>6. disk'[b] # None
    BY <2>4, <2>5, FilesWritten, NoneIsNothing
  <2>7. child'[b] = "writing" /\ pending' = b /\ output' = output
    BY <1>2 DEF CreatePending, Steps
  <2>8. FileOf(b)'
    BY <2>4, <2>5, <2>7 DEF FileOf, Unsigned
  <2> QED
    BY <1>0, <1>1, <2>5, <2>6, <2>7, <2>8, FilesFrom
<1>3. CASE Stream(b) /\ ~Fails(b)
  <2>1. plan[b] # None
    BY <1>3 DEF Stream, ProcessInv, Running
  <2>2. source[b] \in DOMAIN Directories
    BY <1>3, TypeParts DEF Stream, CanPack, SourceType
  <2>3. PICK c : c = Content(b, source[b], "none")
    OBVIOUS
  <2>4. c \in Contents /\ c.key = b
    BY <2>1, <2>2, <2>3, ContentType DEF Content
  <2>5. disk'[b] = Unsigned(c) /\ \A a \in Builds \ {b} : disk'[a] = disk[a]
    BY <1>3, <2>3 DEF Stream
  <2>6. disk'[b] # None
    BY <2>4, <2>5, FilesWritten, NoneIsNothing
  <2>7. child'[b] = "written" /\ pending' = pending /\ output' = output
    BY <1>3 DEF Stream, Steps, ChildUnchanged
  <2>8. FileOf(b)'
    BY <2>4, <2>5, <2>7 DEF FileOf, Unsigned
  <2> QED
    BY <1>0, <1>1, <2>5, <2>6, <2>7, <2>8, FilesFrom
<1>4. CASE AcceptSignature(b) /\ ~Fails(b)
  <2>1. /\ signed[b] # None /\ pending = Identity(b)
        /\ disk' = [disk EXCEPT ![pending].signature = signed[b].digest]
        /\ child'[b] = "appended" /\ UNCHANGED <<pending, output>> /\ pending # None
    BY <1>4 DEF AcceptSignature, Steps, ChildUnchanged, TakesDigest
  <2>2. pending = b
    BY <2>1 DEF SignedInv, Identity
  <2>3. disk[b] # None /\ disk[b] \in Files
    BY <2>1, <2>2 DEF FilesInv
  <2>4. signed[b].digest \in Contents
    BY <2>1 DEF Signatures
  <2>5. disk'[b] \in Files /\ disk'[b].content = disk[b].content
        /\ disk'[b].signature = signed[b].digest
    BY <2>1, <2>2, <2>3, <2>4 DEF Files
  <2>6. \A a \in Builds \ {b} : disk'[a] = disk[a]
    BY <2>1, <2>2
  <2>7. FileOf(b)'
    BY <1>0, <2>1, <2>3, <2>5 DEF FileOf, FilesInv
  <2> QED
    BY <1>0, <1>1, <2>1, <2>5, <2>6, <2>7, FilesFrom, NoneIsNothing
<1>5. CASE Prepare(b)
  <2>1. disk[b] = None /\ UNCHANGED disk /\ child[b] = "started"
    BY <1>5 DEF Prepare, Fails, FilesInv
  <2>2. {pending', output'} \subseteq {pending, output, None}
    BY <1>5 DEF Prepare, Fails
  <2>3. FileOf(b)'
    BY <2>1 DEF FileOf
  <2> QED
    BY <1>0, <1>1, <2>1, <2>2, <2>3, FilesFrom, NoneIsNothing
<1>6. ASSUME UNCHANGED disk, {pending', output'} \subseteq {pending, output, None},
             child'[b] \notin {"none", "started", "planned", "writing"}
      PROVE  FilesInv'
  <2>1. FileOf(b)'
    BY <1>0, <1>6 DEF FileOf, FilesInv
  <2> QED
    BY <1>0, <1>1, <1>6, <2>1, FilesFrom, NoneIsNothing
<1>7. CASE Fails(b) \/ ChildDies(b) \/ EndOfInput(b)
  BY <1>6, <1>7 DEF Fails, ChildDies, EndOfInput, pathVars
<1>8. CASE ReportDigest(b) \/ CheckFinalized(b)
  BY <1>6, <1>7, <1>8 DEF ReportDigest, CheckFinalized, Steps, ChildUnchanged
<1>9. CASE LinkOutput(b) \/ RemovePending(b)
  BY <1>6, <1>7, <1>9 DEF LinkOutput, RemovePending, Steps, ChildUnchanged
<1> QED
  BY <1>2, <1>3, <1>4, <1>5, <1>7, <1>8, <1>9 DEF Child, ChildErrs

\* The other steps write no file but by damage.
LEMMA OtherFiles ==
  ASSUME BuilderTypeOK, ProcessInv, FilesInv, SignedInv, NEW b \in Builds,
         \/ Api(b) \/ VerifyPending(b) \/ VerifyDigest(b) \/ ApiCrash(b) \/ Edit(b)
         \/ \E harm \in Harms : Damage(b, harm)
  PROVE  FilesInv'
<1> USE Kinds
<1>1. ASSUME NEW harm \in Harms, Damage(b, harm)
      PROVE  FilesInv'
  <2>1. disk[b] # None /\ disk[b] \in Files /\ disk[b].content.harm = "none"
    BY <1>1, NoneIsNothing DEF Damage, FilesInv
  <2>2. UNCHANGED <<child, signed, pending, output>>
    BY <1>1 DEF Damage, apiVars, childVars, pathVars
  <2>3. \A a \in Builds \ {b} : disk'[a] = disk[a]
    BY <1>1 DEF Damage
  <2>4. CASE harm = "signature"
    <3>1. disk'[b] = [disk[b] EXCEPT !.signature = Garbage]
      BY <1>1, <2>4 DEF Damage
    <3>2. disk'[b].content = disk[b].content /\ disk'[b].signature = Garbage
      BY <2>1, <3>1 DEF Files
    <3>3. disk'[b] \in Files
      BY <2>1, <3>1 DEF Files
    <3>4. FileOf(b)'
      BY <2>1, <2>2, <3>2 DEF FileOf, FilesInv
    <3> QED
      BY <2>2, <2>3, <3>3, <3>4, FilesFrom, NoneIsNothing
  <2>5. CASE harm # "signature"
    <3>1. PICK c : c = [disk[b].content EXCEPT !.harm = harm]
      OBVIOUS
    <3>2. harm \in {"none", "cut"} \cup Sections /\ disk[b].content \in Contents
      BY <2>1, <2>5, BuilderAssumption, FilesWritten
    <3>3. c \in Contents /\ c.key = disk[b].content.key
      BY <3>1, <3>2 DEF Contents
    <3>4. disk' = [disk EXCEPT ![b] = [disk[b] EXCEPT !.content = c]]
      BY <1>1, <2>5, <3>1 DEF Damage
    <3>5. disk'[b] \in Files /\ disk'[b].content = c /\ disk'[b].signature = disk[b].signature
      BY <2>1, <3>3, <3>4 DEF Files
    <3>6. FileOf(b)'
      BY <2>1, <2>2, <3>3, <3>5 DEF FileOf, FilesInv
    <3> QED
      BY <2>2, <2>3, <3>5, <3>6, FilesFrom, NoneIsNothing
  <2> QED
    BY <2>4, <2>5
<1>2. CASE Sign(b)
  <2>1. signed[b] = None
    BY <1>2 DEF Sign, SignedInv
  <2>2. UNCHANGED <<disk, child, pending, output>>
    BY <1>2 DEF Sign, childVars, pathVars
  <2>3. \A a \in Builds \ {b} : signed'[a] = signed[a]
    BY <1>2 DEF Sign
  <2>4. FileOf(b)'
    BY <2>1, <2>2 DEF FileOf, FilesInv
  <2> QED
    BY <2>2, <2>3, <2>4, FilesFrom, NoneIsNothing
<1>3. CASE StartBuild(b)
  <2>1. /\ UNCHANGED <<disk, signed, pending, output>>
        /\ \A a \in Builds \ {b} : child'[a] = child[a]
    BY <1>3 DEF StartBuild
  <2>2. disk[b] = None
    BY <1>3 DEF StartBuild, FilesInv, ProcessInv
  <2>3. FileOf(b)'
    BY <2>1, <2>2 DEF FileOf
  <2> QED
    BY <2>1, <2>2, <2>3, FilesFrom, NoneIsNothing
<1>4. ASSUME UNCHANGED <<disk, child, signed>>, {pending', output'} \subseteq {pending, output, None}
      PROVE  FilesInv'
  BY <1>4 DEF FilesInv
<1>5. CASE Close(b) \/ FinalVerify(b) \/ FinalTimeout(b) \/ FinalHash(b)
  BY <1>4, <1>5 DEF Close, FinalVerify, FinalTimeout, FinalHash, Reject, childVars, pathVars
<1>6. CASE ReceiveFrame(b) \/ Abort(b) \/ JobTimeout(b) \/ VerifyPending(b) \/ VerifyDigest(b)
           \/ ApiCrash(b) \/ Edit(b)
  BY <1>4, <1>6 DEF ReceiveFrame, Abort, JobTimeout, RequestStop, VerifyPending, VerifyDigest,
     ApiCrash, Edit, apiVars, childVars, pathVars
<1> QED
  BY <1>1, <1>2, <1>3, <1>5, <1>6 DEF Api

\* A file that is not being written changes by damage only.
Kept(f) ==
  disk[f] # None /\ child[f] # "writing" =>
    /\ disk'[f] # None /\ child'[f] # "writing"
    /\ \/ disk'[f].content = disk[f].content
       \/ disk[f].content.harm = "none" /\ disk'[f].content.harm # "none"

\* The steps of a child keep the files of the others, and its own once written.
LEMMA ChildKeeps ==
  ASSUME BuilderTypeOK, FilesInv, SignedInv, NEW b \in Builds,
         Child(b) \/ ChildErrs(b) \/ ChildDies(b), NEW f \in Builds
  PROVE  Kept(f)
<1> USE Kinds
<1>1. \A a \in Builds \ {b} : child'[a] = child[a]
  BY ChildGoesOn
<1>2. CASE CreatePending(b)
  <2>1. disk[b] = None
    BY <1>2 DEF CreatePending, FilesInv
  <2>2. \A a \in Builds \ {b} : disk'[a] = disk[a]
    BY <1>2 DEF CreatePending, Fails
  <2> QED
    BY <1>1, <2>1, <2>2 DEF Kept
<1>3. CASE Stream(b)
  <2>1. child[b] = "writing"
    BY <1>3 DEF Stream
  <2>2. \A a \in Builds \ {b} : disk'[a] = disk[a]
    BY <1>3 DEF Stream, Fails
  <2> QED
    BY <1>1, <2>1, <2>2 DEF Kept
<1>4. CASE AcceptSignature(b) /\ ~Fails(b)
  <2>1. /\ disk' = [disk EXCEPT ![pending].signature = signed[b].digest]
        /\ child'[b] = "appended" /\ pending # None /\ signed[b] # None
    BY <1>4 DEF AcceptSignature, Steps, TakesDigest
  <2>2. pending \in Builds /\ disk[pending] \in Files
    BY <2>1 DEF FilesInv
  <2>3. signed[b].digest \in Contents
    BY <2>1 DEF Signatures
  <2>4. disk'[pending] \in Files /\ disk'[pending].content = disk[pending].content
    BY <2>1, <2>2, <2>3 DEF Files
  <2>5. \A a \in Builds \ {pending} : disk'[a] = disk[a]
    BY <2>1, <2>2
  <2> QED
    BY <1>1, <2>1, <2>2, <2>4, <2>5, NoneIsNothing DEF Kept
<1>5. ASSUME UNCHANGED disk, child'[b] # "writing"
      PROVE  Kept(f)
  BY <1>1, <1>5 DEF Kept
<1>6. CASE Fails(b) \/ ChildDies(b) \/ EndOfInput(b)
  BY <1>5, <1>6 DEF Fails, ChildDies, EndOfInput
<1>7. CASE Prepare(b) \/ ReportDigest(b) \/ CheckFinalized(b) \/ LinkOutput(b) \/ RemovePending(b)
  BY <1>5, <1>6, <1>7
     DEF Prepare, ReportDigest, CheckFinalized, LinkOutput, RemovePending, Steps
<1> QED
  BY <1>2, <1>3, <1>4, <1>6, <1>7 DEF Child, ChildErrs

\* The other steps damage a file, or leave them alone.
LEMMA OthersKeep ==
  ASSUME BuilderTypeOK, FilesInv, NEW b \in Builds,
         \/ Api(b) \/ VerifyPending(b) \/ VerifyDigest(b) \/ ApiCrash(b) \/ Edit(b)
         \/ \E harm \in Harms : Damage(b, harm),
         NEW f \in Builds
  PROVE  Kept(f)
<1> USE Kinds
<1>1. ASSUME NEW harm \in Harms, Damage(b, harm)
      PROVE  Kept(f)
  <2>1. disk[b] # None /\ disk[b] \in Files /\ disk[b].content.harm = "none"
    BY <1>1, NoneIsNothing DEF Damage, FilesInv
  <2>2. UNCHANGED child /\ \A a \in Builds \ {b} : disk'[a] = disk[a]
    BY <1>1 DEF Damage, childVars
  <2>3. CASE harm = "signature"
    <3>1. disk'[b] = [disk[b] EXCEPT !.signature = Garbage]
      BY <1>1, <2>3 DEF Damage
    <3>2. disk'[b].content = disk[b].content /\ disk'[b] \in Files
      BY <2>1, <3>1 DEF Files
    <3> QED
      BY <2>2, <3>2, NoneIsNothing DEF Kept
  <2>4. CASE harm # "signature"
    <3>1. PICK c : c = [disk[b].content EXCEPT !.harm = harm]
      OBVIOUS
    <3>2. harm \in {"cut"} \cup Sections /\ disk[b].content \in Contents
      BY <2>1, <2>4, BuilderAssumption, FilesWritten
    <3>3. c \in Contents /\ c.harm # "none"
      BY <3>1, <3>2 DEF Contents, Sections
    <3>4. disk' = [disk EXCEPT ![b] = [disk[b] EXCEPT !.content = c]]
      BY <1>1, <2>4, <3>1 DEF Damage
    <3>5. disk'[b] \in Files /\ disk'[b].content = c
      BY <2>1, <3>3, <3>4 DEF Files
    <3> QED
      BY <2>1, <2>2, <3>3, <3>5, NoneIsNothing DEF Kept
  <2> QED
    BY <2>3, <2>4
<1>2. CASE StartBuild(b)
  BY <1>2 DEF StartBuild, Kept
<1>3. CASE UNCHANGED <<disk, child>>
  BY <1>3 DEF Kept
<1> QED
  BY <1>1, <1>2, <1>3 DEF Api, ReceiveFrame, Sign, Abort, JobTimeout, RequestStop, Close,
     FinalVerify, FinalTimeout, FinalHash, VerifyPending, VerifyDigest, ApiCrash, Edit,
     apiVars, childVars, pathVars

\* What a digest says of its file goes on while the file is kept.
LEMMA DigestKept ==
  ASSUME BuilderTypeOK, DigestInv, \A f \in Builds : Kept(f), NEW b \in Builds,
         digest[b] # None, digest'[b] = digest[b],
         child'[b] = child[b] \/ child'[b] \notin {"none", "started", "planned", "writing", "written"}
  PROVE  /\ child'[b] \notin {"none", "started", "planned", "writing", "written"}
         /\ disk'[digest[b].key] # None
         /\ child'[digest[b].key] # "writing"
         /\ \/ disk'[digest[b].key].content = digest[b]
            \/ disk'[digest[b].key].content.harm # "none"
<1>1. digest[b].key \in Builds
  BY Kinds, ContentFields
<1> QED
  BY <1>1 DEF DigestInv, Kept

\* Digests stay those of files that only damage changes.
LEMMA DigestStep ==
  ASSUME BuilderTypeOK, FilesInv, SignedInv, ProcessInv, DigestInv, BuilderNext
  PROVE  DigestInv'
<1> USE Kinds
<1>1. PICK b \in Builds :
        \/ Api(b) \/ Child(b) \/ VerifyPending(b) \/ VerifyDigest(b)
        \/ ChildErrs(b) \/ ChildDies(b) \/ ApiCrash(b) \/ Edit(b)
        \/ \E harm \in Harms : Damage(b, harm)
  BY DEF BuilderNext
<1>2. \A f \in Builds : Kept(f)
  BY <1>1, ChildKeeps, OthersKeep
<1>3. ASSUME \A a \in Builds : digest[a] # None => child'[a] = child[a]
                \/ child'[a] \notin {"none", "started", "planned", "writing", "written"},
             UNCHANGED digest
      PROVE  DigestInv'
  BY <1>2, <1>3, DigestKept DEF DigestInv
<1>4. CASE ReportDigest(b) /\ ~Fails(b)
  <2>1. /\ child'[b] = "framed" /\ \A a \in Builds \ {b} : child'[a] = child[a]
        /\ digest'[b] = disk[pending].content
        /\ \A a \in Builds \ {b} : digest'[a] = digest[a]
        /\ pending # None /\ disk[pending].content.harm # "cut" /\ UNCHANGED disk
    BY <1>4 DEF ReportDigest, Steps, TakesDigest
  <2>2. disk[pending] # None /\ pending \in Builds /\ disk[pending].content.key = pending
    BY <2>1, AtPath DEF FilesInv
  <2>3. child[pending] # "writing"
    BY <2>1, <2>2 DEF FilesInv
  <2>4. \A a \in Builds \ {b} : digest[a] # None =>
          /\ child'[a] \notin {"none", "started", "planned", "writing", "written"}
          /\ disk'[digest[a].key] # None
          /\ child'[digest[a].key] # "writing"
          /\ \/ disk'[digest[a].key].content = digest[a]
             \/ disk'[digest[a].key].content.harm # "none"
    BY <1>2, <2>1, DigestKept
  <2>5. disk'[pending] = disk[pending] /\ child'[pending] # "writing"
    BY <2>1, <2>2, <2>3
  <2> QED
    BY <2>1, <2>2, <2>4, <2>5 DEF DigestInv
<1>5. CASE (Child(b) \/ ChildErrs(b) \/ ChildDies(b)) /\ (ReportDigest(b) => Fails(b))
  <2>1. UNCHANGED digest
    BY <1>5 DEF Child, Prepare, CreatePending, Stream, ReportDigest, AcceptSignature, EndOfInput,
       CheckFinalized, LinkOutput, RemovePending, ChildErrs, ChildDies, Fails
  <2>2. \A a \in Builds \ {b} : child'[a] = child[a]
    BY <1>5, ChildGoesOn
  <2>3. CASE digest[b] # None
    <3>1. child[b] \notin {"none", "started", "planned", "writing", "written"}
      BY <2>3 DEF DigestInv
    <3>2. child'[b] \notin {"none", "started", "planned", "writing", "written"}
      BY <1>5, <3>1 DEF Child, Prepare, CreatePending, Stream, ReportDigest, AcceptSignature,
         EndOfInput, CheckFinalized, LinkOutput, RemovePending, ChildErrs, ChildDies, Fails, Steps
    <3> QED
      BY <1>3, <2>1, <2>2, <3>2
  <2> QED
    BY <1>3, <2>1, <2>2, <2>3
<1>6. CASE StartBuild(b)
  BY <1>3, <1>6 DEF StartBuild, DigestInv, ProcessInv
<1>7. CASE ~StartBuild(b) /\ ~Child(b) /\ ~ChildErrs(b) /\ ~ChildDies(b)
  BY <1>1, <1>3, <1>7, OtherFrame DEF childVars
<1> QED
  BY <1>1, <1>4, <1>5, <1>6, <1>7

\* What VerifierInv says of one build.
VerifierOf(b) ==
  /\ verifier[b] # "off" => digest[b] # None
  /\ verifier[b] \in {"digesting", "passed"} => seen[b].file = b
  /\ verifier[b] = "digesting" => disk[b] # None
  /\ verifier[b] = "digesting" /\ disk[b].content = digest[b]
       => Verified(digest[b], seen[b].directory, b)
  /\ verifier[b] = "passed" =>
       /\ seen[b].digest # None
       /\ seen[b].digest.key = b
       /\ seen[b].digest = digest[b] => Verified(digest[b], seen[b].directory, b)

\* A look at the file stays right while the file is kept: if the file comes to
\* be what the child reported, it was that when the verifier looked.
LEMMA LookKept ==
  ASSUME BuilderTypeOK, FilesInv, FilesInv', DigestInv, VerifierInv, \A f \in Builds : Kept(f),
         NEW b \in Builds, verifier'[b] = verifier[b], seen'[b] = seen[b], digest'[b] = digest[b]
  PROVE  VerifierOf(b)'
<1>1. ASSUME verifier[b] = "digesting"
      PROVE  /\ disk'[b] # None
             /\ disk'[b].content = digest[b] => disk[b].content = digest[b]
  <2>1. disk[b] # None /\ digest[b] # None
    BY <1>1 DEF VerifierInv
  <2>2. child[b] # "writing"
    BY <2>1 DEF DigestInv
  <2>3. disk'[b] # None
    BY <2>1, <2>2 DEF Kept
  <2>4. ASSUME disk'[b].content = digest[b]
        PROVE  disk[b].content = digest[b]
    <3>1. disk'[b].content.key = b
      BY <2>3 DEF FilesInv
    <3>2. digest[b].key = b
      BY <2>4, <3>1
    <3>3. disk[b].content = digest[b] \/ disk[b].content.harm # "none"
      BY <2>1, <3>2 DEF DigestInv
    <3>4. \/ disk'[b].content = disk[b].content
          \/ disk[b].content.harm = "none" /\ disk'[b].content.harm # "none"
      BY <2>1, <2>2 DEF Kept
    <3>5. digest[b].harm = disk'[b].content.harm
      BY <2>4
    <3> QED
      BY <2>4, <3>3, <3>4, <3>5
  <2> QED
    BY <2>3, <2>4
<1>2. VerifierOf(b)
  BY DEF VerifierInv, VerifierOf
<1> QED
  BY <1>1, <1>2 DEF VerifierOf, Verified

\* The verifier passes what the child reported, of its own build.
LEMMA VerifierStep ==
  ASSUME BuilderTypeOK, FilesInv, FilesInv', SignedInv, ProcessInv, DigestInv, VerifierInv,
         BuilderNext
  PROVE  VerifierInv'
<1> USE Kinds
<1>1. PICK b \in Builds :
        \/ Api(b) \/ Child(b) \/ VerifyPending(b) \/ VerifyDigest(b)
        \/ ChildErrs(b) \/ ChildDies(b) \/ ApiCrash(b) \/ Edit(b)
        \/ \E harm \in Harms : Damage(b, harm)
  BY DEF BuilderNext
<1>2. \A f \in Builds : Kept(f)
  BY <1>1, ChildKeeps, OthersKeep
<1>3. ASSUME VerifierOf(b)', \A a \in Builds \ {b} :
               verifier'[a] = verifier[a] /\ seen'[a] = seen[a] /\ digest'[a] = digest[a]
      PROVE  VerifierInv'
  BY <1>2, <1>3, LookKept DEF VerifierInv, VerifierOf
<1>4. CASE UNCHANGED <<verifier, seen, digest>>
  BY <1>2, <1>3, <1>4, LookKept
<1>5. CASE ReportDigest(b)
  <2>1. digest[b] = None /\ verifier[b] = "off"
    BY <1>5 DEF ReportDigest, DigestInv, VerifierInv
  <2>2. UNCHANGED <<verifier, seen>> /\ \A a \in Builds \ {b} : digest'[a] = digest[a]
    BY <1>5 DEF ReportDigest, Fails, ChildUnchanged, apiVars
  <2>3. VerifierOf(b)'
    BY <2>1, <2>2 DEF VerifierOf
  <2> QED
    BY <1>3, <2>2, <2>3
<1>6. CASE VerifyPending(b) /\ verifier' = [verifier EXCEPT ![b] = "digesting"]
  <2>0. verifier' # [verifier EXCEPT ![b] = "refused"]
    BY <1>6
  <2>1. /\ ProtectedContents(disk[pending].content, source[b], metadata, b)
        /\ SectionRanges(Bytes(disk[pending].content).prelude,
                         DeclaredSize(Bytes(disk[pending].content).prelude))
        /\ seen' = [seen EXCEPT ![b] = [directory |-> source[b], file |-> pending, digest |-> None]]
        /\ pending # None /\ metadata # None /\ verifier[b] = "opening"
        /\ UNCHANGED <<disk, digest>>
    BY <1>6, <2>0 DEF VerifyPending, FileAt, childVars, ProtectedContents, OpenLayout
  <2>2. pending = b /\ disk[b] # None
    BY <2>1, VerifiedUnderKey, AtPath DEF FilesInv
  <2>3. /\ seen'[b].directory = source[b] /\ seen'[b].file = b
        /\ verifier'[b] = "digesting" /\ digest'[b] # None
        /\ \A a \in Builds \ {b} : verifier'[a] = verifier[a] /\ seen'[a] = seen[a]
    BY <1>6, <2>1, <2>2 DEF VerifierInv
  <2>4. metadata \in Builds
    BY <2>1
  <2>5. Verified(disk[b].content, source[b], b)
    BY <2>1, <2>2, <2>4 DEF Verified
  <2>6. VerifierOf(b)'
    <3>1. disk'[b].content = digest'[b] => Verified(digest'[b], seen'[b].directory, b)
      BY <2>1, <2>3, <2>5
    <3>2. (Verified(digest[b], seen[b].directory, b))' <=> Verified(digest'[b], seen'[b].directory, b)
      BY DEF Verified
    <3> QED
      BY <2>1, <2>2, <2>3, <3>1, <3>2 DEF VerifierOf
  <2> QED
    BY <1>3, <2>1, <2>3, <2>6
<1>7. CASE VerifyDigest(b) /\ verifier' = [verifier EXCEPT ![b] = "passed"]
  <2>0. verifier' # [verifier EXCEPT ![b] = "refused"]
    BY <1>7
  <2>1. /\ seen' = [seen EXCEPT ![b].digest = disk[pending].content]
        /\ verifier[b] = "digesting" /\ pending = seen[b].file
        /\ UNCHANGED <<disk, digest>>
    BY <1>7, <2>0 DEF VerifyDigest, childVars
  <2>2. pending = b /\ disk[b] # None /\ disk[b].content.key = b
    BY <2>1, AtPath, NoneIsNothing DEF VerifierInv
  <2>3. seen[b] \in Sightings /\ disk[b] \in Files /\ disk[b].content \in Contents
    BY <2>1, <2>2, TypeParts, FilesWritten DEF Saw
  <2>4. /\ seen'[b].directory = seen[b].directory /\ seen'[b].file = b
        /\ seen'[b].digest = disk[b].content /\ disk[b].content # None
        /\ verifier'[b] = "passed" /\ digest'[b] # None
        /\ \A a \in Builds \ {b} : verifier'[a] = verifier[a] /\ seen'[a] = seen[a]
    BY <1>7, <2>1, <2>2, <2>3, NoneIsNothing DEF VerifierInv, Sightings
  <2>5. disk[b].content = digest[b] => Verified(digest[b], seen[b].directory, b)
    BY <2>1 DEF VerifierInv
  <2>6. VerifierOf(b)'
    <3>1. seen'[b].digest = digest'[b] => Verified(digest'[b], seen'[b].directory, b)
      BY <2>1, <2>4, <2>5
    <3>2. (Verified(digest[b], seen[b].directory, b))' <=> Verified(digest'[b], seen'[b].directory, b)
      BY DEF Verified
    <3> QED
      BY <2>1, <2>2, <2>4, <3>1, <3>2 DEF VerifierOf
  <2> QED
    BY <1>3, <2>1, <2>4, <2>6
<1>8. ASSUME UNCHANGED digest, verifier'[b] \in {"off", "opening", "refused"}, digest[b] # None,
             \A a \in Builds \ {b} : verifier'[a] = verifier[a] /\ seen'[a] = seen[a]
      PROVE  VerifierInv'
  <2>1. VerifierOf(b)'
    BY <1>8 DEF VerifierOf
  <2> QED
    BY <1>3, <1>8, <2>1
<1>9. CASE (VerifyPending(b) \/ VerifyDigest(b)) /\ verifier' = [verifier EXCEPT ![b] = "refused"]
  <2>1. UNCHANGED digest /\ verifier[b] # "off" /\ verifier'[b] = "refused"
    BY <1>9 DEF VerifyPending, VerifyDigest, childVars
  <2>2. verifier' # [verifier EXCEPT ![b] = "digesting"] /\ verifier' # [verifier EXCEPT ![b] = "passed"]
    BY <1>9
  <2>3. \A a \in Builds \ {b} : verifier'[a] = verifier[a] /\ seen'[a] = seen[a]
    BY <1>9, <2>2 DEF VerifyPending, VerifyDigest
  <2> QED
    BY <1>8, <2>1, <2>3 DEF VerifierInv
<1>10. CASE Sign(b) \/ Abort(b)
  <2>1. UNCHANGED digest /\ verifier'[b] = "off"
        /\ \A a \in Builds \ {b} : verifier'[a] = verifier[a] /\ seen'[a] = seen[a]
    BY <1>10 DEF Sign, Abort, Forget, childVars
  <2>2. VerifierOf(b)'
    BY <2>1 DEF VerifierOf
  <2> QED
    BY <1>3, <2>1, <2>2
<1>11. CASE ReceiveFrame(b)
  BY <1>8, <1>11 DEF ReceiveFrame, childVars
<1>12. CASE ApiCrash(b)
  <2>1. UNCHANGED <<digest, seen>> /\ verifier'[b] = "off"
        /\ \A a \in Builds \ {b} : verifier'[a] = verifier[a]
    BY <1>12 DEF ApiCrash, childVars
  <2>2. VerifierOf(b)'
    BY <2>1 DEF VerifierOf
  <2> QED
    BY <1>3, <2>1, <2>2
<1>13. CASE (Child(b) \/ ChildErrs(b) \/ ChildDies(b)) /\ ~ReportDigest(b)
  BY <1>4, <1>13, ChildFrame DEF apiVars, Child, Prepare, CreatePending, Stream,
     AcceptSignature, EndOfInput, CheckFinalized, LinkOutput, RemovePending, ChildErrs,
     ChildDies, Fails
<1>14. CASE \/ StartBuild(b) \/ JobTimeout(b) \/ Close(b) \/ FinalVerify(b) \/ FinalTimeout(b)
            \/ FinalHash(b) \/ Edit(b) \/ \E harm \in Harms : Damage(b, harm)
  BY <1>4, <1>14 DEF StartBuild, JobTimeout, Close, FinalVerify, FinalTimeout, FinalHash, Edit,
     Damage, apiVars, childVars
<1> QED
  BY <1>1, <1>5, <1>6, <1>7, <1>9, <1>10, <1>11, <1>12, <1>13, <1>14
     DEF Api, VerifyPending, VerifyDigest

\* What SignedInv says of one build.
SignedOf(b) ==
  /\ child[b] \in {"appended", "checked", "linked", "completed"} => signed[b] # None
  /\ signed[b] # None =>
       /\ handler[b] = "done"
       /\ signed[b].digest = digest[b] /\ digest[b] # None /\ digest[b].key = b
       /\ Verified(signed[b].digest, signed[b].directory, b)
  /\ told[b] # None => signed[b] # None /\ told[b].content = signed[b].digest

\* Signing: what the handler compares is what the verifier has passed.
LEMMA SignSigned ==
  ASSUME BuilderTypeOK, VerifierInv, SignedInv, NEW b \in Builds, Sign(b)
  PROVE  /\ SignedOf(b)'
         /\ signed'[b] # signed[b] =>
              signed'[b].digest = digest[b] /\ Verified(signed'[b].digest, signed'[b].directory, b)
<1> USE Kinds
<1>1. /\ handler'[b] = "done" /\ handler[b] = "verifying" /\ verifier[b] = "passed"
      /\ UNCHANGED <<child, digest, told>>
  BY DEF Sign, childVars
<1>2. signed[b] = None
  BY <1>1 DEF SignedInv
<1>3. CASE DigestsAgree(b)
  <2>1. digest[b] # None /\ digest[b] \in Contents /\ seen[b] \in Sightings
    BY <1>1, TypeParts DEF VerifierInv, Saw
  <2>2. digest[b].key = b /\ Verified(digest[b], seen[b].directory, b)
    BY <1>1, <1>3 DEF DigestsAgree, VerifierInv
  <2>3. PICK s : s = [digest |-> digest[b], directory |-> seen[b].directory]
    OBVIOUS
  <2>4. s \in Signatures /\ s.digest = digest[b] /\ s.directory = seen[b].directory
    BY <2>1, <2>3 DEF Sightings, Signatures
  <2>5. signed'[b] = s
    BY <1>3, <2>3 DEF Sign
  <2>6. Verified(signed'[b].digest, signed'[b].directory, b)
    BY <2>2, <2>4, <2>5
  <2>7. signed'[b] # None /\ signed'[b].digest = digest[b]
    BY <2>4, <2>5, NoneIsNothing
  <2>8. (Verified(signed[b].digest, signed[b].directory, b))'
          <=> Verified(signed'[b].digest, signed'[b].directory, b)
    BY DEF Verified
  <2>9. told'[b] = None
    BY <1>1, <1>2 DEF SignedInv
  <2> QED
    BY <1>1, <2>1, <2>2, <2>6, <2>7, <2>8, <2>9 DEF SignedOf
<1>4. CASE ~DigestsAgree(b)
  <2>1. signed' = signed
    BY <1>4 DEF Sign
  <2> QED
    BY <1>1, <1>2, <2>1 DEF SignedOf, SignedInv
<1> QED
  BY <1>3, <1>4

\* What is signed, and what is told of it, is what the verifier passed.
LEMMA SignedStep ==
  ASSUME BuilderTypeOK, FilesInv, DigestInv, ProcessInv, VerifierInv, SignedInv, BuilderNext
  PROVE  SignedInv'
<1> USE Kinds
<1>1. PICK b \in Builds :
        \/ Api(b) \/ Child(b) \/ VerifyPending(b) \/ VerifyDigest(b)
        \/ ChildErrs(b) \/ ChildDies(b) \/ ApiCrash(b) \/ Edit(b)
        \/ \E harm \in Harms : Damage(b, harm)
  BY DEF BuilderNext
<1>2. ASSUME SignedOf(b)', \A a \in Builds \ {b} :
               /\ child'[a] = child[a] /\ signed'[a] = signed[a] /\ handler'[a] = handler[a]
               /\ digest'[a] = digest[a] /\ told'[a] = told[a]
      PROVE  SignedInv'
  BY <1>2 DEF SignedInv, SignedOf, Verified
<1>3. CASE Sign(b)
  <2>1. \A a \in Builds \ {b} :
               /\ child'[a] = child[a] /\ signed'[a] = signed[a] /\ handler'[a] = handler[a]
               /\ digest'[a] = digest[a] /\ told'[a] = told[a]
    BY <1>3 DEF Sign, childVars
  <2> QED
    BY <1>2, <1>3, <2>1, SignSigned
<1>4. ASSUME UNCHANGED <<signed, digest, told>>,
             handler'[b] = handler[b] \/ handler[b] # "done" \/ handler'[b] = "done",
             child'[b] = child[b] \/ signed[b] # None
               \/ child'[b] \notin {"appended", "checked", "linked", "completed"},
             \A a \in Builds \ {b} : handler'[a] = handler[a] /\ child'[a] = child[a]
      PROVE  SignedInv'
  <2>1. SignedOf(b)'
    BY <1>4 DEF SignedInv, SignedOf, Verified
  <2> QED
    BY <1>2, <1>4, <2>1
<1>5. ASSUME Child(b) \/ ChildErrs(b) \/ ChildDies(b)
      PROVE  /\ UNCHANGED <<signed, handler>>
             /\ \A a \in Builds \ {b} : child'[a] = child[a]
             /\ \/ signed[b] # None
                \/ child'[b] \notin {"appended", "checked", "linked", "completed"}
  <2>1. child[b] \in {"appended", "checked", "linked"} => signed[b] # None
    BY DEF SignedInv
  <2> QED
    BY <1>5, <2>1, ChildFrame, ChildGoesOn DEF apiVars, Child, Prepare, CreatePending, Stream,
       ReportDigest, AcceptSignature, EndOfInput, CheckFinalized, LinkOutput, RemovePending,
       ChildErrs, ChildDies, Fails, Steps
<1>6. CASE ReportDigest(b) /\ ~Fails(b)
  <2>1. signed[b] = None /\ told[b] = None
    BY <1>6 DEF ReportDigest, DigestInv, SignedInv
  <2>2. child'[b] = "framed" /\ UNCHANGED told /\ \A a \in Builds \ {b} : digest'[a] = digest[a]
    BY <1>6 DEF ReportDigest, Steps
  <2>3. UNCHANGED <<signed, handler>> /\ \A a \in Builds \ {b} : child'[a] = child[a]
    BY <1>5, <1>6 DEF Child
  <2>4. SignedOf(b)'
    BY <2>1, <2>2, <2>3 DEF SignedOf
  <2> QED
    BY <1>2, <2>2, <2>3, <2>4
<1>7. CASE CheckFinalized(b) /\ ~Fails(b)
  <2>1. /\ child[b] = "appended" /\ pending = Identity(b) /\ told' = [told EXCEPT ![b] = FileAt(pending)]
        /\ FileAt(pending).signature = FileAt(pending).content
        /\ UNCHANGED digest
    BY <1>7 DEF CheckFinalized, VerifyFinalized
  <2>2. /\ signed[b] # None /\ pending = b
        /\ handler[b] = "done" /\ signed[b].digest = digest[b] /\ digest[b] # None
        /\ digest[b].key = b /\ Verified(signed[b].digest, signed[b].directory, b)
    BY <2>1 DEF SignedInv, Identity
  <2>3. disk[b].content \in Contents /\ disk[b] # None
    BY <2>2, AtPath, NoneIsNothing DEF FilesInv
  <2>4. disk[b].content = signed[b].digest
    BY <2>1, <2>2, <2>3, NoneIsNothing DEF FilesInv, FileAt
  <2>5. told'[b] = disk[b] /\ \A a \in Builds \ {b} : told'[a] = told[a]
    BY <2>1, <2>2 DEF FileAt
  <2>6. UNCHANGED <<signed, handler>> /\ \A a \in Builds \ {b} : child'[a] = child[a]
    BY <1>5, <1>7 DEF Child
  <2>7. (Verified(signed[b].digest, signed[b].directory, b))'
          <=> Verified(signed[b].digest, signed[b].directory, b)
    BY <2>6 DEF Verified
  <2>8. SignedOf(b)'
    BY <2>1, <2>2, <2>4, <2>5, <2>6, <2>7 DEF SignedOf
  <2> QED
    BY <1>2, <2>1, <2>5, <2>6, <2>8
<1>8. CASE (Child(b) \/ ChildErrs(b) \/ ChildDies(b)) /\ UNCHANGED <<digest, told>>
  BY <1>4, <1>5, <1>8
<1>9. CASE StartBuild(b)
  BY <1>4, <1>9 DEF StartBuild
<1>10. CASE ReceiveFrame(b) \/ Abort(b) \/ ApiCrash(b)
  BY <1>4, <1>10 DEF ReceiveFrame, Abort, ApiCrash, childVars
<1>11. CASE \/ JobTimeout(b) \/ Close(b) \/ FinalVerify(b) \/ FinalTimeout(b) \/ FinalHash(b)
            \/ VerifyPending(b) \/ VerifyDigest(b) \/ Edit(b)
            \/ \E harm \in Harms : Damage(b, harm)
  BY <1>4, <1>11 DEF JobTimeout, Close, FinalVerify, FinalTimeout, FinalHash, VerifyPending,
     VerifyDigest, Edit, Damage, apiVars, childVars
<1>12. ASSUME Child(b) \/ ChildErrs(b) \/ ChildDies(b)
       PROVE  \/ ReportDigest(b) /\ ~Fails(b)
              \/ CheckFinalized(b) /\ ~Fails(b)
              \/ UNCHANGED <<digest, told>>
  BY <1>12 DEF Child, Prepare, CreatePending, Stream, ReportDigest, AcceptSignature, EndOfInput,
     CheckFinalized, LinkOutput, RemovePending, ChildErrs, ChildDies, Fails
<1> QED
  BY <1>1, <1>3, <1>6, <1>7, <1>8, <1>9, <1>10, <1>11, <1>12 DEF Api

-------------------------------------------------------------------------------
(* The paths *)

\* While an attempt is under way or has returned, the others are not.
LEMMA OneAttempt ==
  ASSUME BuilderTypeOK, SerialInv, NEW b \in Builds, parent[b] \in Active \cup {"returned"},
         NEW a \in Builds, a # b
  PROVE  parent[a] \in {"idle", "failed", "gone"}
<1>1. a < b \/ b < a
  BY DEF Builds
<1>2. CASE a < b
  BY <1>2 DEF SerialInv, Active
<1>3. CASE b < a
  BY <1>3 DEF SerialInv, Active
<1> QED
  BY <1>1, <1>2, <1>3

\* What a child does to the paths.
LEMMA ChildPaths ==
  ASSUME BuilderTypeOK, FilesInv, DigestInv, SignedInv, NEW b \in Builds,
         Child(b) \/ ChildErrs(b) \/ ChildDies(b)
  PROVE  /\ \/ pending' = pending /\ child'[b] # "completed"
            \/ pending' = None
            \/ pending' = b /\ pending = None /\ child'[b] = "writing"
         /\ \/ output' = output
            \/ output' = b /\ output = None /\ pending = b
            \/ output' = None /\ output = b
<1> USE Kinds
<1>1. child[b] \in Running
  BY ChildGoesOn
<1>2. child[b] \in {"appended", "checked", "linked"} => Identity(b) = b
  BY DEF SignedInv, Identity
<1>3. CASE Fails(b) \/ EndOfInput(b)
  BY <1>1, <1>2, <1>3 DEF Fails, EndOfInput, RemovesOutput
<1>4. CASE ChildDies(b)
  BY <1>4 DEF ChildDies, pathVars
<1>5. CASE Prepare(b) \/ Stream(b) \/ ReportDigest(b) \/ AcceptSignature(b) \/ CheckFinalized(b)
  BY <1>3, <1>5 DEF Prepare, Stream, ReportDigest, AcceptSignature, CheckFinalized, Steps
<1>6. CASE CreatePending(b) \/ LinkOutput(b) \/ RemovePending(b)
  BY <1>2, <1>3, <1>6 DEF CreatePending, LinkOutput, RemovePending, Steps
<1> QED
  BY <1>3, <1>4, <1>5, <1>6 DEF Child, ChildErrs

\* While the API runs without a crash, a child that runs is that of the build
\* under way.
LEMMA RunningIsCreating ==
  ASSUME BuilderTypeOK, ProcessInv, NoCrash, NEW b \in Builds, child[b] \in Running
  PROVE  parent[b] = "creating"
  BY Kinds DEF ProcessInv, NoCrash, Parents, Active, Running

\* Failed attempts leave nothing at the paths.
LEMMA PathsStep ==
  ASSUME BuilderTypeOK, SerialInv, ProcessInv, FilesInv, DigestInv, SignedInv, PathsInv, BuilderNext
  PROVE  PathsInv'
<1> USE Kinds
<1>1. PICK b \in Builds :
        \/ Api(b) \/ Child(b) \/ VerifyPending(b) \/ VerifyDigest(b)
        \/ ChildErrs(b) \/ ChildDies(b) \/ ApiCrash(b) \/ Edit(b)
        \/ \E harm \in Harms : Damage(b, harm)
  BY DEF BuilderNext
<1>2. SUFFICES ASSUME NoCrash'
      PROVE  /\ metadata' # None => parent'[metadata'] \in Active
             /\ pending' # None => parent'[pending'] = "creating" /\ child'[pending'] # "completed"
             /\ output' # None => parent'[output'] \in Active \cup {"returned"}
  BY DEF PathsInv
<1>3. NoCrash
  <2>1. UNCHANGED parent \/ ParentGoes(b)
    BY <1>1, ChildFrame, ParentGoesOn DEF apiVars
  <2> QED
    BY <1>2, <2>1 DEF NoCrash, ParentGoes, StartBuild, Active
<1>4. /\ metadata # None => parent[metadata] \in Active
      /\ pending # None => parent[pending] = "creating" /\ child[pending] # "completed"
      /\ output # None => parent[output] \in Active \cup {"returned"}
  BY <1>3 DEF PathsInv
<1>5. CASE Child(b) \/ ChildErrs(b) \/ ChildDies(b)
  <2>1. UNCHANGED <<parent, metadata>>
    BY <1>5, ChildFrame DEF apiVars
  <2>2. parent[b] = "creating" /\ \A a \in Builds \ {b} : child'[a] = child[a]
    BY <1>3, <1>5, ChildGoesOn, RunningIsCreating
  <2> QED
    BY <1>4, <1>5, <2>1, <2>2, ChildPaths, NoneIsNothing DEF Active
<1>6. CASE StartBuild(b)
  <2>1. /\ metadata' = b /\ UNCHANGED <<pending, output>>
        /\ parent[b] = "idle" /\ parent' = [parent EXCEPT ![b] = "creating"]
        /\ child' = [child EXCEPT ![b] = "started"]
    BY <1>6 DEF StartBuild
  <2> QED
    BY <1>4, <2>1 DEF Active
<1>7. ASSUME UNCHANGED childVars, parent[b] \in Active,
             Reject(b), pending' = None \/ (pending' = pending /\ parent[b] # "creating")
      PROVE  /\ metadata' # None => parent'[metadata'] \in Active
             /\ pending' # None => parent'[pending'] = "creating" /\ child'[pending'] # "completed"
             /\ output' # None => parent'[output'] \in Active \cup {"returned"}
  BY <1>4, <1>7 DEF Reject, childVars
<1>8. CASE Close(b)
  <2>1. CASE Reject(b) /\ pending' = None
    BY <1>7, <1>8, <2>1 DEF Close, Active
  <2>2. CASE ~(Reject(b) /\ pending' = None)
    <3>1. /\ parent[b] = "creating" /\ child[b] = "completed"
          /\ parent' = [parent EXCEPT ![b] = "finishing"]
          /\ UNCHANGED <<metadata, pending, output, child>>
      BY <1>8, <2>2 DEF Close, pathVars, childVars
    <3>2. pending = None
      BY <1>4, <3>1, OneAttempt DEF Active
    <3> QED
      BY <1>4, <3>1, <3>2 DEF Active
  <2> QED
    BY <2>1, <2>2
<1>9. CASE FinalVerify(b) \/ FinalTimeout(b) \/ FinalHash(b)
  <2>1. parent[b] \in {"finishing", "hashing"} /\ UNCHANGED <<pending, childVars>>
    BY <1>9 DEF FinalVerify, FinalTimeout, FinalHash
  <2>2. CASE Reject(b)
    BY <1>7, <2>1, <2>2 DEF Active
  <2>3. CASE ~Reject(b)
    <3>1. \/ parent' = [parent EXCEPT ![b] = "hashing"] /\ UNCHANGED <<metadata, output>>
          \/ /\ parent' = [parent EXCEPT ![b] = "returned"] /\ metadata' = None
             /\ UNCHANGED output
      BY <1>9, <2>3 DEF FinalVerify, FinalTimeout, FinalHash
    <3> QED
      BY <1>4, <2>1, <3>1 DEF Active, childVars
  <2> QED
    BY <2>2, <2>3
<1>10. CASE ApiCrash(b)
  BY <1>2, <1>10 DEF ApiCrash, NoCrash
<1>11. CASE \/ ReceiveFrame(b) \/ Sign(b) \/ Abort(b) \/ JobTimeout(b)
            \/ VerifyPending(b) \/ VerifyDigest(b) \/ Edit(b)
            \/ \E harm \in Harms : Damage(b, harm)
  BY <1>4, <1>11 DEF ReceiveFrame, Sign, Abort, JobTimeout, VerifyPending, VerifyDigest, Edit,
     Damage, apiVars, childVars, pathVars
<1> QED
  BY <1>1, <1>5, <1>6, <1>8, <1>9, <1>10, <1>11 DEF Api

\* Once an archive was returned no step touches it, not that of a child an
\* earlier attempt left behind.
LEMMA ReturnedKept ==
  ASSUME BuilderTypeOK, SerialInv, ProcessInv, FilesInv, DigestInv, SignedInv, OutputInv,
         BuilderNext, NEW b \in Builds, parent[b] = "returned"
  PROVE  output' = b /\ parent'[b] = "returned"
<1> USE Kinds
<1>1. output = b
  BY DEF OutputInv
<1>2. PICK a \in Builds :
        \/ Api(a) \/ Child(a) \/ VerifyPending(a) \/ VerifyDigest(a)
        \/ ChildErrs(a) \/ ChildDies(a) \/ ApiCrash(a) \/ Edit(a)
        \/ \E harm \in Harms : Damage(a, harm)
  BY DEF BuilderNext
<1>3. parent[a] \notin Active
  BY OneAttempt DEF Active
<1>4. CASE Child(a) \/ ChildErrs(a) \/ ChildDies(a)
  <2>1. a # b
    BY <1>4, ChildGoesOn DEF ProcessInv, Running
  <2>2. output' = output
    BY <1>1, <1>4, <2>1, ChildPaths, NoneIsNothing
  <2> QED
    BY <1>1, <1>4, <2>2, ChildFrame DEF apiVars
<1>5. CASE StartBuild(a)
  BY <1>1, <1>5 DEF StartBuild
<1>6. CASE \/ ReceiveFrame(a) \/ Sign(a) \/ Abort(a)
           \/ VerifyPending(a) \/ VerifyDigest(a) \/ Edit(a)
           \/ \E harm \in Harms : Damage(a, harm)
  BY <1>1, <1>6 DEF ReceiveFrame, Sign, Abort, VerifyPending, VerifyDigest, Edit,
     Damage, apiVars, pathVars
<1> QED
  BY <1>2, <1>3, <1>4, <1>5, <1>6 DEF Api, JobTimeout, Close, FinalVerify, FinalTimeout,
     FinalHash, ApiCrash, Active

\* What a build returns is at the path of its archive.
LEMMA OutputStep ==
  ASSUME BuilderTypeOK, SerialInv, ProcessInv, FilesInv, DigestInv, SignedInv, OutputInv,
         BuilderNext, NEW b \in Builds, parent'[b] = "returned"
  PROVE  output' = b
<1> USE Kinds
<1>1. CASE parent[b] = "returned"
  BY <1>1, ReturnedKept
<1>2. CASE parent[b] # "returned"
  <2>1. FinalHash(b) /\ ~Reject(b)
    <3>1. PICK a \in Builds :
            \/ Api(a) \/ Child(a) \/ VerifyPending(a) \/ VerifyDigest(a)
            \/ ChildErrs(a) \/ ChildDies(a) \/ ApiCrash(a) \/ Edit(a)
            \/ \E harm \in Harms : Damage(a, harm)
      BY DEF BuilderNext
    <3>2. parent' # parent
      BY <1>2
    <3>3. \/ Close(a) \/ FinalVerify(a) \/ FinalTimeout(a) \/ FinalHash(a) \/ StartBuild(a)
          \/ ApiCrash(a)
      BY <3>1, <3>2, ChildFrame DEF Api, ReceiveFrame, Sign, Abort, JobTimeout, VerifyPending,
         VerifyDigest, Edit, Damage, apiVars
    <3>4. FinalHash(a) /\ ~Reject(a) /\ a = b
      BY <1>2, <3>3 DEF Close, FinalVerify, FinalTimeout, FinalHash, StartBuild, ApiCrash, Reject
    <3> QED
      BY <3>4
  <2>2. output # None /\ FileAt(output) = told[b] /\ output' = output /\ parent[b] = "hashing"
    BY <2>1 DEF FinalHash
  <2>3. signed[b] # None /\ told[b].content = signed[b].digest /\ signed[b].digest.key = b
    BY <2>2, TypeParts DEF ProcessInv, SignedInv, Has
  <2>4. disk[output].content.key = output
    BY <2>2, AtPath
  <2> QED
    BY <2>2, <2>3, <2>4 DEF FileAt
<1> QED
  BY <1>1, <1>2

-------------------------------------------------------------------------------
(* The inductive invariant *)

\* Initially nothing was built.
LEMMA BuilderInitInv == BuilderInit => BuilderIInv
<1> SUFFICES ASSUME BuilderInit PROVE BuilderIInv
  OBVIOUS
<1> USE DEF BuilderInit
<1>1. BuilderTypeOK
  BY BuilderAssumption DEF BuilderTypeOK, Active, Running
<1>2. SerialInv /\ ProcessInv /\ FilesInv
  BY DEF SerialInv, ProcessInv, FilesInv, Running
<1>3. DigestInv /\ VerifierInv /\ SignedInv
  BY DEF DigestInv, VerifierInv, SignedInv
<1>4. PathsInv /\ OutputInv
  BY DEF PathsInv, OutputInv
<1> QED
  BY <1>1, <1>2, <1>3, <1>4 DEF BuilderIInv

\* Every step of the building keeps its invariant.
LEMMA BuilderNextInv == BuilderIInv /\ BuilderNext => BuilderIInv'
<1> SUFFICES ASSUME BuilderIInv, BuilderNext PROVE BuilderIInv'
  OBVIOUS
<1>1. /\ BuilderTypeOK /\ SerialInv /\ ProcessInv /\ FilesInv /\ DigestInv
      /\ VerifierInv /\ SignedInv /\ PathsInv /\ OutputInv
  BY DEF BuilderIInv
<1>2. BuilderTypeOK' /\ SerialInv' /\ ProcessInv'
  BY <1>1, BuilderKeepsType, SerialStep, ProcessStep
<1>3. FilesInv'
  BY <1>1, ChildFiles, OtherFiles DEF BuilderNext
<1>4. DigestInv' /\ VerifierInv' /\ SignedInv'
  BY <1>1, <1>3, DigestStep, VerifierStep, SignedStep
<1>5. PathsInv' /\ OutputInv'
  BY <1>1, PathsStep, OutputStep DEF OutputInv
<1> QED
  BY <1>2, <1>3, <1>4, <1>5 DEF BuilderIInv

\* The building depends on its own variables only, and counts faults.
LEMMA BuilderInvFrame ==
  ASSUME BuilderIInv, UNCHANGED <<source, pathVars, disk, apiVars, childVars>>,
         faults' = faults \/ Fault
  PROVE  BuilderIInv'
<1>1. BuilderTypeOK'
  BY TypeFrom DEF BuilderIInv, apiVars
<1>2. UNCHANGED <<metadata, pending, output, disk, parent, handler, verifier, seen, signed,
                  child, plan, digest, told>>
  BY DEF pathVars, apiVars, childVars
<1>3. SerialInv' /\ ProcessInv' /\ FilesInv'
  BY <1>2 DEF BuilderIInv, SerialInv, ProcessInv, FilesInv
<1>4. DigestInv' /\ SignedInv'
  BY <1>2 DEF BuilderIInv, DigestInv, SignedInv, Verified
<1>5. VerifierInv'
  BY <1>2 DEF BuilderIInv, VerifierInv, Verified
<1>6. PathsInv' /\ OutputInv'
  BY <1>2 DEF BuilderIInv, PathsInv, OutputInv, NoCrash
<1> QED
  BY <1>1, <1>3, <1>4, <1>5, <1>6 DEF BuilderIInv

\* The build that returned.
LEMMA AckReturned ==
  ASSUME BuilderIInv, Returned # {}
  PROVE  /\ Ack \in Builds /\ parent[Ack] = "returned"
         /\ signed[Ack] # None /\ told[Ack] # None /\ told[Ack].content = signed[Ack].digest
<1>1. \E b \in Builds : parent[b] = "returned"
  BY DEF Returned
<1>2. Ack \in Builds /\ parent[Ack] = "returned"
  BY <1>1 DEF Ack
<1>3. told[Ack] # None
  BY <1>2, TypeParts DEF BuilderIInv, ProcessInv, Has
<1> QED
  BY <1>2, <1>3 DEF BuilderIInv, SignedInv

\* The viewer's part: once a file was downloaded, only the copy and what is
\* opened of it change.
LEMMA ReaderStep ==
  ASSUME IInv, Download \/ VerifyArchive \/ Open \/ Swap \/ DamageCopy \/ CloseArchive
  PROVE  IInv'
<1>1. BuilderIInv' /\ UNCHANGED <<parent, signed, disk>>
  <2>1. CASE Download \/ VerifyArchive \/ Open \/ CloseArchive
    <3>1. UNCHANGED builderVars
      BY <2>1 DEF Download, VerifyArchive, Open, CloseArchive
    <3> QED
      BY <3>1, BuilderInvFrame DEF IInv, builderVars, apiVars
  <2>2. CASE Swap \/ DamageCopy
    BY <2>2, BuilderInvFrame DEF IInv, Swap, DamageCopy, apiVars
  <2> QED
    BY <2>1, <2>2
<1>2. UNCHANGED Returned /\ UNCHANGED Ack
  BY <1>1 DEF Returned, Ack
<1>3. /\ copy \in Files \cup {None} /\ here \in {"own", "other", None}
      /\ here # None => copy # None /\ Returned # {}
      /\ verified # None => verified.file \in {"own", "other"}
      /\ held # None => verified # None
      /\ verified # None => here # None
      /\ OpensWhatWasSigned /\ HeldInv
  BY DEF IInv, TypeOK
<1>4. ASSUME /\ copy' \in Files \cup {None} /\ here' \in {"own", "other", None}
             /\ here' # None => copy' # None /\ Returned # {}
             /\ verified' # None => verified'.file \in {"own", "other"}
             /\ held' # None => verified' # None
             /\ verified' # None => here' # None
             /\ held' # None => held' = signed[Ack].digest,
             HeldInv'
      PROVE  IInv'
  BY <1>1, <1>2, <1>4 DEF IInv, TypeOK, OpensWhatWasSigned, BuilderIInv
<1>5. CASE Download
  <2>1. disk[output] \in Files
    BY <1>5, AtPath DEF Download, IInv, BuilderIInv
  <2>2. held = None /\ UNCHANGED held
    BY <1>3, <1>5 DEF Download
  <2>3. HeldInv'
    BY <2>2 DEF HeldInv
  <2> QED
    BY <1>3, <1>4, <1>5, <2>1, <2>2, <2>3, NoneIsNothing DEF Download, Quiet
<1>6. CASE VerifyArchive
  <2>1. held = None /\ UNCHANGED held
    BY <1>3, <1>6 DEF VerifyArchive
  <2>2. HeldInv'
    BY <2>1 DEF HeldInv
  <2> QED
    BY <1>3, <1>4, <1>6, <2>1, <2>2 DEF VerifyArchive
<1>7. CASE Open
  <2>1. /\ held' = told[Ack].content /\ UNCHANGED <<copy, here, verified>>
        /\ here # None /\ verified # None /\ here = verified.file
        /\ held' = File(here).content
    BY <1>3, <1>7 DEF Open
  <2>2. held' = signed[Ack].digest
    BY <1>3, <2>1, AckReturned DEF IInv
  <2>3. told[Ack].content.key \in Builds
    BY <1>3, <2>1, AckReturned, Kinds, FilesWritten, ContentFields DEF IInv, BuilderIInv
  <2>4. here = "own"
    <3>1. 0 \notin Builds
      BY BuilderAssumption DEF Builds
    <3>2. Other.content.key = 0
      BY DEF Other
    <3>3. here # "own" => File(here) = Other
      BY DEF File
    <3> QED
      BY <1>3, <2>1, <2>3, <3>1, <3>2, <3>3
  <2>5. held' = copy.content
    BY <2>1, <2>4 DEF File
  <2>6. HeldInv'
    BY <2>1, <2>4, <2>5 DEF HeldInv, Worn
  <2> QED
    BY <1>3, <1>4, <2>1, <2>2, <2>6
<1>8. ASSUME Fault PROVE faults' # 0
  BY <1>8, TypeParts DEF Fault, IInv, BuilderIInv
<1>9. CASE Swap
  <2>1. UNCHANGED <<copy, verified, held>> /\ Fault
    BY <1>9 DEF Swap
  <2>2. HeldInv'
    BY <1>3, <1>8, <2>1 DEF HeldInv
  <2> QED
    BY <1>3, <1>4, <1>9, <2>1, <2>2, ReaderAssumption DEF Swap, OpensWhatWasSigned
<1>10. CASE DamageCopy
  <2>1. PICK harm \in Harms \cap Sections : copy' = [copy EXCEPT !.content.harm = harm]
    BY <1>10 DEF DamageCopy
  <2>2. copy \in Files /\ copy.content \in Contents
    BY <1>3, <1>10, FilesWritten DEF DamageCopy
  <2>3. PICK c : c = [copy.content EXCEPT !.harm = harm]
    OBVIOUS
  <2>4. c \in Contents
    BY <2>2, <2>3 DEF Contents
  <2>5. copy' = [copy EXCEPT !.content = c]
    BY <2>1, <2>3
  <2>6. copy' \in Files /\ copy'.content = c
    BY <2>2, <2>4, <2>5 DEF Files
  <2>7. /\ c.key = copy.content.key /\ c.header = copy.content.header
        /\ c.planned = copy.content.planned /\ c.streamed = copy.content.streamed
    BY <2>2, <2>3 DEF Contents
  <2>8. UNCHANGED <<verified, held>> /\ Fault
    BY <1>10 DEF DamageCopy
  <2>9. HeldInv'
    BY <1>3, <1>8, <2>6, <2>7, <2>8 DEF HeldInv, Worn
  <2> QED
    BY <1>3, <1>4, <1>10, <2>6, <2>9, NoneIsNothing DEF DamageCopy, OpensWhatWasSigned
<1>11. CASE CloseArchive
  <2>1. HeldInv'
    BY <1>11 DEF CloseArchive, HeldInv
  <2> QED
    BY <1>3, <1>4, <1>11, <2>1 DEF CloseArchive
<1> QED
  BY <1>5, <1>6, <1>7, <1>9, <1>10, <1>11

\* It holds initially.
LEMMA InitIInv == Init => IInv
  BY BuilderInitInv DEF Init, IInv, TypeOK, OpensWhatWasSigned, HeldInv, BuilderIInv

\* Every step keeps it.
LEMMA NextIInv == IInv /\ [Next]_vars => IInv'
<1> SUFFICES ASSUME IInv, [Next]_vars PROVE IInv'
  OBVIOUS
<1>1. CASE here = None /\ BuilderNext /\ UNCHANGED readerVars
  <2>1. BuilderIInv'
    BY <1>1, BuilderNextInv DEF IInv
  <2> QED
    BY <1>1, <2>1 DEF IInv, TypeOK, OpensWhatWasSigned, HeldInv, readerVars, BuilderIInv
<1>2. CASE Download \/ VerifyArchive \/ Open \/ Swap \/ DamageCopy \/ CloseArchive
  BY <1>2, ReaderStep
<1>3. CASE UNCHANGED vars
  <2>1. BuilderIInv' /\ UNCHANGED <<parent, signed, copy, here, verified, held, faults>>
    BY <1>3, BuilderInvFrame DEF vars, builderVars, readerVars, IInv, apiVars
  <2> QED
    BY <2>1 DEF IInv, TypeOK, OpensWhatWasSigned, HeldInv, Returned, Ack, BuilderIInv
<1> QED
  BY <1>1, <1>2, <1>3 DEF Next

\* It is an invariant.
LEMMA Invariance == Spec => []IInv
BY InitIInv, NextIInv, PTL DEF Spec

-------------------------------------------------------------------------------
(* What is read *)

\* What passed the verifier's checks is whole, and is checked.
LEMMA VerifiedIsWhole ==
  ASSUME NEW c \in Contents, NEW d, NEW b, c.harm # "cut", Verified(c, d, b)
  PROVE  c.harm = "none" /\ Checked(c, b)
<1>1. PICK header \in Builds : ProtectedContents(c, d, header, b)
  BY DEF Verified
<1>2. /\ Bytes(c).prelude # Garbage
      /\ Bytes(c).header = header /\ Bytes(c).prefix = KeyId
      /\ Readable(Bytes(c), b) /\ DataMatches(Bytes(c), b)
  BY <1>1 DEF Verified, SectionRanges, ProtectedContents, SignedBy
<1>3. OfDirectories(c)
  BY DEF OfDirectories, Contents
<1>4. c.harm \notin {"manifest", "index", "data"}
  BY <1>2, <1>3, ReadableIsConsistent, DataIsWhole
<1>5. c.harm # "prelude" /\ c.harm # "header" /\ c.harm # "prefix"
  BY <1>2, BuilderAssumption, ContainerAssumption DEF Bytes
<1>6. c.harm \in {"none", "cut"} \cup Sections
  BY DEF Contents
<1> QED
  BY <1>2, <1>3, <1>4, <1>5, <1>6 DEF Checked, Sections

\* The files of what passed are those of the directory the verifier saw.
LEMMA VerifiedFiles ==
  ASSUME NEW c \in Contents, NEW d \in DOMAIN Directories, NEW b, Verified(c, d, b),
         NEW k \in DOMAIN Discover(d)
  PROVE  /\ k \in DOMAIN Bytes(c).manifest.plain.files
         /\ Bytes(c).manifest.plain.files[k].hash = Discover(d)[k].bytes
         /\ Bytes(c).manifest.plain.files[k].size = Len(Discover(d)[k].bytes)
         /\ Discover(d)[k].bytes \in Seq(Nat)
<1> DEFINE files == Bytes(c).manifest.plain.files
           listed == Discover(d)
<1>1. PICK header \in Builds : ProtectedContents(c, d, header, b)
  BY DEF Verified
<1>2. /\ Len(files) = Len(listed)
      /\ \A j \in DOMAIN files : files[j].hash = listed[j].bytes /\ files[j].size = Len(listed[j].bytes)
      /\ Readable(Bytes(c), b)
  BY <1>1 DEF ProtectedContents, SourceMatches
<1>3. files = Manifest(c.header, Discover(c.planned)).files
  <2>1. OfDirectories(c)
    BY DEF OfDirectories, Contents
  <2> QED
    BY <1>2, <2>1, ReadableIsConsistent
<1>4. DOMAIN files = 1..Len(files)
  <2>1. c.planned \in DOMAIN Directories
    BY DEF Contents
  <2> QED
    BY <1>3, <2>1, ManifestFiles
<1>5. DOMAIN listed = 1..Len(listed) /\ \A j \in DOMAIN listed : listed[j].bytes \in Seq(Nat)
  BY ListedFiles
<1> HIDE DEF files, listed
<1>6. k \in DOMAIN files /\ k \in DOMAIN listed
  BY <1>2, <1>4, <1>5 DEF listed
<1> QED
  BY <1>2, <1>5, <1>6 DEF files, listed

\* A new signature is over what passed the checks of the verifier.
LEMMA SignsWhatPassed ==
  ASSUME IInv, [Next]_vars, NEW b \in Builds, signed'[b] # signed[b]
  PROVE  /\ signed'[b].digest = digest[b] /\ Verified(signed'[b].digest, signed'[b].directory, b)
         /\ signed'[b] \in Signatures /\ digest[b] # None
<1>1. PICK a \in Builds : Sign(a)
  <2>1. signed' # signed
    OBVIOUS
  <2>2. BuilderNext
    BY <2>1 DEF Next, Download, VerifyArchive, Open, Swap, DamageCopy, CloseArchive, vars,
       builderVars, apiVars
  <2>3. PICK a \in Builds :
          \/ Api(a) \/ Child(a) \/ VerifyPending(a) \/ VerifyDigest(a)
          \/ ChildErrs(a) \/ ChildDies(a) \/ ApiCrash(a) \/ Edit(a)
          \/ \E harm \in Harms : Damage(a, harm)
    BY <2>2 DEF BuilderNext
  <2>4. Sign(a)
    BY <2>1, <2>3, ChildFrame DEF Api, StartBuild, ReceiveFrame, Abort, JobTimeout, Close,
       FinalVerify, FinalTimeout, FinalHash, VerifyPending, VerifyDigest, ApiCrash, Edit,
       Damage, apiVars
  <2> QED
    BY <2>4
<1>2. BuilderTypeOK /\ VerifierInv /\ SignedInv
  BY DEF IInv, BuilderIInv
<1>3. signed \in [Builds -> Signatures \cup {None}]
  BY <1>2, Kinds
<1>4. PICK s : signed' = signed \/ signed' = [signed EXCEPT ![a] = s]
  BY <1>1 DEF Sign
<1>5. a = b
  BY <1>3, <1>4
<1>6. signed' \in [Builds -> Signatures \cup {None}]
  BY <1>1, <1>2, SignType, TypeParts DEF ApiType
<1>7. signed[b] = None /\ digest[b] # None
  BY <1>1, <1>2, <1>5 DEF Sign, SignedInv, VerifierInv
<1>8. signed'[b] \in Signatures
  BY <1>6, <1>7
<1> QED
  BY <1>1, <1>2, <1>5, <1>7, <1>8, SignSigned

\* What the API signs is a content that passed, not cut short.
LEMMA SignedIsVerified ==
  ASSUME BuilderTypeOK, DigestInv, SignedInv, NEW b \in Builds, signed[b] # None
  PROVE  /\ signed[b].digest \in Contents /\ signed[b].digest.harm # "cut"
         /\ signed[b].directory \in DOMAIN Directories
         /\ Verified(signed[b].digest, signed[b].directory, b)
<1>1. signed[b] \in Signatures
  BY TypeParts DEF ApiType
<1>2. signed[b].digest \in Contents /\ signed[b].directory \in DOMAIN Directories
  BY <1>1 DEF Signatures
<1>3. signed[b].digest.harm # "cut" /\ Verified(signed[b].digest, signed[b].directory, b)
  BY DEF SignedInv, DigestInv
<1> QED
  BY <1>2, <1>3

\* What passed reads back.
LEMMA VerifiedReadsBack ==
  ASSUME NEW b, NEW s, s.digest \in Contents, s.digest.harm # "cut",
         s.directory \in DOMAIN Directories, Verified(s.digest, s.directory, b)
  PROVE  ReadsBack(b, s)
<1>1. PICK c \in Contents, d \in DOMAIN Directories : c = s.digest /\ d = s.directory
  OBVIOUS
<1>2. c.harm = "none" /\ Checked(c, b) /\ Worn(c, c) /\ Verified(c, d, b)
  BY <1>1, VerifiedIsWhole DEF Worn
<1>3. ASSUME NEW k \in DOMAIN Discover(d)
      PROVE  LET bytes == Discover(d)[k].bytes IN
             /\ ReadCompleteFile(c, c, b, k) = bytes
             /\ \A offset \in 0..Len(bytes) : \A length \in 0..MinOf(MaxRead, Len(bytes) - offset) :
                  ReadFileRange(c, c, b, k, offset, length) = SubSeq(bytes, offset + 1, offset + length)
  <2>1. PICK bytes \in Seq(Nat) : bytes = Discover(d)[k].bytes
    BY <1>2, VerifiedFiles
  <2>2. /\ k \in DOMAIN Bytes(c).manifest.plain.files
        /\ Bytes(c).manifest.plain.files[k].hash = bytes
        /\ Bytes(c).manifest.plain.files[k].size = Len(bytes)
    BY <1>2, <2>1, VerifiedFiles
  <2>3. ReadCompleteFile(c, c, b, k) = bytes
    BY <1>2, <2>2, CompleteRead
  <2>4. ASSUME NEW offset \in 0..Len(bytes), NEW length \in 0..MinOf(MaxRead, Len(bytes) - offset)
        PROVE  ReadFileRange(c, c, b, k, offset, length) = SubSeq(bytes, offset + 1, offset + length)
    <3>1. /\ offset \in Nat /\ length \in Nat
          /\ ~(length > MaxRead \/ offset + length > Len(bytes))
      BY ContainerAssumption DEF MinOf
    <3>2. RangeAnswer(ReadFileRange(c, c, b, k, offset, length), c = c, bytes, offset, length)
      BY <1>2, <2>2, <3>1, RangeRead
    <3> QED
      BY <3>1, <3>2 DEF RangeAnswer
  <2> QED
    BY <2>1, <2>3, <2>4
<1> QED
  BY <1>1, <1>2, <1>3 DEF ReadsBack

-------------------------------------------------------------------------------
(* The theorems *)

\* The variables of the build, of the disk and of the viewer keep their types.
THEOREM TypeCorrect == Spec => []TypeOK
BY Invariance, PTL DEF IInv

\* However children fail, die, hang and are killed: while the API itself did not
\* crash, failed attempts leave no pending file, no metadata and no output.
THEOREM LeavesNothing == Spec => []NothingLeftBehind
<1>1. IInv => NothingLeftBehind
  <2> SUFFICES ASSUME IInv, \A b \in Builds : parent[b] \in {"idle", "returned", "failed"}
               PROVE  /\ pending = None /\ metadata = None
                      /\ output # None => parent[output] = "returned"
    BY DEF NothingLeftBehind
  <2>1. NoCrash
    BY DEF NoCrash
  <2>2. PathsInv /\ pending \in Builds \cup {None} /\ metadata \in Builds \cup {None}
        /\ output \in Builds \cup {None}
    BY Kinds DEF IInv, BuilderIInv
  <2> QED
    BY <2>1, <2>2 DEF PathsInv, Active
<1> QED
  BY <1>1, Invariance, PTL

\* A returned archive stays at its path, although children of attempts that a
\* crash of the API cut off still run, fail and clean up.
THEOREM ReturnedArchiveStays == Spec => ReturnedStays
<1>1. ASSUME IInv, [Next]_vars, NEW b \in Builds, parent[b] = "returned"
      PROVE  output = b /\ output' = b
  <2>1. output = b
    BY <1>1 DEF IInv, BuilderIInv, OutputInv
  <2>2. CASE BuilderNext
    BY <1>1, <2>1, <2>2, ReturnedKept DEF IInv, BuilderIInv
  <2>3. CASE ~BuilderNext
    BY <1>1, <2>1, <2>3 DEF Next, Download, VerifyArchive, Open, Swap, DamageCopy, CloseArchive,
       vars, builderVars, pathVars
  <2> QED
    BY <2>1, <2>2, <2>3
<1>2. IInv /\ [Next]_vars => [\A b \in Builds : parent[b] = "returned" => output = b /\ output' = b]_vars
  BY <1>1
<1> QED
  BY <1>2, Invariance, PTL DEF Spec, ReturnedStays

\* What the API signs passed the checks of its verifier, of the directory that
\* verifier saw, whatever other children, edits and damage do to the file between
\* the digest, the checks and the signature.
THEOREM SignsVerified == Spec => SignsWhatItVerified
<1>1. ASSUME IInv, [Next]_vars, NEW b \in Builds, signed'[b] # signed[b]
      PROVE  signed'[b].digest = digest[b] /\ Verified(signed'[b].digest, signed'[b].directory, b)
  BY <1>1, SignsWhatPassed
<1>2. IInv /\ [Next]_vars =>
        [\A b \in Builds : signed'[b] # signed[b] =>
           /\ signed'[b].digest = digest[b]
           /\ Verified(signed'[b].digest, signed'[b].directory, b)]_vars
  BY <1>1
<1> QED
  BY <1>2, Invariance, PTL DEF Spec, SignsWhatItVerified

\* What the viewer opens is what the API signed for the build it returned,
\* whatever the user puts at the path and storage does to the copy.
THEOREM OpensSigned == Spec => []OpensWhatWasSigned
BY Invariance, PTL DEF IInv

\* Whatever the API puts its signature to reads back, byte for byte, in every
\* range and as a whole: no damage, edit, crash or leftover child of an earlier
\* attempt gets a signature for a container that does not.
THEOREM SignsReadable == Spec => SignsOnlyWhatReadsBack
<1>1. ASSUME IInv, [Next]_vars, NEW b \in Builds, signed'[b] # signed[b]
      PROVE  ReadsBack(b, signed'[b])
  <2>1. /\ signed'[b].digest = digest[b] /\ Verified(signed'[b].digest, signed'[b].directory, b)
        /\ signed'[b] \in Signatures /\ digest[b] # None
    BY <1>1, SignsWhatPassed
  <2>2. signed'[b].digest.harm # "cut"
    BY <1>1, <2>1 DEF IInv, BuilderIInv, DigestInv
  <2>3. signed'[b].digest \in Contents /\ signed'[b].directory \in DOMAIN Directories
    BY <2>1 DEF Signatures
  <2>4. PICK s : s = signed'[b]
    OBVIOUS
  <2> QED
    BY <2>1, <2>2, <2>3, <2>4, VerifiedReadsBack
<1>2. IInv /\ [Next]_vars =>
        [\A b \in Builds : signed'[b] # signed[b] => ReadsBack(b, signed'[b])]_vars
  BY <1>1
<1> QED
  BY <1>2, Invariance, PTL DEF Spec, SignsOnlyWhatReadsBack

\* The viewer shows the files that were packed: whatever the user moves and
\* storage damages after the archive was opened, a read answers those bytes or
\* refuses, and refuses only for the limits of a read while nothing went wrong.
THEOREM AnswersTheSource == Spec => []AnswersAreTheSource
<1>1. IInv => AnswersAreTheSource
  <2> SUFFICES ASSUME IInv, held # None PROVE AnswersAreTheSource
    BY DEF AnswersAreTheSource
  <2>1. PICK c, now, d, b : c = held /\ now = copy.content /\ d = signed[Ack].directory /\ b = Ack
    OBVIOUS
  <2>2. /\ c \in Contents /\ d \in DOMAIN Directories
        /\ c.harm # "cut" /\ Verified(c, d, b) /\ Worn(c, now)
        /\ verified.file = "own" /\ (faults = 0 => now = c /\ here = "own")
    <3>1. Returned # {}
      BY DEF IInv, TypeOK
    <3>2. Ack \in Builds /\ signed[Ack] # None
      BY <3>1, AckReturned DEF IInv
    <3>3. held = signed[Ack].digest /\ HeldInv
      BY DEF IInv, OpensWhatWasSigned
    <3> QED
      BY <2>1, <3>2, <3>3, SignedIsVerified DEF IInv, BuilderIInv, HeldInv
  <2>3. Checked(c, b)
    BY <2>2, VerifiedIsWhole
  <2>4. ASSUME NEW k \in DOMAIN Discover(d)
        PROVE  LET bytes == Discover(d)[k].bytes
                   Allowed(x) == IF faults = 0 THEN {x} ELSE {x, Refused}
               IN /\ Complete(k) \in Allowed(bytes)
                  /\ \A offset \in 0..Len(bytes) : \A length \in 0..(Len(bytes) - offset + 1) :
                       ReadRange(k, offset, length) \in
                         IF length > MaxRead \/ offset + length > Len(bytes) THEN {Refused}
                           ELSE Allowed(SubSeq(bytes, offset + 1, offset + length))
    <3>1. PICK bytes \in Seq(Nat) : bytes = Discover(d)[k].bytes
      BY <2>2, VerifiedFiles
    <3>2. /\ k \in DOMAIN Bytes(c).manifest.plain.files
          /\ Bytes(c).manifest.plain.files[k].hash = bytes
          /\ Bytes(c).manifest.plain.files[k].size = Len(bytes)
      BY <2>2, <3>1, VerifiedFiles
    <3>3. Complete(k) \in IF faults = 0 THEN {bytes} ELSE {bytes, Refused}
      <4>1. /\ ReadCompleteFile(c, now, b, k) \in {bytes, Refused}
            /\ now = c => ReadCompleteFile(c, now, b, k) = bytes
        BY <2>2, <2>3, <3>2, CompleteRead
      <4>2. Complete(k) = IF here = "own" THEN ReadCompleteFile(c, now, b, k) ELSE Refused
        BY <2>1, <2>2 DEF Complete, Answer, File
      <4> QED
        BY <2>2, <4>1, <4>2
    <3>4. ASSUME NEW offset \in 0..Len(bytes), NEW length \in 0..(Len(bytes) - offset + 1)
          PROVE  ReadRange(k, offset, length) \in
                   IF length > MaxRead \/ offset + length > Len(bytes) THEN {Refused}
                     ELSE IF faults = 0 THEN {SubSeq(bytes, offset + 1, offset + length)}
                     ELSE {SubSeq(bytes, offset + 1, offset + length), Refused}
      <4>1. offset \in Nat /\ length \in Nat
        OBVIOUS
      <4>2. RangeAnswer(ReadFileRange(c, now, b, k, offset, length), now = c, bytes, offset, length)
        <5>1. Checked(c, b) /\ Worn(c, now)
          BY <2>2, <2>3
        <5> QED
          BY <3>2, <4>1, <5>1, RangeRead
      <4>3. ReadRange(k, offset, length) =
              IF here = "own" THEN ReadFileRange(c, now, b, k, offset, length) ELSE Refused
        BY <2>1, <2>2 DEF ReadRange, Answer, File
      <4> QED
        BY <2>2, <4>2, <4>3 DEF RangeAnswer
    <3> QED
      BY <3>1, <3>3, <3>4
  <2> QED
    BY <2>1, <2>4 DEF AnswersAreTheSource
<1> QED
  BY <1>1, Invariance, PTL
===============================================================================
