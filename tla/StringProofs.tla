---------------------------- MODULE StringProofs ----------------------------
(***************************************************************************)
(* Lemmas about the operators on sequences that the loops over characters  *)
(* are specified with: the first place of a symbol, concatenations and     *)
(* their parts, and the ranks of the elements of a set.                    *)
(***************************************************************************)
EXTENDS Integers, Sequences, SequencesExt, SequenceTheorems, FiniteSetTheorems, WellFoundedInduction,
        NaturalsInduction, TLAPS

\* A non-empty set of natural numbers has a least element, and Min is it.
LEMMA MinIsElement ==
  ASSUME NEW S, S \subseteq Nat, S # {}
  PROVE  Min(S) \in S /\ \A j \in S : Min(S) <= j
<1> DEFINE Before == {ss \in Nat \X Nat : ss[1] < ss[2]}
<1>1. IsWellFoundedOn(Before, Nat)
  BY NatLessThanWellFounded DEF OpToRel
<1> HIDE DEF Before
<1>2. PICK x \in S : \A y \in S : <<y, x>> \notin Before
  BY <1>1, WFMin
<1>3. ASSUME NEW y \in S PROVE x <= y
  <2>1. <<y, x>> \in Nat \X Nat /\ <<y, x>>[1] = y /\ <<y, x>>[2] = x
    OBVIOUS
  <2>2. ~(y < x)
    BY <2>1, <1>2 DEF Before
  <2> QED
    BY <2>2
<1> QED
  BY <1>3 DEF Min

-----------------------------------------------------------------------------
(* Concatenations *)

\* The symbols o + 1 up to n of a string.
LEMMA PartOfString ==
  ASSUME NEW S, NEW s \in Seq(S), NEW o \in Nat, NEW n \in Nat, o <= n, n <= Len(s)
  PROVE  /\ SubSeq(s, o + 1, n) \in Seq(S) /\ Len(SubSeq(s, o + 1, n)) = n - o
         /\ \A k \in 1..n - o : SubSeq(s, o + 1, n)[k] = s[o + k]
<1> DEFINE p == SubSeq(s, o + 1, n)
<1>1. o + 1 \in Int /\ n \in Int /\ \A k \in o + 1..n : s[k] \in S
  OBVIOUS
<1>2. /\ p \in Seq(S)
      /\ Len(p) = IF o + 1 <= n THEN n - (o + 1) + 1 ELSE 0
      /\ \A k \in 1..n - (o + 1) + 1 : p[k] = s[(o + 1) + k - 1]
  BY <1>1, SubSeqProperties
<1> HIDE DEF p
<1>3. Len(p) = n - o
  BY <1>2
<1>4. \A k \in 1..n - o : k \in 1..n - (o + 1) + 1 /\ (o + 1) + k - 1 = o + k
  OBVIOUS
<1> QED
  BY <1>2, <1>3, <1>4 DEF p

\* The part in the middle of a concatenation.
LEMMA MiddlePart ==
  ASSUME NEW S, NEW x \in Seq(S), NEW y \in Seq(S), NEW z \in Seq(S)
  PROVE  /\ SubSeq(x \o y \o z, Len(x) + 1, Len(x) + Len(y)) = y
         /\ SubSeq(x \o (y \o z), Len(x) + 1, Len(x) + Len(y)) = y
<1> DEFINE w == x \o y \o z
<1>1. w \in Seq(S) /\ Len(w) = Len(x) + Len(y) + Len(z)
  OBVIOUS
<1>2. Len(x) \in Nat /\ Len(y) \in Nat /\ Len(z) \in Nat
  OBVIOUS
<1>3. \A k \in 1..Len(y) : w[Len(x) + k] = y[k]
  OBVIOUS
<1>4. x \o (y \o z) = w
  BY ConcatAssociative
<1>5. \A k \in Len(x) + 1..Len(x) + Len(y) : w[k] \in S
  BY <1>1, <1>2
<1> HIDE DEF w
<1>6. LET v == SubSeq(w, Len(x) + 1, Len(x) + Len(y))
      IN  v \in Seq(S) /\ Len(v) = Len(y) /\ \A k \in 1..Len(y) : v[k] = w[Len(x) + k]
  BY <1>2, <1>5, SubSeqProperties
<1>7. SubSeq(w, Len(x) + 1, Len(x) + Len(y)) = y
  BY <1>3, <1>6, SeqEqual
<1> QED
  BY <1>4, <1>7 DEF w

\* A flattened sequence is made of one element after the other.  It is a
\* recursive function, which is there because no prefix can be the first one
\* that has none.
LEMMA FlattenedPrefixes ==
  ASSUME NEW S, NEW seqs \in Seq(Seq(S))
  PROVE  \E f \in [0..Len(seqs) -> Seq(S)] :
           /\ f[0] = <<>>
           /\ \A n \in 1..Len(seqs) : f[n] = f[n - 1] \o seqs[n]
           /\ FlattenSeq(seqs) = f[Len(seqs)]
<1> DEFINE L == Len(seqs)
           IsPrefixes(f, n) ==
             /\ f \in [0..n -> Seq(S)] /\ f[0] = <<>>
             /\ \A k \in 1..n : f[k] = f[k - 1] \o seqs[k]
           Bad == {n \in 0..L : \A f : ~IsPrefixes(f, n)}
<1>1. L \in Nat /\ \A n \in 1..L : seqs[n] \in Seq(S)
  OBVIOUS
<1>2. Bad = {}
  <2> SUFFICES ASSUME Bad # {} PROVE FALSE
    OBVIOUS
  <2> HIDE DEF IsPrefixes
  <2>1. Bad \subseteq Nat
    BY <1>1
  <2> DEFINE b == Min(Bad)
  <2>2. b \in Bad /\ \A n \in Bad : b <= n
    BY <2>1, MinIsElement
  <2> HIDE DEF b
  <2>3. b \in 0..L /\ \A f : ~IsPrefixes(f, b)
    BY <2>2
  <2>4. b # 0
    <3>1. IsPrefixes([k \in 0..0 |-> <<>>], 0)
      BY DEF IsPrefixes
    <3> QED
      BY <2>3, <3>1
  <2>5. b - 1 \in 0..L /\ b - 1 \notin Bad
    <3> HIDE DEF Bad, L
    <3> QED
      BY <1>1, <2>2, <2>3, <2>4
  <2>6. PICK f : IsPrefixes(f, b - 1)
    BY <2>5
  <2>7. /\ f \in [0..b - 1 -> Seq(S)] /\ f[0] = <<>>
        /\ \A k \in 1..b - 1 : f[k] = f[k - 1] \o seqs[k]
    BY <2>6 DEF IsPrefixes
  <2> DEFINE g == [k \in 0..b |-> IF k = b THEN f[b - 1] \o seqs[b] ELSE f[k]]
  <2>8. f[b - 1] \o seqs[b] \in Seq(S)
    BY <1>1, <2>3, <2>4, <2>7
  <2>9. g \in [0..b -> Seq(S)]
    BY <1>1, <2>3, <2>4, <2>7, <2>8
  <2>10. g[0] = <<>>
    BY <2>3, <2>4, <2>7
  <2>11. \A k \in 1..b : g[k] = g[k - 1] \o seqs[k]
    <3> TAKE k \in 1..b
    <3>1. k \in 0..b /\ k - 1 \in 0..b - 1 /\ k - 1 \in 0..b /\ k - 1 # b /\ b \in 0..b
      BY <2>3, <2>4
    <3>4. g[k - 1] = f[k - 1] /\ g[b] = f[b - 1] \o seqs[b]
      BY <3>1
    <3>2. CASE k = b
      BY <3>2, <3>4
    <3>3. CASE k # b
      <4>1. k \in 1..b - 1
        BY <2>3, <3>3
      <4>2. g[k] = f[k]
        BY <3>1, <3>3
      <4> QED
        BY <2>7, <3>4, <4>1, <4>2
    <3> QED
      BY <3>2, <3>3
  <2> HIDE DEF g
  <2>12. IsPrefixes(g, b)
    BY <2>9, <2>10, <2>11 DEF IsPrefixes
  <2> QED
    BY <2>3, <2>12
<1>3. PICK f : IsPrefixes(f, L)
  <2>1. L \in 0..L /\ L \notin Bad
    <3> HIDE DEF Bad, L
    <3> QED
      BY <1>1, <1>2
  <2> HIDE DEF IsPrefixes, L
  <2> QED
    BY <2>1
<1>4. /\ f \in [0..L -> Seq(S)] /\ f[0] = <<>>
      /\ \A k \in 1..L : f[k] = f[k - 1] \o seqs[k]
  BY <1>3 DEF IsPrefixes
<1> HIDE DEF IsPrefixes, Bad
<1>5. CASE L = 0
  <2>1. seqs = <<>>
    BY <1>5
  <2>2. FlattenSeq(seqs) = <<>>
    BY <2>1 DEF FlattenSeq
  <2> QED
    BY <1>4, <1>5, <2>2
<1>6. CASE L # 0
  <2> DEFINE Rec(h) == [n \in 1..L |-> IF n = 1 THEN seqs[n] ELSE h[n - 1] \o seqs[n]]
             F == CHOOSE h : h = Rec(h)
             f1 == [n \in 1..L |-> f[n]]
  <2>1. f1 = Rec(f1)
    <3>1. ASSUME NEW n \in 1..L
          PROVE  f1[n] = IF n = 1 THEN seqs[n] ELSE f1[n - 1] \o seqs[n]
      <4>1. f1[n] = f[n] /\ f[n] = f[n - 1] \o seqs[n] /\ seqs[n] \in Seq(S)
        BY <1>1, <1>4
      <4>2. CASE n = 1
        <5>1. f[n - 1] = <<>>
          BY <1>4, <4>2
        <5>2. f[n] = <<>> \o seqs[n]
          BY <4>1, <5>1
        <5> QED
          BY <4>1, <4>2, <5>2, ConcatEmptySeq
      <4>3. CASE n # 1
        <5>1. n - 1 \in 1..L /\ f1[n - 1] = f[n - 1]
          BY <1>1, <4>3
        <5> QED
          BY <4>1, <4>3, <5>1
      <4> QED
        BY <4>2, <4>3
    <3> HIDE DEF L
    <3> QED
      BY <3>1
  <2>2. F = Rec(F)
    BY <2>1
  <2>3. FlattenSeq(seqs) = F[L]
    BY <1>6 DEF FlattenSeq
  <2> HIDE DEF F, f1
  <2>4. \A n \in 1..L : F[n] = IF n = 1 THEN seqs[n] ELSE F[n - 1] \o seqs[n]
    BY <2>2
  <2>5. \A n \in 1..L : F[n] = f[n]
    <3> DEFINE Differ == {n \in 1..L : F[n] # f[n]}
    <3> SUFFICES ASSUME Differ # {} PROVE FALSE
      OBVIOUS
    <3>1. Differ \subseteq Nat
      BY <1>1
    <3> DEFINE d == Min(Differ)
    <3>2. d \in Differ /\ \A n \in Differ : d <= n
      BY <3>1, MinIsElement
    <3> HIDE DEF d
    <3>3. d \in 1..L /\ F[d] # f[d] /\ f[d] = f[d - 1] \o seqs[d] /\ seqs[d] \in Seq(S)
      BY <1>1, <1>4, <3>2
    <3>4. CASE d = 1
      <4>1. f[d - 1] = <<>>
        BY <1>4, <3>4
      <4>2. f[d] = <<>> \o seqs[d]
        BY <3>3, <4>1
      <4>3. f[d] = seqs[d]
        BY <3>3, <4>2, ConcatEmptySeq
      <4> QED
        BY <2>4, <3>3, <3>4, <4>3
    <3>5. CASE d # 1
      <4>1. d - 1 \in 1..L /\ d - 1 \notin Differ
        BY <1>1, <3>2, <3>3, <3>5
      <4>2. F[d - 1] = f[d - 1]
        BY <4>1
      <4>3. F[d] = F[d - 1] \o seqs[d]
        BY <2>4, <3>3, <3>5
      <4> QED
        BY <3>3, <4>2, <4>3
    <3> QED
      BY <3>4, <3>5
  <2>6. FlattenSeq(seqs) = f[L]
    BY <1>1, <1>6, <2>3, <2>5
  <2> QED
    BY <1>4, <2>6
<1> QED
  BY <1>5, <1>6

\* Bounds that add up what is not negative ascend, and every place up to the
\* last of them is behind one and not behind the next.
LEMMA SumsAscend ==
  ASSUME NEW N \in Nat, NEW e \in [0..N -> Nat], \A n \in 1..N : e[n - 1] <= e[n],
         e[0] = 0
  PROVE  /\ \A m, n \in 0..N : m <= n => e[m] <= e[n]
         /\ \A k \in 1..e[N] : \E n \in 1..N : e[n - 1] < k /\ k <= e[n]
<1>1. ASSUME NEW m \in 0..N, NEW n \in 0..N, m <= n, ~(e[m] <= e[n]) PROVE FALSE
  <2> DEFINE Bad == {x \in m..N : ~(e[m] <= e[x])}
             b == Min(Bad)
  <2>1. n \in Bad /\ Bad \subseteq Nat
    BY <1>1
  <2>2. b \in Bad /\ \A x \in Bad : b <= x
    BY <2>1, MinIsElement
  <2> HIDE DEF b
  <2>3. b \in m..N /\ b # m /\ ~(e[m] <= e[b])
    BY <2>2
  <2>4. b - 1 \in m..N /\ b - 1 \notin Bad /\ b \in 1..N
    BY <2>2, <2>3
  <2>5. e[m] <= e[b - 1] /\ e[b - 1] <= e[b]
    BY <2>4
  <2>6. e[m] \in Nat /\ e[b - 1] \in Nat /\ e[b] \in Nat
    BY <2>3, <2>4
  <2> QED
    BY <2>3, <2>5, <2>6
<1>2. ASSUME NEW k \in 1..e[N]
      PROVE  \E n \in 1..N : e[n - 1] < k /\ k <= e[n]
  <2> DEFINE R == {x \in 0..N : k <= e[x]}
             n == Min(R)
  <2>1. N \in R /\ R \subseteq Nat
    BY <1>2
  <2>2. n \in R /\ \A x \in R : n <= x
    BY <2>1, MinIsElement
  <2> HIDE DEF n
  <2>3. n \in 0..N /\ k <= e[n] /\ k \in Nat /\ k >= 1
    BY <2>2
  <2>4. n # 0
    BY <2>3
  <2>5. n - 1 \in 0..N /\ n - 1 \notin R /\ n \in 1..N
    BY <2>2, <2>3, <2>4
  <2>6. e[n - 1] < k
    <3>1. e[n - 1] \in Nat /\ ~(k <= e[n - 1])
      BY <2>5
    <3> QED
      BY <2>3, <3>1
  <2> QED
    BY <2>3, <2>5, <2>6
<1> QED
  BY <1>1, <1>2

\* A function from 1..N on is a sequence.
LEMMA IsSequence ==
  ASSUME NEW S, NEW N \in Nat, NEW f \in [1..N -> S]
  PROVE  f \in Seq(S) /\ Len(f) = N /\ DOMAIN f = 1..N
<1>1. f \in Seq(S)
  BY SeqDef
<1>2. DOMAIN f = 1..N
  OBVIOUS
<1>3. Len(f) = N
  <2>1. Len(f) \in Nat /\ DOMAIN f = 1..Len(f)
    BY <1>1, LenProperties
  <2>2. 1..Len(f) = 1..N
    BY <1>2, <2>1
  <2>3. ASSUME NEW a \in Nat, NEW b \in Nat, 1..a = 1..b PROVE a = b
    <3>1. (a \in 1..a => a \in 1..b) /\ (b \in 1..b => b \in 1..a)
      BY <2>3
    <3> QED
      BY <3>1
  <2> QED
    BY <2>1, <2>2, <2>3
<1> QED
  BY <1>1, <1>2, <1>3

\* Two strings, one behind the other.
LEMMA FollowedBy ==
  ASSUME NEW S, NEW x \in Seq(S), NEW y \in Seq(S), NEW z, z = x \o y
  PROVE  /\ z \in Seq(S) /\ Len(z) = Len(x) + Len(y)
         /\ \A k \in 1..Len(x) : z[k] = x[k]
         /\ \A k \in 1..Len(y) : z[Len(x) + k] = y[k]
OBVIOUS

\* Where the elements of a flattened sequence are in it: element n is between
\* the bounds n - 1 and n, and these are in order.
LEMMA FlattenedElements ==
  ASSUME NEW S, NEW seqs \in Seq(Seq(S))
  PROVE  /\ FlattenSeq(seqs) \in Seq(S)
         /\ \E e \in [0..Len(seqs) -> Nat] :
              /\ e[0] = 0 /\ e[Len(seqs)] = Len(FlattenSeq(seqs))
              /\ \A n \in 1..Len(seqs) :
                   /\ e[n] = e[n - 1] + Len(seqs[n])
                   /\ \A k \in 1..Len(seqs[n]) : FlattenSeq(seqs)[e[n - 1] + k] = seqs[n][k]
              /\ \A m, n \in 0..Len(seqs) : m <= n => e[m] <= e[n]
              /\ \A k \in 1..e[Len(seqs)] :
                   \E n \in 1..Len(seqs) : e[n - 1] < k /\ k <= e[n]
<1> DEFINE N == Len(seqs)
<1>1. N \in Nat /\ \A n \in 1..N : seqs[n] \in Seq(S) /\ Len(seqs[n]) \in Nat
  BY LenProperties
<1>2. PICK f \in [0..N -> Seq(S)] :
        /\ f[0] = <<>>
        /\ \A n \in 1..N : f[n] = f[n - 1] \o seqs[n]
        /\ FlattenSeq(seqs) = f[N]
  BY FlattenedPrefixes
<1> DEFINE e == [n \in 0..N |-> Len(f[n])]
<1> HIDE DEF N
<1>3. \A n \in 0..N : f[n] \in Seq(S) /\ Len(f[n]) \in Nat
  BY <1>2, LenProperties
<1>4. e \in [0..N -> Nat] /\ \A n \in 0..N : e[n] = Len(f[n])
  BY <1>3
<1> HIDE DEF e
<1>5. ASSUME NEW n \in 1..N
      PROVE  /\ n - 1 \in 0..N /\ n \in 0..N
             /\ e[n] = e[n - 1] + Len(seqs[n]) /\ e[n - 1] <= e[n]
             /\ \A k \in 1..e[n - 1] : f[n][k] = f[n - 1][k]
             /\ \A k \in 1..Len(seqs[n]) : f[n][e[n - 1] + k] = seqs[n][k]
  <2>1. n - 1 \in 0..N /\ n \in 0..N
    BY <1>1
  <2>2. /\ f[n - 1] \in Seq(S) /\ seqs[n] \in Seq(S) /\ f[n] = f[n - 1] \o seqs[n]
        /\ Len(f[n - 1]) = e[n - 1] /\ Len(f[n]) = e[n]
        /\ Len(seqs[n]) \in Nat /\ e[n - 1] \in Nat
    BY <1>1, <1>2, <1>3, <1>4, <2>1
  <2> DEFINE x == f[n - 1]
             y == seqs[n]
             z == f[n]
  <2>3. /\ x \in Seq(S) /\ y \in Seq(S) /\ z = x \o y /\ Len(x) = e[n - 1]
        /\ Len(z) = e[n] /\ Len(y) \in Nat /\ e[n - 1] \in Nat
    BY <2>2
  <2> HIDE DEF x, y, z
  <2>4. /\ Len(z) = Len(x) + Len(y)
        /\ \A k \in 1..Len(x) : z[k] = x[k]
        /\ \A k \in 1..Len(y) : z[Len(x) + k] = y[k]
    <3>1. x \in Seq(S) /\ y \in Seq(S)
      BY <2>3
    <3>2. z = x \o y
      BY <2>3
    <3>3. Len(z) = Len(x) + Len(y)
      BY <3>1, <3>2, FollowedBy
    <3>4. \A k \in 1..Len(x) : z[k] = x[k]
      BY <3>1, <3>2, FollowedBy
    <3>5. \A k \in 1..Len(y) : z[Len(x) + k] = y[k]
      BY <3>1, <3>2, FollowedBy
    <3> QED
      BY <3>3, <3>4, <3>5
  <2>5. e[n] = e[n - 1] + Len(y) /\ e[n - 1] <= e[n]
    BY <2>3, <2>4
  <2>6. /\ \A k \in 1..e[n - 1] : z[k] = x[k]
        /\ \A k \in 1..Len(y) : z[e[n - 1] + k] = y[k]
    BY <2>3, <2>4
  <2> QED
    BY <2>1, <2>5, <2>6 DEF x, y, z
<1>6. e[0] = 0
  <2>1. 0 \in 0..N
    BY <1>1
  <2> QED
    BY <1>2, <1>4, <2>1, EmptySeq
<1>7. /\ \A m, n \in 0..N : m <= n => e[m] <= e[n]
      /\ \A k \in 1..e[N] : \E n \in 1..N : e[n - 1] < k /\ k <= e[n]
  BY <1>1, <1>4, <1>5, <1>6, SumsAscend
<1>8. ASSUME NEW m \in 0..N, NEW k \in 1..e[m] PROVE f[N][k] = f[m][k]
  <2> DEFINE Bad == {n \in m..N : f[n][k] # f[m][k]}
             b == Min(Bad)
  <2> SUFFICES ASSUME f[N][k] # f[m][k] PROVE FALSE
    OBVIOUS
  <2>1. N \in Bad /\ Bad \subseteq Nat
    BY <1>1
  <2>2. b \in Bad /\ \A x \in Bad : b <= x
    BY <2>1, MinIsElement
  <2> HIDE DEF b
  <2>3. b \in m..N /\ b # m /\ f[b][k] # f[m][k]
    BY <2>2
  <2>4. b - 1 \in m..N /\ b - 1 \notin Bad /\ b \in 1..N
    BY <1>1, <2>2, <2>3
  <2>5. f[b - 1][k] = f[m][k]
    BY <2>4
  <2>6. e[m] <= e[b - 1] /\ e[m] \in Nat /\ e[b - 1] \in Nat
    BY <1>1, <1>4, <1>7, <2>4
  <2>7. k \in 1..e[b - 1]
    BY <2>6
  <2> QED
    BY <1>5, <2>3, <2>4, <2>5, <2>7
<1>9. ASSUME NEW n \in 1..N, NEW k \in 1..Len(seqs[n])
      PROVE  f[N][e[n - 1] + k] = seqs[n][k]
  <2>1. f[n][e[n - 1] + k] = seqs[n][k]
    BY <1>5
  <2>2. e[n - 1] + k \in 1..e[n]
    <3>1. e[n - 1] \in Nat /\ e[n] = e[n - 1] + Len(seqs[n]) /\ Len(seqs[n]) \in Nat
      BY <1>1, <1>4, <1>5
    <3> QED
      BY <3>1
  <2> QED
    BY <1>5, <1>8, <2>1, <2>2
<1>10. e[N] = Len(FlattenSeq(seqs)) /\ FlattenSeq(seqs) \in Seq(S)
  <2>1. N \in 0..N
    BY <1>1
  <2> QED
    BY <1>2, <1>3, <1>4, <2>1
<1>11. \A n \in 1..N :
         /\ e[n] = e[n - 1] + Len(seqs[n])
         /\ \A k \in 1..Len(seqs[n]) : FlattenSeq(seqs)[e[n - 1] + k] = seqs[n][k]
  BY <1>2, <1>5, <1>9
<1> QED
  BY <1>4, <1>6, <1>7, <1>10, <1>11 DEF N

-----------------------------------------------------------------------------
(* Ranks *)

AtMost(S, k) == {m \in S : m <= k}

LEMMA AtMostFinite ==
  ASSUME NEW L \in Nat, NEW S, S \subseteq 1..L, NEW k \in Int
  PROVE  IsFiniteSet(AtMost(S, k)) /\ Cardinality(AtMost(S, k)) \in Nat
<1>1. IsFiniteSet(1..L)
  BY FS_Interval
<1>2. AtMost(S, k) \subseteq 1..L
  BY DEF AtMost
<1>3. IsFiniteSet(AtMost(S, k))
  BY <1>1, <1>2, FS_Subset
<1> QED
  BY <1>3, FS_CardinalityType

\* A set of n positions has an element of every rank from 1 to n: the ranks grow
\* by one at most from one position to the next.
LEMMA RankExists ==
  ASSUME NEW L \in Nat, NEW S, S \subseteq 1..L, NEW n \in 1..Cardinality(S)
  PROVE  \E k \in S : Cardinality(AtMost(S, k)) = n
<1>0. \A m \in S : m \in Int /\ 1 <= m /\ m <= L
  OBVIOUS
<1> DEFINE High == {k \in 1..L : Cardinality(AtMost(S, k)) >= n}
<1> HIDE DEF High
<1>1. AtMost(S, L) = S
  BY <1>0 DEF AtMost
<1>2. IsFiniteSet(S) /\ Cardinality(S) \in Nat
  <2>1. L \in Int
    OBVIOUS
  <2>2. IsFiniteSet(AtMost(S, L)) /\ Cardinality(AtMost(S, L)) \in Nat
    BY <2>1, AtMostFinite
  <2> QED
    BY <1>1, <2>2
<1>3. n \in Nat \ {0} /\ n <= Cardinality(S)
  BY <1>2
<1>4. L \in High
  <2>1. S # {}
    BY <1>3, FS_EmptySet
  <2>2. PICK m \in S : TRUE
    BY <2>1
  <2>3. L \in 1..L
    BY <1>0, <2>2
  <2> QED
    BY <1>1, <1>3, <2>3 DEF High
<1> DEFINE k == Min(High)
<1>5. k \in High /\ \A m \in High : k <= m
  <2>1. High \subseteq Nat
    BY DEF High
  <2> QED
    BY <1>4, <2>1, MinIsElement
<1> HIDE DEF k
<1>6. k \in 1..L /\ k \in Int /\ k - 1 \in Int /\ Cardinality(AtMost(S, k)) >= n
  BY <1>5 DEF High
<1>7. IsFiniteSet(AtMost(S, k - 1)) /\ Cardinality(AtMost(S, k - 1)) \in Nat
  BY <1>6, AtMostFinite
<1>8. Cardinality(AtMost(S, k - 1)) < n
  <2>1. CASE k = 1
    <3>1. AtMost(S, k - 1) = {}
      <4>1. \A m \in S : ~(m <= k - 1)
        BY <1>0, <2>1
      <4> QED
        BY <4>1, Zenon DEF AtMost
    <3> QED
      BY <1>3, <3>1, FS_EmptySet
  <2>2. CASE k # 1
    <3>1. k - 1 \in 1..L /\ ~(k <= k - 1)
      BY <1>6, <2>2
    <3>2. ~(Cardinality(AtMost(S, k - 1)) >= n)
      BY <1>5, <3>1 DEF High
    <3> QED
      BY <1>3, <1>7, <3>2
  <2> QED
    BY <2>1, <2>2
<1>9. k \in S
  <2> SUFFICES ASSUME k \notin S PROVE FALSE
    OBVIOUS
  <2>1. AtMost(S, k) = AtMost(S, k - 1)
    <3>1. \A m \in S : m <= k <=> m <= k - 1
      <4> TAKE m \in S
      <4>1. m # k /\ m \in Int
        BY <1>0
      <4> QED
        BY <1>6, <4>1
    <3> QED
      BY <3>1, Zenon DEF AtMost
  <2> QED
    BY <1>3, <1>6, <1>7, <1>8, <2>1
<1>10. AtMost(S, k) = AtMost(S, k - 1) \cup {k} /\ k \notin AtMost(S, k - 1)
  <2>1. \A m \in S : m <= k <=> m <= k - 1 \/ m = k
    <3> TAKE m \in S
    <3>1. m \in Int
      BY <1>0
    <3> QED
      BY <1>6, <3>1
  <2>2. k <= k /\ ~(k <= k - 1)
    BY <1>6
  <2> QED
    BY <1>9, <2>1, <2>2, Zenon DEF AtMost
<1>11. Cardinality(AtMost(S, k)) = Cardinality(AtMost(S, k - 1)) + 1
  BY <1>7, <1>10, FS_AddElement
<1>12. Cardinality(AtMost(S, k)) = n
  BY <1>3, <1>6, <1>7, <1>8, <1>11
<1> QED
  BY <1>9, <1>12

\* Only one element has a rank.
LEMMA RankIsUnique ==
  ASSUME NEW L \in Nat, NEW S, S \subseteq 1..L, NEW k \in S, NEW m \in S,
         Cardinality(AtMost(S, k)) = Cardinality(AtMost(S, m))
  PROVE  k = m
<1>0. \A x \in S : x \in Int
  OBVIOUS
<1>1. k \in Int /\ m \in Int
  BY <1>0
<1>2. ASSUME NEW a \in S, NEW b \in S, a < b,
             Cardinality(AtMost(S, a)) = Cardinality(AtMost(S, b))
      PROVE  FALSE
  <2>1. a \in Int /\ b \in Int
    BY <1>0
  <2>2. AtMost(S, a) \subseteq AtMost(S, b) /\ b \in AtMost(S, b) /\ b \notin AtMost(S, a)
    <3>1. \A x \in S : x <= a => x <= b
      <4> TAKE x \in S
      <4>1. x \in Int
        BY <1>0
      <4> QED
        BY <1>2, <2>1, <4>1
    <3>2. b <= b /\ ~(b <= a)
      BY <1>2, <2>1
    <3> QED
      BY <3>1, <3>2, Zenon DEF AtMost
  <2>3. IsFiniteSet(AtMost(S, b))
    BY <2>1, AtMostFinite
  <2> QED
    BY <1>2, <2>2, <2>3, FS_Subset
<1>3. k < m \/ m < k \/ k = m
  BY <1>1
<1> QED
  BY <1>2, <1>3

\* The n-th value of an increasing sequence has the rank n among its values.
LEMMA RankOfIncreasing ==
  ASSUME NEW N \in Nat, NEW f \in [1..N -> Int],
         \A m, n \in 1..N : m < n => f[m] < f[n]
  PROVE  LET S == {f[n] : n \in 1..N}
         IN  /\ Cardinality(S) = N
             /\ \A n \in 1..N : Cardinality(AtMost(S, f[n])) = n
<1> DEFINE S == {f[n] : n \in 1..N}
<1>1. \A m, n \in 1..N : f[m] = f[n] => m = n
  <2> TAKE m, n \in 1..N
  <2>1. m < n \/ n < m \/ m = n
    OBVIOUS
  <2>2. f[m] \in Int /\ f[n] \in Int
    OBVIOUS
  <2> QED
    BY <2>1, <2>2
<1>2. ASSUME NEW n \in 0..N
      PROVE  Cardinality({f[k] : k \in 1..n}) = n
  <2> DEFINE T == {f[k] : k \in 1..n}
             g == [k \in 1..n |-> f[k]]
  <2>0. n \in Nat /\ 1..n \subseteq 1..N
    OBVIOUS
  <2>1. g \in Bijection(1..n, T)
    <3>1. \A k \in 1..n : k \in 1..N
      BY <2>0
    <3>2. g \in [1..n -> T]
      OBVIOUS
    <3>3. \A a, b \in 1..n : g[a] = g[b] => a = b
      BY <1>1, <3>1
    <3>4. \A t \in T : \E a \in 1..n : g[a] = t
      OBVIOUS
    <3> HIDE DEF g, T
    <3> QED
      BY <3>2, <3>3, <3>4 DEF Bijection, Injection, Surjection, IsInjective
  <2>2. IsFiniteSet(1..n) /\ Cardinality(1..n) = n
    BY <2>0, FS_Interval
  <2> HIDE DEF T
  <2>3. Cardinality(T) = Cardinality(1..n)
    BY <2>1, <2>2, FS_Bijection DEF ExistsBijection
  <2> QED
    BY <2>2, <2>3 DEF T
<1>3. Cardinality(S) = N
  BY <1>2
<1>4. ASSUME NEW n \in 1..N
      PROVE  Cardinality(AtMost(S, f[n])) = n
  <2>1. AtMost(S, f[n]) = {f[k] : k \in 1..n}
    <3>1. ASSUME NEW k \in 1..N
          PROVE  f[k] <= f[n] <=> k <= n
      <4>1. f[k] \in Int /\ f[n] \in Int
        OBVIOUS
      <4>2. k < n \/ n < k \/ k = n
        OBVIOUS
      <4> QED
        BY <4>1, <4>2
    <3> QED
      BY <3>1 DEF AtMost
  <2> QED
    BY <1>2, <2>1
<1> QED
  BY <1>3, <1>4

-----------------------------------------------------------------------------
(* A text within another one, and the symbols that are in none *)

\* A part of a string is what its symbols say it is.
LEMMA PartIs ==
  ASSUME NEW S, NEW s \in Seq(S), NEW T, NEW p \in Seq(T), NEW o \in Nat, o + Len(p) <= Len(s),
         \A k \in 1..Len(p) : s[o + k] = p[k]
  PROVE  SubSeq(s, o + 1, o + Len(p)) = p
<1> DEFINE n == Len(p)
           q == SubSeq(s, o + 1, o + n)
<1>1. n \in Nat /\ Len(s) \in Nat
  BY LenProperties
<1>2. o + n \in Nat /\ o <= o + n /\ o + n <= Len(s) /\ (o + n) - o = n
  BY <1>1
<1>3. q \in Seq(S) /\ Len(q) = n /\ \A k \in 1..n : q[k] = s[o + k]
  BY <1>2, PartOfString
<1> HIDE DEF n, q
<1>4. \A k \in 1..n : q[k] = p[k]
  BY <1>3 DEF n
<1>5. q = p
  <2>1. p \in Seq(T) /\ Len(p) = n
    BY DEF n
  <2>2. q \in Seq(S \cup T) /\ p \in Seq(S \cup T)
    BY <1>3, <2>1, SeqMonotonic
  <2> QED
    BY <1>3, <1>4, <2>1, <2>2, SeqEqual
<1> QED
  BY <1>5 DEF n, q

\* The text p is in the text s behind the first o symbols.
StandsAt(p, s, o) ==
  /\ o + Len(p) <= Len(s)
  /\ \A k \in 1..Len(p) : s[o + k] = p[k]

\* Where the two parts of a concatenation stand.
LEMMA StandsInConcat ==
  ASSUME NEW S, NEW x \in Seq(S), NEW y \in Seq(S)
  PROVE  StandsAt(x, x \o y, 0) /\ StandsAt(y, x \o y, Len(x))
<1> DEFINE z == x \o y
<1>1. z \in Seq(S) /\ Len(z) = Len(x) + Len(y)
  BY FollowedBy, SMT
<1>2. \A k \in 1..Len(x) : z[k] = x[k]
  BY FollowedBy, SMT
<1>3. \A k \in 1..Len(y) : z[Len(x) + k] = y[k]
  BY FollowedBy, SMT
<1>4. Len(x) \in Nat /\ Len(y) \in Nat
  BY LenProperties
<1> HIDE DEF z
<1>5. 0 + Len(x) <= Len(z) /\ Len(x) + Len(y) <= Len(z)
  BY <1>1, <1>4
<1>6. \A k \in 1..Len(x) : z[0 + k] = x[k]
  BY <1>2, <1>4
<1>7. StandsAt(x, z, 0) /\ StandsAt(y, z, Len(x))
  BY <1>3, <1>5, <1>6 DEF StandsAt
<1> QED
  BY <1>7 DEF z

\* What stands in a text that stands in another stands there too.
LEMMA StandsWithin ==
  ASSUME NEW S, NEW p \in Seq(S), NEW s \in Seq(S), NEW t \in Seq(S), NEW m \in Nat, NEW n \in Nat,
         StandsAt(p, s, m), StandsAt(s, t, n)
  PROVE  StandsAt(p, t, n + m)
<1>1. Len(p) \in Nat /\ Len(s) \in Nat /\ Len(t) \in Nat
  BY LenProperties
<1>2. m + Len(p) <= Len(s) /\ n + Len(s) <= Len(t)
  BY DEF StandsAt
<1>3. (n + m) + Len(p) <= Len(t)
  BY <1>1, <1>2
<1>4. ASSUME NEW k \in 1..Len(p) PROVE t[(n + m) + k] = p[k]
  <2>1. m + k \in 1..Len(s) /\ n + (m + k) = (n + m) + k
    BY <1>1, <1>2
  <2>2. t[n + (m + k)] = s[m + k] /\ s[m + k] = p[k]
    BY <2>1 DEF StandsAt
  <2> QED
    BY <2>1, <2>2
<1> QED
  BY <1>3, <1>4 DEF StandsAt

\* A text that stands somewhere is that part.
LEMMA StandingPart ==
  ASSUME NEW S, NEW p \in Seq(S), NEW s \in Seq(S), NEW o \in Nat, StandsAt(p, s, o)
  PROVE  SubSeq(s, o + 1, o + Len(p)) = p
BY PartIs DEF StandsAt

\* The symbol c is not in s.
NoneOf(s, c) == \A k \in 1..Len(s) : s[k] # c

\* A symbol is in a concatenation when it is in a part of it.
LEMMA NoneOfConcat ==
  ASSUME NEW S, NEW x \in Seq(S), NEW y \in Seq(S), NEW c
  PROVE  /\ NoneOf(x \o y, c) <=> NoneOf(x, c) /\ NoneOf(y, c)
         /\ x \o y \in Seq(S) /\ Len(x \o y) = Len(x) + Len(y)
<1> DEFINE z == x \o y
<1>1. z \in Seq(S) /\ Len(z) = Len(x) + Len(y)
  BY FollowedBy, SMT
<1>2. \A k \in 1..Len(x) : z[k] = x[k]
  BY FollowedBy, SMT
<1>3. \A k \in 1..Len(y) : z[Len(x) + k] = y[k]
  BY FollowedBy, SMT
<1>4. Len(x) \in Nat /\ Len(y) \in Nat
  BY LenProperties
<1> HIDE DEF z
<1>5. ASSUME NEW k \in 1..Len(z)
      PROVE  k \in 1..Len(x) \/ (k - Len(x) \in 1..Len(y) /\ Len(x) + (k - Len(x)) = k)
  BY <1>1, <1>4
<1>6. ASSUME NoneOf(x, c), NoneOf(y, c) PROVE NoneOf(z, c)
  <2> SUFFICES ASSUME NEW k \in 1..Len(z) PROVE z[k] # c
    BY DEF NoneOf
  <2>1. CASE k \in 1..Len(x)
    BY <1>2, <1>6, <2>1 DEF NoneOf
  <2>2. CASE k - Len(x) \in 1..Len(y) /\ Len(x) + (k - Len(x)) = k
    BY <1>3, <1>6, <2>2 DEF NoneOf
  <2> QED
    BY <1>5, <2>1, <2>2
<1>7. ASSUME NoneOf(z, c) PROVE NoneOf(x, c)
  <2> SUFFICES ASSUME NEW k \in 1..Len(x) PROVE x[k] # c
    BY DEF NoneOf
  <2>1. k \in 1..Len(z)
    BY <1>1, <1>4
  <2> QED
    BY <1>2, <1>7, <2>1 DEF NoneOf
<1>8. ASSUME NoneOf(z, c) PROVE NoneOf(y, c)
  <2> SUFFICES ASSUME NEW k \in 1..Len(y) PROVE y[k] # c
    BY DEF NoneOf
  <2>1. Len(x) + k \in 1..Len(z)
    BY <1>1, <1>4
  <2> QED
    BY <1>3, <1>8, <2>1 DEF NoneOf
<1> QED
  BY <1>1, <1>6, <1>7, <1>8 DEF z

\* A string that is not empty has two ends.
LEMMA EndsOfString ==
  ASSUME NEW S, NEW s \in Seq(S), s # <<>>
  PROVE  1 \in 1..Len(s) /\ Len(s) \in 1..Len(s)
OBVIOUS

\* Where four texts are that follow each other.
LEMMA FourTexts ==
  ASSUME NEW S, NEW x \in Seq(S), NEW s \in Seq(S), NEW y \in Seq(S), NEW t \in Seq(S)
  PROVE  LET e == ((x \o s) \o y) \o t
         IN  /\ e \in Seq(S)
             /\ Len(e) = Len(x) + Len(s) + Len(y) + Len(t)
             /\ StandsAt(x, e, 0) /\ StandsAt(s, e, Len(x)) /\ StandsAt(x \o s, e, 0)
             /\ StandsAt(y, e, Len(x) + Len(s))
             /\ StandsAt(t, e, Len(x) + Len(s) + Len(y))
<1> DEFINE u == x \o s
           v == u \o y
           e == v \o t
<1>1. u \in Seq(S) /\ Len(u) = Len(x) + Len(s) /\ StandsAt(x, u, 0) /\ StandsAt(s, u, Len(x))
  BY NoneOfConcat, StandsInConcat
<1> HIDE DEF u
<1>2. v \in Seq(S) /\ Len(v) = Len(u) + Len(y) /\ StandsAt(u, v, 0) /\ StandsAt(y, v, Len(u))
  BY <1>1, NoneOfConcat, StandsInConcat
<1> HIDE DEF v
<1>3. e \in Seq(S) /\ Len(e) = Len(v) + Len(t) /\ StandsAt(v, e, 0) /\ StandsAt(t, e, Len(v))
  BY <1>2, NoneOfConcat, StandsInConcat
<1> HIDE DEF e
<1>4. Len(x) \in Nat /\ Len(s) \in Nat /\ Len(y) \in Nat /\ Len(t) \in Nat
  BY LenProperties
<1>5. Len(u) \in Nat /\ Len(v) \in Nat /\ \A n \in Nat : 0 + n = n
  BY <1>1, <1>2, <1>4
<1>6. StandsAt(u, e, 0) /\ StandsAt(y, e, Len(u))
  BY <1>1, <1>2, <1>3, <1>5, StandsWithin
<1>7. StandsAt(x, e, 0) /\ StandsAt(s, e, Len(x))
  BY <1>1, <1>3, <1>4, <1>5, <1>6, StandsWithin
<1> QED
  BY <1>1, <1>2, <1>3, <1>6, <1>7 DEF u, v, e

\* The symbols that are not in a text of one or two symbols.
LEMMA SymbolNone ==
  ASSUME NEW d, NEW c
  PROVE  /\ NoneOf(<<d>>, c) <=> d # c
         /\ \A b : NoneOf(<<d, b>>, c) <=> d # c /\ b # c
<1>1. Len(<<d>>) = 1 /\ <<d>>[1] = d /\ \A k \in 1..1 : k = 1
  OBVIOUS
<1>2. 1 \in 1..1 /\ 1 \in 1..2 /\ 2 \in 1..2 /\ \A k \in 1..2 : k = 1 \/ k = 2
  OBVIOUS
<1>3. ASSUME NEW b PROVE Len(<<d, b>>) = 2 /\ <<d, b>>[1] = d /\ <<d, b>>[2] = b
  OBVIOUS
<1>4. NoneOf(<<d>>, c) <=> d # c
  <2> DEFINE p == <<d>>
  <2>1. Len(p) = 1 /\ p[1] = d
    BY <1>1, Zenon
  <2> HIDE DEF p
  <2>2. NoneOf(p, c) <=> d # c
    BY <1>1, <1>2, <2>1, Zenon DEF NoneOf
  <2> QED
    BY <2>2, Zenon DEF p
<1>5. ASSUME NEW b PROVE NoneOf(<<d, b>>, c) <=> d # c /\ b # c
  <2> DEFINE p == <<d, b>>
  <2>1. Len(p) = 2 /\ p[1] = d /\ p[2] = b
    BY <1>3, Zenon
  <2> HIDE DEF p
  <2>2. NoneOf(p, c) <=> d # c /\ b # c
    BY <1>2, <2>1, Zenon DEF NoneOf
  <2> QED
    BY <2>2, Zenon DEF p
<1> QED
  BY <1>4, <1>5, Zenon

\* Concatenation is associative.
LEMMA Regrouped ==
  ASSUME NEW S, NEW a \in Seq(S), NEW b \in Seq(S), NEW c \in Seq(S)
  PROVE  (a \o b) \o c = a \o (b \o c)
BY ConcatAssociative

\* What stands in a beginning stands in the whole.
LEMMA StandsFromStart ==
  ASSUME NEW S, NEW p \in Seq(S), NEW s \in Seq(S), NEW t \in Seq(S), NEW m \in Nat,
         StandsAt(p, s, m), StandsAt(s, t, 0)
  PROVE  StandsAt(p, t, m)
<1>1. StandsAt(p, t, 0 + m)
  BY StandsWithin
<1>2. 0 + m = m
  OBVIOUS
<1> QED
  BY <1>1, <1>2, Zenon

=============================================================================
