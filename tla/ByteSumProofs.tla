--------------------------- MODULE ByteSumProofs ---------------------------
(***************************************************************************)
(* What a sum over a deque of buffers does when a buffer is added, removed *)
(* or changed, by induction over the prefix sums it is defined by.         *)
(***************************************************************************)
EXTENDS ByteSum, WellFoundedInduction, TLAPS

\* Induction over the natural numbers, with a set in place of a predicate.
LEMMA NatSetInduction ==
  ASSUME NEW S \in SUBSET Nat, 0 \in S, \A n \in S : n + 1 \in S
  PROVE  S = Nat
<1> DEFINE T == Nat \ S
<1> SUFFICES ASSUME T # {} PROVE FALSE
  OBVIOUS
<1> DEFINE R == {ss \in Nat \X Nat : ss[1] < ss[2]}
<1>0. IsWellFoundedOn(R, Nat)
  BY NatLessThanWellFounded DEF OpToRel
<1>1. PICK x \in T : \A y \in T : ~(<<y, x>> \in R)
  <2> HIDE DEF R
  <2> QED BY <1>0, WFMin
<1>2. \A y \in T : ~(y < x)
  BY <1>1
<1>3. x # 0 /\ x - 1 \in Nat
  OBVIOUS
<1>4. x - 1 \in S
  BY <1>2, <1>3
<1> QED
  BY <1>3, <1>4

\* f holds the sums of the first n elements of s.
SumsUpTo(f, s, n) ==
  /\ f \in [0..n -> Int]
  /\ f[0] = 0
  /\ \A i \in 1..n : f[i] = f[i-1] + s[i]

\* Prefix sums exist, up to any position.
LEMMA PrefixSumExists ==
  ASSUME NEW s \in Seq(Int)
  PROVE  \E f : SumsUpTo(f, s, Len(s))
<1> DEFINE Good(n) == n =< Len(s) => \E f : SumsUpTo(f, s, n)
           S == {n \in Nat : Good(n)}
<1>1. Good(0)
  <2>1. SumsUpTo([i \in 0..0 |-> 0], s, 0)
    BY DEF SumsUpTo
  <2> QED BY <2>1
<1>2. ASSUME NEW n \in Nat, Good(n) PROVE Good(n + 1)
  <2> SUFFICES ASSUME n + 1 =< Len(s) PROVE \E f : SumsUpTo(f, s, n + 1)
    OBVIOUS
  <2>0. n =< Len(s)
    OBVIOUS
  <2>1. PICK f : SumsUpTo(f, s, n)
    BY <1>2, <2>0
  <2> DEFINE g == [i \in 0..(n+1) |-> IF i = n + 1 THEN f[n] + s[n+1] ELSE f[i]]
  <2>2. s[n+1] \in Int /\ f[n] \in Int
    BY <2>1 DEF SumsUpTo
  <2>3. g \in [0..(n+1) -> Int]
    BY <2>1, <2>2 DEF SumsUpTo
  <2>4. g[0] = 0
    BY <2>1 DEF SumsUpTo
  <2>5. \A i \in 1..(n+1) : g[i] = g[i-1] + s[i]
    BY <2>1 DEF SumsUpTo
  <2>6. SumsUpTo(g, s, n + 1)
    <3> HIDE DEF g
    <3> QED BY <2>3, <2>4, <2>5 DEF SumsUpTo
  <2> QED BY <2>6
<1> HIDE DEF Good
<1>3. S = Nat
  <2>1. S \in SUBSET Nat /\ 0 \in S /\ \A n \in S : n + 1 \in S
    BY <1>1, <1>2
  <2> HIDE DEF S
  <2> QED BY <2>1, NatSetInduction
<1>4. Good(Len(s))
  BY <1>3
<1> QED
  BY <1>4 DEF Good

\* The defining equations of PrefixSum.
LEMMA PrefixSumDef ==
  ASSUME NEW s \in Seq(Int)
  PROVE  SumsUpTo(PrefixSum(s), s, Len(s))
<1> DEFINE Eq(f) == f = [i \in 0..Len(s) |-> IF i = 0 THEN 0 ELSE f[i-1] + s[i]]
<1>1. PICK f : SumsUpTo(f, s, Len(s))
  BY PrefixSumExists
<1>2. Eq(f)
  <2> DEFINE g == [i \in 0..Len(s) |-> IF i = 0 THEN 0 ELSE f[i-1] + s[i]]
  <2>1. \A i \in 0..Len(s) : f[i] = g[i]
    BY <1>1 DEF SumsUpTo
  <2>2. f \in [0..Len(s) -> Int]
    BY <1>1 DEF SumsUpTo
  <2> QED BY <2>1, <2>2
<1>3. PrefixSum(s) = CHOOSE h : Eq(h)
  BY DEF PrefixSum
<1>4. Eq(PrefixSum(s))
  BY <1>2, <1>3
<1> QED
  <2> DEFINE P == PrefixSum(s)
  <2>1. P = [i \in 0..Len(s) |-> IF i = 0 THEN 0 ELSE P[i-1] + s[i]]
    BY <1>4
  <2> DEFINE l == Len(s)
             Rhs(i) == IF i = 0 THEN 0 ELSE P[i-1] + s[i]
             S == {n \in Nat : n =< l => P[n] \in Int}
  <2>a. l \in Nat /\ \A i \in 1..l : s[i] \in Int
    OBVIOUS
  <2>b. P = [i \in 0..l |-> Rhs(i)]
    BY <2>1
  <2> HIDE DEF P, l, Rhs
  <2>c. \A i \in 0..l : P[i] = Rhs(i)
    BY <2>b
  <2>2. P[0] = 0
    BY <2>a, <2>c DEF Rhs
  <2>3. \A i \in 1..l : P[i] = P[i-1] + s[i]
    BY <2>a, <2>c DEF Rhs
  <2>4. S = Nat
    <3>1. 0 \in S
      BY <2>2
    <3>2. ASSUME NEW n \in S PROVE n + 1 \in S
      <4> SUFFICES ASSUME n + 1 =< l PROVE P[n+1] \in Int
        OBVIOUS
      <4>1. n + 1 \in 1..l /\ (n + 1) - 1 = n /\ P[n] \in Int
        BY <2>a
      <4>2. P[n+1] = P[(n + 1) - 1] + s[n+1] /\ s[n+1] \in Int
        BY <2>a, <2>3, <4>1
      <4> HIDE DEF S
      <4> QED BY <4>1, <4>2
    <3>3. S \in SUBSET Nat
      OBVIOUS
    <3> HIDE DEF S
    <3> QED BY <3>1, <3>2, <3>3, NatSetInduction
  <2>5. \A n \in 0..l : P[n] \in Int
    BY <2>a, <2>4
  <2>6. P \in [0..l -> Int]
    BY <2>b, <2>c, <2>5
  <2>7. SumsUpTo(P, s, l)
    BY <2>2, <2>3, <2>6 DEF SumsUpTo
  <2> QED BY <2>7 DEF P, l

\* Prefix sums that agree up to n, of sequences that do, are equal there.
LEMMA PrefixSumAgree ==
  ASSUME NEW s \in Seq(Int), NEW r \in Seq(Int), NEW n \in Nat,
         n =< Len(s), n =< Len(r),
         \A i \in 1..n : s[i] = r[i]
  PROVE  PrefixSum(s)[n] = PrefixSum(r)[n]
<1> DEFINE F == PrefixSum(s)
           G == PrefixSum(r)
           S == {k \in Nat : k =< n => F[k] = G[k]}
<1>1. SumsUpTo(F, s, Len(s)) /\ SumsUpTo(G, r, Len(r))
  BY PrefixSumDef
<1> HIDE DEF F, G
<1>2. 0 \in S
  BY <1>1 DEF SumsUpTo
<1>3. ASSUME NEW k \in S PROVE k + 1 \in S
  <2> SUFFICES ASSUME k + 1 =< n PROVE F[k+1] = G[k+1]
    OBVIOUS
  <2>1. k + 1 \in 1..Len(s) /\ k + 1 \in 1..Len(r) /\ k + 1 \in 1..n /\ F[k] = G[k]
    OBVIOUS
  <2>2. F[k+1] = F[k] + s[k+1] /\ G[k+1] = G[k] + r[k+1]
    BY <1>1, <2>1 DEF SumsUpTo
  <2> QED BY <2>1, <2>2
<1>4. S = Nat
  <2>1. S \in SUBSET Nat
    OBVIOUS
  <2> HIDE DEF S
  <2> QED BY <1>2, <1>3, <2>1, NatSetInduction
<1> QED
  BY <1>4 DEF F, G

\* A sum of integers is an integer.
LEMMA SumType ==
  ASSUME NEW s \in Seq(Int)
  PROVE  SumSeq(s) \in Int
BY PrefixSumDef DEF SumsUpTo, SumSeq

\* The empty sequence sums to zero.
LEMMA SumEmpty ==
  ASSUME NEW s \in Seq(Int), Len(s) = 0
  PROVE  SumSeq(s) = 0
BY PrefixSumDef DEF SumsUpTo, SumSeq

\* One more element at the end adds that element.
LEMMA SumExtend ==
  ASSUME NEW s \in Seq(Int), NEW r \in Seq(Int), Len(r) = Len(s) + 1,
         \A i \in 1..Len(s) : r[i] = s[i]
  PROVE  SumSeq(r) = SumSeq(s) + r[Len(r)]
<1> DEFINE m == Len(s)
<1>1. /\ m \in Nat /\ m =< Len(s) /\ m =< Len(r) /\ \A i \in 1..m : s[i] = r[i]
      /\ m + 1 = Len(r) /\ m + 1 \in 1..Len(r) /\ (m + 1) - 1 = m
  OBVIOUS
<1>2. SumsUpTo(PrefixSum(r), r, Len(r))
  BY PrefixSumDef
<1> HIDE DEF m
<1>3. PrefixSum(s)[m] = PrefixSum(r)[m]
  BY <1>1, PrefixSumAgree
<1>4. PrefixSum(r)[m + 1] = PrefixSum(r)[(m + 1) - 1] + r[m + 1]
  BY <1>1, <1>2 DEF SumsUpTo
<1> QED
  BY <1>1, <1>3, <1>4 DEF SumSeq, m

\* After its first m elements, c goes on with the n elements of r.
Continues(c, r, m, n) == \A i \in 1..n : c[m + i] = r[i] /\ r[i] \in Int

\* Prefix sums of a sequence that continues with r, in terms of those of r.
LEMMA ShiftedSums ==
  ASSUME NEW c \in Seq(Int), NEW r \in Seq(Int), NEW m \in Nat,
         Len(c) = m + Len(r), Continues(c, r, m, Len(r))
  PROVE  SumSeq(c) = PrefixSum(c)[m] + SumSeq(r)
<1> DEFINE F == PrefixSum(c)
           G == PrefixSum(r)
           n == Len(r)
           l == Len(c)
<1>a. n \in Nat /\ l = m + n /\ Continues(c, r, m, n)
  OBVIOUS
<1>b. SumsUpTo(F, c, l) /\ SumsUpTo(G, r, n)
  BY PrefixSumDef
<1>c. SumSeq(c) = F[l] /\ SumSeq(r) = G[n]
  BY DEF SumSeq
<1> HIDE DEF F, G, n, l
<1> DEFINE Good(k) == k =< n => F[m + k] = F[m] + G[k]
           S == {k \in Nat : Good(k)}
<1>1. Good(0)
  <2>1. F[m] \in Int /\ G[0] = 0 /\ m + 0 = m
    BY <1>a, <1>b DEF SumsUpTo
  <2> QED BY <2>1
<1>2. ASSUME NEW k \in Nat, Good(k) PROVE Good(k + 1)
  <2> SUFFICES ASSUME k + 1 =< n PROVE F[m + (k+1)] = F[m] + G[k+1]
    OBVIOUS
  <2>1. F[m + (k + 1)] = F[m + k] + c[m + (k + 1)]
    <3>1. m + (k + 1) \in 1..l /\ (m + (k + 1)) - 1 = m + k
      BY <1>a
    <3> QED BY <1>b, <3>1 DEF SumsUpTo
  <2>2. G[k+1] = G[k] + r[k+1]
    <3>1. k + 1 \in 1..n /\ (k + 1) - 1 = k
      BY <1>a
    <3> QED BY <1>b, <3>1 DEF SumsUpTo
  <2>3. F[m + k] = F[m] + G[k]
    BY <1>2, <1>a
  <2>4. c[m + (k + 1)] = r[k+1] /\ r[k+1] \in Int
    BY <1>a DEF Continues
  <2>5. F[m] \in Int /\ G[k] \in Int
    BY <1>a, <1>b DEF SumsUpTo
  <2> HIDE DEF Good
  <2> QED BY <2>1, <2>2, <2>3, <2>4, <2>5
<1> HIDE DEF Good
<1>3. S = Nat
  <2>1. S \in SUBSET Nat /\ 0 \in S /\ \A k \in S : k + 1 \in S
    BY <1>1, <1>2
  <2> HIDE DEF S
  <2> QED BY <2>1, NatSetInduction
<1>4. Good(n)
  BY <1>a, <1>3
<1>5. F[m + n] = F[m] + G[n]
  BY <1>a, <1>4 DEF Good
<1> QED
  BY <1>a, <1>c, <1>5 DEF F

\* The sum of two sequences, one after the other.
LEMMA SumJoin ==
  ASSUME NEW s \in Seq(Int), NEW r \in Seq(Int), NEW c \in Seq(Int),
         Len(c) = Len(s) + Len(r),
         \A i \in 1..Len(s) : c[i] = s[i],
         \A i \in 1..Len(r) : c[Len(s) + i] = r[i]
  PROVE  SumSeq(c) = SumSeq(s) + SumSeq(r)
<1> DEFINE m == Len(s)
<1>1. m \in Nat /\ m =< Len(s) /\ m =< Len(c) /\ Len(c) = m + Len(r)
  OBVIOUS
<1>2. \A i \in 1..m : s[i] = c[i]
  OBVIOUS
<1>3. Continues(c, r, m, Len(r))
  BY DEF Continues
<1>4. SumSeq(s) = PrefixSum(s)[m]
  BY DEF SumSeq
<1> HIDE DEF m
<1>5. PrefixSum(s)[m] = PrefixSum(c)[m]
  BY <1>1, <1>2, PrefixSumAgree
<1>6. SumSeq(c) = PrefixSum(c)[m] + SumSeq(r)
  BY <1>1, <1>3, ShiftedSums
<1> QED
  BY <1>4, <1>5, <1>6

\* Without its first element a sequence sums to that much less.
LEMMA SumDrop ==
  ASSUME NEW s \in Seq(Int), NEW r \in Seq(Int), Len(s) = Len(r) + 1,
         \A i \in 1..Len(r) : r[i] = s[i + 1]
  PROVE  SumSeq(s) = s[1] + SumSeq(r)
<1> DEFINE h == <<s[1]>>
<1>1. s[1] \in Int
  OBVIOUS
<1>2. h \in Seq(Int) /\ Len(h) = 1 /\ h[1] = s[1]
  BY <1>1
<1> HIDE DEF h
<1>3. \A i \in 1..Len(h) : s[i] = h[i]
  BY <1>2
<1>4. \A i \in 1..Len(r) : s[Len(h) + i] = r[i]
  BY <1>2
<1>5. SumSeq(s) = SumSeq(h) + SumSeq(r)
  <2>1. Len(s) = Len(h) + Len(r)
    BY <1>2
  <2> QED BY <1>2, <1>3, <1>4, <2>1, SumJoin
<1>6. SumSeq(h) = h[1]
  <2>1. SumsUpTo(PrefixSum(h), h, Len(h))
    BY <1>2, PrefixSumDef
  <2>2. PrefixSum(h)[1] = PrefixSum(h)[1 - 1] + h[1]
    BY <1>2, <2>1 DEF SumsUpTo
  <2>3. PrefixSum(h)[0] = 0 /\ h[1] \in Int
    BY <1>1, <1>2, <2>1 DEF SumsUpTo
  <2> QED BY <1>2, <2>2, <2>3 DEF SumSeq
<1> QED
  BY <1>2, <1>5, <1>6

\* Changing one element changes the sum by the difference.
LEMMA SumChange ==
  ASSUME NEW s \in Seq(Int), NEW r \in Seq(Int), Len(r) = Len(s),
         NEW k \in 1..Len(s), \A i \in 1..Len(s) : i # k => r[i] = s[i]
  PROVE  SumSeq(r) = SumSeq(s) - s[k] + r[k]
<1> DEFINE F == PrefixSum(s)
           G == PrefixSum(r)
           S == {j \in Nat : k =< j /\ j =< Len(s) => G[j] = F[j] - s[k] + r[k]}
<1>0. s[k] \in Int /\ r[k] \in Int
  OBVIOUS
<1>1. SumsUpTo(F, s, Len(s)) /\ SumsUpTo(G, r, Len(s))
  BY PrefixSumDef
<1>2. F[k - 1] = G[k - 1]
  <2> DEFINE m == k - 1
  <2>1. m \in Nat /\ m =< Len(s) /\ m =< Len(r) /\ \A i \in 1..m : s[i] = r[i]
    OBVIOUS
  <2> HIDE DEF m
  <2>2. PrefixSum(s)[m] = PrefixSum(r)[m]
    BY <2>1, PrefixSumAgree
  <2> QED BY <2>2 DEF m
<1> HIDE DEF F, G
<1>3. 0 \in S
  OBVIOUS
<1>4. ASSUME NEW j \in S PROVE j + 1 \in S
  <2> SUFFICES ASSUME k =< j + 1, j + 1 =< Len(s)
               PROVE  G[j+1] = F[j+1] - s[k] + r[k]
    OBVIOUS
  <2>1. j \in Nat /\ j + 1 \in 1..Len(s) /\ (j + 1) - 1 = j
    OBVIOUS
  <2>a. k =< j => G[j] = F[j] - s[k] + r[k]
    OBVIOUS
  <2> HIDE DEF S
  <2>2. F[j+1] = F[j] + s[j+1] /\ G[j+1] = G[j] + r[j+1]
    BY <1>1, <2>1 DEF SumsUpTo
  <2>3. F[j] \in Int /\ s[j+1] \in Int
    <3>1. s[j+1] \in Int
      BY <2>1
    <3>2. j \in 0..Len(s)
      BY <2>1
    <3>3. F \in [0..Len(s) -> Int]
      BY <1>1 DEF SumsUpTo
    <3> QED BY <3>1, <3>2, <3>3
  <2>4. CASE k = j + 1
    <3>1. F[j] = G[j]
      BY <1>2, <2>1, <2>4
    <3> QED BY <1>0, <2>2, <2>3, <2>4, <3>1
  <2>5. CASE k =< j
    <3>1. G[j] = F[j] - s[k] + r[k]
      BY <2>5, <2>a
    <3>2. r[j+1] = s[j+1]
      <4>1. j + 1 # k
        BY <2>1, <2>5
      <4> QED BY <2>1, <4>1
    <3> QED BY <1>0, <2>2, <2>3, <3>1, <3>2
  <2> QED BY <2>1, <2>4, <2>5
<1>5. S = Nat
  <2>1. S \in SUBSET Nat
    OBVIOUS
  <2> HIDE DEF S
  <2> QED BY <1>3, <1>4, <2>1, NatSetInduction
<1>6. G[Len(s)] = F[Len(s)] - s[k] + r[k]
  <2>1. Len(s) \in S
    BY <1>5
  <2> QED BY <2>1
<1> QED
  BY <1>6 DEF F, G, SumSeq

\* A sum of natural numbers is at least each of them.
LEMMA SumNat ==
  ASSUME NEW s \in Seq(Nat)
  PROVE  SumSeq(s) \in Nat /\ \A i \in 1..Len(s) : s[i] =< SumSeq(s)
<1> DEFINE F == PrefixSum(s)
           Good(n) == F[n] \in Nat /\ \A i \in 1..n : s[i] =< F[n]
           S == {n \in Nat : n =< Len(s) => Good(n)}
<1>0. s \in Seq(Int)
  OBVIOUS
<1>1. SumsUpTo(F, s, Len(s))
  BY <1>0, PrefixSumDef
<1> HIDE DEF F
<1>2. 0 \in S
  BY <1>1 DEF SumsUpTo
<1>3. ASSUME NEW n \in S PROVE n + 1 \in S
  <2> SUFFICES ASSUME n + 1 =< Len(s) PROVE Good(n + 1)
    OBVIOUS
  <2>1. n \in Nat /\ n + 1 \in 1..Len(s) /\ s[n+1] \in Nat /\ Good(n)
    OBVIOUS
  <2>2. F[n+1] = F[n] + s[n+1]
    BY <1>1, <2>1 DEF SumsUpTo
  <2>3. ASSUME NEW i \in 1..(n+1) PROVE s[i] =< F[n+1]
    <3>1. CASE i = n + 1
      BY <2>1, <2>2, <3>1
    <3>2. CASE i \in 1..n
      <4>1. s[i] \in Nat /\ s[i] =< F[n]
        BY <2>1, <3>2
      <4> QED BY <2>1, <2>2, <4>1
    <3> QED BY <3>1, <3>2
  <2> QED BY <2>1, <2>2, <2>3
<1>4. S = Nat
  <2>1. S \in SUBSET Nat
    OBVIOUS
  <2> HIDE DEF S
  <2> QED BY <1>2, <1>3, <2>1, NatSetInduction
<1>5. Good(Len(s))
  <2>1. Len(s) \in S
    BY <1>4
  <2> QED BY <2>1
<1> QED
  BY <1>5 DEF F, SumSeq

-----------------------------------------------------------------------------
(* What the operations on a deque of buffers do to its bytes.              *)

\* A set of buffers: records with a size.
Sized(M) == \A m \in M : m.size \in Nat

\* A sequence of zeros sums to zero.
LEMMA SumZero ==
  ASSUME NEW s \in Seq(Nat), \A i \in 1..Len(s) : s[i] = 0
  PROVE  SumSeq(s) = 0
<1> DEFINE F == PrefixSum(s)
           S == {n \in Nat : n =< Len(s) => F[n] = 0}
<1>1. SumsUpTo(F, s, Len(s)) /\ Len(s) \in Nat
  <2>1. s \in Seq(Int)
    OBVIOUS
  <2> QED BY <2>1, PrefixSumDef
<1> HIDE DEF F
<1>2. 0 \in S
  BY <1>1 DEF SumsUpTo
<1>3. ASSUME NEW n \in S PROVE n + 1 \in S
  <2>1. n \in Nat /\ n + 1 \in Nat
    OBVIOUS
  <2>2. ASSUME n + 1 =< Len(s) PROVE F[n + 1] = 0
    <3>1. n + 1 \in 1..Len(s) /\ n =< Len(s) /\ (n + 1) - 1 = n
      BY <1>1, <2>1, <2>2
    <3>2. F[n] = 0 /\ s[n + 1] = 0
      BY <3>1
    <3>3. F[n + 1] = F[n] + s[n + 1]
      BY <1>1, <3>1 DEF SumsUpTo
    <3> QED BY <3>2, <3>3
  <2> QED BY <2>1, <2>2
<1>4. S = Nat
  <2> HIDE DEF S
  <2> QED BY <1>2, <1>3, NatSetInduction DEF S
<1> QED
  BY <1>1, <1>4 DEF SumSeq, F

\* The sizes of a deque of buffers are a sequence of natural numbers.
LEMMA SizesType ==
  ASSUME NEW M, Sized(M), NEW q \in Seq(M)
  PROVE  /\ SizesOf(q) \in Seq(Nat) /\ SizesOf(q) \in Seq(Int)
         /\ Len(SizesOf(q)) = Len(q)
         /\ \A i \in 1..Len(q) : SizesOf(q)[i] = q[i].size
<1>1. \A i \in 1..Len(q) : q[i] \in M
  OBVIOUS
<1>2. \A i \in 1..Len(q) : q[i].size \in Nat
  BY <1>1 DEF Sized
<1>3. Len(q) \in Nat
  OBVIOUS
<1> QED
  BY <1>2, <1>3 DEF SizesOf

\* A deque holds a natural number of bytes, ...
LEMMA BytesType ==
  ASSUME NEW M, Sized(M), NEW q \in Seq(M)
  PROVE  Bytes(q) \in Nat
BY SizesType, SumNat DEF Bytes

\* ... none when it is empty, ...
LEMMA BytesEmpty == Bytes(<<>>) = 0
<1>1. SizesOf(<<>>) \in Seq(Int) /\ Len(SizesOf(<<>>)) = 0
  BY DEF SizesOf
<1> QED
  BY <1>1, SumEmpty DEF Bytes

\* ... as many more as the buffer that push_back() adds, ...
LEMMA BytesAppend ==
  ASSUME NEW M, Sized(M), NEW q \in Seq(M), NEW m \in M
  PROVE  Bytes(Append(q, m)) = Bytes(q) + m.size
<1> DEFINE r == Append(q, m)
<1>1. r \in Seq(M) /\ Len(r) = Len(q) + 1 /\ r[Len(r)] = m
  OBVIOUS
<1>2. \A i \in 1..Len(q) : r[i] = q[i]
  OBVIOUS
<1> HIDE DEF r
<1>3. SumSeq(SizesOf(r)) = SumSeq(SizesOf(q)) + SizesOf(r)[Len(SizesOf(r))]
  <2> DEFINE a == SizesOf(q)
             b == SizesOf(r)
  <2>1. a \in Seq(Int) /\ b \in Seq(Int) /\ Len(a) = Len(q) /\ Len(b) = Len(r)
    BY <1>1, SizesType
  <2>2. \A i \in 1..Len(a) : b[i] = a[i]
    <3> SUFFICES ASSUME NEW i \in 1..Len(q) PROVE b[i] = a[i]
      BY <2>1
    <3>1. i \in 1..Len(r)
      BY <1>1
    <3>2. a[i] = q[i].size /\ b[i] = r[i].size
      BY <1>1, <3>1, SizesType
    <3> QED BY <1>2, <3>2
  <2>3. Len(b) = Len(a) + 1
    BY <1>1, <2>1
  <2> HIDE DEF a, b
  <2>4. SumSeq(b) = SumSeq(a) + b[Len(b)]
    BY <2>1, <2>2, <2>3, SumExtend
  <2> QED BY <2>4 DEF a, b
<1>4. SizesOf(r)[Len(SizesOf(r))] = m.size
  <2>1. Len(SizesOf(r)) = Len(r) /\ Len(r) \in 1..Len(r)
    BY <1>1, SizesType
  <2>2. SizesOf(r)[Len(r)] = r[Len(r)].size
    BY <1>1, <2>1, SizesType
  <2> QED BY <1>1, <2>1, <2>2
<1> QED
  BY <1>3, <1>4 DEF Bytes, r

\* ... as many fewer as the buffer that pop_front() removes, ...
LEMMA BytesTail ==
  ASSUME NEW M, Sized(M), NEW q \in Seq(M), q # <<>>
  PROVE  /\ Head(q) \in M /\ Tail(q) \in Seq(M)
         /\ Bytes(q) = Head(q).size + Bytes(Tail(q))
<1> DEFINE r == Tail(q)
<1>1. r \in Seq(M) /\ Len(q) = Len(r) + 1 /\ q[1] \in M /\ Head(q) = q[1]
  OBVIOUS
<1>2. \A i \in 1..Len(r) : r[i] = q[i + 1]
  OBVIOUS
<1> HIDE DEF r
<1> DEFINE a == SizesOf(q)
           b == SizesOf(r)
<1>3. a \in Seq(Int) /\ b \in Seq(Int) /\ Len(a) = Len(q) /\ Len(b) = Len(r)
  BY <1>1, SizesType
<1>4. \A i \in 1..Len(b) : b[i] = a[i + 1]
  <2> SUFFICES ASSUME NEW i \in 1..Len(r) PROVE b[i] = a[i + 1]
    BY <1>3
  <2>1. i + 1 \in 1..Len(q)
    BY <1>1
  <2>2. b[i] = r[i].size /\ a[i + 1] = q[i + 1].size
    BY <1>1, <2>1, SizesType
  <2> QED BY <1>2, <2>2
<1>5. a[1] = q[1].size
  <2>1. 1 \in 1..Len(q)
    BY <1>1
  <2> QED BY <2>1, SizesType
<1>6. Len(a) = Len(b) + 1
  BY <1>1, <1>3
<1> HIDE DEF a, b
<1>7. SumSeq(a) = a[1] + SumSeq(b)
  BY <1>3, <1>4, <1>6, SumDrop
<1> QED
  BY <1>1, <1>5, <1>7 DEF a, b, r, Bytes

\* ... the bytes of both when one is moved behind the other, ...
LEMMA BytesConcat ==
  ASSUME NEW M, Sized(M), NEW q \in Seq(M), NEW r \in Seq(M)
  PROVE  q \o r \in Seq(M) /\ Bytes(q \o r) = Bytes(q) + Bytes(r)
<1> DEFINE c == q \o r
<1>1. c \in Seq(M) /\ Len(c) = Len(q) + Len(r)
  OBVIOUS
<1>2. \A i \in 1..Len(q) : c[i] = q[i]
  OBVIOUS
<1>3. \A i \in 1..Len(r) : c[Len(q) + i] = r[i]
  OBVIOUS
<1> HIDE DEF c
<1> DEFINE x == SizesOf(q)
           y == SizesOf(r)
           z == SizesOf(c)
<1>4. /\ x \in Seq(Int) /\ y \in Seq(Int) /\ z \in Seq(Int)
      /\ Len(x) = Len(q) /\ Len(y) = Len(r) /\ Len(z) = Len(c)
  BY <1>1, SizesType
<1>5. \A i \in 1..Len(x) : z[i] = x[i]
  <2> SUFFICES ASSUME NEW i \in 1..Len(q) PROVE z[i] = x[i]
    BY <1>4
  <2>1. i \in 1..Len(c)
    BY <1>1
  <2>2. x[i] = q[i].size /\ z[i] = c[i].size
    BY <1>1, <2>1, SizesType
  <2> QED BY <1>2, <2>2
<1>6. \A i \in 1..Len(y) : z[Len(x) + i] = y[i]
  <2> SUFFICES ASSUME NEW i \in 1..Len(r) PROVE z[Len(q) + i] = y[i]
    BY <1>4
  <2>1. Len(q) + i \in 1..Len(c)
    BY <1>1
  <2>2. y[i] = r[i].size /\ z[Len(q) + i] = c[Len(q) + i].size
    BY <1>1, <2>1, SizesType
  <2> QED BY <1>3, <2>2
<1>7. Len(z) = Len(x) + Len(y)
  BY <1>1, <1>4
<1> HIDE DEF x, y, z
<1>8. SumSeq(z) = SumSeq(x) + SumSeq(y)
  BY <1>4, <1>5, <1>6, <1>7, SumJoin
<1> QED
  BY <1>1, <1>8 DEF x, y, z, c, Bytes

\* ... and the size of the buffer when it holds just one.
LEMMA BytesOne ==
  ASSUME NEW M, Sized(M), NEW m \in M
  PROVE  Bytes(<<m>>) = m.size
<1>1. <<>> \in Seq(M) /\ Append(<<>>, m) = <<m>>
  OBVIOUS
<1>2. Bytes(<<m>>) = 0 + m.size
  BY <1>1, BytesAppend, BytesEmpty
<1>3. m.size \in Nat
  BY DEF Sized
<1> QED
  BY <1>2, <1>3
=============================================================================
