---------------------------- MODULE ZethaIndexProofs ----------------------------
(***************************************************************************)
(* Theorems about ZethaIndex, for any documents, words, orders of the       *)
(* characters and suffixes: an index keeps the words of its documents and   *)
(* comes back from its file, and a query finds what it should.              *)
(***************************************************************************)
EXTENDS ZethaIndex, FiniteSetTheorems, SequenceTheorems, Recursion

-----------------------------------------------------------------------------
(* The elements of a set in an order.                                      *)

\* R is a strict linear order of S.
Orders(R, S) ==
  /\ \A x \in S : <<x, x>> \notin R
  /\ \A x, y \in S : x # y => <<x, y>> \in R \/ <<y, x>> \in R
  /\ \A x, y, z \in S : <<x, y>> \in R /\ <<y, z>> \in R => <<x, z>> \in R

\* Counting the smaller elements of S numbers them: Ascending has each of
\* them once, the smaller ones first.
LEMMA AscendingOrder ==
  ASSUME NEW S, IsFiniteSet(S), NEW R, Orders(R, S)
  PROVE  /\ Cardinality(S) \in Nat
         /\ Ascending(S, R) \in [1..Cardinality(S) -> S]
         /\ \A x \in S : \E i \in 1..Cardinality(S) : Ascending(S, R)[i] = x
         /\ \A i, j \in 1..Cardinality(S) : i < j <=> <<Ascending(S, R)[i], Ascending(S, R)[j]>> \in R
         /\ \A i \in 1..Cardinality(S) : Cardinality({y \in S : <<y, Ascending(S, R)[i]>> \in R}) = i - 1
<1> DEFINE n == Cardinality(S)
           Below(x) == {y \in S : <<y, x>> \in R}
           c(x) == Cardinality(Below(x))
           f == Ascending(S, R)
<1>1. n \in Nat
  BY FS_CardinalityType
<1>2. f = [i \in 1..n |-> CHOOSE x \in S : c(x) = i - 1]
  BY Zenon DEF Ascending
<1> HIDE DEF Below, c
<1>3. \A x \in S : IsFiniteSet(Below(x)) /\ c(x) \in 0..(n - 1)
  <2>1. TAKE x \in S
  <2>2. IsFiniteSet(S \ {x}) /\ Cardinality(S \ {x}) = n - 1
    BY FS_RemoveElement
  <2>3. Below(x) \in SUBSET (S \ {x})
    BY DEF Orders, Below
  <2>4. IsFiniteSet(Below(x)) /\ c(x) <= n - 1
    BY <2>2, <2>3, FS_Subset DEF c
  <2>5. c(x) \in Nat
    BY <2>4, FS_CardinalityType DEF c
  <2>6. QED BY <2>4, <2>5, <1>1
<1>4. ASSUME NEW x \in S, NEW y \in S, <<x, y>> \in R PROVE c(x) < c(y)
  <2>1. Below(x) \in SUBSET Below(y) /\ x \in Below(y) /\ x \notin Below(x)
    BY <1>4 DEF Orders, Below
  <2>2. IsFiniteSet(Below(y)) /\ c(x) \in Nat /\ c(y) \in Nat
    BY <1>1, <1>3
  <2>3. c(x) <= c(y) /\ c(x) # c(y)
    BY <2>1, <2>2, FS_Subset DEF c
  <2>4. QED BY <2>2, <2>3
<1>5. \A x, y \in S : c(x) = c(y) => x = y
  <2>1. TAKE x, y \in S
  <2>2. c(x) \in Int /\ c(y) \in Int
    BY <1>1, <1>3
  <2>3. (<<x, y>> \in R => c(x) < c(y)) /\ (<<y, x>> \in R => c(y) < c(x))
    BY <1>4
  <2>4. QED BY <2>2, <2>3 DEF Orders
<1>6. \A i \in 1..n : \E x \in S : c(x) = i - 1
  <2> DEFINE rank == [x \in S |-> c(x) + 1]
  <2>1. \A x \in S : c(x) + 1 \in 1..n
    BY <1>1, <1>3
  <2>2. rank \in Injection(S, 1..n)
    <3>1. rank \in [S -> 1..n]
      BY <2>1
    <3>2. \A x, y \in S : rank[x] = rank[y] => x = y
      <4>1. TAKE x, y \in S
      <4>2. c(x) \in Int /\ c(y) \in Int
        BY <1>1, <1>3
      <4>3. QED BY <1>5, <4>2
    <3> HIDE DEF rank
    <3>3. QED BY <3>1, <3>2 DEF Injection, IsInjective
  <2>3. IsFiniteSet(1..n) /\ Cardinality(1..n) = n
    BY <1>1, FS_Interval
  <2>4. rank \in Surjection(S, 1..n)
    BY <2>2, <2>3, FS_Injection
  <2>5. \A i \in 1..n : \E x \in S : rank[x] = i
    BY <2>4 DEF Surjection
  <2>6. \A i \in 1..n : \E x \in S : c(x) + 1 = i
    BY <2>5
  <2>7. QED BY <2>6, <1>1, <1>3
<1>7. \A i \in 1..n : f[i] \in S /\ c(f[i]) = i - 1
  <2>1. TAKE i \in 1..n
  <2> HIDE DEF f
  <2>2. f[i] = CHOOSE x \in S : c(x) = i - 1
    BY <1>2
  <2>3. QED BY <2>2, <1>6
<1>8. f \in [1..n -> S]
  <2> HIDE DEF f, n
  <2>1. QED BY <1>2, <1>7
<1>9. \A x \in S : \E i \in 1..n : f[i] = x
  <2>1. TAKE x \in S
  <2>2. c(x) + 1 \in 1..n /\ c(x) = (c(x) + 1) - 1
    BY <1>1, <1>3
  <2> HIDE DEF f
  <2>3. f[c(x) + 1] \in S /\ c(f[c(x) + 1]) = c(x)
    BY <2>2, <1>7
  <2>4. QED BY <2>2, <2>3, <1>5
<1>10. \A i, j \in 1..n : i < j <=> <<f[i], f[j]>> \in R
  <2> HIDE DEF f
  <2>1. TAKE i, j \in 1..n
  <2>2. c(f[i]) = i - 1 /\ c(f[j]) = j - 1 /\ f[i] \in S /\ f[j] \in S
    BY <1>7
  <2>3. <<f[i], f[j]>> \in R => i < j
    BY <2>2, <1>4
  <2>4. <<f[j], f[i]>> \in R => j < i
    BY <2>2, <1>4
  <2>5. f[i] = f[j] => i = j
    BY <2>2
  <2>6. i < j => f[i] # f[j] /\ <<f[j], f[i]>> \notin R
    BY <2>2, <2>4
  <2>7. QED BY <2>2, <2>3, <2>6 DEF Orders
<1>11. QED BY <1>1, <1>7, <1>8, <1>9, <1>10 DEF c, Below

\* Numbers are ordered by <.
LEMMA InOrderNumbers ==
  ASSUME NEW S \in SUBSET Int, IsFiniteSet(S)
  PROVE  /\ Cardinality(S) \in Nat
         /\ InOrder(S) \in [1..Cardinality(S) -> S]
         /\ \A x \in S : \E i \in 1..Cardinality(S) : InOrder(S)[i] = x
         /\ \A i, j \in 1..Cardinality(S) : i < j <=> InOrder(S)[i] < InOrder(S)[j]
<1> DEFINE R == {p \in S \X S : p[1] < p[2]}
<1>1. \A x, y \in S : <<x, y>> \in R <=> x < y
  OBVIOUS
<1> HIDE DEF R
<1>2. Orders(R, S)
  <2>1. \A x, y, z \in S : x \in Int /\ y \in Int /\ z \in Int
    OBVIOUS
  <2>2. QED BY <1>1, <2>1 DEF Orders
<1>3. InOrder(S) = Ascending(S, R)
  BY DEF InOrder, R
<1> DEFINE f == Ascending(S, R)
           n == Cardinality(S)
<1>4. /\ n \in Nat /\ f \in [1..n -> S]
      /\ \A x \in S : \E i \in 1..n : f[i] = x
      /\ \A i, j \in 1..n : i < j <=> <<f[i], f[j]>> \in R
  BY <1>2, AscendingOrder
<1> HIDE DEF f, n
<1>5. \A i, j \in 1..n : i < j <=> f[i] < f[j]
  BY <1>1, <1>4
<1>6. QED BY <1>3, <1>4, <1>5 DEF f, n

\* The places of a sequence at which something is true.
LEMMA PlacesInOrder ==
  ASSUME NEW N \in Nat, NEW S \in SUBSET (1..N)
  PROVE  /\ IsFiniteSet(S) /\ Cardinality(S) \in 0..N
         /\ InOrder(S) \in [1..Cardinality(S) -> S] /\ InOrder(S) \in Seq(1..N)
         /\ Len(InOrder(S)) = Cardinality(S) /\ Range(InOrder(S)) = S
         /\ \A i, j \in 1..Cardinality(S) : i < j <=> InOrder(S)[i] < InOrder(S)[j]
<1>1. IsFiniteSet(1..N) /\ Cardinality(1..N) = N
  BY FS_Interval
<1>2. IsFiniteSet(S) /\ Cardinality(S) <= N
  BY <1>1, FS_Subset
<1> DEFINE f == InOrder(S)
           n == Cardinality(S)
<1>3. S \in SUBSET Int
  OBVIOUS
<1>4. /\ n \in Nat /\ f \in [1..n -> S]
      /\ \A x \in S : \E i \in 1..n : f[i] = x
      /\ \A i, j \in 1..n : i < j <=> f[i] < f[j]
  BY <1>2, <1>3, InOrderNumbers
<1> HIDE DEF f
<1>5. f \in Seq(1..N) /\ Len(f) = n
  <2>1. f \in [1..n -> 1..N]
    BY <1>4
  <2>2. QED BY <1>4, <2>1
<1>6. Range(f) = S
  BY <1>4 DEF Range
<1>7. QED BY <1>2, <1>4, <1>5, <1>6 DEF f

\* A run of numbers is itself in order.
LEMMA RunInOrder ==
  ASSUME NEW j \in Int, NEW k \in Int, j <= k + 1
  PROVE  InOrder(j..k) = [n \in 1..(k - j + 1) |-> j + n - 1]
<1> DEFINE S == j..k
           R == {p \in S \X S : p[1] < p[2]}
           f == Ascending(S, R)
<1>1. \A x, y \in S : <<x, y>> \in R <=> x < y
  OBVIOUS
<1> HIDE DEF R
<1>2. Orders(R, S)
  BY <1>1 DEF Orders
<1>3. IsFiniteSet(S) /\ Cardinality(S) = k - j + 1
  BY FS_Interval
<1> DEFINE n == Cardinality(S)
           c(x) == Cardinality({y \in S : <<y, x>> \in R})
<1>4. f \in [1..n -> S] /\ \A i \in 1..n : c(f[i]) = i - 1
  BY <1>2, <1>3, AscendingOrder, Zenon
<1>5. \A x \in S : c(x) = x - j
  <2>1. TAKE x \in S
  <2>2. {y \in S : <<y, x>> \in R} = j..(x - 1)
    BY <1>1
  <2>3. x - 1 \in Int /\ j \in Int /\ (IF j > x - 1 THEN 0 ELSE x - 1 - j + 1) = x - j
    OBVIOUS
  <2>4. Cardinality(j..(x - 1)) = x - j
    BY <2>3, FS_Interval
  <2>5. QED BY <2>2, <2>4
<1> HIDE DEF f, c
<1>6. \A i \in 1..(k - j + 1) : f[i] = j + i - 1
  <2>1. TAKE i \in 1..(k - j + 1)
  <2>2. f[i] \in S /\ c(f[i]) = i - 1
    BY <1>3, <1>4
  <2>3. f[i] \in Int /\ c(f[i]) = f[i] - j
    BY <1>5, <2>2
  <2>4. QED BY <2>2, <2>3
<1>7. InOrder(S) = f
  BY DEF InOrder, R, f
<1>8. QED BY <1>3, <1>4, <1>6, <1>7

-----------------------------------------------------------------------------
(* What a sequence has of a set.                                           *)

LEMMA KeptElements ==
  ASSUME NEW T, NEW seq \in Seq(T), NEW S
  PROVE  Kept(seq, S) \in Seq(T) /\ Range(Kept(seq, S)) = Range(seq) \cap S
<1> DEFINE I == {i \in DOMAIN seq : seq[i] \in S}
           places == InOrder(I)
           m == Cardinality(I)
<1>1. Len(seq) \in Nat /\ DOMAIN seq = 1..Len(seq) /\ \A i \in 1..Len(seq) : seq[i] \in T
  OBVIOUS
<1>2. I \in SUBSET (1..Len(seq)) /\ \A i \in I : seq[i] \in S
  BY <1>1
<1>3. \A i \in 1..Len(seq) : seq[i] \in S => i \in I
  BY <1>1
<1>4. Kept(seq, S) = [n \in DOMAIN places |-> seq[places[n]]]
  BY DEF Kept
<1> HIDE DEF I
<1>5. m \in Nat /\ places \in [1..m -> I] /\ Range(places) = I
  BY <1>1, <1>2, PlacesInOrder
<1> HIDE DEF places, m
<1>6. DOMAIN places = 1..m /\ \A n \in 1..m : places[n] \in I
  BY <1>5
<1>7. Kept(seq, S) = [n \in 1..m |-> seq[places[n]]]
  BY <1>4, <1>6
<1>8. Kept(seq, S) \in Seq(T)
  <2>1. \A n \in 1..m : seq[places[n]] \in T
    BY <1>1, <1>2, <1>6
  <2>2. Kept(seq, S) \in [1..m -> T]
    BY <1>7, <2>1
  <2>3. QED BY <1>5, <2>2
<1>9. ASSUME NEW x \in Range(seq) \cap S PROVE x \in Range(Kept(seq, S))
  <2>1. PICK i \in 1..Len(seq) : x = seq[i]
    BY <1>1 DEF Range
  <2>2. PICK n \in 1..m : places[n] = i
    BY <2>1, <1>3, <1>5, <1>6 DEF Range
  <2>3. QED BY <2>1, <2>2, <1>7 DEF Range
<1>10. ASSUME NEW x \in Range(Kept(seq, S)) PROVE x \in Range(seq) \cap S
  <2>1. PICK n \in 1..m : x = seq[places[n]]
    BY <1>7 DEF Range
  <2>2. QED BY <2>1, <1>1, <1>2, <1>6 DEF Range
<1>11. QED BY <1>8, <1>9, <1>10

\* If it has them side by side, they are a piece of it.
LEMMA KeptRun ==
  ASSUME NEW T, NEW seq \in Seq(T), NEW S, NEW j \in Int, NEW k \in Int, j <= k + 1,
         \A i \in Int : i \in DOMAIN seq /\ seq[i] \in S <=> i \in j..k
  PROVE  Kept(seq, S) = SubSeq(seq, j, k)
<1> DEFINE I == {i \in DOMAIN seq : seq[i] \in S}
<1>1. I = j..k
  <2>1. \A i \in DOMAIN seq : i \in Int
    OBVIOUS
  <2>2. QED BY <2>1
<1>2. Kept(seq, S) = [n \in DOMAIN InOrder(I) |-> seq[InOrder(I)[n]]]
  BY DEF Kept
<1> HIDE DEF I
<1>3. InOrder(I) = [n \in 1..(k - j + 1) |-> j + n - 1]
  BY <1>1, RunInOrder
<1>4. Kept(seq, S) = [n \in 1..(k - j + 1) |-> seq[j + n - 1]]
  BY <1>2, <1>3
<1>5. QED BY <1>4

-----------------------------------------------------------------------------
(* Words and their order.                                                  *)

Chars     == Range(CharOrder)
WordTexts == Seq(Chars)
Agree(v, w, n) == \A i \in 1..n : v[i] = w[i]

\* The place of an element in an order.
LEMMA PlaceIn ==
  ASSUME NEW seq, seq \in Seq(Range(seq)), NEW x \in Range(seq)
  PROVE  {i \in 1..Len(seq) : seq[i] = x} # {} /\ Min({i \in 1..Len(seq) : seq[i] = x}) \in {i \in 1..Len(seq) : seq[i] = x}
<1> DEFINE I == {i \in 1..Len(seq) : seq[i] = x}
<1>1. I # {} /\ I \in SUBSET Nat
  <2>1. Len(seq) \in Nat /\ DOMAIN seq = 1..Len(seq)
    OBVIOUS
  <2>2. QED BY <2>1 DEF Range
<1> HIDE DEF I
<1>2. \E i \in I : \A j \in I : i <= j
  BY <1>1, LeastOf
<1>3. Min(I) \in I
  BY <1>2 DEF Min
<1>4. QED BY <1>1, <1>3 DEF I

LEMMA Ranks ==
  ASSUME NEW c \in Chars
  PROVE  Rank(c) \in 1..Len(CharOrder) /\ CharOrder[Rank(c)] = c
<1> DEFINE I == {i \in 1..Len(CharOrder) : CharOrder[i] = c}
<1>1. I # {} /\ Min(I) \in I
  <2>1. CharOrder \in Seq(Range(CharOrder)) /\ c \in Range(CharOrder)
    BY IndexAssumption DEF Chars
  <2>2. QED BY <2>1, PlaceIn, Zenon
<1>2. Rank(c) = IF I # {} THEN Min(I) ELSE 0
  BY DEF Rank, SelectInSeq
<1> HIDE DEF I
<1>3. Rank(c) \in I
  BY <1>1, <1>2
<1>4. QED BY <1>3 DEF I

\* v and w have their first n elements in common, and no more of them.
CommonAt(v, w, n) ==
  /\ n <= Len(v) /\ n <= Len(w) /\ Agree(v, w, n)
  /\ n < Len(v) /\ n < Len(w) => v[n + 1] # w[n + 1]

LEMMA LongestCommon ==
  ASSUME NEW T, NEW v \in Seq(T), NEW w \in Seq(T)
  PROVE  \E n \in Nat : /\ CommonAt(v, w, n)
                       /\ LongestCommonPrefix({v, w}) = SubSeq(v, 1, n)
                       /\ Len(LongestCommonPrefix({v, w})) = n
<1> DEFINE A == {n \in 0..Len(v) : n <= Len(w) /\ Agree(v, w, n)}
           CP == CommonPrefixes({v, w})
<1>1. Len(v) \in Nat /\ Len(w) \in Nat
  OBVIOUS
<1>2. A \in SUBSET (0..Len(v)) /\ A # {}
  <2>1. 0 \in A
    BY <1>1 DEF Agree
  <2>2. QED BY <2>1
<1>3. PICK n \in A : \A k \in A : n >= k
  <2> HIDE DEF A
  <2>1. QED BY <1>1, <1>2, GreatestOf
<1>4. \A k \in A : SubSeq(v, 1, k) = SubSeq(w, 1, k) /\ Len(SubSeq(v, 1, k)) = k
  <2>1. TAKE k \in A
  <2>2. k \in Nat /\ k <= Len(v) /\ k <= Len(w) /\ Agree(v, w, k)
    BY <1>1
  <2>3. QED BY <2>2, <1>1 DEF Agree
<1>5. \A k \in 0..Len(v) : Len(SubSeq(v, 1, k)) = k
  BY <1>1
<1>6. \A k \in 0..Len(w) : Len(SubSeq(w, 1, k)) = k
  BY <1>1
<1>7. \A k \in A : SubSeq(v, 1, k) \in CP
  <2>1. TAKE k \in A
  <2>2. k \in 0..Len(v) /\ k \in 0..Len(w)
    BY <1>1
  <2> DEFINE p == SubSeq(v, 1, k)
  <2>3. p \in Prefixes(v)
    BY <2>2 DEF Prefixes
  <2>4. Len(p) = k /\ SubSeq(p, 1, k) = p /\ SubSeq(v, 1, k) = p /\ SubSeq(w, 1, k) = p
    <3>1. Len(p) = k /\ p \in Seq(T)
      BY <1>1, <2>2
    <3>2. SubSeq(p, 1, Len(p)) = p
      BY <3>1, SubSeqFull
    <3>3. QED BY <3>1, <3>2, <1>4
  <2> HIDE DEF p
  <2>5. IsPrefix(p, v) /\ IsPrefix(p, w)
    BY <1>1, <2>2, <2>4 DEF IsPrefix
  <2>6. QED BY <2>3, <2>5 DEF CommonPrefixes, p
<1>8. \A p \in CP : \E k \in A : p = SubSeq(v, 1, k)
  <2>1. TAKE p \in CP
  <2>2. IsPrefix(p, v) /\ IsPrefix(p, w) /\ (p \in Prefixes(v) \/ p \in Prefixes(w))
    BY DEF CommonPrefixes
  <2>3. p \in Seq(T) /\ Len(p) \in Nat
    BY <1>1, <2>2 DEF Prefixes
  <2>4. SubSeq(p, 1, Len(p)) = p
    BY <2>3, SubSeqFull
  <2>5. Len(p) <= Len(v) /\ Len(p) <= Len(w) /\ p = SubSeq(v, 1, Len(p)) /\ p = SubSeq(w, 1, Len(p))
    BY <2>2, <2>4 DEF IsPrefix
  <2>6. \A i \in 1..Len(p) : SubSeq(v, 1, Len(p))[i] = v[i] /\ SubSeq(w, 1, Len(p))[i] = w[i]
    BY <1>1, <2>3, <2>5
  <2>7. Agree(v, w, Len(p))
    BY <2>5, <2>6 DEF Agree
  <2>8. Len(p) \in A
    BY <1>1, <2>3, <2>5, <2>7
  <2>9. QED BY <2>5, <2>8
<1> HIDE DEF CP, A
<1>9. n \in 0..Len(v) /\ n <= Len(w) /\ Agree(v, w, n)
  BY <1>3 DEF A
<1>10. n < Len(v) /\ n < Len(w) => v[n + 1] # w[n + 1]
  <2>1. SUFFICES ASSUME n < Len(v), n < Len(w), v[n + 1] = w[n + 1] PROVE FALSE
    OBVIOUS
  <2>2. n + 1 \in 0..Len(v) /\ n + 1 <= Len(w) /\ Agree(v, w, n + 1)
    BY <1>1, <1>9, <2>1 DEF Agree
  <2>3. n + 1 \in A
    BY <2>2 DEF A
  <2>4. QED BY <1>3, <1>9, <2>3
<1> DEFINE L == LongestCommonPrefix({v, w})
<1>11. L \in CP /\ \A p \in CP : Len(p) <= Len(L)
  <2>0. SubSeq(v, 1, n) \in CP /\ Len(SubSeq(v, 1, n)) = n
    BY <1>4, <1>7, <1>3
  <2>1. \A p \in CP : Len(p) <= n
    <3>2. TAKE p \in CP
    <3>3. PICK k \in A : p = SubSeq(v, 1, k)
      BY <1>8
    <3>4. Len(p) = k /\ n >= k
      BY <1>3, <1>4, <3>3
    <3>5. k \in Int /\ n \in Int
      BY <1>2, <1>9
    <3>6. QED BY <3>4, <3>5
  <2>2. L = CHOOSE l \in CP : \A p \in CP : Len(p) <= Len(l)
    BY DEF LongestCommonPrefix, CP
  <2> HIDE DEF L
  <2>3. QED BY <2>0, <2>1, <2>2
<1> HIDE DEF L
<1>12. PICK k \in A : L = SubSeq(v, 1, k)
  BY <1>8, <1>11
<1>13. Len(L) = k /\ n <= k /\ n >= k /\ k \in Int
  <2>1. Len(L) = k /\ n >= k /\ k \in Int
    BY <1>2, <1>3, <1>4, <1>12
  <2>2. SubSeq(v, 1, n) \in CP /\ Len(SubSeq(v, 1, n)) = n
    BY <1>4, <1>7, <1>3
  <2>3. n <= Len(L)
    BY <2>2, <1>11
  <2>4. QED BY <2>1, <2>3
<1>14. k = n
  BY <1>9, <1>13
<1>15. CommonAt(v, w, n)
  BY <1>1, <1>9, <1>10 DEF CommonAt
<1>16. n \in Nat /\ L = SubSeq(v, 1, n) /\ Len(L) = n
  BY <1>1, <1>9, <1>12, <1>13, <1>14
<1>17. QED BY <1>15, <1>16, Zenon DEF L

\* v is smaller than w from place n + 1 on.
LessAt(v, w, n) ==
  /\ n <= Len(v) /\ n < Len(w) /\ Agree(v, w, n)
  /\ n < Len(v) => Rank(v[n + 1]) < Rank(w[n + 1])

LEMMA WordFacts ==
  ASSUME NEW v \in WordTexts
  PROVE  Len(v) \in Nat /\ \A i \in 1..Len(v) : v[i] \in Chars /\ Rank(v[i]) \in Int
<1>1. v \in Seq(Chars)
  BY DEF WordTexts
<1>2. Len(v) \in Nat /\ \A i \in 1..Len(v) : v[i] \in Chars
  BY <1>1
<1>3. CharOrder \in Seq(Chars)
  BY IndexAssumption DEF Chars
<1>4. Len(CharOrder) \in Nat
  BY <1>3
<1>5. QED BY <1>2, <1>4, Ranks

LEMMA BeforeAt ==
  ASSUME NEW v \in WordTexts, NEW w \in WordTexts
  PROVE  Before(v, w) <=> \E n \in Nat : LessAt(v, w, n)
<1>1. /\ Len(v) \in Nat /\ \A i \in 1..Len(v) : Rank(v[i]) \in Int
      /\ Len(w) \in Nat /\ \A i \in 1..Len(w) : Rank(w[i]) \in Int
  BY WordFacts
<1>2. v \in Seq(Chars) /\ w \in Seq(Chars)
  BY DEF WordTexts
<1>3. PICK n \in Nat : CommonAt(v, w, n) /\ Len(LongestCommonPrefix({v, w})) = n
  BY <1>2, LongestCommon
<1>4. /\ n <= Len(v) /\ n <= Len(w) /\ Agree(v, w, n)
      /\ n < Len(v) /\ n < Len(w) => v[n + 1] # w[n + 1]
      /\ Len(LongestCommonPrefix({v, w})) = n
  BY <1>3 DEF CommonAt
<1>5. Before(v, w) <=> n < Len(w) /\ (n < Len(v) => Rank(v[n + 1]) < Rank(w[n + 1]))
  BY <1>4 DEF Before
<1>6. ASSUME NEW k \in Nat, LessAt(v, w, k) PROVE k = n
  <2>1. k <= Len(v) /\ k < Len(w) /\ (k < Len(v) => Rank(v[k + 1]) < Rank(w[k + 1]))
    BY <1>6 DEF LessAt
  <2>2. CASE k < n
    <3>1. k + 1 \in 1..n /\ k < Len(v) /\ k + 1 \in 1..Len(v)
      BY <1>1, <1>4, <2>2
    <3>2. v[k + 1] = w[k + 1]
      BY <1>4, <3>1 DEF Agree
    <3>3. QED BY <1>1, <2>1, <3>1, <3>2
  <2>3. CASE n < k
    <3>1. n < Len(v) /\ n < Len(w) /\ n + 1 \in 1..k
      BY <1>1, <2>1, <2>3
    <3>2. v[n + 1] = w[n + 1]
      BY <1>6, <3>1 DEF Agree, LessAt
    <3>3. QED BY <1>4, <3>1, <3>2
  <2>4. QED BY <2>2, <2>3
<1>7. QED BY <1>4, <1>5, <1>6 DEF LessAt

\* The order of words is strict and linear.
LEMMA BeforeIrreflexive ==
  ASSUME NEW v \in WordTexts
  PROVE  ~Before(v, v)
<1>1. SUFFICES ASSUME NEW n \in Nat, LessAt(v, v, n) PROVE FALSE
  BY BeforeAt
<1>2. n + 1 \in 1..Len(v) /\ Rank(v[n + 1]) < Rank(v[n + 1])
  BY <1>1, WordFacts DEF LessAt
<1>3. QED BY <1>2, WordFacts

LEMMA BeforeLinear ==
  ASSUME NEW v \in WordTexts, NEW w \in WordTexts, v # w
  PROVE  Before(v, w) \/ Before(w, v)
<1>1. /\ Len(v) \in Nat /\ \A i \in 1..Len(v) : v[i] \in Chars /\ Rank(v[i]) \in Int
      /\ Len(w) \in Nat /\ \A i \in 1..Len(w) : w[i] \in Chars /\ Rank(w[i]) \in Int
  BY WordFacts
<1>2. v \in Seq(Chars) /\ w \in Seq(Chars)
  BY DEF WordTexts
<1>3. PICK n \in Nat : CommonAt(v, w, n)
  BY <1>2, LongestCommon
<1>4. /\ n <= Len(v) /\ n <= Len(w) /\ Agree(v, w, n)
      /\ n < Len(v) /\ n < Len(w) => v[n + 1] # w[n + 1]
  BY <1>3 DEF CommonAt
<1>5. CASE n < Len(v) /\ n < Len(w)
  <2>1. n + 1 \in 1..Len(v) /\ n + 1 \in 1..Len(w)
    BY <1>1, <1>5
  <2>2. Rank(v[n + 1]) # Rank(w[n + 1])
    BY <1>1, <1>4, <1>5, <2>1, Ranks
  <2>3. Rank(v[n + 1]) < Rank(w[n + 1]) \/ Rank(w[n + 1]) < Rank(v[n + 1])
    BY <1>1, <2>1, <2>2
  <2>4. Agree(w, v, n)
    BY <1>4 DEF Agree
  <2>5. LessAt(v, w, n) \/ LessAt(w, v, n)
    BY <1>1, <1>4, <1>5, <2>3, <2>4 DEF LessAt
  <2>6. QED BY <2>5, BeforeAt
<1>6. CASE n = Len(v) /\ n < Len(w)
  <2>1. LessAt(v, w, n)
    BY <1>1, <1>4, <1>6 DEF LessAt
  <2>2. QED BY <2>1, BeforeAt
<1>7. CASE n = Len(w) /\ n < Len(v)
  <2>1. LessAt(w, v, n)
    BY <1>1, <1>4, <1>7 DEF LessAt, Agree
  <2>2. QED BY <2>1, BeforeAt
<1>8. CASE n = Len(v) /\ n = Len(w)
  <2>1. \A i \in 1..Len(v) : v[i] = w[i]
    BY <1>4, <1>8 DEF Agree
  <2>2. v = w
    BY <1>2, <1>8, <2>1, SeqEqual
  <2>3. QED BY <2>2
<1>9. QED BY <1>1, <1>4, <1>5, <1>6, <1>7, <1>8

LEMMA BeforeTransitive ==
  ASSUME NEW u \in WordTexts, NEW v \in WordTexts, NEW w \in WordTexts, Before(u, v), Before(v, w)
  PROVE  Before(u, w)
<1>1. PICK n \in Nat : LessAt(u, v, n)
  BY BeforeAt
<1>2. PICK k \in Nat : LessAt(v, w, k)
  BY BeforeAt
<1>3. /\ Len(u) \in Nat /\ \A i \in 1..Len(u) : Rank(u[i]) \in Int
      /\ Len(v) \in Nat /\ \A i \in 1..Len(v) : Rank(v[i]) \in Int
      /\ Len(w) \in Nat /\ \A i \in 1..Len(w) : Rank(w[i]) \in Int
  BY WordFacts
<1>4. /\ n <= Len(u) /\ n < Len(v) /\ (n < Len(u) => Rank(u[n + 1]) < Rank(v[n + 1]))
      /\ k <= Len(v) /\ k < Len(w) /\ (k < Len(v) => Rank(v[k + 1]) < Rank(w[k + 1]))
  BY <1>1, <1>2 DEF LessAt
<1>5. (\A i \in 1..n : u[i] = v[i]) /\ (\A i \in 1..k : v[i] = w[i])
  BY <1>1, <1>2 DEF LessAt, Agree
<1>6. CASE n < k
  <2>1. v[n + 1] = w[n + 1] /\ Agree(u, w, n) /\ n < Len(w)
    BY <1>3, <1>4, <1>5, <1>6 DEF Agree
  <2>2. LessAt(u, w, n)
    BY <1>4, <2>1 DEF LessAt
  <2>3. QED BY <2>2, BeforeAt
<1>7. CASE n = k
  <2>1. Agree(u, w, n) /\ n < Len(w)
    BY <1>4, <1>5, <1>7 DEF Agree
  <2>2. n < Len(u) => Rank(u[n + 1]) < Rank(w[n + 1])
    <3>1. SUFFICES ASSUME n < Len(u) PROVE Rank(u[n + 1]) < Rank(w[n + 1])
      OBVIOUS
    <3>2. n + 1 \in 1..Len(u) /\ n + 1 \in 1..Len(v) /\ n + 1 \in 1..Len(w)
      BY <1>3, <1>4, <1>7, <3>1
    <3>3. Rank(u[n + 1]) < Rank(v[n + 1]) /\ Rank(v[n + 1]) < Rank(w[n + 1])
      BY <1>4, <1>7, <3>1
    <3>4. QED BY <1>3, <3>2, <3>3
  <2>3. LessAt(u, w, n)
    BY <1>4, <2>1, <2>2 DEF LessAt
  <2>4. QED BY <2>3, BeforeAt
<1>8. CASE k < n
  <2>1. u[k + 1] = v[k + 1] /\ Agree(u, w, k) /\ k <= Len(u) /\ k < Len(v)
    BY <1>3, <1>4, <1>5, <1>8 DEF Agree
  <2>2. LessAt(u, w, k)
    BY <1>4, <2>1 DEF LessAt
  <2>3. QED BY <2>2, BeforeAt
<1>9. QED BY <1>6, <1>7, <1>8

\* A word between two that begin with p begins with p.
LEMMA BetweenPrefix ==
  ASSUME NEW u \in WordTexts, NEW v \in WordTexts, NEW w \in WordTexts, Before(u, v), Before(v, w),
         NEW m \in Nat, m <= Len(u), m <= Len(w), Agree(u, w, m)
  PROVE  m <= Len(v) /\ Agree(u, v, m)
<1>1. PICK n \in Nat : LessAt(u, v, n)
  BY BeforeAt
<1>2. PICK k \in Nat : LessAt(v, w, k)
  BY BeforeAt
<1>3. /\ Len(u) \in Nat /\ \A i \in 1..Len(u) : Rank(u[i]) \in Int
      /\ Len(v) \in Nat /\ \A i \in 1..Len(v) : Rank(v[i]) \in Int
      /\ Len(w) \in Nat /\ \A i \in 1..Len(w) : Rank(w[i]) \in Int
  BY WordFacts
<1>4. /\ n <= Len(u) /\ n < Len(v) /\ (n < Len(u) => Rank(u[n + 1]) < Rank(v[n + 1]))
      /\ k <= Len(v) /\ k < Len(w) /\ (k < Len(v) => Rank(v[k + 1]) < Rank(w[k + 1]))
  BY <1>1, <1>2 DEF LessAt
<1>5. /\ \A i \in 1..n : u[i] = v[i]
      /\ \A i \in 1..k : v[i] = w[i]
      /\ \A i \in 1..m : u[i] = w[i]
  BY <1>1, <1>2 DEF LessAt, Agree
<1>6. CASE n >= m
  BY <1>3, <1>4, <1>5, <1>6 DEF Agree
<1>7. CASE k >= m
  BY <1>3, <1>4, <1>5, <1>7 DEF Agree
<1>8. ASSUME n < m, k < m PROVE FALSE
  <2>1. /\ n + 1 \in 1..Len(u) /\ n + 1 \in 1..Len(v) /\ n + 1 \in 1..m
        /\ k + 1 \in 1..Len(u) /\ k + 1 \in 1..Len(w) /\ k + 1 \in 1..m /\ n < Len(u)
    BY <1>3, <1>4, <1>8
  <2>2. CASE n < k
    <3>1. v[n + 1] = w[n + 1] /\ u[n + 1] = w[n + 1]
      BY <1>5, <2>1, <2>2
    <3>2. QED BY <1>3, <1>4, <2>1, <3>1
  <2>3. CASE n = k
    <3>1. Rank(u[n + 1]) < Rank(v[n + 1]) /\ Rank(v[n + 1]) < Rank(w[n + 1]) /\ u[n + 1] = w[n + 1]
      BY <1>4, <1>5, <2>1, <2>3
    <3>2. QED BY <1>3, <2>1, <3>1
  <2>4. CASE k < n
    <3>1. v[k + 1] = u[k + 1] /\ u[k + 1] = w[k + 1] /\ k < Len(v)
      BY <1>3, <1>4, <1>5, <2>1, <2>4
    <3>2. Rank(v[k + 1]) < Rank(w[k + 1])
      BY <1>4, <3>1
    <3>3. QED BY <1>3, <2>1, <3>1, <3>2
  <2>5. QED BY <2>2, <2>3, <2>4
<1>9. QED BY <1>6, <1>7, <1>8

LEMMA BeforeOrders ==
  ASSUME NEW S \in SUBSET WordTexts
  PROVE  Orders({p \in S \X S : Before(p[1], p[2])}, S)
<1> DEFINE R == {p \in S \X S : Before(p[1], p[2])}
<1>1. \A v, w \in S : <<v, w>> \in R <=> Before(v, w)
  OBVIOUS
<1> HIDE DEF R
<1>2. \A v \in S : <<v, v>> \notin R
  BY <1>1, BeforeIrreflexive
<1>3. \A v, w \in S : v # w => <<v, w>> \in R \/ <<w, v>> \in R
  BY <1>1, BeforeLinear
<1>4. \A u, v, w \in S : <<u, v>> \in R /\ <<v, w>> \in R => <<u, w>> \in R
  BY <1>1, BeforeTransitive
<1>5. Orders(R, S)
  BY <1>2, <1>3, <1>4 DEF Orders
<1>6. QED BY <1>5 DEF R

-----------------------------------------------------------------------------
(* The words of a text.                                                    *)

\* What Tokenize makes of a text: one character or more, all of tokens and in
\* lower case.
IsToken(w) == /\ w \in WordTexts /\ 1 <= Len(w)
              /\ \A i \in 1..Len(w) : w[i] \in DOMAIN LowerOf /\ LowerOf[w[i]] = w[i]

LEMMA TextTokens ==
  ASSUME NEW T, NEW text \in Seq(T)
  PROVE  Tokenize(text) \in Seq(WordTexts) /\ \A w \in Range(Tokenize(text)) : IsToken(w)
<1> DEFINE Token(i) == i \in DOMAIN text /\ text[i] \in DOMAIN LowerOf
           Run(i)   == {j \in i..Len(text) : \A k \in i..j : Token(k)}
           End(i)   == Max(Run(i))
           first    == {i \in DOMAIN text : Token(i) /\ ~Token(i - 1)}
           starts   == InOrder(first)
           Word(i)  == [k \in 1..(End(i) - i + 1) |-> LowerOf[text[i + k - 1]]]
<1>1. Tokenize(text) = [n \in DOMAIN starts |-> Word(starts[n])]
  BY Zenon DEF Tokenize
<1>2. Len(text) \in Nat /\ DOMAIN text = 1..Len(text)
  OBVIOUS
<1>3. first \in SUBSET (1..Len(text)) /\ \A i \in first : Token(i)
  BY <1>2
<1> DEFINE m == Cardinality(first)
<1>4. m \in Nat /\ starts \in [1..m -> first]
  <2> HIDE DEF first
  <2>1. QED BY <1>2, <1>3, PlacesInOrder
<1>5. ASSUME NEW i \in first PROVE End(i) \in Run(i)
  <2>1. Run(i) \in SUBSET (0..Len(text)) /\ i \in Run(i)
    BY <1>2, <1>3
  <2> HIDE DEF Run
  <2>2. \E x \in Run(i) : \A y \in Run(i) : x >= y
    BY <1>2, <2>1, GreatestOf
  <2>3. QED BY <2>2 DEF Max
<1>6. ASSUME NEW i \in first PROVE IsToken(Word(i))
  <2>1. End(i) \in i..Len(text) /\ \A k \in i..End(i) : Token(k)
    BY <1>5
  <2> HIDE DEF End
  <2>2. i \in Int /\ End(i) \in Int /\ End(i) - i + 1 \in Nat /\ 1 <= End(i) - i + 1
    BY <1>2, <1>3, <2>1
  <2>3. \A k \in 1..(End(i) - i + 1) : text[i + k - 1] \in DOMAIN LowerOf
    BY <2>1, <2>2
  <2> DEFINE w == Word(i)
  <2>4. \A c \in DOMAIN LowerOf : /\ LowerOf[c] \in DOMAIN LowerOf /\ LowerOf[c] \in Chars
                                 /\ LowerOf[LowerOf[c]] = LowerOf[c]
    BY IndexAssumption DEF Chars
  <2>5. w \in [1..(End(i) - i + 1) -> Chars]
    BY <2>3, <2>4
  <2>6. \A k \in 1..(End(i) - i + 1) : w[k] \in DOMAIN LowerOf /\ LowerOf[w[k]] = w[k]
    BY <2>3, <2>4
  <2> HIDE DEF w
  <2>7. w \in Seq(Chars) /\ Len(w) = End(i) - i + 1
    BY <2>2, <2>5
  <2>8. IsToken(w)
    BY <2>2, <2>6, <2>7 DEF IsToken, WordTexts
  <2>9. QED BY <2>8 DEF w
<1> HIDE DEF first, Word, starts, m
<1>7. \A n \in 1..m : IsToken(Word(starts[n]))
  BY <1>4, <1>6
<1>8. DOMAIN Tokenize(text) = 1..m /\ \A n \in 1..m : Tokenize(text)[n] = Word(starts[n])
  BY <1>1, <1>4
<1>9. Tokenize(text) \in [1..m -> WordTexts]
  BY <1>1, <1>4, <1>7 DEF IsToken
<1>10. Tokenize(text) \in Seq(WordTexts)
  BY <1>4, <1>9
<1>11. QED BY <1>7, <1>8, <1>10 DEF Range

LEMMA StemText ==
  ASSUME NEW token \in WordTexts, NEW mode
  PROVE  Stem(token, mode) \in WordTexts
<1> DEFINE Drops(suffix) == Len(token) > Len(suffix) + 2 /\ IsSuffix(suffix, token)
           I == {i \in 1..Len(Endings) : Drops(Endings[i])}
           i == IF I # {} THEN Min(I) ELSE 0
<1>1. Stem(token, mode) = IF mode = "none" \/ i = 0 THEN token ELSE SubSeq(token, 1, Len(token) - Len(Endings[i]))
  BY DEF Stem, SelectInSeq
<1>2. Endings \in Seq(WordTexts)
  BY IndexAssumption DEF WordTexts, Chars
<1>3. I \in SUBSET Nat
  BY <1>2
<1>4. i # 0 => i \in I
  <2>1. SUFFICES ASSUME I # {} PROVE Min(I) \in I
    OBVIOUS
  <2> HIDE DEF I
  <2>2. \E x \in I : \A y \in I : x <= y
    BY <1>3, <2>1, LeastOf
  <2>3. QED BY <2>2 DEF Min
<1> HIDE DEF i
<1>5. ASSUME i # 0 PROVE SubSeq(token, 1, Len(token) - Len(Endings[i])) \in WordTexts
  <2>1. i \in 1..Len(Endings) /\ Len(token) > Len(Endings[i]) + 2
    BY <1>4, <1>5
  <2>2. Len(Endings[i]) \in Nat
    <3>1. Endings[i] \in WordTexts
      BY <1>2, <2>1
    <3>2. QED BY <3>1, WordFacts
  <2>3. token \in Seq(Chars) /\ Len(token) \in Nat
    BY WordFacts DEF WordTexts
  <2>4. Len(token) - Len(Endings[i]) \in 0..Len(token)
    BY <2>1, <2>2, <2>3
  <2>5. SubSeq(token, 1, Len(token) - Len(Endings[i])) \in Seq(Chars)
    BY <2>3, <2>4
  <2>6. QED BY <2>5 DEF WordTexts
<1>6. QED BY <1>1, <1>5

LEMMA DocumentWords ==
  ASSUME NEW tokens \in Seq(WordTexts), NEW options
  PROVE  /\ WordsOf(tokens, options) \in Seq(WordTexts)
         /\ \A w \in Range(tokens) : Stem(w, options.stemming) = w /\ ~Stops(w, options.stopwords)
                                       => w \in Range(WordsOf(tokens, options))
<1> DEFINE stems == [i \in DOMAIN tokens |-> Stem(tokens[i], options.stemming)]
           S == {w \in Range(stems) : ~Stops(w, options.stopwords)}
<1>1. WordsOf(tokens, options) = Kept(stems, S)
  BY DEF WordsOf
<1>2. Len(tokens) \in Nat /\ DOMAIN tokens = 1..Len(tokens) /\ \A i \in 1..Len(tokens) : tokens[i] \in WordTexts
  OBVIOUS
<1>3. stems \in Seq(WordTexts)
  <2>1. stems \in [1..Len(tokens) -> WordTexts]
    BY <1>2, StemText
  <2>2. QED BY <1>2, <2>1
<1>4. ASSUME NEW w \in Range(tokens), Stem(w, options.stemming) = w PROVE w \in Range(stems)
  BY <1>2, <1>4 DEF Range
<1> HIDE DEF stems
<1>5. Kept(stems, S) \in Seq(WordTexts) /\ Range(Kept(stems, S)) = Range(stems) \cap S
  BY <1>3, KeptElements
<1>6. QED BY <1>1, <1>4, <1>5

\* Any element of a sequence is found by Contains.
LEMMA ContainsRange ==
  ASSUME NEW T, NEW seq \in Seq(T), NEW x
  PROVE  Contains(seq, x) <=> x \in Range(seq)
BY DEF Contains, Range

LEMMA FileText ==
  ASSUME NEW options \in Options, NEW file \in Range(options.files)
  PROVE  \E T : ExtractText(file) \in Seq(T)
<1> DEFINE html == file.text
           InTag(i) == \E j \in 1..(i - 1) : html[j] = "<" /\ \A k \in j..(i - 1) : html[k] # ">"
           P == {i \in DOMAIN html : html[i] = ">" \/ (html[i] # "<" /\ ~InTag(i))}
           places == InOrder(P)
           T == Range(html) \cup {" "}
<1>1. html \in Seq(Range(html))
  BY IndexAssumption
<1>2. Untagged(html) = [n \in DOMAIN places |-> IF html[places[n]] = ">" THEN " " ELSE html[places[n]]]
  BY Zenon DEF Untagged
<1> HIDE DEF html
<1>3. Len(html) \in Nat /\ DOMAIN html = 1..Len(html) /\ \A i \in 1..Len(html) : html[i] \in Range(html)
  BY <1>1 DEF Range
<1>4. P \in SUBSET (1..Len(html))
  BY <1>3
<1> HIDE DEF P
<1> DEFINE m == Cardinality(P)
<1>5. m \in Nat /\ places \in [1..m -> P]
  BY <1>3, <1>4, PlacesInOrder
<1> HIDE DEF places, m
<1>6. Untagged(html) \in [1..m -> T]
  <2>1. \A n \in 1..m : (IF html[places[n]] = ">" THEN " " ELSE html[places[n]]) \in T
    <3>1. TAKE n \in 1..m
    <3>2. places[n] \in 1..Len(html)
      BY <1>4, <1>5
    <3>3. html[places[n]] \in T /\ " " \in T
      BY <1>3, <3>2
    <3>4. QED BY <3>3
  <2>2. DOMAIN places = 1..m
    BY <1>5
  <2>3. QED BY <1>2, <2>1, <2>2
<1> HIDE DEF T
<1>7. Untagged(html) \in Seq(T)
  BY <1>5, <1>6
<1>8. QED BY <1>1, <1>7, Zenon DEF ExtractText, html

-----------------------------------------------------------------------------
(* What build_index makes.                                                 *)

Strings == Range(StringOrder)
IsMetadata(metadata) == metadata \in [DOMAIN metadata -> Strings] /\ DOMAIN metadata \subseteq Strings
IsDocument(document) == document.tokens \in Seq(WordTexts) /\ IsMetadata(document.metadata)

LEMMA FileDocument ==
  ASSUME NEW options \in Options, NEW file \in Range(options.files)
  PROVE  /\ IsDocument(DocumentOf(file, options)) /\ DocumentOf(file, options).path = file.path
         /\ DocumentOf(file, options).tokens = WordsOf(Tokenize(ExtractText(file)), options)
<1>1. \E T : ExtractText(file) \in Seq(T)
  BY FileText
<1>2. Tokenize(ExtractText(file)) \in Seq(WordTexts)
  BY <1>1, TextTokens
<1>3. WordsOf(Tokenize(ExtractText(file)), options) \in Seq(WordTexts)
  BY <1>2, DocumentWords
<1>4. /\ {file.path, file.name, file.extension} \subseteq Strings
      /\ {"path", "name", "extension"} \subseteq Strings
  BY IndexAssumption DEF Strings
<1>5. IsMetadata(Metadata(file))
  BY <1>4 DEF IsMetadata, Metadata
<1>6. QED BY <1>3, <1>5 DEF IsDocument, DocumentOf

\* The documents are those of the files that were accepted.
LEMMA BuiltDocuments ==
  ASSUME NEW options \in Options
  PROVE  LET documents == Documents(options)
         IN  /\ Len(documents) \in Nat /\ DOMAIN documents = 1..Len(documents)
             /\ \A d \in 1..Len(documents) : IsDocument(documents[d])
             /\ \A f \in Range(options.files) : Accepted(f, options) =>
                  \E d \in 1..Len(documents) : documents[d] = DocumentOf(f, options)
<1> DEFINE S == {f \in Range(options.files) : Accepted(f, options)}
           files == Kept(options.files, S)
           documents == Documents(options)
<1>1. documents = [i \in DOMAIN files |-> DocumentOf(files[i], options)]
  BY DEF Documents
<1>2. options.files \in Seq(Range(options.files))
  BY IndexAssumption
<1>3. files \in Seq(Range(options.files)) /\ Range(files) = Range(options.files) \cap S
  BY <1>2, KeptElements
<1> HIDE DEF files, documents
<1>4. Len(files) \in Nat /\ DOMAIN files = 1..Len(files) /\ \A i \in 1..Len(files) : files[i] \in Range(options.files)
  BY <1>3
<1>5. Len(documents) = Len(files) /\ DOMAIN documents = 1..Len(files)
  BY <1>1, <1>4
<1>6. \A d \in 1..Len(files) : IsDocument(documents[d])
  BY <1>1, <1>4, FileDocument
<1>7. ASSUME NEW f \in Range(options.files), Accepted(f, options)
      PROVE  \E d \in 1..Len(files) : documents[d] = DocumentOf(f, options)
  <2>1. f \in Range(files)
    BY <1>3, <1>7
  <2>2. PICK d \in 1..Len(files) : files[d] = f
    BY <2>1, <1>4 DEF Range
  <2>3. QED BY <2>2, <1>1, <1>4
<1>8. QED BY <1>4, <1>5, <1>6, <1>7 DEF documents

\* The postings have one of document d if the word is there, with its places.
PostsAt(postings, tokens, word, d) ==
  LET at   == {p \in DOMAIN tokens : tokens[p] = word}
      mine == {i \in DOMAIN postings : postings[i].doc = d}
  IN  /\ mine = {} <=> at = {}
      /\ \A i \in mine : mine = {i} /\ Range(postings[i].positions) = at

LEMMA PostingsOf ==
  ASSUME NEW documents, NEW N \in Nat, DOMAIN documents = 1..N,
         \A d \in 1..N : documents[d].tokens \in Seq(WordTexts), NEW word
  PROVE  \A d \in 1..N : PostsAt(Postings(word, documents), documents[d].tokens, word, d)
<1> DEFINE S == {d \in DOMAIN documents : Contains(documents[d].tokens, word)}
           docs == InOrder(S)
           n == Cardinality(S)
           postings == Postings(word, documents)
<1>1. postings = [i \in DOMAIN docs |-> [doc |-> docs[i], positions |-> PositionsOf(word, documents[docs[i]].tokens)]]
  BY DEF Postings
<1>2. S \in SUBSET (1..N)
  OBVIOUS
<1> HIDE DEF S
<1>3. /\ n \in Nat /\ docs \in [1..n -> S] /\ Range(docs) = S
      /\ \A i, j \in 1..n : i < j <=> docs[i] < docs[j]
  BY <1>2, PlacesInOrder
<1> HIDE DEF docs, n, postings
<1>4. DOMAIN docs = 1..n /\ DOMAIN postings = 1..n /\ \A i \in 1..n : docs[i] \in 1..N
  BY <1>1, <1>2, <1>3
<1>5. \A i \in 1..n : postings[i].doc = docs[i] /\ postings[i].positions = PositionsOf(word, documents[docs[i]].tokens)
  BY <1>1, <1>4
<1>6. TAKE d \in 1..N
<1> DEFINE tokens == documents[d].tokens
           at     == {p \in DOMAIN tokens : tokens[p] = word}
           mine   == {i \in DOMAIN postings : postings[i].doc = d}
<1>7. tokens \in Seq(WordTexts)
  OBVIOUS
<1> HIDE DEF tokens
<1>8. d \in S <=> at # {}
  <2>1. d \in S <=> Contains(tokens, word)
    BY DEF S, tokens
  <2>2. DOMAIN tokens = 1..Len(tokens)
    BY <1>7
  <2>3. QED BY <2>1, <2>2 DEF Contains
<1>9. \A i \in 1..n : i \in mine <=> docs[i] = d
  BY <1>4, <1>5
<1>10. mine # {} <=> d \in S
  BY <1>3, <1>4, <1>9 DEF Range
<1>11. ASSUME NEW i \in mine PROVE mine = {i} /\ Range(postings[i].positions) = at
  <2>1. i \in 1..n /\ docs[i] = d
    BY <1>4, <1>9
  <2>2. ASSUME NEW j \in mine PROVE j = i
    <3>1. j \in 1..n /\ docs[j] = d
      BY <1>4, <1>9
    <3>2. ~(i < j) /\ ~(j < i)
      BY <1>3, <2>1, <3>1
    <3>3. QED BY <2>1, <3>1, <3>2
  <2>3. postings[i].positions = PositionsOf(word, tokens)
    BY <1>5, <2>1 DEF tokens
  <2>4. Range(PositionsOf(word, tokens)) = at
    <3>1. Len(tokens) \in Nat /\ at \in SUBSET (1..Len(tokens))
      BY <1>7
    <3>2. PositionsOf(word, tokens) = InOrder(at)
      BY DEF PositionsOf
    <3> HIDE DEF at
    <3>3. QED BY <3>1, <3>2, PlacesInOrder
  <2>5. QED BY <2>2, <2>3, <2>4
<1>12. (mine = {} <=> at = {}) /\ \A i \in mine : mine = {i} /\ Range(postings[i].positions) = at
  BY <1>8, <1>10, <1>11
<1>13. QED BY <1>12, Zenon DEF PostsAt, at, mine, tokens, postings

\* The terms are the words of the documents, in their order.
LEMMA TermsOf ==
  ASSUME NEW documents, NEW N \in Nat, DOMAIN documents = 1..N,
         \A d \in 1..N : documents[d].tokens \in Seq(WordTexts)
  PROVE  LET terms == Terms(documents)
             words == UNION {Range(documents[d].tokens) : d \in DOMAIN documents}
         IN  /\ Len(terms) \in Nat /\ DOMAIN terms = 1..Len(terms)
             /\ \A i \in 1..Len(terms) : /\ terms[i].term \in WordTexts
                                         /\ terms[i] = [term |-> terms[i].term, postings |-> Postings(terms[i].term, documents)]
             /\ \A i, j \in 1..Len(terms) : i < j <=> Before(terms[i].term, terms[j].term)
             /\ {terms[i].term : i \in 1..Len(terms)} = words
<1> DEFINE words == UNION {Range(documents[d].tokens) : d \in DOMAIN documents}
           R == {p \in words \X words : Before(p[1], p[2])}
           asc == Ascending(words, R)
           n == Cardinality(words)
           terms == Terms(documents)
<1>1. terms = [i \in DOMAIN asc |-> [term |-> asc[i], postings |-> Postings(asc[i], documents)]]
  BY DEF Terms
<1>2. words \in SUBSET WordTexts
  BY DEF Range
<1>3. IsFiniteSet(words)
  <2> DEFINE f == [d \in 1..N |-> Range(documents[d].tokens)]
             sets == {Range(documents[d].tokens) : d \in 1..N}
  <2>1. IsFiniteSet(1..N) /\ f \in Surjection(1..N, sets)
    BY FS_Interval DEF Surjection
  <2>2. IsFiniteSet(sets)
    <3> HIDE DEF f, sets
    <3>1. QED BY <2>1, FS_Surjection
  <2>3. \A s \in sets : IsFiniteSet(s)
    <3>1. TAKE s \in sets
    <3>2. PICK d \in 1..N : s = Range(documents[d].tokens)
      OBVIOUS
    <3> DEFINE tokens == documents[d].tokens
    <3>3. tokens \in Seq(WordTexts)
      OBVIOUS
    <3> HIDE DEF tokens
    <3>4. Len(tokens) \in Nat /\ DOMAIN tokens = 1..Len(tokens)
      BY <3>3
    <3>5. tokens \in Surjection(1..Len(tokens), Range(tokens))
      BY <3>3, <3>4 DEF Range, Surjection
    <3>6. IsFiniteSet(Range(tokens))
      BY <3>4, <3>5, FS_Interval, FS_Surjection
    <3>7. QED BY <3>2, <3>6 DEF tokens
  <2>4. QED BY <2>2, <2>3, FS_UNION
<1> HIDE DEF words
<1>4. Orders(R, words)
  BY <1>2, BeforeOrders
<1>5. \A v, w \in words : <<v, w>> \in R <=> Before(v, w)
  OBVIOUS
<1> HIDE DEF R
<1>6. /\ n \in Nat /\ asc \in [1..n -> words]
      /\ \A x \in words : \E i \in 1..n : asc[i] = x
      /\ \A i, j \in 1..n : i < j <=> <<asc[i], asc[j]>> \in R
  BY <1>3, <1>4, AscendingOrder
<1> HIDE DEF asc, n, terms
<1>7. DOMAIN terms = 1..n /\ Len(terms) = n
  BY <1>1, <1>6
<1>8. \A i \in 1..n : /\ terms[i].term = asc[i] /\ asc[i] \in WordTexts /\ asc[i] \in words
                      /\ terms[i] = [term |-> asc[i], postings |-> Postings(asc[i], documents)]
  BY <1>1, <1>2, <1>6
<1>9. \A i, j \in 1..n : i < j <=> Before(terms[i].term, terms[j].term)
  BY <1>5, <1>6, <1>8
<1>10. {terms[i].term : i \in 1..n} = words
  BY <1>6, <1>8
<1>11. QED BY <1>6, <1>7, <1>8, <1>9, <1>10 DEF terms, words

LEMMA PrefixAgrees ==
  ASSUME NEW T, NEW p \in Seq(T), NEW v \in Seq(T)
  PROVE  IsPrefix(p, v) <=> Len(p) <= Len(v) /\ Agree(p, v, Len(p))
<1>1. Len(p) \in Nat /\ Len(v) \in Nat /\ SubSeq(p, 1, Len(p)) = p
  BY SubSeqFull
<1>2. ASSUME Len(p) <= Len(v) PROVE p = SubSeq(v, 1, Len(p)) <=> \A i \in 1..Len(p) : p[i] = v[i]
  <2> DEFINE s == SubSeq(v, 1, Len(p))
  <2>1. s \in Seq(T) /\ Len(s) = Len(p) /\ \A i \in 1..Len(p) : s[i] = v[i]
    BY <1>1, <1>2
  <2> HIDE DEF s
  <2>2. (\A i \in 1..Len(p) : p[i] = s[i]) => p = s
    BY <2>1, SeqEqual
  <2>3. QED BY <2>1, <2>2 DEF s
<1>3. QED BY <1>1, <1>2 DEF IsPrefix, Agree

\* In an ordered list of words those with a common prefix stand together.
LEMMA RunOfPrefix ==
  ASSUME NEW all \in Seq(WordTexts), \A i, j \in 1..Len(all) : i < j => Before(all[i], all[j]),
         NEW i \in 1..Len(all), NEW n \in 0..Len(all[i])
  PROVE  \E j, k \in 1..Len(all) :
           /\ i \in j..k
           /\ Kept(all, {w \in Range(all) : IsPrefix(SubSeq(all[i], 1, n), w)}) = SubSeq(all, j, k)
<1> DEFINE p == SubSeq(all[i], 1, n)
           S == {w \in Range(all) : IsPrefix(p, w)}
           J == {x \in 1..Len(all) : IsPrefix(p, all[x])}
<1>1. Len(all) \in Nat /\ DOMAIN all = 1..Len(all) /\ \A x \in 1..Len(all) : all[x] \in WordTexts
  OBVIOUS
<1>2. all[i] \in Seq(Chars) /\ Len(all[i]) \in Nat /\ n \in Nat /\ n <= Len(all[i])
  BY <1>1, WordFacts DEF WordTexts
<1>3. p \in Seq(Chars) /\ Len(p) = n /\ \A x \in 1..n : p[x] = all[i][x]
  BY <1>2
<1> HIDE DEF p
<1>4. \A x \in 1..Len(all) : x \in J <=> n <= Len(all[x]) /\ Agree(p, all[x], n)
  <2>1. TAKE x \in 1..Len(all)
  <2>2. all[x] \in Seq(Chars)
    BY <1>1 DEF WordTexts
  <2>3. QED BY <1>3, <2>2, PrefixAgrees
<1>5. i \in J
  BY <1>2, <1>3, <1>4 DEF Agree
<1>6. J \in SUBSET (1..Len(all))
  OBVIOUS
<1>7. \A x \in Int : x \in DOMAIN all /\ all[x] \in S <=> x \in J
  BY <1>1 DEF Range
<1> HIDE DEF J, S
<1>8. PICK j \in J : \A x \in J : j <= x
  <2>1. J # {} /\ J \in SUBSET Nat
    BY <1>1, <1>5, <1>6
  <2>2. QED BY <2>1, LeastOf
<1>9. PICK k \in J : \A x \in J : k >= x
  <2>1. J # {} /\ J \in SUBSET (0..Len(all))
    BY <1>1, <1>5, <1>6
  <2>2. QED BY <1>1, <2>1, GreatestOf
<1>10. j \in 1..Len(all) /\ k \in 1..Len(all) /\ i \in j..k
  BY <1>1, <1>5, <1>6, <1>8, <1>9
<1>11. ASSUME NEW x \in j..k PROVE x \in J
  <2>1. x \in 1..Len(all)
    BY <1>1, <1>10
  <2>2. CASE x = j \/ x = k
    BY <2>2
  <2>3. CASE j < x /\ x < k
    <3>1. Before(all[j], all[x]) /\ Before(all[x], all[k])
      BY <1>10, <2>1, <2>3
    <3>2. n <= Len(all[j]) /\ Agree(p, all[j], n) /\ n <= Len(all[k]) /\ Agree(p, all[k], n)
      BY <1>4, <1>10
    <3>3. Agree(all[j], all[k], n)
      BY <3>2 DEF Agree
    <3>4. all[j] \in WordTexts /\ all[x] \in WordTexts /\ all[k] \in WordTexts
      BY <1>1, <1>10, <2>1
    <3>5. n <= Len(all[x]) /\ Agree(all[j], all[x], n)
      BY <1>2, <3>1, <3>2, <3>3, <3>4, BetweenPrefix
    <3>6. Agree(p, all[x], n)
      BY <3>2, <3>5 DEF Agree
    <3>7. QED BY <1>4, <2>1, <3>5, <3>6
  <2>4. QED BY <1>10, <2>1, <2>2, <2>3
<1>12. \A x \in Int : x \in DOMAIN all /\ all[x] \in S <=> x \in j..k
  <2>1. \A x \in J : x \in j..k
    BY <1>1, <1>6, <1>8, <1>9, <1>10
  <2>2. QED BY <1>7, <1>11, <2>1
<1>13. j \in Int /\ k \in Int /\ j <= k + 1
  BY <1>1, <1>10
<1>14. Kept(all, S) = SubSeq(all, j, k)
  BY <1>12, <1>13, KeptRun
<1>15. QED BY <1>10, <1>14 DEF S, p

\* The terms that begin with p stand together, with the i-th among them.
RunAt(idx, i, p) ==
  LET found == PrefixSearch(idx, p)
  IN  \E j, k \in DOMAIN idx.terms : i \in j..k /\ found = SubSeq(AllTerms(idx), j, k)

LEMMA BuiltIndexGives ==
  ASSUME NEW options \in Options
  PROVE  GivesTheWords([documents |-> Documents(options), terms |-> Terms(Documents(options))])
<1> DEFINE documents == Documents(options)
           terms == Terms(documents)
           idx == [documents |-> documents, terms |-> terms]
           N == Len(documents)
           all == AllTerms(idx)
           words == UNION {Range(documents[d].tokens) : d \in DOMAIN documents}
<1>1. N \in Nat /\ DOMAIN documents = 1..N /\ \A d \in 1..N : IsDocument(documents[d])
  BY BuiltDocuments, Zenon
<1> HIDE DEF documents
<1>2. \A d \in 1..N : documents[d].tokens \in Seq(WordTexts)
  BY <1>1 DEF IsDocument
<1>3. /\ Len(terms) \in Nat /\ DOMAIN terms = 1..Len(terms)
      /\ \A i \in 1..Len(terms) : /\ terms[i].term \in WordTexts
                                  /\ terms[i] = [term |-> terms[i].term, postings |-> Postings(terms[i].term, documents)]
      /\ \A i, j \in 1..Len(terms) : i < j <=> Before(terms[i].term, terms[j].term)
      /\ {terms[i].term : i \in 1..Len(terms)} = words
  BY <1>1, <1>2, TermsOf, Zenon
<1> HIDE DEF terms, N
<1>4. idx.documents = documents /\ idx.terms = terms
  OBVIOUS
<1> HIDE DEF idx, words
<1>5. \A t \in Range(terms) : t.postings = Postings(t.term, documents)
  BY <1>3 DEF Range
<1>6. ASSUME NEW t \in Range(terms), NEW d \in 1..N
      PROVE  PostsAt(t.postings, documents[d].tokens, t.term, d)
  <2>1. PostsAt(Postings(t.term, documents), documents[d].tokens, t.term, d)
    BY <1>1, <1>2, PostingsOf
  <2>2. QED BY <1>5, <2>1
<1>7. all = [i \in 1..Len(terms) |-> terms[i].term]
  BY <1>3, <1>4 DEF AllTerms
<1> HIDE DEF all
<1>8. all \in Seq(WordTexts) /\ Len(all) = Len(terms) /\ DOMAIN all = 1..Len(terms)
  <2>1. all \in [1..Len(terms) -> WordTexts]
    BY <1>3, <1>7
  <2>2. QED BY <1>3, <1>7, <2>1
<1>9. \A i \in 2..Len(terms) : Before(terms[i - 1].term, terms[i].term)
  BY <1>3
<1>10. Range(all) = words
  BY <1>3, <1>7, <1>8 DEF Range
<1>11. ASSUME NEW i \in 1..Len(terms), NEW n \in 0..Len(terms[i].term)
       PROVE  RunAt(idx, i, SubSeq(terms[i].term, 1, n))
  <2>1. \A x, y \in 1..Len(all) : x < y => Before(all[x], all[y])
    BY <1>3, <1>7, <1>8
  <2>2. i \in 1..Len(all) /\ all[i] = terms[i].term /\ n \in 0..Len(all[i])
    BY <1>7, <1>8
  <2>3. \E j, k \in 1..Len(all) :
          /\ i \in j..k
          /\ Kept(all, {w \in Range(all) : IsPrefix(SubSeq(all[i], 1, n), w)}) = SubSeq(all, j, k)
    BY <1>8, <2>1, <2>2, RunOfPrefix
  <2>4. PrefixSearch(idx, SubSeq(all[i], 1, n)) = Kept(all, {w \in Range(all) : IsPrefix(SubSeq(all[i], 1, n), w)})
    BY Zenon DEF PrefixSearch, all
  <2>5. QED BY <1>3, <1>4, <1>8, <2>2, <2>3, <2>4 DEF RunAt, all
<1>12. GivesTheWords(idx)
  <2>1. \A t \in Range(idx.terms), d \in DOMAIN idx.documents :
          PostsAt(t.postings, idx.documents[d].tokens, t.term, d)
    BY <1>1, <1>4, <1>6 DEF N
  <2>2. \A i \in 2..Len(idx.terms) : Before(idx.terms[i - 1].term, idx.terms[i].term)
    BY <1>4, <1>9
  <2>3. Range(AllTerms(idx)) = UNION {Range(idx.documents[d].tokens) : d \in DOMAIN idx.documents}
    BY <1>4, <1>10 DEF all, words
  <2>4. \A i \in DOMAIN idx.terms : \A n \in 0..Len(idx.terms[i].term) : RunAt(idx, i, SubSeq(idx.terms[i].term, 1, n))
    BY <1>3, <1>4, <1>11
  <2>5. QED BY <2>1, <2>2, <2>3, <2>4, Zenon DEF GivesTheWords, PostsAt, RunAt
<1>13. QED BY <1>12, Zenon DEF idx, terms, documents

-----------------------------------------------------------------------------
(* What is read from the file.                                             *)

LEMMA StringOrders ==
  /\ IsFiniteSet(Strings)
  /\ \A s \in Strings : OrderOf(s) \in 1..Len(StringOrder) /\ StringOrder[OrderOf(s)] = s
<1>1. StringOrder \in Seq(Strings)
  BY IndexAssumption DEF Strings
<1>2. Len(StringOrder) \in Nat /\ DOMAIN StringOrder = 1..Len(StringOrder)
  BY <1>1
<1>3. IsFiniteSet(Strings)
  <2>1. StringOrder \in Surjection(1..Len(StringOrder), Strings)
    BY <1>1, <1>2 DEF Surjection, Strings, Range
  <2>2. QED BY <1>2, <2>1, FS_Interval, FS_Surjection
<1>4. ASSUME NEW s \in Strings PROVE OrderOf(s) \in 1..Len(StringOrder) /\ StringOrder[OrderOf(s)] = s
  <2> DEFINE I == {i \in 1..Len(StringOrder) : StringOrder[i] = s}
  <2>1. I # {} /\ Min(I) \in I
    <3>1. StringOrder \in Seq(Range(StringOrder)) /\ s \in Range(StringOrder)
      BY IndexAssumption DEF Strings
    <3>2. QED BY <3>1, PlaceIn, Zenon
  <2>2. OrderOf(s) = IF I # {} THEN Min(I) ELSE 0
    BY DEF OrderOf, SelectInSeq
  <2> HIDE DEF I
  <2>3. OrderOf(s) \in I
    BY <2>1, <2>2
  <2>4. QED BY <2>3 DEF I
<1>5. QED BY <1>3, <1>4

\* The pairs of a map are read with keys and values exchanged.
LEMMA MetadataComesBack ==
  ASSUME NEW was, IsMetadata(was)
  PROVE  LET is == ReadPairs(Pairs(was))
         IN  /\ IsMetadata(is) /\ DOMAIN is = Range(was)
             /\ \A k \in DOMAIN was :
                  \/ is[was[k]] = k
                  \/ was[is[was[k]]] = was[k] /\ OrderOf(k) < OrderOf(is[was[k]])
<1> DEFINE D == DOMAIN was
           R == {p \in D \X D : OrderOf(p[1]) < OrderOf(p[2])}
           keys == Ascending(D, R)
           n == Cardinality(D)
           pairs == Pairs(was)
           is == ReadPairs(pairs)
<1>1. D \subseteq Strings /\ was \in [D -> Strings]
  BY DEF IsMetadata
<1>2. IsFiniteSet(D)
  BY <1>1, StringOrders, FS_Subset
<1>3. \A s, t \in Strings : OrderOf(s) \in Int /\ (OrderOf(s) = OrderOf(t) => s = t)
  <2>1. Len(StringOrder) \in Nat
    <3>1. StringOrder \in Seq(Strings)
      BY IndexAssumption DEF Strings
    <3>2. QED BY <3>1
  <2>2. \A s \in Strings : OrderOf(s) \in Int
    BY <2>1, StringOrders
  <2>3. QED BY <2>2, StringOrders
<1>4. pairs = [i \in DOMAIN keys |-> <<keys[i], was[keys[i]]>>]
  BY Zenon DEF Pairs
<1> HIDE DEF D
<1>5. \A s, t \in D : <<s, t>> \in R <=> OrderOf(s) < OrderOf(t)
  OBVIOUS
<1> HIDE DEF R
<1>6. Orders(R, D)
  <2>1. \A s, t \in D : OrderOf(s) \in Int /\ (OrderOf(s) = OrderOf(t) => s = t)
    BY <1>1, <1>3
  <2>2. \A s \in D : <<s, s>> \notin R
    BY <1>5, <2>1
  <2>3. \A s, t \in D : s # t => <<s, t>> \in R \/ <<t, s>> \in R
    BY <1>5, <2>1
  <2>4. \A s, t, u \in D : <<s, t>> \in R /\ <<t, u>> \in R => <<s, u>> \in R
    BY <1>5, <2>1
  <2>5. QED BY <2>2, <2>3, <2>4 DEF Orders
<1>7. /\ n \in Nat /\ keys \in [1..n -> D]
      /\ \A x \in D : \E i \in 1..n : keys[i] = x
      /\ \A i, j \in 1..n : i < j <=> <<keys[i], keys[j]>> \in R
  BY <1>2, <1>6, AscendingOrder
<1> HIDE DEF keys, n, pairs
<1>8. DOMAIN pairs = 1..n /\ \A i \in 1..n : pairs[i][1] = keys[i] /\ pairs[i][2] = was[keys[i]] /\ keys[i] \in D
  BY <1>4, <1>7
<1> DEFINE I(v) == {i \in DOMAIN pairs : pairs[i][2] = v}
           V == {pairs[i][2] : i \in DOMAIN pairs}
<1>9. is = [v \in V |-> pairs[Max(I(v))][1]]
  BY DEF ReadPairs
<1> HIDE DEF is
<1>10. V = Range(was)
  <2>1. \A v \in V : v \in Range(was)
    BY <1>1, <1>8 DEF Range, D
  <2>2. \A v \in Range(was) : v \in V
    <3>1. TAKE v \in Range(was)
    <3>2. PICK x \in D : v = was[x]
      BY DEF Range, D
    <3>3. PICK i \in 1..n : keys[i] = x
      BY <1>7
    <3>4. QED BY <1>8, <3>2, <3>3
  <2>3. QED BY <2>1, <2>2
<1>11. ASSUME NEW v \in V PROVE Max(I(v)) \in I(v) /\ \A i \in I(v) : Max(I(v)) >= i
  <2>1. I(v) \in SUBSET (0..n) /\ I(v) # {}
    BY <1>7, <1>8
  <2> HIDE DEF I
  <2>2. \E x \in I(v) : \A y \in I(v) : x >= y
    BY <1>7, <2>1, GreatestOf
  <2>3. QED BY <2>2 DEF Max
<1>12. ASSUME NEW v \in V PROVE is[v] \in D /\ was[is[v]] = v
  <2>1. Max(I(v)) \in 1..n /\ pairs[Max(I(v))][2] = v
    BY <1>8, <1>11
  <2> HIDE DEF I, V
  <2>2. is[v] = keys[Max(I(v))]
    BY <1>8, <1>9, <2>1
  <2>3. QED BY <1>8, <2>1, <2>2
<1>13. ASSUME NEW k \in D
       PROVE  is[was[k]] = k \/ (was[is[was[k]]] = was[k] /\ OrderOf(k) < OrderOf(is[was[k]]))
  <2>1. PICK x \in 1..n : keys[x] = k
    BY <1>7
  <2> DEFINE v == was[k]
             m == Max(I(v))
  <2>2. v \in V /\ x \in I(v)
    BY <1>8, <2>1
  <2>3. m \in I(v) /\ m >= x
    BY <1>11, <2>2
  <2>4. m \in 1..n
    BY <1>8, <2>3
  <2> HIDE DEF m
  <2>5. is[v] = keys[m]
    <3> HIDE DEF V
    <3>1. QED BY <1>8, <1>9, <2>2, <2>4 DEF m
  <2>6. CASE m = x
    BY <2>1, <2>5, <2>6
  <2>7. CASE x < m
    <3>1. OrderOf(k) < OrderOf(is[v])
      BY <1>5, <1>7, <1>8, <2>1, <2>4, <2>5, <2>7
    <3>2. QED BY <1>12, <2>2, <3>1
  <2>8. QED BY <2>3, <2>4, <2>6, <2>7
<1>14. IsMetadata(is)
  <2>1. V \subseteq Strings
    BY <1>1, <1>10 DEF Range, D
  <2>2. is \in [V -> Strings]
    <3>1. \A v \in V : is[v] \in Strings
      BY <1>1, <1>12
    <3> HIDE DEF V
    <3>2. is = [v \in V |-> is[v]]
      BY <1>9
    <3>3. QED BY <3>1, <3>2
  <2> HIDE DEF V
  <2>3. QED BY <2>1, <2>2 DEF IsMetadata
<1>15. DOMAIN is = Range(was)
  <2> HIDE DEF V
  <2>1. QED BY <1>9, <1>10
<1>16. QED BY <1>13, <1>14, <1>15 DEF is, pairs, D

\* The list of terms is rebuilt from what they share and what they add.
LEMMA TermsComeBack ==
  ASSUME NEW P, NEW terms \in Seq([term : WordTexts, postings : P]), NEW idx, idx.terms = terms
  PROVE  ReadTerms(WrittenIndex(idx).terms) = terms
<1> DEFINE N == Len(terms)
           E == [term : WordTexts, postings : P]
           entries == WrittenIndex(idx).terms
           Previous(f, n) == IF n = 1 THEN <<>> ELSE f[n - 1][n - 1].term
           Item(f, n) == [term     |-> SubSeq(Previous(f, n), 1, entries[n].prefix) \o entries[n].suffix,
                          postings |-> entries[n].postings]
           Loop(f) == [n \in 0..Len(entries) |-> IF n = 0 THEN <<>> ELSE Append(f[n - 1], Item(f, n))]
           read == CHOOSE f : f = Loop(f)
           g == [n \in 0..N |-> SubSeq(terms, 1, n)]
           shared(i) == IF i = 1 THEN 0 ELSE Len(LongestCommonPrefix({terms[i - 1].term, terms[i].term}))
<1>1. terms \in Seq(E)
  OBVIOUS
<1> HIDE DEF E
<1>2. N \in Nat /\ DOMAIN terms = 1..N /\ \A i \in 1..N : terms[i] \in E
  BY <1>1
<1>3. \A i \in 1..N : /\ terms[i] = [term |-> terms[i].term, postings |-> terms[i].postings]
                      /\ terms[i].term \in WordTexts
  BY <1>2 DEF E
<1>4. entries = [i \in 1..N |-> [prefix   |-> shared(i),
                                 suffix   |-> SubSeq(terms[i].term, shared(i) + 1, Len(terms[i].term)),
                                 postings |-> terms[i].postings]]
  BY <1>2 DEF WrittenIndex
<1>5. ReadTerms(entries) = read[Len(entries)]
  BY DEF ReadTerms
<1> HIDE DEF shared, entries, N, read
<1>6. Len(entries) = N /\ \A i \in 1..N : /\ entries[i].prefix = shared(i)
                                         /\ entries[i].suffix = SubSeq(terms[i].term, shared(i) + 1, Len(terms[i].term))
                                         /\ entries[i].postings = terms[i].postings
  BY <1>2, <1>4
<1>7. ASSUME NEW n \in 1..N
      PROVE  LET previous == IF n = 1 THEN <<>> ELSE terms[n - 1].term
             IN  SubSeq(previous, 1, entries[n].prefix) \o entries[n].suffix = terms[n].term
  <2> DEFINE w == terms[n].term
  <2>1. w \in Seq(Chars) /\ Len(w) \in Nat /\ SubSeq(w, 1, Len(w)) = w
    <3>1. w \in Seq(Chars)
      BY <1>3 DEF WordTexts
    <3> HIDE DEF w
    <3>2. QED BY <3>1, SubSeqFull
  <2>2. CASE n = 1
    <3>0. shared(n) = 0
      BY <2>2 DEF shared
    <3>1. entries[n].prefix = 0 /\ entries[n].suffix = w
      <4>1. entries[n].prefix = shared(n) /\ entries[n].suffix = SubSeq(w, shared(n) + 1, Len(w))
        BY <1>6, Zenon
      <4> HIDE DEF w, shared
      <4>2. shared(n) + 1 = 1
        BY <3>0
      <4>3. QED BY <2>1, <3>0, <4>1, <4>2
    <3> HIDE DEF w
    <3>2. SubSeq(<<>>, 1, 0) = <<>> /\ <<>> \o w = w
      BY <2>1
    <3>3. QED BY <2>2, <3>1, <3>2 DEF w
  <2>3. CASE n # 1
    <3> DEFINE v == terms[n - 1].term
    <3>1. v \in Seq(Chars)
      BY <1>2, <1>3, <2>3 DEF WordTexts
    <3> HIDE DEF v, w
    <3>2. PICK k \in Nat : CommonAt(v, w, k) /\ Len(LongestCommonPrefix({v, w})) = k
      BY <2>1, <3>1, LongestCommon
    <3>3. shared(n) = k
      BY <2>3, <3>2 DEF shared, v, w
    <3>4. k <= Len(v) /\ k <= Len(w) /\ \A i \in 1..k : v[i] = w[i]
      BY <3>2 DEF CommonAt, Agree
    <3>5. SubSeq(v, 1, k) = SubSeq(w, 1, k)
      BY <2>1, <3>1, <3>4
    <3>6. SubSeq(w, 1, k) \o SubSeq(w, k + 1, Len(w)) = w
      <4>1. 1 \in 1..(Len(w) + 1) /\ k \in (1 - 1)..Len(w) /\ Len(w) \in k..Len(w)
        BY <2>1, <3>4
      <4>2. SubSeq(w, 1, k) \o SubSeq(w, k + 1, Len(w)) = SubSeq(w, 1, Len(w))
        BY <2>1, <4>1, ConcatAdjacentSubSeq
      <4>3. QED BY <2>1, <4>2
    <3>7. entries[n].prefix = k /\ entries[n].suffix = SubSeq(w, k + 1, Len(w))
      BY <1>6, <3>3 DEF w
    <3>8. QED BY <2>3, <3>5, <3>6, <3>7 DEF v, w
  <2>4. QED BY <2>2, <2>3
<1>8. g[0] = <<>> /\ \A n \in 0..N : g[n] \in Seq(E) /\ Len(g[n]) = n
  BY <1>2
<1>9. ASSUME NEW f, NEW n \in 1..N, f[n - 1] = SubSeq(terms, 1, n - 1)
      PROVE  Append(f[n - 1], Item(f, n)) = SubSeq(terms, 1, n)
  <2>1. Previous(f, n) = IF n = 1 THEN <<>> ELSE terms[n - 1].term
    BY <1>2, <1>9
  <2>2. Item(f, n) = [term |-> terms[n].term, postings |-> terms[n].postings]
    BY <1>6, <1>7, <2>1
  <2>3. Item(f, n) = terms[n]
    BY <1>3, <2>2
  <2> HIDE DEF Item
  <2>4. Append(SubSeq(terms, 1, n - 1), terms[n]) = SubSeq(terms, 1, n)
    BY <1>2
  <2>5. QED BY <1>9, <2>3, <2>4
<1>10. g = Loop(g)
  <2>1. \A n \in 0..N : g[n] = IF n = 0 THEN <<>> ELSE Append(g[n - 1], Item(g, n))
    <3>1. TAKE n \in 0..N
    <3>2. CASE n = 0
      BY <1>8, <3>2
    <3>3. CASE n # 0
      <4>1. n \in 1..N /\ g[n - 1] = SubSeq(terms, 1, n - 1) /\ g[n] = SubSeq(terms, 1, n)
        BY <1>2, <3>3
      <4> HIDE DEF g, Item
      <4>2. QED BY <1>9, <3>3, <4>1
    <3>4. QED BY <3>2, <3>3
  <2>2. g = [n \in 0..N |-> g[n]]
    OBVIOUS
  <2> HIDE DEF g, Item
  <2>3. [n \in 0..N |-> g[n]] = [n \in 0..N |-> IF n = 0 THEN <<>> ELSE Append(g[n - 1], Item(g, n))]
    BY <2>1
  <2>4. QED BY <1>6, <2>2, <2>3
<1> HIDE DEF g, Item
<1>11. read = [n \in 0..N |-> IF n = 0 THEN <<>> ELSE Append(read[n - 1], Item(read, n))]
  <2>1. read = Loop(read)
    <3> HIDE DEF Loop
    <3>1. QED BY <1>10 DEF read
  <2>2. QED BY <1>6, <2>1
<1>12. read[0] = <<>> /\ \A n \in 1..N : read[n] = Append(read[n - 1], Item(read, n))
  <2>1. 0 \in 0..N /\ \A n \in 1..N : n \in 0..N /\ n # 0
    BY <1>2
  <2>2. QED BY <1>11, <2>1
<1> DEFINE T == {n \in Nat : n <= N => read[n] = SubSeq(terms, 1, n)}
<1>13. 0 \in T
  <2>1. SubSeq(terms, 1, 0) = <<>>
    BY <1>1
  <2>2. QED BY <1>12, <2>1
<1>14. ASSUME NEW n \in Nat, n \in T PROVE n + 1 \in T
  <2>1. SUFFICES ASSUME n + 1 <= N PROVE read[n + 1] = SubSeq(terms, 1, n + 1)
    OBVIOUS
  <2>2. n + 1 \in 1..N /\ n + 1 - 1 = n /\ read[n] = SubSeq(terms, 1, n)
    BY <1>2, <1>14, <2>1
  <2>3. Append(read[n], Item(read, n + 1)) = SubSeq(terms, 1, n + 1)
    BY <1>9, <2>2
  <2>4. read[n + 1] = Append(read[n], Item(read, n + 1))
    <3> DEFINE m == n + 1
    <3>1. m \in 1..N /\ m - 1 = n
      BY <2>2
    <3> HIDE DEF m
    <3>2. read[m] = Append(read[m - 1], Item(read, m))
      BY <1>12, <3>1, Zenon
    <3>3. QED BY <3>1, <3>2 DEF m
  <2>5. QED BY <2>3, <2>4
<1> HIDE DEF T
<1>15. \A n \in Nat : n \in T
  BY <1>13, <1>14, NatInductiveOn
<1>16. read[N] = SubSeq(terms, 1, N)
  BY <1>2, <1>15 DEF T
<1>17. SubSeq(terms, 1, N) = terms
  BY SubSeqFull DEF N
<1>18. QED BY <1>6, <1>5, <1>16, <1>17 DEF entries

-----------------------------------------------------------------------------
(* The invariant: whatever is built, saved and loaded has words for terms   *)
(* and strings for metadata, and what was built is still what build_index   *)
(* makes of its options.                                                    *)

IsIndex(idx) ==
  /\ \A d \in DOMAIN idx.documents : IsMetadata(idx.documents[d].metadata)
  /\ idx.terms \in Seq([term : WordTexts, postings : {t.postings : t \in Range(idx.terms)}])

IndexInv ==
  /\ \A idx \in index : IsIndex(idx)
  /\ \A f \in zidx : IsIndex(ReadBack(f))
  /\ \A options \in built, idx \in index :
       options \in Options /\ idx = [documents |-> Documents(options), terms |-> Terms(Documents(options))]

LEMMA IndexComesBack ==
  ASSUME NEW idx, IsIndex(idx)
  PROVE  ComesBack(idx) /\ IsIndex(ReadBack(WrittenIndex(idx)))
<1> DEFINE f == WrittenIndex(idx)
           back == ReadBack(f)
           P == {t.postings : t \in Range(idx.terms)}
<1>1. back.terms = idx.terms
  <2>1. back.terms = ReadTerms(f.terms)
    BY DEF ReadBack
  <2>2. idx.terms \in Seq([term : WordTexts, postings : P])
    BY DEF IsIndex
  <2> HIDE DEF P
  <2>3. QED BY <2>1, <2>2, TermsComeBack
<1>2. /\ DOMAIN back.documents = DOMAIN idx.documents
      /\ \A d \in DOMAIN idx.documents : back.documents[d].metadata = ReadPairs(Pairs(idx.documents[d].metadata))
  BY DEF ReadBack, WrittenIndex
<1> HIDE DEF f, back, P
<1>3. ASSUME NEW d \in DOMAIN idx.documents
      PROVE  LET was == idx.documents[d].metadata
                 is  == back.documents[d].metadata
             IN  /\ IsMetadata(is) /\ DOMAIN is = Range(was)
                 /\ \A k \in DOMAIN was :
                      \/ is[was[k]] = k
                      \/ was[is[was[k]]] = was[k] /\ OrderOf(k) < OrderOf(is[was[k]])
  <2> DEFINE was == idx.documents[d].metadata
             is  == back.documents[d].metadata
  <2>1. IsMetadata(was)
    BY DEF IsIndex
  <2>2. is = ReadPairs(Pairs(was))
    BY <1>2
  <2> HIDE DEF was, is
  <2>3. /\ IsMetadata(is) /\ DOMAIN is = Range(was)
        /\ \A k \in DOMAIN was :
             \/ is[was[k]] = k
             \/ was[is[was[k]]] = was[k] /\ OrderOf(k) < OrderOf(is[was[k]])
    BY <2>1, <2>2, MetadataComesBack
  <2>4. QED BY <2>3 DEF was, is
<1>4. ComesBack(idx)
  BY <1>1, <1>3, Zenon DEF ComesBack, back, f
<1>5. IsIndex(back)
  <2>1. \A d \in DOMAIN back.documents : IsMetadata(back.documents[d].metadata)
    BY <1>2, <1>3
  <2>2. idx.terms \in Seq([term : WordTexts, postings : {t.postings : t \in Range(idx.terms)}])
    BY DEF IsIndex
  <2>3. QED BY <1>1, <2>1, <2>2 DEF IsIndex
<1>6. QED BY <1>4, <1>5 DEF back, f

LEMMA BuiltIndexTyped ==
  ASSUME NEW options \in Options
  PROVE  IsIndex([documents |-> Documents(options), terms |-> Terms(Documents(options))])
<1> DEFINE documents == Documents(options)
           terms == Terms(documents)
           idx == [documents |-> documents, terms |-> terms]
           P == {t.postings : t \in Range(terms)}
           E == [term : WordTexts, postings : P]
           N == Len(documents)
<1>1. N \in Nat /\ DOMAIN documents = 1..N /\ \A d \in 1..N : IsDocument(documents[d])
  BY BuiltDocuments, Zenon
<1> HIDE DEF documents
<1>2. \A d \in 1..N : documents[d].tokens \in Seq(WordTexts)
  BY <1>1 DEF IsDocument
<1>3. /\ Len(terms) \in Nat /\ DOMAIN terms = 1..Len(terms)
      /\ \A i \in 1..Len(terms) : /\ terms[i].term \in WordTexts
                                  /\ terms[i] = [term |-> terms[i].term, postings |-> Postings(terms[i].term, documents)]
  BY <1>1, <1>2, TermsOf, Zenon
<1>4. terms \in Seq(E)
  <2>1. terms = [i \in DOMAIN terms |-> terms[i]]
    BY DEF Terms
  <2> HIDE DEF terms
  <2>2. ASSUME NEW i \in 1..Len(terms) PROVE terms[i] \in E
    <3>1. terms[i].postings \in P
      BY <1>3 DEF Range
    <3> HIDE DEF P
    <3>2. terms[i].postings = Postings(terms[i].term, documents)
      BY <1>3
    <3>3. terms[i] = [term |-> terms[i].term, postings |-> terms[i].postings]
      BY <1>3, <3>2
    <3>4. QED BY <1>3, <3>1, <3>3
  <2> HIDE DEF E
  <2>3. terms \in [1..Len(terms) -> E]
    BY <1>3, <2>1, <2>2
  <2>4. QED BY <1>3, <2>3
<1> HIDE DEF terms
<1>5. idx.terms = terms /\ idx.documents = documents
  OBVIOUS
<1>6. idx.terms \in Seq([term : WordTexts, postings : {t.postings : t \in Range(idx.terms)}])
  BY <1>4, <1>5
<1> HIDE DEF idx
<1>7. \A d \in DOMAIN idx.documents : IsMetadata(idx.documents[d].metadata)
  BY <1>1, <1>5 DEF IsDocument
<1>8. IsIndex(idx)
  BY <1>6, <1>7 DEF IsIndex
<1>9. QED BY <1>8 DEF idx, terms, documents

LEMMA IndexInvariance == IndexSpec => []IndexInv
<1>1. IndexInit => IndexInv
  BY DEF IndexInit, IndexInv
<1>2. IndexInv /\ [IndexNext]_indexVars => IndexInv'
  <2>1. SUFFICES ASSUME IndexInv, [IndexNext]_indexVars PROVE IndexInv'
    OBVIOUS
  <2>2. CASE UNCHANGED indexVars
    BY <2>1, <2>2 DEF IndexInv, indexVars
  <2>3. ASSUME NEW options \in Options, BuildIndex(options) PROVE IndexInv'
    <3>1. /\ built' = {options} /\ zidx' = zidx
          /\ index' = {[documents |-> Documents(options), terms |-> Terms(Documents(options))]}
      BY <2>3, Zenon DEF BuildIndex
    <3>2. QED BY <2>1, <3>1, BuiltIndexTyped DEF IndexInv
  <2>4. CASE SaveIndex
    <3>1. PICK idx \in index : zidx' = {WrittenIndex(idx)} /\ built' = built /\ index' = index
      BY <2>4 DEF SaveIndex
    <3>2. IsIndex(ReadBack(WrittenIndex(idx)))
      BY <2>1, <3>1, IndexComesBack DEF IndexInv
    <3>3. QED BY <2>1, <3>1, <3>2 DEF IndexInv
  <2>5. CASE LoadIndex
    <3>1. PICK f \in zidx : index' = {ReadBack(f)} /\ built' = {} /\ zidx' = zidx
      BY <2>5 DEF LoadIndex
    <3>2. QED BY <2>1, <3>1 DEF IndexInv
  <2>6. QED BY <2>1, <2>2, <2>3, <2>4, <2>5 DEF IndexNext
<1>3. QED BY <1>1, <1>2, PTL DEF IndexSpec

\* An index that was built has the words of its documents, each with all of its
\* places and in order, and every index comes back from its file, whatever the
\* documents, the filter and the suffixes, and however often it is saved, loaded
\* and built again.
THEOREM WordsAreKept == IndexSpec => []IndexKeepsTheWords
<1>1. ASSUME IndexInv PROVE IndexKeepsTheWords
  <2>1. SUFFICES ASSUME NEW idx \in index PROVE (built # {} => GivesTheWords(idx)) /\ ComesBack(idx)
    BY DEF IndexKeepsTheWords
  <2>2. ComesBack(idx)
    BY <1>1, IndexComesBack DEF IndexInv
  <2>3. ASSUME NEW options \in built PROVE GivesTheWords(idx)
    BY <1>1, <2>3, BuiltIndexGives DEF IndexInv
  <2>4. QED BY <2>2, <2>3
<1>2. QED BY <1>1, IndexInvariance, PTL

-----------------------------------------------------------------------------
(* What a query finds.                                                     *)

\* The elements of a sequence of sequences, one after the other.
LEMMA FlattenRange ==
  ASSUME NEW T, NEW seqs \in Seq(Seq(T))
  PROVE  FlattenSeq(seqs) \in Seq(T) /\ Range(FlattenSeq(seqs)) = UNION {Range(seqs[i]) : i \in 1..Len(seqs)}
<1> DEFINE N == Len(seqs)
<1>1. N \in Nat /\ \A n \in 1..N : seqs[n] \in Seq(T)
  OBVIOUS
<1>2. PICK f \in [0..N -> Seq(T)] : /\ f[0] = <<>> /\ \A n \in 1..N : f[n] = f[n - 1] \o seqs[n]
                                   /\ FlattenSeq(seqs) = f[N]
  BY FlattenBySteps
<1>3. \A s, t \in Seq(T) : Range(s \o t) = Range(s) \cup Range(t)
  BY RangeConcatenation
<1> HIDE DEF N
<1> DEFINE Had(n) == UNION {Range(seqs[i]) : i \in 1..n}
           S == {n \in Nat : n <= N => Range(f[n]) = Had(n)}
<1>4. 0 \in S
  <2>1. Range(<<>>) = {}
    BY DEF Range
  <2>2. QED BY <1>2, <2>1
<1>5. ASSUME NEW n \in Nat, n \in S PROVE n + 1 \in S
  <2>1. SUFFICES ASSUME n + 1 <= N PROVE Range(f[n + 1]) = Had(n + 1)
    OBVIOUS
  <2> DEFINE m == n + 1
  <2>2. /\ m \in 1..N /\ m - 1 = n /\ n \in 0..N /\ Range(f[n]) = Had(n)
        /\ \A i : i \in 1..m <=> i \in 1..n \/ i = m
    BY <1>1, <1>5, <2>1
  <2> HIDE DEF S, Had, m
  <2>3. f[m] = f[n] \o seqs[m] /\ f[n] \in Seq(T) /\ seqs[m] \in Seq(T)
    BY <1>1, <1>2, <2>2
  <2>4. Range(f[m]) = Had(n) \cup Range(seqs[m])
    BY <1>3, <2>2, <2>3
  <2>5. Had(n) \cup Range(seqs[m]) = Had(m)
    BY <2>2 DEF Had
  <2>6. QED BY <2>4, <2>5 DEF m
<1> HIDE DEF S, Had
<1>6. \A n \in Nat : n \in S
  BY <1>4, <1>5, NatInductiveOn
<1>7. Range(f[N]) = Had(N) /\ f[N] \in Seq(T)
  BY <1>1, <1>2, <1>6 DEF S
<1>8. QED BY <1>2, <1>7 DEF Had, N

\* The first i of v and the first j of w are the same, or one edit apart.
Same(v, w, i, j) == i = j /\ Agree(v, w, i)
OneApart(v, w, i, j) ==
  \/ i = j /\ \E p \in Nat : \A q \in 1..i : q # p => v[q] = w[q]
  \/ i = j + 1 /\ \E p \in 1..i : (\A q \in 1..(p - 1) : v[q] = w[q]) /\ \A q \in p..j : v[q + 1] = w[q]
  \/ j = i + 1 /\ \E p \in 1..j : (\A q \in 1..(p - 1) : v[q] = w[q]) /\ \A q \in p..i : v[q] = w[q + 1]

EndsSame(v, w, i, j, k, l) == Same(v, w, k, l) /\ v[i] = w[j]

LEMMA SameStep ==
  ASSUME NEW v, NEW w, NEW i \in Nat, NEW j \in Nat, NEW k, NEW l, i # 0, j # 0, k = i - 1, l = j - 1
  PROVE  Same(v, w, i, j) <=> EndsSame(v, w, i, j, k, l)
BY DEF Same, EndsSame, Agree

\* The last characters are the same, or the edit is at the end.
EndsOneApart(v, w, i, j, k, l) ==
  \/ Same(v, w, k, j) \/ Same(v, w, i, l) \/ Same(v, w, k, l)
  \/ OneApart(v, w, k, l) /\ v[i] = w[j]

LEMMA OneApartStep ==
  ASSUME NEW v, NEW w, NEW i \in Nat, NEW j \in Nat, NEW k, NEW l, i # 0, j # 0, k = i - 1, l = j - 1
  PROVE  OneApart(v, w, i, j) <=> EndsOneApart(v, w, i, j, k, l)
<1> SUFFICES OneApart(v, w, i, j) <=> \/ Same(v, w, i - 1, j) \/ Same(v, w, i, j - 1) \/ Same(v, w, i - 1, j - 1)
                                      \/ OneApart(v, w, i - 1, j - 1) /\ v[i] = w[j]
  BY DEF EndsOneApart
<1>1. CASE i = j
  <2>1. OneApart(v, w, i, j) <=> \E p \in Nat : \A q \in 1..i : q # p => v[q] = w[q]
    BY <1>1 DEF OneApart
  <2>2. OneApart(v, w, i - 1, j - 1) <=> \E p \in Nat : \A q \in 1..(i - 1) : q # p => v[q] = w[q]
    <3>1. i - 1 = j - 1 /\ ~(i - 1 = j - 1 + 1) /\ ~(j - 1 = i - 1 + 1)
      BY <1>1
    <3>2. QED BY <3>1, Zenon DEF OneApart
  <2>3. ~Same(v, w, i - 1, j) /\ ~Same(v, w, i, j - 1) /\ (Same(v, w, i - 1, j - 1) <=> \A q \in 1..(i - 1) : v[q] = w[q])
    BY <1>1 DEF Same, Agree
  <2>4. ASSUME NEW p \in Nat, \A q \in 1..i : q # p => v[q] = w[q]
        PROVE  (\A q \in 1..(i - 1) : v[q] = w[q]) \/ ((\A q \in 1..(i - 1) : q # p => v[q] = w[q]) /\ v[i] = w[i])
    BY <2>4
  <2>5. ASSUME NEW p \in Nat, \A q \in 1..(i - 1) : q # p => v[q] = w[q], v[i] = w[i]
        PROVE  \A q \in 1..i : q # p => v[q] = w[q]
    BY <2>5
  <2>6. (\A q \in 1..(i - 1) : v[q] = w[q]) => \A q \in 1..i : q # i => v[q] = w[q]
    OBVIOUS
  <2>7. QED BY <1>1, <2>1, <2>2, <2>3, <2>4, <2>5, <2>6
<1>2. CASE i = j + 1
  <2> DEFINE Left(p) == \A q \in 1..(p - 1) : v[q] = w[q]
  <2>1. OneApart(v, w, i, j) <=> \E p \in 1..i : Left(p) /\ \A q \in p..j : v[q + 1] = w[q]
    BY <1>2 DEF OneApart
  <2>2. OneApart(v, w, i - 1, j - 1) <=> \E p \in 1..(i - 1) : Left(p) /\ \A q \in p..(j - 1) : v[q + 1] = w[q]
    BY <1>2 DEF OneApart
  <2>3. ~Same(v, w, i - 1, j - 1) /\ ~Same(v, w, i, j - 1) /\ (Same(v, w, i - 1, j) <=> Left(i))
    BY <1>2 DEF Same, Agree
  <2>4. ASSUME NEW p \in 1..i, Left(p), \A q \in p..j : v[q + 1] = w[q]
        PROVE  Left(i) \/ (p \in 1..(i - 1) /\ (\A q \in p..(j - 1) : v[q + 1] = w[q]) /\ v[i] = w[j])
    <3>1. CASE p = i
      BY <2>4, <3>1
    <3>2. CASE p # i
      <4>1. p \in 1..(i - 1) /\ j \in p..j /\ j + 1 = i
        BY <1>2, <3>2
      <4>2. \A q \in p..(j - 1) : q \in p..j
        OBVIOUS
      <4>3. QED BY <2>4, <4>1, <4>2
    <3>3. QED BY <3>1, <3>2
  <2>5. ASSUME NEW p \in 1..(i - 1), Left(p), \A q \in p..(j - 1) : v[q + 1] = w[q], v[i] = w[j]
        PROVE  p \in 1..i /\ \A q \in p..j : v[q + 1] = w[q]
    <3>1. \A q \in p..j : q \in p..(j - 1) \/ (q = j /\ q + 1 = i)
      BY <1>2
    <3>2. QED BY <2>5, <3>1
  <2>6. i \in 1..i /\ \A q \in i..j : v[q + 1] = w[q]
    BY <1>2
  <2> HIDE DEF Left
  <2>7. QED BY <2>1, <2>2, <2>3, <2>4, <2>5, <2>6
<1>3. CASE j = i + 1
  <2> DEFINE Left(p) == \A q \in 1..(p - 1) : v[q] = w[q]
  <2>1. OneApart(v, w, i, j) <=> \E p \in 1..j : Left(p) /\ \A q \in p..i : v[q] = w[q + 1]
    BY <1>3 DEF OneApart
  <2>2. OneApart(v, w, i - 1, j - 1) <=> \E p \in 1..(j - 1) : Left(p) /\ \A q \in p..(i - 1) : v[q] = w[q + 1]
    BY <1>3 DEF OneApart
  <2>3. ~Same(v, w, i - 1, j - 1) /\ ~Same(v, w, i - 1, j) /\ (Same(v, w, i, j - 1) <=> Left(j))
    BY <1>3 DEF Same, Agree
  <2>4. ASSUME NEW p \in 1..j, Left(p), \A q \in p..i : v[q] = w[q + 1]
        PROVE  Left(j) \/ (p \in 1..(j - 1) /\ (\A q \in p..(i - 1) : v[q] = w[q + 1]) /\ v[i] = w[j])
    <3>1. CASE p = j
      BY <2>4, <3>1
    <3>2. CASE p # j
      <4>1. p \in 1..(j - 1) /\ i \in p..i /\ i + 1 = j
        BY <1>3, <3>2
      <4>2. \A q \in p..(i - 1) : q \in p..i
        OBVIOUS
      <4>3. QED BY <2>4, <4>1, <4>2
    <3>3. QED BY <3>1, <3>2
  <2>5. ASSUME NEW p \in 1..(j - 1), Left(p), \A q \in p..(i - 1) : v[q] = w[q + 1], v[i] = w[j]
        PROVE  p \in 1..j /\ \A q \in p..i : v[q] = w[q + 1]
    <3>1. \A q \in p..i : q \in p..(i - 1) \/ (q = i /\ q + 1 = j)
      BY <1>3
    <3>2. QED BY <2>5, <3>1
  <2>6. j \in 1..j /\ \A q \in j..i : v[q] = w[q + 1]
    BY <1>3
  <2> HIDE DEF Left
  <2>7. QED BY <2>1, <2>2, <2>3, <2>4, <2>5, <2>6
<1>4. CASE i # j /\ i # j + 1 /\ j # i + 1
  BY <1>4 DEF OneApart, Same
<1>5. QED BY <1>1, <1>2, <1>3, <1>4

LEMMA LeastOfThree ==
  ASSUME NEW a \in Nat, NEW b \in Nat, NEW c \in Nat
  PROVE  LET least == Min({a, b, c})
         IN  least \in {a, b, c} /\ least <= a /\ least <= b /\ least <= c
<1> DEFINE S == {a, b, c}
<1>1. \E x \in S : \A y \in S : x <= y
  BY LeastOf
<1> HIDE DEF S
<1>2. Min(S) \in S /\ \A y \in S : Min(S) <= y
  BY <1>1 DEF Min
<1>3. QED BY <1>2 DEF S

\* What the rows of edit_distance hold: nothing is counted exactly for what is
\* the same, and at most one for what is one edit apart.
LEMMA EditCounts ==
  ASSUME NEW v, NEW w, Len(v) \in Nat, Len(w) \in Nat
  PROVE  /\ EditDistance(v, w) \in Nat
         /\ EditDistance(v, w) <= 1 <=> OneApart(v, w, Len(v), Len(w))
<1> DEFINE m == Len(v)
           n == Len(w)
           Cost(i, j) == IF v[i] = w[j] THEN 0 ELSE 1
           Cell(f, p) ==
             LET i == p[1]
                 j == p[2]
             IN  CASE i = 0 -> j
                   [] j = 0 -> i
                   [] OTHER -> Min({f[<<i - 1, j>>] + 1, f[<<i, j - 1>>] + 1,
                                    f[<<i - 1, j - 1>>] + (IF v[i] = w[j] THEN 0 ELSE 1)})
           At(f, i, j) ==
             IF i = 0 THEN j ELSE IF j = 0 THEN i
             ELSE Min({f[<<i - 1, j>>] + 1, f[<<i, j - 1>>] + 1, f[<<i - 1, j - 1>>] + Cost(i, j)})
           Pairs2 == (0..m) \X (0..n)
           Loop(f) == [p \in Pairs2 |-> Cell(f, p)]
           d == CHOOSE f : f = Loop(f)
<1>1. EditDistance(v, w) = d[<<m, n>>]
  BY DEF EditDistance
<1>2. \A f : \A i \in 0..m, j \in 0..n : Cell(f, <<i, j>>) = At(f, i, j)
  OBVIOUS
<1> HIDE DEF m, n, d, Cell, At
<1>3. m \in Nat /\ n \in Nat
  BY DEF m, n
<1>4. \A p \in Pairs2 : p[1] \in 0..m /\ p[2] \in 0..n /\ p = <<p[1], p[2]>>
  OBVIOUS
<1>5. \A i \in 0..m, j \in 0..n : <<i, j>> \in Pairs2 /\ <<i, j>>[1] = i /\ <<i, j>>[2] = j
  OBVIOUS
<1> HIDE DEF Pairs2
<1> DEFINE Obeys(f, k) == \A i \in 0..m, j \in 0..n : i + j <= k => f[<<i, j>>] = At(f, i, j)
           Known == {k \in Nat : \E f : f = [p \in Pairs2 |-> f[p]] /\ Obeys(f, k)}
<1>6. 0 \in Known
  <2> DEFINE f == [p \in Pairs2 |-> 0]
  <2>1. f = [p \in Pairs2 |-> f[p]]
    OBVIOUS
  <2>2. ASSUME NEW i \in 0..m, NEW j \in 0..n, i + j <= 0 PROVE f[<<i, j>>] = At(f, i, j)
    <3>1. i = 0 /\ j = 0
      BY <1>3, <2>2
    <3>2. f[<<i, j>>] = 0
      BY <1>5
    <3>3. QED BY <3>1, <3>2 DEF At
  <2> HIDE DEF f
  <2>3. QED BY <2>1, <2>2
<1>7. ASSUME NEW k \in Nat, k \in Known PROVE k + 1 \in Known
  <2>1. PICK f : f = [p \in Pairs2 |-> f[p]] /\ Obeys(f, k)
    BY <1>7
  <2> DEFINE g == [p \in Pairs2 |-> IF p[1] + p[2] <= k THEN f[p] ELSE At(f, p[1], p[2])]
  <2>2. \A i \in 0..m, j \in 0..n : g[<<i, j>>] = IF i + j <= k THEN f[<<i, j>>] ELSE At(f, i, j)
    BY <1>5
  <2>3. g = [p \in Pairs2 |-> g[p]]
    OBVIOUS
  <2> HIDE DEF g
  <2>4. ASSUME NEW i \in 0..m, NEW j \in 0..n, i + j <= k + 1 PROVE At(g, i, j) = At(f, i, j)
    <3>1. CASE i = 0 \/ j = 0
      BY <3>1 DEF At
    <3>2. CASE i # 0 /\ j # 0
      <4>1. /\ i - 1 \in 0..m /\ j - 1 \in 0..n
            /\ i - 1 + j <= k /\ i + (j - 1) <= k /\ i - 1 + (j - 1) <= k
        BY <1>3, <2>4, <3>2
      <4>2. /\ g[<<i - 1, j>>] = f[<<i - 1, j>>] /\ g[<<i, j - 1>>] = f[<<i, j - 1>>]
            /\ g[<<i - 1, j - 1>>] = f[<<i - 1, j - 1>>]
        BY <2>2, <4>1
      <4>3. QED BY <4>2 DEF At
    <3>3. QED BY <3>1, <3>2
  <2>5. ASSUME NEW i \in 0..m, NEW j \in 0..n, i + j <= k + 1 PROVE g[<<i, j>>] = At(g, i, j)
    <3>1. At(g, i, j) = At(f, i, j)
      BY <2>4, <2>5
    <3>2. CASE i + j <= k
      BY <2>1, <2>2, <3>1, <3>2
    <3>3. CASE ~(i + j <= k)
      BY <2>2, <3>1, <3>3
    <3>4. QED BY <3>2, <3>3
  <2>6. Obeys(g, k + 1)
    BY <2>5
  <2> HIDE DEF Obeys
  <2>7. QED BY <2>3, <2>6
<1> HIDE DEF Known
<1>8. m + n \in Known
  <2>1. \A k \in Nat : k \in Known
    BY <1>6, <1>7, NatInductiveOn
  <2>2. QED BY <1>3, <2>1
<1>9. PICK f : f = [p \in Pairs2 |-> f[p]] /\ Obeys(f, m + n)
  BY <1>8 DEF Known
<1>10. f = Loop(f)
  <2>1. ASSUME NEW p \in Pairs2 PROVE f[p] = Cell(f, p)
    <3>1. p[1] \in 0..m /\ p[2] \in 0..n /\ p = <<p[1], p[2]>> /\ p[1] + p[2] <= m + n
      BY <1>3, <1>4
    <3>2. f[<<p[1], p[2]>>] = At(f, p[1], p[2])
      BY <1>9, <3>1
    <3>3. Cell(f, <<p[1], p[2]>>) = At(f, p[1], p[2])
      BY <1>2, <3>1
    <3>4. QED BY <3>1, <3>2, <3>3
  <2>2. [p \in Pairs2 |-> f[p]] = [p \in Pairs2 |-> Cell(f, p)]
    BY <2>1
  <2>3. QED BY <1>9, <2>2
<1>11. d = Loop(d)
  <2> HIDE DEF Loop
  <2>1. QED BY <1>10 DEF d
<1>12. ASSUME NEW i \in 0..m, NEW j \in 0..n PROVE d[<<i, j>>] = At(d, i, j)
  <2>1. d[<<i, j>>] = Cell(d, <<i, j>>)
    BY <1>5, <1>11
  <2>2. QED BY <1>2, <2>1
<1> HIDE DEF Loop, Obeys
<1> DEFINE D(i, j) == d[<<i, j>>]
           Right(i, j) == /\ D(i, j) \in Nat
                          /\ D(i, j) = 0 <=> Same(v, w, i, j)
                          /\ D(i, j) <= 1 <=> OneApart(v, w, i, j)
           Done == {k \in Nat : \A i \in 0..m, j \in 0..n : i + j <= k => Right(i, j)}
<1>13. ASSUME NEW i \in 0..m, NEW j \in 0..n, i = 0 \/ j = 0 PROVE Right(i, j)
  <2>1. D(i, j) = IF i = 0 THEN j ELSE i
    BY <1>12, <1>13 DEF At
  <2>2. i \in Nat /\ j \in Nat
    BY <1>3
  <2> HIDE DEF D
  <2>3. Same(v, w, i, j) <=> i = 0 /\ j = 0
    BY <1>13, <2>2 DEF Same, Agree
  <2>4. OneApart(v, w, i, j) <=> i + j <= 1
    <3>1. CASE i = 0 /\ j = 0
      BY <3>1 DEF OneApart
    <3>2. CASE i = 1 /\ j = 0
      BY <3>2 DEF OneApart
    <3>3. CASE i = 0 /\ j = 1
      BY <3>3 DEF OneApart
    <3>4. CASE i + j > 1
      BY <1>13, <2>2, <3>4 DEF OneApart
    <3>5. QED BY <1>13, <2>2, <3>1, <3>2, <3>3, <3>4
  <2>5. QED BY <1>13, <2>1, <2>2, <2>3, <2>4
<1>14. ASSUME NEW i \in 1..m, NEW j \in 1..n, Right(i - 1, j), Right(i, j - 1), Right(i - 1, j - 1)
       PROVE  Right(i, j)
  <2>1. i \in Nat /\ j \in Nat /\ i # 0 /\ j # 0 /\ i \in 0..m /\ j \in 0..n
    BY <1>3
  <2> DEFINE a == D(i - 1, j)
             b == D(i, j - 1)
             c == D(i - 1, j - 1)
             x == D(i, j)
             k == i - 1
             l == j - 1
  <2>2. k = i - 1 /\ l = j - 1
    OBVIOUS
  <2>3. a \in Nat /\ b \in Nat /\ c \in Nat /\ Cost(i, j) \in {0, 1} /\ (Cost(i, j) = 0 <=> v[i] = w[j])
    BY <1>14
  <2>4. x = Min({a + 1, b + 1, c + Cost(i, j)})
    BY <1>12, <2>1 DEF At
  <2>5. /\ a = 0 <=> Same(v, w, i - 1, j)
        /\ b = 0 <=> Same(v, w, i, j - 1)
        /\ c = 0 <=> Same(v, w, i - 1, j - 1)
        /\ c <= 1 <=> OneApart(v, w, i - 1, j - 1)
    BY <1>14
  <2>6. Same(v, w, i, j) <=> Same(v, w, i - 1, j - 1) /\ v[i] = w[j]
    <3> HIDE DEF k, l
    <3>1. Same(v, w, i, j) <=> EndsSame(v, w, i, j, k, l)
      BY <2>1, <2>2, SameStep
    <3>2. QED BY <2>2, <3>1 DEF EndsSame
  <2>7. OneApart(v, w, i, j) <=> \/ Same(v, w, i - 1, j) \/ Same(v, w, i, j - 1) \/ Same(v, w, i - 1, j - 1)
                                 \/ OneApart(v, w, i - 1, j - 1) /\ v[i] = w[j]
    <3> HIDE DEF k, l
    <3>1. OneApart(v, w, i, j) <=> EndsOneApart(v, w, i, j, k, l)
      BY <2>1, <2>2, OneApartStep
    <3>2. QED BY <2>2, <3>1 DEF EndsOneApart
  <2> HIDE DEF D, a, b, c, x, Cost
  <2>8. a + 1 \in Nat /\ b + 1 \in Nat /\ c + Cost(i, j) \in Nat
    BY <2>3
  <2>9. /\ x \in {a + 1, b + 1, c + Cost(i, j)}
        /\ x <= a + 1 /\ x <= b + 1 /\ x <= c + Cost(i, j)
    BY <2>4, <2>8, LeastOfThree
  <2>10. x \in Nat /\ (x = 0 <=> c = 0 /\ Cost(i, j) = 0)
        /\ (x <= 1 <=> a = 0 \/ b = 0 \/ c = 0 \/ (c <= 1 /\ Cost(i, j) = 0))
    BY <2>3, <2>8, <2>9
  <2>11. QED BY <2>3, <2>5, <2>6, <2>7, <2>10 DEF x
<1> HIDE DEF Right
<1>15. 0 \in Done
  <2>1. ASSUME NEW i \in 0..m, NEW j \in 0..n, i + j <= 0 PROVE Right(i, j)
    BY <1>3, <1>13, <2>1
  <2>2. QED BY <2>1
<1>16. ASSUME NEW k \in Nat, k \in Done PROVE k + 1 \in Done
  <2>1. ASSUME NEW i \in 0..m, NEW j \in 0..n, i + j <= k + 1 PROVE Right(i, j)
    <3>1. CASE i = 0 \/ j = 0
      BY <1>13, <3>1
    <3>2. CASE i # 0 /\ j # 0
      <4>1. /\ i \in 1..m /\ j \in 1..n /\ i - 1 \in 0..m /\ j - 1 \in 0..n
            /\ i - 1 + j <= k /\ i + (j - 1) <= k /\ i - 1 + (j - 1) <= k
        BY <1>3, <2>1, <3>2
      <4>2. Right(i - 1, j) /\ Right(i, j - 1) /\ Right(i - 1, j - 1)
        BY <1>16, <4>1
      <4>3. QED BY <1>14, <4>1, <4>2
    <3>3. QED BY <3>1, <3>2
  <2>2. QED BY <2>1
<1> HIDE DEF Done
<1>17. \A k \in Nat : k \in Done
  BY <1>15, <1>16, NatInductiveOn
<1>18. Right(m, n)
  <2>1. m + n \in Nat /\ m \in 0..m /\ n \in 0..n /\ m + n <= m + n
    BY <1>3
  <2>2. QED BY <1>17, <2>1 DEF Done
<1>19. QED BY <1>1, <1>18 DEF Right, m, n

LEMMA RemovedOne ==
  ASSUME NEW T, NEW v \in Seq(T), NEW u \in Seq(T), NEW p \in 1..Len(v)
  PROVE  RemoveAt(v, p) = u <=> /\ Len(v) = Len(u) + 1
                                /\ \A q \in 1..(p - 1) : v[q] = u[q]
                                /\ \A q \in p..Len(u) : v[q + 1] = u[q]
<1> DEFINE a == SubSeq(v, 1, p - 1)
           b == SubSeq(v, p + 1, Len(v))
           r == a \o b
<1>1. Len(v) \in Nat /\ Len(u) \in Nat /\ p \in Int
  OBVIOUS
<1>2. a \in Seq(T) /\ Len(a) = p - 1 /\ \A q \in 1..(p - 1) : a[q] = v[q]
  BY <1>1
<1>3. b \in Seq(T) /\ Len(b) = Len(v) - p /\ \A q \in 1..(Len(v) - p) : b[q] = v[p + q]
  BY <1>1
<1> HIDE DEF a, b
<1>4. /\ r \in Seq(T) /\ Len(r) = Len(v) - 1
      /\ \A q \in 1..(p - 1) : r[q] = v[q]
      /\ \A q \in p..(Len(v) - 1) : r[q] = v[q + 1]
  <2>1. /\ r \in Seq(T) /\ Len(r) = Len(a) + Len(b)
        /\ \A q \in 1..(Len(a) + Len(b)) : r[q] = IF q <= Len(a) THEN a[q] ELSE b[q - Len(a)]
    BY <1>2, <1>3, ConcatProperties
  <2> HIDE DEF r
  <2>2. Len(a) + Len(b) = Len(v) - 1
    BY <1>1, <1>2, <1>3
  <2>3. ASSUME NEW q \in 1..(p - 1) PROVE r[q] = v[q]
    <3>1. q \in 1..(Len(a) + Len(b)) /\ q <= Len(a) /\ a[q] = v[q]
      BY <1>1, <1>2, <1>3, <2>2
    <3>2. QED BY <2>1, <3>1
  <2>4. ASSUME NEW q \in p..(Len(v) - 1) PROVE r[q] = v[q + 1]
    <3>1. q \in 1..(Len(a) + Len(b)) /\ ~(q <= Len(a)) /\ q - Len(a) \in 1..(Len(v) - p) /\ p + (q - Len(a)) = q + 1
      BY <1>1, <1>2, <2>2
    <3>2. r[q] = b[q - Len(a)]
      BY <2>1, <3>1
    <3>3. b[q - Len(a)] = v[p + (q - Len(a))]
      BY <1>3, <3>1
    <3>4. QED BY <3>1, <3>2, <3>3
  <2>5. QED BY <2>1, <2>2, <2>3, <2>4
<1>5. RemoveAt(v, p) = r
  BY DEF RemoveAt, a, b
<1> HIDE DEF r
<1>6. ASSUME r = u
      PROVE  Len(v) = Len(u) + 1 /\ (\A q \in 1..(p - 1) : v[q] = u[q]) /\ \A q \in p..Len(u) : v[q + 1] = u[q]
  BY <1>1, <1>4, <1>6
<1>7. ASSUME Len(v) = Len(u) + 1, \A q \in 1..(p - 1) : v[q] = u[q], \A q \in p..Len(u) : v[q + 1] = u[q]
      PROVE  r = u
  <2>1. Len(r) = Len(u)
    BY <1>1, <1>4, <1>7
  <2>2. \A q \in 1..Len(r) : r[q] = u[q]
    <3>1. TAKE q \in 1..Len(r)
    <3>2. CASE q \in 1..(p - 1)
      BY <1>4, <1>7, <3>2
    <3>3. CASE q \in p..(Len(v) - 1)
      <4>1. q \in p..Len(u)
        BY <1>1, <1>7, <3>3
      <4>2. QED BY <1>4, <1>7, <3>3, <4>1
    <3>4. QED BY <1>1, <1>4, <3>2, <3>3
  <2>3. QED BY <1>4, <2>1, <2>2, SeqEqual
<1>8. QED BY <1>5, <1>6, <1>7

\* OneApart says of the two whole words what OneEdit says.
LEMMA OneEditApart ==
  ASSUME NEW T, NEW v \in Seq(T), NEW w \in Seq(T)
  PROVE  OneEdit(v, w) <=> OneApart(v, w, Len(v), Len(w))
<1>1. Len(v) \in Nat /\ Len(w) \in Nat /\ DOMAIN v = 1..Len(v) /\ DOMAIN w = 1..Len(w)
  OBVIOUS
<1> DEFINE Left(p) == \A q \in 1..(p - 1) : v[q] = w[q]
           V(p) == Left(p) /\ \A q \in p..Len(w) : v[q + 1] = w[q]
           W(p) == Left(p) /\ \A q \in p..Len(v) : v[q] = w[q + 1]
           Changed == \E p \in Nat : \A q \in 1..Len(v) : q # p => v[q] = w[q]
<1>2. OneApart(v, w, Len(v), Len(w)) <=> \/ Len(v) = Len(w) /\ Changed
                                         \/ Len(v) = Len(w) + 1 /\ \E p \in 1..Len(v) : V(p)
                                         \/ Len(w) = Len(v) + 1 /\ \E p \in 1..Len(w) : W(p)
  BY Zenon DEF OneApart
<1>3. \A p \in 1..Len(v) : RemoveAt(v, p) = w <=> Len(v) = Len(w) + 1 /\ V(p)
  <2>1. TAKE p \in 1..Len(v)
  <2>2. RemoveAt(v, p) = w <=> /\ Len(v) = Len(w) + 1
                               /\ \A q \in 1..(p - 1) : v[q] = w[q]
                               /\ \A q \in p..Len(w) : v[q + 1] = w[q]
    BY RemovedOne
  <2>3. QED BY <2>2
<1>4. \A p \in 1..Len(w) : RemoveAt(w, p) = v <=> Len(w) = Len(v) + 1 /\ W(p)
  <2>1. TAKE p \in 1..Len(w)
  <2>2. RemoveAt(w, p) = v <=> /\ Len(w) = Len(v) + 1
                               /\ \A q \in 1..(p - 1) : w[q] = v[q]
                               /\ \A q \in p..Len(v) : w[q + 1] = v[q]
    BY RemovedOne
  <2>3. (\A q \in 1..(p - 1) : w[q] = v[q]) <=> Left(p)
    OBVIOUS
  <2>4. (\A q \in p..Len(v) : w[q + 1] = v[q]) <=> \A q \in p..Len(v) : v[q] = w[q + 1]
    OBVIOUS
  <2>5. QED BY <2>2, <2>3, <2>4
<1>5. Len(v) = Len(w) /\ Changed <=> v = w \/ (Len(v) = Len(w) /\ \E i \in DOMAIN v : \A j \in DOMAIN v : j # i => v[j] = w[j])
  <2>1. ASSUME v = w PROVE Len(v) = Len(w) /\ Changed
    BY <2>1
  <2>2. ASSUME NEW i \in DOMAIN v, \A j \in DOMAIN v : j # i => v[j] = w[j] PROVE Changed
    <3>1. i \in Nat /\ \A q \in 1..Len(v) : q # i => v[q] = w[q]
      BY <1>1, <2>2
    <3>2. QED BY <3>1
  <2>3. ASSUME Len(v) = Len(w), NEW p \in Nat, \A q \in 1..Len(v) : q # p => v[q] = w[q]
        PROVE  v = w \/ \E i \in DOMAIN v : \A j \in DOMAIN v : j # i => v[j] = w[j]
    <3>1. CASE p \in 1..Len(v)
      BY <1>1, <2>3, <3>1
    <3>2. CASE p \notin 1..Len(v)
      <4>1. \A q \in 1..Len(v) : v[q] = w[q]
        BY <2>3, <3>2
      <4>2. QED BY <2>3, <4>1, SeqEqual
    <3>3. QED BY <3>1, <3>2
  <2>4. QED BY <2>1, <2>2, <2>3
<1> HIDE DEF V, W, Changed
<1>6. OneEdit(v, w) <=> \/ Len(v) = Len(w) /\ Changed
                        \/ Len(v) = Len(w) + 1 /\ \E p \in 1..Len(v) : V(p)
                        \/ Len(w) = Len(v) + 1 /\ \E p \in 1..Len(w) : W(p)
  <2>1. (\E i \in DOMAIN v : RemoveAt(v, i) = w) <=> Len(v) = Len(w) + 1 /\ \E p \in 1..Len(v) : V(p)
    BY <1>1, <1>3
  <2>2. (\E i \in DOMAIN w : RemoveAt(w, i) = v) <=> Len(w) = Len(v) + 1 /\ \E p \in 1..Len(w) : W(p)
    BY <1>1, <1>4
  <2>3. QED BY <1>5, <2>1, <2>2, Zenon DEF OneEdit
<1>7. QED BY <1>2, <1>6

LEMMA NearWords ==
  ASSUME NEW v \in WordTexts, NEW w \in WordTexts
  PROVE  Len(w) - Len(v) \in -1..1 /\ EditDistance(v, w) <= 1 <=> OneEdit(v, w)
<1>1. v \in Seq(Chars) /\ w \in Seq(Chars)
  BY DEF WordTexts
<1>2. Len(v) \in Nat /\ Len(w) \in Nat
  BY <1>1
<1>3. EditDistance(v, w) <= 1 <=> OneApart(v, w, Len(v), Len(w))
  BY <1>2, EditCounts
<1>4. OneApart(v, w, Len(v), Len(w)) => Len(w) - Len(v) \in -1..1
  <2>1. OneApart(v, w, Len(v), Len(w)) => Len(v) = Len(w) \/ Len(v) = Len(w) + 1 \/ Len(w) = Len(v) + 1
    BY Zenon DEF OneApart
  <2>2. QED BY <1>2, <2>1
<1>5. OneEdit(v, w) <=> OneApart(v, w, Len(v), Len(w))
  BY <1>1, OneEditApart
<1>6. QED BY <1>3, <1>4, <1>5

\* A word is its own only token.
LEMMA TokenAlone ==
  ASSUME NEW text, IsToken(text)
  PROVE  Tokenize(text) = <<text>>
<1> DEFINE Token(i) == i \in DOMAIN text /\ text[i] \in DOMAIN LowerOf
           Run(i)   == {j \in i..Len(text) : \A k \in i..j : Token(k)}
           End(i)   == Max(Run(i))
           first    == {i \in DOMAIN text : Token(i) /\ ~Token(i - 1)}
           starts   == InOrder(first)
           Word(i)  == [k \in 1..(End(i) - i + 1) |-> LowerOf[text[i + k - 1]]]
           N == Len(text)
<1>1. Tokenize(text) = [n \in DOMAIN starts |-> Word(starts[n])]
  BY Zenon DEF Tokenize
<1>2. text \in Seq(Chars)
  BY DEF IsToken, WordTexts
<1>3. N \in Nat /\ DOMAIN text = 1..N /\ text = [k \in 1..N |-> text[k]]
  BY <1>2
<1>4. 1 <= N /\ \A i \in 1..N : text[i] \in DOMAIN LowerOf /\ LowerOf[text[i]] = text[i]
  BY DEF IsToken
<1> HIDE DEF N
<1>5. \A i \in Int : Token(i) <=> i \in 1..N
  BY <1>3, <1>4
<1> HIDE DEF Token
<1>6. first = 1..1
  <2>1. \A i \in 1..N : i \in Int /\ i - 1 \in Int /\ (i - 1 \in 1..N <=> i # 1)
    BY <1>3
  <2>2. \A i \in 1..N : i \in first <=> i = 1
    BY <1>3, <1>5, <2>1
  <2>3. 1 \in 1..N /\ \A i : i \in 1..1 <=> i = 1
    BY <1>3, <1>4
  <2>4. QED BY <1>3, <2>2, <2>3
<1> HIDE DEF first
<1>7. starts = [n \in 1..1 |-> 1]
  <2>1. \A j, k \in Int : j <= k + 1 => InOrder(j..k) = [n \in 1..(k - j + 1) |-> j + n - 1]
    BY RunInOrder
  <2>2. 1 \in Int /\ 1 <= 1 + 1 /\ 1 - 1 + 1 = 1 /\ \A n \in 1..1 : 1 + n - 1 = 1
    OBVIOUS
  <2>3. InOrder(1..1) = [n \in 1..(1 - 1 + 1) |-> 1 + n - 1]
    <3> DEFINE one == 1
    <3>1. one \in Int /\ one <= one + 1
      BY <2>2
    <3> HIDE DEF one
    <3>2. InOrder(one..one) = [n \in 1..(one - one + 1) |-> one + n - 1]
      BY <2>1, <3>1
    <3>3. QED BY <3>2, Zenon DEF one
  <2>4. QED BY <1>6, <2>2, <2>3
<1>8. End(1) = N
  <2>1. Run(1) = 1..N
    <3>1. \A j \in 1..N : \A k \in 1..j : Token(k)
      BY <1>3, <1>5
    <3>2. QED BY <3>1 DEF N
  <2>2. N \in Run(1) /\ \A j \in Run(1) : N >= j
    BY <1>3, <1>4, <2>1
  <2>3. Run(1) \in SUBSET Int
    BY <1>3, <2>1
  <2> HIDE DEF Run
  <2>4. Max(Run(1)) \in Run(1) /\ \A j \in Run(1) : Max(Run(1)) >= j
    BY <2>2 DEF Max
  <2>5. QED BY <2>2, <2>3, <2>4
<1> HIDE DEF End
<1>9. Word(1) = text
  <2>1. End(1) - 1 + 1 = N /\ \A k \in 1..N : 1 + k - 1 = k
    BY <1>3, <1>8
  <2>2. Word(1) = [k \in 1..N |-> LowerOf[text[1 + k - 1]]]
    BY <2>1
  <2>3. \A k \in 1..N : LowerOf[text[1 + k - 1]] = text[k]
    BY <1>4, <2>1
  <2> HIDE DEF Word
  <2>4. Word(1) = [k \in 1..N |-> text[k]]
    BY <2>2, <2>3
  <2>5. QED BY <1>3, <2>4
<1> HIDE DEF Word, starts
<1>10. Tokenize(text) = [n \in 1..1 |-> text]
  BY <1>1, <1>7, <1>9
<1>11. QED BY <1>10

\* The documents of a term's postings are those that have it.
LEMMA PostingDocs ==
  ASSUME NEW documents, NEW N \in Nat, DOMAIN documents = 1..N,
         \A d \in 1..N : documents[d].tokens \in Seq(WordTexts), NEW word,
         NEW entry, entry.postings = Postings(word, documents)
  PROVE  DocsOf(entry) \in Seq(1..N) /\ Range(DocsOf(entry)) = {d \in 1..N : word \in Range(documents[d].tokens)}
<1> DEFINE S    == {d \in 1..N : Contains(documents[d].tokens, word)}
           docs == InOrder(S)
<1>1. S = {d \in 1..N : word \in Range(documents[d].tokens)}
  BY ContainsRange
<1>2. Postings(word, documents)
        = [i \in DOMAIN docs |-> [doc |-> docs[i], positions |-> PositionsOf(word, documents[docs[i]].tokens)]]
  BY Zenon DEF Postings
<1> HIDE DEF S
<1>3. docs \in Seq(1..N) /\ Range(docs) = S
  BY PlacesInOrder DEF S
<1> HIDE DEF docs
<1>4. DOMAIN docs = 1..Len(docs) /\ Len(docs) \in Nat
  BY <1>3
<1>5. DocsOf(entry) = [i \in DOMAIN docs |-> docs[i]]
  BY <1>2 DEF DocsOf
<1>6. docs = [i \in DOMAIN docs |-> docs[i]]
  BY <1>3
<1>7. DocsOf(entry) = docs
  BY <1>5, <1>6
<1>8. QED BY <1>1, <1>3, <1>7

\* The documents that have a word, and those that have one near it.
Having(documents, word) == {d \in DOMAIN documents : word \in Range(documents[d].tokens)}
NearTo(documents, word) == {d \in DOMAIN documents : \E w \in Range(documents[d].tokens) : OneEdit(word, w)}

\* What TermsOf says of a list of terms.
TermList(terms, documents) ==
  /\ Len(terms) \in Nat /\ DOMAIN terms = 1..Len(terms)
  /\ \A i \in 1..Len(terms) : /\ terms[i].term \in WordTexts
                              /\ terms[i] = [term |-> terms[i].term, postings |-> Postings(terms[i].term, documents)]
  /\ \A i, j \in 1..Len(terms) : i < j <=> Before(terms[i].term, terms[j].term)
  /\ {terms[i].term : i \in 1..Len(terms)} = UNION {Range(documents[d].tokens) : d \in DOMAIN documents}

LEMMA TermFacts ==
  ASSUME NEW documents, NEW N \in Nat, DOMAIN documents = 1..N,
         \A d \in 1..N : documents[d].tokens \in Seq(WordTexts)
  PROVE  TermList(Terms(documents), documents)
<1>1. N \in Nat /\ DOMAIN documents = 1..N /\ \A d \in 1..N : documents[d].tokens \in Seq(WordTexts)
  OBVIOUS
<1>2. QED BY <1>1, TermsOf, Zenon DEF TermList

\* A word leads to the documents that have it or else to those that have one near it.
LEMMA HitsAre ==
  ASSUME NEW documents, NEW N \in Nat, DOMAIN documents = 1..N,
         \A d \in 1..N : documents[d].tokens \in Seq(WordTexts), NEW word \in WordTexts,
         NEW idx, idx.documents = documents, idx.terms = Terms(documents)
  PROVE  /\ Hits(idx, word, 1) \in Seq(1..N)
         /\ Range(Hits(idx, word, 1)) = IF Having(documents, word) # {} THEN Having(documents, word)
                                        ELSE NearTo(documents, word)
<1> DEFINE terms  == Terms(documents)
           exact  == {t \in Range(terms) : t.term = word}
           near   == {t \in Range(terms) : Len(t.term) - Len(word) \in -1..1 /\ EditDistance(word, t.term) <= 1}
           chosen == IF exact # {} THEN exact ELSE near
           hits   == Kept(terms, chosen)
           lists  == [i \in DOMAIN hits |-> DocsOf(hits[i])]
<1>1. Hits(idx, word, 1) = FlattenSeq(lists)
  BY Zenon DEF Hits
<1> HIDE DEF exact, near
<1>2. chosen \subseteq Range(terms)
  BY DEF exact, near
<1> DEFINE words == UNION {Range(documents[d].tokens) : d \in DOMAIN documents}
<1> HIDE DEF chosen, hits, lists
<1>3. /\ Len(terms) \in Nat /\ DOMAIN terms = 1..Len(terms)
      /\ \A i \in 1..Len(terms) : /\ terms[i].term \in WordTexts
                                  /\ terms[i] = [term |-> terms[i].term, postings |-> Postings(terms[i].term, documents)]
      /\ \A i, j \in 1..Len(terms) : i < j <=> Before(terms[i].term, terms[j].term)
      /\ {terms[i].term : i \in 1..Len(terms)} = words
  <2>1. TermList(terms, documents)
    BY TermFacts
  <2> HIDE DEF terms, words
  <2>2. QED BY <2>1, Zenon DEF TermList, words
<1>4. terms \in Seq(Range(terms))
  <2>1. terms = [i \in DOMAIN terms |-> terms[i]]
    BY DEF Terms
  <2> HIDE DEF terms
  <2>2. \A i \in 1..Len(terms) : terms[i] \in Range(terms)
    BY <1>3 DEF Range
  <2>3. QED BY <1>3, <2>1, <2>2
<1> HIDE DEF terms
<1>5. \A i \in 1..Len(terms) : terms[i].term \in WordTexts /\ terms[i].postings = Postings(terms[i].term, documents)
  <2> SUFFICES ASSUME NEW i \in 1..Len(terms)
               PROVE  terms[i].term \in WordTexts /\ terms[i].postings = Postings(terms[i].term, documents)
    OBVIOUS
  <2> DEFINE ours == Postings(terms[i].term, documents)
  <2>1. terms[i].term \in WordTexts /\ terms[i] = [term |-> terms[i].term, postings |-> ours]
    BY <1>3
  <2> HIDE DEF ours
  <2>2. terms[i].postings = ours
    BY <2>1
  <2>3. QED BY <2>1, <2>2 DEF ours
<1>6. \A t \in Range(terms) : /\ t.term \in WordTexts
                              /\ DocsOf(t) \in Seq(1..N)
                              /\ Range(DocsOf(t)) = Having(documents, t.term)
  <2> SUFFICES ASSUME NEW t \in Range(terms)
               PROVE  /\ t.term \in WordTexts /\ DocsOf(t) \in Seq(1..N)
                      /\ Range(DocsOf(t)) = Having(documents, t.term)
    OBVIOUS
  <2>1. t.term \in WordTexts /\ t.postings = Postings(t.term, documents)
    BY <1>3, <1>5 DEF Range
  <2>2. DocsOf(t) \in Seq(1..N) /\ Range(DocsOf(t)) = {d \in 1..N : t.term \in Range(documents[d].tokens)}
    BY <2>1, PostingDocs
  <2>3. QED BY <2>1, <2>2 DEF Having
<1>7. \A w : (\E t \in Range(terms) : t.term = w) <=> \E d \in 1..N : w \in Range(documents[d].tokens)
  <2>1. \A w : (\E t \in Range(terms) : t.term = w) <=> w \in {terms[i].term : i \in 1..Len(terms)}
    BY <1>3 DEF Range
  <2>2. \A w : w \in words <=> \E d \in 1..N : w \in Range(documents[d].tokens)
    OBVIOUS
  <2> HIDE DEF words
  <2>3. QED BY <1>3, <2>1, <2>2
<1> HIDE DEF words
<1>8. hits \in Seq(Range(terms)) /\ Range(hits) = chosen
  <2>1. hits \in Seq(Range(terms)) /\ Range(hits) = Range(terms) \cap chosen
    BY <1>4, KeptElements DEF hits
  <2>2. QED BY <1>2, <2>1
<1>9. Len(hits) \in Nat /\ DOMAIN hits = 1..Len(hits) /\ \A i \in 1..Len(hits) : hits[i] \in Range(terms) /\ hits[i] \in chosen
  BY <1>8 DEF Range
<1>10. lists = [i \in 1..Len(hits) |-> DocsOf(hits[i])]
  BY <1>9 DEF lists
<1>11. lists \in Seq(Seq(1..N)) /\ Len(lists) = Len(hits)
  <2>1. \A i \in 1..Len(hits) : DocsOf(hits[i]) \in Seq(1..N)
    BY <1>6, <1>9
  <2>2. QED BY <1>9, <1>10, <2>1
<1>12. UNION {Range(lists[i]) : i \in 1..Len(lists)} = UNION {Having(documents, t.term) : t \in chosen}
  <2>1. \A i \in 1..Len(hits) : hits[i] \in chosen /\ Range(lists[i]) = Having(documents, hits[i].term)
    BY <1>6, <1>9, <1>10
  <2>2. \A t \in chosen : \E i \in 1..Len(hits) : hits[i] = t
    BY <1>8, <1>9 DEF Range
  <2>3. UNION {Range(lists[i]) : i \in 1..Len(hits)} = UNION {Having(documents, hits[i].term) : i \in 1..Len(hits)}
    BY <2>1
  <2>4. UNION {Having(documents, hits[i].term) : i \in 1..Len(hits)} = UNION {Having(documents, t.term) : t \in chosen}
    BY <2>1, <2>2
  <2>5. QED BY <1>11, <2>3, <2>4
<1>13. Hits(idx, word, 1) \in Seq(1..N)
  BY <1>1, <1>11, FlattenRange
<1>14. Range(Hits(idx, word, 1)) = UNION {Having(documents, t.term) : t \in chosen}
  BY <1>1, <1>11, <1>12, FlattenRange
<1>15. UNION {Having(documents, t.term) : t \in exact} = Having(documents, word)
  <2>1. \A t \in exact : t \in Range(terms) /\ t.term = word
    BY DEF exact
  <2>2. (\E d \in 1..N : word \in Range(documents[d].tokens)) => \E t \in exact : t.term = word
    BY <1>7 DEF exact
  <2>3. QED BY <2>1, <2>2 DEF Having
<1>16. UNION {Having(documents, t.term) : t \in near} = NearTo(documents, word)
  <2>1. \A t \in Range(terms) : t \in near <=> OneEdit(word, t.term)
    BY <1>6, NearWords DEF near
  <2>2. \A d \in 1..N : \A w \in Range(documents[d].tokens) : \E t \in Range(terms) : t.term = w
    BY <1>7
  <2>3. near \subseteq Range(terms)
    BY DEF near
  <2>4. QED BY <2>1, <2>2, <2>3 DEF Having, NearTo
<1>17. exact # {} <=> Having(documents, word) # {}
  BY <1>7 DEF Having, exact
<1>18. QED BY <1>13, <1>14, <1>15, <1>16, <1>17 DEF chosen

\* A query for one word has the documents that the word leads to.
LEMMA QueryAlone ==
  ASSUME NEW idx, NEW word, IsToken(word), NEW D, Hits(idx, word, 1) \in Seq(D)
  PROVE  LET hits == QueryIndex(idx, word, 1)
         IN  UNION {Range(hits[i].docs) : i \in DOMAIN hits} = Range(Hits(idx, word, 1))
<1> DEFINE words == Tokenize(word)
           all   == [i \in DOMAIN words |-> [term |-> words[i], docs |-> Hits(idx, words[i], 1)]]
           hits  == Kept(all, {hit \in Range(all) : hit.docs # <<>>})
           docs  == Hits(idx, word, 1)
           entry == [term |-> word, docs |-> docs]
<1>1. QueryIndex(idx, word, 1) = hits
  BY Zenon DEF QueryIndex
<1>2. words = <<word>>
  BY TokenAlone
<1>3. all = [i \in 1..1 |-> entry]
  BY <1>2
<1>4. entry.docs = docs /\ docs \in Seq(D)
  OBVIOUS
<1> HIDE DEF words, entry, docs
<1>5. all \in Seq({entry}) /\ Range(all) = {entry}
  <2>1. 1 \in Nat /\ 1 \in 1..1
    OBVIOUS
  <2>2. all \in Seq({entry}) /\ DOMAIN all = 1..1 /\ \A i \in 1..1 : all[i] = entry
    BY <1>3
  <2>3. QED BY <2>1, <2>2 DEF Range
<1> HIDE DEF all
<1>6. hits \in Seq({entry}) /\ Range(hits) = {hit \in {entry} : hit.docs # <<>>}
  <2>1. hits \in Seq({entry}) /\ Range(hits) = Range(all) \cap {hit \in Range(all) : hit.docs # <<>>}
    BY <1>5, KeptElements
  <2>2. QED BY <1>5, <2>1
<1> HIDE DEF hits
<1>7. UNION {Range(hits[i].docs) : i \in DOMAIN hits} = UNION {Range(hit.docs) : hit \in Range(hits)}
  BY DEF Range
<1>8. docs = <<>> => Range(docs) = {}
  BY DEF Range
<1>9. UNION {Range(hit.docs) : hit \in Range(hits)} = Range(docs)
  <2>1. CASE docs = <<>>
    <3>1. Range(hits) = {}
      BY <1>4, <1>6, <2>1
    <3>2. QED BY <1>8, <2>1, <3>1
  <2>2. CASE docs # <<>>
    <3>1. Range(hits) = {entry}
      BY <1>4, <1>6, <2>2
    <3>2. QED BY <1>4, <3>1
  <2>3. QED BY <2>1, <2>2
<1>10. QED BY <1>1, <1>7, <1>9, Zenon DEF docs

\* What a query of an index that was built finds for a word of a file.
Answers(idx, documents, options, f, word) ==
  LET hits == QueryIndex(idx, word, 1)
      docs == UNION {Range(hits[i].docs) : i \in DOMAIN hits}
  IN  /\ docs = IF Having(documents, word) # {} THEN Having(documents, word) ELSE NearTo(documents, word)
      /\ (Accepted(f, options) /\ Stem(word, options.stemming) = word /\ ~Stops(word, options.stopwords))
           => \E d \in docs : documents[d].path = f.path

LEMMA BuiltIndexAnswers ==
  ASSUME NEW options \in Options, NEW documents, documents = Documents(options),
         NEW idx, idx = [documents |-> documents, terms |-> Terms(documents)],
         NEW f \in Range(options.files), NEW word \in Range(Tokenize(ExtractText(f)))
  PROVE  Answers(idx, documents, options, f, word)
<1> DEFINE N    == Len(documents)
           hits == QueryIndex(idx, word, 1)
           docs == UNION {Range(hits[i].docs) : i \in DOMAIN hits}
<1>1. /\ N \in Nat /\ DOMAIN documents = 1..N
      /\ \A d \in 1..N : IsDocument(documents[d])
      /\ Accepted(f, options) => \E d \in 1..N : documents[d] = DocumentOf(f, options)
  BY BuiltDocuments
<1>2. \A d \in 1..N : documents[d].tokens \in Seq(WordTexts)
  BY <1>1 DEF IsDocument
<1>3. idx.documents = documents /\ idx.terms = Terms(documents)
  OBVIOUS
<1>4. Tokenize(ExtractText(f)) \in Seq(WordTexts) /\ IsToken(word)
  BY FileText, TextTokens
<1>5. word \in WordTexts
  BY <1>4 DEF IsToken
<1> HIDE DEF N
<1>6. /\ Hits(idx, word, 1) \in Seq(1..N)
      /\ Range(Hits(idx, word, 1)) = IF Having(documents, word) # {} THEN Having(documents, word)
                                     ELSE NearTo(documents, word)
  BY <1>1, <1>2, <1>3, <1>5, HitsAre
<1>7. docs = Range(Hits(idx, word, 1))
  BY <1>4, <1>6, QueryAlone
<1>8. ASSUME Accepted(f, options), Stem(word, options.stemming) = word, ~Stops(word, options.stopwords)
      PROVE  \E d \in Having(documents, word) : documents[d].path = f.path
  <2>1. PICK d \in 1..N : documents[d] = DocumentOf(f, options)
    BY <1>1, <1>8
  <2>2. documents[d].path = f.path /\ documents[d].tokens = WordsOf(Tokenize(ExtractText(f)), options)
    BY <2>1, FileDocument
  <2>3. word \in Range(WordsOf(Tokenize(ExtractText(f)), options))
    BY <1>4, <1>8, DocumentWords
  <2>4. d \in Having(documents, word)
    BY <1>1, <2>2, <2>3 DEF Having
  <2>5. QED BY <2>2, <2>4
<1>9. QED
  <2> HIDE DEF docs
  <2>1. docs = IF Having(documents, word) # {} THEN Having(documents, word) ELSE NearTo(documents, word)
    BY <1>6, <1>7
  <2>2. (Accepted(f, options) /\ Stem(word, options.stemming) = word /\ ~Stops(word, options.stopwords))
           => \E d \in docs : documents[d].path = f.path
    BY <1>8, <2>1
  <2>3. QED BY <2>1, <2>2, Zenon DEF Answers, docs

\* A query for a word of a file leads to the documents that have it or else to
\* those that have a word one edit away; a word that the stemmer and the
\* stopwords leave alone leads to the document of its file.
THEOREM QueriesFindTheWords == IndexSpec => []QueryFindsTheWords
<1>1. IndexInv => QueryFindsTheWords
  <2> SUFFICES ASSUME IndexInv, NEW options \in built, NEW idx \in index, NEW f \in Range(options.files),
                      NEW word \in Range(Tokenize(ExtractText(f)))
               PROVE  LET hits == QueryIndex(idx, word, 1)
                          docs == UNION {Range(hits[i].docs) : i \in DOMAIN hits}
                          have == {d \in DOMAIN idx.documents : Contains(idx.documents[d].tokens, word)}
                          near == {d \in DOMAIN idx.documents : \E w \in Range(idx.documents[d].tokens) : OneEdit(word, w)}
                      IN  /\ docs = IF have # {} THEN have ELSE near
                          /\ (Accepted(f, options) /\ Contains(Tokenize(ExtractText(f)), word)
                                /\ Stem(word, options.stemming) = word /\ ~Stops(word, options.stopwords))
                               => \E d \in docs : idx.documents[d].path = f.path
    BY Zenon DEF QueryFindsTheWords
  <2> DEFINE documents == Documents(options)
             hits == QueryIndex(idx, word, 1)
             docs == UNION {Range(hits[i].docs) : i \in DOMAIN hits}
             have == {d \in DOMAIN documents : Contains(documents[d].tokens, word)}
             near == {d \in DOMAIN documents : \E w \in Range(documents[d].tokens) : OneEdit(word, w)}
  <2>1. options \in Options /\ idx = [documents |-> documents, terms |-> Terms(documents)]
    BY DEF IndexInv
  <2>2. idx.documents = documents
    BY <2>1
  <2>3. DOMAIN documents = 1..Len(documents) /\ \A d \in DOMAIN documents : documents[d].tokens \in Seq(WordTexts)
    BY <2>1, BuiltDocuments DEF IsDocument
  <2> HIDE DEF documents
  <2>4. have = Having(documents, word)
    BY <2>3, ContainsRange DEF Having
  <2>5. near = NearTo(documents, word)
    BY Zenon DEF NearTo
  <2>6. /\ docs = IF Having(documents, word) # {} THEN Having(documents, word) ELSE NearTo(documents, word)
        /\ (Accepted(f, options) /\ Stem(word, options.stemming) = word /\ ~Stops(word, options.stopwords))
             => \E d \in docs : documents[d].path = f.path
    <3>1. documents = Documents(options)
      BY DEF documents
    <3>2. Answers(idx, documents, options, f, word)
      BY <2>1, <3>1, BuiltIndexAnswers
    <3>3. QED BY <3>2, Zenon DEF Answers, hits, docs
  <2> HIDE DEF hits, docs, have, near
  <2>7. /\ docs = IF have # {} THEN have ELSE near
        /\ (Accepted(f, options) /\ Contains(Tokenize(ExtractText(f)), word)
              /\ Stem(word, options.stemming) = word /\ ~Stops(word, options.stopwords))
             => \E d \in docs : documents[d].path = f.path
    BY <2>4, <2>5, <2>6
  <2>8. QED BY <2>2, <2>7, Zenon DEF hits, docs, have, near
<1>2. QED BY <1>1, IndexInvariance, PTL
=============================================================================
