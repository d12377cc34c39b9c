------------------------------- MODULE Recursion -------------------------------
(***************************************************************************)
(* Induction over the natural numbers, and the functions it defines.       *)
(* NatInductiveOn says for a set what NaturalsInduction says for a         *)
(* predicate; LeastOf and GreatestOf are what Min and Max choose.          *)
(* RecursiveFunction is what a definition f[n \in 0 .. N] == ... needs     *)
(* before anything can be said of it: that some function obeys its         *)
(* equation.                                                               *)
(***************************************************************************)
EXTENDS Integers, SequencesExt, SequenceTheorems, TLAPS, WellFoundedInduction

\* A set that holds 0 and, with each number, the next one holds all of them.
LEMMA NatInductiveOn ==
  ASSUME NEW S, 0 \in S, \A n \in Nat : n \in S => n + 1 \in S
  PROVE  \A n \in Nat : n \in S
<1> DEFINE R == OpToRel(<, Nat)
           T == Nat \ S
<1>1. SUFFICES ASSUME T # {} PROVE FALSE
  OBVIOUS
<1>2. IsWellFoundedOn(R, Nat)
  BY NatLessThanWellFounded
<1>3. T \subseteq Nat
  OBVIOUS
<1>4. \A x, y \in Nat : y < x => <<y, x>> \in R
  BY DEF OpToRel
<1> HIDE DEF T, R
<1>5. PICK x \in T : \A y \in T : ~ (<<y, x>> \in R)
  BY <1>1, <1>2, <1>3, WFMin
<1>6. x \in Nat /\ x \notin S /\ x # 0 /\ x - 1 \in Nat
  BY <1>5 DEF T
<1>7. <<x - 1, x>> \in R /\ x - 1 + 1 = x
  BY <1>6, <1>4
<1>8. x - 1 \notin T
  BY <1>5, <1>7
<1> USE DEF T
<1>9. QED
  BY <1>6, <1>7, <1>8

LEMMA LeastOf ==
  ASSUME NEW S \in SUBSET Nat, S # {}
  PROVE  \E x \in S : \A y \in S : x <= y
<1> DEFINE R == OpToRel(<, Nat)
<1>1. IsWellFoundedOn(R, Nat)
  BY NatLessThanWellFounded
<1>2. \A x, y \in Nat : y < x => <<y, x>> \in R
  BY DEF OpToRel
<1> HIDE DEF R
<1>3. PICK x \in S : \A y \in S : ~ (<<y, x>> \in R)
  BY <1>1, WFMin
<1>4. \A y \in S : x <= y
  <2>1. TAKE y \in S
  <2>2. x \in Nat /\ y \in Nat /\ ~ y < x
    BY <1>2, <1>3
  <2>3. QED BY <2>2
<1>5. QED BY <1>4

LEMMA GreatestOf ==
  ASSUME NEW N \in Nat, NEW S \in SUBSET (0 .. N), S # {}
  PROVE  \E x \in S : \A y \in S : x >= y
<1> DEFINE T == {n \in Nat : \A y \in S : n >= y}
<1>1. T # {} /\ T \subseteq Nat
  <2>1. N \in T
    OBVIOUS
  <2>2. QED BY <2>1
<1> HIDE DEF T
<1>2. PICK x \in T : \A n \in T : x <= n
  BY <1>1, LeastOf
<1>3. x \in Nat /\ \A y \in S : y \in Nat /\ x >= y
  BY <1>2 DEF T
<1>4. x \in S
  <2>1. SUFFICES ASSUME x \notin S PROVE FALSE
    OBVIOUS
  <2>2. \A y \in S : x # y
    BY <2>1
  <2>3. \A y \in S : x - 1 >= y
    BY <1>3, <2>2
  <2>4. x - 1 \in Nat
    <3>1. PICK y \in S : TRUE
      OBVIOUS
    <3>2. QED BY <1>3, <2>3, <3>1
  <2>5. x - 1 \in T
    BY <2>3, <2>4 DEF T
  <2>6. QED BY <1>2, <1>3, <2>5
<1>5. QED BY <1>3, <1>4

\* What takes a value in D to the next one, N times over, and the functions
\* that hold all of the values, from base on.
Steps(N, D) == [1 .. N -> [D -> D]]
Runs(N, D, base, step) ==
  {f \in [0 .. N -> D] : f[0] = base /\ \A n \in 1 .. N : f[n] = step[n][f[n - 1]]}

LEMMA RecursiveFunction ==
  ASSUME NEW N \in Nat, NEW D, NEW base \in D, NEW step \in Steps(N, D)
  PROVE  Runs(N, D, base, step) # {}
<1> USE DEF Steps, Runs
<1> DEFINE Obeys(f, m) == f[0] = base /\ \A n \in 1 .. m : f[n] = step[n][f[n - 1]]
           S == {m \in Nat : m <= N => \E f \in [0 .. m -> D] : Obeys(f, m)}
<1>1. 0 \in S
  <2>1. [i \in 0 .. 0 |-> base] \in [0 .. 0 -> D] /\ Obeys([i \in 0 .. 0 |-> base], 0)
    OBVIOUS
  <2>2. QED BY <2>1
<1>2. ASSUME NEW m \in Nat, m \in S PROVE m + 1 \in S
  <2>1. SUFFICES ASSUME m + 1 <= N PROVE \E f \in [0 .. m + 1 -> D] : Obeys(f, m + 1)
    BY <1>2
  <2>2. PICK f \in [0 .. m -> D] : Obeys(f, m)
    BY <1>2, <2>1
  <2> DEFINE g == [i \in 0 .. m + 1 |-> IF i <= m THEN f[i] ELSE step[m + 1][f[m]]]
  <2>3. step[m + 1] \in [D -> D] /\ f[m] \in D
    BY <2>1
  <2>4. g \in [0 .. m + 1 -> D]
    BY <2>3
  <2>5. \A n \in 1 .. m + 1 : g[n] = step[n][g[n - 1]]
    <3>1. TAKE n \in 1 .. m + 1
    <3>2. CASE n = m + 1
      BY <3>2
    <3>3. CASE n \in 1 .. m
      <4>1. f[n] = step[n][f[n - 1]]
        BY <2>2, <3>3
      <4>2. g[n] = f[n] /\ g[n - 1] = f[n - 1]
        BY <3>3
      <4>3. QED BY <4>1, <4>2
    <3>4. QED BY <3>2, <3>3
  <2>6. g[0] = base
    BY <2>2
  <2>7. QED BY <2>4, <2>5, <2>6
<1> HIDE DEF S
<1>3. \A m \in Nat : m \in S
  BY <1>1, <1>2, NatInductiveOn
<1> USE DEF S
<1>4. QED BY <1>3

\* What FlattenSeq puts together, one sequence after the other.
LEMMA FlattenBySteps ==
  ASSUME NEW T, NEW seqs \in Seq(Seq(T))
  PROVE  \E f \in [0..Len(seqs) -> Seq(T)] :
           /\ f[0] = <<>> /\ \A n \in 1..Len(seqs) : f[n] = f[n - 1] \o seqs[n]
           /\ FlattenSeq(seqs) = f[Len(seqs)]
<1> DEFINE N == Len(seqs)
           D == Seq(T)
           Loop(f) == [i \in 1..N |-> IF i = 1 THEN seqs[i] ELSE f[i - 1] \o seqs[i]]
           flat == CHOOSE f : f = Loop(f)
           step == [n \in 1..N |-> [s \in D |-> s \o seqs[n]]]
<1>1. N \in Nat /\ \A n \in 1..N : seqs[n] \in D
  OBVIOUS
<1>2. FlattenSeq(seqs) = IF N = 0 THEN seqs ELSE flat[N]
  BY DEF FlattenSeq
<1>3. \A s, t \in D : s \o t \in D
  BY ConcatProperties
<1>4. <<>> \in D /\ \A s \in D : <<>> \o s = s
  BY ConcatEmptySeq
<1>5. N = 0 => seqs = <<>>
  OBVIOUS
<1> HIDE DEF N, D, flat
<1>6. step \in Steps(N, D)
  BY <1>1, <1>3 DEF Steps
<1>7. PICK g \in [0..N -> D] : g[0] = <<>> /\ \A n \in 1..N : g[n] = step[n][g[n - 1]]
  <2> HIDE DEF step
  <2>1. Runs(N, D, <<>>, step) # {}
    BY <1>1, <1>4, <1>6, RecursiveFunction
  <2>2. QED BY <2>1 DEF Runs
<1>8. \A n \in 1..N : g[n] = g[n - 1] \o seqs[n] /\ g[n - 1] \in D
  <2>1. TAKE n \in 1..N
  <2>2. g[n - 1] \in D
    BY <1>1
  <2>3. QED BY <1>7, <2>2
<1> DEFINE h == [n \in 1..N |-> g[n]]
<1>9. h = Loop(h)
  <2>1. \A n \in 1..N : h[n] = IF n = 1 THEN seqs[n] ELSE h[n - 1] \o seqs[n]
    <3>1. TAKE n \in 1..N
    <3>2. CASE n = 1
      BY <1>1, <1>4, <1>7, <1>8, <3>2
    <3>3. CASE n # 1
      <4>1. n - 1 \in 1..N
        BY <1>1, <3>3
      <4>2. h[n] = g[n] /\ h[n - 1] = g[n - 1]
        BY <4>1
      <4> HIDE DEF h
      <4>3. g[n] = g[n - 1] \o seqs[n]
        BY <1>8
      <4>4. QED BY <3>3, <4>2, <4>3
    <3>4. QED BY <3>2, <3>3
  <2>2. h = [n \in 1..N |-> h[n]]
    OBVIOUS
  <2> HIDE DEF h
  <2>3. QED BY <2>1, <2>2
<1> HIDE DEF h
<1>10. flat = Loop(flat)
  <2> HIDE DEF Loop
  <2>1. QED BY <1>9 DEF flat
<1>11. \A n \in 1..N : flat[n] = IF n = 1 THEN seqs[n] ELSE flat[n - 1] \o seqs[n]
  BY <1>10
<1> DEFINE F == [n \in 0..N |-> IF n = 0 THEN <<>> ELSE flat[n]]
<1>12. F[0] = <<>> /\ \A n \in 1..N : F[n] = F[n - 1] \o seqs[n]
  <2>1. F[0] = <<>>
    BY <1>1
  <2>2. ASSUME NEW n \in 1..N PROVE F[n] = F[n - 1] \o seqs[n]
    <3>1. F[n] = flat[n] /\ (n # 1 => F[n - 1] = flat[n - 1])
      BY <1>1
    <3> HIDE DEF F
    <3>2. CASE n = 1
      <4>1. F[n - 1] = <<>>
        BY <2>1, <3>2
      <4>2. QED BY <1>1, <1>4, <1>11, <3>1, <3>2, <4>1
    <3>3. CASE n # 1
      BY <1>11, <3>1, <3>3
    <3>4. QED BY <3>2, <3>3
  <2>3. QED BY <2>1, <2>2
<1>13. FlattenSeq(seqs) = F[N]
  BY <1>1, <1>2, <1>5
<1> DEFINE S == {n \in Nat : n <= N => F[n] \in D}
<1>14. \A n \in Nat : n \in S
  <2> HIDE DEF F
  <2>1. 0 \in S
    BY <1>4, <1>12
  <2>2. ASSUME NEW n \in Nat, n \in S PROVE n + 1 \in S
    <3>1. SUFFICES ASSUME n + 1 <= N PROVE F[n + 1] \in D
      OBVIOUS
    <3> DEFINE m == n + 1
    <3>2. m \in 1..N /\ m - 1 = n /\ F[n] \in D
      BY <1>1, <2>2, <3>1
    <3> HIDE DEF m, S
    <3>3. F[m] = F[n] \o seqs[m] /\ seqs[m] \in D
      BY <1>1, <1>12, <3>2
    <3>4. QED BY <1>3, <3>2, <3>3 DEF m
  <2> HIDE DEF S
  <2>3. QED BY <2>1, <2>2, NatInductiveOn
<1>15. F \in [0..N -> D]
  <2>1. F = [n \in 0..N |-> F[n]]
    OBVIOUS
  <2> HIDE DEF F
  <2>2. \A n \in 0..N : F[n] \in D
    BY <1>1, <1>14 DEF S
  <2>3. QED BY <2>1, <2>2
<1> HIDE DEF F
<1>16. QED BY <1>12, <1>13, <1>15 DEF N, D
=============================================================================
