--------------------------- MODULE ZethaTablesProofs ---------------------------
(***************************************************************************)
(* Theorems about ZethaTables, for any names, columns, layouts, literals,  *)
(* statements and number of rows.                                          *)
(***************************************************************************)
EXTENDS ZethaMemText, FiniteSetTheorems, SequenceTheorems, Recursion

-----------------------------------------------------------------------------
(* Rows kept by a loop.                                                    *)

\* The loop runs: there are rows kept after every row.
LEMMA LoopRuns ==
  ASSUME NEW R, NEW rows \in Seq(R), NEW S
  PROVE  \E kept \in [0 .. Len(rows) -> Seq(R)] :
           /\ kept[0] = <<>>
           /\ \A n \in 1 .. Len(rows) : kept[n] = IF n \in S THEN Append(kept[n - 1], rows[n]) ELSE kept[n - 1]
           /\ Only(rows, S) = kept[Len(rows)]
<1> DEFINE N == Len(rows)
           D == Seq(R)
           Next1(n, s) == IF n \in S THEN Append(s, rows[n]) ELSE s
           Loop(f) == [n \in 0 .. N |-> IF n = 0 THEN <<>> ELSE Next1(n, f[n - 1])]
           step == [n \in 1 .. N |-> [s \in D |-> Next1(n, s)]]
           kept == CHOOSE f : f = Loop(f)
<1>1. N \in Nat
  OBVIOUS
<1>2. <<>> \in D
  OBVIOUS
<1>3. \A n \in 1 .. N : \A s \in D : Next1(n, s) \in D
  OBVIOUS
<1>4. step \in Steps(N, D)
  BY <1>3 DEF Steps
<1> HIDE DEF D, Next1
<1>5. PICK f \in [0 .. N -> D] : f[0] = <<>> /\ \A n \in 1 .. N : f[n] = step[n][f[n - 1]]
  <2> HIDE DEF step, N
  <2>1. Runs(N, D, <<>>, step) # {}
    BY <1>1, <1>2, <1>4, RecursiveFunction
  <2>2. QED BY <2>1 DEF Runs
<1>6. \A n \in 1 .. N : f[n] = Next1(n, f[n - 1])
  <2>1. TAKE n \in 1 .. N
  <2>2. f[n - 1] \in D
    BY <1>1
  <2>3. QED BY <1>5, <2>2
<1>7. f = Loop(f)
  <2> DEFINE g == Loop(f)
  <2>1. ASSUME NEW n \in 0 .. N PROVE f[n] = g[n]
    <3>1. CASE n = 0
      BY <1>1, <1>5, <3>1
    <3>2. CASE n # 0
      <4>1. n \in 1 .. N
        BY <1>1, <3>2
      <4>2. QED BY <1>6, <3>2, <4>1
    <3>3. QED BY <3>1, <3>2
  <2> HIDE DEF N
  <2>2. g = [n \in 0 .. N |-> g[n]] /\ f = [n \in 0 .. N |-> f[n]]
    BY <1>5
  <2> HIDE DEF g
  <2>3. QED BY <2>1, <2>2 DEF g
<1>8. Only(rows, S) = kept[N]
  BY DEF Only, Next1
<1> HIDE DEF Loop, kept, N
<1>9. kept = Loop(kept)
  BY <1>7 DEF kept
<1> USE DEF Loop
<1>10. kept[0] = <<>> /\ \A n \in 1 .. N : kept[n] = Next1(n, kept[n - 1])
  <2>1. kept = [n \in 0 .. N |-> IF n = 0 THEN <<>> ELSE Next1(n, kept[n - 1])]
    BY <1>9
  <2>2. 0 \in 0 .. N /\ \A n \in 1 .. N : n \in 0 .. N /\ n # 0
    BY <1>1
  <2> HIDE DEF Loop
  <2>3. QED BY <2>1, <2>2
<1> DEFINE T == {n \in Nat : n <= N => kept[n] \in D}
<1>11. 0 \in T
  BY <1>2, <1>10
<1>12. \A n \in Nat : n \in T => n + 1 \in T
  <2>1. SUFFICES ASSUME NEW n \in Nat, n \in T, n + 1 <= N PROVE kept[n + 1] \in D
    OBVIOUS
  <2>2. kept[n] \in D /\ n + 1 \in 1 .. N /\ n + 1 - 1 = n
    BY <1>1, <2>1
  <2>3. QED BY <1>3, <1>10, <2>2
<1> HIDE DEF T
<1>13. \A n \in Nat : n \in T
  BY <1>11, <1>12, NatInductiveOn
<1>14. kept \in [0 .. N -> D]
  <2>1. \A n \in 0 .. N : kept[n] \in D
    BY <1>1, <1>13 DEF T
  <2>2. kept = [n \in 0 .. N |-> kept[n]]
    BY <1>9
  <2>3. QED BY <2>1, <2>2
<1>15. QED BY <1>8, <1>10, <1>14 DEF N, D, Next1

\* Where the rows that are kept come to stand.
LEMMA OnlyKeeps ==
  ASSUME NEW R, NEW rows \in Seq(R), NEW S \in SUBSET (1 .. Len(rows))
  PROVE  /\ Only(rows, S) \in Seq(R) /\ Len(Only(rows, S)) = Cardinality(S)
         /\ \A i \in S : Only(rows, S)[Cardinality({j \in 1 .. i : j \in S})] = rows[i]
<1> DEFINE N == Len(rows)
           UpTo(n) == {j \in 1 .. n : j \in S}
           C(n) == Cardinality(UpTo(n))
<1>1. PICK kept \in [0 .. N -> Seq(R)] :
           /\ kept[0] = <<>>
           /\ \A n \in 1 .. N : kept[n] = IF n \in S THEN Append(kept[n - 1], rows[n]) ELSE kept[n - 1]
           /\ Only(rows, S) = kept[N]
  BY LoopRuns
<1>2. N \in Nat
  OBVIOUS
<1>3. \A n \in Nat : IsFiniteSet(UpTo(n)) /\ C(n) \in Nat
  <2>1. TAKE n \in Nat
  <2>2. IsFiniteSet(1 .. n)
    BY FS_Interval
  <2>3. UpTo(n) \subseteq 1 .. n
    OBVIOUS
  <2>4. QED BY <2>2, <2>3, FS_Subset, FS_CardinalityType
<1>4. C(0) = 0
  <2>1. UpTo(0) = {}
    OBVIOUS
  <2>2. QED BY <2>1, FS_EmptySet
<1>5. \A n \in Nat : C(n + 1) = IF n + 1 \in S THEN C(n) + 1 ELSE C(n)
  <2>1. TAKE n \in Nat
  <2>2. CASE n + 1 \in S
    <3>1. UpTo(n + 1) = UpTo(n) \cup {n + 1} /\ n + 1 \notin UpTo(n)
      BY <2>2
    <3> HIDE DEF UpTo
    <3>2. QED BY <1>3, <2>2, <3>1, FS_AddElement
  <2>3. CASE n + 1 \notin S
    <3>1. UpTo(n + 1) = UpTo(n)
      BY <2>3
    <3> HIDE DEF UpTo
    <3>2. QED BY <2>3, <3>1
  <2>4. QED BY <2>2, <2>3
<1> HIDE DEF C
<1> DEFINE Good(n) == /\ Len(kept[n]) = C(n)
                      /\ \A i \in UpTo(n) : C(i) \in 1 .. C(n) /\ kept[n][C(i)] = rows[i]
           T == {n \in Nat : n <= N => Good(n)}
<1>6. 0 \in T
  BY <1>1, <1>4
<1>7. \A n \in Nat : n \in T => n + 1 \in T
  <2>1. SUFFICES ASSUME NEW n \in Nat, n \in T, n + 1 <= N PROVE Good(n + 1)
    OBVIOUS
  <2>2. /\ Good(n) /\ n + 1 \in 1 .. N /\ n + 1 - 1 = n /\ n \in 0 .. N
        /\ kept[n] \in Seq(R) /\ rows[n + 1] \in R /\ C(n) \in Nat
    <3>1. n <= N
      BY <1>2, <2>1
    <3>2. Good(n)
      BY <2>1, <3>1
    <3> HIDE DEF Good
    <3>3. n + 1 \in 1 .. N /\ n + 1 - 1 = n /\ n \in 0 .. N
      BY <1>2, <2>1
    <3>4. rows[n + 1] \in R
      BY <3>3
    <3> HIDE DEF N
    <3>5. kept[n] \in Seq(R) /\ C(n) \in Nat
      BY <1>1, <1>3, <3>3
    <3>6. QED BY <3>2, <3>3, <3>4, <3>5
  <2>6. kept[n + 1] = IF n + 1 \in S THEN Append(kept[n], rows[n + 1]) ELSE kept[n]
    <3> HIDE DEF Good, N
    <3>1. kept[n + 1] = IF n + 1 \in S THEN Append(kept[n + 1 - 1], rows[n + 1]) ELSE kept[n + 1 - 1]
      <4>1. n + 1 \in 1 .. N
        BY <2>2
      <4>2. \A m \in 1 .. N : kept[m] = IF m \in S THEN Append(kept[m - 1], rows[m]) ELSE kept[m - 1]
        BY <1>1
      <4>3. QED BY <4>1, <4>2
    <3>2. QED BY <2>2, <3>1
  <2>3. CASE n + 1 \in S
    <3>1. kept[n + 1] = Append(kept[n], rows[n + 1]) /\ C(n + 1) = C(n) + 1
      BY <1>5, <2>1, <2>3, <2>6
    <3>2. /\ Len(kept[n + 1]) = C(n) + 1 /\ kept[n + 1][C(n) + 1] = rows[n + 1]
          /\ \A j \in 1 .. C(n) : kept[n + 1][j] = kept[n][j]
      BY <2>2, <3>1
    <3>3. \A i \in UpTo(n + 1) : i \in UpTo(n) \/ i = n + 1
      BY <2>1
    <3>4. ASSUME NEW i \in UpTo(n + 1) PROVE C(i) \in 1 .. C(n + 1) /\ kept[n + 1][C(i)] = rows[i]
      <4>1. CASE i \in UpTo(n)
        <5>1. C(i) \in 1 .. C(n) /\ kept[n][C(i)] = rows[i]
          BY <2>2, <4>1
        <5>2. QED BY <2>2, <3>1, <3>2, <5>1
      <4>2. CASE i = n + 1
        BY <2>2, <3>1, <3>2, <4>2
      <4>3. QED BY <3>3, <4>1, <4>2
    <3>5. QED BY <3>1, <3>2, <3>4
  <2>4. CASE n + 1 \notin S
    <3>1. kept[n + 1] = kept[n] /\ C(n + 1) = C(n)
      BY <1>5, <2>1, <2>4, <2>6
    <3>2. UpTo(n + 1) = UpTo(n)
      BY <2>1, <2>4
    <3>3. QED BY <2>2, <3>1, <3>2
  <2>5. QED BY <2>3, <2>4
<1> HIDE DEF T
<1>8. \A n \in Nat : n \in T
  BY <1>6, <1>7, NatInductiveOn
<1> USE DEF T
<1>9. Good(N)
  BY <1>2, <1>8
<1>10. UpTo(N) = S
  OBVIOUS
<1>11. N \in 0 .. N
  BY <1>2
<1>12. Only(rows, S) \in Seq(R) /\ Len(Only(rows, S)) = Cardinality(S)
  <2> HIDE DEF UpTo
  <2>1. kept[N] \in Seq(R) /\ Len(kept[N]) = C(N)
    BY <1>1, <1>9, <1>11
  <2>2. QED BY <1>1, <1>10, <2>1 DEF C
<1>13. \A i \in S : Only(rows, S)[C(i)] = rows[i]
  <2> HIDE DEF UpTo
  <2>1. \A i \in UpTo(N) : kept[N][C(i)] = rows[i]
    BY <1>9
  <2>2. QED BY <1>1, <1>10, <2>1
<1>14. QED BY <1>12, <1>13 DEF C

-----------------------------------------------------------------------------
(* Every cell has the type of its column.                                  *)

RowsOf(types) == {row \in [DOMAIN types -> TableValues] : \A c \in DOMAIN types : row[c].type = types[c]}

IsTable(x) ==
  /\ x = [types |-> x.types, rows |-> x.rows]
  /\ x.types \in [DOMAIN x.types -> Types] /\ DOMAIN x.types \subseteq Columns
  /\ x.rows \in Seq(RowsOf(x.types)) /\ Len(x.rows) <= MaxRows

TablesInv ==
  /\ tables = [t \in DOMAIN tables |-> tables[t]] /\ DOMAIN tables \subseteq Names \ {NoName}
  /\ \A t \in DOMAIN tables : IsTable(tables[t])
  /\ affected \in 0 .. MaxRows
  /\ answer \in {"none", "ok", "error"}

LEMMA MaxIsIn ==
  ASSUME NEW n \in Nat, NEW S \in SUBSET (1 .. n), S # {}
  PROVE  Max(S) \in S
<1>1. S \in SUBSET (0 .. n)
  OBVIOUS
<1>2. QED BY <1>1, GreatestOf DEF Max

LEMMA MinIsIn ==
  ASSUME NEW S \in SUBSET Nat, S # {}
  PROVE  Min(S) \in S /\ \A i \in S : Min(S) <= i
BY LeastOf DEF Min

LEMMA WholeNumber ==
  ASSUME NEW n \in Int
  PROVE  Whole(n) \in Int /\ Whole(n) % 2 = 0 /\ (n % 2 = 0 => Whole(n) = n)
<1>1. CASE n >= 0
  BY <1>1 DEF Whole
<1>2. CASE ~(n >= 0)
  BY <1>2 DEF Whole
<1>3. QED BY <1>1, <1>2

LEMMA TypedValue ==
  ASSUME NEW type \in Types, NEW v \in TableValues, NEW x \in Typed(type, v)
  PROVE  /\ x \in TableValues /\ x.type = type
         /\ (type = "int" => v.num % 2 = 0) => x.num = v.num
<1>1. v \in [type : Types, num : Int] /\ (v.type = "int" => v.num % 2 = 0)
  BY DEF TableValues
<1>2. CASE v.type = type
  BY <1>1, <1>2 DEF Typed, TableValues
<1>3. CASE v.type # type
  <2>1. IsNum(v.type) /\ IsNum(type)
    BY <1>3 DEF Typed
  <2>2. x = [type |-> type, num |-> IF type = "int" THEN Whole(v.num) ELSE v.num]
    BY <1>3, <2>1 DEF Typed
  <2>3. x.type = type /\ x.num = IF type = "int" THEN Whole(v.num) ELSE v.num
    BY <2>2
  <2>4. x.num \in Int /\ (type = "int" => x.num % 2 = 0)
    BY <1>1, <2>3, WholeNumber
  <2>5. x \in [type : Types, num : Int]
    BY <2>2, <2>3, <2>4
  <2>6. x \in TableValues
    <3>1. x.type # "bool"
      BY <2>1, <2>3 DEF IsNum
    <3>2. QED BY <2>3, <2>4, <2>5, <3>1 DEF TableValues
  <2>7. QED BY <1>1, <2>3, <2>6, WholeNumber
<1>4. QED BY <1>2, <1>3

\* Rows that get good values are rows of their table.
LEMMA AssignedRow ==
  ASSUME NEW types, types \in [DOMAIN types -> Types],
         NEW fields \in Seq(STRING \X Literals),
         \A i \in 1 .. Len(fields) : ~Bad(types, fields[i][1], fields[i][2]),
         NEW row,
         row \in RowsOf(types) \/ DOMAIN types \subseteq {fields[i][1] : i \in 1 .. Len(fields)}
  PROVE  Assigned(types, row, fields) \in RowsOf(types)
<1> DEFINE given(c) == {i \in 1 .. Len(fields) : fields[i][1] = c}
           a == Assigned(types, row, fields)
           cell(c) == IF given(c) = {} THEN row[c]
                      ELSE CHOOSE v \in Typed(types[c], fields[Max(given(c))][2]) : TRUE
<1>1. a = [c \in DOMAIN types |-> cell(c)]
  BY DEF Assigned
<1>2. ASSUME NEW c \in DOMAIN types PROVE cell(c) \in TableValues /\ cell(c).type = types[c]
  <2>1. CASE given(c) = {}
    <3>1. row \in RowsOf(types)
      BY <2>1
    <3>2. QED BY <2>1, <3>1 DEF RowsOf
  <2>2. CASE given(c) # {}
    <3> DEFINE m == Max(given(c))
    <3>1. m \in given(c)
      <4>1. given(c) \in SUBSET (1 .. Len(fields)) /\ Len(fields) \in Nat
        OBVIOUS
      <4> HIDE DEF given
      <4>2. QED BY <2>2, <4>1, MaxIsIn
    <3>2. m \in 1 .. Len(fields) /\ fields[m][1] = c
      BY <3>1
    <3> HIDE DEF m
    <3>3. fields[m][2] \in TableValues /\ Typed(types[c], fields[m][2]) # {}
      BY <3>2, TablesAssumption DEF Bad
    <3>4. cell(c) \in Typed(types[c], fields[m][2])
      BY <2>2, <3>3 DEF m
    <3> HIDE DEF cell
    <3>5. types[c] \in Types
      OBVIOUS
    <3>6. QED BY <3>3, <3>4, <3>5, TypedValue
  <2>3. QED BY <2>1, <2>2
<1> HIDE DEF cell
<1>3. QED BY <1>1, <1>2 DEF RowsOf

-----------------------------------------------------------------------------
(* Steps.                                                                  *)

LEMMA TableParts ==
  ASSUME TablesInv, NEW t \in DOMAIN tables
  PROVE  /\ tables[t].types \in [DOMAIN tables[t].types -> Types] /\ DOMAIN tables[t].types \subseteq Columns
         /\ tables[t].rows \in Seq(RowsOf(tables[t].types))
         /\ Len(tables[t].rows) \in Nat /\ Len(tables[t].rows) <= MaxRows
         /\ DOMAIN tables[t].rows = 1 .. Len(tables[t].rows)
<1> DEFINE rows == tables[t].rows
           types == tables[t].types
<1>1. types \in [DOMAIN types -> Types] /\ DOMAIN types \subseteq Columns /\ rows \in Seq(RowsOf(types)) /\ Len(rows) <= MaxRows
  BY DEF TablesInv, IsTable
<1> HIDE DEF rows, types
<1>2. Len(rows) \in Nat /\ DOMAIN rows = 1 .. Len(rows)
  BY <1>1
<1>3. QED BY <1>1, <1>2 DEF rows, types

\* A table gets other rows.
LEMMA RowsReplaced ==
  ASSUME TablesInv, NEW t \in DOMAIN tables, NEW rows \in Seq(RowsOf(tables[t].types)), Len(rows) <= MaxRows,
         tables' = Rows(t, rows)
  PROVE  /\ tables' = [u \in DOMAIN tables' |-> tables'[u]] /\ DOMAIN tables' = DOMAIN tables
         /\ tables'[t].rows = rows /\ tables'[t].types = tables[t].types
         /\ \A u \in DOMAIN tables : u # t => tables'[u] = tables[u]
         /\ \A u \in DOMAIN tables' : IsTable(tables'[u])
<1>1. tables = [u \in DOMAIN tables |-> tables[u]] /\ \A u \in DOMAIN tables : IsTable(tables[u])
  BY DEF TablesInv
<1>2. tables' = [tables EXCEPT ![t] = [tables[t] EXCEPT !.rows = rows]]
  BY DEF Rows
<1> DEFINE x == [tables[t] EXCEPT !.rows = rows]
<1>3. x = [types |-> tables[t].types, rows |-> rows]
  <2>1. tables[t] = [types |-> tables[t].types, rows |-> tables[t].rows]
    BY <1>1 DEF IsTable
  <2>2. QED BY <2>1
<1>4. IsTable(x)
  <2>1. x.types = tables[t].types /\ x.rows = rows
    BY <1>3
  <2> HIDE DEF x
  <2>2. x = [types |-> x.types, rows |-> x.rows]
    BY <1>3, <2>1
  <2>3. QED BY <1>1, <2>1, <2>2 DEF IsTable
<1>5. x.types = tables[t].types /\ x.rows = rows
  BY <1>3
<1> HIDE DEF x
<1>6. tables' = [tables EXCEPT ![t] = x]
  BY <1>2 DEF x
<1>7. /\ DOMAIN tables' = DOMAIN tables /\ tables'[t] = x
      /\ \A u \in DOMAIN tables : u # t => tables'[u] = tables[u]
      /\ tables' = [u \in DOMAIN tables' |-> tables'[u]]
  BY <1>1, <1>6
<1>8. \A u \in DOMAIN tables' : IsTable(tables'[u])
  BY <1>1, <1>4, <1>7
<1>9. QED BY <1>5, <1>7, <1>8

\* The rows that match, and the others, are rows of the table.
LEMMA Selected ==
  ASSUME TablesInv, NEW t \in DOMAIN tables, NEW where
  PROVE  LET rows == tables[t].rows
             rest == Only(rows, DOMAIN rows \ Matching(t, where))
         IN  /\ Select(t, where) \in Seq(RowsOf(tables[t].types))
             /\ rest \in Seq(RowsOf(tables[t].types))
             /\ IsFiniteSet(Matching(t, where)) /\ Len(Select(t, where)) = Cardinality(Matching(t, where))
             /\ Len(rest) = Len(rows) - Len(Select(t, where))
             /\ Len(Select(t, where)) \in 0 .. Len(rows)
<1> DEFINE rows == tables[t].rows
           R == RowsOf(tables[t].types)
           N == Len(rows)
           S == Matching(t, where)
           U == (1 .. N) \ S
<1>1. rows \in Seq(R) /\ N \in Nat /\ DOMAIN rows = 1 .. N
  BY TableParts
<1>2. S \in SUBSET (1 .. N)
  BY <1>1 DEF Matching
<1>3. Select(t, where) = Only(rows, S)
  BY DEF Select
<1> HIDE DEF rows, R, S
<1>4. U \in SUBSET (1 .. N)
  BY <1>2
<1>5. IsFiniteSet(1 .. N) /\ Cardinality(1 .. N) = N
  <2> HIDE DEF N
  <2>1. /\ IsFiniteSet(1 .. N)
        /\ Cardinality(1 .. N) = IF 1 > N THEN 0 ELSE N - 1 + 1
    BY <1>1, FS_Interval
  <2>2. QED BY <1>1, <2>1
<1>6. /\ IsFiniteSet(S) /\ IsFiniteSet(U) /\ Cardinality(S) \in Nat /\ Cardinality(U) \in Nat
      /\ Cardinality(U) = N - Cardinality(S)
  <2>1. IsFiniteSet(S) /\ IsFiniteSet(U)
    BY <1>2, <1>4, <1>5, FS_Subset
  <2>2. Cardinality(S) \in Nat /\ Cardinality(U) \in Nat
    BY <2>1, FS_CardinalityType
  <2>3. S \cup U = 1 .. N /\ S \cap U = {}
    BY <1>2
  <2>4. Cardinality(S \cup U) = Cardinality(S) + Cardinality(U) - Cardinality(S \cap U)
    BY <2>1, FS_Union
  <2> HIDE DEF U
  <2>5. Cardinality(S \cap U) = 0
    BY <2>3, FS_EmptySet
  <2>6. N = Cardinality(S) + Cardinality(U)
    <3> HIDE DEF N
    <3>1. Cardinality(S \cup U) = N
      BY <1>5, <2>3, Zenon
    <3>2. QED BY <1>1, <2>2, <2>4, <2>5, <3>1
  <2>7. Cardinality(U) = N - Cardinality(S)
    BY <2>2, <2>6
  <2>8. QED BY <2>1, <2>2, <2>7
<1>7. Only(rows, S) \in Seq(R) /\ Len(Only(rows, S)) = Cardinality(S)
  BY <1>1, <1>2, OnlyKeeps
<1>8. Only(rows, U) \in Seq(R) /\ Len(Only(rows, U)) = Cardinality(U)
  BY <1>1, <1>4, OnlyKeeps
<1> HIDE DEF U
<1>9. Cardinality(S) \in 0 .. N
  BY <1>1, <1>6
<1>10. DOMAIN rows \ S = U
  BY <1>1 DEF U
<1>11. QED BY <1>3, <1>6, <1>7, <1>8, <1>9, <1>10 DEF rows, R, S, N

\* What is left of the rows keeps its order: a row that does not match moves up
\* by as many places as rows before it do.
LEMMA RestMovesUp ==
  ASSUME TablesInv, NEW t \in DOMAIN tables, NEW where, NEW i \in DOMAIN tables[t].rows,
         ~Matches(tables[t].types, tables[t].rows[i], where)
  PROVE  Only(tables[t].rows, DOMAIN tables[t].rows \ Matching(t, where))
           [i - Cardinality({j \in 1 .. i : Matches(tables[t].types, tables[t].rows[j], where)})] = tables[t].rows[i]
<1> DEFINE rows == tables[t].rows
           R == RowsOf(tables[t].types)
           N == Len(rows)
           M(j) == Matches(tables[t].types, rows[j], where)
           U == (1 .. N) \ Matching(t, where)
           A == {j \in 1 .. i : M(j)}
           B == {j \in 1 .. i : j \in U}
<1>1. rows \in Seq(R) /\ N \in Nat /\ DOMAIN rows = 1 .. N
  BY TableParts
<1>2. Matching(t, where) = {j \in 1 .. N : M(j)} /\ ~M(i)
  BY <1>1 DEF Matching
<1>3. i \in 1 .. N /\ i \in Nat
  BY <1>1
<1> HIDE DEF rows, R, M, N
<1>4. U \in SUBSET (1 .. N) /\ i \in U
  BY <1>2, <1>3
<1>5. B = (1 .. i) \ A /\ A \subseteq 1 .. i
  BY <1>1, <1>2, <1>3
<1>6. IsFiniteSet(1 .. i) /\ Cardinality(1 .. i) = i
  <2>1. /\ IsFiniteSet(1 .. i)
        /\ Cardinality(1 .. i) = IF 1 > i THEN 0 ELSE i - 1 + 1
    BY <1>3, FS_Interval
  <2>2. QED BY <1>1, <1>3, <2>1
<1> HIDE DEF A, B, U
<1>7. Cardinality(B) = i - Cardinality(A)
  <2>1. IsFiniteSet(A) /\ IsFiniteSet(B)
    BY <1>5, <1>6, FS_Subset
  <2>2. Cardinality(A) \in Nat /\ Cardinality(B) \in Nat
    BY <2>1, FS_CardinalityType
  <2>3. A \cup B = 1 .. i /\ A \cap B = {}
    BY <1>5
  <2>4. Cardinality(A \cup B) = Cardinality(A) + Cardinality(B) - Cardinality(A \cap B)
    BY <2>1, FS_Union
  <2>5. Cardinality(A \cap B) = 0
    BY <2>3, FS_EmptySet
  <2>6. Cardinality(A \cup B) = i
    BY <1>6, <2>3, Zenon
  <2>7. QED BY <1>3, <2>2, <2>4, <2>5, <2>6
<1>8. Only(rows, U)[Cardinality({j \in 1 .. i : j \in U})] = rows[i]
  <2>1. \A k \in U : Only(rows, U)[Cardinality({j \in 1 .. k : j \in U})] = rows[k]
    BY <1>1, <1>4, OnlyKeeps, ZenonT(30) DEF N
  <2>2. QED BY <1>4, <2>1
<1>9. Only(rows, U)[i - Cardinality(A)] = rows[i]
  BY <1>7, <1>8 DEF B
<1>10. DOMAIN rows \ Matching(t, where) = U
  BY <1>1 DEF U
<1>11. QED BY <1>9, <1>10, Zenon DEF A, M, rows

\* What update makes of the rows.
LEMMA UpdatedRows ==
  ASSUME TablesInv, NEW t \in DOMAIN tables, NEW f \in Lists, NEW where,
         LET bad == {i \in 1 .. Len(f) : Bad(tables[t].types, f[i][1], f[i][2])}
         IN  bad = {} \/ Select(t, where) = <<>>
  PROVE  LET rows == tables[t].rows
             types == tables[t].types
             left == [i \in DOMAIN rows |-> IF Matches(types, rows[i], where) THEN Assigned(types, rows[i], f) ELSE rows[i]]
         IN  left \in Seq(RowsOf(types)) /\ Len(left) = Len(rows)
<1> DEFINE rows == tables[t].rows
           types == tables[t].types
           R == RowsOf(types)
           N == Len(rows)
           bad == {i \in 1 .. Len(f) : Bad(types, f[i][1], f[i][2])}
           M(j) == Matches(types, rows[j], where)
           A(j) == Assigned(types, rows[j], f)
<1>1. rows \in Seq(R) /\ N \in Nat /\ DOMAIN rows = 1 .. N /\ types \in [DOMAIN types -> Types]
  BY TableParts
<1>2. f \in Seq(STRING \X Literals)
  BY TablesAssumption
<1>3. ASSUME NEW j \in 1 .. N, M(j) PROVE A(j) \in R
  <2>1. bad = {}
    <3>1. SUFFICES ASSUME Select(t, where) = <<>> PROVE FALSE
      OBVIOUS
    <3>2. Len(Select(t, where)) = Cardinality(Matching(t, where)) /\ IsFiniteSet(Matching(t, where))
      BY Selected
    <3>3. j \in Matching(t, where)
      BY <1>1, <1>3 DEF Matching
    <3>4. Cardinality(Matching(t, where)) = 0
      BY <3>1, <3>2
    <3>5. QED BY <3>2, <3>3, <3>4, FS_EmptySet
  <2>2. \A i \in 1 .. Len(f) : ~Bad(types, f[i][1], f[i][2])
    BY <2>1
  <2>3. rows[j] \in R
    BY <1>1
  <2> HIDE DEF rows, types, N
  <2>4. QED BY <1>1, <1>2, <2>2, <2>3, AssignedRow
<1> HIDE DEF M, A, R
<1> DEFINE left == [i \in 1 .. N |-> IF M(i) THEN A(i) ELSE rows[i]]
<1>4. left \in Seq(R) /\ Len(left) = N
  <2>1. \A i \in 1 .. N : left[i] \in R
    BY <1>1, <1>3
  <2> HIDE DEF rows, N
  <2>2. left \in [1 .. N -> R]
    BY <2>1
  <2>3. QED BY <1>1, <2>2
<1>5. QED BY <1>1, <1>4 DEF M, A, R

\* What is left of an update that a bad assignment stopped: the row it stopped
\* at has its types, the others are what they were.
LEMMA StoppedRows ==
  ASSUME TablesInv, NEW t \in DOMAIN tables, NEW f \in Lists, NEW where,
         Select(t, where) # <<>>,
         {i \in 1 .. Len(f) : Bad(tables[t].types, f[i][1], f[i][2])} # {}
  PROVE  LET rows == tables[t].rows
             types == tables[t].types
             bad == {i \in 1 .. Len(f) : Bad(types, f[i][1], f[i][2])}
             left == Stopped(rows, types, where, SubSeq(f, 1, Min(bad) - 1))
         IN  /\ left \in Seq(RowsOf(types)) /\ Len(left) = Len(rows)
             /\ \E first \in 1 .. Len(rows) : \A i \in 1 .. Len(rows) : i # first => left[i] = rows[i]
<1> DEFINE rows == tables[t].rows
           types == tables[t].types
           R == RowsOf(types)
           N == Len(rows)
           bad == {i \in 1 .. Len(f) : Bad(types, f[i][1], f[i][2])}
           good == SubSeq(f, 1, Min(bad) - 1)
           first == Min(Matching(t, where))
<1>1. rows \in Seq(R) /\ N \in Nat /\ DOMAIN rows = 1 .. N /\ types \in [DOMAIN types -> Types]
  BY TableParts
<1>2. f \in Seq(STRING \X Literals) /\ Len(f) \in Nat
  BY TablesAssumption
<1>3. first \in 1 .. N
  <2>1. Matching(t, where) \in SUBSET (1 .. N)
    BY <1>1 DEF Matching
  <2>2. Matching(t, where) # {}
    <3>1. Select(t, where) \in Seq(R) /\ Len(Select(t, where)) = Cardinality(Matching(t, where))
      BY Selected
    <3>2. Cardinality({}) = 0
      BY FS_EmptySet
    <3>3. Len(Select(t, where)) # 0
      <4> DEFINE sel == Select(t, where)
      <4>1. sel \in Seq(R) /\ sel # <<>>
        BY <3>1
      <4> HIDE DEF sel, R
      <4>2. Len(sel) # 0
        BY <4>1
      <4>3. QED BY <4>2 DEF sel
    <3>4. QED BY <3>1, <3>2, <3>3, Zenon
  <2>3. QED BY <1>1, <2>1, <2>2, MinIsIn
<1>4. Stopped(rows, types, where, good) = [rows EXCEPT ![first] = Assigned(types, rows[first], good)]
  BY DEF Stopped, Matching
<1>5. good \in Seq(STRING \X Literals) /\ \A i \in 1 .. Len(good) : ~Bad(types, good[i][1], good[i][2])
  <2> DEFINE m == Min(bad)
  <2>1. bad \in SUBSET Nat /\ bad # {}
    BY <1>2
  <2>2. m \in bad /\ \A i \in bad : m <= i
    BY <2>1, MinIsIn
  <2>3. m \in 1 .. Len(f)
    BY <2>2
  <2> HIDE DEF m
  <2>4. \A i \in 1 .. m - 1 : f[i] \in STRING \X Literals
    BY <1>2, <2>3
  <2>5. /\ SubSeq(f, 1, m - 1) \in Seq(STRING \X Literals)
        /\ Len(SubSeq(f, 1, m - 1)) = IF 1 <= m - 1 THEN m - 1 - 1 + 1 ELSE 0
        /\ \A i \in 1 .. m - 1 - 1 + 1 : SubSeq(f, 1, m - 1)[i] = f[1 + i - 1]
    BY <2>3, <2>4, SubSeqProperties
  <2> DEFINE g == SubSeq(f, 1, m - 1)
  <2> HIDE DEF g
  <2>6. Len(g) = m - 1 /\ \A i \in 1 .. m - 1 : g[i] = f[i]
    BY <2>3, <2>5 DEF g
  <2>7. ASSUME NEW i \in 1 .. Len(g) PROVE ~Bad(types, g[i][1], g[i][2])
    <3>1. i \in 1 .. Len(f) /\ ~(m <= i) /\ g[i] = f[i]
      BY <1>2, <2>3, <2>6
    <3>2. i \notin bad
      BY <2>2, <3>1
    <3>3. QED BY <3>1, <3>2
  <2>8. QED BY <2>5, <2>7 DEF g, m
<1> DEFINE new == Assigned(types, rows[first], good)
<1>6. new \in R
  <2>1. rows[first] \in R
    BY <1>1, <1>3
  <2> HIDE DEF good, rows, types, N, first
  <2>2. QED BY <1>1, <1>5, <2>1, AssignedRow
<1> HIDE DEF new, R, first
<1> DEFINE left == [rows EXCEPT ![first] = new]
<1>7. left \in Seq(R) /\ Len(left) = N /\ \A i \in 1 .. N : i # first => left[i] = rows[i]
  <2> HIDE DEF rows
  <2>1. QED BY <1>1, <1>3, <1>6
<1>8. QED BY <1>3, <1>4, <1>7 DEF new, R

LEMMA CreateTableStep ==
  ASSUME TablesInv, NEW t \in Names, NEW layout \in Layouts, CreateTable(t, layout)
  PROVE  TablesInv'
<1>1. CASE t # NoName /\ t \notin DOMAIN tables /\ IndexByName(layout) # {}
  <2>1. layout \in Seq(Columns \X Types)
    BY TablesAssumption
  <2> DEFINE index == [c \in {l[1] : l \in ToSet(layout)} |-> CHOOSE i \in DOMAIN layout : layout[i][1] = c]
             new(x) == [types |-> [c \in DOMAIN x |-> layout[x[c]][2]], rows |-> <<>>]
             x == new(index)
  <2>2. IndexByName(layout) = {index}
    BY <1>1 DEF IndexByName
  <2>3. tables' = [u \in DOMAIN tables \cup {t} |-> IF u = t THEN x ELSE tables[u]] /\ answer' = "ok" /\ affected' = 0
    <3> HIDE DEF index, new
    <3>1. \E i \in IndexByName(layout) : tables' = [u \in DOMAIN tables \cup {t} |-> IF u = t THEN new(i) ELSE tables[u]]
      BY <1>1 DEF CreateTable, new
    <3>2. Done(0)
      BY <1>1 DEF CreateTable
    <3>3. QED BY <2>2, <3>1, <3>2 DEF Done
  <2>4. IsTable(x)
    <3>1. \A c \in DOMAIN index : index[c] \in 1 .. Len(layout) /\ layout[index[c]][1] = c
      BY <2>1 DEF ToSet
    <3>2. \A c \in DOMAIN index : c \in Columns /\ layout[index[c]][2] \in Types
      <4>1. TAKE c \in DOMAIN index
      <4>2. index[c] \in 1 .. Len(layout) /\ layout[index[c]][1] = c
        BY <3>1
      <4> HIDE DEF index
      <4>3. layout[index[c]] \in Columns \X Types
        BY <2>1, <4>2
      <4>4. QED BY <4>2, <4>3
    <3> HIDE DEF index
    <3> DEFINE types == [c \in DOMAIN index |-> layout[index[c]][2]]
    <3>3. types \in [DOMAIN types -> Types] /\ DOMAIN types \subseteq Columns
      BY <3>2
    <3> HIDE DEF types
    <3>4. x = [types |-> types, rows |-> <<>>]
      BY DEF types
    <3>5. x.types = types /\ x.rows = <<>> /\ x = [types |-> x.types, rows |-> x.rows]
      BY <3>4
    <3> HIDE DEF x
    <3>6. x.rows \in Seq(RowsOf(x.types)) /\ Len(x.rows) <= MaxRows
      BY <3>5, TablesAssumption
    <3>7. QED BY <3>3, <3>5, <3>6 DEF IsTable
  <2> HIDE DEF x
  <2>5. /\ DOMAIN tables' = DOMAIN tables \cup {t}
        /\ tables' = [u \in DOMAIN tables' |-> tables'[u]]
        /\ tables'[t] = x /\ \A u \in DOMAIN tables : tables'[u] = tables[u]
    BY <1>1, <2>3
  <2>6. DOMAIN tables \subseteq Names \ {NoName} /\ \A u \in DOMAIN tables : IsTable(tables[u])
    BY DEF TablesInv
  <2>7. DOMAIN tables' \subseteq Names \ {NoName} /\ \A u \in DOMAIN tables' : IsTable(tables'[u])
    BY <1>1, <2>4, <2>5, <2>6
  <2>8. affected' \in 0 .. MaxRows /\ answer' \in {"none", "ok", "error"}
    BY <2>3, TablesAssumption
  <2>9. QED BY <2>5, <2>7, <2>8 DEF TablesInv
<1>2. CASE ~(t # NoName /\ t \notin DOMAIN tables /\ IndexByName(layout) # {})
  <2>1. UNCHANGED tables /\ answer' = "error" /\ affected' = 0
    BY <1>2, Zenon DEF CreateTable, Thrown
  <2>2. affected' \in 0 .. MaxRows
    BY <2>1, TablesAssumption
  <2>3. QED BY <2>1, <2>2 DEF TablesInv
<1>3. QED BY <1>1, <1>2

\* Every step but a new table puts other rows into one table, of its types, or
\* leaves the tables alone.
LEMMA RowsOnly ==
  ASSUME TablesInv,
         tables' = tables \/ \E t \in DOMAIN tables : \E rows \in Seq(RowsOf(tables[t].types)) :
                               Len(rows) <= MaxRows /\ tables' = Rows(t, rows),
         affected' \in 0 .. MaxRows, answer' \in {"none", "ok", "error"}
  PROVE  TablesInv'
<1>1. CASE tables' = tables
  BY <1>1, Zenon DEF TablesInv
<1>2. CASE \E t \in DOMAIN tables : \E rows \in Seq(RowsOf(tables[t].types)) :
                               Len(rows) <= MaxRows /\ tables' = Rows(t, rows)
  <2>1. PICK t \in DOMAIN tables : \E rows \in Seq(RowsOf(tables[t].types)) :
                               Len(rows) <= MaxRows /\ tables' = Rows(t, rows)
    BY <1>2
  <2>2. PICK rows \in Seq(RowsOf(tables[t].types)) : Len(rows) <= MaxRows /\ tables' = Rows(t, rows)
    BY <2>1
  <2>3. /\ tables' = [u \in DOMAIN tables' |-> tables'[u]] /\ DOMAIN tables' = DOMAIN tables
        /\ \A u \in DOMAIN tables' : IsTable(tables'[u])
    BY <2>2, RowsReplaced
  <2>4. DOMAIN tables' \subseteq Names \ {NoName}
    BY <2>3 DEF TablesInv
  <2>5. QED BY <2>3, <2>4 DEF TablesInv
<1>3. QED BY <1>1, <1>2

LEMMA InsertStep ==
  ASSUME TablesInv, NEW t \in DOMAIN tables, NEW f \in Lists, Insert(t, f)
  PROVE  TablesInv'
<1> DEFINE types == tables[t].types
           rows == tables[t].rows
           Fits == /\ \A i \in 1 .. Len(f) : ~Bad(types, f[i][1], f[i][2])
                   /\ {g[1] : g \in ToSet(f)} = DOMAIN types
<1>1. CASE Fits
  <2>1. tables' = Rows(t, Append(rows, Assigned(types, <<>>, f))) /\ Done(1) /\ Len(rows) < MaxRows
    BY <1>1 DEF Insert
  <2>2. f \in Seq(STRING \X Literals) /\ DOMAIN f = 1 .. Len(f)
    BY TablesAssumption
  <2>3. DOMAIN types \subseteq {f[i][1] : i \in 1 .. Len(f)}
    BY <1>1, <2>2 DEF ToSet
  <2>4. /\ types \in [DOMAIN types -> Types] /\ rows \in Seq(RowsOf(types))
        /\ Len(rows) \in Nat
    BY TableParts
  <2>5. Assigned(types, <<>>, f) \in RowsOf(types)
    <3>1. \A i \in 1 .. Len(f) : ~Bad(types, f[i][1], f[i][2])
      BY <1>1
    <3> HIDE DEF types
    <3>2. QED BY <2>2, <2>3, <2>4, <3>1, AssignedRow
  <2> HIDE DEF rows
  <2> DEFINE new == Append(rows, Assigned(types, <<>>, f))
  <2>6. new \in Seq(RowsOf(types)) /\ Len(new) = Len(rows) + 1
    BY <2>4, <2>5
  <2>7. Len(new) <= MaxRows /\ affected' \in 0 .. MaxRows /\ answer' \in {"none", "ok", "error"}
    BY <2>1, <2>4, <2>6, TablesAssumption DEF Done
  <2> HIDE DEF new
  <2>8. tables' = Rows(t, new)
    BY <2>1 DEF new
  <2>9. QED BY <2>6, <2>7, <2>8, RowsOnly
<1>2. CASE ~Fits
  <2>1. UNCHANGED tables /\ answer' = "error" /\ affected' = 0
    BY <1>2, Zenon DEF Insert, Thrown
  <2>2. QED BY <2>1, RowsOnly, TablesAssumption
<1>3. QED BY <1>1, <1>2

LEMMA DeleteStep ==
  ASSUME TablesInv, NEW t \in DOMAIN tables, NEW where, Delete(t, where)
  PROVE  TablesInv'
<1> DEFINE rows == tables[t].rows
           rest == Only(rows, DOMAIN rows \ Matching(t, where))
<1>1. CASE Throws(t, where)
  <2>1. UNCHANGED tables /\ answer' = "error" /\ affected' = 0
    BY <1>1, Zenon DEF Delete, Thrown
  <2>2. QED BY <2>1, RowsOnly, TablesAssumption
<1>2. CASE ~Throws(t, where)
  <2>1. tables' = Rows(t, rest) /\ answer' = "ok" /\ affected' = Len(rows) - Len(rest)
    BY <1>2, Zenon DEF Delete, Done
  <2>2. /\ rest \in Seq(RowsOf(tables[t].types)) /\ Len(rest) = Len(rows) - Len(Select(t, where))
        /\ Len(Select(t, where)) \in 0 .. Len(rows)
    BY Selected
  <2>3. Len(rows) \in Nat /\ Len(rows) <= MaxRows
    BY TableParts
  <2> HIDE DEF rows, rest
  <2>4. Len(rest) <= MaxRows /\ affected' \in 0 .. MaxRows
    BY <2>1, <2>2, <2>3, TablesAssumption
  <2>5. QED BY <2>1, <2>2, <2>4, RowsOnly
<1>3. QED BY <1>1, <1>2

LEMMA UpdateStep ==
  ASSUME TablesInv, NEW t \in DOMAIN tables, NEW f \in Lists, NEW where, Update(t, f, where)
  PROVE  TablesInv'
<1> DEFINE rows == tables[t].rows
           types == tables[t].types
           bad == {i \in 1 .. Len(f) : Bad(types, f[i][1], f[i][2])}
           left == [i \in DOMAIN rows |-> IF Matches(types, rows[i], where) THEN Assigned(types, rows[i], f) ELSE rows[i]]
           stopped == Stopped(rows, types, where, SubSeq(f, 1, Min(bad) - 1))
<1>1. Len(rows) \in Nat /\ Len(rows) <= MaxRows /\ Len(Select(t, where)) \in 0 .. Len(rows)
  BY TableParts, Selected
<1>2. CASE Throws(t, where)
  <2>1. UNCHANGED tables /\ answer' = "error" /\ affected' = 0
    BY <1>2, Zenon DEF Update, Thrown
  <2>2. QED BY <2>1, RowsOnly, TablesAssumption
<1>3. CASE ~Throws(t, where) /\ (bad = {} \/ Select(t, where) = <<>>)
  <2>1. tables' = Rows(t, left) /\ answer' = "ok" /\ affected' = Len(Select(t, where))
    BY <1>3, Zenon DEF Update, Done
  <2>2. left \in Seq(RowsOf(types)) /\ Len(left) = Len(rows)
    BY <1>3, UpdatedRows
  <2> HIDE DEF rows, left
  <2>3. Len(left) <= MaxRows /\ affected' \in 0 .. MaxRows
    BY <1>1, <2>1, <2>2, TablesAssumption
  <2>4. QED BY <2>1, <2>2, <2>3, RowsOnly
<1>4. CASE ~Throws(t, where) /\ ~(bad = {} \/ Select(t, where) = <<>>)
  <2>1. tables' = Rows(t, stopped) /\ answer' = "error" /\ affected' = 0
    BY <1>4, Zenon DEF Update, Thrown
  <2>2. stopped \in Seq(RowsOf(types)) /\ Len(stopped) = Len(rows)
    BY <1>4, StoppedRows
  <2> HIDE DEF rows, stopped
  <2>3. Len(stopped) <= MaxRows /\ affected' \in 0 .. MaxRows
    BY <1>1, <2>1, <2>2, TablesAssumption
  <2>4. QED BY <2>1, <2>2, <2>3, RowsOnly
<1>5. QED BY <1>2, <1>3, <1>4

LEMMA TablesInvariance == TablesSpec => []TablesInv
<1>1. TablesInit => TablesInv
  <2>1. DOMAIN <<>> = {} /\ <<>> = [t \in {} |-> <<>>[t]]
    OBVIOUS
  <2>2. QED BY <2>1, TablesAssumption DEF TablesInit, TablesInv
<1>2. TablesInv /\ [TablesNext]_tablesVars => TablesInv'
  <2>1. SUFFICES ASSUME TablesInv, [TablesNext]_tablesVars PROVE TablesInv'
    OBVIOUS
  <2>2. CASE UNCHANGED tablesVars
    BY <2>1, <2>2, Zenon DEF tablesVars, TablesInv
  <2>3. CASE TablesNext
    <3>1. PICK t \in Names :
          \/ \E l \in Layouts : CreateTable(t, l)
          \/ NoTable(t)
          \/ /\ t \in DOMAIN tables
             /\ \/ \E f \in Lists : Insert(t, f) \/ \E w \in Wheres : Update(t, f, w)
                \/ \E w \in Wheres : Delete(t, w)
      BY <2>3 DEF TablesNext
    <3>2. CASE NoTable(t)
      <4>1. UNCHANGED tables /\ answer' = "error" /\ affected' = 0
        BY <3>2 DEF NoTable, Thrown
      <4>2. QED BY <2>1, <4>1, RowsOnly, TablesAssumption
    <3>3. QED BY <2>1, <3>1, <3>2, CreateTableStep, InsertStep, UpdateStep, DeleteStep
  <2>4. QED BY <2>1, <2>2, <2>3
<1>3. QED BY <1>1, <1>2, PTL DEF TablesSpec

-----------------------------------------------------------------------------
(* The theorems.                                                           *)

\* Every cell has the type of its column, whole if that is int, after every
\* statement, also one that threw half way.
THEOREM CellsKeepTheirTypes == TablesSpec => []TablesTypeOK
<1>1. ASSUME TablesInv PROVE TablesTypeOK
  <2>1. ASSUME NEW t \in DOMAIN tables
        PROVE  /\ t \in Names \ {NoName}
               /\ \A i \in DOMAIN tables[t].rows :
                    /\ DOMAIN tables[t].rows[i] = DOMAIN tables[t].types
                    /\ \A c \in DOMAIN tables[t].types :
                         /\ tables[t].rows[i][c] \in TableValues
                         /\ tables[t].rows[i][c].type = tables[t].types[c]
    <3>1. t \in Names \ {NoName}
      BY <1>1 DEF TablesInv
    <3>2. \A i \in DOMAIN tables[t].rows : tables[t].rows[i] \in RowsOf(tables[t].types)
      BY <1>1, TableParts
    <3>3. QED BY <3>1, <3>2 DEF RowsOf
  <2>2. affected \in 0 .. MaxRows /\ answer \in {"none", "ok", "error"}
    BY <1>1 DEF TablesInv
  <2>3. QED BY <2>1, <2>2 DEF TablesTypeOK
<1>2. QED BY <1>1, TablesInvariance, PTL

\* A predicate on a column that has room for its literal selects by the numbers
\* themselves, however many rows were put in and changed before.
THEOREM PredicatesCompareNumbers == TablesSpec => []ComparesNumbers
<1>1. ASSUME TablesInv PROVE ComparesNumbers
  <2>1. SUFFICES ASSUME NEW t \in DOMAIN tables, NEW c \in Columns, NEW op \in Ops, NEW v \in Literals,
                        ~Bad(tables[t].types, c, v), tables[t].types[c] = "int" => v.num % 2 = 0,
                        NEW i \in DOMAIN tables[t].rows
                 PROVE  Matches(tables[t].types, tables[t].rows[i], {[column |-> c, op |-> op, value |-> v]})
                          <=> Compare(tables[t].rows[i][c].num, op, v.num)
    BY DEF ComparesNumbers
  <2> DEFINE types == tables[t].types
             row == tables[t].rows[i]
             a == row[c].num
             b == v.num
             w == [column |-> c, op |-> op, value |-> v]
  <2>2. /\ types \in [DOMAIN types -> Types] /\ c \in DOMAIN types /\ types[c] \in Types
        /\ row \in RowsOf(types) /\ v \in TableValues
    <3>1. c \in DOMAIN types
      BY <2>1 DEF Bad
    <3>2. types \in [DOMAIN types -> Types] /\ row \in RowsOf(types)
      BY <1>1, TableParts
    <3>3. v \in TableValues
      BY TablesAssumption
    <3> HIDE DEF types, row
    <3>4. QED BY <3>1, <3>2, <3>3
  <2>3. Typed(types[c], v) # {} /\ (types[c] = "int" => v.num % 2 = 0)
    BY <2>1 DEF Bad
  <2> HIDE DEF types, row
  <2>4. \A x \in Typed(types[c], v) : x.num = b
    BY <2>2, <2>3, TypedValue
  <2>5. a \in Int /\ b \in Int
    BY <2>2 DEF RowsOf, TableValues
  <2>6. Matches(types, row, {w}) <=> \E x \in Typed(types[c], v) : Holds(a, op, x.num)
    <3>1. w.column = c /\ w.op = op /\ w.value = v
      OBVIOUS
    <3> HIDE DEF w
    <3>2. Matches(types, row, {w}) <=> \E x \in Typed(types[w.column], w.value) : Holds(row[w.column].num, w.op, x.num)
      BY DEF Matches
    <3>3. QED BY <3>1, <3>2
  <2>7. Matches(types, row, {w}) <=> Holds(a, op, b)
    BY <2>3, <2>4, <2>6
  <2> HIDE DEF a, b
  <2>8. Holds(a, op, b) <=> Compare(a, op, b)
    <3>1. op \in {"==", "!=", "<", "<=", ">", ">="}
      BY DEF Ops
    <3>2. CASE op = "=="
      BY <2>5, <3>2 DEF Holds, Compare
    <3>3. CASE op = "!="
      BY <2>5, <3>3 DEF Holds, Compare
    <3>4. CASE op = "<"
      BY <2>5, <3>4 DEF Holds, Compare
    <3>5. CASE op = "<="
      BY <2>5, <3>5 DEF Holds, Compare
    <3>6. CASE op = ">"
      BY <2>5, <3>6 DEF Holds, Compare
    <3>7. CASE op = ">="
      BY <2>5, <3>7 DEF Holds, Compare
    <3>8. QED BY <3>1, <3>2, <3>3, <3>4, <3>5, <3>6, <3>7
  <2>9. QED BY <2>7, <2>8 DEF a, b, w, row, types
<1>2. QED BY <1>1, TablesInvariance, PTL

\* A statement that throws has changed one row at most, of whatever many rows
\* and assignments, and has neither added nor taken away a row or a table.
LEMMA ThrownStep ==
  ASSUME TablesInv, TablesNext, answer' = "error"
  PROVE  /\ DOMAIN tables' = DOMAIN tables
         /\ Cardinality({p \in Names \X (1 .. MaxRows) :
                           /\ p[1] \in DOMAIN tables /\ p[2] \in DOMAIN tables[p[1]].rows
                           /\ tables'[p[1]].rows[p[2]] # tables[p[1]].rows[p[2]]}) <= 1
         /\ \A t \in DOMAIN tables : Len(tables'[t].rows) = Len(tables[t].rows)
<1> DEFINE P == {p \in Names \X (1 .. MaxRows) :
                   /\ p[1] \in DOMAIN tables /\ p[2] \in DOMAIN tables[p[1]].rows
                   /\ tables'[p[1]].rows[p[2]] # tables[p[1]].rows[p[2]]}
<1>1. CASE tables' = tables
  <2>1. P = {}
    BY <1>1
  <2>2. Cardinality(P) <= 1
    BY <2>1, FS_EmptySet
  <2>3. QED BY <1>1, <2>2
<1>2. CASE tables' # tables
  <2>1. PICK t \in Names :
          \/ \E l \in Layouts : CreateTable(t, l)
          \/ NoTable(t)
          \/ /\ t \in DOMAIN tables
             /\ \/ \E f \in Lists : Insert(t, f) \/ \E w \in Wheres : Update(t, f, w)
                \/ \E w \in Wheres : Delete(t, w)
    BY DEF TablesNext
  <2>2. "error" # "ok"
    OBVIOUS
  <2>3. \A l \in Layouts : ~CreateTable(t, l)
    BY <1>2, <2>2 DEF CreateTable, Done, Thrown
  <2>4. ~NoTable(t)
    BY <1>2 DEF NoTable
  <2>5. t \in DOMAIN tables
    BY <2>1, <2>3, <2>4
  <2>6. \A f \in Lists : ~Insert(t, f)
    BY <1>2, <2>2, Zenon DEF Insert, Done, Thrown
  <2>7. \A w \in Wheres : ~Delete(t, w)
    BY <1>2, <2>2, Zenon DEF Delete, Done, Thrown
  <2>8. PICK f \in Lists, w \in Wheres : Update(t, f, w)
    BY <2>1, <2>3, <2>4, <2>6, <2>7
  <2> DEFINE rows == tables[t].rows
             types == tables[t].types
             bad == {i \in 1 .. Len(f) : Bad(types, f[i][1], f[i][2])}
             left == Stopped(rows, types, w, SubSeq(f, 1, Min(bad) - 1))
  <2>9. tables' = Rows(t, left) /\ bad # {} /\ Select(t, w) # <<>>
    BY <1>2, <2>2, <2>8, Zenon DEF Update, Done, Thrown
  <2>10. /\ left \in Seq(RowsOf(types)) /\ Len(left) = Len(rows)
         /\ \E first \in 1 .. Len(rows) : \A i \in 1 .. Len(rows) : i # first => left[i] = rows[i]
    BY <2>5, <2>9, StoppedRows
  <2>11. PICK first \in 1 .. Len(rows) : \A i \in 1 .. Len(rows) : i # first => left[i] = rows[i]
    BY <2>10
  <2>12. DOMAIN rows = 1 .. Len(rows) /\ Len(rows) <= MaxRows
    BY <2>5, TableParts
  <2> HIDE DEF left
  <2>13. /\ DOMAIN tables' = DOMAIN tables /\ tables'[t].rows = left
         /\ \A u \in DOMAIN tables : u # t => tables'[u] = tables[u]
    <3>1. Len(left) <= MaxRows
      BY <2>10, <2>12
    <3>2. QED BY <2>5, <2>9, <2>10, <3>1, RowsReplaced
  <2>14. P \subseteq {<<t, first>>}
    <3>1. SUFFICES ASSUME NEW p \in P PROVE p = <<t, first>>
      OBVIOUS
    <3>2. p = <<p[1], p[2]>> /\ p[1] \in DOMAIN tables /\ p[2] \in DOMAIN tables[p[1]].rows
      OBVIOUS
    <3>3. tables'[p[1]].rows[p[2]] # tables[p[1]].rows[p[2]]
      OBVIOUS
    <3>4. p[1] = t
      BY <2>13, <3>2, <3>3
    <3>5. p[2] = first
      BY <2>11, <2>12, <2>13, <3>2, <3>3, <3>4
    <3>6. QED BY <3>2, <3>4, <3>5
  <2>15. Cardinality(P) <= 1
    <3> HIDE DEF P
    <3>1. IsFiniteSet({<<t, first>>}) /\ Cardinality({<<t, first>>}) = 1
      BY FS_Singleton
    <3>2. Cardinality(P) <= Cardinality({<<t, first>>})
      BY <2>14, <3>1, FS_Subset
    <3>3. QED BY <3>1, <3>2
  <2>16. \A u \in DOMAIN tables : Len(tables'[u].rows) = Len(tables[u].rows)
    BY <2>10, <2>13
  <2>17. QED BY <2>13, <2>15, <2>16
<1>3. QED BY <1>1, <1>2

THEOREM ThrownStopsAtOneRow == TablesSpec => ThrownChangesOneRow
<1> DEFINE A == answer' = "error" =>
                  /\ DOMAIN tables' = DOMAIN tables
                  /\ Cardinality({p \in Names \X (1 .. MaxRows) :
                                    /\ p[1] \in DOMAIN tables /\ p[2] \in DOMAIN tables[p[1]].rows
                                    /\ tables'[p[1]].rows[p[2]] # tables[p[1]].rows[p[2]]}) <= 1
                  /\ \A t \in DOMAIN tables : Len(tables'[t].rows) = Len(tables[t].rows)
<1>1. TablesInv /\ [TablesNext]_tablesVars => [A]_tablesVars
  BY ThrownStep, Zenon
<1>2. QED BY <1>1, TablesInvariance, PTL DEF TablesSpec, ThrownChangesOneRow

\* What delete and update say they have affected is what a select would have
\* shown, and the rows it would not have shown keep their contents and order.
LEMMA DeletedRows ==
  ASSUME TablesInv, NEW t \in DOMAIN tables, NEW w, Delete(t, w), answer' = "ok"
  PROVE  /\ affected' = Len(Select(t, w)) /\ Len(tables'[t].rows) = Len(tables[t].rows) - affected'
         /\ \A i \in DOMAIN tables[t].rows : ~Matches(tables[t].types, tables[t].rows[i], w) =>
              tables'[t].rows[i - Cardinality({j \in 1 .. i : Matches(tables[t].types, tables[t].rows[j], w)})]
                = tables[t].rows[i]
<1> DEFINE rows == tables[t].rows
           rest == Only(rows, DOMAIN rows \ Matching(t, w))
<1>1. "ok" # "error"
  OBVIOUS
<1>2. tables' = Rows(t, rest) /\ affected' = Len(rows) - Len(rest)
  BY <1>1, Zenon DEF Delete, Done, Thrown
<1>3. /\ rest \in Seq(RowsOf(tables[t].types)) /\ Len(rest) = Len(rows) - Len(Select(t, w))
      /\ Len(Select(t, w)) \in 0 .. Len(rows)
  BY Selected
<1>4. Len(rows) \in Nat /\ Len(rows) <= MaxRows
  BY TableParts
<1>5. \A i \in DOMAIN rows : ~Matches(tables[t].types, rows[i], w) =>
        rest[i - Cardinality({j \in 1 .. i : Matches(tables[t].types, rows[j], w)})] = rows[i]
  BY RestMovesUp
<1> HIDE DEF rest
<1>6. Len(rest) <= MaxRows /\ affected' = Len(Select(t, w)) /\ Len(rest) = Len(rows) - affected'
  <2> HIDE DEF rows
  <2>1. MaxRows \in Nat
    BY TablesAssumption
  <2>2. QED BY <1>2, <1>3, <1>4, <2>1
<1>7. tables'[t].rows = rest
  BY <1>2, <1>3, <1>6, RowsReplaced
<1>8. QED BY <1>5, <1>6, <1>7, Zenon

LEMMA UpdatedInPlace ==
  ASSUME TablesInv, NEW t \in DOMAIN tables, NEW f \in Lists, NEW w, Update(t, f, w), answer' = "ok"
  PROVE  /\ affected' = Len(Select(t, w)) /\ Len(tables'[t].rows) = Len(tables[t].rows)
         /\ \A i \in DOMAIN tables[t].rows : ~Matches(tables[t].types, tables[t].rows[i], w) =>
              tables'[t].rows[i] = tables[t].rows[i]
<1> DEFINE rows == tables[t].rows
           types == tables[t].types
           bad == {i \in 1 .. Len(f) : Bad(types, f[i][1], f[i][2])}
           left == [i \in DOMAIN rows |-> IF Matches(types, rows[i], w) THEN Assigned(types, rows[i], f) ELSE rows[i]]
<1>1. "ok" # "error"
  OBVIOUS
<1>2. tables' = Rows(t, left) /\ affected' = Len(Select(t, w)) /\ (bad = {} \/ Select(t, w) = <<>>)
  BY <1>1, Zenon DEF Update, Done, Thrown
<1>3. left \in Seq(RowsOf(types)) /\ Len(left) = Len(rows)
  BY <1>2, UpdatedRows
<1>4. Len(rows) <= MaxRows
  BY TableParts
<1>5. \A i \in DOMAIN rows : ~Matches(types, rows[i], w) => left[i] = rows[i]
  OBVIOUS
<1> HIDE DEF left
<1>6. tables'[t].rows = left
  <2>1. Len(left) <= MaxRows
    BY <1>3, <1>4
  <2>2. QED BY <1>2, <1>3, <2>1, RowsReplaced
<1>7. QED BY <1>2, <1>3, <1>5, <1>6

THEOREM StatementsAffectWhatTheySelect == TablesSpec => AffectsWhatItSelects
<1> DEFINE A == \A t \in DOMAIN tables, w \in Wheres :
       LET rows == tables[t].rows
           left == tables'[t].rows
           gone(i) == Cardinality({j \in 1 .. i : Matches(tables[t].types, rows[j], w)})
           others  == {i \in DOMAIN rows : ~Matches(tables[t].types, rows[i], w)}
       IN  /\ Delete(t, w) /\ answer' = "ok" =>
                /\ affected' = Len(Select(t, w)) /\ Len(left) = Len(rows) - affected'
                /\ \A i \in others : left[i - gone(i)] = rows[i]
           /\ \A f \in Lists : Update(t, f, w) /\ answer' = "ok" =>
                /\ affected' = Len(Select(t, w)) /\ Len(left) = Len(rows)
                /\ \A i \in others : left[i] = rows[i]
<1>1. ASSUME TablesInv PROVE A
  <2>1. TAKE t \in DOMAIN tables, w \in Wheres
  <2>2. ASSUME Delete(t, w), answer' = "ok"
        PROVE  /\ affected' = Len(Select(t, w)) /\ Len(tables'[t].rows) = Len(tables[t].rows) - affected'
               /\ \A i \in DOMAIN tables[t].rows : ~Matches(tables[t].types, tables[t].rows[i], w) =>
                    tables'[t].rows[i - Cardinality({j \in 1 .. i : Matches(tables[t].types, tables[t].rows[j], w)})]
                      = tables[t].rows[i]
    BY <1>1, <2>2, DeletedRows
  <2>3. ASSUME NEW f \in Lists, Update(t, f, w), answer' = "ok"
        PROVE  /\ affected' = Len(Select(t, w)) /\ Len(tables'[t].rows) = Len(tables[t].rows)
               /\ \A i \in DOMAIN tables[t].rows : ~Matches(tables[t].types, tables[t].rows[i], w) =>
                    tables'[t].rows[i] = tables[t].rows[i]
    BY <1>1, <2>3, UpdatedInPlace
  <2>4. QED BY <2>2, <2>3
<1>2. TablesInv /\ [TablesNext]_tablesVars => [A]_tablesVars
  BY <1>1
<1>3. QED BY <1>2, TablesInvariance, PTL DEF TablesSpec, AffectsWhatItSelects

-----------------------------------------------------------------------------
(* Texts of statements.                                                    *)

\* Where concatenation puts what.
LEMMA Joined ==
  ASSUME NEW T, NEW s \in Seq(T), NEW t \in Seq(T), NEW c, c = s \o t
  PROVE  /\ c \in Seq(T) /\ Len(c) = Len(s) + Len(t)
         /\ \A i \in 1 .. Len(s) : i \in 1 .. Len(c) /\ c[i] = s[i]
         /\ \A k \in 1 .. Len(t) : Len(s) + k \in 1 .. Len(c) /\ c[Len(s) + k] = t[k]
<1>1. /\ c \in Seq(T) /\ Len(c) = Len(s) + Len(t)
      /\ \A i \in 1 .. Len(s) + Len(t) : c[i] = IF i <= Len(s) THEN s[i] ELSE t[i - Len(s)]
  BY ConcatProperties
<1>2. Len(s) \in Nat /\ Len(t) \in Nat
  BY LenProperties
<1>3. \A i \in 1 .. Len(s) : i \in 1 .. Len(c) /\ c[i] = s[i]
  BY <1>1, <1>2
<1>4. ASSUME NEW k \in 1 .. Len(t) PROVE Len(s) + k \in 1 .. Len(c) /\ c[Len(s) + k] = t[k]
  <2> DEFINE i == Len(s) + k
  <2>1. i \in 1 .. Len(s) + Len(t) /\ ~(i <= Len(s)) /\ i - Len(s) = k
    BY <1>2
  <2> HIDE DEF i
  <2>2. i \in 1 .. Len(c) /\ c[i] = t[k]
    BY <1>1, <2>1
  <2>3. QED BY <2>2 DEF i
<1>5. QED BY <1>1, <1>3, <1>4

\* Where FlattenSeq puts what: L(n) elements are of the first n sequences.
LEMMA FlattenPlaces ==
  ASSUME NEW T, NEW seqs \in Seq(Seq(T)), NEW L \in [0 .. Len(seqs) -> Nat],
         L[0] = 0, \A n \in 1 .. Len(seqs) : L[n] = L[n - 1] + Len(seqs[n])
  PROVE  /\ FlattenSeq(seqs) \in Seq(T) /\ Len(FlattenSeq(seqs)) = L[Len(seqs)]
         /\ \A n \in 1 .. Len(seqs) : \A k \in 1 .. Len(seqs[n]) : FlattenSeq(seqs)[L[n - 1] + k] = seqs[n][k]
<1> DEFINE N == Len(seqs)
           Placed(s, n) == \A g \in 1 .. n : \A k \in 1 .. Len(seqs[g]) : L[g - 1] + k \in 1 .. Len(s) /\ s[L[g - 1] + k] = seqs[g][k]
<1>1. N \in Nat /\ \A n \in 1 .. N : seqs[n] \in Seq(T)
  OBVIOUS
<1>2. PICK f \in [0 .. N -> Seq(T)] : /\ f[0] = <<>> /\ \A n \in 1 .. N : f[n] = f[n - 1] \o seqs[n]
                                     /\ FlattenSeq(seqs) = f[N]
  BY FlattenBySteps
<1>3. L \in [0 .. N -> Nat] /\ L[0] = 0 /\ \A n \in 1 .. N : L[n] = L[n - 1] + Len(seqs[n])
  OBVIOUS
<1> HIDE DEF N
<1> DEFINE S == {n \in Nat : n <= N => Len(f[n]) = L[n] /\ Placed(f[n], n)}
<1>4. 0 \in S
  BY <1>2, <1>3
<1>5. ASSUME NEW n \in Nat, n \in S PROVE n + 1 \in S
  <2>1. SUFFICES ASSUME n + 1 <= N PROVE Len(f[n + 1]) = L[n + 1] /\ Placed(f[n + 1], n + 1)
    OBVIOUS
  <2> DEFINE m == n + 1
  <2>2. /\ m \in 1 .. N /\ m - 1 = n /\ n \in 0 .. N /\ Len(f[n]) = L[n] /\ Placed(f[n], n)
        /\ \A i : i \in 1 .. m <=> i \in 1 .. n \/ i = m
    BY <1>1, <1>5, <2>1, SMTT(60)
  <2> HIDE DEF S, Placed, m
  <2>3. f[m] = f[n] \o seqs[m] /\ f[n] \in Seq(T) /\ seqs[m] \in Seq(T) /\ L[m] = L[n] + Len(seqs[m])
    BY <1>1, <1>2, <1>3, <2>2
  <2>4. /\ Len(f[m]) = Len(f[n]) + Len(seqs[m])
        /\ \A i \in 1 .. Len(f[n]) : i \in 1 .. Len(f[m]) /\ f[m][i] = f[n][i]
        /\ \A k \in 1 .. Len(seqs[m]) : Len(f[n]) + k \in 1 .. Len(f[m]) /\ f[m][Len(f[n]) + k] = seqs[m][k]
    <3> DEFINE u == f[n]
               v == seqs[m]
    <3>1. u \in Seq(T) /\ v \in Seq(T) /\ f[m] = u \o v
      BY <2>3
    <3> HIDE DEF u, v
    <3>2. /\ Len(f[m]) = Len(u) + Len(v)
          /\ \A i \in 1 .. Len(u) : i \in 1 .. Len(f[m]) /\ f[m][i] = u[i]
          /\ \A k \in 1 .. Len(v) : Len(u) + k \in 1 .. Len(f[m]) /\ f[m][Len(u) + k] = v[k]
      BY <3>1, Joined
    <3>3. QED BY <3>2, Zenon DEF u, v
  <2>5. \A k \in 1 .. Len(seqs[m]) : L[m - 1] + k \in 1 .. Len(f[m]) /\ f[m][L[m - 1] + k] = seqs[m][k]
    BY <2>2, <2>4
  <2>6. \A g \in 1 .. n : \A k \in 1 .. Len(seqs[g]) : L[g - 1] + k \in 1 .. Len(f[m]) /\ f[m][L[g - 1] + k] = seqs[g][k]
    BY <2>2, <2>4 DEF Placed
  <2>7. Len(f[m]) = L[m] /\ Placed(f[m], m)
    BY <2>2, <2>3, <2>4, <2>5, <2>6 DEF Placed
  <2>8. QED BY <2>7 DEF m
<1> HIDE DEF S, Placed
<1>6. \A n \in Nat : n \in S
  BY <1>4, <1>5, NatInductiveOn
<1>7. Len(f[N]) = L[N] /\ Placed(f[N], N) /\ f[N] \in Seq(T)
  BY <1>1, <1>2, <1>6 DEF S
<1>8. QED BY <1>2, <1>7 DEF Placed, N

\* What a token can be of, the signs of the language among them.
Signs  == {"{", "}", ",", ":", "=", ";", "where", "set", "insert", "update", "select", "delete", "table", "x",
           "true", "false"}
TokenIs == STRING \cup Names \cup Columns \cup Literals \cup Signs \cup Ops \cup Types \cup DOMAIN tables
           \cup {w.column : w \in UNION Wheres}
Tokens == [kind : {"word", "mark", "op", "literal"}, is : TokenIs, tight : BOOLEAN]

\* Fields, separated by commas, from the fourth token on.
FieldsAt(toks, fields, mark) ==
  /\ \A g \in 1 .. Len(fields) : /\ toks[4 * g] = Word(fields[g][1])
                                 /\ toks[4 * g + 1] = Mark(mark)
                                 /\ toks[4 * g + 2] = Literal(fields[g][2])
  /\ \A g \in 1 .. Len(fields) : g # 1 => toks[4 * g - 1] = Mark(",")

Fields == Seq(STRING \X Literals)

LEMMA TokensTyped ==
  /\ \A i \in TokenIs : Word(i) \in Tokens /\ Mark(i) \in Tokens /\ Literal(i) \in Tokens
  /\ \A op \in Ops, tight \in BOOLEAN : [Token("op", op) EXCEPT !.tight = tight] \in Tokens
<1>1. /\ \A i \in TokenIs : Word(i) \in Tokens /\ Mark(i) \in Tokens /\ Token("literal", i) \in Tokens
      /\ \A op \in Ops, tight \in BOOLEAN : [Token("op", op) EXCEPT !.tight = tight] \in Tokens
  BY DEF Tokens, TokenIs, Word, Mark, Token
<1>2. "true" \in TokenIs /\ "false" \in TokenIs
  BY DEF TokenIs, Signs
<1>3. \A i \in TokenIs : Literal(i) \in Tokens
  BY <1>1, <1>2, Zenon DEF Literal
<1>4. QED BY <1>1, <1>3

LEMMA FieldsText ==
  ASSUME NEW fields \in Fields, NEW mark \in Signs
  PROVE  LET text == TextOfList(fields, mark)
         IN  /\ text \in Seq(Tokens)
             /\ Len(text) = IF Len(fields) = 0 THEN 0 ELSE 4 * Len(fields) - 1
             /\ \A g \in 1 .. Len(fields) : /\ text[4 * g - 3] = Word(fields[g][1])
                                            /\ text[4 * g - 2] = Mark(mark)
                                            /\ text[4 * g - 1] = Literal(fields[g][2])
                                            /\ g # 1 => text[4 * g - 4] = Mark(",")
<1> DEFINE N == Len(fields)
           Field(i) == <<Word(fields[i][1]), Mark(mark), Literal(fields[i][2])>>
           Part(i)  == (IF i = 1 THEN <<>> ELSE <<Mark(",")>>) \o Field(i)
           parts    == [i \in DOMAIN fields |-> Part(i)]
           L        == [n \in 0 .. N |-> IF n = 0 THEN 0 ELSE 4 * n - 1]
           text     == FlattenSeq(parts)
<1>1. TextOfList(fields, mark) = text
  BY Zenon DEF TextOfList
<1>2. N \in Nat /\ DOMAIN fields = 1 .. N /\ \A i \in 1 .. N : fields[i][1] \in TokenIs /\ fields[i][2] \in TokenIs
  BY DEF Fields, TokenIs
<1>3. mark \in TokenIs /\ "," \in TokenIs
  BY DEF TokenIs, Signs
<1>4. \A i \in 1 .. N : Word(fields[i][1]) \in Tokens /\ Literal(fields[i][2]) \in Tokens /\ Mark(mark) \in Tokens
  BY <1>2, <1>3, TokensTyped
<1>5. Mark(",") \in Tokens
  BY <1>3, TokensTyped
<1> HIDE DEF N
<1>6. ASSUME NEW i \in 1 .. N
      PROVE  /\ Part(i) \in Seq(Tokens)
             /\ i = 1 => /\ Len(Part(i)) = 3 /\ Part(i)[1] = Word(fields[i][1]) /\ Part(i)[2] = Mark(mark)
                         /\ Part(i)[3] = Literal(fields[i][2])
             /\ i # 1 => /\ Len(Part(i)) = 4 /\ Part(i)[1] = Mark(",") /\ Part(i)[2] = Word(fields[i][1])
                         /\ Part(i)[3] = Mark(mark) /\ Part(i)[4] = Literal(fields[i][2])
  <2> DEFINE a == Word(fields[i][1])
             b == Mark(mark)
             c == Literal(fields[i][2])
             comma == Mark(",")
  <2>1. a \in Tokens /\ b \in Tokens /\ c \in Tokens /\ comma \in Tokens
    BY <1>4, <1>5
  <2>2. Part(i) = (IF i = 1 THEN <<>> ELSE <<comma>>) \o <<a, b, c>>
    OBVIOUS
  <2> HIDE DEF a, b, c, comma, Part
  <2>3. CASE i = 1
    <3>1. Part(i) = <<>> \o <<a, b, c>> /\ <<a, b, c>> \in Seq(Tokens)
      BY <2>1, <2>2, <2>3
    <3>2. Part(i) = <<a, b, c>>
      BY <3>1, ConcatEmptySeq, Zenon
    <3>3. /\ Part(i) \in Seq(Tokens) /\ Len(Part(i)) = 3
          /\ Part(i)[1] = a /\ Part(i)[2] = b /\ Part(i)[3] = c
      BY <2>1, <3>2
    <3>4. QED BY <2>3, <3>3 DEF a, b, c
  <2>4. CASE i # 1
    <3> DEFINE first == <<comma>>
               rest  == <<a, b, c>>
               whole == Part(i)
    <3>1. whole = first \o rest
      BY <2>2, <2>4
    <3>2. /\ first \in Seq(Tokens) /\ Len(first) = 1 /\ first[1] = comma
          /\ rest \in Seq(Tokens) /\ Len(rest) = 3 /\ rest[1] = a /\ rest[2] = b /\ rest[3] = c
      BY <2>1
    <3> HIDE DEF first, rest, whole, Field, parts, text
    <3>3. /\ whole \in Seq(Tokens) /\ Len(whole) = Len(first) + Len(rest)
          /\ \A k \in 1 .. Len(first) : whole[k] = first[k]
          /\ \A k \in 1 .. Len(rest) : whole[Len(first) + k] = rest[k]
      <4>1. first \in Seq(Tokens) /\ rest \in Seq(Tokens)
        BY <3>2
      <4>2. QED BY <3>1, <4>1, Joined
    <3>4. /\ Len(whole) = 4
          /\ whole[1] = comma /\ whole[2] = a /\ whole[3] = b /\ whole[4] = c
      BY <3>2, <3>3
    <3>5. QED BY <2>4, <3>3, <3>4 DEF a, b, c, comma, whole
  <2>5. QED BY <2>3, <2>4
<1> HIDE DEF Part
<1>7. parts \in Seq(Seq(Tokens)) /\ Len(parts) = N /\ \A i \in 1 .. N : parts[i] = Part(i)
  <2>1. parts = [i \in 1 .. N |-> Part(i)] /\ \A i \in 1 .. N : Part(i) \in Seq(Tokens)
    BY <1>2, <1>6
  <2> HIDE DEF parts
  <2>2. QED BY <1>2, <2>1
<1>8. L \in [0 .. N -> Nat] /\ L[0] = 0 /\ \A n \in 1 .. N : L[n] = 4 * n - 1 /\ L[n - 1] = IF n = 1 THEN 0 ELSE 4 * n - 5
  BY <1>2
<1> HIDE DEF parts, L
<1>9. ASSUME NEW n \in 1 .. N PROVE L[n] = L[n - 1] + Len(parts[n])
  <2> DEFINE l == Len(parts[n])
  <2>1. l = IF n = 1 THEN 3 ELSE 4
    BY <1>6, <1>7
  <2> HIDE DEF l
  <2>2. L[n] = L[n - 1] + l
    BY <1>2, <1>8, <2>1
  <2>3. QED BY <2>2 DEF l
<1>10. /\ text \in Seq(Tokens) /\ Len(text) = L[N]
       /\ \A n \in 1 .. N : \A k \in 1 .. Len(Part(n)) : text[L[n - 1] + k] = Part(n)[k]
  <2>1. L \in [0 .. Len(parts) -> Nat] /\ \A n \in 1 .. Len(parts) : L[n] = L[n - 1] + Len(parts[n])
    BY <1>7, <1>8, <1>9
  <2>2. /\ text \in Seq(Tokens) /\ Len(text) = L[Len(parts)]
        /\ \A n \in 1 .. Len(parts) : \A k \in 1 .. Len(parts[n]) : text[L[n - 1] + k] = parts[n][k]
    <3>1. parts \in Seq(Seq(Tokens)) /\ L[0] = 0
      BY <1>7, <1>8
    <3>2. QED BY <2>1, <3>1, FlattenPlaces, ZenonT(60)
  <2>3. QED BY <1>7, <2>2
<1> HIDE DEF text
<1>11. ASSUME NEW g \in 1 .. N
       PROVE  /\ text[4 * g - 3] = Word(fields[g][1]) /\ text[4 * g - 2] = Mark(mark)
              /\ text[4 * g - 1] = Literal(fields[g][2]) /\ (g # 1 => text[4 * g - 4] = Mark(","))
  <2>1. CASE g = 1
    <3>1. L[g - 1] = 0 /\ Len(Part(g)) = 3
      BY <1>6, <1>8, <2>1
    <3> DEFINE p == L[g - 1]
    <3> HIDE DEF p
    <3>2. \A k \in 1 .. 3 : text[p + k] = Part(g)[k]
      BY <1>10, <3>1 DEF p
    <3>3. p = 0
      BY <3>1 DEF p
    <3>4. text[1] = Part(g)[1] /\ text[2] = Part(g)[2] /\ text[3] = Part(g)[3]
      BY <3>2, <3>3
    <3>5. 4 * g - 3 = 1 /\ 4 * g - 2 = 2 /\ 4 * g - 1 = 3
      BY <2>1
    <3>6. QED BY <1>6, <2>1, <3>4, <3>5
  <2>2. CASE g # 1
    <3> DEFINE p == L[g - 1]
    <3>1. p = 4 * g - 5 /\ g \in Int
      BY <1>2, <1>8, <2>2
    <3> HIDE DEF p
    <3>2. text[p + 1] = Part(g)[1] /\ text[p + 2] = Part(g)[2] /\ text[p + 3] = Part(g)[3] /\ text[p + 4] = Part(g)[4]
      <4>1. \A k \in 1 .. 4 : text[p + k] = Part(g)[k]
        BY <1>6, <1>10, <2>2 DEF p
      <4>2. QED BY <4>1
    <3>3. p + 1 = 4 * g - 4 /\ p + 2 = 4 * g - 3 /\ p + 3 = 4 * g - 2 /\ p + 4 = 4 * g - 1
      BY <3>1
    <3>4. QED BY <1>6, <2>2, <3>2, <3>3
  <2>3. QED BY <2>1, <2>2
<1>12. Len(text) = IF N = 0 THEN 0 ELSE 4 * N - 1
  BY <1>2, <1>8, <1>10
<1>13. QED BY <1>1, <1>10, <1>11, <1>12 DEF N


\* The fields of a text are where its list is.
LEMMA ListPlaced ==
  ASSUME NEW fields \in Fields, NEW mark \in Signs, NEW text,
         \A k \in 1 .. Len(TextOfList(fields, mark)) : text[3 + k] = TextOfList(fields, mark)[k]
  PROVE  FieldsAt(text, fields, mark)
<1> DEFINE N == Len(fields)
           list == TextOfList(fields, mark)
<1>1. /\ Len(list) = IF N = 0 THEN 0 ELSE 4 * N - 1
      /\ \A g \in 1 .. N : /\ list[4 * g - 3] = Word(fields[g][1]) /\ list[4 * g - 2] = Mark(mark)
                           /\ list[4 * g - 1] = Literal(fields[g][2])
                           /\ g # 1 => list[4 * g - 4] = Mark(",")
  BY FieldsText, Zenon
<1>2. N \in Nat
  BY DEF Fields
<1>3. \A k \in 1 .. Len(list) : text[3 + k] = list[k]
  OBVIOUS
<1> HIDE DEF N, list
<1>4. ASSUME NEW g \in 1 .. N
      PROVE  /\ text[4 * g] = Word(fields[g][1]) /\ text[4 * g + 1] = Mark(mark)
             /\ text[4 * g + 2] = Literal(fields[g][2]) /\ (g # 1 => text[4 * g - 1] = Mark(","))
  <2> DEFINE i == 4 * g - 3
             j == 4 * g - 2
             k == 4 * g - 1
             l == 4 * g - 4
  <2>1. i \in 1 .. Len(list) /\ j \in 1 .. Len(list) /\ k \in 1 .. Len(list) /\ (g # 1 => l \in 1 .. Len(list))
    <3>1. Len(list) = IF N = 0 THEN 0 ELSE 4 * N - 1
      BY <1>1
    <3> DEFINE len == Len(list)
    <3>2. len = 4 * N - 1
      BY <1>2, <3>1
    <3> HIDE DEF len
    <3>3. i \in 1 .. len /\ j \in 1 .. len /\ k \in 1 .. len /\ (g # 1 => l \in 1 .. len)
      BY <1>2, <3>2
    <3>4. QED BY <3>3 DEF len
  <2>2. 3 + i = 4 * g /\ 3 + j = 4 * g + 1 /\ 3 + k = 4 * g + 2 /\ 3 + l = 4 * g - 1
    BY <1>2
  <2>3. /\ list[i] = Word(fields[g][1]) /\ list[j] = Mark(mark) /\ list[k] = Literal(fields[g][2])
        /\ g # 1 => list[l] = Mark(",")
    BY <1>1
  <2> HIDE DEF i, j, k, l
  <2>4. text[3 + i] = list[i] /\ text[3 + j] = list[j] /\ text[3 + k] = list[k] /\ (g # 1 => text[3 + l] = list[l])
    BY <1>3, <2>1
  <2>5. QED BY <2>2, <2>3, <2>4
<1>5. QED BY <1>4 DEF FieldsAt, N

\* A condition from token i on, and nothing after it.
WhereAt(toks, i, where, tight) ==
  \/ where = {} /\ Len(toks) = i - 1
  \/ \E w \in where : /\ where = {w} /\ Len(toks) = i + 3
                      /\ toks[i] = Word("where") /\ toks[i + 1] = Word(w.column)
                      /\ toks[i + 2] = [Token("op", w.op) EXCEPT !.tight = tight]
                      /\ toks[i + 3] = Literal(w.value)

\* It is at the end of a text that begins with s.
LEMMA WhereText ==
  ASSUME NEW s \in Seq(Tokens), NEW where \in Wheres, NEW tight \in BOOLEAN,
         NEW text, text = s \o TextOfWhere(where, tight)
  PROVE  /\ text \in Seq(Tokens) /\ WhereAt(text, Len(s) + 1, where, tight)
         /\ Len(text) >= Len(s) /\ \A i \in 1 .. Len(s) : text[i] = s[i]
<1>1. Len(s) \in Nat
  BY LenProperties
<1>2. CASE where = {}
  <2>1. text = s \o <<>>
    BY <1>2, Zenon DEF TextOfWhere
  <2>2. text = s
    BY <2>1, ConcatEmptySeq, Zenon
  <2> DEFINE n == Len(s) + 1
  <2>3. Len(text) = n - 1
    BY <1>1, <2>2
  <2>4. WhereAt(text, n, where, tight)
    <3> HIDE DEF n
    <3>1. QED BY <1>2, <2>3, Zenon DEF WhereAt
  <2> HIDE DEF n
  <2>5. QED BY <1>1, <2>2, <2>4 DEF n
<1>3. CASE where # {}
  <2> DEFINE w == CHOOSE w \in where : TRUE
             a == Word("where")
             b == Word(w.column)
             c == [Token("op", w.op) EXCEPT !.tight = tight]
             d == Literal(w.value)
             rest == <<a, b, c, d>>
  <2>1. w \in where
    BY <1>3, Zenon
  <2>2. text = s \o rest
    BY <1>3, Zenon DEF TextOfWhere
  <2> HIDE DEF w
  <2>3. where = {w} /\ w \in UNION Wheres /\ w.op \in Ops /\ w.value \in Literals
    BY <2>1, TablesAssumption
  <2>4. a \in Tokens /\ b \in Tokens /\ c \in Tokens /\ d \in Tokens
    <3>1. "where" \in TokenIs /\ w.column \in TokenIs /\ w.value \in TokenIs
      BY <2>3 DEF TokenIs, Signs
    <3>2. QED BY <2>3, <3>1, TokensTyped
  <2> HIDE DEF a, b, c, d
  <2>5. rest \in Seq(Tokens) /\ Len(rest) = 4 /\ rest[1] = a /\ rest[2] = b /\ rest[3] = c /\ rest[4] = d
    BY <2>4
  <2> HIDE DEF rest
  <2>6. /\ text \in Seq(Tokens) /\ Len(text) = Len(s) + Len(rest)
        /\ \A i \in 1 .. Len(s) : text[i] = s[i]
        /\ \A k \in 1 .. Len(rest) : text[Len(s) + k] = rest[k]
    <3>1. s \in Seq(Tokens) /\ rest \in Seq(Tokens)
      BY <2>5
    <3>2. QED BY <2>2, <3>1, Joined
  <2>7. /\ Len(text) = Len(s) + 1 + 3 /\ text[Len(s) + 1] = a /\ text[Len(s) + 1 + 1] = b
        /\ text[Len(s) + 1 + 2] = c /\ text[Len(s) + 1 + 3] = d
    <3> DEFINE l == Len(s)
    <3>1. Len(text) = l + 4 /\ \A k \in 1 .. 4 : text[l + k] = rest[k]
      BY <2>5, <2>6
    <3>3. l \in Nat
      BY <1>1
    <3> HIDE DEF l
    <3>2. Len(text) = l + 4 /\ text[l + 1] = a /\ text[l + 2] = b /\ text[l + 3] = c /\ text[l + 4] = d
      <4>1. text[l + 1] = rest[1] /\ text[l + 2] = rest[2] /\ text[l + 3] = rest[3] /\ text[l + 4] = rest[4]
        <5>1. 1 \in 1 .. 4 /\ 2 \in 1 .. 4 /\ 3 \in 1 .. 4 /\ 4 \in 1 .. 4
          OBVIOUS
        <5>2. QED BY <3>1, <5>1, Zenon
      <4>2. QED BY <2>5, <3>1, <4>1
    <3>4. l + 1 + 1 = l + 2 /\ l + 1 + 2 = l + 3 /\ l + 1 + 3 = l + 4
      BY <3>3
    <3>5. QED BY <3>2, <3>4 DEF l
  <2>8. WhereAt(text, Len(s) + 1, where, tight)
    BY <2>3, <2>7, Zenon DEF WhereAt, a, b, c, d
  <2>9. Len(text) >= Len(s)
    BY <1>1, <2>5, <2>6
  <2>10. QED BY <2>6, <2>8, <2>9
<1>4. QED BY <1>2, <1>3


\* Whether its operator runs on into its literal.
RunsOver(where, tight) == tight /\ \E w \in where : BeginsInWord(w.value)

\* A literal is read as it was written, and begins as its text does: true and
\* false are words to whoever looks at what follows an operator.
LEMMA LiteralRead ==
  ASSUME NEW v \in TableValues, NEW toks, NEW i \in DOMAIN toks, toks[i] = Literal(v)
  PROVE  Valued(toks, i) /\ ValueAt(toks, i) = v /\ (RunsOn(toks[i]) <=> BeginsInWord(v))
<1>1. v \in [type : Types, num : Int] /\ (v.type = "bool" => v.num \in {0, 1})
  BY DEF TableValues
<1>2. CASE v.type = "bool"
  <2> DEFINE word == IF v.num = 1 THEN "true" ELSE "false"
  <2>1. toks[i] = Word(word)
    BY <1>2 DEF Literal
  <2>2. toks[i].kind = "word" /\ toks[i].is = word
    BY <2>1 DEF Word, Token
  <2>3. v = [type |-> "bool", num |-> IF word = "true" THEN 1 ELSE 0]
    BY <1>1, <1>2
  <2>4. QED BY <1>2, <2>2, <2>3 DEF Valued, ValueAt, RunsOn, BeginsInWord
<1>3. CASE v.type # "bool"
  <2>1. toks[i].kind = "literal" /\ toks[i].is = v
    BY <1>3 DEF Literal, Token
  <2>2. QED BY <1>3, <2>1 DEF Valued, ValueAt, RunsOn, BeginsInWord
<1>4. QED BY <1>2, <1>3

\* What is read of it.
LEMMA WhereRead ==
  ASSUME NEW toks \in Seq(Tokens), NEW i \in Nat \ {0}, NEW where \in Wheres, NEW tight \in BOOLEAN,
         WhereAt(toks, i, where, tight)
  PROVE  Where(toks, i) = IF RunsOver(where, tight) THEN {} ELSE {where}
<1>1. Len(toks) \in Nat /\ DOMAIN toks = 1 .. Len(toks)
  BY LenProperties
<1>2. ASSUME where = {}, Len(toks) = i - 1 PROVE Where(toks, i) = {where}
  <2>1. i = Len(toks) + 1
    BY <1>1, <1>2
  <2>2. QED BY <1>2, <2>1, Zenon DEF Where
<1>3. ASSUME NEW w \in where,
             /\ where = {w} /\ Len(toks) = i + 3
             /\ toks[i] = Word("where") /\ toks[i + 1] = Word(w.column)
             /\ toks[i + 2] = [Token("op", w.op) EXCEPT !.tight = tight]
             /\ toks[i + 3] = Literal(w.value)
      PROVE  Where(toks, i) = IF tight /\ BeginsInWord(w.value)
                              THEN {} ELSE {where}
  <2> DEFINE runs == BeginsInWord(w.value)
  <2>1. i # Len(toks) + 1 /\ i + 3 = Len(toks) /\ i + 2 + 1 = i + 3
    BY <1>1, <1>3
  <2>2. i \in DOMAIN toks /\ i + 1 \in DOMAIN toks /\ i + 2 \in DOMAIN toks /\ i + 3 \in DOMAIN toks
    BY <1>1, <2>1
  <2>0. w.value \in TableValues
    BY TablesAssumption
  <2>3. Is(toks, i, "where") /\ Named(toks, i + 1) /\ Valued(toks, i + 3)
    <3>1. Is(toks, i, "where") /\ Named(toks, i + 1)
      BY <1>3, <2>2 DEF Is, Named, Word, Token
    <3>2. QED BY <1>3, <2>0, <2>2, <3>1, LiteralRead
  <2>4. RunsOn(toks[i + 3]) <=> runs
    BY <1>3, <2>0, LiteralRead
  <2>5. toks[i + 2].kind = "op" /\ toks[i + 2].is = w.op /\ toks[i + 2].tight = tight
    BY <1>3 DEF Token
  <2>6. Compares(toks, i + 2) <=> ~(tight /\ runs)
    BY <2>1, <2>2, <2>4, <2>5, Zenon DEF Compares
  <2>7. toks[i + 1].is = w.column /\ ValueAt(toks, i + 3) = w.value
    <3>1. toks[i + 1].is = w.column
      BY <1>3 DEF Word, Token
    <3>2. QED BY <1>3, <2>0, <2>2, <3>1, LiteralRead
  <2>8. w = [column |-> w.column, op |-> w.op, value |-> w.value]
    BY TablesAssumption
  <2>9. {{[column |-> toks[i + 1].is, op |-> toks[i + 2].is, value |-> ValueAt(toks, i + 3)]}} = {where}
    BY <1>3, <2>5, <2>7, <2>8, Zenon
  <2>10. CASE tight /\ runs
    <3>1. Where(toks, i) = {}
      BY <2>1, <2>6, <2>10, Zenon DEF Where
    <3>2. QED BY <2>10, <3>1, Zenon
  <2>11. CASE ~(tight /\ runs)
    <3>1. Where(toks, i) = {where}
      BY <2>1, <2>3, <2>6, <2>9, <2>11, Zenon DEF Where
    <3>2. QED BY <2>11, <3>1, Zenon
  <2>12. QED BY <2>10, <2>11
<1>4. QED
  <2>1. CASE where = {} /\ Len(toks) = i - 1
    <3>1. ~RunsOver(where, tight)
      BY <2>1, Zenon DEF RunsOver
    <3>2. QED BY <1>2, <2>1, <3>1, Zenon
  <2>2. CASE ~(where = {} /\ Len(toks) = i - 1)
    <3>1. PICK w \in where : /\ where = {w} /\ Len(toks) = i + 3
                             /\ toks[i] = Word("where") /\ toks[i + 1] = Word(w.column)
                             /\ toks[i + 2] = [Token("op", w.op) EXCEPT !.tight = tight]
                             /\ toks[i + 3] = Literal(w.value)
      BY <2>2, Zenon DEF WhereAt
    <3>2. Where(toks, i) = IF tight /\ BeginsInWord(w.value)
                           THEN {} ELSE {where}
      BY <1>3, <3>1, Zenon
    <3>3. (\E v \in where : BeginsInWord(v.value)) <=> BeginsInWord(w.value)
      BY <3>1
    <3>4. QED BY <3>2, <3>3, Zenon DEF RunsOver
  <2>3. QED BY <2>1, <2>2


\* The text of an insert.
InsertOf(name, fields) ==
  (<<Word("insert"), Word(name)>> \o (<<Mark("{")>> \o TextOfList(fields, ":") \o <<Mark("}")>>)) \o <<>>

LEMMA InsertText ==
  ASSUME NEW name \in TokenIs, NEW fields \in Fields, NEW text,
         text = InsertOf(name, fields)
  PROVE  /\ text \in Seq(Tokens) /\ Len(text) = IF Len(fields) = 0 THEN 4 ELSE 4 * Len(fields) + 3
         /\ text[1] = Word("insert") /\ text[2] = Word(name) /\ text[3] = Mark("{")
         /\ FieldsAt(text, fields, ":") /\ text[Len(text)] = Mark("}")
<1> DEFINE N     == Len(fields)
           a     == Word("insert")
           b     == Word(name)
           c     == Mark("{")
           d     == Mark("}")
           head  == <<a, b>>
           open  == <<c>>
           list  == TextOfList(fields, ":")
           close == <<d>>
           begun == open \o list
           rest  == begun \o close
           whole == head \o rest
<1>1. /\ list \in Seq(Tokens) /\ Len(list) = IF N = 0 THEN 0 ELSE 4 * N - 1
  <2>1. ":" \in Signs
    BY DEF Signs
  <2>2. QED BY <2>1, FieldsText, Zenon
<1>2. N \in Nat
  BY DEF Fields
<1>3. a \in Tokens /\ b \in Tokens /\ c \in Tokens /\ d \in Tokens
  <2>1. "insert" \in TokenIs /\ "{" \in TokenIs /\ "}" \in TokenIs
    BY DEF TokenIs, Signs
  <2>2. QED BY <2>1, TokensTyped
<1>4. text = whole \o <<>>
  BY Zenon DEF InsertOf
<1> HIDE DEF a, b, c, d, N
<1>5. /\ head \in Seq(Tokens) /\ Len(head) = 2 /\ head[1] = a /\ head[2] = b
      /\ open \in Seq(Tokens) /\ Len(open) = 1 /\ open[1] = c
      /\ close \in Seq(Tokens) /\ Len(close) = 1 /\ close[1] = d
  BY <1>3
<1> HIDE DEF head, open, list, close, begun, rest, whole
<1>6. /\ begun \in Seq(Tokens) /\ Len(begun) = Len(open) + Len(list)
      /\ \A i \in 1 .. Len(open) : begun[i] = open[i]
      /\ \A k \in 1 .. Len(list) : begun[Len(open) + k] = list[k]
  <2>1. open \in Seq(Tokens) /\ list \in Seq(Tokens)
    BY <1>1, <1>5
  <2>2. QED BY <2>1, Joined DEF begun
<1>7. /\ rest \in Seq(Tokens) /\ Len(rest) = Len(begun) + Len(close)
      /\ \A i \in 1 .. Len(begun) : rest[i] = begun[i]
      /\ \A k \in 1 .. Len(close) : rest[Len(begun) + k] = close[k]
  <2>1. begun \in Seq(Tokens) /\ close \in Seq(Tokens)
    BY <1>5, <1>6
  <2>2. QED BY <2>1, Joined DEF rest
<1>8. /\ whole \in Seq(Tokens) /\ Len(whole) = Len(head) + Len(rest)
      /\ \A i \in 1 .. Len(head) : whole[i] = head[i]
      /\ \A k \in 1 .. Len(rest) : whole[Len(head) + k] = rest[k]
  <2>1. head \in Seq(Tokens) /\ rest \in Seq(Tokens)
    BY <1>5, <1>7
  <2>2. QED BY <2>1, Joined DEF whole
<1>9. text = whole
  BY <1>4, <1>8, ConcatEmptySeq, Zenon
<1> DEFINE l == Len(list)
<1>10. l \in Nat
  BY <1>1, <1>2
<1>11. Len(begun) = l + 1 /\ Len(rest) = l + 2 /\ Len(text) = l + 4
  BY <1>5, <1>6, <1>7, <1>8, <1>9, <1>10
<1> HIDE DEF l
<1>12. text[1] = a /\ text[2] = b
  BY <1>5, <1>8, <1>9
<1>13. \A k \in 1 .. l + 2 : text[2 + k] = rest[k]
  BY <1>5, <1>8, <1>9, <1>11
<1>14. text[3] = c
  <2>1. 1 \in 1 .. l + 2 /\ 2 + 1 = 3 /\ 1 \in 1 .. l + 1 /\ 1 \in 1 .. 1
    BY <1>10
  <2>2. text[3] = rest[1] /\ rest[1] = begun[1] /\ begun[1] = open[1]
    BY <1>5, <1>6, <1>7, <1>11, <1>13, <2>1
  <2>3. QED BY <1>5, <2>2
<1>15. text[Len(text)] = d
  <2> DEFINE i == l + 2
             j == l + 1
  <2>1. i \in 1 .. l + 2 /\ 2 + i = l + 4 /\ j + 1 = i
    BY <1>10
  <2> HIDE DEF i
  <2>2. text[l + 4] = rest[i]
    BY <1>13, <2>1
  <2>3. rest[j + 1] = close[1]
    BY <1>5, <1>7, <1>11
  <2>4. QED BY <1>5, <1>11, <2>1, <2>2, <2>3
<1>16. \A k \in 1 .. l : text[3 + k] = list[k]
  <2>1. TAKE k \in 1 .. l
  <2> DEFINE m == k + 1
  <2>2. m \in 1 .. l + 2 /\ m \in 1 .. l + 1 /\ 2 + m = 3 + k /\ 1 + k = m
    BY <1>10
  <2> HIDE DEF m
  <2>3. text[2 + m] = rest[m] /\ rest[m] = begun[m]
    BY <1>7, <1>11, <1>13, <2>2
  <2>4. begun[1 + k] = list[k]
    BY <1>5, <1>6 DEF l
  <2>5. QED BY <2>2, <2>3, <2>4
<1>17. FieldsAt(text, fields, ":")
  <2>1. ":" \in Signs
    BY DEF Signs
  <2>2. \A k \in 1 .. Len(TextOfList(fields, ":")) : text[3 + k] = TextOfList(fields, ":")[k]
    BY <1>16, Zenon DEF l, list
  <2>3. QED BY <2>1, <2>2, ListPlaced, Zenon
<1>18. Len(text) = IF N = 0 THEN 4 ELSE 4 * N + 3
  BY <1>1, <1>2, <1>11 DEF l
<1>19. QED BY <1>8, <1>9, <1>12, <1>14, <1>15, <1>17, <1>18, Zenon DEF a, b, c, d, N

\* The text of an update.
UpdateOf(name, fields, where, tight) ==
  (<<Word("update"), Word(name)>> \o (<<Word("set")>> \o TextOfList(fields, "="))) \o TextOfWhere(where, tight)

LEMMA UpdateText ==
  ASSUME NEW name \in TokenIs, NEW fields \in Fields, Len(fields) > 0,
         NEW where \in Wheres, NEW tight \in BOOLEAN, NEW text,
         text = UpdateOf(name, fields, where, tight)
  PROVE  /\ text \in Seq(Tokens) /\ WhereAt(text, 4 * Len(fields) + 3, where, tight)
         /\ Len(text) \in Nat /\ Len(text) >= 4 * Len(fields) + 2
         /\ text[1] = Word("update") /\ text[2] = Word(name) /\ text[3] = Word("set")
         /\ FieldsAt(text, fields, "=")
<1> DEFINE N     == Len(fields)
           a     == Word("update")
           b     == Word(name)
           c     == Word("set")
           head  == <<a, b>>
           open  == <<c>>
           list  == TextOfList(fields, "=")
           rest  == open \o list
           begun == head \o rest
<1>1. N \in Nat \ {0}
  BY DEF Fields
<1>2. list \in Seq(Tokens) /\ Len(list) = 4 * N - 1
  <2>1. "=" \in Signs
    BY DEF Signs
  <2>2. /\ list \in Seq(Tokens) /\ Len(list) = IF N = 0 THEN 0 ELSE 4 * N - 1
    BY <2>1, FieldsText, Zenon
  <2>3. QED BY <1>1, <2>2
<1>3. a \in Tokens /\ b \in Tokens /\ c \in Tokens
  <2>1. "update" \in TokenIs /\ "set" \in TokenIs
    BY DEF TokenIs, Signs
  <2>2. QED BY <2>1, TokensTyped
<1>4. text = begun \o TextOfWhere(where, tight)
  BY Zenon DEF UpdateOf
<1> HIDE DEF a, b, c, N
<1>5. /\ head \in Seq(Tokens) /\ Len(head) = 2 /\ head[1] = a /\ head[2] = b
      /\ open \in Seq(Tokens) /\ Len(open) = 1 /\ open[1] = c
  BY <1>3
<1> HIDE DEF head, open, list, rest, begun
<1>6. /\ rest \in Seq(Tokens) /\ Len(rest) = Len(open) + Len(list)
      /\ \A i \in 1 .. Len(open) : rest[i] = open[i]
      /\ \A k \in 1 .. Len(list) : rest[Len(open) + k] = list[k]
  <2>1. open \in Seq(Tokens) /\ list \in Seq(Tokens)
    BY <1>2, <1>5
  <2>2. QED BY <2>1, Joined DEF rest
<1>7. /\ begun \in Seq(Tokens) /\ Len(begun) = Len(head) + Len(rest)
      /\ \A i \in 1 .. Len(head) : begun[i] = head[i]
      /\ \A k \in 1 .. Len(rest) : begun[Len(head) + k] = rest[k]
  <2>1. head \in Seq(Tokens) /\ rest \in Seq(Tokens)
    BY <1>5, <1>6
  <2>2. QED BY <2>1, Joined DEF begun
<1>8. Len(rest) = 4 * N /\ Len(begun) = 4 * N + 2
  BY <1>1, <1>2, <1>5, <1>6, <1>7
<1>9. /\ text \in Seq(Tokens) /\ WhereAt(text, Len(begun) + 1, where, tight)
      /\ Len(text) >= Len(begun) /\ \A i \in 1 .. Len(begun) : text[i] = begun[i]
  BY <1>4, <1>7, WhereText
<1>10. WhereAt(text, 4 * N + 3, where, tight) /\ Len(text) \in Nat /\ Len(text) >= 4 * N + 2
  <2>1. Len(begun) + 1 = 4 * N + 3
    BY <1>1, <1>8
  <2>2. Len(text) \in Nat
    BY <1>9, LenProperties
  <2>3. QED BY <1>8, <1>9, <2>1, <2>2
<1>11. text[1] = a /\ text[2] = b
  <2>1. 1 \in 1 .. 4 * N + 2 /\ 2 \in 1 .. 4 * N + 2
    BY <1>1
  <2>2. text[1] = begun[1] /\ text[2] = begun[2]
    BY <1>8, <1>9, <2>1
  <2>3. QED BY <1>5, <1>7, <2>2
<1>12. ASSUME NEW k \in 1 .. 4 * N PROVE text[2 + k] = rest[k]
  <2> DEFINE i == 2 + k
  <2>1. i \in 1 .. 4 * N + 2
    BY <1>1
  <2>2. begun[i] = rest[k]
    BY <1>5, <1>7, <1>8
  <2> HIDE DEF i
  <2>3. text[i] = rest[k]
    BY <1>8, <1>9, <2>1, <2>2
  <2>4. QED BY <2>3 DEF i
<1>13. text[3] = c
  <2>1. 1 \in 1 .. 4 * N /\ 2 + 1 = 3
    BY <1>1
  <2>2. text[2 + 1] = rest[1]
    BY <1>12, <2>1
  <2>3. rest[1] = open[1]
    BY <1>5, <1>6
  <2>4. QED BY <1>5, <2>1, <2>2, <2>3
<1>14. \A k \in 1 .. Len(list) : text[3 + k] = list[k]
  <2>1. TAKE k \in 1 .. Len(list)
  <2> DEFINE m == 1 + k
  <2>2. m \in 1 .. 4 * N /\ 2 + m = 3 + k
    BY <1>1, <1>2
  <2>3. rest[m] = list[k]
    BY <1>5, <1>6
  <2> HIDE DEF m
  <2>4. text[2 + m] = rest[m]
    BY <1>12, <2>2
  <2>5. QED BY <2>2, <2>3, <2>4
<1>15. FieldsAt(text, fields, "=")
  <2>1. "=" \in Signs
    BY DEF Signs
  <2>2. \A k \in 1 .. Len(TextOfList(fields, "=")) : text[3 + k] = TextOfList(fields, "=")[k]
    BY <1>14, Zenon DEF list
  <2>3. QED BY <2>1, <2>2, ListPlaced, Zenon
<1>16. QED BY <1>9, <1>10, <1>11, <1>13, <1>15, Zenon DEF a, b, c, N

\* The text of a select or a delete.
PlainOf(do, name, where, tight) == (<<Word(do), Word(name)>> \o <<>>) \o TextOfWhere(where, tight)

LEMMA PlainText ==
  ASSUME NEW do \in {"select", "delete"}, NEW name \in TokenIs,
         NEW where \in Wheres, NEW tight \in BOOLEAN, NEW text,
         text = PlainOf(do, name, where, tight)
  PROVE  /\ text \in Seq(Tokens) /\ WhereAt(text, 3, where, tight) /\ Len(text) \in Nat /\ Len(text) >= 2
         /\ text[1] = Word(do) /\ text[2] = Word(name)
<1> DEFINE a    == Word(do)
           b    == Word(name)
           head == <<a, b>>
<1>1. a \in Tokens /\ b \in Tokens
  <2>1. do \in TokenIs
    BY DEF TokenIs, Signs
  <2>2. QED BY <2>1, TokensTyped
<1>2. text = (head \o <<>>) \o TextOfWhere(where, tight)
  BY Zenon DEF PlainOf
<1> HIDE DEF a, b
<1>3. head \in Seq(Tokens) /\ Len(head) = 2 /\ head[1] = a /\ head[2] = b
  BY <1>1
<1> HIDE DEF head
<1>4. text = head \o TextOfWhere(where, tight)
  BY <1>2, <1>3, ConcatEmptySeq, Zenon
<1>5. /\ text \in Seq(Tokens) /\ WhereAt(text, Len(head) + 1, where, tight)
      /\ Len(text) >= Len(head) /\ \A i \in 1 .. Len(head) : text[i] = head[i]
  BY <1>3, <1>4, WhereText
<1>6. WhereAt(text, 3, where, tight) /\ Len(text) \in Nat /\ Len(text) >= 2
  <2>1. Len(head) + 1 = 3
    BY <1>3
  <2>2. Len(text) \in Nat
    BY <1>5, LenProperties
  <2>3. QED BY <1>3, <1>5, <2>1, <2>2
<1>7. QED BY <1>3, <1>5, <1>6 DEF a, b


\* What parse_query makes of an insert, an update, a select or a delete.
Inserted(toks, n)   == [do |-> "insert", table |-> toks[2].is, fields |-> List(toks, 4, n), where |-> {}]
Updated(toks, n, w) == [do |-> "update", table |-> toks[2].is, fields |-> List(toks, 4, n), where |-> w]
Plainly(toks, w)    == [do |-> toks[1].is, table |-> toks[2].is, fields |-> <<>>, where |-> w]

LEMMA TokenParts ==
  \A x : /\ Word(x).kind = "word" /\ Word(x).is = x
         /\ Mark(x).kind = "mark" /\ Mark(x).is = x
BY DEF Word, Mark, Token

Verbs == {"insert", "update", "select", "delete"}

\* The first token decides which.
LEMMA FirstToken ==
  ASSUME NEW toks \in Seq(Tokens), Len(toks) > 0, NEW do \in Verbs, toks[1] = Word(do)
  PROVE  ParseQuery(toks) =
           IF do = "insert" THEN {Inserted(toks, n) : n \in Inserts(toks)}
           ELSE IF do = "update" THEN UNION {{Updated(toks, n, w) : w \in Where(toks, 4 * n + 3)} : n \in Updates(toks)}
           ELSE {Plainly(toks, w) : w \in Plains(toks)}
<1> DEFINE I == {Inserted(toks, n) : n \in Inserts(toks)}
           U == UNION {{Updated(toks, n, w) : w \in Where(toks, 4 * n + 3)} : n \in Updates(toks)}
           P == {Plainly(toks, w) : w \in Plains(toks)}
<1>1. ParseQuery(toks) = (I \cup P) \cup U
  BY Zenon DEF ParseQuery, Inserted, Updated, Plainly
<1> HIDE DEF I, U, P
<1>2. /\ Is(toks, 1, "insert") => do = "insert"
      /\ Is(toks, 1, "update") => do = "update"
      /\ Is(toks, 1, "select") => do = "select"
      /\ Is(toks, 1, "delete") => do = "delete"
  <2>1. toks[1].is = do
    BY TokenParts, Zenon
  <2>2. QED BY <2>1, Zenon DEF Is
<1>3. do # "insert" => Inserts(toks) = {}
  BY <1>2, Zenon DEF Inserts
<1>4. do # "update" => Updates(toks) = {}
  BY <1>2, Zenon DEF Updates
<1>5. do \in {"insert", "update"} => Plains(toks) = {}
  <2>1. do \in {"insert", "update"} => ~Is(toks, 1, "select") /\ ~Is(toks, 1, "delete")
    <3>1. do \in {"insert", "update"} => do # "select" /\ do # "delete"
      OBVIOUS
    <3>2. QED BY <1>2, <3>1, Zenon
  <2>2. QED BY <2>1, Zenon DEF Plains
<1>6. /\ do # "insert" => I = {}
      /\ do # "update" => U = {}
      /\ do \in {"insert", "update"} => P = {}
  BY <1>3, <1>4, <1>5, Zenon DEF I, U, P
<1>7. ParseQuery(toks) = IF do = "insert" THEN I ELSE IF do = "update" THEN U ELSE P
  BY <1>1, <1>6
<1>8. QED BY <1>7, Zenon DEF I, U, P

\* Fields are read where they are.
LEMMA ListRead ==
  ASSUME NEW toks \in Seq(Tokens), NEW fields \in Fields, NEW mark \in Signs, FieldsAt(toks, fields, mark),
         Len(fields) > 0 => Len(toks) >= 4 * Len(fields) + 2
  PROVE  IsList(toks, 4, Len(fields), mark) /\ List(toks, 4, Len(fields)) = fields
<1> DEFINE N == Len(fields)
<1>1. N \in Nat /\ fields = [g \in 1 .. N |-> <<fields[g][1], fields[g][2]>>]
  BY DEF Fields
<1>2. Len(toks) \in Nat /\ DOMAIN toks = 1 .. Len(toks)
  BY LenProperties
<1>3. ASSUME NEW g \in 1 .. N
      PROVE  /\ Named(toks, 4 * g) /\ Is(toks, 4 * g + 1, mark) /\ Valued(toks, 4 * g + 2)
             /\ g # 1 => Is(toks, 4 * g - 1, ",")
             /\ toks[4 * g].is = fields[g][1] /\ ValueAt(toks, 4 * g + 2) = fields[g][2]
  <2>1. /\ toks[4 * g] = Word(fields[g][1]) /\ toks[4 * g + 1] = Mark(mark)
        /\ toks[4 * g + 2] = Literal(fields[g][2]) /\ (g # 1 => toks[4 * g - 1] = Mark(","))
    BY DEF FieldsAt
  <2> DEFINE len == Len(toks)
             i == 4 * g
             j == 4 * g + 1
             k == 4 * g + 2
             l == 4 * g - 1
  <2>2. len >= 4 * N + 2 /\ len \in Nat
    BY <1>1, <1>2
  <2> HIDE DEF len, N
  <2>3. i \in 1 .. len /\ j \in 1 .. len /\ k \in 1 .. len /\ (g # 1 => l \in 1 .. len)
    BY <1>1, <2>2
  <2>4. i \in DOMAIN toks /\ j \in DOMAIN toks /\ k \in DOMAIN toks /\ (g # 1 => l \in DOMAIN toks)
    BY <1>2, <2>3 DEF len
  <2> HIDE DEF i, j, k, l
  <2>5. /\ toks[i] = Word(fields[g][1]) /\ toks[j] = Mark(mark)
        /\ toks[k] = Literal(fields[g][2]) /\ (g # 1 => toks[l] = Mark(","))
    BY <2>1 DEF i, j, k, l
  <2>6. /\ Named(toks, i) /\ Is(toks, j, mark) /\ Valued(toks, k)
        /\ g # 1 => Is(toks, l, ",")
        /\ toks[i].is = fields[g][1] /\ ValueAt(toks, k) = fields[g][2]
    <3>1. toks[i].kind = "word" /\ toks[i].is = fields[g][1]
      BY <2>5, TokenParts, Zenon
    <3>2. toks[j].kind = "mark" /\ toks[j].is = mark
      BY <2>5, TokenParts, Zenon
    <3>3. fields[g][2] \in TableValues
      BY <1>1, TablesAssumption DEF Fields
    <3>4. g # 1 => toks[l].kind = "mark" /\ toks[l].is = ","
      BY <2>5, TokenParts, Zenon
    <3>5. Named(toks, i)
      BY <2>4, <3>1, Zenon DEF Named
    <3>6. Is(toks, j, mark)
      BY <2>4, <3>2, Zenon DEF Is
    <3>7. Valued(toks, k) /\ ValueAt(toks, k) = fields[g][2]
      BY <2>4, <2>5, <3>3, LiteralRead, Zenon
    <3>8. g # 1 => Is(toks, l, ",")
      BY <2>4, <3>4, Zenon DEF Is
    <3>9. QED BY <3>1, <3>5, <3>6, <3>7, <3>8
  <2>7. QED BY <2>6, Zenon DEF i, j, k, l
<1> HIDE DEF N
<1>4. IsList(toks, 4, N, mark)
  <2>1. SUFFICES ASSUME NEW g \in 0 .. N - 1
                 PROVE  /\ Named(toks, 4 + 4 * g) /\ Is(toks, 4 + 4 * g + 1, mark) /\ Valued(toks, 4 + 4 * g + 2)
                        /\ g < N - 1 => Is(toks, 4 + 4 * g + 3, ",")
    BY Zenon DEF IsList
  <2> DEFINE h == g + 1
             h2 == g + 2
  <2>2. h \in 1 .. N /\ 4 * h = 4 + 4 * g /\ (g < N - 1 => h2 \in 1 .. N /\ h2 # 1) /\ 4 * h2 - 1 = 4 + 4 * g + 3
    <3>1. N \in Nat
      BY <1>1
    <3>2. QED BY <3>1
  <2> HIDE DEF h, h2
  <2>3. Named(toks, 4 * h) /\ Is(toks, 4 * h + 1, mark) /\ Valued(toks, 4 * h + 2)
    BY <1>3, <2>2
  <2>4. g < N - 1 => Is(toks, 4 * h2 - 1, ",")
    BY <1>3, <2>2
  <2>5. QED BY <2>2, <2>3, <2>4
<1>5. List(toks, 4, N) = fields
  <2>1. \A g \in 1 .. N : 4 + 4 * g - 4 = 4 * g /\ 4 + 4 * g - 2 = 4 * g + 2
    BY <1>1
  <2>2. \A g \in 1 .. N : <<toks[4 + 4 * g - 4].is, ValueAt(toks, 4 + 4 * g - 2)>> = <<fields[g][1], fields[g][2]>>
    <3>1. TAKE g \in 1 .. N
    <3> DEFINE i == 4 + 4 * g - 4
               k == 4 + 4 * g - 2
    <3>2. i = 4 * g /\ k = 4 * g + 2
      BY <2>1
    <3> HIDE DEF i, k
    <3>3. toks[i].is = fields[g][1] /\ ValueAt(toks, k) = fields[g][2]
      BY <1>3, <3>2
    <3>4. <<toks[i].is, ValueAt(toks, k)>> = <<fields[g][1], fields[g][2]>>
      BY <3>3, Zenon
    <3>5. QED BY <3>4, Zenon DEF i, k
  <2>3. List(toks, 4, N) = [g \in 1 .. N |-> <<fields[g][1], fields[g][2]>>]
    BY <2>2, Zenon DEF List
  <2>4. QED BY <1>1, <2>3, Zenon
<1>6. QED BY <1>4, <1>5 DEF N


\* What the number of fields of an insert has to do with the number of tokens.
FitsInsert(toks, n) ==
  \/ n = 0 /\ Len(toks) = 4
  \/ n > 0 /\ Len(toks) = 4 * n + 3
  \/ n > 0 /\ Len(toks) = 4 * n + 4 /\ toks[4 * n + 3].is = ","

LEMMA InsertLength ==
  ASSUME NEW toks \in Seq(Tokens), NEW n \in Inserts(toks)
  PROVE  n \in Nat /\ FitsInsert(toks, n)
<1> DEFINE len   == Len(toks)
           comma == Is(toks, 4 * n + 3, ",")
<1>1. len \in Nat
  BY LenProperties
<1>2. /\ n \in 0 .. len
      /\ len = 4 + (IF n = 0 THEN 0 ELSE 4 * n - 1) \/ (n > 0 /\ comma /\ len = 4 * n + 4)
  BY Zenon DEF Inserts
<1>3. comma => toks[4 * n + 3].is = ","
  BY Zenon DEF Is
<1> HIDE DEF len, comma
<1>4. n \in Nat
  BY <1>1, <1>2
<1>5. \/ n = 0 /\ len = 4
      \/ n > 0 /\ len = 4 * n + 3
      \/ n > 0 /\ len = 4 * n + 4 /\ comma
  BY <1>1, <1>2
<1>6. QED BY <1>3, <1>4, <1>5, Zenon DEF len, FitsInsert

\* An insert is read as it was written.
LEMMA InsertRead ==
  ASSUME NEW name \in TokenIs, NEW fields \in Fields
  PROVE  ParseQuery(InsertOf(name, fields)) = {[do |-> "insert", table |-> name, fields |-> fields, where |-> {}]}
<1> DEFINE N    == Len(fields)
           toks == InsertOf(name, fields)
           len  == Len(toks)
<1>1. /\ toks \in Seq(Tokens) /\ len = IF N = 0 THEN 4 ELSE 4 * N + 3
      /\ toks[1] = Word("insert") /\ toks[2] = Word(name) /\ toks[3] = Mark("{")
      /\ FieldsAt(toks, fields, ":") /\ toks[len] = Mark("}")
  BY InsertText, Zenon
<1>2. N \in Nat
  BY DEF Fields
<1> HIDE DEF N, toks
<1>3. toks \in Seq(Tokens) /\ DOMAIN toks = 1 .. len
  BY <1>1, LenProperties
<1>4. len = IF N = 0 THEN 4 ELSE 4 * N + 3
  BY <1>1
<1> HIDE DEF len
<1>5. len \in Nat /\ len >= 4 /\ (N > 0 => len >= 4 * N + 2) /\ len > 0
  BY <1>2, <1>4
<1>6. IsList(toks, 4, N, ":") /\ List(toks, 4, N) = fields
  <2>1. ":" \in Signs
    BY DEF Signs
  <2>2. N > 0 => Len(toks) >= 4 * N + 2
    BY <1>5, Zenon DEF len
  <2>3. QED BY <1>1, <2>1, <2>2, ListRead, Zenon DEF N
<1>7. Inserts(toks) = {N}
  <2>1. ASSUME NEW n \in Inserts(toks) PROVE n = N
    <3> DEFINE comma == toks[4 * n + 3].is = ","
    <3>1. n \in Nat
      BY <1>3, InsertLength, Zenon
    <3>2. \/ n = 0 /\ len = 4
          \/ n > 0 /\ len = 4 * n + 3
          \/ n > 0 /\ len = 4 * n + 4 /\ comma
      BY <1>3, InsertLength, Zenon DEF FitsInsert, len
    <3> HIDE DEF comma
    <3>3. QED BY <1>2, <1>4, <3>1, <3>2
  <2>2. N \in 0 .. len /\ len = 4 + (IF N = 0 THEN 0 ELSE 4 * N - 1)
    BY <1>2, <1>4
  <2>3. Is(toks, 1, "insert") /\ Named(toks, 2) /\ Is(toks, 3, "{") /\ Is(toks, len, "}")
    <3>1. 1 \in DOMAIN toks /\ 2 \in DOMAIN toks /\ 3 \in DOMAIN toks /\ len \in DOMAIN toks
      <4>1. 1 \in 1 .. len /\ 2 \in 1 .. len /\ 3 \in 1 .. len /\ len \in 1 .. len
        BY <1>5
      <4>2. QED BY <1>3, <4>1, Zenon
    <3>2. /\ toks[1].kind = "word" /\ toks[1].is = "insert" /\ toks[2].kind = "word"
          /\ toks[3].kind = "mark" /\ toks[3].is = "{" /\ toks[len].kind = "mark" /\ toks[len].is = "}"
      BY <1>1, TokenParts, Zenon
    <3>3. QED BY <3>1, <3>2, Zenon DEF Is, Named
  <2>4. N \in Inserts(toks)
    BY <1>6, <2>2, <2>3, Zenon DEF Inserts, len
  <2>5. QED BY <2>1, <2>4, Zenon
<1>8. ParseQuery(toks) = {Inserted(toks, n) : n \in Inserts(toks)}
  <2>1. Len(toks) > 0
    BY <1>5, Zenon DEF len
  <2>2. "insert" \in Verbs
    BY DEF Verbs
  <2>3. QED BY <1>1, <2>1, <2>2, FirstToken, Zenon
<1>9. Inserted(toks, N) = [do |-> "insert", table |-> name, fields |-> fields, where |-> {}]
  <2>1. toks[2].is = name
    BY <1>1, TokenParts, Zenon
  <2>2. QED BY <1>6, <2>1, Zenon DEF Inserted
<1>10. ParseQuery(toks) = {[do |-> "insert", table |-> name, fields |-> fields, where |-> {}]}
  <2>1. {Inserted(toks, n) : n \in Inserts(toks)} = {Inserted(toks, N)}
    BY <1>7, Zenon
  <2>2. QED BY <1>8, <1>9, <2>1, Zenon
<1>11. QED BY <1>10, Zenon DEF toks

\* Without its last token, or with one more that is no comma, it is no insert.
NotInsert(toks, N) ==
  \/ Len(toks) = IF N = 0 THEN 3 ELSE 4 * N + 2
  \/ Len(toks) = (IF N = 0 THEN 5 ELSE 4 * N + 4) /\ (N > 0 => toks[4 * N + 3] = Mark("}"))

LEMMA InsertRefused ==
  ASSUME NEW toks \in Seq(Tokens), NEW N \in Nat, toks[1] = Word("insert"), NotInsert(toks, N)
  PROVE  ParseQuery(toks) = {}
<1> DEFINE len == Len(toks)
           comma(n) == toks[4 * n + 3].is = ","
<1>1. \/ len = IF N = 0 THEN 3 ELSE 4 * N + 2
      \/ len = (IF N = 0 THEN 5 ELSE 4 * N + 4) /\ (N > 0 => ~comma(N))
  <2>1. toks[4 * N + 3] = Mark("}") => toks[4 * N + 3].is = "}"
    BY TokenParts, Zenon
  <2>2. "}" # ","
    OBVIOUS
  <2>3. QED BY <2>1, <2>2, Zenon DEF NotInsert
<1>2. ASSUME NEW n \in Inserts(toks) PROVE FALSE
  <2>1. n \in Nat
    BY InsertLength, Zenon
  <2>2. \/ n = 0 /\ len = 4
        \/ n > 0 /\ len = 4 * n + 3
        \/ n > 0 /\ len = 4 * n + 4 /\ comma(n)
    BY InsertLength, Zenon DEF FitsInsert
  <2> HIDE DEF len, comma
  <2>3. CASE n > 0 /\ len = 4 * n + 4 /\ comma(n)
    <3>1. n = N
      BY <1>1, <2>1, <2>3
    <3>2. CASE len = (IF N = 0 THEN 5 ELSE 4 * N + 4) /\ (N > 0 => ~comma(N))
      BY <2>3, <3>1, <3>2
    <3>3. CASE len = IF N = 0 THEN 3 ELSE 4 * N + 2
      BY <2>1, <2>3, <3>3
    <3>4. QED BY <1>1, <3>2, <3>3
  <2>4. CASE n = 0 /\ len = 4
    BY <1>1, <2>4
  <2>5. CASE n > 0 /\ len = 4 * n + 3
    BY <1>1, <2>1, <2>5
  <2>6. QED BY <2>2, <2>3, <2>4, <2>5
<1> HIDE DEF comma
<1>3. ParseQuery(toks) = {Inserted(toks, n) : n \in Inserts(toks)}
  <2>1. len > 0
    <3> HIDE DEF len
    <3>1. QED BY <1>1
  <2>2. "insert" \in Verbs
    BY DEF Verbs
  <2>3. QED BY <2>1, <2>2, FirstToken, Zenon
<1>4. QED BY <1>2, <1>3, Zenon

\* A condition is nothing, or four tokens.
LEMMA WhereLength ==
  ASSUME NEW toks, NEW i, Where(toks, i) # {}
  PROVE  \/ i = Len(toks) + 1
         \/ i + 3 = Len(toks) /\ i \in DOMAIN toks /\ toks[i].is = "where"
BY Zenon DEF Where, Is

\* An update, a select and a delete have an even number of tokens.
IsOdd(n) == \E m \in Nat : n = 2 * m + 1

LEMMA OddRefused ==
  ASSUME NEW toks \in Seq(Tokens), NEW do \in {"update", "select", "delete"}, toks[1] = Word(do),
         IsOdd(Len(toks))
  PROVE  ParseQuery(toks) = {}
<1> DEFINE len == Len(toks)
<1>1. PICK m \in Nat : len = 2 * m + 1
  BY Zenon DEF IsOdd
<1>2. do \in Verbs /\ do # "insert"
  BY DEF Verbs
<1>3. ASSUME NEW n \in Nat PROVE Where(toks, 4 * n + 3) = {}
  <2>1. SUFFICES ASSUME Where(toks, 4 * n + 3) # {} PROVE FALSE
    BY Zenon
  <2>2. 4 * n + 3 = len + 1 \/ 4 * n + 3 + 3 = len
    BY <2>1, WhereLength, Zenon
  <2> HIDE DEF len
  <2>3. QED BY <1>1, <2>2
<1>4. \A n \in Updates(toks) : n \in Nat
  <2>1. \A n \in Updates(toks) : n \in 1 .. len
    BY Zenon DEF Updates
  <2> HIDE DEF len
  <2>2. QED BY <1>1, <2>1
<1>5. Plains(toks) = {}
  <2>1. 4 * 0 + 3 = 3
    OBVIOUS
  <2>2. Where(toks, 3) = {}
    BY <1>3, <2>1
  <2>3. QED BY <2>2, Zenon DEF Plains
<1>6. UNION {{Updated(toks, n, w) : w \in Where(toks, 4 * n + 3)} : n \in Updates(toks)} = {}
  BY <1>3, <1>4, Zenon
<1>7. len > 0
  <2> HIDE DEF len
  <2>1. QED BY <1>1
<1>8. QED
  <2>1. CASE do = "update"
    BY <1>2, <1>6, <1>7, <2>1, FirstToken, Zenon
  <2>2. CASE do # "update"
    BY <1>2, <1>5, <1>7, <2>2, FirstToken, ZenonT(60)
  <2>3. QED BY <2>1, <2>2


\* An update is read as it was written, or refused for its operator.
LEMMA UpdateRead ==
  ASSUME NEW name \in TokenIs, NEW fields \in Fields, Len(fields) > 0, NEW where \in Wheres, NEW tight \in BOOLEAN
  PROVE  ParseQuery(UpdateOf(name, fields, where, tight)) =
           IF RunsOver(where, tight) THEN {}
           ELSE {[do |-> "update", table |-> name, fields |-> fields, where |-> where]}
<1> DEFINE N    == Len(fields)
           toks == UpdateOf(name, fields, where, tight)
           len  == Len(toks)
           read == [do |-> "update", table |-> name, fields |-> fields, where |-> where]
<1>1. /\ toks \in Seq(Tokens) /\ WhereAt(toks, 4 * N + 3, where, tight)
      /\ len \in Nat /\ len >= 4 * N + 2
      /\ toks[1] = Word("update") /\ toks[2] = Word(name) /\ toks[3] = Word("set")
      /\ FieldsAt(toks, fields, "=")
  <2>1. toks = UpdateOf(name, fields, where, tight)
    OBVIOUS
  <2> HIDE DEF toks
  <2>2. QED BY <2>1, UpdateText
<1>2. N \in Nat \ {0}
  BY DEF Fields
<1> HIDE DEF N, toks
<1>3. toks \in Seq(Tokens) /\ DOMAIN toks = 1 .. len
  BY <1>1, LenProperties
<1>4. len \in Nat /\ len >= 4 * N + 2 /\ len >= 3 /\ len > 0
  <2>1. len \in Nat /\ len >= 4 * N + 2
    BY <1>1
  <2> HIDE DEF len
  <2>2. QED BY <1>2, <2>1
<1>5. \/ len = 4 * N + 2
      \/ len = 4 * N + 6 /\ toks[4 * N + 3].is = "where"
  <2> DEFINE i == 4 * N + 3
             w == toks[i].is = "where"
  <2>1. WhereAt(toks, i, where, tight) /\ i = 4 * N + 3
    BY <1>1
  <2> HIDE DEF i
  <2>2. len = i - 1 \/ (len = i + 3 /\ toks[i] = Word("where"))
    BY <2>1, Zenon DEF WhereAt
  <2>3. toks[i] = Word("where") => w
    BY TokenParts, Zenon
  <2> HIDE DEF len, w
  <2>4. len = 4 * N + 2 \/ (len = 4 * N + 6 /\ w)
    BY <1>2, <2>1, <2>2, <2>3
  <2>5. QED BY <2>4, Zenon DEF w, i
<1>6. N # 1 => toks[4 * N - 1].is = ","
  <2>1. N \in 1 .. N
    BY <1>2
  <2>2. N # 1 => toks[4 * N - 1] = Mark(",")
    BY <1>1, <2>1, Zenon DEF FieldsAt, N
  <2>3. QED BY <2>2, TokenParts, Zenon
<1>7. Where(toks, 4 * N + 3) = IF RunsOver(where, tight) THEN {} ELSE {where}
  <2>1. 4 * N + 3 \in Nat \ {0}
    BY <1>2
  <2> DEFINE i == 4 * N + 3
  <2>2. i \in Nat \ {0} /\ WhereAt(toks, i, where, tight)
    BY <1>1, <2>1
  <2> HIDE DEF i
  <2>3. Where(toks, i) = IF RunsOver(where, tight) THEN {} ELSE {where}
    BY <1>3, <2>2, WhereRead
  <2>4. QED BY <2>3 DEF i
<1>8. IsList(toks, 4, N, "=") /\ List(toks, 4, N) = fields
  <2>1. "=" \in Signs
    BY DEF Signs
  <2>2. N > 0 => Len(toks) >= 4 * N + 2
    BY <1>4, Zenon DEF len
  <2>3. QED BY <1>1, <2>1, <2>2, ListRead, Zenon DEF N
<1>9. N \in Updates(toks)
  <2>1. 1 \in 1 .. len /\ 2 \in 1 .. len /\ 3 \in 1 .. len /\ N \in 1 .. len
    <3> HIDE DEF len
    <3>1. QED BY <1>2, <1>4
  <2>2. 1 \in DOMAIN toks /\ 2 \in DOMAIN toks /\ 3 \in DOMAIN toks
    BY <1>3, <2>1, Zenon
  <2>3. /\ toks[1].kind = "word" /\ toks[1].is = "update" /\ toks[2].kind = "word"
        /\ toks[3].kind = "word" /\ toks[3].is = "set"
    BY <1>1, TokenParts, Zenon
  <2>4. Is(toks, 1, "update") /\ Named(toks, 2) /\ Is(toks, 3, "set")
    BY <2>2, <2>3, Zenon DEF Is, Named
  <2>5. QED BY <1>8, <2>1, <2>4, Zenon DEF Updates
<1> HIDE DEF len
<1>10. ASSUME NEW n \in Updates(toks), n # N PROVE Where(toks, 4 * n + 3) = {}
  <2>1. SUFFICES ASSUME Where(toks, 4 * n + 3) # {} PROVE FALSE
    BY Zenon
  <2>2. n \in 1 .. len /\ IsList(toks, 4, n, "=")
    BY Zenon DEF Updates, len
  <2> DEFINE w == toks[4 * n + 3].is = "where"
  <2>3. 4 * n + 3 = len + 1 \/ (4 * n + 3 + 3 = len /\ w)
    BY <2>1, WhereLength, Zenon DEF len
  <2> HIDE DEF w
  <2>4. \/ n = N + 1 /\ len = 4 * N + 6
        \/ n = N - 1 /\ len = 4 * N + 2 /\ w
    BY <1>2, <1>4, <1>5, <1>10, <2>2, <2>3
  <2>5. CASE n = N + 1 /\ len = 4 * N + 6
    <3> DEFINE g == N - 1
    <3>1. g \in 0 .. n - 1 /\ g < n - 1 /\ 4 + 4 * g + 3 = 4 * N + 3
      BY <1>2, <2>5
    <3> HIDE DEF g
    <3>2. Is(toks, 4 + 4 * g + 3, ",")
      BY <2>2, <3>1, Zenon DEF IsList
    <3>3. toks[4 * N + 3].is = ","
      BY <3>1, <3>2, Zenon DEF Is
    <3>4. len # 4 * N + 2
      BY <1>2, <2>5
    <3>5. toks[4 * N + 3].is = "where"
      BY <1>5, <3>4, Zenon
    <3>6. QED BY <3>3, <3>5
  <2>6. CASE n = N - 1 /\ len = 4 * N + 2 /\ w
    <3>1. 4 * n + 3 = 4 * N - 1 /\ N # 1
      BY <1>2, <2>2, <2>6
    <3>2. toks[4 * N - 1].is = "where"
      BY <2>6, <3>1, Zenon DEF w
    <3>3. QED BY <1>6, <3>1, <3>2
  <2>7. QED BY <2>4, <2>5, <2>6
<1>11. ParseQuery(toks) = UNION {{Updated(toks, n, w) : w \in Where(toks, 4 * n + 3)} : n \in Updates(toks)}
  <2>1. Len(toks) > 0
    BY <1>4, Zenon DEF len
  <2>2. "update" \in Verbs /\ "update" # "insert"
    BY DEF Verbs
  <2>3. QED BY <1>1, <2>1, <2>2, FirstToken, Zenon
<1>12. ParseQuery(toks) = {Updated(toks, N, w) : w \in Where(toks, 4 * N + 3)}
  <2>1. \A n \in Updates(toks) : n # N => {Updated(toks, n, w) : w \in Where(toks, 4 * n + 3)} = {}
    BY <1>10, Zenon
  <2> DEFINE U(n) == {Updated(toks, n, w) : w \in Where(toks, 4 * n + 3)}
  <2> HIDE DEF U
  <2>2. UNION {U(n) : n \in Updates(toks)} = U(N)
    BY <1>9, <2>1, Zenon DEF U
  <2>3. QED BY <1>11, <2>2, Zenon DEF U
<1>13. Updated(toks, N, where) = read
  <2>1. toks[2].is = name
    BY <1>1, TokenParts, Zenon
  <2>2. QED BY <1>8, <2>1, Zenon DEF Updated
<1>14. ParseQuery(toks) = IF RunsOver(where, tight) THEN {} ELSE {read}
  BY <1>7, <1>12, <1>13, Zenon
<1>15. QED BY <1>14, Zenon DEF toks

\* So are a select and a delete.
LEMMA PlainRead ==
  ASSUME NEW do \in {"select", "delete"}, NEW name \in TokenIs, NEW where \in Wheres, NEW tight \in BOOLEAN
  PROVE  ParseQuery(PlainOf(do, name, where, tight)) =
           IF RunsOver(where, tight) THEN {} ELSE {[do |-> do, table |-> name, fields |-> <<>>, where |-> where]}
<1> DEFINE toks == PlainOf(do, name, where, tight)
           read == [do |-> do, table |-> name, fields |-> <<>>, where |-> where]
<1>1. /\ toks \in Seq(Tokens) /\ WhereAt(toks, 3, where, tight) /\ Len(toks) \in Nat /\ Len(toks) >= 2
      /\ toks[1] = Word(do) /\ toks[2] = Word(name)
  <2>1. toks = PlainOf(do, name, where, tight)
    OBVIOUS
  <2> HIDE DEF toks
  <2>2. QED BY <2>1, PlainText
<1> HIDE DEF toks
<1>2. Where(toks, 3) = IF RunsOver(where, tight) THEN {} ELSE {where}
  BY <1>1, WhereRead
<1>3. Plains(toks) = Where(toks, 3)
  <2>1. toks[1].kind = "word" /\ toks[1].is = do /\ toks[2].kind = "word"
    BY <1>1, TokenParts, Zenon
  <2>2. 1 \in DOMAIN toks /\ 2 \in DOMAIN toks
    <3>1. DOMAIN toks = 1 .. Len(toks)
      BY <1>1, LenProperties
    <3>2. 1 \in 1 .. Len(toks) /\ 2 \in 1 .. Len(toks)
      BY <1>1
    <3>3. QED BY <3>1, <3>2, Zenon
  <2>3. (Is(toks, 1, "select") \/ Is(toks, 1, "delete")) /\ Named(toks, 2)
    <3>1. do = "select" \/ do = "delete"
      OBVIOUS
    <3>2. QED BY <2>1, <2>2, <3>1, Zenon DEF Is, Named
  <2>4. QED BY <2>3, Zenon DEF Plains
<1>4. ParseQuery(toks) = {Plainly(toks, w) : w \in Plains(toks)}
  <2>1. Len(toks) > 0
    BY <1>1
  <2>2. do \in Verbs /\ do # "insert" /\ do # "update"
    BY DEF Verbs
  <2>3. QED BY <1>1, <2>1, <2>2, FirstToken, Zenon
<1>5. Plainly(toks, where) = read
  <2>1. toks[1].is = do /\ toks[2].is = name
    BY <1>1, TokenParts, Zenon
  <2>2. QED BY <2>1, Zenon DEF Plainly
<1>6. ParseQuery(toks) = IF RunsOver(where, tight) THEN {} ELSE {read}
  <2>1. ParseQuery(toks) = {Plainly(toks, w) : w \in IF RunsOver(where, tight) THEN {} ELSE {where}}
    BY <1>2, <1>3, <1>4, Zenon
  <2> HIDE DEF read
  <2>2. QED BY <1>5, <2>1, Zenon
<1>7. QED BY <1>6, Zenon DEF toks


\* A text with one token more, or without its last one.
LEMMA Longer ==
  ASSUME NEW text \in Seq(Tokens), NEW more \in Tokens, NEW toks, toks = Append(text, more)
  PROVE  /\ toks \in Seq(Tokens) /\ Len(toks) = Len(text) + 1
         /\ \A i \in 1 .. Len(text) : toks[i] = text[i]
OBVIOUS

LEMMA Shorter ==
  ASSUME NEW text \in Seq(Tokens), NEW n \in Nat, Len(text) = n + 1, NEW toks, toks = SubSeq(text, 1, Len(text) - 1)
  PROVE  /\ toks \in Seq(Tokens) /\ Len(toks) = n
         /\ \A i \in 1 .. n : toks[i] = text[i]
<1>1. Len(text) - 1 = n
  OBVIOUS
<1>2. toks = SubSeq(text, 1, n)
  BY <1>1
<1>3. QED BY <1>2

\* Neither is an insert any more.
LEMMA InsertChanged ==
  ASSUME NEW name \in TokenIs, NEW fields \in Fields, NEW more \in Tokens
  PROVE  LET text == InsertOf(name, fields)
         IN  /\ ParseQuery(Append(text, more)) = {}
             /\ ParseQuery(SubSeq(text, 1, Len(text) - 1)) = {}
<1> DEFINE N    == Len(fields)
           text == InsertOf(name, fields)
           len  == Len(text)
<1>1. /\ text \in Seq(Tokens) /\ len = IF N = 0 THEN 4 ELSE 4 * N + 3
      /\ text[1] = Word("insert") /\ text[len] = Mark("}")
  BY InsertText, Zenon
<1>2. N \in Nat
  BY DEF Fields
<1> HIDE DEF N, text
<1>3. len = IF N = 0 THEN 4 ELSE 4 * N + 3
  BY <1>1
<1> HIDE DEF len
<1>4. len \in Nat /\ len - 1 \in Nat /\ len = len - 1 + 1 /\ 1 \in 1 .. len /\ 1 \in 1 .. len - 1 /\ len \in 1 .. len
  BY <1>2, <1>3
<1>5. ParseQuery(Append(text, more)) = {}
  <2> DEFINE toks == Append(text, more)
  <2>1. toks \in Seq(Tokens) /\ Len(toks) = len + 1 /\ \A i \in 1 .. len : toks[i] = text[i]
    BY <1>1, Longer DEF len
  <2> HIDE DEF toks
  <2>2. toks[1] = Word("insert") /\ toks[len] = Mark("}")
    BY <1>1, <1>4, <2>1
  <2>3. len + 1 = (IF N = 0 THEN 5 ELSE 4 * N + 4) /\ (N > 0 => len = 4 * N + 3)
    BY <1>2, <1>3
  <2>4. NotInsert(toks, N)
    BY <2>1, <2>2, <2>3, Zenon DEF NotInsert
  <2>5. ParseQuery(toks) = {}
    BY <1>2, <2>1, <2>2, <2>4, InsertRefused, Zenon
  <2>6. QED BY <2>5 DEF toks
<1>6. ParseQuery(SubSeq(text, 1, Len(text) - 1)) = {}
  <2> DEFINE toks == SubSeq(text, 1, Len(text) - 1)
             n == len - 1
  <2>1. n \in Nat /\ len = n + 1 /\ 1 \in 1 .. n /\ n = IF N = 0 THEN 3 ELSE 4 * N + 2
    BY <1>2, <1>3, <1>4
  <2> HIDE DEF n
  <2>2. toks \in Seq(Tokens) /\ Len(toks) = n /\ \A i \in 1 .. n : toks[i] = text[i]
    <3>1. text \in Seq(Tokens) /\ Len(text) = n + 1 /\ toks = SubSeq(text, 1, Len(text) - 1)
      BY <1>1, <2>1 DEF len
    <3> HIDE DEF toks
    <3>2. QED BY <2>1, <3>1, Shorter
  <2> HIDE DEF toks
  <2>3. toks[1] = Word("insert")
    BY <1>1, <2>1, <2>2
  <2>4. NotInsert(toks, N)
    BY <2>1, <2>2, Zenon DEF NotInsert
  <2>5. ParseQuery(toks) = {}
    BY <1>2, <2>2, <2>3, <2>4, InsertRefused, Zenon
  <2>6. QED BY <2>5 DEF toks
<1>7. QED BY <1>5, <1>6 DEF text

\* Nor an update, a select or a delete what it was.
LEMMA EvenChanged ==
  ASSUME NEW text \in Seq(Tokens), NEW do \in {"update", "select", "delete"}, text[1] = Word(do),
         NEW m \in Nat, Len(text) = 2 * m + 2, NEW more \in Tokens
  PROVE  /\ ParseQuery(Append(text, more)) = {}
         /\ ParseQuery(SubSeq(text, 1, Len(text) - 1)) = {}
<1> DEFINE len == Len(text)
<1>1. len = 2 * m + 2
  OBVIOUS
<1> HIDE DEF len
<1>2. 1 \in 1 .. len /\ 1 \in 1 .. 2 * m + 1 /\ len = 2 * m + 1 + 1 /\ len + 1 = 2 * (m + 1) + 1 /\ m + 1 \in Nat
  BY <1>1
<1>3. ParseQuery(Append(text, more)) = {}
  <2> DEFINE toks == Append(text, more)
  <2>1. toks \in Seq(Tokens) /\ Len(toks) = len + 1 /\ \A i \in 1 .. len : toks[i] = text[i]
    BY Longer DEF len
  <2> HIDE DEF toks
  <2>2. IsOdd(Len(toks))
    BY <1>2, <2>1, Zenon DEF IsOdd
  <2>3. toks[1] = Word(do)
    BY <1>2, <2>1, Zenon
  <2>4. ParseQuery(toks) = {}
    BY <2>1, <2>2, <2>3, OddRefused, Zenon
  <2>5. QED BY <2>4 DEF toks
<1>4. ParseQuery(SubSeq(text, 1, Len(text) - 1)) = {}
  <2> DEFINE toks == SubSeq(text, 1, Len(text) - 1)
             n == 2 * m + 1
  <2>1. n \in Nat /\ len = n + 1 /\ 1 \in 1 .. n
    BY <1>2
  <2>2. IsOdd(n)
    BY DEF IsOdd
  <2> HIDE DEF n
  <2>3. toks \in Seq(Tokens) /\ Len(toks) = n /\ \A i \in 1 .. n : toks[i] = text[i]
    BY <2>1, Shorter DEF len
  <2> HIDE DEF toks
  <2>4. toks[1] = Word(do)
    BY <2>1, <2>3, Zenon
  <2>5. ParseQuery(toks) = {}
    BY <2>2, <2>3, <2>4, OddRefused, Zenon
  <2>6. QED BY <2>5 DEF toks
<1>5. QED BY <1>3, <1>4

LEMMA UpdateChanged ==
  ASSUME NEW name \in TokenIs, NEW fields \in Fields, Len(fields) > 0, NEW where \in Wheres, NEW tight \in BOOLEAN,
         NEW more \in Tokens, NEW text, text = UpdateOf(name, fields, where, tight)
  PROVE  /\ ParseQuery(Append(text, more)) = {}
         /\ ParseQuery(SubSeq(text, 1, Len(text) - 1)) = {}
<1> DEFINE N   == Len(fields)
           len == Len(text)
<1>1. text \in Seq(Tokens) /\ WhereAt(text, 4 * N + 3, where, tight) /\ text[1] = Word("update")
  BY UpdateText
<1>2. N \in Nat /\ N > 0
  BY DEF Fields
<1> HIDE DEF N
<1> DEFINE i == 4 * N + 3
<1>3. WhereAt(text, i, where, tight) /\ i = 4 * N + 3
  BY <1>1
<1> HIDE DEF i
<1>4. len = i - 1 \/ len = i + 3
  BY <1>3, Zenon DEF WhereAt
<1> HIDE DEF len
<1>5. PICK m \in Nat : len = 2 * m + 2
  <2>1. len = 2 * (2 * N) + 2 \/ len = 2 * (2 * N + 2) + 2
    BY <1>2, <1>3, <1>4
  <2>2. 2 * N \in Nat /\ 2 * N + 2 \in Nat
    BY <1>2
  <2>3. QED BY <2>1, <2>2, Zenon
<1>6. "update" \in {"update", "select", "delete"}
  OBVIOUS
<1>7. QED BY <1>1, <1>5, <1>6, EvenChanged, Zenon DEF len

LEMMA PlainChanged ==
  ASSUME NEW do \in {"select", "delete"}, NEW name \in TokenIs, NEW where \in Wheres, NEW tight \in BOOLEAN,
         NEW more \in Tokens, NEW text, text = PlainOf(do, name, where, tight)
  PROVE  /\ ParseQuery(Append(text, more)) = {}
         /\ ParseQuery(SubSeq(text, 1, Len(text) - 1)) = {}
<1> DEFINE len == Len(text)
<1>1. text \in Seq(Tokens) /\ WhereAt(text, 3, where, tight) /\ text[1] = Word(do)
  BY PlainText
<1>2. len = 3 - 1 \/ len = 3 + 3
  BY <1>1, Zenon DEF WhereAt
<1> HIDE DEF len
<1>3. len = 2 * 0 + 2 \/ len = 2 * 2 + 2
  BY <1>2
<1>4. PICK m \in Nat : len = 2 * m + 2
  <2>1. 0 \in Nat /\ 2 \in Nat
    OBVIOUS
  <2>2. QED BY <1>3, <2>1, Zenon
<1>5. do \in {"update", "select", "delete"}
  OBVIOUS
<1>6. QED BY <1>1, <1>4, <1>5, EvenChanged, Zenon DEF len


\* What a statement is as a text.
LEMMA StatementText ==
  ASSUME NEW s \in Statements, NEW tight \in BOOLEAN
  PROVE  /\ s.table \in TokenIs
         /\ \/ /\ s = [do |-> "insert", table |-> s.table, fields |-> s.fields, where |-> {}]
               /\ s.fields \in Fields /\ s.where = {}
               /\ TextOf(s, tight) = InsertOf(s.table, s.fields)
            \/ /\ s = [do |-> "update", table |-> s.table, fields |-> s.fields, where |-> s.where]
               /\ s.fields \in Fields /\ Len(s.fields) > 0 /\ s.where \in Wheres
               /\ TextOf(s, tight) = UpdateOf(s.table, s.fields, s.where, tight)
            \/ \E do \in {"select", "delete"} :
                 /\ s = [do |-> do, table |-> s.table, fields |-> <<>>, where |-> s.where]
                 /\ s.where \in Wheres
                 /\ TextOf(s, tight) = PlainOf(do, s.table, s.where, tight)
<1>1. \A l \in Lists : l \in Fields
  BY TablesAssumption DEF Fields
<1>2. CASE s \in [do : {"insert"}, table : DOMAIN tables, fields : Lists, where : {{}}]
  <2>1. /\ s = [do |-> "insert", table |-> s.table, fields |-> s.fields, where |-> {}]
        /\ s.do = "insert" /\ s.table \in DOMAIN tables /\ s.fields \in Lists /\ s.where = {}
    BY <1>2
  <2>2. TextOf(s, tight) = InsertOf(s.table, s.fields)
    BY <2>1, Zenon DEF TextOf, InsertOf, TextOfWhere
  <2>3. QED BY <1>1, <2>1, <2>2, Zenon DEF TokenIs
<1>3. CASE s \in [do : {"update"}, table : DOMAIN tables, fields : Lists \ {<<>>}, where : Wheres]
  <2>1. /\ s = [do |-> "update", table |-> s.table, fields |-> s.fields, where |-> s.where]
        /\ s.do = "update" /\ s.table \in DOMAIN tables /\ s.fields \in Lists /\ s.fields # <<>> /\ s.where \in Wheres
    BY <1>3
  <2>2. TextOf(s, tight) = UpdateOf(s.table, s.fields, s.where, tight)
    <3>1. s.do # "insert"
      BY <2>1
    <3>2. QED BY <2>1, <3>1, Zenon DEF TextOf, UpdateOf
  <2>3. Len(s.fields) > 0
    <3>1. s.fields \in Fields /\ s.fields # <<>>
      BY <1>1, <2>1
    <3> DEFINE l == s.fields
    <3> HIDE DEF l
    <3>2. l \in Fields /\ l # <<>> => Len(l) > 0
      BY DEF Fields
    <3>3. QED BY <3>1, <3>2 DEF l
  <2>4. QED BY <1>1, <2>1, <2>2, <2>3, Zenon DEF TokenIs
<1>4. CASE s \in [do : {"select", "delete"}, table : DOMAIN tables, fields : {<<>>}, where : Wheres]
  <2>1. /\ s = [do |-> s.do, table |-> s.table, fields |-> <<>>, where |-> s.where]
        /\ s.do \in {"select", "delete"} /\ s.table \in DOMAIN tables /\ s.where \in Wheres
    BY <1>4
  <2>2. TextOf(s, tight) = PlainOf(s.do, s.table, s.where, tight)
    <3>1. s.do # "insert" /\ s.do # "update"
      BY <2>1
    <3>2. QED BY <3>1, Zenon DEF TextOf, PlainOf
  <2>3. QED BY <2>1, <2>2, Zenon DEF TokenIs
<1>5. QED BY <1>2, <1>3, <1>4, Zenon DEF Statements

LEMMA StatementsRead ==
  \A s \in Statements, tight \in BOOLEAN :
     ParseQuery(TextOf(s, tight)) = IF RunsOver(s.where, tight) THEN {} ELSE {s}
<1>1. TAKE s \in Statements, tight \in BOOLEAN
<1>2. s.table \in TokenIs
  BY StatementText, Zenon
<1>3. CASE /\ s = [do |-> "insert", table |-> s.table, fields |-> s.fields, where |-> {}]
           /\ s.fields \in Fields /\ s.where = {}
           /\ TextOf(s, tight) = InsertOf(s.table, s.fields)
  <2>1. ~RunsOver({}, tight)
    BY Zenon DEF RunsOver
  <2>2. ParseQuery(InsertOf(s.table, s.fields)) = {s}
    BY <1>2, <1>3, InsertRead, Zenon
  <2>3. QED BY <1>3, <2>1, <2>2, Zenon
<1>4. CASE /\ s = [do |-> "update", table |-> s.table, fields |-> s.fields, where |-> s.where]
           /\ s.fields \in Fields /\ Len(s.fields) > 0 /\ s.where \in Wheres
           /\ TextOf(s, tight) = UpdateOf(s.table, s.fields, s.where, tight)
  <2>1. ParseQuery(UpdateOf(s.table, s.fields, s.where, tight)) =
          IF RunsOver(s.where, tight) THEN {}
          ELSE {[do |-> "update", table |-> s.table, fields |-> s.fields, where |-> s.where]}
    BY <1>2, <1>4, UpdateRead, Zenon
  <2>2. QED BY <1>4, <2>1, Zenon
<1>5. ASSUME NEW do \in {"select", "delete"},
             s = [do |-> do, table |-> s.table, fields |-> <<>>, where |-> s.where],
             s.where \in Wheres, TextOf(s, tight) = PlainOf(do, s.table, s.where, tight)
      PROVE  ParseQuery(TextOf(s, tight)) = IF RunsOver(s.where, tight) THEN {} ELSE {s}
  <2>1. ParseQuery(PlainOf(do, s.table, s.where, tight)) =
          IF RunsOver(s.where, tight) THEN {} ELSE {[do |-> do, table |-> s.table, fields |-> <<>>, where |-> s.where]}
    BY <1>2, <1>5, PlainRead, Zenon
  <2>2. QED BY <1>5, <2>1, Zenon
<1>6. QED BY <1>3, <1>4, <1>5, StatementText, Zenon

LEMMA ChangedRefused ==
  \A s \in Statements, more \in Tokens :
     /\ ParseQuery(Append(TextOf(s, FALSE), more)) = {}
     /\ ParseQuery(SubSeq(TextOf(s, FALSE), 1, Len(TextOf(s, FALSE)) - 1)) = {}
<1>1. TAKE s \in Statements, more \in Tokens
<1> DEFINE text == TextOf(s, FALSE)
<1>2. FALSE \in BOOLEAN
  OBVIOUS
<1>3. s.table \in TokenIs
  BY <1>2, StatementText, Zenon
<1>4. CASE s.fields \in Fields /\ text = InsertOf(s.table, s.fields)
  BY <1>3, <1>4, InsertChanged, Zenon
<1>5. CASE s.fields \in Fields /\ Len(s.fields) > 0 /\ s.where \in Wheres /\ text = UpdateOf(s.table, s.fields, s.where, FALSE)
  BY <1>2, <1>3, <1>5, UpdateChanged, Zenon
<1>6. ASSUME NEW do \in {"select", "delete"}, s.where \in Wheres, text = PlainOf(do, s.table, s.where, FALSE)
      PROVE  ParseQuery(Append(text, more)) = {} /\ ParseQuery(SubSeq(text, 1, Len(text) - 1)) = {}
  BY <1>2, <1>3, <1>6, PlainChanged, Zenon
<1>7. QED BY <1>2, <1>4, <1>5, <1>6, StatementText, Zenon


\* The text of a schema: columns from the fourth token on, four tokens each.
ColumnsAt(toks, columns) ==
  \A g \in 1 .. Len(columns) : /\ toks[4 * g] = Word(columns[g][1]) /\ toks[4 * g + 1] = Mark(":")
                               /\ toks[4 * g + 2] = Word(columns[g][2]) /\ toks[4 * g + 3] = Mark(";")

Schema == Seq(Columns \X Types)
ColumnsOf(columns) ==
  FlattenSeq([i \in DOMAIN columns |-> <<Word(columns[i][1]), Mark(":"), Word(columns[i][2]), Mark(";")>>])

LEMMA ColumnsText ==
  ASSUME NEW columns \in Schema, NEW flat, flat = ColumnsOf(columns)
  PROVE  /\ flat \in Seq(Tokens) /\ Len(flat) = 4 * Len(columns)
         /\ \A g \in 1 .. Len(columns) : /\ flat[4 * g - 3] = Word(columns[g][1]) /\ flat[4 * g - 2] = Mark(":")
                                         /\ flat[4 * g - 1] = Word(columns[g][2]) /\ flat[4 * g] = Mark(";")
<1> DEFINE N       == Len(columns)
           Part(i) == <<Word(columns[i][1]), Mark(":"), Word(columns[i][2]), Mark(";")>>
           parts   == [i \in DOMAIN columns |-> Part(i)]
           L       == [n \in 0 .. N |-> 4 * n]
<1>1. N \in Nat /\ DOMAIN columns = 1 .. N /\ \A i \in 1 .. N : columns[i][1] \in TokenIs /\ columns[i][2] \in TokenIs
  BY DEF Schema, TokenIs
<1>2. flat = FlattenSeq(parts)
  BY Zenon DEF ColumnsOf
<1>3. Mark(":") \in Tokens /\ Mark(";") \in Tokens
  <2>1. ":" \in TokenIs /\ ";" \in TokenIs
    BY DEF TokenIs, Signs
  <2>2. QED BY <2>1, TokensTyped
<1> HIDE DEF N
<1>4. ASSUME NEW i \in 1 .. N
      PROVE  /\ Part(i) \in Seq(Tokens) /\ Len(Part(i)) = 4
             /\ Part(i)[1] = Word(columns[i][1]) /\ Part(i)[2] = Mark(":")
             /\ Part(i)[3] = Word(columns[i][2]) /\ Part(i)[4] = Mark(";")
  <2> DEFINE a == Word(columns[i][1])
             b == Mark(":")
             c == Word(columns[i][2])
             d == Mark(";")
  <2>1. a \in Tokens /\ b \in Tokens /\ c \in Tokens /\ d \in Tokens
    BY <1>1, <1>3, TokensTyped
  <2>2. Part(i) = <<a, b, c, d>>
    OBVIOUS
  <2> HIDE DEF a, b, c, d, Part
  <2>3. /\ Part(i) \in Seq(Tokens) /\ Len(Part(i)) = 4
        /\ Part(i)[1] = a /\ Part(i)[2] = b /\ Part(i)[3] = c /\ Part(i)[4] = d
    BY <2>1, <2>2
  <2>4. QED BY <2>3, Zenon DEF a, b, c, d
<1> HIDE DEF Part
<1>5. parts \in Seq(Seq(Tokens)) /\ Len(parts) = N /\ \A i \in 1 .. N : parts[i] = Part(i)
  <2>1. parts = [i \in 1 .. N |-> Part(i)] /\ \A i \in 1 .. N : Part(i) \in Seq(Tokens)
    BY <1>1, <1>4
  <2> HIDE DEF parts
  <2>2. QED BY <1>1, <2>1
<1>6. L \in [0 .. N -> Nat] /\ L[0] = 0 /\ \A n \in 1 .. N : L[n] = 4 * n /\ L[n - 1] = 4 * n - 4
  BY <1>1
<1>7. L[N] = 4 * N
  BY <1>1
<1> HIDE DEF parts, L
<1>8. ASSUME NEW n \in 1 .. N PROVE L[n] = L[n - 1] + Len(parts[n])
  <2> DEFINE l == Len(parts[n])
  <2>1. l = 4
    BY <1>4, <1>5
  <2> HIDE DEF l
  <2>2. L[n] = L[n - 1] + l
    BY <1>1, <1>6, <2>1
  <2>3. QED BY <2>2 DEF l
<1>9. /\ flat \in Seq(Tokens) /\ Len(flat) = L[N]
      /\ \A n \in 1 .. N : \A k \in 1 .. Len(Part(n)) : flat[L[n - 1] + k] = Part(n)[k]
  <2>1. L \in [0 .. Len(parts) -> Nat] /\ \A n \in 1 .. Len(parts) : L[n] = L[n - 1] + Len(parts[n])
    BY <1>5, <1>6, <1>8
  <2>2. parts \in Seq(Seq(Tokens)) /\ L[0] = 0
    BY <1>5, <1>6
  <2>3. /\ FlattenSeq(parts) \in Seq(Tokens) /\ Len(FlattenSeq(parts)) = L[Len(parts)]
        /\ \A n \in 1 .. Len(parts) : \A k \in 1 .. Len(parts[n]) : FlattenSeq(parts)[L[n - 1] + k] = parts[n][k]
    BY <2>1, <2>2, FlattenPlaces, ZenonT(60)
  <2> DEFINE f == FlattenSeq(parts)
  <2>4. flat = f
    BY <1>2, Zenon DEF parts
  <2> HIDE DEF f
  <2>5. /\ f \in Seq(Tokens) /\ Len(f) = L[Len(parts)]
        /\ \A n \in 1 .. Len(parts) : \A k \in 1 .. Len(parts[n]) : f[L[n - 1] + k] = parts[n][k]
    BY <2>3 DEF f
  <2>6. QED BY <1>5, <2>4, <2>5
<1>10. ASSUME NEW g \in 1 .. N
       PROVE  /\ flat[4 * g - 3] = Word(columns[g][1]) /\ flat[4 * g - 2] = Mark(":")
              /\ flat[4 * g - 1] = Word(columns[g][2]) /\ flat[4 * g] = Mark(";")
  <2> DEFINE p == L[g - 1]
  <2>1. p = 4 * g - 4 /\ g \in Int
    <3>1. g \in Int
      BY <1>1
    <3>2. L[g - 1] = 4 * g - 4
      BY <1>6, Zenon
    <3>3. QED BY <3>1, <3>2, Zenon
  <2>2. \A k \in 1 .. 4 : flat[p + k] = Part(g)[k]
    BY <1>4, <1>9
  <2> HIDE DEF p
  <2>3. flat[p + 1] = Part(g)[1] /\ flat[p + 2] = Part(g)[2] /\ flat[p + 3] = Part(g)[3] /\ flat[p + 4] = Part(g)[4]
    <3>1. 1 \in 1 .. 4 /\ 2 \in 1 .. 4 /\ 3 \in 1 .. 4 /\ 4 \in 1 .. 4
      OBVIOUS
    <3>2. QED BY <2>2, <3>1, Zenon
  <2>4. p + 1 = 4 * g - 3 /\ p + 2 = 4 * g - 2 /\ p + 3 = 4 * g - 1 /\ p + 4 = 4 * g
    BY <2>1
  <2>5. QED BY <1>4, <2>3, <2>4
<1>11. Len(flat) = 4 * N
  BY <1>7, <1>9
<1>12. QED BY <1>9, <1>10, <1>11, Zenon DEF N

LEMMA SchemaText ==
  ASSUME NEW name \in TokenIs, NEW columns \in Schema, NEW toks, toks = TextOfSchema(name, columns)
  PROVE  /\ toks \in Seq(Tokens) /\ Len(toks) = 4 * Len(columns) + 4
         /\ toks[1] = Word("table") /\ toks[2] = Word(name) /\ toks[3] = Mark("{")
         /\ ColumnsAt(toks, columns) /\ toks[Len(toks)] = Mark("}")
<1> DEFINE N     == Len(columns)
           a     == Word("table")
           b     == Word(name)
           c     == Mark("{")
           d     == Mark("}")
           head  == <<a, b, c>>
           flat  == ColumnsOf(columns)
           close == <<d>>
           begun == head \o flat
<1>1. N \in Nat
  BY DEF Schema
<1>2. /\ flat \in Seq(Tokens) /\ Len(flat) = 4 * N
      /\ \A g \in 1 .. N : /\ flat[4 * g - 3] = Word(columns[g][1]) /\ flat[4 * g - 2] = Mark(":")
                           /\ flat[4 * g - 1] = Word(columns[g][2]) /\ flat[4 * g] = Mark(";")
  BY ColumnsText, Zenon
<1>3. a \in Tokens /\ b \in Tokens /\ c \in Tokens /\ d \in Tokens
  <2>1. "table" \in TokenIs /\ "{" \in TokenIs /\ "}" \in TokenIs
    BY DEF TokenIs, Signs
  <2>2. QED BY <2>1, TokensTyped
<1>4. toks = begun \o close
  BY Zenon DEF TextOfSchema, ColumnsOf
<1> HIDE DEF a, b, c, d, N, flat
<1>5. /\ head \in Seq(Tokens) /\ Len(head) = 3 /\ head[1] = a /\ head[2] = b /\ head[3] = c
      /\ close \in Seq(Tokens) /\ Len(close) = 1 /\ close[1] = d
  BY <1>3
<1> HIDE DEF head, close, begun
<1>6. /\ begun \in Seq(Tokens) /\ Len(begun) = Len(head) + Len(flat)
      /\ \A i \in 1 .. Len(head) : begun[i] = head[i]
      /\ \A k \in 1 .. Len(flat) : begun[Len(head) + k] = flat[k]
  <2>1. head \in Seq(Tokens) /\ flat \in Seq(Tokens)
    BY <1>2, <1>5
  <2>2. QED BY <2>1, Joined DEF begun
<1>7. /\ toks \in Seq(Tokens) /\ Len(toks) = Len(begun) + Len(close)
      /\ \A i \in 1 .. Len(begun) : toks[i] = begun[i]
      /\ \A k \in 1 .. Len(close) : toks[Len(begun) + k] = close[k]
  <2>1. begun \in Seq(Tokens) /\ close \in Seq(Tokens)
    BY <1>5, <1>6
  <2>2. QED BY <1>4, <2>1, Joined
<1>8. Len(begun) = 4 * N + 3 /\ Len(toks) = 4 * N + 4
  <2>1. Len(flat) = 4 * N /\ Len(head) = 3 /\ Len(close) = 1
    BY <1>2, <1>5
  <2>2. Len(begun) = Len(head) + Len(flat) /\ Len(toks) = Len(begun) + Len(close)
    BY <1>6, <1>7
  <2>3. QED BY <1>1, <2>1, <2>2
<1>9. toks[1] = a /\ toks[2] = b /\ toks[3] = c
  <2>1. 1 \in 1 .. 4 * N + 3 /\ 2 \in 1 .. 4 * N + 3 /\ 3 \in 1 .. 4 * N + 3
    BY <1>1
  <2>2. toks[1] = begun[1] /\ toks[2] = begun[2] /\ toks[3] = begun[3]
    BY <1>7, <1>8, <2>1
  <2>3. begun[1] = head[1] /\ begun[2] = head[2] /\ begun[3] = head[3]
    BY <1>5, <1>6
  <2>4. QED BY <1>5, <2>2, <2>3
<1>10. toks[Len(toks)] = d
  <2> DEFINE l == Len(begun)
  <2>1. l = 4 * N + 3 /\ toks[l + 1] = close[1]
    BY <1>5, <1>7, <1>8
  <2> HIDE DEF l
  <2>2. l + 1 = 4 * N + 4
    BY <1>1, <2>1
  <2>3. QED BY <1>5, <1>8, <2>1, <2>2
<1>11. \A k \in 1 .. 4 * N : toks[3 + k] = flat[k]
  <2>1. TAKE k \in 1 .. 4 * N
  <2> DEFINE i == 3 + k
  <2>2. i \in 1 .. 4 * N + 3
    BY <1>1
  <2>3. begun[i] = flat[k]
    BY <1>2, <1>5, <1>6
  <2> HIDE DEF i
  <2>4. toks[i] = begun[i]
    BY <1>7, <1>8, <2>2
  <2>5. QED BY <2>3, <2>4 DEF i
<1>12. ASSUME NEW g \in 1 .. N
       PROVE  /\ toks[4 * g] = Word(columns[g][1]) /\ toks[4 * g + 1] = Mark(":")
              /\ toks[4 * g + 2] = Word(columns[g][2]) /\ toks[4 * g + 3] = Mark(";")
  <2> DEFINE i == 4 * g - 3
             j == 4 * g - 2
             k == 4 * g - 1
             l == 4 * g
  <2>1. /\ i \in 1 .. 4 * N /\ j \in 1 .. 4 * N /\ k \in 1 .. 4 * N /\ l \in 1 .. 4 * N
        /\ 3 + i = 4 * g /\ 3 + j = 4 * g + 1 /\ 3 + k = 4 * g + 2 /\ 3 + l = 4 * g + 3
    BY <1>1
  <2>2. /\ flat[i] = Word(columns[g][1]) /\ flat[j] = Mark(":")
        /\ flat[k] = Word(columns[g][2]) /\ flat[l] = Mark(";")
    BY <1>2
  <2> HIDE DEF i, j, k, l
  <2>3. toks[3 + i] = flat[i] /\ toks[3 + j] = flat[j] /\ toks[3 + k] = flat[k] /\ toks[3 + l] = flat[l]
    BY <1>11, <2>1
  <2>4. QED BY <2>1, <2>2, <2>3
<1>13. ColumnsAt(toks, columns)
  BY <1>12, Zenon DEF ColumnsAt, N
<1>14. QED BY <1>7, <1>8, <1>9, <1>10, <1>13, Zenon DEF N, a, b, c, d


\* What parse_schema makes of n columns.
SchemaOf(toks, n) ==
  [table |-> toks[2].is, columns |-> [g \in 1 .. n |-> <<toks[4 * g].is, toks[4 * g + 2].is>>]]

\* A schema is read as it was written, unless it has a column twice.
LEMMA SchemaRead ==
  ASSUME NEW name \in TokenIs, NEW columns \in Schema
  PROVE  ParseSchema(TextOfSchema(name, columns)) =
           IF \E i, j \in DOMAIN columns : i # j /\ columns[i][1] = columns[j][1] THEN {}
           ELSE {[table |-> name, columns |-> columns]}
<1> DEFINE N    == Len(columns)
           toks == TextOfSchema(name, columns)
           len  == Len(toks)
           twice == \E i, j \in 1 .. N : i # j /\ columns[i][1] = columns[j][1]
<1>1. /\ toks \in Seq(Tokens) /\ len = 4 * N + 4
      /\ toks[1] = Word("table") /\ toks[2] = Word(name) /\ toks[3] = Mark("{")
      /\ ColumnsAt(toks, columns) /\ toks[len] = Mark("}")
  <2>1. toks = TextOfSchema(name, columns)
    OBVIOUS
  <2> HIDE DEF toks
  <2>2. QED BY <2>1, SchemaText
<1>2. /\ N \in Nat /\ DOMAIN columns = 1 .. N /\ columns = [g \in 1 .. N |-> <<columns[g][1], columns[g][2]>>]
      /\ \A g \in 1 .. N : columns[g][2] \in Types
  BY DEF Schema
<1> HIDE DEF N, toks
<1>3. DOMAIN toks = 1 .. len
  BY <1>1, LenProperties
<1>4. len = 4 * N + 4
  BY <1>1
<1> HIDE DEF len
<1>5. ASSUME NEW g \in 1 .. N
      PROVE  /\ Named(toks, 4 * g) /\ Is(toks, 4 * g + 1, ":") /\ Named(toks, 4 * g + 2) /\ Is(toks, 4 * g + 3, ";")
             /\ toks[4 * g].is = columns[g][1] /\ toks[4 * g + 2].is = columns[g][2]
  <2> DEFINE i == 4 * g
             j == 4 * g + 1
             k == 4 * g + 2
             l == 4 * g + 3
  <2>1. i \in 1 .. len /\ j \in 1 .. len /\ k \in 1 .. len /\ l \in 1 .. len
    <3>1. N \in Nat
      BY <1>2
    <3>2. QED BY <1>4, <3>1
  <2>2. toks[i] = Word(columns[g][1]) /\ toks[j] = Mark(":") /\ toks[k] = Word(columns[g][2]) /\ toks[l] = Mark(";")
    BY <1>1, Zenon DEF ColumnsAt, N
  <2> HIDE DEF i, j, k, l
  <2>3. /\ toks[i].kind = "word" /\ toks[i].is = columns[g][1] /\ toks[j].kind = "mark" /\ toks[j].is = ":"
        /\ toks[k].kind = "word" /\ toks[k].is = columns[g][2] /\ toks[l].kind = "mark" /\ toks[l].is = ";"
    BY <2>2, TokenParts, Zenon
  <2>4. /\ Named(toks, i) /\ Is(toks, j, ":") /\ Named(toks, k) /\ Is(toks, l, ";")
    BY <1>3, <2>1, <2>3, Zenon DEF Named, Is
  <2>5. QED BY <2>3, <2>4, Zenon DEF i, j, k, l
<1>6. Is(toks, 1, "table") /\ Named(toks, 2) /\ Is(toks, 3, "{") /\ Is(toks, 4 * N + 4, "}")
  <2>1. 1 \in 1 .. len /\ 2 \in 1 .. len /\ 3 \in 1 .. len /\ len \in 1 .. len
    <3>1. N \in Nat
      BY <1>2
    <3>2. QED BY <1>4, <3>1
  <2>2. /\ toks[1].kind = "word" /\ toks[1].is = "table" /\ toks[2].kind = "word"
        /\ toks[3].kind = "mark" /\ toks[3].is = "{" /\ toks[len].kind = "mark" /\ toks[len].is = "}"
    BY <1>1, TokenParts, Zenon
  <2>3. Is(toks, 1, "table") /\ Named(toks, 2) /\ Is(toks, 3, "{") /\ Is(toks, len, "}")
    BY <1>3, <2>1, <2>2, Zenon DEF Is, Named
  <2>4. QED BY <1>4, <2>3, Zenon
<1>7. \A n \in Schemas(toks) : n = N
  <2>1. TAKE n \in Schemas(toks)
  <2>2. n \in 0 .. len /\ len = 4 * n + 4
    BY Zenon DEF Schemas, len
  <2>3. N \in Nat
    BY <1>2
  <2>4. QED BY <1>4, <2>2, <2>3
<1>8. N \in Schemas(toks) <=> ~twice
  <2>1. N \in 0 .. len /\ Len(toks) = 4 * N + 4
    <3>1. N \in Nat
      BY <1>2
    <3>2. N \in 0 .. len
      BY <1>4, <3>1
    <3>3. QED BY <1>4, <3>2, Zenon DEF len
  <2>2. \A g \in 1 .. N : /\ Named(toks, 4 * g) /\ Is(toks, 4 * g + 1, ":")
                          /\ Named(toks, 4 * g + 2)
                          /\ toks[4 * g + 2].is \in {"int", "double", "bool", "string"}
                          /\ Is(toks, 4 * g + 3, ";")
    <3>1. \A g \in 1 .. N : toks[4 * g + 2].is \in Types
      BY <1>2, <1>5, Zenon
    <3>2. QED BY <1>5, <3>1, Zenon DEF Types
  <2>3. (\A g, h \in 1 .. N : toks[4 * g].is = toks[4 * h].is => g = h) <=> ~twice
    <3>1. \A g \in 1 .. N : toks[4 * g].is = columns[g][1]
      BY <1>5, Zenon
    <3>2. QED BY <3>1, ZenonT(60)
  <2> DEFINE typed  == \A g \in 1 .. N : /\ Named(toks, 4 * g) /\ Is(toks, 4 * g + 1, ":")
                                         /\ Named(toks, 4 * g + 2)
                                         /\ toks[4 * g + 2].is \in {"int", "double", "bool", "string"}
                                         /\ Is(toks, 4 * g + 3, ";")
             single == \A g, h \in 1 .. N : toks[4 * g].is = toks[4 * h].is => g = h
             ends   == Is(toks, 1, "table") /\ Named(toks, 2) /\ Is(toks, 3, "{") /\ Is(toks, 4 * N + 4, "}")
  <2> HIDE DEF twice
  <2>4. typed /\ (single <=> ~twice) /\ ends
    BY <1>6, <2>2, <2>3, Zenon
  <2>5. N \in Schemas(toks) <=> N \in 0 .. len /\ ends /\ typed /\ single /\ Len(toks) = 4 * N + 4
    BY Zenon DEF Schemas, len
  <2> HIDE DEF typed, single, ends
  <2>6. QED BY <2>1, <2>4, <2>5, Zenon
<1>9. SchemaOf(toks, N) = [table |-> name, columns |-> columns]
  <2>1. toks[2].is = name
    BY <1>1, TokenParts, Zenon
  <2>2. \A g \in 1 .. N : <<toks[4 * g].is, toks[4 * g + 2].is>> = <<columns[g][1], columns[g][2]>>
    BY <1>5, Zenon
  <2>3. [g \in 1 .. N |-> <<toks[4 * g].is, toks[4 * g + 2].is>>] = [g \in 1 .. N |-> <<columns[g][1], columns[g][2]>>]
    BY <2>2, Zenon
  <2>4. QED BY <1>2, <2>1, <2>3, Zenon DEF SchemaOf
<1>10. ParseSchema(toks) = {SchemaOf(toks, n) : n \in Schemas(toks)}
  BY Zenon DEF ParseSchema, SchemaOf
<1>11. ParseSchema(toks) = IF twice THEN {} ELSE {[table |-> name, columns |-> columns]}
  <2> HIDE DEF twice
  <2>1. CASE twice
    <3>1. Schemas(toks) = {}
      BY <1>7, <1>8, <2>1, Zenon
    <3>2. QED BY <1>10, <2>1, <3>1, Zenon
  <2>2. CASE ~twice
    <3>1. Schemas(toks) = {N}
      BY <1>7, <1>8, <2>2, Zenon
    <3>2. {SchemaOf(toks, n) : n \in Schemas(toks)} = {SchemaOf(toks, N)}
      BY <3>1, Zenon
    <3>3. QED BY <1>9, <1>10, <2>2, <3>2, Zenon
  <2>3. QED BY <2>1, <2>2
<1>12. QED BY <1>2, <1>11, Zenon DEF toks

\* Texts of statements and schemas are read as they were written, or refused
\* for an operator that runs on or a column that is there twice; with a token
\* more or less a statement is refused (src/ZethaMEM.hpp, parse_query).
THEOREM StatementsReadBack == TablesSpec => []ReadsBack
<1>1. ReadsBack
  <2>1. \A s \in Statements, tight \in BOOLEAN :
          ParseQuery(TextOf(s, tight)) =
            IF tight /\ \E w \in s.where : BeginsInWord(w.value)
            THEN {} ELSE {s}
    BY StatementsRead, Zenon DEF RunsOver
  <2>2. \A t \in DOMAIN tables, l \in Layouts :
          ParseSchema(TextOfSchema(t, l)) =
            IF \E i, j \in DOMAIN l : i # j /\ l[i][1] = l[j][1] THEN {} ELSE {[table |-> t, columns |-> l]}
    <3>1. \A l \in Layouts : l \in Schema
      BY TablesAssumption DEF Schema
    <3>2. \A t \in DOMAIN tables : t \in TokenIs
      BY DEF TokenIs
    <3>3. QED BY <3>1, <3>2, SchemaRead, Zenon
  <2>3. \A s \in Statements, more \in {Word("x"), Mark("}")} \cup {Literal(v) : v \in Literals} :
          /\ ParseQuery(Append(TextOf(s, FALSE), more)) = {}
          /\ ParseQuery(SubSeq(TextOf(s, FALSE), 1, Len(TextOf(s, FALSE)) - 1)) = {}
    <3>1. "x" \in TokenIs /\ "}" \in TokenIs /\ \A v \in Literals : v \in TokenIs
      BY DEF TokenIs, Signs
    <3>2. Word("x") \in Tokens /\ Mark("}") \in Tokens /\ \A v \in Literals : Literal(v) \in Tokens
      BY <3>1, TokensTyped, Zenon
    <3>3. {Word("x"), Mark("}")} \cup {Literal(v) : v \in Literals} \subseteq Tokens
      BY <3>2, Zenon
    <3>4. QED BY <3>3, ChangedRefused, Zenon
  <2>4. QED BY <2>1, <2>2, <2>3, Zenon DEF ReadsBack
<1>2. QED BY <1>1, PTL
=============================================================================
