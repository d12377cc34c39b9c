------------------------------ MODULE ZethaTables ------------------------------
(***************************************************************************)
(* The tables of ZethaMEM.hpp: a Database in memory, and statements that   *)
(* either run or throw an Error.  A statement is a record of what          *)
(* parse_schema or parse_query makes of its text, see ZethaMemText.        *)
(*                                                                         *)
(* A value is its type and a number; an int is a whole number of halves, a *)
(* double any number of them, so that the one has less room than the other; *)
(* a bool is 0 or 1.                                                       *)
(***************************************************************************)
EXTENDS Integers, Sequences, FiniteSets, SequencesExt

CONSTANTS
  Names,       \* names of tables, the empty one perhaps among them
  NoName,      \* the empty one
  Columns,     \* names of columns
  Layouts,     \* the columns callers give tables: sequences of <<name, type>>
  Literals,    \* values in statements
  Lists,       \* their lists of <<column, literal>>
  Wheres,      \* their predicates, each {} or {[column, op, value]}
  MaxRows      \* bound: rows of a table

Types == {"int", "double", "bool", "string"}
Ops   == {"==", "!=", "<", "<=", ">", ">="}
IsNum(type) == type \in {"int", "double"}
TableValues ==
  {v \in [type : Types, num : Int] : /\ v.type = "int" => v.num % 2 = 0
                                     /\ v.type = "bool" => v.num \in {0, 1}}

ASSUME TablesAssumption ==
  /\ NoName \in Names
  /\ \A l \in Layouts : l \in Seq(Columns \X Types)
  /\ \A l \in Lists : l \in Seq(STRING \X Literals)
  /\ Literals \subseteq TableValues
  /\ \A where \in Wheres : \A v, w \in where : v = w
  /\ \A w \in UNION Wheres : /\ w = [column |-> w.column, op |-> w.op, value |-> w.value]
                             /\ w.op \in Ops /\ w.value \in Literals
  /\ MaxRows \in Nat

VARIABLES
  tables,      \* the tables there are: their column types and their rows
  affected,    \* what the last statement says it has done
  answer       \* whether it has thrown

tablesVars == <<tables, affected, answer>>

TablesInit == tables = <<>> /\ affected = 0 /\ answer = "none"

-----------------------------------------------------------------------------
(* Values.                                                                 *)

\* A double becomes an int by losing its fraction, towards zero.
Whole(n) == IF n >= 0 THEN 2 * (n \div 2) ELSE -(2 * ((-n) \div 2))

\* parse_typed_value: the value in a column of that type, if it can be one.
Typed(type, v) ==
  IF v.type = type THEN {v}
  ELSE IF IsNum(v.type) /\ IsNum(type)
       THEN {[type |-> type, num |-> IF type = "int" THEN Whole(v.num) ELSE v.num]}
  ELSE {}

\* column_index and parse_typed_value throw.
Bad(types, column, v) == column \notin DOMAIN types \/ Typed(types[column], v) = {}

\* Mutant: up to is below.
HoldsStrictly(a, op, b) ==
  CASE op = "==" -> a = b [] op = "<" -> a < b [] op = "<=" -> a < b
    [] op = "!=" -> a # b [] op = ">" -> a > b [] op = ">=" -> a >= b

Holds(a, op, b) ==
  CASE op = "==" -> a = b [] op = "<" -> a < b [] op = "<=" -> a <= b
    [] op = "!=" -> a # b [] op = ">" -> a > b [] op = ">=" -> a >= b

\* matches, where no column or value is bad; both sides are of the column's type.
Matches(types, row, where) ==
  \A w \in where : \E b \in Typed(types[w.column], w.value) : Holds(row[w.column].num, w.op, b.num)

\* A bad predicate throws at the first row it is put to: not if there is none.
Throws(t, where) == /\ tables[t].rows # <<>>
                    /\ \E w \in where : Bad(tables[t].types, w.column, w.value)

\* The rows at the places in S, put one behind the other as the loop comes to them.
Only(rows, S) ==
  LET kept[n \in 0 .. Len(rows)] ==
        IF n = 0 THEN <<>> ELSE IF n \in S THEN Append(kept[n - 1], rows[n]) ELSE kept[n - 1]
  IN  kept[Len(rows)]

Matching(t, where) == {i \in DOMAIN tables[t].rows : Matches(tables[t].types, tables[t].rows[i], where)}

\* select: the rows that match, in order.
Select(t, where) == Only(tables[t].rows, Matching(t, where))

\* A row with the fields put into it one after the other.
Assigned(types, row, fields) ==
  [c \in DOMAIN types |->
     LET given == {i \in 1 .. Len(fields) : fields[i][1] = c}
     IN  IF given = {} THEN row[c]
         ELSE CHOOSE v \in Typed(types[c], fields[Max(given)][2]) : TRUE]

-----------------------------------------------------------------------------
(* Statements.                                                             *)

Rows(t, rows) == [tables EXCEPT ![t].rows = rows]
Done(n)       == answer' = "ok" /\ affected' = n
Thrown        == answer' = "error" /\ affected' = 0

\* rebuild_index: where the columns are, {} if one is given twice.
IndexByName(layout) ==
  IF \E i, j \in DOMAIN layout : i # j /\ layout[i][1] = layout[j][1] THEN {}
  ELSE {[c \in {l[1] : l \in ToSet(layout)} |-> CHOOSE i \in DOMAIN layout : layout[i][1] = c]}

\* create_table refuses a name twice, a column twice, and the empty name.
CreateTable(t, layout) ==
  IF t # NoName /\ t \notin DOMAIN tables /\ IndexByName(layout) # {}
  THEN /\ \E index \in IndexByName(layout) :
            tables' = [u \in DOMAIN tables \cup {t} |->
              IF u = t THEN [types |-> [c \in DOMAIN index |-> layout[index[c]][2]], rows |-> <<>>] ELSE tables[u]]
       /\ Done(0)
  ELSE Thrown /\ UNCHANGED tables

\* insert: every column, none unknown, each value of its type; a column that is
\* given twice takes the later value.
Insert(t, fields) ==
  LET types == tables[t].types IN
  /\ Len(tables[t].rows) < MaxRows
  /\ IF /\ \A i \in 1 .. Len(fields) : ~Bad(types, fields[i][1], fields[i][2])
        /\ {f[1] : f \in ToSet(fields)} = DOMAIN types
     THEN tables' = Rows(t, Append(tables[t].rows, Assigned(types, <<>>, fields))) /\ Done(1)
     ELSE Thrown /\ UNCHANGED tables

\* Mutant: remove_if without erase, what is left behind it stays.
DeleteLeavesRest(t, where) ==
  LET rows == tables[t].rows
      rest == Only(rows, DOMAIN rows \ Matching(t, where))
  IN  IF Throws(t, where) THEN Thrown /\ UNCHANGED tables
      ELSE /\ tables' = Rows(t, rest \o SubSeq(rows, Len(rest) + 1, Len(rows)))
           /\ Done(Len(rows) - Len(rest))

Delete(t, where) ==
  LET rows == tables[t].rows
      rest == Only(rows, DOMAIN rows \ Matching(t, where))
  IN  IF Throws(t, where) THEN Thrown /\ UNCHANGED tables
      ELSE tables' = Rows(t, rest) /\ Done(Len(rows) - Len(rest))

\* Mutant: every row is changed up to the bad assignment.
StoppedEverywhere(rows, types, where, good) ==
  [i \in DOMAIN rows |-> IF Matches(types, rows[i], where) THEN Assigned(types, rows[i], good) ELSE rows[i]]

\* The first row that matches is changed up to the bad assignment.
Stopped(rows, types, where, good) ==
  LET first == Min({i \in DOMAIN rows : Matches(types, rows[i], where)})
  IN  [rows EXCEPT ![first] = Assigned(types, @, good)]

\* update goes through the rows, and in each through the assignments: a bad
\* one throws at the first row it is to be assigned to, and not if there is none.
Update(t, fields, where) ==
  LET rows  == tables[t].rows
      types == tables[t].types
      bad   == {i \in 1 .. Len(fields) : Bad(types, fields[i][1], fields[i][2])}
  IN  IF Throws(t, where) THEN Thrown /\ UNCHANGED tables
      ELSE IF bad = {} \/ Select(t, where) = <<>>
      THEN /\ tables' = Rows(t, [i \in DOMAIN rows |->
                          IF Matches(types, rows[i], where) THEN Assigned(types, rows[i], fields)
                                                            ELSE rows[i]])
           /\ Done(Len(Select(t, where)))
      ELSE /\ tables' = Rows(t, Stopped(rows, types, where, SubSeq(fields, 1, Min(bad) - 1)))
           /\ Thrown

\* Database::table throws.
NoTable(t) == t \notin DOMAIN tables /\ Thrown /\ UNCHANGED tables

TablesNext ==
  \E t \in Names :
     \/ \E l \in Layouts : CreateTable(t, l)
     \/ NoTable(t)
     \/ /\ t \in DOMAIN tables
        /\ \/ \E f \in Lists : Insert(t, f) \/ \E w \in Wheres : Update(t, f, w)
           \/ \E w \in Wheres : Delete(t, w)

TablesSpec == TablesInit /\ [][TablesNext]_tablesVars

-----------------------------------------------------------------------------
(* Properties.                                                             *)

\* Every variable has its type: in particular every cell the type of its column,
\* whole if that is int, also after a statement that threw half way.
TablesTypeOK ==
  /\ \A t \in DOMAIN tables :
       /\ t \in Names \ {NoName}
       /\ \A i \in DOMAIN tables[t].rows :
            /\ DOMAIN tables[t].rows[i] = DOMAIN tables[t].types
            /\ \A c \in DOMAIN tables[t].types :
                 /\ tables[t].rows[i][c] \in TableValues
                 /\ tables[t].rows[i][c].type = tables[t].types[c]
  /\ affected \in 0 .. MaxRows
  /\ answer \in {"none", "ok", "error"}

\* A statement that throws half way has changed no more than one row of one
\* table, has added none and has taken none away.
ThrownChangesOneRow ==
  [][answer' = "error" =>
       /\ DOMAIN tables' = DOMAIN tables
       /\ Cardinality({p \in Names \X (1 .. MaxRows) :
                         /\ p[1] \in DOMAIN tables /\ p[2] \in DOMAIN tables[p[1]].rows
                         /\ tables'[p[1]].rows[p[2]] # tables[p[1]].rows[p[2]]}) <= 1
       /\ \A t \in DOMAIN tables : Len(tables'[t].rows) = Len(tables[t].rows)]_tablesVars

\* What update and delete say they have affected is as many rows as a select with
\* the same predicate would have shown.  Delete leaves the others, each moved up
\* by the rows gone before it; update leaves each of them in its place.
AffectsWhatItSelects ==
  [][\A t \in DOMAIN tables, w \in Wheres :
       LET rows == tables[t].rows
           left == tables'[t].rows
           gone(i) == Cardinality({j \in 1 .. i : Matches(tables[t].types, rows[j], w)})
           others  == {i \in DOMAIN rows : ~Matches(tables[t].types, rows[i], w)}
       IN  /\ Delete(t, w) /\ answer' = "ok" =>
                /\ affected' = Len(Select(t, w)) /\ Len(left) = Len(rows) - affected'
                /\ \A i \in others : left[i - gone(i)] = rows[i]
           /\ \A f \in Lists : Update(t, f, w) /\ answer' = "ok" =>
                /\ affected' = Len(Select(t, w)) /\ Len(left) = Len(rows)
                /\ \A i \in others : left[i] = rows[i]]_tablesVars

\* What the operators say of two numbers.
Compare(a, op, b) ==
  CASE op = "<"  -> a < b     [] op = ">"  -> b < a
    [] op = "<=" -> ~(b < a)  [] op = ">=" -> ~(a < b)
    [] op = "==" -> ~(a < b \/ b < a)
    [] op = "!=" -> a < b \/ b < a

\* Comparing in the column's type is comparing the numbers themselves, for every
\* literal that the column's type has room for.
ComparesNumbers ==
  \A t \in DOMAIN tables, c \in Columns, op \in Ops, v \in Literals :
    ~Bad(tables[t].types, c, v) /\ (tables[t].types[c] = "int" => v.num % 2 = 0) =>
      \A i \in DOMAIN tables[t].rows :
        Matches(tables[t].types, tables[t].rows[i], {[column |-> c, op |-> op, value |-> v]})
          <=> Compare(tables[t].rows[i][c].num, op, v.num)
=============================================================================
