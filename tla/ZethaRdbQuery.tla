------------------------------ MODULE ZethaRdbQuery ------------------------------
(* Queries: how the builders of ZethaQUERY.hpp put them together, and how        *)
(* ZethaRDB finds the rows that fit. A cell is [kind, data], its data a string;   *)
(* a number is one without a fraction. Expressions are terms:                   *)
(*   <<"literal", cell>>, <<"name", n>>, <<"attribute", a>>, <<"call", n>>,      *)
(*   <<"compare", op, e, f>>, <<"and", e, f>>, <<"or", e, f>>, <<"not", e>>.      *)
EXTENDS Naturals, Sequences, SequencesExt

CONSTANTS
  IntegerText,   \* what std::to_string makes of a number
  RealText,      \* what a stream makes of it: six digits
  NumberIn,      \* what std::stod finds in a string, 0 where it finds nothing
  TextOrder      \* the strings, in their order

NullCell       == [kind |-> "null", data |-> ""]
IntegerCell(n) == [kind |-> "integer", data |-> IntegerText[n]]
RealCell(n)    == [kind |-> "real", data |-> RealText[n]]
BooleanCell(b) == [kind |-> "boolean", data |-> IF b THEN "true" ELSE "false"]
TextCell(s)    == [kind |-> "text", data |-> s]

AsF64(cell)  == NumberIn[cell.data]
AsBool(cell) == cell.data \in {"true", "1"}

\* lit() of a number is a literal that keeps it; what is made of it when it is
\* compared is a cell, with the digits a cell has.
LiteralNumber(n) == <<"literal", <<"number", n>>>>
LiteralText(s)   == <<"literal", <<"string", s>>>>
LiteralBool(b)   == <<"literal", <<"bool", b>>>>
LiteralNull      == <<"literal", <<"null">>>>

Holds(op, less, same) ==
  CASE op = "==" -> same [] op = "!=" -> ~same
    [] op = "<"  -> less [] op = "<=" -> less \/ same
    [] op = ">"  -> ~less /\ ~same [] op = ">=" -> ~less

TextBefore(s, t) ==
  LET place(x) == CHOOSE i \in DOMAIN TextOrder : TextOrder[i] = x IN place(s) < place(t)

\* MUTANT: cells of two kinds are compared as text.
CompareValuesByKind(lhs, rhs, op) ==
  IF lhs.kind = rhs.kind /\ lhs.kind = "integer" THEN Holds(op, AsF64(lhs) < AsF64(rhs), AsF64(lhs) = AsF64(rhs))
  ELSE Holds(op, TextBefore(lhs.data, rhs.data), lhs.data = rhs.data)

\* Numbers if one side is a number, else booleans if one is a boolean, else text.
CompareValues(lhs, rhs, op) ==
  LET kinds == {lhs.kind, rhs.kind}
  IN  IF kinds \cap {"integer", "real"} # {}
      THEN Holds(op, AsF64(lhs) < AsF64(rhs), AsF64(lhs) = AsF64(rhs))
      ELSE IF "boolean" \in kinds
      THEN Holds(op, ~AsBool(lhs) /\ AsBool(rhs), AsBool(lhs) = AsBool(rhs))
      ELSE Holds(op, TextBefore(lhs.data, rhs.data), lhs.data = rhs.data)

\* {} or {the cell}.
EvalRhsExpr(e, row) ==
  CASE e[1] = "literal" -> {CASE e[2][1] = "null"   -> NullCell
                              [] e[2][1] = "bool"   -> BooleanCell(e[2][2])
                              [] e[2][1] = "number" -> RealCell(e[2][2])
                              [] e[2][1] = "string" -> TextCell(e[2][2])}
    [] e[1] = "name" -> {TextCell(e[2])}
    [] e[1] = "attribute" /\ e[2] \in DOMAIN row -> {row[e[2]]}
    [] OTHER -> {}

\* A comparison is of an attribute with something, in that order; whatever
\* cannot be evaluated is false.
RECURSIVE EvalPredicate(_, _)
EvalPredicate(e, row) ==
  CASE e[1] = "compare" ->
         /\ e[3][1] = "attribute" /\ e[3][2] \in DOMAIN row
         /\ \E rhs \in EvalRhsExpr(e[4], row) : CompareValues(row[e[3][2]], rhs, e[2])
    [] e[1] = "and" -> EvalPredicate(e[2], row) /\ EvalPredicate(e[3], row)
    [] e[1] = "or"  -> EvalPredicate(e[2], row) \/ EvalPredicate(e[3], row)
    [] e[1] = "not" -> ~EvalPredicate(e[2], row)
    [] OTHER -> FALSE

RowMatchesStep(row, step) == \A i \in DOMAIN step.predicates : EvalPredicate(step.predicates[i], row)

-----------------------------------------------------------------------------
(* The builders: calls of step, <<"step", axis, name>> with name "*" for any,    *)
(* and of where, <<"where", e>>.                                              *)

NewStep(axis, name) == [axis |-> axis, name |-> name, predicates |-> <<>>]

\* {} if where() throws, else {the steps of the path}.
BuiltBy(calls) ==
  FoldLeft(LAMBDA built, call :
             UNION {CASE call[1] = "step"  -> {Append(steps, NewStep(call[2], call[3]))}
                      [] call[1] = "where" ->
                           IF steps = <<>> THEN {}
                           ELSE {[steps EXCEPT ![Len(steps)].predicates = Append(@, call[2])]}
                    : steps \in built},
           {<<>>}, calls)

\* query: {} for an error, else {the rows that fit}, of tables that have these
\* rows. The axis of the step counts for nothing.
QueryTable(steps, tables) ==
  IF Len(steps) # 1 \/ steps[1].name \notin DOMAIN tables THEN {}
  ELSE {{row \in tables[steps[1].name] : RowMatchesStep(row, steps[1])}}
=============================================================================
