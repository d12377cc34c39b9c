------------------------------ MODULE MCZethaMem ------------------------------
(* ZethaMEM.hpp for TLC: the tables in memory and the file of records beside  *)
(* them, which share no state; part says which of them a behaviour runs.       *)
EXTENDS ZethaMemDb, ZethaMemText, TLC

VARIABLE part

bothVars == <<part, vars, tablesVars>>

-----------------------------------------------------------------------------
(* A plain record, one with a bar, one with a long double.                   *)

CONSTANTS plain, piped, precise

MCKept      == [x \in Values |-> IF x = precise THEN plain ELSE x]
AppSymmetry == Permutations(Apps)

-----------------------------------------------------------------------------
(* One table with a column of each kind that converts, and one that does not. *)

Int_(n)    == [type |-> "int", num |-> 2 * n]
Half       == [type |-> "double", num |-> 1]
Minus      == [type |-> "double", num |-> -3]
Letter     == [type |-> "string", num |-> 0]
Yes        == [type |-> "bool", num |-> 1]

MCLayouts  == {<<<<"a", "int">>, <<"x", "double">>>>, <<<<"a", "int">>, <<"a", "int">>>>}
MCLiterals == {Int_(0), Half, Minus, Letter, Yes}
MCLists    == {<<<<"a", Int_(0)>>, <<"x", Half>>>>,
               <<<<"a", Minus>>, <<"x", Int_(0)>>, <<"a", Half>>>>,
               <<<<"a", Minus>>>>,
               <<<<"x", Minus>>, <<"a", Letter>>>>,
               <<<<"a", Int_(0)>>, <<"other", Half>>>>}
MCWheres   == {{}} \cup {{[column |-> w[1], op |-> w[2], value |-> w[3]]} : w \in
                {<<"a", "==", Int_(0)>>, <<"a", "<", Half>>, <<"x", ">=", Half>>, <<"x", "!=", Int_(0)>>,
                 <<"a", "==", Letter>>, <<"a", "==", Yes>>, <<"other", ">", Half>>}}

-----------------------------------------------------------------------------

BothInit == part \in {"records", "tables"} /\ Init /\ TablesInit

BothNext == /\ UNCHANGED part
            /\ \/ part = "records" /\ Next /\ UNCHANGED tablesVars
               \/ part = "tables" /\ TablesNext /\ UNCHANGED vars

BothSpec == BothInit /\ [][BothNext]_bothVars
=============================================================================
