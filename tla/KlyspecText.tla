------------------------------ MODULE KlyspecText ------------------------------
(***************************************************************************)
(* parse_klytmk of klyspec/Klyspec.hpp, on tokens: a text is a sequence of  *)
(* words ("param", "command", "pre-evaluate" or any other), quoted strings  *)
(* and marks, each of them a string. Then KlyProfileLoader::load, and what    *)
(* KlyIPCService::serialize makes of a command line.                          *)
(***************************************************************************)
EXTENDS SerdeText

CONSTANTS
  Idents,   \* identifiers that are no keyword
  Quoted    \* quoted strings

IsIdent(t) == t \in Idents \cup {"param", "command", "pre-evaluate"}

KlyAt(text, i, t) == i <= Len(text) /\ text[i] = t

\* MUTANT: a brace inside a body is not counted.
BodyEndFlat(text, i) ==
  LET ends == {k \in i..Len(text) : text[k] = "}"}
  IN  IF ends = {} THEN {} ELSE {CHOOSE k \in ends : \A m \in ends : k <= m}

\* Where the brace before i is closed, if it is.
BodyEnd(text, i) ==
  LET Depth(k) == 1 + Len(SelectSeq(SubSeq(text, i, k), LAMBDA t : t = "{"))
                    - Len(SelectSeq(SubSeq(text, i, k), LAMBDA t : t = "}"))
      ends == {k \in i..Len(text) : Depth(k) = 0}
  IN  IF ends = {} THEN {} ELSE {CHOOSE k \in ends : \A m \in ends : k <= m}

\* The attributes from i on and the place after them. Reading stops without
\* an error where a token does not fit: the closing brace may be missing.
Attributes(text, i) ==
  LET Whole(k) == /\ k + 3 <= Len(text) /\ IsIdent(text[k]) /\ text[k + 1] = "="
                  /\ text[k + 2] \in Quoted /\ text[k + 3] = ";"
      \* The last attribute that is whole, and how much is read of the next.
      Partly(k) == IF ~(k <= Len(text) /\ IsIdent(text[k]))          THEN k
                   ELSE IF ~KlyAt(text, k + 1, "=")                  THEN k + 1
                   ELSE IF ~(k + 2 <= Len(text) /\ text[k + 2] \in Quoted) THEN k + 2
                   ELSE k + 3
      n    == CHOOSE m \in 0..Len(text) :
                /\ \A p \in 0..(m - 1) : Whole(i + 4 * p)
                /\ ~Whole(i + 4 * m)
      stop == i + 4 * n
  IN  [attributes |-> [key \in {text[i + 4 * p] : p \in 0..(n - 1)} |->
                         text[2 + CHOOSE k \in i..stop :
                                /\ \E p \in 0..(n - 1) : k = i + 4 * p /\ text[k] = key
                                /\ \A p \in 0..(n - 1) : text[i + 4 * p] = key => i + 4 * p <= k]],
       next |-> IF KlyAt(text, stop, "}") THEN stop + 1 ELSE Partly(stop)]

\* One node at i: the nodes read, where to go on, and how it ended: "on", or
\* "stop" for a break without an error, or "failed".
NodeAt(text, i) ==
  CASE ~IsIdent(text[i]) -> [nodes |-> <<>>, next |-> i, end |-> "stop"]
    [] text[i] \in {"param", "command"} ->
         (IF ~(i < Len(text) /\ text[i + 1] \in Quoted) THEN [nodes |-> <<>>, next |-> i + 1, end |-> "stop"]
          ELSE IF ~KlyAt(text, i + 2, "{") THEN [nodes |-> <<>>, next |-> i + 2, end |-> "stop"]
          ELSE   LET ends == BodyEnd(text, i + 3)
                 IN  IF \E k \in ends : KlyAt(text, k + 1, ";")
                     THEN [nodes |-> <<[kind |-> text[i], name |-> {text[i + 1]}, attributes |-> <<>>]>>,
                           next  |-> 2 + CHOOSE k \in ends : TRUE, end |-> "on"]
                     ELSE [nodes |-> <<>>, next |-> i + 3, end |-> "failed"])
    [] text[i] = "pre-evaluate" ->
         (IF ~KlyAt(text, i + 1, "{") THEN [nodes |-> <<>>, next |-> i + 1, end |-> "stop"]
          ELSE LET read == Attributes(text, i + 2)
               IN  IF KlyAt(text, read.next, ";")
                   THEN [nodes |-> <<[kind |-> text[i], name |-> {}, attributes |-> read.attributes]>>,
                         next  |-> read.next + 1, end |-> "on"]
                   ELSE [nodes |-> <<>>, next |-> read.next, end |-> "failed"])
    [] OTHER -> [nodes |-> <<>>, next |-> i, end |-> "failed"]

\* parse_klytmk: {} for a parse error, else the nodes. A break at the end of
\* the text is no error.
ParseKlytmk(text) ==
  LET from[i \in 1..Len(text) + 1] ==
        IF i = Len(text) + 1 THEN {<<>>}
        ELSE LET node == NodeAt(text, i)
             IN  CASE node.end = "on"   -> {node.nodes \o rest : rest \in from[node.next]}
                   [] node.end = "stop" -> IF node.next > Len(text) THEN {<<>>} ELSE {}
                   [] OTHER             -> {}
  IN  from[1]

-----------------------------------------------------------------------------
\* A profile: the fields of a document that are texts, or signed integers, as
\* texts; whatever else there is is passed over, and a document that is no
\* object has none. (LoadSexpr gives lists.)
LoadProfile(format, text) ==
  LET docs == CASE format = "json"  -> LoadJson(text)
                [] format = "xml"   -> LoadXml(text)
                [] format = "yaml"  -> LoadYaml(text)
                [] format = "sexpr" -> {LoadSexpr(text)}
      Kept(f) == {k \in DOMAIN f : f[k][1] \in {"string", "int"}}
  IN  {[k \in Kept(doc[2]) |-> Shown(doc[2][k])] : doc \in {d \in docs : d[1] = "object"}}

\* The values of a command line, id = first value each, in some order.
SerializeValues(values) ==
  {<<"args", ":">> \o FlattenSeq([i \in DOMAIN ids |->
      <<ids[i], "=">> \o (IF values[ids[i]] = <<>> THEN <<>> ELSE <<values[ids[i]][1]>>) \o <<";">>]) :
     ids \in SetToSeqs(DOMAIN values)}
=============================================================================
