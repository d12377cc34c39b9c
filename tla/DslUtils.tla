-------------------------------- MODULE DslUtils -------------------------------
(* DSLUtils: the parser combinators, the patterns of pattern<>, and the trees of *)
(* ASTNode with the rules of RewriteSet. A parser is a term:                    *)
(*   <<"ch", c>>, <<"many", p>> (operator* ), <<"seq", p, q>> (operator&),       *)
(*   <<"or", p, q>> (operator|), <<"opt", p>>, <<"try", p>>,                     *)
(*   <<"labeled", p, label>>.                                                  *)
(* What it returns for a text is what it leaves of the input (pos), the text    *)
(* that its value was made of, or the error. ch(0) is left out: peek() is 0 at  *)
(* the end of the text.                                                        *)
EXTENDS Naturals, Sequences, SequencesExt

CONSTANTS
  Alphabet,           \* the characters of patterns, in order
  MaxIterations,      \* 100 in the code
  RuleCount,          \* the rules of a RewriteSet, by number
  Fires(_, _),        \* pred of a rule
  Transformed(_, _)   \* trans of a rule

-----------------------------------------------------------------------------
(* Parsers.                                                                    *)

NoError == [pos |-> 0, kind |-> "soft", expected |-> {}]
Good(pos, value)    == [outcome |-> "ok", pos |-> pos, value |-> value, error |-> NoError]
Failed(pos, error)  == [outcome |-> "fail", pos |-> pos, value |-> <<>>, error |-> error]
FailExpected(pos, label) == Failed(pos, [pos |-> pos, kind |-> "soft", expected |-> {label}])

\* operator* never comes back when its parser succeeds on nothing.
Diverges == [outcome |-> "diverges", pos |-> 0, value |-> <<>>, error |-> NoError]

\* The error that is further on counts; of two at one place, both do.
MergeError(dst, src) ==
  IF src.pos > dst.pos THEN src
  ELSE IF src.pos < dst.pos THEN dst
  ELSE [dst EXCEPT !.kind = IF src.kind = "committed" THEN "committed" ELSE @,
                   !.expected = @ \cup src.expected]

MatchChar(c, text, pos) ==
  IF pos < Len(text) /\ text[pos + 1] = c THEN Good(pos + 1, <<c>>) ELSE FailExpected(pos, c)

\* What operator& returns once its first parser has read up to ra.pos: whoever
\* has consumed a part of the text commits to the rest.
Sequence(pos, ra, rb) ==
  IF rb.outcome = "ok" THEN Good(rb.pos, ra.value \o rb.value)
  ELSE Failed(pos, [rb.error EXCEPT !.kind = IF rb.pos # pos THEN "committed" ELSE @])

\* What operator| returns when its first parser failed: only a soft failure
\* lets the second one try.
Alternative(ra, rb) ==
  IF rb.outcome = "ok" THEN rb ELSE [rb EXCEPT !.error = MergeError(@, ra.error)]

\* What optional makes of a failure.
Optional(pos, r) == IF r.error.kind = "committed" THEN Failed(r.pos, r.error) ELSE Good(pos, <<>>)

\* What operator* makes of the failure that ends it.
EndOfMany(pos, r) ==
  IF r.error.kind = "committed" THEN Failed(r.pos, MergeError(NoError, r.error)) ELSE Good(pos, <<>>)

\* MUTANT: the cursor stays where the parser left it.
TryParseAhead(pos, r) ==
  IF r.outcome = "ok" THEN r ELSE [r EXCEPT !.error.kind = "soft"]

TryParse(pos, r) ==
  IF r.outcome = "ok" THEN r ELSE Failed(pos, [r.error EXCEPT !.kind = "soft"])

Labeled(r, label) == IF r.outcome = "ok" THEN r ELSE [r EXCEPT !.error.expected = {label}]

RECURSIVE Run(_, _, _)
Run(p, text, pos) ==
  IF p[1] = "ch" THEN MatchChar(p[2], text, pos)
  ELSE LET r == Run(p[2], text, pos)
           ok == r.outcome = "ok"
       IN  IF r.outcome = "diverges" THEN r
           ELSE CASE p[1] = "many" /\ ok ->
                  IF r.pos = pos THEN Diverges
                  ELSE LET more == Run(p, text, r.pos) IN [more EXCEPT !.value = r.value \o @]
             [] p[1] = "many" /\ ~ok -> EndOfMany(pos, r)
             [] p[1] = "seq" ->
                  IF ~ok THEN Failed(r.pos, r.error)
                  ELSE LET rb == Run(p[3], text, r.pos)
                       IN  IF rb.outcome = "diverges" THEN rb ELSE Sequence(pos, r, rb)
             [] p[1] = "or" ->
                  IF ok \/ r.error.kind = "committed" THEN r
                  ELSE LET rb == Run(p[3], text, pos)
                       IN  IF rb.outcome = "diverges" THEN rb ELSE Alternative(r, rb)
             [] p[1] = "opt" -> IF ok THEN r ELSE Optional(pos, r)
             [] p[1] = "try" -> TryParse(pos, r)
             [] p[1] = "labeled" -> Labeled(r, p[3])

RunParser(p, text) ==
  LET r == Run(p, text, 0)
  IN  IF r.outcome = "ok" /\ r.pos < Len(text)
      THEN Failed(r.pos, [pos |-> r.pos, kind |-> "committed", expected |-> {"<end-of-input>"}])
      ELSE r

-----------------------------------------------------------------------------
(* What the parsers are to read, defined without a cursor.                    *)

\* The places where a word of p that begins at i may end.
RECURSIVE Ends(_, _, _)
Ends(p, text, i) ==
  CASE p[1] = "ch"   -> {j \in {i + 1} : i < Len(text) /\ text[i + 1] = p[2]}
    [] p[1] = "many" -> {i} \cup UNION {Ends(p, text, j) : j \in Ends(p[2], text, i) \ {i}}
    [] p[1] = "seq"  -> UNION {Ends(p[3], text, j) : j \in Ends(p[2], text, i)}
    [] p[1] = "or"   -> Ends(p[2], text, i) \cup Ends(p[3], text, i)
    [] p[1] = "opt"  -> {i} \cup Ends(p[2], text, i)
    [] OTHER         -> Ends(p[2], text, i)

\* Whether the text from i on is how a word of p begins.
RECURSIVE Begins(_, _, _)
Begins(p, text, i) ==
  \/ i = Len(text)
  \/ p[1] = "ch" /\ i + 1 = Len(text) /\ text[i + 1] = p[2]
  \/ p[1] # "ch" /\ Begins(p[2], text, i)
  \/ p[1] = "many" /\ \E j \in Ends(p[2], text, i) \ {i} : Begins(p, text, j)
  \/ p[1] = "seq"  /\ \E j \in Ends(p[2], text, i) : Begins(p[3], text, j)
  \/ p[1] = "or"   /\ Begins(p[3], text, i)

\* Ordered choice with backtracking: {} or {where p ends}.
RECURSIVE Peg(_, _, _)
Peg(p, text, i) ==
  IF p[1] = "ch" THEN Ends(p, text, i)
  ELSE LET first == Peg(p[2], text, i)
       IN  CASE p[1] = "many" -> IF first = {} THEN {i} ELSE UNION {Peg(p, text, j) : j \in first}
             [] p[1] = "seq"  -> UNION {Peg(p[3], text, j) : j \in first}
             [] p[1] = "or"   -> IF first = {} THEN Peg(p[3], text, i) ELSE first
             [] p[1] = "opt"  -> IF first = {} THEN {i} ELSE first
             [] OTHER         -> first

Nullable(p) == 0 \in Ends(p, <<>>, 0)

RECURSIVE Terminates(_)
Terminates(p) ==
  \/ p[1] = "ch"
  \/ /\ Terminates(p[2])
     /\ p[1] \in {"seq", "or"} => Terminates(p[3])
     /\ p[1] = "many" => ~Nullable(p[2])

\* p with try_parse around all it may have to take back.
RECURSIVE Tried(_)
Tried(p) ==
  CASE p[1] = "ch" -> p
    [] p[1] \in {"many", "opt"} -> <<p[1], <<"try", Tried(p[2])>>>>
    [] p[1] = "or" -> <<"or", <<"try", Tried(p[2])>>, Tried(p[3])>>
    [] p[1] = "seq" -> <<"seq", Tried(p[2]), Tried(p[3])>>
    [] p[1] = "try" -> <<"try", Tried(p[2])>>
    [] p[1] = "labeled" -> <<"labeled", Tried(p[2]), p[3]>>

\* What a parser p may do with a text.
ReadsRight(p, text, chars) ==
  LET r == Run(p, text, 0)
  IN  /\ r.outcome = "diverges" => ~Terminates(p)
      \* What is read is a word of p, and all of what was consumed.
      /\ r.outcome = "ok" => r.value = SubSeq(text, 1, r.pos) /\ r.pos \in Ends(p, text, 0)
      \* A soft failure has not moved the cursor: the next alternative starts
      \* where this one did.
      /\ r.outcome = "fail" /\ r.error.kind = "soft" => r.pos = 0
      \* Up to the error the text was right, and what the error says was
      \* expected there would have been.
      /\ RunParser(p, text).outcome = "fail" =>
           LET e == RunParser(p, text).error
               read == SubSeq(text, 1, e.pos)
           IN  Begins(p, read, 0) /\ \A c \in e.expected \cap chars : Begins(p, Append(read, c), 0)
      \* With try_parse wherever there is something to take back, the parser
      \* chooses in order, and a commitment refuses nothing.
      /\ Terminates(p) =>
           LET t == Run(Tried(p), text, 0)
           IN  IF t.outcome = "ok" THEN Peg(p, text, 0) = {t.pos} ELSE Peg(p, text, 0) = {}

-----------------------------------------------------------------------------
(* Patterns and trees. A character is a string.                               *)

Ord(c) == CHOOSE i \in DOMAIN Alphabet : Alphabet[i] = c

-----------------------------------------------------------------------------
(* pattern<>                                                                 *)

\* The characters of a class: a-c is a range, whatever a and c are.
RECURSIVE MatchClass(_, _)
MatchClass(cls, c) ==
  /\ cls # <<>>
  /\ IF Len(cls) > 2 /\ cls[2] = "-"
     THEN (Ord(cls[1]) <= Ord(c) /\ Ord(c) <= Ord(cls[3])) \/ MatchClass(SubSeq(cls, 4, Len(cls)), c)
     ELSE cls[1] = c \/ MatchClass(Tail(cls), c)

MatchOne(pat, cls, c) ==
  IF pat = "[" THEN MatchClass(cls, c) ELSE pat = "." \/ pat = c

\* How many characters at the front of str the item matches.
RECURSIVE RunOf(_, _, _)
RunOf(pat, cls, str) ==
  IF str = <<>> \/ ~MatchOne(pat, cls, Head(str)) THEN 0 ELSE 1 + RunOf(pat, cls, Tail(str))

From_(seq, i) == SubSeq(seq, i, Len(seq))

\* A star gives back what the rest needs; a plus does not (739-747).
RECURSIVE MatchHere(_, _)
MatchHere(pat, str) ==
  IF pat = <<>> THEN str = <<>>
  ELSE IF pat[1] = "^" THEN MatchHere(Tail(pat), str)
  ELSE LET closing == {i \in 2..Len(pat) : pat[i] = "]"}
           close   == CHOOSE i \in closing : \A j \in closing : i <= j
           class   == pat[1] = "["
           cls     == IF class THEN SubSeq(pat, 2, close - 1) ELSE <<>>
           after   == IF class THEN close + 1 ELSE 2
           quant   == IF after <= Len(pat) /\ pat[after] \in {"*", "+"} THEN pat[after] ELSE ""
           rest    == From_(pat, IF quant = "" THEN after ELSE after + 1)
           run     == RunOf(pat[1], cls, str)
       IN  /\ class => closing # {}
           /\ CASE quant = "*" -> \E n \in 0..run : MatchHere(rest, From_(str, n + 1))
                [] quant = "+" -> run > 0 /\ MatchHere(rest, From_(str, run + 1))
                [] quant = ""  -> run > 0 /\ MatchHere(rest, Tail(str))

\* What a pattern of items says, each a set of characters and how often: the
\* places it may end when it begins at one of from.
EndsOf(items, str) ==
  FoldLeft(LAMBDA from, item :
             UNION {LET to == {j \in i..Len(str) : \A k \in (i + 1)..j : str[k] \in item.chars}
                    IN  (CASE item.quant = "*" -> to
                           [] item.quant = "+" -> to \ {i}
                           [] item.quant = ""  -> to \cap {i + 1}) : i \in from},
           {0}, items)

\* Whether what follows item k may begin with one of its characters.
Overlaps(items, k) ==
  \E j \in (k + 1)..Len(items) :
     items[j].chars \cap items[k].chars # {} /\ \A i \in (k + 1)..(j - 1) : items[i].quant = "*"

\* A pattern matches only what it says, and all of it unless something after a
\* plus would have to take back what the plus has taken.
MatchesRight(items, str) ==
  LET text    == FlattenSeq([i \in DOMAIN items |-> items[i].text \o (IF items[i].quant = "" THEN <<>> ELSE <<items[i].quant>>)])
      matches == MatchHere(text, str)
      says    == Len(str) \in EndsOf(items, str)
  IN  /\ matches => says
      /\ says => matches \/ \E k \in DOMAIN items : items[k].quant = "+" /\ Overlaps(items, k)

-----------------------------------------------------------------------------
(* ASTNode and RewriteSet. A node is [tag, children], a leaf has none.         *)

\* One pass from the leaves up: each rule once at each node, on what the rules
\* before it left.
RECURSIVE RewriteOnce(_)
RewriteOnce(n) ==
  LET below   == [i \in DOMAIN n.children |-> RewriteOnce(n.children[i])]
      current == [n EXCEPT !.children = [i \in DOMAIN below |-> below[i].node]]
  IN  FoldLeft(LAMBDA acc, r : IF Fires(r, acc.node)
                               THEN [node |-> Transformed(r, acc.node), changed |-> TRUE] ELSE acc,
               [node |-> current, changed |-> \E i \in DOMAIN below : below[i].changed],
               [r \in 1..RuleCount |-> r])

RECURSIVE Rewritten(_, _)
Rewritten(root, iterations) ==
  IF iterations = 0 THEN root
  ELSE LET once == RewriteOnce(root)
       IN  IF once.changed THEN Rewritten(once.node, iterations - 1) ELSE once.node

ApplyRules(root) == Rewritten(root, MaxIterations)

RECURSIVE NormalForm(_)
NormalForm(n) ==
  /\ \A r \in 1..RuleCount : ~Fires(r, n)
  /\ \A i \in DOMAIN n.children : NormalForm(n.children[i])
=============================================================================
