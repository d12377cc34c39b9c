------------------------------- MODULE SerdeText -------------------------------
(***************************************************************************)
(* SerdeTk: the basic YAML, XML and S-expression formats. Loaders return   *)
(* {} where they throw.                                                    *)
(***************************************************************************)
EXTENDS SerdeValue

\* The places of c from i on, and the first of them.
Found(text, i, c) == {j \in i .. Len(text) : text[j] = c /\ \A k \in i .. j - 1 : text[k] # c}

-----------------------------------------------------------------------------
(* YAML.                                                                   *)

\* emit_yaml_value: strings as they are.
RECURSIVE EmitYaml(_, _)
EmitYaml(v, depth) ==
  LET pad     == [i \in 1 .. 2 * depth |-> " "]
      item(w) == IF Composite(w) THEN <<"\n">> \o EmitYaml(w, depth + 1) ELSE EmitYaml(w, depth) \o <<"\n">>
  IN  CASE v[1] = "array"  -> FlattenSeq([i \in DOMAIN v[2] |-> pad \o <<"-", " ">> \o item(v[2][i])])
        [] v[1] = "object" ->
             LET keys   == KeysOf(v[2])
                 gap(w) == IF Composite(w) THEN <<>> ELSE <<" ">>
             IN  FlattenSeq([i \in DOMAIN keys |->
                   pad \o keys[i] \o <<":">> \o gap(v[2][keys[i]]) \o item(v[2][keys[i]])])
        [] OTHER -> Shown(v)

SplitLines(text) ==
  FoldLeft(LAMBDA lines, c : IF c = "\n" THEN Append(lines, <<>>)
                             ELSE [lines EXCEPT ![Len(lines)] = Append(@, c)], <<<<>>>>, text)

\* skip_ignorable: the next line that is neither blank nor a comment.
Ignorable(line)  == Trimmed(line) = <<>> \/ Trimmed(line)[1] = "#"
NextLine(lines, i) == Min({j \in i .. Len(lines) + 1 : j > Len(lines) \/ ~Ignorable(lines[j])})
IndentOf(line)   == Min({i \in 0 .. Len(line) : i = Len(line) \/ line[i + 1] # " "})

\* What follows "- " on a line; nothing else is an item. A dash with nothing
\* behind it is none, since lines are trimmed first.
IsItem(line)   == LET t == Trimmed(line) IN Len(t) > 2 /\ t[1] = "-" /\ t[2] = " "
ItemText(line) == LET t == Trimmed(line) IN SubSeq(t, 3, Len(t))

\* parse_sequence: ends at a line that is no item, and leaves it.
RECURSIVE YamlSequence(_, _, _, _)
YamlSequence(lines, from, indent, vs) ==
  LET i == NextLine(lines, from)
  IN  IF i > Len(lines) \/ IndentOf(lines[i]) < indent THEN {<<Array(vs), i>>}
      ELSE IF IndentOf(lines[i]) > indent THEN {}
      ELSE IF ~IsItem(lines[i]) THEN {<<Array(vs), i>>}
      ELSE YamlSequence(lines, i + 1, indent, Append(vs, ParseScalar(ItemText(lines[i]))))

\* parse_mapping and parse_block: a key with nothing behind it has the block
\* that follows, which is an empty object if that is not deeper.
RECURSIVE YamlMapping(_, _, _, _), YamlBlock(_, _, _)
YamlMapping(lines, from, indent, f) ==
  LET i    == NextLine(lines, from)
      body == Trimmed(lines[i])
      next == NextLine(lines, i + 1)
  IN  IF i > Len(lines) \/ IndentOf(lines[i]) < indent THEN {<<Object(f), i>>}
      ELSE IF IndentOf(lines[i]) > indent THEN {}
      ELSE IF IsItem(lines[i]) THEN {<<Object(f), i>>}
      ELSE UNION {
        LET key == Trimmed(SubSeq(body, 1, colon - 1))
            rhs == Trimmed(SubSeq(body, colon + 1, Len(body)))
        IN  UNION {YamlMapping(lines, m[2], indent, WithField(f, key, m[1])) : m \in
              IF rhs # <<>> THEN {<<ParseScalar(rhs), i + 1>>}
              ELSE IF next > Len(lines) THEN {<<Null, next>>}
              ELSE IF IsItem(lines[next]) /\ IndentOf(lines[next]) = indent
                   THEN YamlSequence(lines, next, indent, <<>>)
                   ELSE YamlBlock(lines, next, indent + 2)}
        : colon \in Found(body, 1, ":")}

YamlBlock(lines, from, indent) ==
  LET i == NextLine(lines, from)
  IN  IF i > Len(lines) THEN {<<Null, i>>}
      ELSE IF IsItem(lines[i]) THEN YamlSequence(lines, i, indent, <<>>)
      ELSE YamlMapping(lines, i, indent, <<>>)

\* Whatever is left when the first block ends is not looked at.
LoadYaml(text) == {m[1] : m \in YamlBlock(SplitLines(text), 1, 0)}
DumpYaml(v)    == EmitYaml(v, 0)

-----------------------------------------------------------------------------
(* XML. "</", "/>", "<?", "?>", "<!--", "-->", "<!DOCTYPE", "<![CDATA[" and  *)
(* "]]>" are atoms.                                                          *)

RECURSIVE EmitXml(_, _)
EmitXml(name, v) ==
  LET tagged(inside) == <<"<">> \o name \o <<">">> \o inside \o <<"</">> \o name \o <<">">>
  IN  CASE v[1] = "object" -> LET keys == KeysOf(v[2])
                              IN  tagged(FlattenSeq([i \in DOMAIN keys |-> EmitXml(keys[i], v[2][keys[i]])]))
        [] v[1] = "array"  -> FlattenSeq([i \in DOMAIN v[2] |-> EmitXml(name, v[2][i])])
        [] OTHER           -> tagged(Shown(v))

DumpXml(v) == IF v[1] = "object"
              THEN LET keys == KeysOf(v[2]) IN FlattenSeq([i \in DOMAIN keys |-> EmitXml(keys[i], v[2][keys[i]])])
              ELSE EmitXml(<<"root">>, v)

\* skip_misc: the place behind declarations, comments, doctypes and spaces.
RECURSIVE SkipMisc(_, _)
SkipMisc(text, from) ==
  LET i   == Ink(text, from)
      end == [c \in {"<?", "<!--", "<!DOCTYPE"} |-> CASE c = "<?" -> "?>" [] c = "<!--" -> "-->" [] OTHER -> ">"]
  IN  IF i <= Len(text) /\ text[i] \in DOMAIN end
      THEN UNION {SkipMisc(text, j + 1) : j \in Found(text, i + 1, end[text[i]])}
      ELSE {i}

\* skip_tag_tail: attributes are passed over.
TagTail(text, i) ==
  LET from[k \in Nat] ==
        IF k > Len(text) \/ text[k] \in {">", "/", "/>"} THEN k
        ELSE IF text[k] \notin {"\"", "'"} THEN from[k + 1]
        ELSE LET close == Found(text, k + 1, text[k])
             IN  from[IF close = {} THEN Len(text) + 1 ELSE Min(close) + 1]
  IN  from[i]

\* MUTANT: of two children of a name the later one is kept.
CollectedLast(f, name, v) == WithField(f, name, v)

\* What comes under a name again makes a list of it.
Collected(f, name, v) ==
  WithField(f, name, IF name \notin DOMAIN f THEN v
                 ELSE IF f[name][1] = "array" THEN Array(Append(f[name][2], v))
                 ELSE Array(<<f[name], v>>))

RECURSIVE XmlNode(_, _), XmlContent(_, _, _, _, _)

\* parse_node, up to what is inside: {} or {<<name, value, place behind it>>}.
XmlNode(text, i) ==
  LET stop == Min({j \in i + 1 .. Len(text) + 1 : j > Len(text) \/ text[j] \in Spaces \cup {"/", "/>", ">"}})
      name == SubSeq(text, i + 1, stop - 1)
      tail == TagTail(text, stop)
  IN  CASE name = <<>>          -> {}
        [] name # <<>> /\ At(text, tail, "/>") -> {<<name, Null, tail + 1>>}
        [] name # <<>> /\ At(text, tail, ">")  -> XmlContent(text, tail + 1, name, <<>>, <<>>)
        [] OTHER                -> {}

\* Text next to children is dropped.
XmlContent(text, i, name, f, said) ==
  IF i > Len(text) THEN {}
  ELSE CASE text[i] = "</" ->
              {<<name, IF f # <<>> THEN Object(f) ELSE ParseScalar(said), j + 1>> :
                 j \in {k \in Found(text, i + 1, ">") : Trimmed(SubSeq(text, i + 1, k - 1)) = name}}
         [] text[i] = "<!--"      -> UNION {XmlContent(text, j, name, f, said) : j \in SkipMisc(text, i)}
         [] text[i] = "<![CDATA[" -> UNION {XmlContent(text, j + 1, name, f, said \o SubSeq(text, i + 1, j - 1)) :
                                              j \in Found(text, i + 1, "]]>")}
         [] text[i] = "<?"        -> UNION {XmlContent(text, j + 1, name, f, said) : j \in Found(text, i + 1, "?>")}
         [] text[i] = "<"         -> UNION {XmlContent(text, m[3], name, Collected(f, m[1], m[2]), said) :
                                              m \in XmlNode(text, i)}
         [] OTHER                 -> XmlContent(text, i + 1, name, f, Append(said, text[i]))

RECURSIVE XmlRoots(_, _, _)
XmlRoots(text, from, f) ==
  UNION {IF i > Len(text) THEN {Object(f)}
         ELSE IF text[i] # "<" THEN {}
         ELSE UNION {XmlRoots(text, m[3], Collected(f, m[1], m[2])) : m \in XmlNode(text, i)}
         : i \in SkipMisc(text, from)}

LoadXml(text) == XmlRoots(text, 1, <<>>)

-----------------------------------------------------------------------------
(* S-expressions.                                                          *)

RECURSIVE DumpSexpr(_)
DumpSexpr(v) ==
  LET listed(items) ==
        <<"(">> \o FlattenSeq([i \in DOMAIN items |-> (IF i = 1 THEN <<>> ELSE <<" ">>) \o items[i]]) \o <<")">>
  IN  CASE v[1] = "array"  -> listed([i \in DOMAIN v[2] |-> DumpSexpr(v[2][i])])
        [] v[1] = "object" -> LET keys == KeysOf(v[2])
                              IN  listed([i \in DOMAIN keys |->
                                    <<"(">> \o keys[i] \o <<" ">> \o DumpSexpr(v[2][keys[i]]) \o <<")">>])
        [] v[1] = "string" -> <<"\"">> \o v[2] \o <<"\"">>
        [] v[1] = "null"   -> <<"nil">>
        [] OTHER           -> Shown(v)

\* The lists that are open, outermost first, and the token that is being read.
TokenEnded(s)  == IF s.tok = <<>> THEN s
              ELSE [open |-> [s.open EXCEPT ![Len(s.open)] = Append(@, ParseScalar(s.tok))], tok |-> <<>>]
Closed(open) ==
  IF Len(open) = 1 THEN open
  ELSE LET n == Len(open) - 1
       IN  [SubSeq(open, 1, n) EXCEPT ![n] = Append(@, Array(open[n + 1]))]

\* parse_sexpr_basic: a parenthesis too many is passed over, and what is open
\* at the end is closed. Quotes do not keep a string together.
LoadSexpr(text) ==
  LET step(s, c) == CASE c \in Spaces -> TokenEnded(s)
                      [] c = "("      -> [open |-> Append(TokenEnded(s).open, <<>>), tok |-> <<>>]
                      [] c = ")"      -> [open |-> Closed(TokenEnded(s).open), tok |-> <<>>]
                      [] OTHER        -> [s EXCEPT !.tok = Append(@, c)]
      open == TokenEnded(FoldLeft(step, [open |-> <<<<>>>>, tok |-> <<>>], text)).open
      root == FoldLeft(LAMBDA o, i : Closed(o), open, open)[1]
  IN  IF Len(root) = 1 /\ root[1][1] = "array" THEN root[1] ELSE Array(root)
=============================================================================
