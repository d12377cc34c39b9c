------------------------------- MODULE MCToolkits -------------------------------
(* Parsers, patterns and trees of few characters for DSLUtils; programs and  *)
(* backends for IPCtk.                                                       *)
EXTENDS DslUtils, IpcTk

MCAlphabet == <<"*", "+", "-", ".", "[", "]", "^", "a", "b", "c">>

-----------------------------------------------------------------------------
(* Parsers of up to three levels, and texts.                                 *)

DslChars == {"a", "b"}
Chars_ == {<<"ch", c>> : c \in DslChars}
Unary_(ps)  == {<<op, p>> : op \in {"many", "opt", "try"}, p \in ps} \cup {<<"labeled", p, "word">> : p \in ps}
Binary_(ps) == {<<op, p, q>> : op \in {"seq", "or"}, p \in ps, q \in ps}
Small_ == Chars_ \cup Unary_(Chars_) \cup Binary_(Chars_)
Loops_ == {<<"many", p>> : p \in Binary_(Chars_)}   \* these commit away from where they began
DslParsers == Small_ \cup Unary_(Small_) \cup Binary_(Small_)
              \cup UNION {{<<"try", p>>, <<"or", <<"try", p>>, q>>, <<"seq", q, <<"try", p>>>>} : p \in Loops_, q \in Small_}
DslTexts == UNION {[1..n -> DslChars] : n \in 0..3}

-----------------------------------------------------------------------------
(* Patterns of up to three items, and what they are tried on.                *)

Item_(text, chars) == {[text |-> text, chars |-> chars, quant |-> q] : q \in {"", "*", "+"}}
Items_ == UNION {Item_(<<"a">>, {"a"}), Item_(<<"^", "b">>, {"b"}), Item_(<<".">>, {"a", "b", "c", "-"}),
                 Item_(<<"[", "a", "b", "]">>, {"a", "b"}), Item_(<<"[", "a", "-", "c", "]">>, {"a", "b", "c"}),
                 Item_(<<"[", "b", "-", "]">>, {"b", "-"}), Item_(<<"[", "]">>, {})}
DslPatterns == UNION {[1..n -> Items_] : n \in 0..2}
              \cup [1..3 -> {i \in Items_ : i.text \in {<<"a">>, <<"[", "a", "b", "]">>}}]
DslStrings == UNION {[1..n -> {"a", "b", "c"}] : n \in 0..3} \cup {<<"-">>, <<"b", "-", "b">>, <<"a", "a", "a", "b", "a">>}

-----------------------------------------------------------------------------
(* Trees of not, and, or; three rules of which each makes work for another:     *)
(* two nots cancel (the example of the code), a not goes inside, and a thing     *)
(* and itself is the thing.                                                  *)

Leaf_(tag) == [tag |-> tag, children |-> <<>>]
Not_(n)    == [tag |-> "not", children |-> <<n>>]
Pair_(tag, n, m) == [tag |-> tag, children |-> <<n, m>>]

MCFires(r, n) ==
  CASE r = 1 -> n.tag = "not" /\ n.children[1].tag = "not"
    [] r = 2 -> n.tag = "not" /\ n.children[1].tag \in {"and", "or"}
    [] r = 3 -> n.tag \in {"and", "or"} /\ n.children[1] = n.children[2]
MCTransformed(r, n) ==
  LET below == n.children[1]
  IN  CASE r = 1 -> below.children[1]
        [] r = 2 -> Pair_(IF below.tag = "and" THEN "or" ELSE "and", Not_(below.children[1]), Not_(below.children[2]))
        [] r = 3 -> below

TreeLeaves == {Leaf_(t) : t \in {"p", "q"}}
Grown(ns, ms) == {Not_(n) : n \in ns} \cup {Pair_(tag, n, m) : tag \in {"and", "or"}, n \in ns, m \in ms}
Low == TreeLeaves \cup Grown(TreeLeaves, TreeLeaves)
Mid == Low \cup Grown(Low, Low)
DslTrees == Mid \cup Grown(Mid, TreeLeaves) \cup {Not_(Not_(n)) : n \in Mid}

RECURSIVE Truth(_, _)
Truth(n, env) ==
  CASE n.tag = "not" -> ~Truth(n.children[1], env)
    [] n.tag = "and" -> Truth(n.children[1], env) /\ Truth(n.children[2], env)
    [] n.tag = "or"  -> Truth(n.children[1], env) \/ Truth(n.children[2], env)
    [] OTHER         -> env[n.tag]

\* What comes out of the rules says what went in, and none of them fits it any
\* more, anywhere.
RewritesRight(n) ==
  /\ NormalForm(ApplyRules(n))
  /\ \A env \in [{"p", "q"} -> BOOLEAN] : Truth(ApplyRules(n), env) = Truth(n, env)

-----------------------------------------------------------------------------
(* IPCtk.                                                                    *)

MCIpcWords == {"socket", "queue", "pipe", "s", "q", "i", "p", "recv", "send", "enqueue", "decode",
               "target", "capability", "rule", "import", "c", "pubsub", "e"}

Arg_(value) == [value |-> value, nested |-> {}]
Call_(op, args) == [op |-> <<op>>, args |-> args]
Inside_(step) == [value |-> <<>>, nested |-> {step}]

IpcSteps == {Call_("recv", <<Arg_(<<"s">>)>>), Call_("enqueue", <<Arg_(<<"q">>)>>), Call_("send", <<>>),
             Call_("decode", <<Arg_(<<"i">>), Inside_(Call_("recv", <<Arg_(<<"q">>)>>)), Arg_(<<"s">>)>>),
             Call_("recv", <<Inside_(Call_("decode", <<Inside_(Call_("e", <<Arg_(<<"s">>)>>))>>))>>)}
Resource_(kind, name) == [kind |-> kind, name |-> name, initializer |-> <<"i", "(", ";", ")">>]
IpcResources == {Resource_("socket", "s"), Resource_("queue", "q"), Resource_("queue", "s")}
Pipe_(steps) == [name |-> "p", steps |-> steps]
IpcTwo == {<<Resource_("socket", "s"), Resource_(kind, "s")>> : kind \in {"queue", "socket"}}
          \cup {<<Resource_("queue", "s"), Resource_("socket", "s")>>, <<Resource_("socket", "s"), Resource_("queue", "q")>>}
IpcLast == Call_("recv", <<Arg_(<<"s">>)>>)
IpcPrograms == [resources : {<<>>} \cup [1..1 -> IpcResources] \cup IpcTwo,
                pipes : {<<>>} \cup {<<Pipe_(<<s>>)>> : s \in IpcSteps} \cup {<<Pipe_(<<s, IpcLast>>)>> : s \in IpcSteps}
                        \cup {<<Pipe_(<<s>>), Pipe_(<<IpcLast>>)>> : s \in IpcSteps}]

\* A rule is written with braces, with quotes, or as the rest of its line.
Rule_(op, emit, style) == [operation |-> op, emit |-> emit, style |-> style]
IpcRules == {Rule_("recv", <<"e", "{", "i", "}">>, "braces"), Rule_("recv", <<"{", "\n", "e">>, "quotes"),
             Rule_("send", <<"e", "(", "\n", ")">>, "line"), Rule_("enqueue", <<>>, "braces")}
IpcBackends == [target : {"c"}, capabilities : {{}, {"pubsub"}}, rules : UNION {[1..n -> IpcRules] : n \in 0..2}]

-----------------------------------------------------------------------------
(* As they are written.                                                      *)

Joined_(parts, mark) ==
  FlattenSeq([i \in DOMAIN parts |-> (IF i = 1 THEN <<>> ELSE mark) \o parts[i]])

RECURSIVE IpcStepText(_)
IpcStepText(step) ==
  step.op \o <<"(">> \o Joined_([i \in DOMAIN step.args |->
                                   IF step.args[i].nested = {} THEN step.args[i].value
                                   ELSE IpcStepText(CHOOSE s \in step.args[i].nested : TRUE)], <<",", " ">>) \o <<")">>

TextOfProgram(p) ==
  FlattenSeq([i \in DOMAIN p.resources |->
                <<p.resources[i].kind, " ", p.resources[i].name, "=">> \o p.resources[i].initializer \o <<";", "\n">>])
  \o FlattenSeq([i \in DOMAIN p.pipes |->
                <<"pipe", " ", p.pipes[i].name, "=">>
                \o Joined_([j \in DOMAIN p.pipes[i].steps |-> IpcStepText(p.pipes[i].steps[j])], <<"->", " ">>) \o <<";">>])

IpcRuleText(r) ==
  <<"rule", " ", r.operation, " ", "=">>
  \o (CASE r.style = "braces" -> <<"{">> \o r.emit \o <<"}">>
        [] r.style = "quotes" -> <<"\"\"\"">> \o r.emit \o <<"\"\"\"">>
        [] r.style = "line"   -> <<" ">> \o r.emit)
  \o <<"\n">>

TextOfBackend(b) ==
  <<"import", " ", "<", "e", ">", "\n", "target", " ", b.target, "\n">>
  \o (IF b.capabilities = {} THEN <<>> ELSE <<"capability", " ", "pubsub", " ", "i", "\n">>)
  \o FlattenSeq([i \in DOMAIN b.rules |-> IpcRuleText(b.rules[i])])

BackendAsRead(b) == [b EXCEPT !.rules = [i \in DOMAIN @ |-> [operation |-> @[i].operation, emit |-> @[i].emit]]]

-----------------------------------------------------------------------------
(* What is to hold of them.                                                  *)

Comments == {<<"/*", ";", "(", "*/">>, <<"//", "/*", "=", "\n">>}
Commented(text) == {SubSeq(text, 1, i) \o c \o SubSeq(text, i + 1, Len(text)) : i \in 0..Len(text), c \in Comments}

\* A comment in an initializer leaves the end of its line there.
Unbroken(p) == [p EXCEPT !.resources = [i \in DOMAIN @ |->
                  [@[i] EXCEPT !.initializer = SelectSeq(@, LAMBDA t : t # "\n")]]]

\* A program is read as it was written, whatever comments it has and wherever
\* they are. One that is cut off is refused, or read as the statements in front
\* of the cut.
ProgramReadsBack(p) ==
  LET text == TextOfProgram(p)
  IN  /\ ParseProgram(text) = {p}
      /\ \A t \in Commented(text) : {Unbroken(r) : r \in ParseProgram(t)} = {p}
      /\ \A n \in 0..Len(text) : \A r \in ParseProgram(SubSeq(text, 1, n)) :
           /\ IsPrefix(r.resources, p.resources) /\ IsPrefix(r.pipes, p.pipes)
           /\ r.pipes # <<>> => r.resources = p.resources

\* So is a backend. (In front of a cut, the last rule may be a shorter one.)
BackendReadsBack(b) ==
  LET text == TextOfBackend(b)
      read == BackendAsRead(b)
  IN  /\ ParseBackend(text) = {read}
      /\ \A n \in 0..Len(text) : \A r \in ParseBackend(SubSeq(text, 1, n)) :
           /\ r.target \in {"", b.target} /\ r.capabilities \subseteq b.capabilities
           /\ Len(r.rules) <= Len(read.rules)
           /\ r.rules # <<>> => IsPrefix(Front(r.rules), read.rules)

\* A program that compiles is emitted with a line for each of its steps, in
\* order; and nothing is sent to, received from or queued in a thing that the
\* program, where it last declares it, says to be something else.
CompilesWhatFits(p, b) == \A lines \in Compile(p, b) :
  LET steps == FlattenSeq([i \in DOMAIN p.pipes |-> p.pipes[i].steps])
      heads == {i \in DOMAIN lines : lines[i] # <<>> /\ lines[i][1] = "#"}
      kinds == FoldLeft(LAMBDA f, r : [f EXCEPT ![r.name] = r.kind], [n \in MCIpcWords |-> ""], p.resources)
  IN  /\ Len(lines) = Cardinality(heads) + Len(steps)
      /\ Cardinality(heads) = 1 + Len(p.pipes)
      /\ \A i \in DOMAIN steps : steps[i].op[1] \in {"recv", "send", "enqueue"} =>
           kinds[steps[i].args[1].value[1]] = (IF steps[i].op[1] = "enqueue" THEN "queue" ELSE "socket")
      /\ (\E i \in DOMAIN steps : steps[i].op[1] = "enqueue") => b.capabilities # {}
=================================================================================
