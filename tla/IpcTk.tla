---------------------------------- MODULE IpcTk ----------------------------------
(* IPCtk: programs of resources and pipes (ipcl), descriptions of backends       *)
(* (itkd), and their compilation. A text is a sequence of tokens: a word, a       *)
(* blank, an end of line, a mark of a comment, one of the other marks; two       *)
(* words never touch. A parser returns {} or {what it read}.                    *)
EXTENDS Integers, Sequences, SequencesExt

CONSTANT IpcWords     \* the words that ident() accepts

IpcBlanks == {" ", "\n"}

\* The text without its comments; the line that ends one stays, and there are
\* none inside one another.
StripComments(text) ==
  FoldLeft(LAMBDA acc, t :
             CASE acc.mode = "code" /\ t = "//"  -> [acc EXCEPT !.mode = "line"]
               [] acc.mode = "code" /\ t = "/*"  -> [acc EXCEPT !.mode = "block"]
               [] acc.mode = "line" /\ t = "\n"  -> [mode |-> "code", out |-> Append(acc.out, t)]
               [] acc.mode = "block" /\ t = "*/" -> [acc EXCEPT !.mode = "code"]
               [] acc.mode = "code" /\ t \notin {"//", "/*"} -> [acc EXCEPT !.out = Append(@, t)]
               [] OTHER -> acc,
           [mode |-> "code", out |-> <<>>], text).out

RECURSIVE Ws(_)
Ws(in) == IF in # <<>> /\ Head(in) \in IpcBlanks THEN Ws(Tail(in)) ELSE in

RECURSIVE TrimText(_)
TrimText(text) ==
  IF text # <<>> /\ Head(text) \in IpcBlanks THEN TrimText(Tail(text))
  ELSE IF text # <<>> /\ Last(text) \in IpcBlanks THEN TrimText(Front(text))
  ELSE text

\* What ident and token leave of the input.
IdentRest(in)    == LET at == Ws(in) IN IF at # <<>> /\ Head(at) \in IpcWords THEN {Tail(at)} ELSE {}
TokenRest(c, in) == LET at == Ws(in) IN IF at # <<>> /\ Head(at) = c THEN {Tail(at)} ELSE {}
IdentOf(in)      == Head(Ws(in))

\* How much of the input until(c) takes: up to the first c that no parenthesis
\* is open around, or to the end.
RECURSIVE UntilFrom(_, _, _, _)
UntilFrom(c, in, i, open) ==
  IF i > Len(in) THEN Len(in)
  ELSE LET depth == CASE in[i] = "(" -> open + 1 [] in[i] = ")" -> open - 1 [] OTHER -> open
       IN  IF depth <= 0 /\ in[i] = c THEN i - 1 ELSE UntilFrom(c, in, i + 1, depth)
UntilLength(c, in) == UntilFrom(c, in, 1, 0)
UntilText(c, in) == SubSeq(in, 1, UntilLength(c, in))
UntilRest(c, in) == SubSeq(in, UntilLength(c, in) + 1, Len(in))

\* The parts of a text between the delimiters that stand outside of all
\* parentheses; a closing one too many counts for nothing.
SplitTopLevel(text, delim) ==
  LET step(acc, t) ==
        LET depth == CASE t = "(" -> acc.depth + 1
                       [] t = ")" /\ acc.depth > 0 -> acc.depth - 1
                       [] OTHER -> acc.depth
        IN  IF depth = 0 /\ t = delim THEN [depth |-> 0, out |-> Append(acc.out, TrimText(acc.part)), part |-> <<>>]
            ELSE [acc EXCEPT !.depth = depth, !.part = Append(@, t)]
      all == FoldLeft(step, [depth |-> 0, out |-> <<>>, part |-> <<>>], text)
  IN  Append(all.out, TrimText(all.part))

\* A step is what is before the first parenthesis and, up to the last one, its
\* arguments; what comes after that is passed over.
RECURSIVE ParseStep(_)
ParseStep(src) ==
  LET opens  == {i \in DOMAIN src : src[i] = "("}
      closes == {i \in DOMAIN src : src[i] = ")"}
      open   == CHOOSE i \in opens : \A j \in opens : i <= j
      close  == CHOOSE i \in closes : \A j \in closes : i >= j
      args   == SelectSeq(SplitTopLevel(SubSeq(src, open + 1, close - 1), ","), LAMBDA a : a # <<>>)
      arg(a) == LET nested == ParseStep(a)
                IN  [value |-> IF nested = {} THEN a ELSE <<>>, nested |-> nested]
  IN  IF opens = {} \/ closes = {} \/ close <= open THEN {}
      ELSE {[op |-> TrimText(SubSeq(src, 1, open - 1)), args |-> [i \in DOMAIN args |-> arg(args[i])]]}

\* The steps of a pipe: at least one, and each of them a step.
ParseSteps(rhs) ==
  LET parts == SelectSeq(SplitTopLevel(rhs, "->"), LAMBDA p : p # <<>>)
      steps == [i \in DOMAIN parts |-> ParseStep(parts[i])]
  IN  IF parts = <<>> \/ \E i \in DOMAIN parts : steps[i] = {} THEN {}
      ELSE {[i \in DOMAIN parts |-> CHOOSE s \in steps[i] : TRUE]}

NoProgram == [resources |-> <<>>, pipes |-> <<>>]

\* One statement: what the program is after it, and what is left of the input.
ProgramStatement(in, out) == UNION
  {{LET rhs == UntilText(";", value)
        kw  == IdentOf(in)
        nm  == IdentOf(named)
    IN  [rest |-> rest,
         out |-> IF kw = "pipe"
                 THEN {[out EXCEPT !.pipes = Append(@, [name |-> nm, steps |-> ss])] : ss \in ParseSteps(rhs)}
                 ELSE {[out EXCEPT !.resources = Append(@, [kind |-> kw, name |-> nm, initializer |-> TrimText(rhs)])]}]
      : rest \in TokenRest(";", UntilRest(";", value))}
   : <<named, value>> \in UNION {{<<n, v>> : v \in UNION {TokenRest("=", r) : r \in IdentRest(n)}} : n \in IdentRest(in)}}

RECURSIVE ProgramFrom(_, _)
ProgramFrom(in, out) ==
  IF Ws(in) = <<>> THEN {out}
  ELSE UNION {UNION {ProgramFrom(s.rest, o) : o \in s.out} : s \in ProgramStatement(in, out)}

ParseProgram(source) == ProgramFrom(StripComments(source), NoProgram)

-----------------------------------------------------------------------------
(* itkd                                                                      *)

\* A body is one of {...}, """...""" and the rest of the line.
RuleBody(in) ==
  LET at    == Ws(in)
      ends  == IF Head(at) = "{"
               THEN {i \in 2..Len(at) : at[i] = "}" /\
                       Len(SelectSeq(SubSeq(at, 1, i), LAMBDA t : t = "{")) = Len(SelectSeq(SubSeq(at, 1, i), LAMBDA t : t = "}"))}
               ELSE {i \in 2..Len(at) : at[i] = "\"\"\""}
      end   == CHOOSE i \in ends : \A j \in ends : i <= j
  IN  IF at = <<>> THEN {}
      ELSE IF Head(at) \in {"{", "\"\"\""}
      THEN IF ends = {} THEN {}
           ELSE {[body |-> TrimText(SubSeq(at, 2, end - 1)), rest |-> SubSeq(at, end + 1, Len(at))]}
      ELSE {[body |-> TrimText(UntilText("\n", at)), rest |-> UntilRest("\n", at)]}

NoBackend == [target |-> "", capabilities |-> {}, rules |-> <<>>]

BackendStatement(in, spec) ==
  LET kw == IdentOf(in)
  IN  UNION {CASE kw = "target"     -> {[rest |-> r, spec |-> [spec EXCEPT !.target = IdentOf(after)]] : r \in IdentRest(after)}
               [] kw = "capability" -> {[rest |-> r, spec |-> [spec EXCEPT !.capabilities = @ \cup {IdentOf(after)}]] : r \in IdentRest(after)}
               [] kw \in {"import", "include", "map"} -> {[rest |-> UntilRest("\n", after), spec |-> spec]}
               [] kw = "rule" ->
                    UNION {{[rest |-> b.rest, spec |-> [spec EXCEPT !.rules = Append(@, [operation |-> IdentOf(after), emit |-> b.body])]]
                              : b \in RuleBody(v)} : v \in UNION {TokenRest("=", r) : r \in IdentRest(after)}}
               [] OTHER -> {}
             : after \in IdentRest(in)}

RECURSIVE ToNextLine(_)
ToNextLine(in) == IF in = <<>> THEN <<>> ELSE IF Head(in) = "\n" THEN Tail(in) ELSE ToNextLine(Tail(in))

RECURSIVE BackendFrom(_, _)
BackendFrom(in, spec) ==
  IF Ws(in) = <<>> THEN {spec}
  ELSE UNION {BackendFrom(ToNextLine(s.rest), s.spec) : s \in BackendStatement(in, spec)}

ParseBackend(source) == BackendFrom(StripComments(source), NoBackend)

-----------------------------------------------------------------------------
(* Validation and emission. An operation is a text of one word here.          *)

\* The kind of the last resource of that name; an unknown one has none.
KindOf(program, name) ==
  LET at == {i \in DOMAIN program.resources : <<program.resources[i].name>> = name}
  IN  IF at = {} THEN "" ELSE program.resources[CHOOSE i \in at : \A j \in at : i >= j].kind

Needs(program, step, kind) ==
  /\ step.args # <<>>
  /\ step.args[1].nested = {}
  /\ KindOf(program, step.args[1].value) = kind

StepsOf(program) == UNION {{p.steps[i] : i \in DOMAIN p.steps} : p \in {program.pipes[j] : j \in DOMAIN program.pipes}}

ValidProgram(program) ==
  /\ \A i \in DOMAIN program.resources : program.resources[i].name # "" /\ program.resources[i].kind # ""
  /\ \A step \in StepsOf(program) :
       /\ step.op \in {<<"recv">>, <<"send">>} => Needs(program, step, "socket")
       /\ step.op \in {<<"enqueue">>, <<"dequeue">>} => Needs(program, step, "queue")

ValidBackend(spec) == spec.target # ""

Compatible(program, spec) == \A step \in StepsOf(program) :
  step.op \in {<<"enqueue">>, <<"dequeue">>} => "pubsub" \in spec.capabilities

\* The text of a step: that of the last rule for its operation, or one of three
\* that are built in, or a remark.
EmitStep(step, spec) ==
  LET at == {i \in DOMAIN spec.rules : <<spec.rules[i].operation>> = step.op}
  IN  IF at # {} THEN spec.rules[CHOOSE i \in at : \A j \in at : i >= j].emit
      ELSE IF step.op \in {<<"recv">>, <<"send">>, <<"enqueue">>} THEN step.op \o <<"(", ")", ";">>
      ELSE <<"/*", "op", "*/">>

\* The lines that are emitted.
Emit(program, spec) ==
  <<<<"#", "target", spec.target>>>> \o
  FlattenSeq([i \in DOMAIN program.pipes |->
                <<<<"#", "pipe", program.pipes[i].name>>>>
                \o [j \in DOMAIN program.pipes[i].steps |-> EmitStep(program.pipes[i].steps[j], spec)]])

Compile(program, spec) ==
  IF ValidProgram(program) /\ ValidBackend(spec) /\ Compatible(program, spec) THEN {Emit(program, spec)} ELSE {}
=============================================================================
