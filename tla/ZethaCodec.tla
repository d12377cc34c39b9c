------------------------------- MODULE ZethaCodec -------------------------------
(***************************************************************************)
(* The encodings: Base64 (zbase64.hpp), the fields, rows and IPC messages  *)
(* of ZethaRDB.hpp, and UTF-8 as linenoise.hpp reads it. Characters are     *)
(* strings, bytes and digits numbers.                                      *)
(***************************************************************************)
EXTENDS Integers, SequencesExt, FiniteSetsExt

CONSTANTS
  CombiningChars,  \* code points that are drawn over the one before them
  WideChars        \* code points that are two columns wide

Pad   == 64
Blank == 65    \* a blank or a line break between digits

Digit(n, shift) == (n \div 2^shift) % 64

\* MUTANT: two bytes at the end make two digits.
EncodeShort(bytes, pad) ==
  LET Group(i) == LET n == bytes[i] * 2^16 + bytes[i + 1] * 2^8 + bytes[i + 2]
                  IN  <<Digit(n, 18), Digit(n, 12), Digit(n, 6), Digit(n, 0)>>
      whole    == Len(bytes) \div 3
      left     == SubSeq(bytes, 3 * whole + 1, Len(bytes))
      digits   == IF left = <<>> THEN <<>> ELSE <<Digit(left[1] * 2^16, 18), Digit(left[1] * 2^16, 12)>>
  IN  FlattenSeq([i \in 1..whole |-> Group(3 * i - 2)]) \o digits

Encode64(bytes, pad) ==
  LET Group(i) == LET n == bytes[i] * 2^16 + bytes[i + 1] * 2^8 + bytes[i + 2]
                  IN  <<Digit(n, 18), Digit(n, 12), Digit(n, 6), Digit(n, 0)>>
      whole    == Len(bytes) \div 3
      left     == SubSeq(bytes, 3 * whole + 1, Len(bytes))
      short    == CASE left = <<>>     -> <<>>
                    [] Len(left) = 1   -> LET n == left[1] * 2^16
                                          IN  <<Digit(n, 18), Digit(n, 12), Pad, Pad>>
                    [] Len(left) = 2   -> LET n == left[1] * 2^16 + left[2] * 2^8
                                          IN  <<Digit(n, 18), Digit(n, 12), Digit(n, 6), Pad>>
  IN  FlattenSeq([i \in 1..whole |-> Group(3 * i - 2)])
      \o (IF pad THEN short ELSE SelectSeq(short, LAMBDA d : d # Pad))

\* The bits that are left over when fewer than eight remain are dropped.
\* buffer is a uint32_t: what is shifted out of it was used long before, so
\* that only the bits that are still to be used are kept here.
Decode64(digits) ==
  LET Take(acc, d) ==
        CASE d = Pad \/ acc.padded -> [acc EXCEPT !.padded = TRUE]
          [] d = Blank /\ ~acc.padded -> acc
          [] OTHER ->
               LET buffer == acc.buffer * 64 + d
                   bits   == acc.bits + 6
               IN  IF bits < 8 THEN [acc EXCEPT !.buffer = buffer, !.bits = bits]
                   ELSE [acc EXCEPT !.bytes = Append(@, (buffer \div 2^(bits - 8)) % 256),
                                    !.buffer = buffer % 2^(bits - 8), !.bits = bits - 8]
  IN  FoldLeft(Take, [bytes |-> <<>>, buffer |-> 0, bits |-> 0, padded |-> FALSE], digits).bytes

-----------------------------------------------------------------------------
(* Fields, rows and messages.                                              *)

EscapeField(s) ==
  FlattenSeq([i \in DOMAIN s |-> CASE s[i] = "\n" -> <<"\\", "n">>
                                   [] s[i] = "\t" -> <<"\\", "t">>
                                   [] s[i] = "\\" -> <<"\\", "\\">>
                                   [] OTHER       -> <<s[i]>>])

\* {} if the field ends in the middle of an escape.
UnescapeField(s) ==
  LET Take(acc, c) ==
        CASE acc.escaped -> [text |-> Append(acc.text, CASE c = "n" -> "\n" [] c = "t" -> "\t" [] OTHER -> c),
                             escaped |-> FALSE]
          [] ~acc.escaped /\ c = "\\" -> [acc EXCEPT !.escaped = TRUE]
          [] OTHER       -> [acc EXCEPT !.text = Append(@, c)]
      r == FoldLeft(Take, [text |-> <<>>, escaped |-> FALSE], s)
  IN  IF r.escaped THEN {} ELSE {r.text}

\* zetha-mem escapes a bar as well.
MemEscape(s) ==
  FlattenSeq([i \in DOMAIN s |-> IF s[i] = "|" THEN <<"\\", "|">> ELSE EscapeField(<<s[i]>>)])
MemUnescape(s) == UnescapeField(s)

\* The parts of a text between separators: one more than there are of them.
Split(s, separator) ==
  LET Take(acc, c) == IF c = separator THEN Append(acc, <<>>)
                      ELSE [acc EXCEPT ![Len(acc)] = Append(@, c)]
  IN  FoldLeft(Take, <<<<>>>>, s)

\* What getline gives until it fails: a line break at the end ends the last
\* line and begins no other.
Lines(s) == LET parts == Split(s, "\n")
            IN  IF Last(parts) = <<>> THEN Front(parts) ELSE parts

\* A row is a sequence of cells; the header and the name of a kind are one
\* character each here.
EncodeRow(row) ==
  <<"R", "\n">> \o
  FlattenSeq([i \in DOMAIN row |->
     EscapeField(row[i].name) \o <<"\t", row[i].kind, "\t">> \o EscapeField(row[i].data) \o <<"\n">>])

DecodeRow(text, kinds) ==
  LET lines == Lines(text)
      rest  == SelectSeq(Tail(lines), LAMBDA line : line # <<>>)
      Cell(line) ==
        LET parts == Split(line, "\t")
        IN  IF Len(parts) # 3 \/ (Len(parts) = 3 /\ Len(parts[2]) # 1) THEN {}
            ELSE {[name |-> n, kind |-> k, data |-> d] :
                    n \in UnescapeField(parts[1]), k \in kinds \cap {parts[2][1]}, d \in UnescapeField(parts[3])}
  IN  IF lines = <<>> \/ lines[1] # <<"R">> \/ \E i \in DOMAIN rest : Cell(rest[i]) = {} THEN {}
      ELSE {[i \in DOMAIN rest |-> CHOOSE c \in Cell(rest[i]) : TRUE]}

EncodeMessage(m) ==
  <<"M", "\n">> \o EscapeField(m.verb) \o <<"\n">> \o EscapeField(m.table) \o <<"\n">>
                \o EscapeField(m.payload) \o <<"\n">>

\* Lines after the fourth are ignored.
DecodeMessage(text) ==
  LET lines == Lines(text)
  IN  IF Len(lines) < 4 \/ (Len(lines) >= 1 /\ lines[1] # <<"M">>) THEN {}
      ELSE {[verb |-> v, table |-> t, payload |-> p] :
              v \in UnescapeField(lines[2]), t \in UnescapeField(lines[3]), p \in UnescapeField(lines[4])}

\* ipc_send writes a message to a channel in one piece; ipc_receive takes what
\* is there, as far as its buffer goes.
IpcSend(m) == EncodeMessage(m)
IpcReceive(bytes, max_bytes) == SubSeq(bytes, 1, Min({max_bytes, Len(bytes)}))

-----------------------------------------------------------------------------
(* Snapshots of zetha-mem: a sequence of records [path, fields], a field [key,  *)
(* kind, text], the text of a number as it is printed. Read back they are a      *)
(* function from paths to functions from keys.                                  *)

EncodeSnapshot(records) ==
  <<"Z", "\n">> \o FlattenSeq([i \in DOMAIN records |->
    <<"P", "|">> \o MemEscape(records[i].path) \o <<"\n">>
    \o FlattenSeq([j \in DOMAIN records[i].fields |->
         LET f == records[i].fields[j]
         IN  <<"F", "|">> \o MemEscape(f.key) \o <<"|", f.kind, "|">>
             \o (IF f.kind = "s" THEN MemEscape(f.text) ELSE f.text) \o <<"\n">>])
    \o <<"E", "\n">>])

\* {} if decode fails, for one line of a file already.
DecodeSnapshot(text) ==
  LET Refused(acc) == [acc EXCEPT !.ok = FALSE]
      Value(kind, t) == IF kind = <<"s">> THEN MemUnescape(t)
                        ELSE IF kind = <<"b">> THEN {IF t = <<"1">> THEN t ELSE <<"0">>} ELSE {t}
      FieldLine(acc, tok) ==
        IF ~acc.open \/ Len(tok) # 4 THEN Refused(acc)
        ELSE IF tok[3] \notin {<<"i">>, <<"d">>, <<"b">>, <<"s">>} \/ MemUnescape(tok[2]) = {} \/ Value(tok[3], tok[4]) = {} THEN Refused(acc)
        ELSE [acc EXCEPT !.fields = (CHOOSE k \in MemUnescape(tok[2]) : TRUE)
                                      :> <<tok[3][1], CHOOSE v \in Value(tok[3], tok[4]) : TRUE>> @@ @]
      Take(acc, line) ==
        IF ~acc.ok \/ line = <<>> THEN acc
        ELSE CASE line = <<"E">> -> IF acc.open THEN [acc EXCEPT !.map = (acc.path :> acc.fields) @@ @, !.fields = <<>>, !.open = FALSE]
                               ELSE Refused(acc)
          [] IsPrefix(<<"P", "|">>, line) ->
               LET path == MemUnescape(SubSeq(line, 3, Len(line)))
               IN  IF acc.open \/ path = {} THEN Refused(acc)
                   ELSE [acc EXCEPT !.path = CHOOSE p \in path : TRUE, !.open = TRUE]
          [] IsPrefix(<<"F", "|">>, line) -> FieldLine(acc, Split(line, "|"))
          [] OTHER -> Refused(acc)
      lines == Lines(text)
      r == FoldLeft(Take, [ok |-> TRUE, open |-> FALSE, path |-> <<>>, fields |-> <<>>, map |-> <<>>], Tail(lines))
  IN  IF lines = <<>> THEN {} ELSE IF lines[1] # <<"Z">> \/ ~r.ok \/ r.open THEN {} ELSE {r.map}

-----------------------------------------------------------------------------
(* UTF-8. Positions count bytes from 0, as in the code.                    *)

\* unicodeUTF8CharLen, unicodePrevUTF8CharLen: the first goes by the first
\* byte, the other by the bytes that continue a character.
CharLen(buf, pos) ==
  LET byte == buf[pos + 1]
  IN  IF pos = Len(buf) THEN 0 ELSE IF byte < 128 THEN 1 ELSE IF byte < 224 THEN 2 ELSE IF byte < 240 THEN 3 ELSE 4
PrevCharLen(buf, pos) ==
  LET starts == {p \in 0..(pos - 1) : buf[p + 1] \notin 128..191}
  IN  IF starts = {} THEN pos + 1 ELSE pos - Max(starts)

\* How many bytes a character has is told by the first one; too few of them are
\* no character, of length 0.
CodePoint(bytes) ==
  LET Low6(i) == bytes[i] % 64
  IN  CASE Len(bytes) >= 1 /\ bytes[1] < 128 -> [cp |-> bytes[1], len |-> 1]
        [] Len(bytes) >= 2 /\ bytes[1] \in 192..223 -> [cp |-> (bytes[1] % 32) * 64 + Low6(2), len |-> 2]
        [] Len(bytes) >= 3 /\ bytes[1] \in 224..239 ->
             [cp |-> (bytes[1] % 16) * 4096 + Low6(2) * 64 + Low6(3), len |-> 3]
        [] Len(bytes) >= 4 /\ bytes[1] \in 240..247 ->
             [cp |-> (bytes[1] % 8) * 262144 + Low6(2) * 4096 + Low6(3) * 64 + Low6(4), len |-> 4]
        [] OTHER -> [cp |-> 0, len |-> 0]
IsCombiningChar(cp) == cp \in CombiningChars
CharAt(buf, pos, len) == CodePoint(SubSeq(buf, pos + 1, pos + len)).cp

RECURSIVE GraphemeEnd(_, _)
GraphemeEnd(buf, pos) ==
  IF pos >= Len(buf) THEN pos
  ELSE LET len == CharLen(buf, pos)
       IN  IF IsCombiningChar(CharAt(buf, pos, len)) THEN GraphemeEnd(buf, pos + len) ELSE pos
GraphemeLen(buf, pos) ==
  IF pos = Len(buf) THEN 0 ELSE GraphemeEnd(buf, pos + CharLen(buf, pos)) - pos

\* Where no character is found that others combine with, there is nothing to
\* go back over.
RECURSIVE GraphemeStart(_, _)
GraphemeStart(buf, pos) ==
  IF pos <= 0 THEN {}
  ELSE LET len == PrevCharLen(buf, pos)
       IN  IF IsCombiningChar(CharAt(buf, pos - len, len)) THEN GraphemeStart(buf, pos - len) ELSE {pos - len}
PrevGraphemeLen(buf, pos) ==
  IF GraphemeStart(buf, pos) = {} THEN 0 ELSE pos - CHOOSE p \in GraphemeStart(buf, pos) : TRUE

\* isAnsiEscape: ESC, '[' and what follows up to one of some letters.
AnsiEscapeLen(buf) ==
  LET ends == {i \in 3..Len(buf) : buf[i] \in (65..72) \cup {74, 75, 83, 84, 102, 109}}
  IN  IF Len(buf) <= 2 THEN 0
      ELSE IF <<buf[1], buf[2]>> = <<27, 91>> /\ ends # {} THEN Min(ends) ELSE 0

WidthOf(cp) == IF IsCombiningChar(cp) THEN 0 ELSE IF cp \in WideChars THEN 2 ELSE 1

RECURSIVE ColumnPos(_)
ColumnPos(buf) ==
  LET skip == AnsiEscapeLen(buf)
      char == CodePoint(buf)
  IN  IF buf = <<>> THEN 0
      ELSE IF skip > 0 THEN ColumnPos(SubSeq(buf, skip + 1, Len(buf)))
      ELSE WidthOf(char.cp) + ColumnPos(SubSeq(buf, char.len + 1, Len(buf)))

\* unicodeReadUTF8Char: {} at the end, and at a byte that begins no character.
ReadUTF8Char(input) ==
  IF input = <<>> THEN {}
  ELSE LET need == CASE input[1] < 128 -> 1 [] input[1] \in 192..223 -> 2 [] input[1] \in 224..239 -> 3
                     [] input[1] \in 240..247 -> 4 [] OTHER -> 0
       IN  IF need = 0 \/ need > Len(input) THEN {}
           ELSE {[char |-> CodePoint(input), rest |-> SubSeq(input, need + 1, Len(input))]}
=============================================================================
