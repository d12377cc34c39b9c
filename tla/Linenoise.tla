--------------------------------- MODULE Linenoise ---------------------------------
(***************************************************************************)
(* The line editor behind the prompts of zetha-rdb and zetha-mem, with the *)
(* loop that reads lines from it. Characters are of one byte and of one    *)
(* column. The editor writes into wbuf at buf, which is wbuf + shift: where *)
(* a line is wider than the terminal, drawing it moves buf, for good. What  *)
(* reaches outside wbuf or the history is not followed any further.        *)
(***************************************************************************)
EXTENDS Integers, Sequences, SequencesExt, FiniteSetsExt

CONSTANTS
  Letters,       \* characters that are typed
  Room,          \* columns of the terminal that the prompt leaves
  MaxLine,       \* of wbuf: LINENOISE_MAX_LINE
  HistoryMaxLen,
  Histories,     \* what the file of the history may hold at the start
  MaxKeys        \* bound: keys that are pressed

Nul   == ""      \* the byte behind a line
Gap   == " "

ControlKeys == {"backspace", "ctrl-d", "ctrl-t", "left", "right", "home", "end", "ctrl-u", "ctrl-k", "ctrl-w"}
EditKeys    == Letters \cup ControlKeys

ASSUME EditorAssumption ==
  /\ {Room, MaxLine, HistoryMaxLen} \subseteq Nat \ {0} /\ MaxKeys \in Nat
  /\ Letters \cap ({Nul, "up", "down", "enter", "quit"} \cup ControlKeys) = {}
  /\ Histories \subseteq Seq(Seq(Letters))

VARIABLES
  line,      \* [wbuf, shift, len, pos]
  history,   \* history_, the oldest entry first
  history_index,  \* history_index_, counted from the newest entry
  strayed,   \* whether a key has read or written outside wbuf_ or history_
  multi,     \* mlmode_
  last_key,  \* the last key that was pressed ("quit" for one that ends the program)
  returned,  \* {} or {what Readline gave back for it}
  key_count  \* how many were pressed

editorVars == <<line, history, history_index, strayed, multi, last_key, returned, key_count>>

-----------------------------------------------------------------------------
(* The line.                                                               *)

Text(l) == SubSeq(l.wbuf, l.shift + 1, l.shift + l.len)

\* What a C string is of a text that has a byte 0 in it, or behind it.
UpToNul(text) ==
  LET nuls == {i \in DOMAIN text : text[i] = Nul}
  IN  IF nuls = {} THEN text ELSE SubSeq(text, 1, Min(nuls) - 1)
CString(l) == UpToNul(SubSeq(l.wbuf, l.shift + 1, MaxLine))

\* refreshSingleLine: what does not fit in front of the cursor is dropped from
\* the line, and so is what does not fit behind it. refreshMultiLine only draws.
RefreshLine(l) ==
  LET glen == Max({0, l.pos - Room + 1})
  IN  IF multi THEN l
      ELSE [l EXCEPT !.shift = @ + glen, !.pos = @ - glen, !.len = Min({@ - glen, Room})]

\* memmove and memcpy at buf, and the byte behind.
Holding(l, text, pos) ==
  [l EXCEPT !.len = Len(text), !.pos = pos,
            !.wbuf = [i \in DOMAIN @ |-> IF i - l.shift \in DOMAIN text THEN text[i - l.shift]
                                         ELSE IF i = l.shift + Len(text) + 1 THEN Nul ELSE @[i]]]

EditInsert(l, c) ==
  IF l.len >= MaxLine - 1 THEN l ELSE RefreshLine(Holding(l, InsertAt(Text(l), l.pos + 1, c), l.pos + 1))

MovedTo(l, pos) == IF l.pos = pos THEN l ELSE RefreshLine([l EXCEPT !.pos = pos])
EditMoveLeft(l)  == MovedTo(l, Max({l.pos - 1, 0}))
EditMoveRight(l) == MovedTo(l, Min({l.pos + 1, l.len}))
EditMoveHome(l)  == MovedTo(l, 0)
EditMoveEnd(l)   == MovedTo(l, l.len)

EditDelete(l) ==
  IF l.pos < l.len THEN RefreshLine(Holding(l, RemoveAt(Text(l), l.pos + 1), l.pos)) ELSE l

\* MUTANT: the cursor stays where it is.
EditBackspaceStays(l) ==
  IF l.pos > 0 THEN RefreshLine(Holding(l, RemoveAt(Text(l), l.pos), Min({l.pos, l.len - 1}))) ELSE l

EditBackspace(l) ==
  IF l.pos > 0 THEN RefreshLine(Holding(l, RemoveAt(Text(l), l.pos), l.pos - 1)) ELSE l

\* The byte behind the line moves with what follows the cursor.
EditDeletePrevWord(l) ==
  LET text == Text(l)
      word == Max({0} \cup {i \in 1..l.pos : text[i] # Gap})
      pos  == Max({0} \cup {i \in 1..word : text[i] = Gap})
      rest == SubSeq(l.wbuf, l.shift + l.pos + 1, l.shift + l.len + 1)
  IN  RefreshLine([l EXCEPT !.pos = pos, !.len = @ - (l.pos - pos),
                            !.wbuf = [i \in DOMAIN @ |-> IF i - l.shift - pos \in DOMAIN rest
                                                         THEN rest[i - l.shift - pos] ELSE @[i]]])

\* These three write to wbuf, not to buf.
SwapPrevious(l) ==
  IF 0 < l.pos /\ l.pos < l.len
  THEN RefreshLine([l EXCEPT !.wbuf[l.pos] = l.wbuf[l.pos + 1], !.wbuf[l.pos + 1] = l.wbuf[l.pos],
                             !.pos = IF @ = l.len - 1 THEN @ ELSE @ + 1])
  ELSE l
DeleteLine(l)  == RefreshLine([l EXCEPT !.wbuf[1] = Nul, !.pos = 0, !.len = 0])
DeleteToEnd(l) == RefreshLine([l EXCEPT !.wbuf[l.pos + 1] = Nul, !.len = l.pos])

EditedLine(l, k) ==
  CASE k \in Letters    -> EditInsert(l, k)
    [] k = "backspace"  -> EditBackspace(l)
    [] k = "ctrl-d"     -> EditDelete(l)
    [] k = "ctrl-t"     -> SwapPrevious(l)
    [] k = "left"       -> EditMoveLeft(l)
    [] k = "right"      -> EditMoveRight(l)
    [] k = "home"       -> EditMoveHome(l)
    [] k = "end"        -> EditMoveEnd(l)
    [] k = "ctrl-u"     -> DeleteLine(l)
    [] k = "ctrl-k"     -> DeleteToEnd(l)
    [] k = "ctrl-w"     -> EditDeletePrevWord(l)

-----------------------------------------------------------------------------
(* The history.                                                            *)

\* No entry is the same as the one before it, and the oldest makes room.
AddHistory(entries, text) ==
  IF entries # <<>> /\ Last(entries) = text THEN entries
  ELSE Append(IF Len(entries) = HistoryMaxLen THEN Tail(entries) ELSE entries, text)

\* SaveHistory and LoadHistory: a line for each entry.
LoadHistory(lines) ==
  LET loaded[n \in 0..Len(lines)] == IF n = 0 THEN <<>> ELSE AddHistory(loaded[n - 1], lines[n])
  IN  loaded[Len(lines)]

\* Raw: the buffer is emptied where buf is and at its start; buf stays.
FreshLine(l) == [l EXCEPT !.wbuf[1] = Nul, !.wbuf[l.shift + 1] = Nul, !.len = 0, !.pos = 0]
NewLine == [wbuf |-> [i \in 1..MaxLine |-> Nul], shift |-> 0, len |-> 0, pos |-> 0]

EditorInit ==
  /\ line = NewLine
  /\ \E h \in Histories : history = AddHistory(LoadHistory(h), <<>>)
  /\ history_index = 0
  /\ strayed = FALSE
  /\ multi \in BOOLEAN
  /\ last_key = "start" /\ returned = {} /\ key_count = 0

-----------------------------------------------------------------------------
(* Keys.                                                                   *)

Pressed(k) == key_count < MaxKeys /\ key_count' = key_count + 1 /\ last_key' = k /\ UNCHANGED multi

\* Nothing is said of a program that has read or written outside its buffers.
StraysIf(outside) == ~strayed /\ strayed' = outside

\* EditInsert compares len_ with buf_len_, and does not look at where buf_ is.
InsertStrays(k) == k \in Letters /\ line.len < MaxLine - 1 /\ line.shift + line.len + 1 >= MaxLine

EditKey(k) ==
  /\ Pressed(k)
  /\ k = "ctrl-d" => line.len > 0
  /\ StraysIf(InsertStrays(k))
  /\ line' = IF InsertStrays(k) THEN line ELSE EditedLine(line, k)
  /\ returned' = {}
  /\ UNCHANGED <<history, history_index>>

\* history_ is indexed as it is, memset clears buf_len_ bytes wherever buf_ is,
\* and strcpy copies all of an entry.
NextIndex(k) == IF k = "up" THEN history_index + 1 ELSE history_index - 1
IsEntry(i)   == i \in 0..(Len(history) - 1)
ArrowStrays(k) ==
  /\ Len(history) > 1
  /\ \/ ~IsEntry(history_index)
     \/ /\ IsEntry(NextIndex(k))
        /\ \/ line.shift + MaxLine - 1 > MaxLine
           \/ line.shift + Len(history[Len(history) - NextIndex(k)]) >= MaxLine

\* EditHistoryNext: the entry that history_index names takes the line first. The
\* index is not set back for a new line.
HistoryKey(k) ==
  /\ k \in {"up", "down"}
  /\ Pressed(k)
  /\ returned' = {}
  /\ StraysIf(ArrowStrays(k))
  /\ LET saved == [history EXCEPT ![Len(history) - history_index] = CString(line)]
         shown == saved[Len(history) - NextIndex(k)]
         clear == [line EXCEPT !.wbuf = [i \in DOMAIN @ |-> IF i > line.shift THEN Nul ELSE @[i]]]
     IN  IF Len(history) <= 1 \/ ArrowStrays(k) THEN UNCHANGED <<line, history, history_index>>
         ELSE /\ history' = saved
              /\ IF IsEntry(NextIndex(k))
                 THEN history_index' = NextIndex(k) /\ line' = RefreshLine(Holding(clear, shown, Len(shown)))
                 ELSE UNCHANGED <<line, history_index>>

\* The line is returned and, if there is anything in it, run and remembered;
\* then the next one is begun. The newest entry, which stood for the line, goes.
EnterKey ==
  LET text == Text(line)
      kept == Front(history)
  IN  /\ Pressed("enter")
      /\ StraysIf(FALSE)
      /\ returned' = {text}
      /\ history' = AddHistory(IF text = <<>> THEN kept ELSE AddHistory(kept, UpToNul(text)), <<>>)
      /\ line' = FreshLine(line)
      /\ UNCHANGED history_index

\* The program ends, and another one is started with the history that it
\* saved: after ctrl-c, with an entry for the line that was given up.
LeaveKey(k) ==
  /\ Pressed("quit")
  /\ StraysIf(FALSE)
  /\ k = "ctrl-d" => line.len = 0
  /\ returned' = {}
  /\ history' = AddHistory(LoadHistory(IF k = "ctrl-c" THEN history ELSE Front(history)), <<>>)
  /\ line' = NewLine
  /\ history_index' = 0

EditorNext ==
  \/ \E k \in EditKeys : EditKey(k)
  \/ \E k \in {"up", "down"} : HistoryKey(k)
  \/ EnterKey
  \/ \E k \in {"ctrl-c", "ctrl-d"} : LeaveKey(k)

-----------------------------------------------------------------------------
(* What is expected of a line editor.                                      *)

\* The text and the cursor after a key. A full line takes no more letters.
Expected(k, text, pos) ==
  LET Cut(from, to) == SubSeq(text, 1, from) \o SubSeq(text, to + 1, Len(text))
      before == Max({0} \cup {q \in 1..(pos - 1) : text[q] = Gap /\ text[q + 1] # Gap})
  IN  CASE k \in Letters /\ Len(text) >= MaxLine - 1 -> <<text, pos>>
        [] k \in Letters /\ Len(text) < MaxLine - 1 -> <<SubSeq(text, 1, pos) \o <<k>> \o SubSeq(text, pos + 1, Len(text)), pos + 1>>
        [] k = "backspace" -> IF pos = 0 THEN <<text, 0>> ELSE <<Cut(pos - 1, pos), pos - 1>>
        [] k = "ctrl-d"    -> <<Cut(pos, Min({pos + 1, Len(text)})), pos>>
        [] k = "ctrl-t"    -> IF pos \in 1..(Len(text) - 1)
                              THEN <<[text EXCEPT ![pos] = text[pos + 1], ![pos + 1] = text[pos]],
                                     Min({pos + 1, Len(text) - 1})>>
                              ELSE <<text, pos>>
        [] k = "left"      -> <<text, Max({pos - 1, 0})>>
        [] k = "right"     -> <<text, Min({pos + 1, Len(text)})>>
        [] k = "home"      -> <<text, 0>>
        [] k = "end"       -> <<text, Len(text)>>
        [] k = "ctrl-u"    -> <<<<>>, 0>>
        [] k = "ctrl-k"    -> <<SubSeq(text, 1, pos), pos>>
        [] k = "ctrl-w"    -> <<Cut(before, pos), before>>

\* A key changes the line and the cursor as such a key does, but that a line
\* wider than the terminal loses what is not shown of it: in multi-line mode, and
\* while the line fits, nothing is lost. Where the line has moved in the buffer,
\* ctrl-t and ctrl-k move the cursor and the end as they should, but change
\* another part of the buffer than the line, so that nothing is said of the text.
LineChanges ==
  LET want  == Expected(last_key', Text(line), line.pos)
      moved == line'.shift - line.shift
  IN  /\ line'.pos = want[2] - moved
      /\ line.shift = 0 \/ last_key' \notin {"ctrl-t", "ctrl-k"} =>
           Text(line') = SubSeq(want[1], moved + 1, moved + line'.len)
      /\ multi \/ Len(want[1]) < Room => moved = 0 /\ line'.len = Len(want[1])

\* An arrow shows the next entry, or as much as fits of it, with the cursor at
\* its end, and keeps the line that it replaces, whole in multi-line mode; no
\* other entry changes.
EntryShown ==
  /\ \A i \in DOMAIN history : i # Len(history) - history_index => history'[i] = history[i]
  /\ history_index' # history_index => /\ IsSuffix(Text(line'), history[Len(history) - history_index'])
                       /\ line'.pos = line'.len /\ (multi => Text(line') = history[Len(history) - history_index'])
  /\ multi /\ Len(history) > 1 => history'[Len(history) - history_index] = Text(line)

\* The place in the history stays one, unless a line was ended with an empty
\* entry behind it, so that there was no new one for the next line.
PlaceKept ==
  \/ history_index' < Len(history') \/ history_index >= Len(history)
  \/ last_key' = "enter" /\ Len(history) > 1 /\ history[Len(history) - 1] = <<>>

\* A key leaves the buffers only where a line wider than the terminal has moved
\* in its buffer, where the place in the history is lost, or for an entry that is
\* longer than the buffer, as the file of the history may hold.
StraysOnlyFrom ==
  \/ ~multi /\ line.shift > 0
  \/ history_index >= Len(history)
  \/ \E i \in DOMAIN history : Len(history[i]) >= MaxLine

\* What a key does to the line and to the history is what such a key is for, as
\* long as it stays in the buffers; and it does, but for what StraysOnlyFrom says.
KeysDoWhatTheySay ==
  [][IF strayed' THEN StraysOnlyFrom
     ELSE /\ last_key' \in EditKeys => LineChanges
          /\ last_key' \in {"up", "down"} => EntryShown
          /\ PlaceKept]_editorVars
=============================================================================
