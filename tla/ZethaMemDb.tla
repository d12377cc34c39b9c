------------------------------ MODULE ZethaMemDb ------------------------------
(***************************************************************************)
(* zetha-mem programs (ZethaMEM-CLI.cpp) with a memv2::MemDB each          *)
(* (ZethaMEM.hpp) on one mapped file and one dump file.                    *)
(*                                                                         *)
(* A MemDB keeps its whole map in memory and writes the whole map to the   *)
(* shared mapping after every change: it clears the mapping, then copies   *)
(* the magic, the size and the encoded map into it.  A program can die,    *)
(* and another can open the file, between any two of these.  Two programs  *)
(* do not flush at the same time, nor dump at the same time.               *)
(***************************************************************************)
EXTENDS Naturals, FiniteSets

CONSTANTS
  Apps,             \* the programs
  Keys,             \* paths, as numbers in the order std::map has them in
  Values, NoValue,  \* records; no record under a path
  Piped,            \* records with a '|' in a field
  Kept,             \* what is left of a record, a double to six digits
  Cap,              \* how many records the mapping has room for
  Faults,           \* the failures that may happen, of FaultKinds
  MaxFails          \* bound: failures in a behaviour

FaultKinds == { "crash",  \* a program dies
                "map",    \* the file cannot be opened, resized or mapped
                "sync",   \* msync fails
                "dump" }  \* the dump is written in part

ASSUME MemAssumption == /\ Keys \subseteq Nat /\ IsFiniteSet(Keys)
                        /\ NoValue \notin Values
                        /\ Piped \subseteq Values
                        /\ Kept \in [Values -> Values]
                        /\ \A v \in Values : Kept[Kept[v]] = Kept[v]
                        /\ Cap \in Nat
                        /\ Faults \subseteq FaultKinds
                        /\ MaxFails \in Nat

VARIABLES
  area,                         \* the mapped file
  dump,                         \* the maps that load finds in the dump: one, or none
  pc, mode, mapped, data,       \* per App: its MemDB, and where in a command it is
  opened,                       \* per App: App::opened
  reply,                        \* what the last step said: none if it ended no command
  fails,                        \* failures so far
  flushed, whole,               \* history: the map last flushed, if no flush has begun since
  stale,                        \* history: another App has flushed since the App opened
  ahead,                        \* history: mapped, with a map that is not what it has read or flushed
  dumped                        \* history: the map last dumped

db      == <<pc, mode, mapped, data, opened, reply>>
history == <<flushed, whole, stale, ahead, dumped>>
vars    == <<area, dump, db, fails, history>>

Maps  == [Keys -> Values \cup {NoValue}]
Empty == [k \in Keys |-> NoValue]
Blank == [magic |-> FALSE, size |-> FALSE, body |-> "zero", map |-> Empty]

TypeOK ==
  /\ area \in [magic : BOOLEAN, size : BOOLEAN, body : {"zero", "part", "all"}, map : Maps]
  /\ dump \in SUBSET Maps
  /\ pc \in [Apps -> {"idle", "clear", "magic", "size", "copy", "rest", "sync", "dump"}]
  /\ mode \in [Apps -> {"PureRAM", "MMapBacked"}]
  /\ mapped \in [Apps -> BOOLEAN]
  /\ data \in [Apps -> Maps]
  /\ opened \in [Apps -> BOOLEAN]
  /\ reply \in {"none", "ok", "error"}
  /\ fails \in 0 .. MaxFails
  /\ flushed \in Maps
  /\ whole \in BOOLEAN
  /\ stale \in [Apps -> BOOLEAN]
  /\ ahead \in [Apps -> BOOLEAN]
  /\ dumped \in Maps

Fail(f) == /\ f \in Faults
           /\ fails < MaxFails
           /\ fails' = fails + 1

\* A file that is not there yet is created empty; a program starts in memory.
Init == /\ area = Blank
        /\ dump = {}
        /\ pc = [h \in Apps |-> "idle"]
        /\ mode = [h \in Apps |-> "PureRAM"]
        /\ mapped = [h \in Apps |-> FALSE]
        /\ data = [h \in Apps |-> Empty]
        /\ opened = [h \in Apps |-> TRUE]
        /\ reply = "none"
        /\ fails = 0
        /\ flushed = Empty
        /\ whole = FALSE
        /\ stale = [h \in Apps |-> FALSE]
        /\ ahead = [h \in Apps |-> FALSE]
        /\ dumped = Empty

-----------------------------------------------------------------------------
(* The encoding.                                                           *)

\* A field is split at every '|', escaped or not: with one too many, decode
\* fails for the whole map.
Decodable(m) == \A k \in Keys : m[k] \notin Piped

\* The records before path k: what is left of a map cut off between two records.
Before(m, k) == [j \in Keys |-> IF j < k THEN m[j] ELSE NoValue]
Parts(m)     == {Before(m, k) : k \in Keys}

\* What the encoding of m is decoded to, if it is.
Reread(m)    == [k \in Keys |-> IF m[k] \in Values THEN Kept[m[k]] ELSE NoValue]
Decode(maps) == {Reread(m) : m \in {n \in maps : Decodable(n)}}

\* Mutant: the encoding is taken for complete.
HeldAnyway(a) == IF ~a.magic \/ ~a.size THEN {Empty} ELSE Decode({a.map})

\* What open_mmap makes of the file: an empty map if there is no magic or no
\* size, nothing if the encoding is not all there.
Held(a) == IF ~a.magic \/ ~a.size THEN {Empty}
           ELSE IF a.body = "all" THEN Decode({a.map})
           ELSE {}

Fits(m) == Cardinality({k \in Keys : m[k] # NoValue}) <= Cap

-----------------------------------------------------------------------------
(* Commands that change the database in memory, and then flush.            *)

Idle(h)      == pc[h] = "idle" /\ opened[h]
Flushing(h)  == pc[h] \in {"clear", "magic", "size", "copy", "rest", "sync"}
Answer(r)    == reply' = r

\* flush_if_needed_, up to the point where it begins to write: m is in memory.
Change(h, m) ==
  /\ Idle(h)
  /\ data' = [data EXCEPT ![h] = m]
  /\ ahead' = [ahead EXCEPT ![h] = mapped[h]]
  /\ \/ /\ mode[h] = "PureRAM"
        /\ Answer("ok")
        /\ UNCHANGED pc
     \/ /\ mode[h] = "MMapBacked"
        /\ ~mapped[h] \/ ~Fits(m)
        /\ Answer("error")
        /\ UNCHANGED pc
     \/ /\ mode[h] = "MMapBacked" /\ mapped[h] /\ Fits(m)
        /\ \A g \in Apps : ~Flushing(g)
        /\ Answer("none")
        /\ pc' = [pc EXCEPT ![h] = "clear"]
  /\ UNCHANGED <<area, dump, mode, mapped, opened, fails, flushed, whole, stale, dumped>>

Put(h, k, v) == Change(h, [data[h] EXCEPT ![k] = v])
Erase(h, k)  == Change(h, [data[h] EXCEPT ![k] = NoValue])

\* Mutant: the dump is merged into the map.
LoadMerges(h) == \E m \in Decode(dump) :
  Change(h, [k \in Keys |-> IF m[k] = NoValue THEN data[h][k] ELSE m[k]])

\* load_from_file replaces the map by that of the dump, if that decodes.
Load(h) == \E m \in Decode(dump) : Change(h, m)

\* The flush, step by step.
Goes(h, from, to) == /\ pc[h] = from
                     /\ pc' = [pc EXCEPT ![h] = to]

Writes(h, from, to) == Goes(h, from, to) /\ Answer("none")

Clear(h) == /\ Writes(h, "clear", "magic")
            /\ area' = Blank
            /\ flushed' = Empty
            /\ whole' = FALSE
            /\ UNCHANGED <<dump, mode, mapped, data, opened, fails, stale, ahead, dumped>>

CopyMagic(h) == /\ Writes(h, "magic", "size")
                /\ area' = [area EXCEPT !.magic = TRUE]
                /\ UNCHANGED <<dump, mode, mapped, data, opened, fails, history>>

\* Mutant: the size is forgotten.
Unsized == area
Sized   == [area EXCEPT !.size = TRUE]

CopySize(h) == /\ Writes(h, "size", "copy")
               /\ area' = Sized
               /\ UNCHANGED <<dump, mode, mapped, data, opened, fails, history>>

Copy(h) == /\ Writes(h, "copy", "rest")
           /\ area' = [area EXCEPT !.body = "part", !.map = data[h]]
           /\ UNCHANGED <<dump, mode, mapped, data, opened, fails, history>>

\* Mutant: the copy is short.
CutShort == area
Filled   == [area EXCEPT !.body = "all"]

CopyRest(h) == /\ Writes(h, "rest", "sync")
               /\ area' = Filled
               /\ flushed' = data[h]
               /\ whole' = TRUE
               /\ stale' = [g \in Apps |-> g # h /\ (stale[g] \/ mapped[g])]
               /\ ahead' = [ahead EXCEPT ![h] = FALSE]
               /\ UNCHANGED <<dump, mode, mapped, data, opened, fails, dumped>>

Sync(h) == /\ Goes(h, "sync", "idle")
           /\ \/ Answer("ok") /\ UNCHANGED fails
              \/ Answer("error") /\ Fail("sync")
           /\ UNCHANGED <<area, dump, mode, mapped, data, opened, history>>

-----------------------------------------------------------------------------
(* Commands that replace the database.                                     *)

\* The App's database is a new one.
Fresh(h, m, inuse) ==
  /\ mode' = [mode EXCEPT ![h] = m]
  /\ mapped' = [mapped EXCEPT ![h] = FALSE]
  /\ data' = [data EXCEPT ![h] = Empty]
  /\ opened' = [opened EXCEPT ![h] = inuse]
  /\ stale' = [stale EXCEPT ![h] = FALSE]
  /\ ahead' = [ahead EXCEPT ![h] = FALSE]
  /\ UNCHANGED <<area, flushed, whole, dumped>>

Create(h) == /\ pc[h] = "idle"
             /\ Fresh(h, "PureRAM", TRUE)
             /\ Answer("ok")
             /\ UNCHANGED <<dump, pc, fails>>

Close(h) == /\ pc[h] = "idle"
            /\ Fresh(h, "PureRAM", FALSE)
            /\ Answer("ok")
            /\ UNCHANGED <<dump, pc, fails>>

\* open leaves the new database behind even when it fails: one that is not
\* mapped if the mapping failed, ...
OpenFails(h) == /\ pc[h] = "idle"
                /\ Fail("map")
                /\ Fresh(h, "MMapBacked", opened[h])
                /\ Answer("error")
                /\ UNCHANGED <<dump, pc>>

\* ... an empty one that is mapped if the file did not decode.
Open(h) == /\ pc[h] = "idle"
           /\ mode' = [mode EXCEPT ![h] = "MMapBacked"]
           /\ mapped' = [mapped EXCEPT ![h] = TRUE]
           /\ stale' = [stale EXCEPT ![h] = FALSE]
           /\ \/ \E m \in Held(area) : /\ data' = [data EXCEPT ![h] = m]
                                       /\ opened' = [opened EXCEPT ![h] = TRUE]
                                       /\ ahead' = [ahead EXCEPT ![h] = FALSE]
                                       /\ Answer("ok")
              \/ /\ Held(area) = {}
                 /\ data' = [data EXCEPT ![h] = Empty]
                 /\ ahead' = [ahead EXCEPT ![h] = TRUE]
                 /\ Answer("error")
                 /\ UNCHANGED opened
           /\ UNCHANGED <<area, dump, pc, fails, flushed, whole, dumped>>

-----------------------------------------------------------------------------
(* The dump.                                                               *)

\* Mutant: the old dump stays.
NotTruncated == dump
Truncated    == {}

\* dump_to_file truncates what was there, ...
Dump(h) == /\ Idle(h)
           /\ \A g \in Apps : pc[g] # "dump"
           /\ pc' = [pc EXCEPT ![h] = "dump"]
           /\ dump' = Truncated
           /\ dumped' = data[h]
           /\ Answer("none")
           /\ UNCHANGED <<area, mode, mapped, data, opened, fails, flushed, whole, stale, ahead>>

\* ... and writes; what does not get into the file may go unnoticed, in the
\* destructor of the stream.
DumpWritten(h) ==
  /\ Goes(h, "dump", "idle")
  /\ \/ dump' = {data[h]} /\ Answer("ok") /\ UNCHANGED fails
     \/ /\ Fail("dump")
        /\ \E part \in {{}} \cup {{m} : m \in Parts(data[h])} : dump' = part
        /\ \E r \in {"ok", "error"} : Answer(r)
  /\ UNCHANGED <<area, mode, mapped, data, opened, history>>

\* A program ends, in the middle of a command only if it crashes; the next one
\* starts.  A dump it was writing may be there in part.
Exit(h) == /\ IF pc[h] = "idle" THEN UNCHANGED fails ELSE Fail("crash")
           /\ pc' = [pc EXCEPT ![h] = "idle"]
           /\ Fresh(h, "PureRAM", TRUE)
           /\ Answer("none")
           /\ IF pc[h] = "dump"
              THEN \E part \in {{}} \cup {{m} : m \in Parts(data[h])} : dump' = part
              ELSE UNCHANGED dump

Next == \E h \in Apps :
          \/ \E k \in Keys, v \in Values : Put(h, k, v)
          \/ \E k \in Keys : Erase(h, k)
          \/ Load(h) \/ Clear(h) \/ CopyMagic(h) \/ CopySize(h) \/ Copy(h) \/ CopyRest(h)
          \/ Sync(h) \/ Create(h) \/ Close(h) \/ OpenFails(h) \/ Open(h)
          \/ Dump(h) \/ DumpWritten(h) \/ Exit(h)

Spec == Init /\ [][Next]_vars

-----------------------------------------------------------------------------
(* What makes the properties below inductive.                              *)

\* One program at a time flushes, one dumps.
Alone == \A g, h \in Apps : \/ Flushing(g) /\ Flushing(h)
                            \/ pc[g] = "dump" /\ pc[h] = "dump"
                            => g = h

\* The file holds the last map flushed, or not the whole of one.
AreaHolds == IF whole THEN area = [magic |-> TRUE, size |-> TRUE, body |-> "all", map |-> flushed]
                      ELSE area.body # "all"

\* How far a flush has got.
Progress(h) ==
  /\ pc[h] \in {"magic", "size", "copy", "rest"} => ~whole
  /\ pc[h] \in {"size", "copy", "rest"} => area.magic
  /\ pc[h] \in {"copy", "rest"} => area.size
  /\ pc[h] = "rest" => area.map = data[h]
  /\ pc[h] = "sync" => whole /\ flushed = data[h]

FlushInv == TypeOK /\ Alone /\ AreaHolds /\ \A h \in Apps : Progress(h)

\* What load finds is of the map last dumped.
DumpInv == /\ TypeOK /\ Alone
           /\ dump \subseteq {dumped} \cup Parts(dumped)
           /\ \A h \in Apps : pc[h] = "dump" => dumped = data[h]

\* What the two files hold, in the middle of a flush or a dump too: the mapped
\* one the last map flushed or not the whole of one, the dump the map last
\* dumped or its first records; and one program at a time writes either.
MemInv == FlushInv /\ DumpInv

-----------------------------------------------------------------------------
(* Properties.                                                             *)

\* open never shows a map that is half there: it is the last one flushed,
\* whole, or the empty one if a flush was cut short; and it fails only if a
\* flush was cut short or the map has a '|' in it.
OpenAllOrNothing ==
  [][\A h \in Apps : Open(h) =>
       \/ reply' = "ok" /\ data'[h] = (IF whole THEN Reread(flushed) ELSE Empty)
       \/ reply' = "error" /\ (whole => ~Decodable(flushed))]_vars

\* A program whose last flush went through holds what is in the file, unless
\* another one has flushed since.
MappedAgrees ==
  \A h \in Apps : mapped[h] /\ ~stale[h] /\ ~ahead[h] /\ whole =>
    Reread(data[h]) = Reread(flushed) /\ area.map = flushed /\ area.body = "all"

\* A change that is reported ok on a mapped database, a load after a crash
\* included, is what the next open of the file will show.
OkIsOnFile ==
  [][\A h \in Apps : pc[h] = "sync" /\ pc'[h] = "idle" /\ reply' = "ok" =>
       Held(area') = Decode({data[h]})]_vars

\* load never brings in more than was dumped, whatever became of the dump.
LoadsWhatWasDumped ==
  [][\A h \in Apps : Load(h) => data'[h] \in {Reread(m) : m \in {dumped} \cup Parts(dumped)}]_vars

\* A change that is reported ok can be opened again, and shows what the program
\* has in memory (tests/unit/test_zethamem_stage8.cpp:56 and 59).
OkReadsBack ==
  [][\A h \in Apps : pc[h] = "sync" /\ pc'[h] = "idle" /\ reply' = "ok" =>
       Held(area') = {data[h]}]_vars
=============================================================================
