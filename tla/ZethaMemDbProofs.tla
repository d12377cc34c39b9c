--------------------------- MODULE ZethaMemDbProofs ---------------------------
(***************************************************************************)
(* Theorems about ZethaMemDb, for any programs, paths, records, capacity   *)
(* and failures.                                                           *)
(***************************************************************************)
EXTENDS ZethaMemDb, TLAPS

USE MemAssumption

-----------------------------------------------------------------------------
(* Maps and their encodings.                                               *)

LEMMA EmptyIsMap == Empty \in Maps
BY DEF Empty, Maps

LEMMA RereadIsMap == ASSUME NEW m \in Maps PROVE Reread(m) \in Maps
BY DEF Reread, Maps

LEMMA PartsAreMaps == ASSUME NEW m \in Maps PROVE Parts(m) \subseteq Maps
BY DEF Parts, Before, Maps

\* What has been read once is not changed by being written and read again.
LEMMA RereadTwice == ASSUME NEW m \in Maps PROVE Reread(Reread(m)) = Reread(m)
<1>1. \A k \in Keys : Reread(m)[k] =
                        IF m[k] \in Values THEN Kept[m[k]] ELSE NoValue
  BY DEF Reread
<1>2. \A k \in Keys : Reread(Reread(m))[k] =
                        IF Reread(m)[k] \in Values THEN Kept[Reread(m)[k]] ELSE NoValue
  BY DEF Reread
<1>3. \A k \in Keys : Reread(Reread(m))[k] = Reread(m)[k]
  BY <1>1, <1>2
<1>4. QED BY <1>3 DEF Reread

LEMMA DecodeMaps ==
  ASSUME NEW S, S \subseteq Maps PROVE Decode(S) \subseteq Maps
BY RereadIsMap DEF Decode

LEMMA HeldMaps == TypeOK => Held(area) \subseteq Maps
<1>1. TypeOK => area.map \in Maps
  BY DEF TypeOK
<1>2. QED BY <1>1, EmptyIsMap, DecodeMaps DEF Held

-----------------------------------------------------------------------------
(* Types.                                                                  *)

LEMMA InitTypeOK == Init => TypeOK
<1>1. 0 \in 0 .. MaxFails
  OBVIOUS
<1>2. Blank \in [magic : BOOLEAN, size : BOOLEAN, body : {"zero", "part", "all"}, map : Maps]
  BY EmptyIsMap DEF Blank
<1>3. QED BY <1>1, <1>2, EmptyIsMap, ZenonT(30) DEF Init, TypeOK

LEMMA NextTypeOK == TypeOK /\ [Next]_vars => TypeOK'
<1> SUFFICES ASSUME TypeOK, [Next]_vars PROVE TypeOK'
  OBVIOUS
<1> USE DEF TypeOK
<1>1. ASSUME NEW h \in Apps, NEW m \in Maps, Change(h, m) PROVE TypeOK'
  BY <1>1 DEF Change, Answer, Flushing
<1>2. ASSUME NEW h \in Apps, NEW k \in Keys, NEW v \in Values, Put(h, k, v) PROVE TypeOK'
  <2>1. [data[h] EXCEPT ![k] = v] \in Maps
    BY DEF Maps
  <2>2. QED BY <1>1, <1>2, <2>1 DEF Put
<1>3. ASSUME NEW h \in Apps, NEW k \in Keys, Erase(h, k) PROVE TypeOK'
  <2>1. [data[h] EXCEPT ![k] = NoValue] \in Maps
    BY DEF Maps
  <2>2. QED BY <1>1, <1>3, <2>1 DEF Erase
<1>4. ASSUME NEW h \in Apps, Load(h) PROVE TypeOK'
  <2>1. PICK m \in Decode(dump) : Change(h, m)
    BY <1>4 DEF Load
  <2>2. m \in Maps
    BY <2>1, DecodeMaps
  <2>3. QED BY <1>1, <2>1, <2>2
<1>5. ASSUME NEW h \in Apps, Clear(h) PROVE TypeOK'
  BY <1>5, EmptyIsMap DEF Clear, Writes, Goes, Answer, Blank
<1>6. ASSUME NEW h \in Apps, CopyMagic(h) \/ CopySize(h) \/ Copy(h) PROVE TypeOK'
  BY <1>6, ZenonT(30) DEF CopyMagic, CopySize, Copy, Sized, Writes, Goes, Answer, history
<1>7. ASSUME NEW h \in Apps, CopyRest(h) PROVE TypeOK'
  BY <1>7 DEF CopyRest, Filled, Writes, Goes, Answer
<1>8. ASSUME NEW h \in Apps, Sync(h) PROVE TypeOK'
  BY <1>8 DEF Sync, Goes, Answer, Fail, history
<1>9. ASSUME NEW h \in Apps, Create(h) \/ Close(h) \/ OpenFails(h) PROVE TypeOK'
  <2>1. CASE Create(h)
    BY <2>1, EmptyIsMap DEF Create, Fresh, Answer
  <2>2. CASE Close(h)
    BY <2>2, EmptyIsMap DEF Close, Fresh, Answer
  <2>3. CASE OpenFails(h)
    BY <2>3, EmptyIsMap DEF OpenFails, Fresh, Answer, Fail
  <2>4. QED BY <1>9, <2>1, <2>2, <2>3
<1>10. ASSUME NEW h \in Apps, Open(h) PROVE TypeOK'
  <2>1. /\ data' \in [Apps -> Maps]
        /\ opened' \in [Apps -> BOOLEAN]
        /\ ahead' \in [Apps -> BOOLEAN]
        /\ reply' \in {"ok", "error"}
    <3>1. CASE Held(area) = {}
      <4>1. /\ data' = [data EXCEPT ![h] = Empty]
            /\ opened' = opened
            /\ ahead' = [ahead EXCEPT ![h] = TRUE]
            /\ reply' = "error"
        BY <1>10, <3>1 DEF Open, Answer
      <4>2. QED BY <4>1, EmptyIsMap
    <3>2. CASE Held(area) # {}
      <4>1. PICK m \in Held(area) : /\ data' = [data EXCEPT ![h] = m]
                                    /\ opened' = [opened EXCEPT ![h] = TRUE]
                                    /\ ahead' = [ahead EXCEPT ![h] = FALSE]
                                    /\ reply' = "ok"
        BY <1>10, <3>2 DEF Open, Answer
      <4>2. m \in Maps
        BY HeldMaps
      <4>3. QED BY <4>1, <4>2
    <3>3. QED BY <3>1, <3>2
  <2>2. QED BY <1>10, <2>1 DEF Open
<1>11. ASSUME NEW h \in Apps, Dump(h) PROVE TypeOK'
  BY <1>11 DEF Dump, Idle, Truncated, Answer
<1>12. ASSUME NEW h \in Apps, DumpWritten(h) PROVE TypeOK'
  BY <1>12, PartsAreMaps DEF DumpWritten, Goes, Answer, Fail, history
<1>13. ASSUME NEW h \in Apps, Exit(h) PROVE TypeOK'
  BY <1>13, EmptyIsMap, PartsAreMaps DEF Exit, Fresh, Answer, Fail
<1>14. CASE UNCHANGED vars
  BY <1>14 DEF vars, db, history
<1>15. QED
  BY <1>2, <1>3, <1>4, <1>5, <1>6, <1>7, <1>8, <1>9, <1>10, <1>11, <1>12, <1>13, <1>14
  DEF Next

\* Every variable keeps its type.
THEOREM MemTypeCorrect == Spec => []TypeOK
<1>1. QED BY InitTypeOK, NextTypeOK, PTL DEF Spec

-----------------------------------------------------------------------------
(* Flushes.                                                                *)

\* Steps that touch neither the file nor another program: the program ends up
\* idle, or begins a flush or a dump when no other is at one.
LEMMA QuietStep ==
  ASSUME FlushInv, TypeOK', NEW h \in Apps,
         UNCHANGED <<area, flushed, whole>>,
         \A g \in Apps \ {h} : pc'[g] = pc[g] /\ data'[g] = data[g],
         \/ pc'[h] = "idle"
         \/ pc'[h] = "clear" /\ \A g \in Apps : ~Flushing(g)
         \/ pc'[h] = "dump" /\ \A g \in Apps : pc[g] # "dump"
  PROVE  FlushInv'
<1>1. Alone'
  BY DEF FlushInv, Alone, Flushing
<1>2. AreaHolds'
  BY DEF FlushInv, AreaHolds
<1>3. ASSUME NEW g \in Apps PROVE Progress(g)'
  <2>1. CASE g = h
    BY <2>1 DEF Progress
  <2>2. CASE g # h
    BY <2>2 DEF FlushInv, Progress
  <2>3. QED BY <2>1, <2>2
<1>4. QED BY <1>1, <1>2, <1>3 DEF FlushInv

\* A step of a flush, for all programs but the one that makes it.
LEMMA FlushStep ==
  ASSUME FlushInv, TypeOK', NEW h \in Apps,
         Flushing(h), Flushing(h)',
         \A g \in Apps \ {h} : pc'[g] = pc[g],
         AreaHolds', Progress(h)'
  PROVE  FlushInv'
<1>1. \A g \in Apps \ {h} : ~Flushing(g)
  BY DEF FlushInv, Alone
<1>2. Alone'
  BY <1>1 DEF FlushInv, Alone, Flushing
<1>3. ASSUME NEW g \in Apps PROVE Progress(g)'
  <2>1. CASE g # h
    BY <1>1, <2>1 DEF Progress, Flushing
  <2>2. QED BY <2>1
<1>4. QED BY <1>2, <1>3 DEF FlushInv

LEMMA InitFlushInv == Init => FlushInv
BY InitTypeOK DEF Init, FlushInv, Alone, Flushing, AreaHolds, Progress, Blank

LEMMA NextFlushInv == FlushInv /\ [Next]_vars => FlushInv'
<1> SUFFICES ASSUME FlushInv, [Next]_vars PROVE FlushInv'
  OBVIOUS
<1>1. TypeOK /\ TypeOK'
  BY NextTypeOK DEF FlushInv
<1>2. ASSUME NEW h \in Apps, NEW m, Change(h, m) PROVE FlushInv'
  BY <1>1, <1>2, QuietStep DEF Change, Idle, TypeOK
<1>3. ASSUME NEW h \in Apps, Clear(h) PROVE FlushInv'
  <2>1. Flushing(h) /\ Flushing(h)' /\ \A g \in Apps \ {h} : pc'[g] = pc[g]
    BY <1>1, <1>3 DEF Clear, Writes, Goes, Flushing, TypeOK
  <2>2. AreaHolds' /\ Progress(h)'
    BY <1>1, <1>3 DEF Clear, Writes, Goes, AreaHolds, Progress, Blank, TypeOK
  <2>3. QED BY <1>1, <2>1, <2>2, FlushStep
<1>4. ASSUME NEW h \in Apps, CopyMagic(h) PROVE FlushInv'
  <2>1. Flushing(h) /\ Flushing(h)' /\ \A g \in Apps \ {h} : pc'[g] = pc[g]
    BY <1>1, <1>4 DEF CopyMagic, Writes, Goes, Flushing, TypeOK
  <2>2. AreaHolds' /\ Progress(h)'
    BY <1>1, <1>4 DEF CopyMagic, Writes, Goes, FlushInv, AreaHolds, Progress, TypeOK, history
  <2>3. QED BY <1>1, <2>1, <2>2, FlushStep
<1>5. ASSUME NEW h \in Apps, CopySize(h) PROVE FlushInv'
  <2>1. Flushing(h) /\ Flushing(h)' /\ \A g \in Apps \ {h} : pc'[g] = pc[g]
    BY <1>1, <1>5 DEF CopySize, Writes, Goes, Flushing, TypeOK
  <2>2. AreaHolds' /\ Progress(h)'
    BY <1>1, <1>5 DEF CopySize, Sized, Writes, Goes, FlushInv, AreaHolds, Progress, TypeOK, history
  <2>3. QED BY <1>1, <2>1, <2>2, FlushStep
<1>6. ASSUME NEW h \in Apps, Copy(h) PROVE FlushInv'
  <2>1. Flushing(h) /\ Flushing(h)' /\ \A g \in Apps \ {h} : pc'[g] = pc[g]
    BY <1>1, <1>6 DEF Copy, Writes, Goes, Flushing, TypeOK
  <2>2. AreaHolds' /\ Progress(h)'
    BY <1>1, <1>6 DEF Copy, Writes, Goes, FlushInv, AreaHolds, Progress, TypeOK, history
  <2>3. QED BY <1>1, <2>1, <2>2, FlushStep
<1>7. ASSUME NEW h \in Apps, CopyRest(h) PROVE FlushInv'
  <2>1. Flushing(h) /\ Flushing(h)' /\ \A g \in Apps \ {h} : pc'[g] = pc[g]
    BY <1>1, <1>7 DEF CopyRest, Writes, Goes, Flushing, TypeOK
  <2>2. AreaHolds' /\ Progress(h)'
    BY <1>1, <1>7 DEF CopyRest, Filled, Writes, Goes, FlushInv, AreaHolds, Progress, TypeOK
  <2>3. QED BY <1>1, <2>1, <2>2, FlushStep
<1>8. ASSUME NEW h \in Apps, Sync(h) \/ DumpWritten(h) PROVE FlushInv'
  BY <1>1, <1>8, QuietStep DEF Sync, DumpWritten, Goes, TypeOK, history
<1>9. ASSUME NEW h \in Apps, Create(h) \/ Close(h) \/ OpenFails(h) \/ Exit(h) PROVE FlushInv'
  BY <1>1, <1>9, QuietStep DEF Create, Close, OpenFails, Exit, Fresh, TypeOK
<1>10. ASSUME NEW h \in Apps, Open(h) PROVE FlushInv'
  BY <1>1, <1>10, QuietStep DEF Open, TypeOK
<1>11. ASSUME NEW h \in Apps, Dump(h) PROVE FlushInv'
  BY <1>1, <1>11, QuietStep DEF Dump, TypeOK
<1>12. CASE UNCHANGED vars
  BY <1>1, <1>12 DEF vars, db, history, FlushInv, Alone, Flushing, AreaHolds, Progress
<1>13. QED
  BY <1>2, <1>3, <1>4, <1>5, <1>6, <1>7, <1>8, <1>9, <1>10, <1>11, <1>12
  DEF Next, Put, Erase, Load

\* The file holds the last map flushed, or not the whole of one, and one
\* program at a time flushes.
THEOREM FileHoldsFlushed == Spec => []FlushInv
<1>1. QED BY InitFlushInv, NextFlushInv, PTL DEF Spec

-----------------------------------------------------------------------------
(* Opening the file.                                                       *)

LEMMA DecodeOne ==
  ASSUME NEW m
  PROVE  Decode({m}) = IF Decodable(m) THEN {Reread(m)} ELSE {}
BY DEF Decode

\* What open makes of the file, between and within flushes.
LEMMA HeldFlushed ==
  ASSUME FlushInv
  PROVE  Held(area) \in IF whole
                        THEN {IF Decodable(flushed) THEN {Reread(flushed)} ELSE {}}
                        ELSE {{}, {Empty}}
<1>1. CASE whole
  <2>1. Held(area) = Decode({flushed})
    BY <1>1 DEF FlushInv, AreaHolds, Held
  <2>2. QED BY <1>1, <2>1, DecodeOne
<1>2. CASE ~whole
  BY <1>2 DEF FlushInv, AreaHolds, Held
<1>3. QED BY <1>1, <1>2

LEMMA OpenSees ==
  ASSUME FlushInv, NEW h \in Apps, Open(h)
  PROVE  \/ reply' = "ok" /\ data'[h] = (IF whole THEN Reread(flushed) ELSE Empty)
         \/ reply' = "error" /\ (whole => ~Decodable(flushed))
<1>1. CASE Held(area) = {}
  <2>1. reply' = "error"
    BY <1>1 DEF Open, Answer
  <2>2. whole => ~Decodable(flushed)
    BY <1>1, HeldFlushed
  <2>3. QED BY <2>1, <2>2
<1>2. CASE Held(area) # {}
  <2>1. PICK m \in Held(area) : data' = [data EXCEPT ![h] = m] /\ reply' = "ok"
    BY <1>2 DEF Open, Answer
  <2>2. data'[h] = m
    BY <2>1 DEF FlushInv, TypeOK
  <2>3. m = IF whole THEN Reread(flushed) ELSE Empty
    BY <2>1, HeldFlushed
  <2>4. QED BY <2>1, <2>2, <2>3
<1>3. QED BY <1>1, <1>2

\* open never shows a map that is half there.
THEOREM MemOpenAllOrNothing == Spec => OpenAllOrNothing
<1>1. FlushInv /\ [Next]_vars =>
        [\A h \in Apps : Open(h) =>
           \/ reply' = "ok" /\ data'[h] = (IF whole THEN Reread(flushed) ELSE Empty)
           \/ reply' = "error" /\ (whole => ~Decodable(flushed))]_vars
  BY OpenSees
<1>2. QED BY <1>1, FileHoldsFlushed, PTL DEF Spec, OpenAllOrNothing

-----------------------------------------------------------------------------
(* What is reported ok.                                                    *)

\* What ends a flush with ok has left the file alone.
LEMMA OkLeavesFile ==
  ASSUME [Next]_vars, NEW h \in Apps, pc[h] = "sync", pc'[h] = "idle", reply' = "ok"
  PROVE  area' = area
<1>1. CASE UNCHANGED vars
  BY <1>1 DEF vars
<1>2. ASSUME NEW g \in Apps, NEW m, Change(g, m) PROVE area' = area
  BY <1>2 DEF Change
<1>3. ASSUME NEW g \in Apps
      PROVE  ~(Clear(g) \/ CopyMagic(g) \/ CopySize(g) \/ Copy(g) \/ CopyRest(g))
  BY DEF Clear, CopyMagic, CopySize, Copy, CopyRest, Writes, Answer
<1>4. ASSUME NEW g \in Apps, Sync(g) \/ Create(g) \/ Close(g) \/ OpenFails(g) \/ Exit(g)
      PROVE  area' = area
  BY <1>4 DEF Sync, Create, Close, OpenFails, Exit, Fresh
<1>5. ASSUME NEW g \in Apps, Open(g) \/ Dump(g) \/ DumpWritten(g) PROVE area' = area
  BY <1>5 DEF Open, Dump, DumpWritten
<1>6. QED BY <1>1, <1>2, <1>3, <1>4, <1>5 DEF Next, Put, Erase, Load

\* A change that is reported ok is what the next open shows.
THEOREM MemOkIsOnFile == Spec => OkIsOnFile
<1>1. ASSUME FlushInv, [Next]_vars,
             NEW h \in Apps, pc[h] = "sync", pc'[h] = "idle", reply' = "ok"
      PROVE  Held(area') = Decode({data[h]})
  <2>1. whole /\ flushed = data[h]
    BY <1>1 DEF FlushInv, Progress
  <2>2. area' = [magic |-> TRUE, size |-> TRUE, body |-> "all", map |-> data[h]]
    BY <1>1, <2>1, OkLeavesFile DEF FlushInv, AreaHolds
  <2>3. QED BY <2>2 DEF Held
<1>2. FlushInv /\ [Next]_vars =>
        [\A h \in Apps : pc[h] = "sync" /\ pc'[h] = "idle" /\ reply' = "ok" =>
           Held(area') = Decode({data[h]})]_vars
  BY <1>1
<1>3. QED BY <1>2, FileHoldsFlushed, PTL DEF Spec, OkIsOnFile

-----------------------------------------------------------------------------
(* Programs and the file.                                                  *)

\* A program that has read or flushed, last of all, has the map last flushed.
Mapped == \A h \in Apps : mapped[h] /\ ~stale[h] /\ ~ahead[h] /\ whole =>
            Reread(data[h]) = Reread(flushed)

LEMMA InitMapped == Init => Mapped
BY DEF Init, Mapped

LEMMA NextMapped == FlushInv /\ Mapped /\ [Next]_vars => Mapped'
<1> SUFFICES ASSUME FlushInv, Mapped, [Next]_vars, NEW h \in Apps,
                    mapped'[h], ~stale'[h], ~ahead'[h], whole'
             PROVE  Reread(data'[h]) = Reread(flushed')
  BY DEF Mapped
<1>1. TypeOK
  BY DEF FlushInv
<1>2. ASSUME NEW g \in Apps, NEW m, Change(g, m) PROVE Reread(data'[h]) = Reread(flushed')
  BY <1>1, <1>2 DEF Change, TypeOK, Mapped
<1>3. ASSUME NEW g \in Apps, Clear(g) PROVE FALSE
  BY <1>3 DEF Clear
<1>4. ASSUME NEW g \in Apps, CopyRest(g) PROVE Reread(data'[h]) = Reread(flushed')
  <2>1. h = g
    BY <1>1, <1>4 DEF CopyRest, TypeOK
  <2>2. QED BY <1>4, <2>1 DEF CopyRest
<1>5. ASSUME NEW g \in Apps, Create(g) \/ Close(g) \/ OpenFails(g) \/ Exit(g)
      PROVE  Reread(data'[h]) = Reread(flushed')
  <2>1. h # g
    BY <1>1, <1>5 DEF Create, Close, OpenFails, Exit, Fresh, TypeOK
  <2>2. QED BY <1>1, <1>5, <2>1, ZenonT(30) DEF Create, Close, OpenFails, Exit, Fresh, TypeOK, Mapped
<1>6. ASSUME NEW g \in Apps, Open(g) PROVE Reread(data'[h]) = Reread(flushed')
  <2>1. whole /\ flushed' = flushed
    BY <1>6 DEF Open
  <2>2. CASE h = g
    <3>1. Held(area) # {}
      BY <1>1, <1>6, <2>2 DEF Open, TypeOK
    <3>2. data'[h] = Reread(flushed)
      BY <1>1, <1>6, <2>1, <2>2, <3>1, HeldFlushed DEF Open, TypeOK
    <3>3. flushed \in Maps
      BY <1>1 DEF TypeOK
    <3>4. QED BY <2>1, <3>2, <3>3, RereadTwice
  <2>3. CASE h # g
    BY <1>1, <1>6, <2>1, <2>3 DEF Open, TypeOK, Mapped
  <2>4. QED BY <2>2, <2>3
<1>7. ASSUME UNCHANGED <<mapped, data, flushed, whole, stale, ahead>>
      PROVE  Reread(data'[h]) = Reread(flushed')
  BY <1>7 DEF Mapped
<1>8. ASSUME NEW g \in Apps,
             \/ CopyMagic(g) \/ CopySize(g) \/ Copy(g) \/ Sync(g) \/ Dump(g) \/ DumpWritten(g)
      PROVE  Reread(data'[h]) = Reread(flushed')
  BY <1>7, <1>8 DEF CopyMagic, CopySize, Copy, Sync, Dump, DumpWritten, history
<1>9. CASE UNCHANGED vars
  BY <1>7, <1>9 DEF vars, db, history
<1>10. QED
  BY <1>2, <1>3, <1>4, <1>5, <1>6, <1>8, <1>9 DEF Next, Put, Erase, Load

\* A program whose last flush went through holds what is in the file, unless
\* another one has flushed since.
THEOREM MemMappedAgrees == Spec => []MappedAgrees
<1>1. FlushInv /\ Mapped => MappedAgrees
  BY DEF FlushInv, AreaHolds, Mapped, MappedAgrees
<1>2. QED BY <1>1, InitMapped, NextMapped, FileHoldsFlushed, PTL DEF Spec

-----------------------------------------------------------------------------
(* The dump.                                                               *)

LEMMA InitDumpInv == Init => DumpInv
BY InitTypeOK, InitFlushInv DEF FlushInv, DumpInv, Init

LEMMA NextDumpInv == FlushInv /\ DumpInv /\ [Next]_vars => DumpInv'
<1> SUFFICES ASSUME FlushInv, DumpInv, [Next]_vars PROVE DumpInv'
  OBVIOUS
<1>1. TypeOK /\ TypeOK' /\ Alone /\ Alone'
  BY NextFlushInv DEF FlushInv
<1>2. ASSUME UNCHANGED <<dump, dumped>>,
             \A g \in Apps : pc'[g] = "dump" => pc[g] = "dump" /\ data'[g] = data[g]
      PROVE  DumpInv'
  BY <1>1, <1>2 DEF DumpInv
<1>3. ASSUME NEW h \in Apps, NEW m, Change(h, m) PROVE DumpInv'
  BY <1>1, <1>2, <1>3 DEF Change, Idle, TypeOK
<1>4. ASSUME NEW h \in Apps,
             Clear(h) \/ CopyMagic(h) \/ CopySize(h) \/ Copy(h) \/ CopyRest(h) \/ Sync(h)
      PROVE  DumpInv'
  BY <1>1, <1>2, <1>4
  DEF Clear, CopyMagic, CopySize, Copy, CopyRest, Sync, Writes, Goes, history, TypeOK
<1>5. ASSUME NEW h \in Apps, Create(h) \/ Close(h) \/ OpenFails(h) \/ Open(h) PROVE DumpInv'
  BY <1>1, <1>2, <1>5 DEF Create, Close, OpenFails, Open, Fresh, TypeOK
<1>6. ASSUME NEW h \in Apps, Dump(h) PROVE DumpInv'
  BY <1>1, <1>6 DEF Dump, Truncated, TypeOK, DumpInv
<1>7. ASSUME NEW h \in Apps, pc[h] = "dump", pc'[h] # "dump",
             \A g \in Apps \ {h} : pc'[g] = pc[g],
             dumped' = dumped,
             dump' \subseteq {data[h]} \cup Parts(data[h])
      PROVE  DumpInv'
  <2>1. \A g \in Apps : pc'[g] # "dump"
    BY <1>1, <1>7 DEF Alone
  <2>2. dumped = data[h]
    BY <1>7 DEF DumpInv
  <2>3. QED BY <1>1, <1>7, <2>1, <2>2 DEF DumpInv
<1>8. ASSUME NEW h \in Apps, DumpWritten(h) PROVE DumpInv'
  BY <1>1, <1>7, <1>8 DEF DumpWritten, Goes, history, TypeOK
<1>9. ASSUME NEW h \in Apps, Exit(h) PROVE DumpInv'
  <2>1. CASE pc[h] = "dump"
    BY <1>1, <1>7, <1>9, <2>1 DEF Exit, Fresh, TypeOK
  <2>2. CASE pc[h] # "dump"
    BY <1>1, <1>2, <1>9, <2>2 DEF Exit, Fresh, TypeOK
  <2>3. QED BY <2>1, <2>2
<1>10. CASE UNCHANGED vars
  BY <1>2, <1>10 DEF vars, db, history
<1>11. QED
  BY <1>3, <1>4, <1>5, <1>6, <1>8, <1>9, <1>10 DEF Next, Put, Erase, Load

\* Mapped file and dump hold what MemInv says, between any two steps.
THEOREM FilesHold == Spec => []MemInv
<1>1. MemInv <=> FlushInv /\ DumpInv
  BY DEF MemInv
<1>2. QED BY <1>1, InitDumpInv, NextDumpInv, FileHoldsFlushed, PTL DEF Spec

\* load never brings in more than was dumped.
THEOREM MemLoadsWhatWasDumped == Spec => LoadsWhatWasDumped
<1>1. ASSUME DumpInv, NEW h \in Apps, Load(h)
      PROVE  data'[h] \in {Reread(m) : m \in {dumped} \cup Parts(dumped)}
  <2>1. PICK m \in Decode(dump) : data' = [data EXCEPT ![h] = m]
    BY <1>1 DEF Load, Change
  <2>2. data'[h] = m
    BY <1>1, <2>1 DEF DumpInv, TypeOK
  <2>3. QED BY <1>1, <2>1, <2>2 DEF DumpInv, Decode
<1>2. DumpInv /\ [Next]_vars =>
        [\A h \in Apps : Load(h) =>
           data'[h] \in {Reread(m) : m \in {dumped} \cup Parts(dumped)}]_vars
  BY <1>1
<1>3. MemInv => DumpInv
  BY DEF MemInv
<1>4. QED BY <1>2, <1>3, FilesHold, PTL DEF Spec, LoadsWhatWasDumped
=============================================================================
