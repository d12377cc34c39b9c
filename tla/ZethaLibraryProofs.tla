--------------------------- MODULE ZethaLibraryProofs ---------------------------
(***************************************************************************)
(* Theorems about the parts of the library that stand alone: each of them  *)
(* by itself, for any values of its constants.                             *)
(***************************************************************************)
EXTENDS ZethaCreate, ZethaPageCache, ZethaWindow, ZethaCrypt, Klyspec, Linenoise,
        FiniteSetTheorems, SequenceTheorems, Recursion

-----------------------------------------------------------------------------
(* Creating a database file.                                               *)

CreateSpec == CreateInit /\ [][CreateNext]_createVars

CreatedFiles == [regions : 0..Stub, blank : SUBSET {MagicRegion, SchemaRegion}, final : BOOLEAN,
                 spoilt : BOOLEAN, records : SUBSET StoredValues]

\* A create that has not failed has written the regions before step; the last
\* header stands only over all of them; and no acknowledged insert is missing
\* as long as none was written over the first header.
CreateInv ==
  /\ onDisk = {} \/ \E f \in CreatedFiles : onDisk = {f}
  /\ step \in 0..Rewrite /\ failed \in BOOLEAN /\ inserted \in SUBSET StoredValues
  /\ handle \in SUBSET [knows : BOOLEAN, mem : SUBSET StoredValues]
  /\ \A f \in onDisk :
       /\ step # 0 => ~f.final /\ (~failed => f.regions = step - 1)
       /\ f.final => f.regions = Stub
       /\ ~f.spoilt => f.records = inserted
       /\ \A h \in handle : h.knows => f.final /\ (~f.spoilt => h.mem = inserted)

\* What a process that opens f has.
LEMMA OpenedKnows ==
  ASSUME NEW f \in CreatedFiles, NEW h \in Opened(f)
  PROVE  /\ h \in [knows : BOOLEAN, mem : SUBSET StoredValues]
         /\ h.knows => f.final /\ h.mem = f.records
BY DEF Opened, LoadedRecords, CreatedFiles

LEMMA CreateStepInv == CreateInv /\ [CreateNext]_createVars => CreateInv'
<1> SUFFICES ASSUME CreateInv, [CreateNext]_createVars PROVE CreateInv'
  OBVIOUS
<1> USE DEF Stub, Rewrite
<1>1. CASE CreateStart
  <2>1. PICK blank \in SUBSET {MagicRegion, SchemaRegion} :
          /\ step' = 1 /\ failed' = FALSE /\ inserted' = {} /\ handle = {} /\ handle' = handle
          /\ onDisk' = {[regions |-> 0, blank |-> blank, final |-> FALSE, spoilt |-> FALSE, records |-> {}]}
    BY <1>1 DEF CreateStart
  <2>2. [regions |-> 0, blank |-> blank, final |-> FALSE, spoilt |-> FALSE, records |-> {}] \in CreatedFiles
    BY DEF CreatedFiles
  <2> DEFINE g == [regions |-> 0, blank |-> blank, final |-> FALSE, spoilt |-> FALSE, records |-> {}]
  <2>3. ~g.final /\ g.regions = 1 - 1 /\ g.records = {} /\ g \in CreatedFiles /\ onDisk' = {g}
    BY <2>1, <2>2
  <2>4. step' \in 0..Rewrite /\ step' = 1 /\ inserted' = {} /\ handle' = {}
    BY <2>1
  <2>5. failed' \in BOOLEAN
    BY <2>1, Zenon
  <2> HIDE DEF g
  <2>6. QED BY <2>3, <2>4, <2>5 DEF CreateInv
<1>2. CASE WriteRegion
  <2>1. PICK f \in onDisk, fails \in BOOLEAN :
          /\ step \in 1..Stub /\ failed' = (failed \/ fails)
          /\ onDisk' = {[f EXCEPT !.regions = IF failed' THEN @ ELSE step]}
          /\ step' = step + 1 /\ handle' = handle /\ inserted' = inserted
    BY <1>2 DEF WriteRegion
  <2> DEFINE g == [f EXCEPT !.regions = IF failed' THEN @ ELSE step]
  <2>2. f \in CreatedFiles /\ failed \in BOOLEAN /\ ~f.final
    BY <2>1 DEF CreateInv
  <2>3. failed' \in BOOLEAN /\ (~failed' => ~failed)
    BY <2>1, <2>2
  <2>4. g \in CreatedFiles /\ g.final = f.final /\ g.spoilt = f.spoilt /\ g.records = f.records
        /\ (~failed' => g.regions = step)
    BY <2>1, <2>2, <2>3 DEF CreatedFiles
  <2>5. step + 1 \in 0..Rewrite /\ step + 1 - 1 = step
    BY <2>1
  <2>6. onDisk' = {g}
    BY <2>1
  <2> HIDE DEF g
  <2>7. QED BY <2>1, <2>2, <2>3, <2>4, <2>5, <2>6 DEF CreateInv
<1>3. CASE CreateFinish
  <2>1. PICK f \in onDisk, fails \in BOOLEAN :
          /\ step = Rewrite /\ step' = 0
          /\ onDisk' = {[f EXCEPT !.final = ~(failed \/ fails)]}
          /\ handle' = IF handle = {} THEN Opened([f EXCEPT !.final = ~(failed \/ fails)]) ELSE handle
          /\ failed' = failed /\ inserted' = inserted
    BY <1>3 DEF CreateFinish
  <2> DEFINE g == [f EXCEPT !.final = ~(failed \/ fails)]
  <2>2. f \in CreatedFiles /\ failed \in BOOLEAN /\ ~f.final /\ (~failed => f.regions = Stub)
    BY <2>1 DEF CreateInv
  <2>3. g \in CreatedFiles /\ g.regions = f.regions /\ g.spoilt = f.spoilt /\ g.records = f.records
    BY <2>2 DEF CreatedFiles
  <2>4. g.final => ~failed
    BY <2>2 DEF CreatedFiles
  <2>5. onDisk' = {g} /\ handle' = IF handle = {} THEN Opened(g) ELSE handle
    BY <2>1
  <2> HIDE DEF g
  <2>6. \A h \in handle' : /\ h \in [knows : BOOLEAN, mem : SUBSET StoredValues]
                           /\ h.knows => g.final /\ (~g.spoilt => h.mem = inserted)
    <3>1. ~f.spoilt => f.records = inserted
      BY <2>1 DEF CreateInv
    <3>2. \A h \in handle : h \in [knows : BOOLEAN, mem : SUBSET StoredValues] /\ ~h.knows
      BY <2>1, <2>2 DEF CreateInv
    <3>3. CASE handle = {}
      BY <2>3, <2>5, <3>1, <3>3, OpenedKnows
    <3>4. CASE handle # {}
      BY <2>5, <3>2, <3>4
    <3>5. QED BY <3>3, <3>4
  <2>7. ~g.spoilt => g.records = inserted
    BY <2>1, <2>3 DEF CreateInv
  <2>8. step' = 0 /\ step' \in 0..Rewrite /\ failed' \in BOOLEAN /\ inserted' = inserted
    BY <2>1, <2>2
  <2>9. handle' \in SUBSET [knows : BOOLEAN, mem : SUBSET StoredValues]
    BY <2>6
  <2>10. g.final => g.regions = Stub
    BY <2>2, <2>3, <2>4
  <2>11. inserted \in SUBSET StoredValues
    BY DEF CreateInv
  <2>12. QED BY <2>3, <2>5, <2>6, <2>7, <2>8, <2>9, <2>10, <2>11 DEF CreateInv
<1>4. CASE OpenFile
  <2>1. PICK f \in onDisk : handle' = Opened(f) /\ onDisk' = onDisk /\ step' = step /\ failed' = failed /\ inserted' = inserted
    BY <1>4 DEF OpenFile
  <2>2. f \in CreatedFiles /\ onDisk = {f}
    BY <2>1 DEF CreateInv
  <2>3. QED BY <2>1, <2>2, OpenedKnows DEF CreateInv
<1>5. CASE InsertRecord
  <2>1. PICK f \in onDisk, h \in handle, r \in StoredValues :
          /\ onDisk' = {IF h.knows THEN [f EXCEPT !.records = @ \cup {r}] ELSE [f EXCEPT !.spoilt = TRUE]}
          /\ handle' = {[h EXCEPT !.mem = @ \cup {r}]}
          /\ inserted' = inserted \cup {r} /\ step' = step /\ failed' = failed
    BY <1>5 DEF InsertRecord
  <2> DEFINE g == IF h.knows THEN [f EXCEPT !.records = @ \cup {r}] ELSE [f EXCEPT !.spoilt = TRUE]
             i == [h EXCEPT !.mem = @ \cup {r}]
  <2>2. f \in CreatedFiles /\ h \in [knows : BOOLEAN, mem : SUBSET StoredValues]
    BY <2>1 DEF CreateInv
  <2>3. /\ g \in CreatedFiles /\ g.regions = f.regions /\ g.final = f.final
        /\ ~g.spoilt => h.knows /\ ~f.spoilt /\ g.records = f.records \cup {r}
    BY <2>2 DEF CreatedFiles
  <2>4. i \in [knows : BOOLEAN, mem : SUBSET StoredValues] /\ i.knows = h.knows /\ i.mem = h.mem \cup {r}
    BY <2>2
  <2>5. onDisk' = {g} /\ handle' = {i}
    BY <2>1
  <2> HIDE DEF g, i
  <2>6. QED BY <2>1, <2>2, <2>3, <2>4, <2>5 DEF CreateInv
<1>6. CASE CloseFile
  BY <1>6 DEF CloseFile, CreateInv
<1>7. CASE CreateDies
  BY <1>7 DEF CreateDies, CreateInv
<1>8. CASE UNCHANGED createVars
  BY <1>8 DEF createVars, CreateInv
<1>9. QED BY <1>1, <1>2, <1>3, <1>4, <1>5, <1>6, <1>7, <1>8 DEF CreateNext

\* However the writes of create fail, its process dies, and others open the file
\* meanwhile and insert: a database that is shown is complete, and one that is
\* not shows nothing.
THEOREM CreatedWhole == CreateSpec => []WholeOrNothing
<1>1. CreateInit => CreateInv
  <2>1. SUFFICES ASSUME CreateInit PROVE CreateInv
    OBVIOUS
  <2>2. onDisk = {} /\ step = 0 /\ handle = {} /\ inserted = {} /\ failed \in BOOLEAN
    BY <2>1 DEF CreateInit
  <2>3. QED BY <2>2 DEF CreateInv, Rewrite
<1>2. CreateInv => WholeOrNothing
  BY DEF CreateInv, WholeOrNothing, CreatedFiles, LoadedRecords, Opens, Stub, SchemaRegion
<1>3. QED BY <1>1, <1>2, CreateStepInv, PTL DEF CreateSpec

-----------------------------------------------------------------------------
(* The window of a mapped file.                                            *)

WindowSpec == WindowInit /\ [][WindowNext]_windowVars

Windows == [base : Addresses \cup {NullBase}, length : Lengths \cup {0},
            offset : Lengths \cup {0}, fd : Fds \cup {ClosedFd}]

\* What is mapped is not empty, so that munmap is always called for it.
WindowInv == /\ window \in Windows
             /\ window.base # NullBase => window.length # 0
             /\ WindowOwnsAll

LEMMA NothingLeft ==
  ASSUME WindowInv
  PROVE  FdsLeft = {} /\ MapsLeft = {}
BY DEF WindowInv, WindowOwnsAll, FdsLeft, MapsLeft

LEMMA WindowStepInv == WindowInv /\ [WindowNext]_windowVars => WindowInv'
<1> SUFFICES ASSUME WindowInv, [WindowNext]_windowVars PROVE WindowInv'
  OBVIOUS
<1> USE WindowAssumption DEF Windows
<1>1. window \in Windows /\ FdsLeft = {} /\ MapsLeft = {}
  BY NothingLeft DEF WindowInv
<1>2. CASE UnmapWindow
  BY <1>1, <1>2 DEF UnmapWindow, UnmappedWindow, WindowInv, WindowOwnsAll
<1>3. ASSUME NEW offset \in Lengths, NEW length \in Lengths, MapFails(offset, length) PROVE WindowInv'
  BY <1>1, <1>3 DEF MapFails, UnmappedWindow, WindowInv, WindowOwnsAll
<1>4. ASSUME NEW offset \in Lengths, NEW length \in Lengths, MapSucceeds(offset, length) PROVE WindowInv'
  BY <1>1, <1>4 DEF MapSucceeds, WindowInv, WindowOwnsAll
<1>5. CASE UNCHANGED windowVars
  BY <1>5 DEF windowVars, WindowInv, WindowOwnsAll
<1>6. QED BY <1>2, <1>3, <1>4, <1>5 DEF WindowNext, MapReadWrite, OpenFails

\* Whatever is mapped, refused and unmapped, the window never leaks a
\* descriptor or a mapping, and never unmaps what it does not have.
THEOREM WindowOwns == WindowSpec => []WindowOwnsAll
<1>1. WindowInit => WindowInv
  BY WindowAssumption DEF WindowInit, WindowInv, WindowOwnsAll, Windows
<1>2. WindowInv => WindowOwnsAll
  BY DEF WindowInv
<1>3. QED BY <1>1, <1>2, WindowStepInv, PTL DEF WindowSpec

-----------------------------------------------------------------------------
(* The cache of pages.                                                     *)

\* Every page can be evicted, and there are not too many.
CacheInv == /\ max_pages \in Limits
            /\ lru \in SUBSET Ids /\ IsFiniteSet(lru)
            /\ pages \in [lru -> Buffers]
            /\ Cardinality(lru) <= Max({1, max_pages})

LEMMA MinIsIn ==
  ASSUME NEW S \in SUBSET Nat, S # {}
  PROVE  Min(S) \in S
BY LeastOf DEF Min

LEMMA MaxOfTwo ==
  ASSUME NEW n \in Nat
  PROVE  Max({1, n}) \in Nat /\ 1 <= Max({1, n}) /\ n <= Max({1, n})
<1>1. \E x \in {1, n} : \A y \in {1, n} : x >= y
  <2>1. CASE n <= 1
    BY <2>1
  <2>2. CASE 1 <= n
    BY <2>2
  <2>3. QED BY <2>1, <2>2
<1>2. Max({1, n}) \in {1, n} /\ \A y \in {1, n} : Max({1, n}) >= y
  BY <1>1 DEF Max
<1> DEFINE m == Max({1, n})
<1>3. m \in Nat /\ m >= 1 /\ m >= n
  BY <1>2
<1> HIDE DEF m
<1>4. m \in Nat /\ 1 <= m /\ n <= m
  BY <1>3
<1>5. QED BY <1>4 DEF m

\* What a put makes of the cache.
LEMMA PutStep ==
  ASSUME CacheInv, NEW id \in Ids, NEW buf \in Buffers, PutPage(id, buf)
  PROVE  /\ CacheInv'
         /\ LostDirty # {} => Cardinality(DOMAIN pages) >= max_pages /\ \A i, j \in LostDirty : i = j
<1> USE CacheAssumption
<1> DEFINE kept == lru \ Victims
           big  == Max({1, max_pages})
<1>1. /\ max_pages \in Nat /\ lru \in SUBSET Nat /\ IsFiniteSet(lru) /\ pages \in [lru -> Buffers]
      /\ Cardinality(lru) \in Nat /\ Cardinality(lru) <= big /\ DOMAIN pages = lru
  BY FS_CardinalityType DEF CacheInv
<1>2. big \in Nat /\ 1 <= big /\ max_pages <= big
  BY <1>1, MaxOfTwo
<1> HIDE DEF big
<1>3. /\ pages' = Emplaced(Restrict(pages, kept), id, buf)
      /\ lru' = Touched(kept, id) /\ max_pages' = max_pages
  BY <1>1 DEF PutPage
<1>4. lru' = kept \cup {id} /\ kept \in SUBSET lru
  BY <1>3 DEF Touched
<1>5. DOMAIN pages' = lru' /\ pages' \in [lru' -> Buffers] /\ \A i \in kept : pages'[i] = pages[i]
  BY <1>1, <1>3, <1>4 DEF Emplaced, Restrict
<1>6. IsFiniteSet(kept) /\ Cardinality(kept) \in Nat /\ IsFiniteSet(lru')
      /\ Cardinality(lru') \in Nat /\ Cardinality(lru') <= Cardinality(kept) + 1
      /\ Cardinality(kept) <= Cardinality(lru)
  <2>1. IsFiniteSet(kept) /\ Cardinality(kept) <= Cardinality(lru)
    BY <1>1, <1>4, FS_Subset
  <2>2. Cardinality(kept) \in Nat
    BY <2>1, FS_CardinalityType
  <2> HIDE DEF kept
  <2>3. IsFiniteSet(lru') /\ Cardinality(lru') <= Cardinality(kept) + 1
    <3>1. IsFiniteSet(kept \cup {id})
          /\ Cardinality(kept \cup {id}) = IF id \in kept THEN Cardinality(kept) ELSE Cardinality(kept) + 1
      BY <2>1, FS_AddElement
    <3>2. QED BY <1>4, <2>2, <3>1
  <2>4. QED BY <2>1, <2>2, <2>3, FS_CardinalityType
<1>7. Cardinality(lru') <= big
  <2>1. CASE Cardinality(lru) < max_pages
    BY <1>1, <1>2, <1>6, <2>1
  <2>2. CASE lru = {}
    <3>1. Cardinality(kept) = 0
      BY <1>4, <2>2, FS_EmptySet
    <3>2. QED BY <1>2, <1>6, <3>1
  <2>3. CASE ~ Cardinality(lru) < max_pages /\ lru # {}
    <3>1. Victims = {Min(lru)} /\ Min(lru) \in lru
      BY <1>1, <2>3, MinIsIn DEF Victims
    <3>2. kept = lru \ {Min(lru)}
      BY <3>1
    <3>3. Cardinality(kept) = Cardinality(lru) - 1
      BY <1>1, <3>1, <3>2, FS_RemoveElement
    <3> HIDE DEF kept
    <3>4. QED BY <1>1, <1>2, <1>6, <3>3
  <2>4. QED BY <2>1, <2>2, <2>3
<1>8. CacheInv'
  <2>1. lru' \in SUBSET Ids
    BY <1>4 DEF CacheInv
  <2>2. QED BY <1>3, <1>5, <1>6, <1>7, <2>1 DEF CacheInv, big
<1>9. ASSUME NEW i \in DirtyPages
      PROVE  \/ i \in DOMAIN pages' /\ pages'[i] = pages[i]
             \/ Cardinality(DOMAIN pages) >= max_pages /\ i = Min(lru)
  <2>1. i \in lru
    BY <1>1 DEF DirtyPages
  <2>2. CASE i \in kept
    BY <1>4, <1>5, <2>2
  <2>3. CASE i \in Victims
    <3>1. Victims # {} /\ i \in {Min(lru)} /\ ~ Cardinality(lru) < max_pages
      BY <1>1, <2>3 DEF Victims
    <3>2. QED BY <1>1, <3>1
  <2>4. QED BY <2>1, <2>2, <2>3
<1>10. \A i \in LostDirty : Cardinality(DOMAIN pages) >= max_pages /\ i = Min(lru)
  BY <1>9 DEF LostDirty
<1>11. LostDirty # {} => Cardinality(DOMAIN pages) >= max_pages /\ \A i, j \in LostDirty : i = j
  BY <1>10
<1>12. QED BY <1>8, <1>11

LEMMA OtherSteps ==
  ASSUME CacheInv, NEW id \in Ids, GetPage(id) \/ MarkDirty(id)
  PROVE  CacheInv' /\ \A i \in DirtyPages : i \in DOMAIN pages' /\ pages'[i] = pages[i]
<1>1. DOMAIN pages = lru /\ id \in lru
  BY DEF CacheInv, GetPage, MarkDirty
<1>2. lru' = lru /\ max_pages' = max_pages
  BY <1>1 DEF GetPage, MarkDirty, Touched
<1>3. CASE GetPage(id)
  BY <1>2, <1>3 DEF GetPage, CacheInv, DirtyPages
<1>4. CASE MarkDirty(id)
  <2>1. pages' = [pages EXCEPT ![id].dirty = TRUE] /\ pages \in [lru -> Buffers]
    BY <1>4 DEF MarkDirty, CacheInv
  <2>2. pages' \in [lru -> Buffers]
    BY <2>1 DEF Buffers
  <2>3. ASSUME NEW i \in DirtyPages PROVE i \in DOMAIN pages' /\ pages'[i] = pages[i]
    <3>1. i \in lru /\ pages[i] \in Buffers /\ pages[i].dirty
      BY <1>1, <2>1 DEF DirtyPages
    <3>2. [pages[i] EXCEPT !.dirty = TRUE] = pages[i]
      BY <3>1 DEF Buffers
    <3>3. QED BY <2>1, <3>1, <3>2
  <2>4. QED BY <1>2, <2>2, <2>3 DEF CacheInv
<1>5. QED BY <1>3, <1>4

\* A page that was changed leaves the cache, or is replaced, only when a put finds
\* it full, one page at most at a time; and the cache keeps to its limit.
THEOREM DirtyStays == CacheSpec => DirtyUntilEvicted
<1> DEFINE A == /\ LostDirty # {} => Cardinality(DOMAIN pages) >= max_pages /\ \A i, j \in LostDirty : i = j
                /\ pages' \in [lru' -> Buffers]
                /\ Cardinality(lru') <= Max({1, max_pages})
<1>1. CacheInit => CacheInv
  <2>1. SUFFICES ASSUME CacheInit PROVE CacheInv
    OBVIOUS
  <2>2. max_pages \in Nat /\ max_pages \in Limits /\ lru = {} /\ pages = <<>>
    BY <2>1, CacheAssumption DEF CacheInit
  <2>3. IsFiniteSet({}) /\ Cardinality({}) = 0
    BY FS_EmptySet
  <2>4. 0 <= Max({1, max_pages})
    <3> DEFINE m == Max({1, max_pages})
    <3>1. m \in Nat
      BY <2>2, MaxOfTwo
    <3> HIDE DEF m
    <3>2. 0 <= m
      BY <3>1
    <3>3. QED BY <3>2 DEF m
  <2>5. QED BY <2>2, <2>3, <2>4 DEF CacheInv
<1>2. CacheInv /\ [CacheNext]_cacheVars => CacheInv' /\ [A]_cacheVars
  <2>1. SUFFICES ASSUME CacheInv, [CacheNext]_cacheVars PROVE CacheInv' /\ [A]_cacheVars
    OBVIOUS
  <2>2. CASE UNCHANGED cacheVars
    <3> HIDE DEF A
    <3>1. CacheInv'
      BY <2>1, <2>2 DEF cacheVars, CacheInv
    <3>2. QED BY <2>2, <3>1
  <2>3. ASSUME NEW id \in Ids, \/ GetPage(id) \/ MarkDirty(id)
                               \/ \E buf \in Buffers : PutPage(id, buf)
        PROVE  CacheInv' /\ A
    <3>1. CASE GetPage(id) \/ MarkDirty(id)
      <4>1. CacheInv' /\ \A i \in DirtyPages : i \in DOMAIN pages' /\ pages'[i] = pages[i]
        BY <2>1, <3>1, OtherSteps
      <4>2. max_pages' = max_pages
        BY <3>1 DEF GetPage, MarkDirty
      <4>3. pages' \in [lru' -> Buffers] /\ Cardinality(lru') <= Max({1, max_pages})
        BY <4>1, <4>2 DEF CacheInv
      <4>4. LostDirty = {}
        BY <4>1 DEF LostDirty
      <4>5. QED BY <4>1, <4>3, <4>4
    <3>2. ASSUME NEW buf \in Buffers, PutPage(id, buf) PROVE CacheInv' /\ A
      <4>1. /\ CacheInv'
            /\ LostDirty # {} => Cardinality(DOMAIN pages) >= max_pages /\ \A i, j \in LostDirty : i = j
        BY <2>1, <3>2, PutStep
      <4>2. max_pages' = max_pages
        BY <3>2 DEF PutPage
      <4>3. pages' \in [lru' -> Buffers] /\ Cardinality(lru') <= Max({1, max_pages})
        BY <4>1, <4>2 DEF CacheInv
      <4>4. QED BY <4>1, <4>3
    <3>3. QED BY <2>3, <3>1, <3>2
  <2> HIDE DEF A
  <2>4. QED BY <2>1, <2>2, <2>3 DEF CacheNext
<1>3. QED BY <1>1, <1>2, PTL DEF CacheSpec, DirtyUntilEvicted

-----------------------------------------------------------------------------
(* The registry of commands.                                               *)

RegistrySpec == RegistryInit /\ [][RegistryNext]_registryVars

\* args are those that a specification came with and those registered since.
SetApart(spec, args) ==
  /\ IsPrefix(spec, args)
  /\ \A j \in (Len(spec) + 1)..Len(args) :
       /\ args[j].id # NoWord
       /\ \A i \in 1..(j - 1) : args[i].id # args[j].id /\ args[i].names \cap args[j].names = {}
Registered(args) == \E spec \in CommandSpecs : SetApart(spec, args)

RegistryInv ==
  /\ commands = [name \in DOMAIN commands |-> commands[name]]
  /\ \A name \in DOMAIN commands : commands[name] \in Seq(Arguments) /\ Registered(commands[name])
  /\ \A a \in DOMAIN aliases : aliases[a] \in DOMAIN commands
  /\ \A name \in DOMAIN commands : name \in DOMAIN aliases /\ aliases[name] = name

LEMMA AppendedSpec ==
  ASSUME NEW args \in Seq(Arguments), NEW spec \in Arguments
  PROVE  /\ Append(args, spec) \in Seq(Arguments)
         /\ DOMAIN Append(args, spec) = DOMAIN args \cup {Len(args) + 1}
         /\ \A i \in DOMAIN args : Append(args, spec)[i] = args[i]
         /\ Append(args, spec)[Len(args) + 1] = spec
         /\ IsPrefix(args, Append(args, spec)) /\ IsPrefix(args, args)
<1> DEFINE new == Append(args, spec)
           S == Arguments
<1> HIDE DEF S
<1>1. /\ new \in Seq(S) /\ Len(new) = Len(args) + 1 /\ Len(args) \in Nat
      /\ \A i \in 1 .. Len(args) : new[i] = args[i]
      /\ new[Len(args) + 1] = spec
      /\ DOMAIN args = 1 .. Len(args) /\ DOMAIN new = 1 .. Len(new)
  BY DEF S
<1> HIDE DEF new
<1>2. DOMAIN new = DOMAIN args \cup {Len(args) + 1}
  BY <1>1
<1>3. IsPrefix(args, args)
  BY DEF IsPrefix
<1>4. IsPrefix(args, new)
  BY <1>1 DEF IsPrefix
<1>5. QED BY <1>1, <1>2, <1>3, <1>4 DEF new, S

LEMMA SpecRegistered ==
  ASSUME NEW spec \in CommandSpecs
  PROVE  spec \in Seq(Arguments) /\ Registered(spec)
<1>1. spec \in Seq(Arguments)
  BY KlyspecAssumption
<1>2. IsPrefix(spec, spec) /\ (Len(spec) + 1)..Len(spec) = {}
  BY <1>1 DEF IsPrefix
<1>3. QED BY <1>1, <1>2 DEF Registered, SetApart

LEMMA OneMoreRegistered ==
  ASSUME NEW args \in Seq(Arguments), Registered(args), NEW arg \in Arguments, arg.id # NoWord,
         \A a \in Range(args) : a.id # arg.id /\ a.names \cap arg.names = {}
  PROVE  Registered(Append(args, arg))
<1> DEFINE new == Append(args, arg)
           N == Len(args)
<1>1. PICK spec \in CommandSpecs : SetApart(spec, args)
  BY DEF Registered
<1>2. /\ N \in Nat /\ Len(new) = N + 1 /\ new[N + 1] = arg /\ IsPrefix(args, new)
      /\ \A i \in 1..N : new[i] = args[i] /\ args[i] \in Range(args)
  BY AppendedSpec DEF Range
<1>3. spec \in Seq(Arguments) /\ Len(spec) \in Nat
  BY KlyspecAssumption
<1> HIDE DEF new
<1>4. IsPrefix(spec, new)
  BY <1>1, <1>2, <1>3 DEF SetApart, IsPrefix
<1> HIDE DEF N
<1>5. ASSUME NEW j \in (Len(spec) + 1)..Len(new)
      PROVE  /\ new[j].id # NoWord
             /\ \A i \in 1..(j - 1) : new[i].id # new[j].id /\ new[i].names \cap new[j].names = {}
  <2>1. CASE j = N + 1
    <3>1. \A i \in 1..(j - 1) : new[i] \in Range(args)
      BY <1>2, <2>1
    <3>2. QED BY <1>2, <2>1, <3>1
  <2>2. CASE j # N + 1
    <3>1. j \in (Len(spec) + 1)..N /\ j \in 1..N
      BY <1>2, <1>3, <2>2
    <3>2. new[j] = args[j] /\ \A i \in 1..(j - 1) : new[i] = args[i]
      BY <1>2, <3>1
    <3>3. QED BY <1>1, <3>1, <3>2 DEF SetApart, N
  <2>3. QED BY <2>1, <2>2
<1>6. SetApart(spec, new)
  BY <1>4, <1>5 DEF SetApart
<1>7. QED BY <1>6 DEF Registered, new

LEMMA RegistryStep ==
  ASSUME RegistryInv, [RegistryNext]_registryVars
  PROVE  /\ RegistryInv'
         /\ \A a \in DOMAIN aliases :
              a \in DOMAIN aliases' /\ aliases'[a] \in {aliases[a]} \cup ({a} \ DOMAIN commands)
         /\ \A name \in DOMAIN commands : IsPrefix(commands[name], commands'[name])
<1> DEFINE Kept == /\ \A a \in DOMAIN aliases :
                        a \in DOMAIN aliases' /\ aliases'[a] \in {aliases[a]} \cup ({a} \ DOMAIN commands)
                   /\ \A name \in DOMAIN commands : IsPrefix(commands[name], commands'[name])
<1>1. \A name \in DOMAIN commands : commands[name] \in Seq(Arguments) /\ IsPrefix(commands[name], commands[name])
  BY DEF RegistryInv, IsPrefix
<1>2. CASE UNCHANGED registryVars
  BY <1>1, <1>2 DEF registryVars, RegistryInv
<1>3. ASSUME NEW name \in CommandWords, NEW arguments \in CommandSpecs, RegisterCommand(name, arguments)
      PROVE  RegistryInv' /\ Kept
  <2>1. /\ name \notin DOMAIN commands
        /\ DOMAIN commands' = DOMAIN commands \cup {name} /\ DOMAIN aliases' = DOMAIN aliases \cup {name}
        /\ \A n \in DOMAIN commands' : commands'[n] = IF n = name THEN arguments ELSE commands[n]
        /\ \A a \in DOMAIN aliases' : aliases'[a] = IF a = name THEN name ELSE aliases[a]
        /\ commands' = [n \in DOMAIN commands' |-> commands'[n]]
    BY <1>3 DEF RegisterCommand, Extended
  <2>2. arguments \in Seq(Arguments) /\ Registered(arguments)
    BY SpecRegistered
  <2>3. Kept
    BY <1>1, <2>1
  <2>4. \A n \in DOMAIN commands' : Registered(commands'[n])
    BY <2>1, <2>2 DEF RegistryInv
  <2>5. QED BY <1>1, <2>1, <2>2, <2>3, <2>4 DEF RegistryInv
<1>4. ASSUME NEW name \in CommandWords, NEW alias \in CommandWords, RegisterAlias(name, alias)
      PROVE  RegistryInv' /\ Kept
  <2>1. /\ name \in DOMAIN commands /\ alias \notin DOMAIN aliases /\ commands' = commands
        /\ DOMAIN aliases' = DOMAIN aliases \cup {alias}
        /\ \A a \in DOMAIN aliases' : aliases'[a] = IF a = alias THEN name ELSE aliases[a]
    BY <1>4 DEF RegisterAlias, Extended
  <2>2. Kept
    BY <1>1, <2>1
  <2>3. QED BY <2>1, <2>2 DEF RegistryInv
<1>5. ASSUME NEW name \in CommandWords, NEW spec \in Arguments, RegisterArgument(name, spec)
      PROVE  RegistryInv' /\ Kept
  <2> DEFINE c == aliases[name]
             args == commands[c]
             new == Append(args, spec)
  <2>1. /\ name \in DOMAIN aliases /\ aliases' = aliases
        /\ \A arg \in Range(args) : ~Clashes(arg, spec)
        /\ commands' = [commands EXCEPT ![c] = new]
    BY <1>5 DEF RegisterArgument
  <2>2. c \in DOMAIN commands /\ args \in Seq(Arguments)
    BY <1>1, <2>1 DEF RegistryInv
  <2>3. new \in Seq(Arguments) /\ IsPrefix(args, new)
    BY <2>2, AppendedSpec
  <2>4. Registered(args)
    BY <2>2 DEF RegistryInv
  <2>5. \A arg \in Range(args) : arg.id # spec.id /\ arg.names \cap spec.names = {}
    BY <2>1 DEF Clashes
  <2>6. Registered(new)
    BY <1>5, <2>2, <2>4, <2>5, OneMoreRegistered DEF RegisterArgument
  <2> HIDE DEF new, args
  <2>7. /\ DOMAIN commands' = DOMAIN commands /\ commands' = [n \in DOMAIN commands' |-> commands'[n]]
        /\ \A n \in DOMAIN commands : commands'[n] = IF n = c THEN new ELSE commands[n]
    BY <2>1 DEF RegistryInv
  <2> HIDE DEF c
  <2>8. Kept
    BY <1>1, <2>1, <2>3, <2>7 DEF args
  <2>9. \A n \in DOMAIN commands' : Registered(commands'[n])
    BY <2>6, <2>7 DEF RegistryInv
  <2>10. QED BY <1>1, <2>1, <2>3, <2>7, <2>8, <2>9 DEF RegistryInv
<1> HIDE DEF Kept
<1>6. RegistryInv' /\ Kept
  BY <1>2, <1>3, <1>4, <1>5 DEF RegistryNext, Kept
<1>7. QED BY <1>6 DEF Kept

LEMMA RegistryInvariance == RegistrySpec => []RegistryInv
<1>1. RegistryInit => RegistryInv
  BY DEF RegistryInit, RegistryInv
<1>2. RegistryInv /\ [RegistryNext]_registryVars => RegistryInv'
  BY RegistryStep
<1>3. QED BY <1>1, <1>2, PTL DEF RegistrySpec

\* Whatever is registered in whatever order, each name leads to a command, and of
\* what register_argument adds to one nothing has the id or a name of another.
THEOREM NamesAlwaysResolve == RegistrySpec => []NamesResolve
<1>1. RegistryInv => NamesResolve
  BY DEF RegistryInv, NamesResolve, Registered, SetApart
<1>2. QED BY <1>1, RegistryInvariance, PTL

\* A word keeps what it leads to, unless a command of that name takes it over.
THEOREM WordsAreTakenByCommands == RegistrySpec => OnlyCommandsTakeOver
<1> DEFINE A == /\ \A a \in DOMAIN aliases :
                     a \in DOMAIN aliases' /\ aliases'[a] \in {aliases[a]} \cup ({a} \ DOMAIN commands)
                /\ \A name \in DOMAIN commands : IsPrefix(commands[name], commands'[name])
<1>1. RegistryInv /\ [RegistryNext]_registryVars => [A]_registryVars
  BY RegistryStep
<1>2. QED BY <1>1, RegistryInvariance, PTL DEF RegistrySpec, OnlyCommandsTakeOver

-----------------------------------------------------------------------------
(* Command lines.                                                          *)

\* What parse has read so far.
ArgIds        == {a.id : a \in Arguments}
RestText(t, n) == [kind |-> "rest", names |-> SubSeq(t.names, n, Len(t.names))]
RestTexts  == UNION {{RestText(t, n) : n \in Nat} : t \in ArgvTokens}
Texts      == ArgvTokens \cup {TrueText} \cup RestTexts
ValueMaps  == UNION {[S -> Seq(Texts)] : S \in SUBSET ArgIds}
ReadStates == [values : ValueMaps, positionals : Seq(ArgvTokens), ok : BOOLEAN, ended : BOOLEAN, wants : SUBSET ArgIds]

LEMMA ValueMapsAre ==
  /\ \A f \in ValueMaps : /\ DOMAIN f \subseteq ArgIds /\ \A id \in DOMAIN f : f[id] \in Seq(Texts)
  /\ \A S \in SUBSET ArgIds : [S -> Seq(Texts)] \subseteq ValueMaps
<1>1. \A S \in SUBSET ArgIds : [S -> Seq(Texts)] \subseteq ValueMaps
  BY Zenon DEF ValueMaps
<1>2. ASSUME NEW f \in ValueMaps
      PROVE  DOMAIN f \subseteq ArgIds /\ \A id \in DOMAIN f : f[id] \in Seq(Texts)
  <2>1. PICK S \in SUBSET ArgIds : f \in [S -> Seq(Texts)]
    BY <1>2, Zenon DEF ValueMaps
  <2>2. QED BY <2>1, Zenon
<1>3. QED BY <1>1, <1>2, Zenon

\* From r to s, id got one value more, v, at a place of its own.
OneMore(r, s, id, v) ==
  /\ s \in ReadStates /\ s.positionals = r.positionals /\ s.ok = r.ok /\ s.wants = r.wants
  /\ DOMAIN s.values = DOMAIN r.values \cup {id}
  /\ \A token : \E p : /\ p \notin ValuePlaces(r.values, token)
                       /\ ValuePlaces(s.values, token) =
                            ValuePlaces(r.values, token) \cup (IF v = token THEN {p} ELSE {})

LEMMA GivenPlaces ==
  ASSUME NEW r \in ReadStates, NEW id \in ArgIds, NEW v \in Texts
  PROVE  OneMore(r, Given(r, id, v), id, v)
<1> DEFINE s == Given(r, id, v)
           f == r.values
           S == DOMAIN f
           T == Seq(Texts)
           old == IF id \in S THEN f[id] ELSE <<>>
           new == old \o <<v>>
           g == [z \in S \cup {id} |-> IF z = id THEN new ELSE f[z]]
<1>1. f \in ValueMaps /\ r.positionals \in Seq(ArgvTokens) /\ r.ok \in BOOLEAN /\ r.ended \in BOOLEAN /\ r.wants \in SUBSET ArgIds
  BY DEF ReadStates
<1>2. s = [r EXCEPT !.values = g]
  BY Zenon DEF Given, Extended
<1>3. S \subseteq ArgIds /\ \A z \in S : f[z] \in T
  BY <1>1, ValueMapsAre, Zenon
<1>4. old \in T
  <2>1. <<>> \in T
    OBVIOUS
  <2>2. QED BY <1>3, <2>1, Zenon
<1> HIDE DEF old
<1>5. new \in T /\ Len(old) \in Nat /\ DOMAIN old = 1 .. Len(old) /\ DOMAIN new = 1 .. Len(old) + 1
      /\ new[Len(old) + 1] = v /\ \A i \in DOMAIN old : new[i] = old[i]
  BY <1>4
<1> HIDE DEF new
<1>6. g \in [S \cup {id} -> T]
  BY <1>3, <1>5 DEF T
<1>7. g \in ValueMaps
  <2>1. S \cup {id} \in SUBSET ArgIds
    BY <1>3
  <2> HIDE DEF S, T, g
  <2>2. QED BY <1>6, <2>1, ValueMapsAre, Zenon DEF T
<1>8. DOMAIN g = S \cup {id} /\ g[id] = new /\ \A z \in S : z # id => g[z] = f[z]
  OBVIOUS
<1> HIDE DEF g, T
<1>9. /\ s \in ReadStates /\ s.values = g /\ s.positionals = r.positionals /\ s.ended = r.ended
      /\ s.ok = r.ok /\ s.wants = r.wants
  <2> HIDE DEF s, f
  <2>1. QED BY <1>2, <1>7 DEF ReadStates
<1> HIDE DEF s, f
<1>10. ASSUME NEW token
       PROVE  \E p : /\ p \notin ValuePlaces(f, token)
                     /\ ValuePlaces(g, token) = ValuePlaces(f, token) \cup (IF v = token THEN {p} ELSE {})
  <2> DEFINE p == <<id, Len(old) + 1>>
             F == ValuePlaces(f, token)
             G == ValuePlaces(g, token)
  <2>1. \A q : q \in F <=> \E z \in S : \E i \in DOMAIN f[z] : q = <<z, i>> /\ f[z][i] = token
    BY DEF ValuePlaces, Occurrences
  <2>2. \A q : q \in G <=> \E z \in S \cup {id} : \E i \in DOMAIN g[z] : q = <<z, i>> /\ g[z][i] = token
    BY <1>8 DEF ValuePlaces, Occurrences
  <2> HIDE DEF S, F, G
  <2>3. id \in S => old = f[id]
    BY Zenon DEF old
  <2>3a. id \notin S => DOMAIN old = {}
    BY DEF old
  <2>3b. DOMAIN new = DOMAIN old \cup {Len(old) + 1} /\ Len(old) + 1 \notin DOMAIN old
    BY <1>5
  <2>4. p \notin F
    <3>1. SUFFICES ASSUME NEW z \in S, NEW i \in DOMAIN f[z], p = <<z, i>> PROVE FALSE
      BY <2>1
    <3>2. z = id /\ i = Len(old) + 1
      BY <3>1
    <3>3. QED BY <2>3, <2>3b, <3>2
  <2>5. F \subseteq G
    <3>1. SUFFICES ASSUME NEW z \in S, NEW i \in DOMAIN f[z], f[z][i] = token PROVE <<z, i>> \in G
      BY <2>1
    <3>2. CASE z = id
      BY <1>5, <1>8, <2>2, <2>3, <2>3b, <3>1, <3>2
    <3>3. CASE z # id
      BY <1>8, <2>2, <3>1, <3>3
    <3>4. QED BY <3>2, <3>3
  <2>6. v = token => p \in G
    BY <1>5, <1>8, <2>2, <2>3b
  <2>7. ASSUME NEW q \in G, q \notin F PROVE v = token /\ q = p
    <3>0. PICK z \in S \cup {id} : \E i \in DOMAIN g[z] : q = <<z, i>> /\ g[z][i] = token
      BY <2>2, <2>7
    <3>1. PICK i \in DOMAIN g[z] : q = <<z, i>> /\ g[z][i] = token
      BY <3>0
    <3>2. z = id
      <4>1. SUFFICES ASSUME z # id PROVE FALSE
        OBVIOUS
      <4>2. z \in S /\ g[z] = f[z]
        BY <1>8, <4>1
      <4>3. QED BY <2>1, <2>7, <3>1, <4>2
    <3>3. i = Len(old) + 1
      <4>1. SUFFICES ASSUME i # Len(old) + 1 PROVE FALSE
        OBVIOUS
      <4>2. i \in DOMAIN old
        BY <1>8, <2>3b, <3>1, <3>2, <4>1
      <4>3. id \in S /\ f[id][i] = token /\ i \in DOMAIN f[id]
        BY <1>5, <1>8, <2>3, <2>3a, <3>1, <3>2, <4>2
      <4>4. QED BY <2>1, <2>7, <3>1, <3>2, <4>3
    <3>4. QED BY <1>5, <1>8, <3>1, <3>2, <3>3
  <2>8. G = F \cup (IF v = token THEN {p} ELSE {})
    <3> HIDE DEF p
    <3>1. QED BY <2>5, <2>6, <2>7
  <2>9. QED BY <2>4, <2>8 DEF F, G
<1>11. QED BY <1>8, <1>9, <1>10 DEF s, f, S, OneMore

\* What is found is an argument of that name.
LEMMA FoundByName ==
  ASSUME NEW args \in Seq(Arguments), NEW name, LookedUp(args, name) # 0
  PROVE  LET a == args[LookedUp(args, name)]
         IN  a \in Range(args) /\ a \in Arguments /\ a.id \in ArgIds /\ name \in Called(a)
<1> DEFINE I == {i \in 1 .. Len(args) : name \in Called(args[i])}
           k == LookedUp(args, name)
           A == Arguments
<1>1. k = IF I # {} THEN Min(I) ELSE 0
  BY DEF LookedUp, SelectInSeq
<1>2. I \in SUBSET Nat
  OBVIOUS
<1> HIDE DEF k
<1>3. I # {}
  BY <1>1 DEF k
<1>4. k \in I
  <2> HIDE DEF I
  <2>1. QED BY <1>1, <1>2, <1>3, MinIsIn
<1> HIDE DEF A
<1>5. args \in Seq(A) /\ k \in 1 .. Len(args)
  BY <1>4 DEF A
<1>6. args[k] \in A /\ k \in DOMAIN args
  BY <1>5
<1>7. args[k] \in Range(args)
  BY <1>6 DEF Range
<1>8. args[k].id \in ArgIds
  BY <1>6 DEF A, ArgIds
<1>9. QED BY <1>4, <1>6, <1>7, <1>8 DEF k, A

\* An option of args among names stands for id.
NamedOption(args, id, names) == \E a \in Range(args) : a.id = id /\ names \cap Called(a) # {}

\* From r to s only the options called names were read, and no value after them.
OptionsRead(args, r, s, names) ==
  /\ s \in ReadStates /\ s.positionals = r.positionals
  /\ \A token \in ArgvTokens : token.kind = "text" /\ token # TrueText =>
       ValuePlaces(s.values, token) = ValuePlaces(r.values, token)
  /\ \A id \in DOMAIN s.values \cup s.wants : id \in DOMAIN r.values \cup r.wants \/ NamedOption(args, id, names)

\* A value that no word is goes to no word's places.
LEMMA OptionGiven ==
  ASSUME NEW args \in Seq(Arguments), NEW r \in ReadStates, NEW name, LookedUp(args, name) # 0,
         NEW v \in Texts, \A token \in ArgvTokens : token.kind = "text" /\ token # TrueText => v # token
  PROVE  OptionsRead(args, r, Given(r, args[LookedUp(args, name)].id, v), {name})
<1> DEFINE a == args[LookedUp(args, name)]
           s == Given(r, a.id, v)
<1>1. a \in Range(args) /\ a.id \in ArgIds /\ name \in Called(a)
  BY FoundByName, Zenon
<1> HIDE DEF a
<1>2. OneMore(r, s, a.id, v)
  BY <1>1, GivenPlaces, Zenon
<1>3. NamedOption(args, a.id, {name})
  BY <1>1 DEF NamedOption
<1> HIDE DEF s
<1>4. ASSUME NEW token \in ArgvTokens, token.kind = "text", token # TrueText
      PROVE  ValuePlaces(s.values, token) = ValuePlaces(r.values, token)
  <2>1. v # token
    BY <1>4
  <2>2. PICK p : ValuePlaces(s.values, token) = ValuePlaces(r.values, token) \cup (IF v = token THEN {p} ELSE {})
    BY <1>2 DEF OneMore
  <2>3. QED BY <2>1, <2>2
<1>5. QED BY <1>2, <1>3, <1>4 DEF OneMore, OptionsRead, s, a

LEMMA TrueIsAText == TrueText \in Texts
BY DEF Texts

LEMMA OptionIsRead ==
  ASSUME NEW args \in Seq(Arguments), NEW r \in ReadStates, NEW name
  PROVE  OptionsRead(args, r, ReadOption(args, r, name), {name})
<1> DEFINE k == LookedUp(args, name)
<1>1. CASE k = 0
  <2> DEFINE s == [r EXCEPT !.ok = FALSE]
  <2>1. ReadOption(args, r, name) = s
    BY <1>1 DEF ReadOption, TakesValue
  <2>2. s \in ReadStates /\ s.positionals = r.positionals /\ s.values = r.values /\ s.wants = r.wants
    BY DEF ReadStates
  <2> HIDE DEF s
  <2>3. QED BY <2>1, <2>2 DEF OptionsRead
<1>2. CASE k # 0 /\ TakesValue(args, name)
  <2> DEFINE a == args[k]
             s == [r EXCEPT !.wants = {a.id}]
  <2>1. ReadOption(args, r, name) = s
    BY <1>2 DEF ReadOption
  <2>2. a \in Range(args) /\ a.id \in ArgIds /\ name \in Called(a)
    BY <1>2, FoundByName, Zenon
  <2> HIDE DEF a
  <2>3. s \in ReadStates /\ s.positionals = r.positionals /\ s.values = r.values /\ s.wants = {a.id}
    BY <2>2 DEF ReadStates
  <2> HIDE DEF s
  <2>4. NamedOption(args, a.id, {name})
    BY <2>2 DEF NamedOption
  <2>5. QED BY <2>1, <2>3, <2>4 DEF OptionsRead
<1>3. CASE k # 0 /\ ~TakesValue(args, name)
  <2>1. ReadOption(args, r, name) = Given(r, args[k].id, TrueText)
    BY <1>3 DEF ReadOption
  <2>2. QED BY <1>3, <2>1, OptionGiven, TrueIsAText
<1>4. QED BY <1>1, <1>2, <1>3

\* Options read one after the other.
LEMMA MoreOptions ==
  ASSUME NEW args, NEW r, NEW s, NEW t, NEW M, NEW N, NEW P,
         OptionsRead(args, r, s, M), OptionsRead(args, s, t, N), M \subseteq P, N \subseteq P
  PROVE  OptionsRead(args, r, t, P)
<1>1. \A id : NamedOption(args, id, M) \/ NamedOption(args, id, N) => NamedOption(args, id, P)
  BY DEF NamedOption
<1>2. QED BY <1>1 DEF OptionsRead

LEMMA NoOptions ==
  ASSUME NEW args, NEW r \in ReadStates, NEW N
  PROVE  OptionsRead(args, r, r, N)
BY DEF OptionsRead

\* A function that is defined by a loop obeys its definition.
IsLoop(h, N, base, turn) == h = [n \in 0..N |-> IF n = 0 THEN base ELSE turn[n][h[n - 1]]]

LEMMA LoopOf ==
  ASSUME NEW N \in Nat, NEW D, NEW base \in D, NEW turn \in Steps(N, D)
  PROVE  \E h \in [0..N -> D] : IsLoop(h, N, base, turn)
<1>1. PICK h \in [0..N -> D] : h[0] = base /\ \A n \in 1..N : h[n] = turn[n][h[n - 1]]
  <2>1. Runs(N, D, base, turn) # {}
    BY RecursiveFunction
  <2>2. QED BY <2>1 DEF Runs
<1>2. \A n \in 0..N : h[n] = IF n = 0 THEN base ELSE turn[n][h[n - 1]]
  BY <1>1
<1>3. h = [n \in 0..N |-> h[n]]
  OBVIOUS
<1>4. QED BY <1>2, <1>3 DEF IsLoop

\* A cluster, option by option.
LEMMA FlagsAreRead ==
  ASSUME NEW args \in Seq(Arguments), NEW r \in ReadStates, NEW names, names \in Seq(Range(names)), NEW Flags,
         Flags = CHOOSE F : F = [n \in 0..Len(names) |-> IF n = 0 THEN r ELSE ReadOption(args, F[n - 1], names[n])]
  PROVE  \A n \in 0..Len(names) : OptionsRead(args, r, Flags[n], Range(names))
<1> DEFINE N == Len(names)
           D == ReadStates
           turn == [n \in 1..N |-> [s \in D |-> ReadOption(args, s, names[n])]]
           Loop(F) == [n \in 0..N |-> IF n = 0 THEN r ELSE ReadOption(args, F[n - 1], names[n])]
<1>1. N \in Nat /\ \A n \in 1..N : names[n] \in Range(names)
  BY DEF Range
<1> HIDE DEF N
<1>2. \A s \in D : \A name : ReadOption(args, s, name) \in D
  BY OptionIsRead DEF OptionsRead
<1>3. turn \in Steps(N, D)
  BY <1>2 DEF Steps
<1>4. PICK h \in [0..N -> D] : IsLoop(h, N, r, turn)
  <2>1. r \in D
    OBVIOUS
  <2> HIDE DEF turn, D
  <2>2. QED BY <1>1, <1>3, <2>1, LoopOf
<1>5. h = Loop(h)
  <2>1. \A n \in 0..N : n # 0 => h[n - 1] \in D /\ turn[n][h[n - 1]] = ReadOption(args, h[n - 1], names[n])
    <3>1. TAKE n \in 0..N
    <3>2. SUFFICES ASSUME n # 0 PROVE h[n - 1] \in D /\ n \in 1..N
      OBVIOUS
    <3>3. n - 1 \in 0..N /\ n \in 1..N
      BY <1>1, <3>2
    <3>4. QED BY <3>3
  <2> HIDE DEF turn
  <2>2. QED BY <1>4, <2>1 DEF IsLoop
<1>6. Flags = Loop(Flags)
  <2> DEFINE C == CHOOSE F : F = Loop(F)
  <2>1. Flags = C
    BY DEF N
  <2> HIDE DEF Loop
  <2>2. C = Loop(C)
    BY <1>5
  <2>3. QED BY <2>1, <2>2
<1>7. Flags[0] = r /\ \A n \in Nat : n + 1 <= N => Flags[n + 1] = ReadOption(args, Flags[n], names[n + 1])
  <2>1. \A n \in 0..N : Flags[n] = IF n = 0 THEN r ELSE ReadOption(args, Flags[n - 1], names[n])
    BY <1>6
  <2> HIDE DEF Loop
  <2>2. Flags[0] = r
    BY <1>1, <2>1
  <2>3. ASSUME NEW n \in Nat, n + 1 <= N PROVE Flags[n + 1] = ReadOption(args, Flags[n], names[n + 1])
    <3> DEFINE m == n + 1
    <3>1. m \in 0..N /\ m # 0 /\ m - 1 = n
      BY <1>1, <2>3
    <3> HIDE DEF m
    <3>2. Flags[m] = ReadOption(args, Flags[m - 1], names[m])
      BY <2>1, <3>1
    <3>3. QED BY <3>1, <3>2 DEF m
  <2>4. QED BY <2>2, <2>3
<1> DEFINE S == {n \in Nat : n <= N => OptionsRead(args, r, Flags[n], Range(names))}
<1>8. 0 \in S
  BY <1>7, NoOptions
<1>9. ASSUME NEW n \in Nat, n \in S PROVE n + 1 \in S
  <2>1. SUFFICES ASSUME n + 1 <= N PROVE OptionsRead(args, r, Flags[n + 1], Range(names))
    OBVIOUS
  <2>2. OptionsRead(args, r, Flags[n], Range(names)) /\ names[n + 1] \in Range(names)
    BY <1>1, <1>9, <2>1
  <2>3. Flags[n] \in ReadStates
    BY <2>2 DEF OptionsRead
  <2>4. OptionsRead(args, Flags[n], Flags[n + 1], {names[n + 1]})
    BY <1>7, <2>1, <2>3, OptionIsRead
  <2>5. QED BY <2>2, <2>4, MoreOptions
<1> HIDE DEF S
<1>10. \A n \in Nat : n \in S
  BY <1>8, <1>9, NatInductiveOn
<1>11. QED BY <1>1, <1>10 DEF S, N

LEMMA ClusterIsRead ==
  ASSUME NEW args \in Seq(Arguments), NEW r \in ReadStates, NEW token \in ArgvTokens, token.kind = "short"
  PROVE  OptionsRead(args, r, ReadCluster(args, r, token.names), Range(token.names))
<1> DEFINE names == token.names
           N == Len(names)
           I == {i \in 1..N : TakesValue(args, names[i])}
           k == IF I # {} THEN Min(I) ELSE 0
           Flags == CHOOSE F : F = [n \in 0..N |-> IF n = 0 THEN r ELSE ReadOption(args, F[n - 1], names[n])]
           rest == [kind |-> "rest", names |-> SubSeq(names, k + 1, N)]
           A == args[LookedUp(args, names[k])]
<1>1. names \in Seq(Range(names)) /\ N \in Nat
  BY KlyspecAssumption
<1>2. ReadCluster(args, r, names) = IF k \in {0, N} THEN Flags[N] ELSE Given(Flags[k - 1], A.id, rest)
  BY DEF ReadCluster, SelectInSeq
<1>3. k = 0 \/ k \in I
  <2>1. I \in SUBSET Nat
    OBVIOUS
  <2> HIDE DEF I
  <2>2. QED BY <2>1, MinIsIn
<1>4. \A n \in 0..N : OptionsRead(args, r, Flags[n], Range(names))
  <2>1. Flags = CHOOSE F : F = [n \in 0..N |-> IF n = 0 THEN r ELSE ReadOption(args, F[n - 1], names[n])]
    OBVIOUS
  <2> HIDE DEF Flags, names
  <2>2. QED BY <1>1, <2>1, FlagsAreRead
<1>5. k \in Nat
  <2> HIDE DEF k
  <2>1. QED BY <1>1, <1>3
<1>6. rest \in Texts
  <2> HIDE DEF k
  <2>1. k + 1 \in Nat
    BY <1>5
  <2>2. rest \in RestTexts
    <3>1. \E t \in ArgvTokens : \E n \in Nat : rest = RestText(t, n)
      BY <2>1, Zenon DEF RestText
    <3> HIDE DEF rest
    <3>2. PICK t \in ArgvTokens, n \in Nat : rest = RestText(t, n)
      BY <3>1
    <3>3. rest \in {RestText(t, m) : m \in Nat}
      BY <3>2
    <3>4. QED BY <3>3 DEF RestTexts
  <2> HIDE DEF rest
  <2>3. QED BY <2>2 DEF Texts
<1>7. \A t \in ArgvTokens : t.kind = "text" => rest # t
  OBVIOUS
<1> HIDE DEF k, Flags, rest
<1>8. CASE k \in {0, N}
  BY <1>1, <1>2, <1>4, <1>8
<1>9. CASE k \notin {0, N}
  <2>1. k \in 1..N /\ TakesValue(args, names[k]) /\ k - 1 \in 0..N
    BY <1>1, <1>3, <1>9
  <2>2. LookedUp(args, names[k]) # 0 /\ names[k] \in Range(names)
    BY <1>1, <2>1 DEF TakesValue, Range
  <2> HIDE DEF names
  <2>3. OptionsRead(args, r, Flags[k - 1], Range(names))
    BY <1>4, <2>1
  <2>4. Flags[k - 1] \in ReadStates
    BY <2>3 DEF OptionsRead
  <2>5. OptionsRead(args, Flags[k - 1], Given(Flags[k - 1], A.id, rest), {names[k]})
    BY <1>6, <1>7, <2>2, <2>4, OptionGiven
  <2>6. OptionsRead(args, r, Given(Flags[k - 1], A.id, rest), Range(names))
    BY <2>2, <2>3, <2>5, MoreOptions
  <2>7. QED BY <1>2, <1>9, <2>6 DEF names
<1>10. QED BY <1>8, <1>9

\* A word that parse does not put in by itself.
IsWord(token) == token \in ArgvTokens /\ token.kind = "text" /\ token # TrueText

\* From r to s the word token was put at one place more: among the positionals
\* or among the values.
PutOnce(r, s, token) ==
  \/ /\ ValuePlaces(s.values, token) = ValuePlaces(r.values, token)
     /\ \E p : /\ p \notin Occurrences(r.positionals, token)
               /\ Occurrences(s.positionals, token) = Occurrences(r.positionals, token) \cup {p}
  \/ /\ Occurrences(s.positionals, token) = Occurrences(r.positionals, token)
     /\ \E p : /\ p \notin ValuePlaces(r.values, token)
               /\ ValuePlaces(s.values, token) = ValuePlaces(r.values, token) \cup {p}

TokenRead(args, r, s, token) ==
  /\ s \in ReadStates
  /\ IsWord(token) => PutOnce(r, s, token)
  /\ \A t : IsWord(t) /\ t # token => /\ ValuePlaces(s.values, t) = ValuePlaces(r.values, t)
                                      /\ Occurrences(s.positionals, t) = Occurrences(r.positionals, t)
  /\ \A id \in DOMAIN s.values \cup s.wants :
       \/ id \in DOMAIN r.values \cup r.wants
       \/ token.kind \in {"long", "short"} /\ NamedOption(args, id, Range(token.names))

\* A positional.
LEMMA PositionalRead ==
  ASSUME NEW args, NEW r \in ReadStates, NEW token \in ArgvTokens
  PROVE  TokenRead(args, r, [r EXCEPT !.positionals = Append(@, token)], token)
<1> DEFINE s == [r EXCEPT !.positionals = Append(@, token)]
           old == r.positionals
           new == Append(old, token)
           T == ArgvTokens
           p == Len(old) + 1
<1>1. old \in Seq(T) /\ token \in T
  BY DEF ReadStates
<1>2. /\ new \in Seq(T) /\ p \notin DOMAIN old /\ DOMAIN new = DOMAIN old \cup {p}
      /\ new[p] = token /\ \A i \in DOMAIN old : new[i] = old[i]
  <2> HIDE DEF T, old
  <2>1. QED BY <1>1
<1>3. s \in ReadStates /\ s.values = r.values /\ s.wants = r.wants /\ s.positionals = new
  <2> HIDE DEF T, new
  <2>1. s = [r EXCEPT !.positionals = new]
    BY DEF new
  <2> HIDE DEF s
  <2>2. QED BY <1>2, <2>1 DEF ReadStates, T
<1> HIDE DEF s, new, old, p
<1>4. \A t : /\ t # token => Occurrences(new, t) = Occurrences(old, t)
             /\ t = token => p \notin Occurrences(old, t) /\ Occurrences(new, t) = Occurrences(old, t) \cup {p}
  BY <1>2 DEF Occurrences
<1>5. QED BY <1>3, <1>4 DEF TokenRead, PutOnce, s, old

LEMMA TokenIsRead ==
  ASSUME NEW args \in Seq(Arguments), NEW r \in ReadStates, NEW token \in ArgvTokens
  PROVE  TokenRead(args, r, ReadToken(args, r, token), token)
<1> DEFINE s == ReadToken(args, r, token)
<1>1. CASE r.wants # {}
  <2> DEFINE q == [r EXCEPT !.wants = {}]
             id == CHOOSE i \in r.wants : TRUE
  <2>1. s = Given(q, id, token)
    BY <1>1 DEF ReadToken
  <2>2. id \in r.wants /\ id \in ArgIds
    <3>1. r.wants \subseteq ArgIds
      BY DEF ReadStates
    <3>2. id \in r.wants
      BY <1>1
    <3>3. QED BY <3>1, <3>2
  <2>3. q \in ReadStates /\ q.values = r.values /\ q.positionals = r.positionals /\ q.wants = {}
    BY DEF ReadStates
  <2>4. token \in Texts
    BY DEF Texts
  <2> HIDE DEF s, q, id
  <2>5. OneMore(q, s, id, token)
    BY <2>1, <2>2, <2>3, <2>4, GivenPlaces
  <2>6. \A t : \E p : /\ p \notin ValuePlaces(r.values, t)
                      /\ ValuePlaces(s.values, t) = ValuePlaces(r.values, t) \cup (IF token = t THEN {p} ELSE {})
    BY <2>3, <2>5 DEF OneMore
  <2>7. s \in ReadStates /\ s.positionals = r.positionals /\ DOMAIN s.values \cup s.wants \subseteq DOMAIN r.values \cup r.wants
    BY <2>2, <2>3, <2>5 DEF OneMore
  <2>8. PutOnce(r, s, token)
    BY <2>6, <2>7 DEF PutOnce
  <2>9. ASSUME NEW t, t # token PROVE ValuePlaces(s.values, t) = ValuePlaces(r.values, t)
    BY <2>6, <2>9
  <2>10. QED BY <2>7, <2>8, <2>9 DEF TokenRead, s
<1>2. CASE s = [r EXCEPT !.positionals = Append(@, token)]
  BY <1>2, PositionalRead
<1>3. CASE s = [r EXCEPT !.ended = TRUE] /\ token.kind = "end"
  <2>1. s \in ReadStates /\ s.values = r.values /\ s.positionals = r.positionals /\ s.wants = r.wants
    BY <1>3 DEF ReadStates
  <2> HIDE DEF s
  <2>2. ~IsWord(token)
    BY <1>3 DEF IsWord
  <2>3. QED BY <2>1, <2>2 DEF TokenRead, s
<1>4. CASE token.kind \in {"long", "short"} /\ OptionsRead(args, r, s, Range(token.names))
  <2> HIDE DEF s
  <2>1. ~IsWord(token)
    BY <1>4 DEF IsWord
  <2>2. QED BY <1>4, <2>1 DEF TokenRead, OptionsRead, IsWord, s
<1>5. CASE s = ReadOption(args, r, Head(token.names)) /\ token.kind = "long"
  <2>1. token.names \in Seq(Range(token.names)) \ {<<>>}
    BY <1>5, KlyspecAssumption
  <2>2. Head(token.names) \in Range(token.names)
    BY <2>1
  <2> HIDE DEF s
  <2>3. OptionsRead(args, r, s, {Head(token.names)})
    BY <1>5, OptionIsRead
  <2>4. OptionsRead(args, r, r, {})
    BY NoOptions
  <2>5. OptionsRead(args, r, s, Range(token.names))
    BY <2>2, <2>3, <2>4, MoreOptions
  <2>6. QED BY <1>4, <1>5, <2>5
<1>6. CASE s = ReadCluster(args, r, token.names) /\ token.kind = "short"
  <2>1. OptionsRead(args, r, s, Range(token.names))
    BY <1>6, ClusterIsRead
  <2>2. QED BY <1>4, <1>6, <2>1
<1>7. \/ r.wants # {}
      \/ s = [r EXCEPT !.positionals = Append(@, token)]
      \/ s = [r EXCEPT !.ended = TRUE] /\ token.kind = "end"
      \/ s = ReadOption(args, r, Head(token.names)) /\ token.kind = "long"
      \/ s = ReadCluster(args, r, token.names) /\ token.kind = "short"
  BY DEF ReadToken
<1> HIDE DEF s
<1>8. TokenRead(args, r, s, token)
  BY <1>1, <1>2, <1>3, <1>5, <1>6, <1>7 DEF s
<1>9. QED BY <1>8 DEF s

\* Of the first n words each is where it was put, once; and whatever has a value
\* or waits for one was named among them.
GivenUpTo(argv, n, token) == {i \in 1..n : argv[i] = token}
ReadSoFar(args, argv, n, r) ==
  /\ r \in ReadStates
  /\ \A token : IsWord(token) =>
       /\ IsFiniteSet(Occurrences(r.positionals, token)) /\ IsFiniteSet(ValuePlaces(r.values, token))
       /\ Cardinality(GivenUpTo(argv, n, token)) = Cardinality(Occurrences(r.positionals, token))
                                                   + Cardinality(ValuePlaces(r.values, token))
  /\ \A id \in DOMAIN r.values \cup r.wants :
       \E i \in 1..n : argv[i].kind \in {"long", "short"} /\ NamedOption(args, id, Range(argv[i].names))

LEMMA OneMoreGiven ==
  ASSUME NEW argv, NEW n \in Nat, NEW token
  PROVE  /\ IsFiniteSet(GivenUpTo(argv, n, token)) /\ Cardinality(GivenUpTo(argv, n, token)) \in Nat
         /\ Cardinality(GivenUpTo(argv, n + 1, token)) =
              Cardinality(GivenUpTo(argv, n, token)) + (IF argv[n + 1] = token THEN 1 ELSE 0)
<1> DEFINE G == GivenUpTo(argv, n, token)
           m == n + 1
<1>1. GivenUpTo(argv, m, token) = IF argv[m] = token THEN G \cup {m} ELSE G
  <2>1. \A i : i \in 1..m <=> i \in 1..n \/ i = m
    OBVIOUS
  <2> HIDE DEF m
  <2>2. QED BY <2>1 DEF GivenUpTo
<1>2. G \subseteq 1..n /\ m \notin G
  BY DEF GivenUpTo
<1>3. IsFiniteSet(G)
  <2>1. IsFiniteSet(1..n)
    BY FS_Interval
  <2>2. QED BY <1>2, <2>1, FS_Subset
<1> HIDE DEF G, m
<1>4. Cardinality(G) \in Nat /\ Cardinality(G \cup {m}) = Cardinality(G) + 1
  BY <1>2, <1>3, FS_AddElement, FS_CardinalityType
<1>5. QED BY <1>1, <1>3, <1>4 DEF G, m

LEMMA ReadOneMore ==
  ASSUME NEW args, NEW argv, NEW n \in Nat, NEW r, NEW s,
         ReadSoFar(args, argv, n, r), TokenRead(args, r, s, argv[n + 1])
  PROVE  ReadSoFar(args, argv, n + 1, s)
<1> DEFINE token == argv[n + 1]
<1>1. ASSUME NEW t, IsWord(t)
      PROVE  /\ IsFiniteSet(Occurrences(s.positionals, t)) /\ IsFiniteSet(ValuePlaces(s.values, t))
             /\ Cardinality(GivenUpTo(argv, n + 1, t)) = Cardinality(Occurrences(s.positionals, t))
                                                         + Cardinality(ValuePlaces(s.values, t))
  <2> DEFINE O == Occurrences(r.positionals, t)
             V == ValuePlaces(r.values, t)
             Os == Occurrences(s.positionals, t)
             Vs == ValuePlaces(s.values, t)
             G == Cardinality(GivenUpTo(argv, n, t))
             Gs == Cardinality(GivenUpTo(argv, n + 1, t))
  <2>1. /\ IsFiniteSet(O) /\ IsFiniteSet(V) /\ G = Cardinality(O) + Cardinality(V)
    BY <1>1 DEF ReadSoFar
  <2>2. G \in Nat /\ Gs = G + (IF token = t THEN 1 ELSE 0)
    BY OneMoreGiven
  <2>3. CASE t # token
    <3>1. Vs = V /\ Os = O
      BY <1>1, <2>3 DEF TokenRead
    <3> HIDE DEF O, V, Os, Vs, G, Gs, token
    <3>2. QED BY <2>1, <2>2, <2>3, <3>1 DEF O, V, Os, Vs, G, Gs
  <2>4. CASE t = token
    <3>1. \/ Vs = V /\ \E p : p \notin O /\ Os = O \cup {p}
          \/ Os = O /\ \E p : p \notin V /\ Vs = V \cup {p}
      BY <1>1, <2>4 DEF TokenRead, PutOnce
    <3> HIDE DEF O, V, Os, Vs, G, Gs, token
    <3>2. Cardinality(O) \in Nat /\ Cardinality(V) \in Nat
      BY <2>1, FS_CardinalityType
    <3>3. \A p : /\ p \notin O => IsFiniteSet(O \cup {p}) /\ Cardinality(O \cup {p}) = Cardinality(O) + 1
                 /\ p \notin V => IsFiniteSet(V \cup {p}) /\ Cardinality(V \cup {p}) = Cardinality(V) + 1
      BY <2>1, FS_AddElement
    <3>4. /\ IsFiniteSet(Os) /\ IsFiniteSet(Vs) /\ Cardinality(Os) + Cardinality(Vs) = Cardinality(O) + Cardinality(V) + 1
      <4>1. CASE Vs = V /\ \E p : p \notin O /\ Os = O \cup {p}
        <5>1. PICK p : p \notin O /\ Os = O \cup {p}
          BY <4>1
        <5>2. IsFiniteSet(Os) /\ Cardinality(Os) = Cardinality(O) + 1 /\ Vs = V
          BY <3>3, <4>1, <5>1
        <5>3. QED BY <2>1, <3>2, <5>2
      <4>2. CASE Os = O /\ \E p : p \notin V /\ Vs = V \cup {p}
        <5>1. PICK p : p \notin V /\ Vs = V \cup {p}
          BY <4>2
        <5>2. IsFiniteSet(Vs) /\ Cardinality(Vs) = Cardinality(V) + 1 /\ Os = O
          BY <3>3, <4>2, <5>1
        <5>3. QED BY <2>1, <3>2, <5>2
      <4>3. QED BY <3>1, <4>1, <4>2
    <3>5. QED BY <2>1, <2>2, <2>4, <3>4 DEF Os, Vs, Gs
  <2>5. QED BY <2>3, <2>4
<1>2. ASSUME NEW id \in DOMAIN s.values \cup s.wants
      PROVE  \E i \in 1..n + 1 : argv[i].kind \in {"long", "short"} /\ NamedOption(args, id, Range(argv[i].names))
  <2>1. \/ \E i \in 1..n : argv[i].kind \in {"long", "short"} /\ NamedOption(args, id, Range(argv[i].names))
        \/ token.kind \in {"long", "short"} /\ NamedOption(args, id, Range(token.names))
    BY <1>2 DEF ReadSoFar, TokenRead
  <2>2. 1..n \subseteq 1..n + 1 /\ n + 1 \in 1..n + 1
    OBVIOUS
  <2>3. QED BY <2>1, <2>2
<1>3. s \in ReadStates
  BY DEF TokenRead
<1>4. QED BY <1>1, <1>2, <1>3 DEF ReadSoFar

LEMMA ScannedIsRead ==
  ASSUME NEW args \in Seq(Arguments), NEW argv \in Seq(ArgvTokens)
  PROVE  \E r : /\ ReadSoFar(args, argv, Len(argv), r)
                /\ Scanned(args, argv) = [r EXCEPT !.ok = @ /\ r.wants = {}]
<1> DEFINE N == Len(argv)
           D == ReadStates
           turn == [n \in 1..N |-> [s \in D |-> ReadToken(args, s, argv[n])]]
           Loop(F) == [n \in 0..N |-> IF n = 0 THEN NothingRead ELSE ReadToken(args, F[n - 1], argv[n])]
           Reading == CHOOSE F : F = Loop(F)
<1>1. N \in Nat /\ \A n \in 1..N : argv[n] \in ArgvTokens
  OBVIOUS
<1>2. Scanned(args, argv) = [Reading[N] EXCEPT !.ok = @ /\ Reading[N].wants = {}]
  BY DEF Scanned
<1> HIDE DEF N
<1>3. \A s \in D : \A t \in ArgvTokens : ReadToken(args, s, t) \in D
  BY TokenIsRead DEF TokenRead
<1>4. NothingRead \in D
  <2>1. <<>> \in [{} -> Seq(Texts)] /\ <<>> \in Seq(ArgvTokens) /\ {} \in SUBSET ArgIds
    OBVIOUS
  <2>2. <<>> \in ValueMaps
    BY <2>1, ValueMapsAre
  <2>3. QED BY <2>1, <2>2 DEF NothingRead, ReadStates
<1>5. turn \in Steps(N, D)
  BY <1>1, <1>3 DEF Steps
<1>6. PICK h \in [0..N -> D] : IsLoop(h, N, NothingRead, turn)
  <2> HIDE DEF turn, D
  <2>1. QED BY <1>1, <1>4, <1>5, LoopOf
<1>7. h = Loop(h)
  <2>1. \A n \in 0..N : n # 0 => h[n - 1] \in D /\ turn[n][h[n - 1]] = ReadToken(args, h[n - 1], argv[n])
    <3>1. TAKE n \in 0..N
    <3>2. SUFFICES ASSUME n # 0 PROVE h[n - 1] \in D /\ n \in 1..N
      OBVIOUS
    <3>3. n - 1 \in 0..N /\ n \in 1..N
      BY <1>1, <3>2
    <3>4. QED BY <3>3
  <2> HIDE DEF turn
  <2>2. QED BY <1>6, <2>1 DEF IsLoop
<1>8. Reading = Loop(Reading)
  <2> HIDE DEF Loop
  <2>1. QED BY <1>7
<1> HIDE DEF Reading
<1>9. Reading[0] = NothingRead /\ \A n \in Nat : n + 1 <= N => Reading[n + 1] = ReadToken(args, Reading[n], argv[n + 1])
  <2>1. \A n \in 0..N : Reading[n] = IF n = 0 THEN NothingRead ELSE ReadToken(args, Reading[n - 1], argv[n])
    BY <1>8
  <2> HIDE DEF Loop
  <2>2. Reading[0] = NothingRead
    BY <1>1, <2>1
  <2>3. ASSUME NEW n \in Nat, n + 1 <= N PROVE Reading[n + 1] = ReadToken(args, Reading[n], argv[n + 1])
    <3> DEFINE m == n + 1
    <3>1. m \in 0..N /\ m # 0 /\ m - 1 = n
      BY <1>1, <2>3
    <3> HIDE DEF m
    <3>2. Reading[m] = ReadToken(args, Reading[m - 1], argv[m])
      BY <2>1, <3>1
    <3>3. QED BY <3>1, <3>2 DEF m
  <2>4. QED BY <2>2, <2>3
<1> DEFINE S == {n \in Nat : n <= N => ReadSoFar(args, argv, n, Reading[n])}
<1>10. 0 \in S
  <2>1. DOMAIN NothingRead.values = {} /\ NothingRead.wants = {} /\ NothingRead.positionals = <<>>
    BY DEF NothingRead
  <2>2. \A t : ValuePlaces(NothingRead.values, t) = {} /\ Occurrences(NothingRead.positionals, t) = {}
               /\ GivenUpTo(argv, 0, t) = {}
    BY <2>1 DEF ValuePlaces, Occurrences, GivenUpTo
  <2>3. IsFiniteSet({}) /\ Cardinality({}) = 0
    BY FS_EmptySet
  <2>4. ReadSoFar(args, argv, 0, NothingRead)
    <3>1. \A t : /\ IsFiniteSet(Occurrences(NothingRead.positionals, t))
                 /\ IsFiniteSet(ValuePlaces(NothingRead.values, t))
                 /\ Cardinality(GivenUpTo(argv, 0, t)) = Cardinality(Occurrences(NothingRead.positionals, t))
                                                         + Cardinality(ValuePlaces(NothingRead.values, t))
      <4>1. TAKE t
      <4> DEFINE O == Occurrences(NothingRead.positionals, t)
                 V == ValuePlaces(NothingRead.values, t)
                 G == GivenUpTo(argv, 0, t)
      <4>2. O = {} /\ V = {} /\ G = {}
        BY <2>2
      <4> HIDE DEF O, V, G
      <4>3. IsFiniteSet(O) /\ IsFiniteSet(V) /\ Cardinality(O) = 0 /\ Cardinality(V) = 0 /\ Cardinality(G) = 0
        BY <2>3, <4>2
      <4>4. IsFiniteSet(O) /\ IsFiniteSet(V) /\ Cardinality(G) = Cardinality(O) + Cardinality(V)
        BY <4>3
      <4>5. QED BY <4>4 DEF O, V, G
    <3>2. DOMAIN NothingRead.values \cup NothingRead.wants = {}
      BY <2>1
    <3>3. NothingRead \in ReadStates
      BY <1>4
    <3>4. QED BY <3>1, <3>2, <3>3, Zenon DEF ReadSoFar
  <2>5. QED BY <1>9, <2>4
<1>11. ASSUME NEW n \in Nat, n \in S PROVE n + 1 \in S
  <2>1. SUFFICES ASSUME n + 1 <= N PROVE ReadSoFar(args, argv, n + 1, Reading[n + 1])
    OBVIOUS
  <2>2. ReadSoFar(args, argv, n, Reading[n]) /\ argv[n + 1] \in ArgvTokens
    BY <1>1, <1>11, <2>1
  <2>3. Reading[n] \in ReadStates
    BY <2>2 DEF ReadSoFar
  <2>4. TokenRead(args, Reading[n], Reading[n + 1], argv[n + 1])
    BY <1>9, <2>1, <2>2, <2>3, TokenIsRead
  <2>5. QED BY <2>2, <2>4, ReadOneMore
<1> HIDE DEF S
<1>12. \A n \in Nat : n \in S
  BY <1>10, <1>11, NatInductiveOn
<1>13. ReadSoFar(args, argv, N, Reading[N])
  BY <1>1, <1>12 DEF S
<1>14. QED BY <1>2, <1>13 DEF N

\* A default is no word that was given.
SameWords(args, r, s) ==
  /\ s.positionals = r.positionals /\ s.ok = r.ok
  /\ \A t : t \notin MadeUp(args) => ValuePlaces(s.values, t) = ValuePlaces(r.values, t)

\* The first default of an id is one of the defaults.
LEMMA DefaultIsOne ==
  ASSUME NEW args \in Seq(Arguments), NEW a \in Range(args), a.default # {}
  PROVE  DefaultOf(args, a.id) \in MadeUp(args)
<1> DEFINE I == {i \in 1 .. Len(args) : args[i].id = a.id /\ args[i].default # {}}
           k == SelectInSeq(args, LAMBDA b : b.id = a.id /\ b.default # {})
<1>1. k = IF I # {} THEN Min(I) ELSE 0
  BY DEF SelectInSeq
<1>2. I \in SUBSET Nat /\ I # {}
  BY DEF Range
<1> HIDE DEF k
<1>3. k \in I
  <2> HIDE DEF I
  <2>1. QED BY <1>1, <1>2, MinIsIn
<1>4. args[k].default # {} /\ args[k] \in Range(args)
  BY <1>3 DEF Range
<1>5. DefaultOf(args, a.id) \in args[k].default
  BY <1>4 DEF DefaultOf, k
<1>6. QED BY <1>4, <1>5 DEF MadeUp

LEMMA DefaultsAdded ==
  ASSUME NEW args \in Seq(Arguments), NEW r \in ReadStates, NEW s, s = Defaulted(args, r)
  PROVE  SameWords(args, r, s)
<1> DEFINE ids == {a.id : a \in {b \in Range(args) : b.id \notin DOMAIN r.values /\ b.default # {}}}
           f == r.values
           g == [id \in DOMAIN f \cup ids |-> IF id \in DOMAIN f THEN f[id] ELSE <<DefaultOf(args, id)>>]
<1>1. s = [r EXCEPT !.values = g]
  BY DEF Defaulted
<1>2. s.values = g /\ s.positionals = r.positionals /\ s.ok = r.ok
  <2> HIDE DEF g
  <2>1. QED BY <1>1 DEF ReadStates
<1>3. ASSUME NEW t, t \notin MadeUp(args) PROVE ValuePlaces(g, t) = ValuePlaces(f, t)
  <2>1. DOMAIN g = DOMAIN f \cup ids /\ \A id \in DOMAIN f : g[id] = f[id]
    OBVIOUS
  <2>2. ASSUME NEW id \in ids, id \notin DOMAIN f PROVE Occurrences(g[id], t) = {}
    <3>1. PICK a \in Range(args) : a.id = id /\ a.default # {}
      BY <2>2
    <3>2. DefaultOf(args, id) \in MadeUp(args)
      BY <3>1, DefaultIsOne
    <3>3. DefaultOf(args, id) # t
      BY <1>3, <3>2
    <3>4. g[id] = <<DefaultOf(args, id)>>
      BY <2>2
    <3> HIDE DEF g
    <3>5. QED BY <3>3, <3>4 DEF Occurrences
  <2> HIDE DEF g, f, ids
  <2>3. QED BY <2>1, <2>2 DEF ValuePlaces
<1> HIDE DEF g
<1>4. QED BY <1>2, <1>3 DEF SameWords

\* What a command line is read into has every word of it, and what is required.
LEMMA LineIsRead ==
  ASSUME NEW args \in Seq(Arguments), NEW argv \in Seq(ArgvTokens),
         NEW q, q = Scanned(args, argv), NEW r,
         r = Defaulted(args, [q EXCEPT !.ok = @ /\ \A i \in DOMAIN args : ~MissingArgument(args, i, q)]), r.ok
  PROVE  HasAll(args, argv, r)
<1>1. PICK p : ReadSoFar(args, argv, Len(argv), p) /\ q = [p EXCEPT !.ok = @ /\ p.wants = {}]
  BY ScannedIsRead
<1> DEFINE ok == q.ok /\ \A i \in DOMAIN args : ~MissingArgument(args, i, q)
           s == [q EXCEPT !.ok = ok]
<1>2. q \in ReadStates /\ q.values = p.values /\ q.positionals = p.positionals
  <2>1. p \in ReadStates
    BY <1>1 DEF ReadSoFar
  <2>2. (p.ok /\ p.wants = {}) \in BOOLEAN
    OBVIOUS
  <2> DEFINE done == p.ok /\ p.wants = {}
  <2>3. q = [p EXCEPT !.ok = done]
    BY <1>1
  <2> HIDE DEF done
  <2>4. QED BY <2>1, <2>2, <2>3 DEF done, ReadStates
<1>3. s \in ReadStates /\ s.values = p.values /\ s.positionals = p.positionals /\ s.ok = ok
  <2>1. ok \in BOOLEAN
    OBVIOUS
  <2> HIDE DEF ok
  <2>2. QED BY <1>2, <2>1 DEF ReadStates
<1>4. r = Defaulted(args, s)
  OBVIOUS
<1> HIDE DEF s
<1>5. /\ r.positionals = p.positionals /\ r.ok = ok
      /\ \A t : t \notin MadeUp(args) => ValuePlaces(r.values, t) = ValuePlaces(p.values, t)
  <2> HIDE DEF ok
  <2>1. SameWords(args, s, r)
    BY <1>3, <1>4, DefaultsAdded
  <2>2. QED BY <1>3, <2>1 DEF SameWords
<1>6. ASSUME NEW token \in ArgvTokens, token.kind = "text", token \notin MadeUp(args)
      PROVE  Cardinality(Occurrences(argv, token)) = Cardinality(Occurrences(r.positionals, token))
                                                     + Cardinality(ValuePlaces(r.values, token))
  <2>1. IsWord(token)
    BY <1>6 DEF IsWord, MadeUp
  <2>2. Occurrences(argv, token) = GivenUpTo(argv, Len(argv), token)
    BY DEF Occurrences, GivenUpTo
  <2>3. Cardinality(GivenUpTo(argv, Len(argv), token)) = Cardinality(Occurrences(p.positionals, token))
                                                         + Cardinality(ValuePlaces(p.values, token))
    BY <1>1, <2>1 DEF ReadSoFar
  <2>4. ValuePlaces(r.values, token) = ValuePlaces(p.values, token) /\ r.positionals = p.positionals
    BY <1>5, <1>6
  <2>5. QED BY <2>2, <2>3, <2>4
<1>7. ASSUME NEW i \in DOMAIN args, args[i].required, ~DefaultedBefore(args, i)
      PROVE  \E n \in DOMAIN argv, a \in Range(args) :
               a.id = args[i].id /\ argv[n].kind \in {"long", "short"} /\ Range(argv[n].names) \cap Called(a) # {}
  <2>1. args[i].id \in DOMAIN p.values
    BY <1>2, <1>5, <1>7 DEF MissingArgument
  <2>2. PICK n \in 1..Len(argv) : argv[n].kind \in {"long", "short"} /\ NamedOption(args, args[i].id, Range(argv[n].names))
    BY <1>1, <2>1 DEF ReadSoFar
  <2>3. PICK a \in Range(args) : a.id = args[i].id /\ Range(argv[n].names) \cap Called(a) # {}
    BY <2>2 DEF NamedOption
  <2>4. QED BY <2>2, <2>3
<1>8. QED BY <1>6, <1>7 DEF HasAll

\* Whatever is registered, a command line that is read without a complaint has
\* each of its words as often as it was given, and what its command requires.
THEOREM NoWordIsLost == RegistrySpec => []NothingIsLost
<1>1. ASSUME RegistryInv PROVE NothingIsLost
  <2>1. SUFFICES ASSUME NEW name \in DOMAIN aliases, NEW argv \in CommandLines, Parse(name, argv).ok
        PROVE  HasAll(commands[aliases[name]], argv, Parse(name, argv))
    BY DEF NothingIsLost
  <2> DEFINE args == commands[aliases[name]]
             q == Scanned(args, argv)
             r == Parse(name, argv)
  <2>2. aliases[name] \in DOMAIN commands
    BY <1>1 DEF RegistryInv
  <2>3. args \in Seq(Arguments) /\ argv \in Seq(ArgvTokens)
    BY <1>1, <2>2, KlyspecAssumption DEF RegistryInv
  <2>4. r = Defaulted(args, [q EXCEPT !.ok = @ /\ \A i \in DOMAIN args : ~MissingArgument(args, i, q)])
    BY DEF Parse
  <2>5. r.ok
    BY <2>1
  <2>6. q = Scanned(args, argv)
    OBVIOUS
  <2> HIDE DEF args, q, r
  <2>7. HasAll(args, argv, r)
    BY <2>3, <2>4, <2>5, <2>6, LineIsRead
  <2>8. QED BY <2>7 DEF args, r
<1>2. QED BY <1>1, RegistryInvariance, PTL

-----------------------------------------------------------------------------
(* The store of encrypted values.                                          *)

VaultSpec == VaultInit /\ [][VaultNext]_vaultVars

\* What put makes of a value.
EntryOf(key, plain, nonce) == [key |-> key, value |-> Encrypt(plain, ValidMaster, nonce)]
VaultEntries == {EntryOf(key, plain, nonce) : key \in VaultKeys, plain \in Plains, nonce \in Nat}

\* One entry for each key there is, of its value.
VaultInv ==
  /\ drawn \in Nat
  /\ DOMAIN stored \in SUBSET VaultKeys /\ IsFiniteSet(DOMAIN stored)
  /\ \A key \in DOMAIN stored : stored[key] \in Plains
  /\ entries \in Seq(VaultEntries)
  /\ \A i \in 1 .. Len(entries) : /\ entries[i].key \in DOMAIN stored
                                  /\ \E nonce \in Nat :
                                       entries[i] = EntryOf(entries[i].key, stored[entries[i].key], nonce)
  /\ \A i, j \in 1 .. Len(entries) : entries[i].key = entries[j].key => i = j
  /\ \A key \in DOMAIN stored : \E i \in 1 .. Len(entries) : entries[i].key = key
  /\ Len(entries) = Cardinality(DOMAIN stored)
  /\ master # ValidMaster => entries = <<>>

LEMMA SealedBox ==
  ASSUME NEW plain \in Plains, NEW nonce \in Nat
  PROVE  /\ Len(Sealed(plain, ValidMaster, nonce)) = Len(plain) + Overhead
         /\ \E S : Sealed(plain, ValidMaster, nonce) \in Seq(S)
         /\ Sealed(plain, ValidMaster, nonce) # <<>>
         /\ Decrypt(Encrypt(plain, ValidMaster, nonce), ValidMaster) = {plain}
<1> DEFINE box == Sealed(plain, ValidMaster, nonce)
           n == Len(plain) + Overhead
           cell(i) == [plain |-> plain, key |-> ValidMaster, nonce |-> nonce, at |-> i]
           S == {cell(i) : i \in 1 .. n}
<1>1. n \in Nat /\ 1 \in 1 .. n
  BY VaultAssumption
<1>2. box = [i \in 1 .. n |-> cell(i)]
  BY DEF Sealed
<1> HIDE DEF cell, n
<1>3. box \in [1 .. n -> S]
  BY <1>2
<1> HIDE DEF S, box
<1>4. box \in Seq(S) /\ Len(box) = n
  BY <1>1, <1>3
<1>5. box # <<>> /\ box[1].plain = plain
  <2>1. Len(box) # 0
    BY <1>1, <1>4
  <2>2. box[1] = cell(1)
    BY <1>1, <1>2
  <2>3. QED BY <2>1, <2>2 DEF cell
<1>6. Decrypt(Encrypt(plain, ValidMaster, nonce), ValidMaster) = {plain}
  <2> DEFINE e == Encrypt(plain, ValidMaster, nonce)
  <2>1. e.cipher = box /\ e.plain_size = Len(plain) /\ e.nonce = nonce
    BY DEF Encrypt, box
  <2> HIDE DEF e
  <2>2. Decrypt(e, ValidMaster) = IF box = Sealed(box[1].plain, ValidMaster, nonce) THEN {box[1].plain} ELSE {}
    BY <1>4, <1>5, <2>1 DEF Decrypt, n
  <2>3. QED BY <1>5, <2>2 DEF box, e
<1>7. QED BY <1>4, <1>5, <1>6 DEF box, n

\* The entry that find_entry finds is of that key, and it finds one if there is.
LEMMA EntryFound ==
  ASSUME VaultInv, NEW key \in VaultKeys
  PROVE  /\ FindEntry(key) \in 0 .. Len(entries)
         /\ FindEntry(key) # 0 => entries[FindEntry(key)].key = key
         /\ FindEntry(key) = 0 => \A i \in 1 .. Len(entries) : entries[i].key # key
<1> DEFINE Same(e) == Len(e.key) = Len(key) /\ \A i \in DOMAIN key : e.key[i] = key[i]
           I == {i \in 1 .. Len(entries) : Same(entries[i])}
<1>1. Len(entries) \in Nat /\ key \in Seq(Nat)
  BY VaultAssumption DEF VaultInv
<1>2. FindEntry(key) = IF I # {} THEN Min(I) ELSE 0
  BY DEF FindEntry, SelectInSeq
<1>3. \A i \in 1 .. Len(entries) : entries[i].key \in Seq(Nat)
  BY VaultAssumption DEF VaultInv
<1>4. \A i \in 1 .. Len(entries) : Same(entries[i]) <=> entries[i].key = key
  <2>1. TAKE i \in 1 .. Len(entries)
  <2> DEFINE k == entries[i].key
  <2>2. k \in Seq(Nat)
    BY <1>3
  <2> HIDE DEF k
  <2>3. (Len(k) = Len(key) /\ \A j \in DOMAIN key : k[j] = key[j]) => k = key
    <3>1. SUFFICES ASSUME Len(k) = Len(key), \A j \in DOMAIN key : k[j] = key[j] PROVE k = key
      OBVIOUS
    <3>2. DOMAIN key = 1 .. Len(key) /\ DOMAIN k = 1 .. Len(k)
      BY <1>1, <2>2
    <3>3. \A j \in 1 .. Len(k) : k[j] = key[j]
      BY <3>1, <3>2
    <3>4. QED BY <1>1, <2>2, <3>1, <3>3, SeqEqual, Zenon
  <2>4. QED BY <2>3 DEF k
<1> HIDE DEF Same
<1>5. I \in SUBSET Nat /\ I \subseteq 1 .. Len(entries)
  BY <1>1
<1>6. CASE I = {}
  BY <1>1, <1>2, <1>4, <1>6
<1>7. CASE I # {}
  <2>1. Min(I) \in I
    BY <1>5, <1>7, MinIsIn
  <2>2. QED BY <1>1, <1>2, <1>4, <1>7, <2>1
<1>8. QED BY <1>6, <1>7

\* A record that was written is read back, and any other one is refused.
OnlyReadAs(r, e) ==
  /\ DeserializeRecord(r) = {e}
  /\ \A n \in 0 .. Len(r.body) - 1 : DeserializeRecord([r EXCEPT !.body = SubSeq(@, 1, n)]) = {}
  /\ DeserializeRecord([r EXCEPT !.body = @ \o @]) = {}
  /\ \A n \in (0 .. Len(r.body) + 1) \ {r.key_size} : DeserializeRecord([r EXCEPT !.key_size = n]) = {}
  /\ \A n \in (0 .. Len(r.body) + 1) \ {r.cipher_size} : DeserializeRecord([r EXCEPT !.cipher_size = n]) = {}

LEMMA RecordRead ==
  ASSUME NEW k \in VaultKeys, NEW plain \in Plains, NEW nonce \in Nat,
         NEW e, e = EntryOf(k, plain, nonce), NEW r, r = SerializeRecord(e.key, e.value)
  PROVE  OnlyReadAs(r, e)
<1> DEFINE c == Sealed(plain, ValidMaster, nonce)
           b == k \o c
<1>1. k \in Seq(Nat) /\ plain \in Seq(Nat)
  BY VaultAssumption
<1>2. PICK S : c \in Seq(S)
  BY SealedBox
<1>3. Len(c) = Len(plain) + Overhead /\ Len(plain) \in Nat /\ Len(k) \in Nat /\ Overhead \in Nat \ {0}
  BY <1>1, SealedBox, VaultAssumption
<1>4. e = [key |-> k, value |-> [nonce |-> nonce, cipher |-> c, plain_size |-> Len(plain)]]
  BY DEF EntryOf, Encrypt
<1> HIDE DEF c
<1>5. r = [key_id |-> MakeKeyId(k), key_size |-> Len(k), plain_size |-> Len(plain), cipher_size |-> Len(c),
           nonce |-> nonce, body |-> b]
  <2> DEFINE v == e.value
  <2>1. e.key = k /\ v.nonce = nonce /\ v.cipher = c /\ v.plain_size = Len(plain)
    BY <1>4
  <2> HIDE DEF v
  <2>2. r = [key_id |-> MakeKeyId(e.key), key_size |-> Len(e.key), plain_size |-> v.plain_size,
             cipher_size |-> Len(v.cipher), nonce |-> v.nonce, body |-> e.key \o v.cipher]
    BY Zenon DEF SerializeRecord, v
  <2>3. QED BY <2>1, <2>2, Zenon
<1> DEFINE T == S \cup Nat
<1>6. k \in Seq(T) /\ c \in Seq(T)
  BY <1>1, <1>2, SeqMonotonic
<1> HIDE DEF T
<1>7. /\ b \in Seq(T) /\ Len(b) = Len(k) + Len(c)
      /\ SubSeq(b, 1, Len(k)) = k /\ SubSeq(b, Len(k) + 1, Len(k) + Len(c)) = c
  <2>1. /\ k \o c \in Seq(T) /\ Len(k \o c) = Len(k) + Len(c)
    BY <1>6, ConcatProperties, Zenon
  <2>2. SubSeq(k \o c, 1, Len(k)) = k
    <3>1. CASE Len(k) = 0
      <4>1. k = <<>>
        BY <1>6, <3>1
      <4>2. SubSeq(k \o c, 1, 0) = <<>>
        BY SubSeqEmpty
      <4>3. QED BY <3>1, <4>1, <4>2
    <3>2. CASE Len(k) # 0
      <4>1. 1 \in 1 .. Len(k) /\ Len(k) \in 1 .. Len(k)
        BY <1>3, <3>2
      <4>2. SubSeq(k \o c, 1, Len(k)) = SubSeq(k, 1, Len(k))
        BY <1>6, <4>1, SubSeqOfConcat1, Zenon
      <4>3. QED BY <1>6, <4>2, SubSeqFull, Zenon
    <3>3. QED BY <3>1, <3>2
  <2>3. SubSeq(k \o c, Len(k) + 1, Len(k) + Len(c)) = c
    <3> DEFINE from == Len(k) + 1
               to == Len(k) + Len(c)
    <3>1. from \in Len(k) + 1 .. Len(k) + Len(c) /\ to \in Len(k) + 1 .. Len(k) + Len(c)
      BY <1>3
    <3> HIDE DEF from, to
    <3>2. SubSeq(k \o c, from, to) = SubSeq(c, from - Len(k), to - Len(k))
      BY <1>6, <3>1, SubSeqOfConcat2
    <3>3. Len(k) + 1 - Len(k) = 1 /\ Len(k) + Len(c) - Len(k) = Len(c)
      BY <1>3
    <3>4. SubSeq(c, 1, Len(c)) = c
      BY <1>6, SubSeqFull, Zenon
    <3>5. QED BY <3>2, <3>3, <3>4 DEF from, to
  <2>4. QED BY <2>1, <2>2, <2>3
<1> HIDE DEF b
<1>8. /\ Len(c) \in Nat \ {0} /\ Len(b) \in Nat /\ Len(k) \in Nat
      /\ Len(b) = Len(k) + Len(c)
  BY <1>3, <1>7
<1>9. DeserializeRecord(r) = {e}
  <2>1. SizesFit(r)
    BY <1>3, <1>5, <1>7 DEF SizesFit
  <2>2. DeserializeRecord(r) =
          {[key   |-> SubSeq(b, 1, Len(k)),
            value |-> [nonce |-> nonce, plain_size |-> Len(plain), cipher |-> SubSeq(b, Len(k) + 1, Len(k) + Len(c))]]}
    BY <1>5, <2>1 DEF DeserializeRecord
  <2>3. QED BY <1>4, <1>7, <2>2
<1>10. ASSUME NEW n \in 0 .. Len(r.body) - 1 PROVE DeserializeRecord([r EXCEPT !.body = SubSeq(@, 1, n)]) = {}
  <2> DEFINE q == SubSeq(b, 1, n)
  <2>1. n \in Nat /\ n < Len(b)
    BY <1>5, <1>8
  <2>2. Len(q) = n
    <3>1. \A i \in 1 .. n : b[i] \in T
      BY <1>7, <1>8, <2>1
    <3>2. Len(q) = IF 1 <= n THEN n - 1 + 1 ELSE 0
      BY <2>1, <3>1, SubSeqProperties
    <3> HIDE DEF q
    <3>3. QED BY <2>1, <3>2
  <2> HIDE DEF q
  <2> DEFINE x == [r EXCEPT !.body = q]
  <2>3. x.body = q /\ x.key_size = Len(k) /\ x.cipher_size = Len(c)
    BY <1>5
  <2> HIDE DEF x
  <2>4. Len(q) # Len(k) + Len(c)
    BY <1>8, <2>1, <2>2
  <2>5. ~SizesFit(x)
    BY <2>3, <2>4 DEF SizesFit
  <2>6. QED BY <1>5, <2>5 DEF DeserializeRecord, q, x
<1>11. DeserializeRecord([r EXCEPT !.body = @ \o @]) = {}
  <2> DEFINE q == b \o b
  <2>1. Len(q) = Len(b) + Len(b)
    BY <1>7, ConcatProperties
  <2> HIDE DEF q
  <2> DEFINE x == [r EXCEPT !.body = q]
  <2>2. x.body = q /\ x.key_size = Len(k) /\ x.cipher_size = Len(c)
    BY <1>5
  <2> HIDE DEF x
  <2>3. Len(q) # Len(k) + Len(c)
    BY <1>8, <2>1
  <2>4. ~SizesFit(x)
    BY <2>2, <2>3 DEF SizesFit
  <2>5. QED BY <1>5, <2>4 DEF DeserializeRecord, q, x
<1>12. ASSUME NEW n \in (0 .. Len(r.body) + 1) \ {r.key_size} PROVE DeserializeRecord([r EXCEPT !.key_size = n]) = {}
  <2> DEFINE x == [r EXCEPT !.key_size = n]
  <2>1. n # Len(k) /\ n \in Int
    BY <1>5, <1>8
  <2>2. x.body = b /\ x.key_size = n /\ x.cipher_size = Len(c)
    BY <1>5
  <2> HIDE DEF x
  <2>3. Len(b) # n + Len(c)
    BY <1>8, <2>1
  <2>4. ~SizesFit(x)
    BY <2>2, <2>3 DEF SizesFit
  <2>5. QED BY <2>4 DEF DeserializeRecord, x
<1>13. ASSUME NEW n \in (0 .. Len(r.body) + 1) \ {r.cipher_size}
       PROVE  DeserializeRecord([r EXCEPT !.cipher_size = n]) = {}
  <2> DEFINE x == [r EXCEPT !.cipher_size = n]
  <2>1. n # Len(c) /\ n \in Int
    BY <1>5, <1>8
  <2>2. x.body = b /\ x.key_size = Len(k) /\ x.cipher_size = n
    BY <1>5
  <2> HIDE DEF x
  <2>3. Len(b) # Len(k) + n
    BY <1>8, <2>1
  <2>4. ~SizesFit(x)
    BY <2>2, <2>3 DEF SizesFit
  <2>5. QED BY <2>4 DEF DeserializeRecord, x
<1>14. QED BY <1>9, <1>10, <1>11, <1>12, <1>13 DEF OnlyReadAs

LEMMA EntriesReadBack ==
  ASSUME VaultInv, NEW i \in 1 .. Len(entries)
  PROVE  /\ Decrypt(entries[i].value, master) = {stored[entries[i].key]}
         /\ RecordReadsBack(entries[i])
<1>1. entries # <<>> /\ master = ValidMaster
  BY DEF VaultInv
<1> DEFINE e == entries[i]
           k == e.key
           plain == stored[k]
<1>2. PICK nonce \in Nat : e = EntryOf(k, plain, nonce)
  BY DEF VaultInv
<1>3. k \in VaultKeys /\ plain \in Plains
  BY DEF VaultInv
<1> HIDE DEF e, plain
<1>4. e.value = Encrypt(plain, ValidMaster, nonce) /\ e.value.nonce = nonce
  <2>1. EntryOf(k, plain, nonce).value = Encrypt(plain, ValidMaster, nonce)
    BY DEF EntryOf
  <2>2. Encrypt(plain, ValidMaster, nonce).nonce = nonce
    BY DEF Encrypt
  <2>3. QED BY <1>2, <2>1, <2>2
<1>5. Decrypt(e.value, ValidMaster) = {plain}
  BY <1>3, <1>4, SealedBox
<1> DEFINE r == SerializeRecord(e.key, e.value)
<1>6. OnlyReadAs(r, e)
  <2>1. r = SerializeRecord(e.key, e.value)
    OBVIOUS
  <2> HIDE DEF r, k
  <2>2. nonce \in Nat /\ k \in VaultKeys /\ plain \in Plains /\ e = EntryOf(k, plain, nonce)
    BY <1>2, <1>3
  <2>3. QED BY <2>1, <2>2, RecordRead
<1>7. EncryptRecord(k, plain, master, nonce) = {r}
  BY <1>1, <1>4 DEF EncryptRecord
<1>8. ASSUME NEW key \in VaultKeys
      PROVE  DecryptRecord(r, key, master) = IF key = k THEN {plain} ELSE {}
  <2> HIDE DEF r
  <2>1. DecryptRecord(r, key, master) = UNION {IF x.key = key THEN Decrypt(x.value, master) ELSE {} : x \in {e}}
    BY <1>6 DEF DecryptRecord, OnlyReadAs
  <2>2. QED BY <1>1, <1>5, <2>1
<1>9. \A key \in VaultKeys : DecryptRecord(r, key, master) = IF key = k THEN {stored[key]} ELSE {}
  BY <1>8 DEF plain
<1>10. RecordReadsBack(e)
  BY <1>4, <1>6, <1>7, <1>9 DEF RecordReadsBack, OnlyReadAs, plain
<1>11. QED BY <1>1, <1>5, <1>10 DEF e, plain

LEMMA Removed ==
  ASSUME NEW S, NEW s \in Seq(S), NEW i \in 1 .. Len(s)
  PROVE  /\ RemoveAt(s, i) \in Seq(S) /\ Len(RemoveAt(s, i)) = Len(s) - 1
         /\ \A j \in 1 .. Len(s) - 1 : RemoveAt(s, i)[j] = IF j < i THEN s[j] ELSE s[j + 1]
<1> DEFINE a == SubSeq(s, 1, i - 1)
           b == SubSeq(s, i + 1, Len(s))
<1>1. Len(s) \in Nat /\ i \in Int /\ 1 <= i /\ i <= Len(s)
  OBVIOUS
<1>2. a \in Seq(S) /\ Len(a) = i - 1 /\ \A j \in 1 .. i - 1 : a[j] = s[j]
  <2>1. \A j \in 1 .. i - 1 : s[j] \in S
    BY <1>1
  <2>2. /\ SubSeq(s, 1, i - 1) \in Seq(S)
        /\ Len(SubSeq(s, 1, i - 1)) = IF 1 <= i - 1 THEN i - 1 - 1 + 1 ELSE 0
        /\ \A j \in 1 .. i - 1 - 1 + 1 : SubSeq(s, 1, i - 1)[j] = s[1 + j - 1]
    BY <1>1, <2>1, SubSeqProperties
  <2> HIDE DEF a
  <2>3. QED BY <1>1, <2>2 DEF a
<1>3. b \in Seq(S) /\ Len(b) = Len(s) - i /\ \A j \in 1 .. Len(s) - i : b[j] = s[i + j]
  <2>1. \A j \in i + 1 .. Len(s) : s[j] \in S
    BY <1>1
  <2>2. /\ SubSeq(s, i + 1, Len(s)) \in Seq(S)
        /\ Len(SubSeq(s, i + 1, Len(s))) = IF i + 1 <= Len(s) THEN Len(s) - (i + 1) + 1 ELSE 0
        /\ \A j \in 1 .. Len(s) - (i + 1) + 1 : SubSeq(s, i + 1, Len(s))[j] = s[i + 1 + j - 1]
    BY <1>1, <2>1, SubSeqProperties
  <2> HIDE DEF b
  <2>3. QED BY <1>1, <2>2 DEF b
<1> HIDE DEF a, b
<1>4. /\ a \o b \in Seq(S) /\ Len(a \o b) = Len(a) + Len(b)
      /\ \A j \in 1 .. Len(a) + Len(b) : (a \o b)[j] = IF j <= Len(a) THEN a[j] ELSE b[j - Len(a)]
  BY <1>2, <1>3, ConcatProperties, Zenon
<1>5. RemoveAt(s, i) = a \o b
  BY DEF RemoveAt, a, b
<1> DEFINE t == a \o b
<1> HIDE DEF t
<1>6. t \in Seq(S) /\ Len(t) = Len(s) - 1
  BY <1>1, <1>2, <1>3, <1>4 DEF t
<1>7. ASSUME NEW j \in 1 .. Len(s) - 1 PROVE t[j] = IF j < i THEN s[j] ELSE s[j + 1]
  <2>1. t[j] = IF j <= i - 1 THEN a[j] ELSE b[j - (i - 1)]
    BY <1>1, <1>2, <1>3, <1>4, SMTT(20) DEF t
  <2>2. CASE j < i
    <3>1. j <= i - 1 /\ j \in 1 .. i - 1
      BY <1>1, <2>2
    <3>2. QED BY <1>2, <2>1, <2>2, <3>1
  <2>3. CASE ~(j < i)
    <3>1. ~(j <= i - 1) /\ j - (i - 1) \in 1 .. Len(s) - i /\ i + (j - (i - 1)) = j + 1
      BY <1>1, <2>3
    <3>2. QED BY <1>3, <2>1, <2>3, <3>1
  <2>4. QED BY <2>2, <2>3
<1>8. QED BY <1>5, <1>6, <1>7 DEF t

\* What put does to the entries and to what callers put.
LEMMA VaultPutStep ==
  ASSUME VaultInv, NEW key \in VaultKeys, NEW plain \in Plains, VaultPut(key, plain)
  PROVE  VaultInv'
<1> DEFINE entry == EntryOf(key, plain, drawn + 1)
           f == FindEntry(key)
           n == Len(entries)
<1>1. /\ master = ValidMaster /\ master' = master /\ drawn' = drawn + 1 /\ drawn \in Nat
      /\ stored' = [k \in DOMAIN stored \cup {key} |-> IF k = key THEN plain ELSE stored[k]]
      /\ n \in Nat /\ entries \in Seq(VaultEntries)
  BY DEF VaultInv, VaultPut
<1>2. entry \in VaultEntries /\ entry.key = key
  BY <1>1 DEF VaultEntries, EntryOf
<1>3. entries' = IF f = 0 THEN Append(entries, entry) ELSE [entries EXCEPT ![f] = entry]
  BY DEF VaultPut, PutEntry, EntryOf, ReplaceAt, VaultInv
<1>4. /\ f \in 0 .. n
      /\ f # 0 => entries[f].key = key
      /\ f = 0 => \A i \in 1 .. n : entries[i].key # key
  BY EntryFound
<1>5. /\ \A i \in 1 .. n : /\ entries[i].key \in DOMAIN stored
                           /\ \E nonce \in Nat : entries[i] = EntryOf(entries[i].key, stored[entries[i].key], nonce)
      /\ \A i, j \in 1 .. n : entries[i].key = entries[j].key => i = j
      /\ \A k \in DOMAIN stored : \E i \in 1 .. n : entries[i].key = k
      /\ n = Cardinality(DOMAIN stored)
  BY DEF VaultInv
<1>6. DOMAIN stored \in SUBSET VaultKeys /\ IsFiniteSet(DOMAIN stored) /\ \A k \in DOMAIN stored : stored[k] \in Plains
  BY DEF VaultInv
<1>7. /\ DOMAIN stored' = DOMAIN stored \cup {key} /\ stored'[key] = plain
      /\ \A k \in DOMAIN stored : k # key => stored'[k] = stored[k]
  BY <1>1
<1>8. stored'[key] = plain /\ entry = EntryOf(entry.key, stored'[entry.key], drawn + 1) /\ drawn + 1 \in Nat
  BY <1>1, <1>2, <1>7
<1> HIDE DEF entry, f, n
<1>9. entries' \in Seq(VaultEntries)
  BY <1>1, <1>2, <1>3, <1>4 DEF n
<1>10. CASE f = 0
  <2>1. /\ Len(entries') = n + 1 /\ entries'[n + 1] = entry
        /\ \A i \in 1 .. n : entries'[i] = entries[i]
    BY <1>1, <1>2, <1>3, <1>10 DEF n
  <2>2. key \notin DOMAIN stored
    BY <1>4, <1>5, <1>10
  <2>3. IsFiniteSet(DOMAIN stored') /\ Cardinality(DOMAIN stored') = n + 1
    BY <1>5, <1>6, <1>7, <2>2, FS_AddElement
  <2>4. \A i \in 1 .. n + 1 : i \in 1 .. n \/ i = n + 1
    BY <1>1
  <2>5. ASSUME NEW i \in 1 .. n + 1
        PROVE  /\ entries'[i].key \in DOMAIN stored'
               /\ \E nonce \in Nat : entries'[i] = EntryOf(entries'[i].key, stored'[entries'[i].key], nonce)
    <3>1. CASE i \in 1 .. n
      <4>1. entries'[i] = entries[i] /\ entries[i].key # key /\ entries[i].key \in DOMAIN stored
        BY <1>4, <1>5, <1>10, <2>1, <3>1
      <4>2. stored'[entries[i].key] = stored[entries[i].key]
        BY <1>7, <4>1
      <4>3. PICK nonce \in Nat : entries[i] = EntryOf(entries[i].key, stored[entries[i].key], nonce)
        BY <1>5, <3>1
      <4>4. QED BY <1>7, <4>1, <4>2, <4>3
    <3>2. CASE i = n + 1
      BY <1>2, <1>7, <1>8, <2>1, <3>2
    <3>3. QED BY <2>4, <3>1, <3>2
  <2>6. \A i, j \in 1 .. n + 1 : entries'[i].key = entries'[j].key => i = j
    <3>1. \A i \in 1 .. n : entries'[i].key = entries[i].key /\ entries[i].key # key
      BY <1>4, <1>10, <2>1
    <3>2. entries'[n + 1].key = key
      BY <1>2, <2>1
    <3>3. QED BY <1>5, <2>4, <3>1, <3>2
  <2>7. \A k \in DOMAIN stored' : \E i \in 1 .. n + 1 : entries'[i].key = k
    <3>1. TAKE k \in DOMAIN stored'
    <3>2. CASE k = key
      BY <1>1, <1>2, <2>1, <3>2
    <3>3. CASE k # key
      <4>1. PICK i \in 1 .. n : entries[i].key = k
        BY <1>5, <1>7, <3>3
      <4>2. i \in 1 .. n + 1 /\ entries'[i].key = k
        BY <1>1, <2>1, <4>1
      <4>3. QED BY <4>2
    <3>4. QED BY <3>2, <3>3
  <2>8. DOMAIN stored' \in SUBSET VaultKeys /\ \A k \in DOMAIN stored' : stored'[k] \in Plains
    BY <1>6, <1>7
  <2>9. QED BY <1>1, <1>8, <1>9, <2>1, <2>3, <2>5, <2>6, <2>7, <2>8 DEF VaultInv
<1>11. CASE f # 0
  <2>1. f \in 1 .. n /\ entries[f].key = key
    BY <1>1, <1>4, <1>11
  <2>2. /\ Len(entries') = n /\ entries'[f] = entry
        /\ \A i \in 1 .. n : i # f => entries'[i] = entries[i]
    BY <1>1, <1>3, <1>11, <2>1 DEF n
  <2>3. key \in DOMAIN stored /\ DOMAIN stored' = DOMAIN stored
    BY <1>5, <1>7, <2>1, ZenonT(30)
  <2>4. ASSUME NEW i \in 1 .. n
        PROVE  /\ entries'[i].key = entries[i].key
               /\ entries'[i].key \in DOMAIN stored'
               /\ \E nonce \in Nat : entries'[i] = EntryOf(entries'[i].key, stored'[entries'[i].key], nonce)
    <3>1. CASE i # f
      <4>1. entries'[i] = entries[i] /\ entries[i].key # key /\ entries[i].key \in DOMAIN stored
        BY <1>5, <2>1, <2>2, <3>1
      <4>2. stored'[entries[i].key] = stored[entries[i].key]
        BY <1>7, <4>1
      <4>3. PICK nonce \in Nat : entries[i] = EntryOf(entries[i].key, stored[entries[i].key], nonce)
        BY <1>5
      <4>4. QED BY <1>7, <4>1, <4>2, <4>3
    <3>2. CASE i = f
      BY <1>2, <1>7, <1>8, <2>1, <2>2, <3>2
    <3>3. QED BY <3>1, <3>2
  <2>5. \A i, j \in 1 .. n : entries'[i].key = entries'[j].key => i = j
    BY <1>5, <2>4
  <2>6. \A k \in DOMAIN stored' : \E i \in 1 .. n : entries'[i].key = k
    BY <1>5, <2>3, <2>4
  <2>7. \A k \in DOMAIN stored' : stored'[k] \in Plains
    BY <1>6, <1>7
  <2>8. QED BY <1>1, <1>5, <1>6, <1>8, <1>9, <2>2, <2>3, <2>4, <2>5, <2>6, <2>7 DEF VaultInv
<1>12. QED BY <1>10, <1>11

LEMMA VaultEraseStep ==
  ASSUME VaultInv, NEW key \in VaultKeys, VaultErase(key)
  PROVE  VaultInv'
<1> DEFINE f == FindEntry(key)
           n == Len(entries)
           at(j) == IF j < f THEN j ELSE j + 1
<1>1. /\ f # 0 /\ entries' = RemoveAt(entries, f) /\ stored' = [k \in DOMAIN stored \ {key} |-> stored[k]]
      /\ drawn' = drawn /\ master' = master
  BY DEF VaultErase
<1>2. /\ drawn \in Nat /\ n \in Nat /\ entries \in Seq(VaultEntries)
      /\ DOMAIN stored \in SUBSET VaultKeys /\ IsFiniteSet(DOMAIN stored)
      /\ \A k \in DOMAIN stored : stored[k] \in Plains
      /\ master # ValidMaster => entries = <<>>
  BY DEF VaultInv
<1>3. /\ \A i \in 1 .. n : /\ entries[i].key \in DOMAIN stored
                           /\ \E nonce \in Nat : entries[i] = EntryOf(entries[i].key, stored[entries[i].key], nonce)
      /\ \A i, j \in 1 .. n : entries[i].key = entries[j].key => i = j
      /\ \A k \in DOMAIN stored : \E i \in 1 .. n : entries[i].key = k
      /\ n = Cardinality(DOMAIN stored)
  BY DEF VaultInv
<1>4. f \in 1 .. n /\ entries[f].key = key
  BY <1>1, <1>2, EntryFound
<1> HIDE DEF f
<1>5. /\ entries' \in Seq(VaultEntries) /\ Len(entries') = n - 1
      /\ \A j \in 1 .. n - 1 : entries'[j] = entries[at(j)]
  <2>1. /\ RemoveAt(entries, f) \in Seq(VaultEntries) /\ Len(RemoveAt(entries, f)) = n - 1
        /\ \A j \in 1 .. n - 1 : RemoveAt(entries, f)[j] = IF j < f THEN entries[j] ELSE entries[j + 1]
    BY <1>2, <1>4, Removed
  <2>2. QED BY <1>1, <2>1
<1> HIDE DEF n
<1>6. /\ \A j \in 1 .. n - 1 : at(j) \in 1 .. n /\ at(j) # f
      /\ \A i, j \in 1 .. n - 1 : at(i) = at(j) => i = j
      /\ \A i \in 1 .. n : i # f => \E j \in 1 .. n - 1 : at(j) = i
  <2>1. \A j \in 1 .. n - 1 : at(j) \in 1 .. n /\ at(j) # f
    BY <1>2, <1>4
  <2>2. \A i, j \in 1 .. n - 1 : at(i) = at(j) => i = j
    BY <1>2, <1>4
  <2>3. ASSUME NEW i \in 1 .. n, i # f PROVE \E j \in 1 .. n - 1 : at(j) = i
    <3>1. CASE i < f
      <4>1. i \in 1 .. n - 1 /\ at(i) = i
        BY <1>2, <1>4, <3>1
      <4>2. QED BY <4>1
    <3>2. CASE ~(i < f)
      <4>1. i - 1 \in 1 .. n - 1 /\ at(i - 1) = i
        BY <1>2, <1>4, <2>3, <3>2
      <4>2. QED BY <4>1
    <3>3. QED BY <3>1, <3>2
  <2>4. QED BY <2>1, <2>2, <2>3
<1> HIDE DEF at
<1>7. /\ DOMAIN stored' = DOMAIN stored \ {key}
      /\ \A k \in DOMAIN stored' : stored'[k] = stored[k]
  BY <1>1
<1>8. key \in DOMAIN stored
  BY <1>3, <1>4
<1>9. IsFiniteSet(DOMAIN stored') /\ Cardinality(DOMAIN stored') = n - 1
  <2>1. IsFiniteSet(DOMAIN stored \ {key}) /\ Cardinality(DOMAIN stored \ {key}) = Cardinality(DOMAIN stored) - 1
    BY <1>2, <1>8, FS_RemoveElement
  <2>2. QED BY <1>3, <1>7, <2>1
<1>10. ASSUME NEW j \in 1 .. n - 1
       PROVE  /\ entries'[j].key \in DOMAIN stored'
              /\ \E nonce \in Nat : entries'[j] = EntryOf(entries'[j].key, stored'[entries'[j].key], nonce)
  <2>1. entries'[j] = entries[at(j)] /\ at(j) \in 1 .. n /\ at(j) # f
    BY <1>5, <1>6
  <2>2. entries[at(j)].key # key /\ entries[at(j)].key \in DOMAIN stored
    BY <1>3, <1>4, <2>1
  <2>3. PICK nonce \in Nat : entries[at(j)] = EntryOf(entries[at(j)].key, stored[entries[at(j)].key], nonce)
    BY <1>3, <2>1
  <2>4. QED BY <1>7, <2>1, <2>2, <2>3
<1>11. \A i, j \in 1 .. n - 1 : entries'[i].key = entries'[j].key => i = j
  <2>1. SUFFICES ASSUME NEW i \in 1 .. n - 1, NEW j \in 1 .. n - 1, entries'[i].key = entries'[j].key PROVE i = j
    OBVIOUS
  <2>2. entries[at(i)].key = entries[at(j)].key /\ at(i) \in 1 .. n /\ at(j) \in 1 .. n
    BY <1>5, <1>6, <2>1
  <2>3. at(i) = at(j)
    BY <1>3, <2>2
  <2>4. QED BY <1>6, <2>3
<1>12. ASSUME NEW k \in DOMAIN stored' PROVE \E j \in 1 .. n - 1 : entries'[j].key = k
  <2>1. PICK i \in 1 .. n : entries[i].key = k
    BY <1>3, <1>7
  <2>2. i # f
    BY <1>4, <1>7, <2>1
  <2>3. PICK j \in 1 .. n - 1 : at(j) = i
    BY <1>6, <2>2
  <2>4. QED BY <1>5, <2>1, <2>3
<1>13. master' # ValidMaster => entries' = <<>>
  BY <1>1, <1>2, <1>4 DEF n
<1>14. DOMAIN stored' \in SUBSET VaultKeys /\ \A k \in DOMAIN stored' : stored'[k] \in Plains
  BY <1>2, <1>7
<1>15. QED BY <1>1, <1>2, <1>5, <1>9, <1>10, <1>11, <1>12, <1>13, <1>14, ZenonT(30) DEF VaultInv

LEMMA VaultInvariance == VaultSpec => []VaultInv
<1>1. VaultInit => VaultInv
  <2>1. DOMAIN <<>> = {} /\ <<>> \in Seq(VaultEntries) /\ Len(<<>>) = 0
    OBVIOUS
  <2>2. IsFiniteSet({}) /\ Cardinality({}) = 0
    BY FS_EmptySet
  <2>3. QED BY <2>1, <2>2 DEF VaultInit, VaultInv
<1>2. VaultInv /\ [VaultNext]_vaultVars => VaultInv'
  <2>1. SUFFICES ASSUME VaultInv, [VaultNext]_vaultVars PROVE VaultInv'
    OBVIOUS
  <2>2. CASE UNCHANGED vaultVars
    BY <2>1, <2>2, ZenonT(30) DEF vaultVars, VaultInv
  <2>3. CASE VaultClear
    <3>1. DOMAIN <<>> = {} /\ <<>> \in Seq(VaultEntries) /\ Len(<<>>) = 0
      OBVIOUS
    <3>2. IsFiniteSet({}) /\ Cardinality({}) = 0
      BY FS_EmptySet
    <3>3. drawn' \in Nat /\ entries' = <<>> /\ stored' = <<>>
      BY <2>1, <2>3 DEF VaultClear, VaultInv
    <3>4. QED BY <3>1, <3>2, <3>3 DEF VaultInv
  <2>4. CASE \E key \in VaultKeys : VaultErase(key)
    BY <2>1, <2>4, VaultEraseStep
  <2>5. CASE \E key \in VaultKeys, plain \in Plains : VaultPut(key, plain)
    BY <2>1, <2>5, VaultPutStep
  <2>6. QED BY <2>1, <2>2, <2>3, <2>4, <2>5, Zenon DEF VaultNext
<1>3. QED BY <1>1, <1>2, PTL DEF VaultSpec

\* Every key holds what was last put under it, whatever was put, replaced and
\* erased before, and every entry survives being written as a record.
THEOREM VaultKeepsItsValues == VaultSpec => []VaultReadsBack
<1>1. ASSUME VaultInv PROVE VaultReadsBack
  <2>1. ASSUME NEW key \in VaultKeys PROVE VaultGet(key) = {stored[k] : k \in DOMAIN stored \cap {key}}
    <3> DEFINE f == FindEntry(key)
    <3>1. /\ f \in 0 .. Len(entries)
          /\ f # 0 => entries[f].key = key
          /\ f = 0 => \A i \in 1 .. Len(entries) : entries[i].key # key
      BY <1>1, EntryFound
    <3> HIDE DEF f
    <3>2. CASE f = 0
      <4>1. key \notin DOMAIN stored
        BY <1>1, <3>1, <3>2 DEF VaultInv
      <4>2. QED BY <3>2, <4>1 DEF VaultGet, f
    <3>3. CASE f # 0
      <4>1. f \in 1 .. Len(entries) /\ entries[f].key = key
        BY <1>1, <3>1, <3>3 DEF VaultInv
      <4>2. Decrypt(entries[f].value, master) = {stored[key]} /\ key \in DOMAIN stored /\ master = ValidMaster
        <5>1. Decrypt(entries[f].value, master) = {stored[entries[f].key]}
          BY <1>1, <4>1, EntriesReadBack
        <5>2. QED BY <1>1, <4>1, <5>1 DEF VaultInv
      <4>3. VaultGet(key) = {stored[key]}
        BY <3>3, <4>2, Zenon DEF VaultGet, f
      <4>4. QED BY <4>2, <4>3
    <3>4. QED BY <3>2, <3>3
  <2>2. Len(entries) = Cardinality(DOMAIN stored) /\ (master # ValidMaster => entries = <<>>)
    BY <1>1 DEF VaultInv
  <2>3. \A i \in DOMAIN entries : RecordReadsBack(entries[i])
    <3>1. DOMAIN entries = 1 .. Len(entries)
      BY <1>1 DEF VaultInv
    <3>2. QED BY <1>1, <3>1, EntriesReadBack
  <2>4. QED BY <2>1, <2>2, <2>3 DEF VaultReadsBack
<1>2. QED BY <1>1, VaultInvariance, PTL

-----------------------------------------------------------------------------
(* The line editor: its line.                                              *)

LEMMA LargerOf ==
  ASSUME NEW x \in Int, NEW y \in Int
  PROVE  Max({x, y}) = IF x >= y THEN x ELSE y
<1>1. CASE x >= y
  BY <1>1 DEF Max
<1>2. CASE y > x
  BY <1>2 DEF Max
<1>3. QED BY <1>1, <1>2

LEMMA SmallerOf ==
  ASSUME NEW x \in Int, NEW y \in Int
  PROVE  Min({x, y}) = IF x <= y THEN x ELSE y
<1>1. CASE x <= y
  BY <1>1 DEF Min
<1>2. CASE y < x
  BY <1>2 DEF Min
<1>3. QED BY <1>1, <1>2

EditorSpec == EditorInit /\ [][EditorNext]_editorVars

LineChars == Letters \cup {Nul}
Lines     == [wbuf : [1..MaxLine -> LineChars], shift : Nat, len : Nat, pos : Nat]
LineOK(l) == l \in Lines /\ l.pos <= l.len /\ l.shift + l.len < MaxLine

\* What a line shows, character by character.
Shows(l, text) ==
  /\ text \in Seq(LineChars) /\ Len(text) = l.len
  /\ \A i \in 1..l.len : text[i] = l.wbuf[l.shift + i]

LEMMA TextShown ==
  ASSUME NEW l, LineOK(l)
  PROVE  Shows(l, Text(l))
<1>1. /\ l.wbuf \in [1..MaxLine -> LineChars] /\ l.shift \in Nat /\ l.len \in Nat
      /\ MaxLine \in Nat /\ l.shift + l.len < MaxLine
  BY EditorAssumption DEF LineOK, Lines
<1> DEFINE m == l.shift + 1
           n == l.shift + l.len
<1>2. m \in Int /\ n \in Int /\ \A i \in m..n : l.wbuf[i] \in LineChars
  BY <1>1
<1>3. n - m + 1 = l.len /\ (IF m <= n THEN n - m + 1 ELSE 0) = l.len /\ \A i \in Int : m + i - 1 = l.shift + i
  BY <1>1
<1>4. Text(l) = SubSeq(l.wbuf, m, n)
  BY DEF Text
<1> HIDE DEF m, n
<1>5. /\ SubSeq(l.wbuf, m, n) \in Seq(LineChars)
      /\ Len(SubSeq(l.wbuf, m, n)) = IF m <= n THEN n - m + 1 ELSE 0
      /\ \A i \in 1..n - m + 1 : SubSeq(l.wbuf, m, n)[i] = l.wbuf[m + i - 1]
  BY <1>2, SubSeqProperties
<1>6. \A i \in 1..l.len : i \in 1..n - m + 1 /\ m + i - 1 = l.shift + i
  BY <1>1 DEF m, n
<1>7. QED BY <1>3, <1>4, <1>5, <1>6 DEF Shows

LEMMA ShownIsText ==
  ASSUME NEW l, LineOK(l), NEW text, Shows(l, text)
  PROVE  Text(l) = text
<1>1. Shows(l, Text(l))
  BY TextShown
<1>2. QED BY <1>1, SeqEqual DEF Shows

\* Drawing a line drops what does not fit, from its ends.
Drawn(l, m) ==
  /\ LineOK(m) /\ m.wbuf = l.wbuf /\ l.shift <= m.shift
  /\ LET moved == m.shift - l.shift
     IN  /\ m.pos = l.pos - moved /\ moved + m.len <= l.len
         /\ multi \/ l.len < Room => moved = 0 /\ m.len = l.len
         /\ l.pos = l.len => m.pos = m.len

LEMMA RefreshDraws ==
  ASSUME NEW l, LineOK(l)
  PROVE  Drawn(l, RefreshLine(l))
<1>1. /\ l \in Lines /\ l.shift \in Nat /\ l.len \in Nat /\ l.pos \in Nat /\ l.pos <= l.len /\ l.shift + l.len < MaxLine
      /\ Room \in Nat \ {0} /\ MaxLine \in Nat
  BY EditorAssumption DEF LineOK, Lines
<1>2. CASE multi
  <2>1. RefreshLine(l) = l
    BY <1>2 DEF RefreshLine
  <2>2. QED BY <1>1, <2>1 DEF Drawn, LineOK
<1>3. CASE ~multi
  <2> DEFINE glen == Max({0, l.pos - Room + 1})
             short == Min({l.len - glen, Room})
  <2>1. glen = IF 0 >= l.pos - Room + 1 THEN 0 ELSE l.pos - Room + 1
    BY <1>1, LargerOf
  <2>2. glen \in Nat /\ glen <= l.pos /\ l.pos - glen < Room
    BY <1>1, <2>1
  <2> HIDE DEF glen
  <2>3. short = IF l.len - glen <= Room THEN l.len - glen ELSE Room
    BY <1>1, <2>2, SmallerOf
  <2>4. RefreshLine(l) = [l EXCEPT !.shift = @ + glen, !.pos = @ - glen, !.len = short]
    BY <1>3 DEF RefreshLine, glen
  <2> HIDE DEF short
  <2> DEFINE m == RefreshLine(l)
  <2>5. l.shift + glen \in Nat /\ l.pos - glen \in Nat /\ short \in Nat
    BY <1>1, <2>2, <2>3
  <2>6. m \in Lines /\ m.wbuf = l.wbuf /\ m.shift = l.shift + glen /\ m.pos = l.pos - glen /\ m.len = short
    BY <1>1, <2>4, <2>5 DEF Lines
  <2> HIDE DEF m
  <2>7. m.shift - l.shift = glen /\ m.pos <= m.len /\ m.shift + m.len < MaxLine /\ glen + m.len <= l.len
    BY <1>1, <2>2, <2>3, <2>6
  <2>8. /\ multi \/ l.len < Room => glen = 0 /\ m.len = l.len
        /\ l.pos = l.len => m.pos = m.len
    BY <1>1, <1>3, <2>1, <2>2, <2>3, <2>6
  <2>9. QED BY <1>1, <2>2, <2>6, <2>7, <2>8 DEF Drawn, LineOK, m
<1>4. QED BY <1>2, <1>3

\* A line that is not drawn stays as it is.
LEMMA NotDrawn ==
  ASSUME NEW l, LineOK(l)
  PROVE  Drawn(l, l)
<1>1. l.shift \in Nat /\ l.len \in Nat /\ l.pos \in Nat
  BY DEF LineOK, Lines
<1>2. QED BY <1>1 DEF Drawn

LEMMA DrawnText ==
  ASSUME NEW l, LineOK(l), NEW m, Drawn(l, m), NEW moved, moved = m.shift - l.shift
  PROVE  Text(m) = SubSeq(Text(l), moved + 1, moved + m.len)
<1>1. /\ l.shift \in Nat /\ l.len \in Nat /\ m.len \in Nat /\ m.shift \in Nat
      /\ moved \in Nat /\ moved + m.len <= l.len /\ LineOK(m) /\ m.wbuf = l.wbuf
  BY DEF Drawn, LineOK, Lines
<1> DEFINE text == Text(l)
           piece == SubSeq(text, moved + 1, moved + m.len)
<1>2. Shows(l, text)
  BY TextShown
<1>3. \A i \in moved + 1..moved + m.len : text[i] \in LineChars
  BY <1>1, <1>2 DEF Shows
<1> DEFINE a == moved + 1
           b == moved + m.len
<1>4. a \in Int /\ b \in Int /\ b - a + 1 = m.len /\ (IF a <= b THEN b - a + 1 ELSE 0) = m.len
  BY <1>1
<1>5. \A i \in 1..m.len : a + i - 1 = moved + i /\ moved + i \in 1..l.len /\ l.shift + (moved + i) = m.shift + i
  BY <1>1
<1> HIDE DEF text, a, b
<1>6. /\ SubSeq(text, a, b) \in Seq(LineChars)
      /\ Len(SubSeq(text, a, b)) = IF a <= b THEN b - a + 1 ELSE 0
      /\ \A i \in 1..b - a + 1 : SubSeq(text, a, b)[i] = text[a + i - 1]
  <2>1. \A i \in a..b : text[i] \in LineChars
    BY <1>3 DEF a, b
  <2>2. QED BY <1>4, <2>1, SubSeqProperties
<1>7. Shows(m, SubSeq(text, a, b))
  <2>1. \A i \in 1..m.len : SubSeq(text, a, b)[i] = text[moved + i]
    BY <1>4, <1>5, <1>6
  <2>2. \A i \in 1..m.len : text[moved + i] = m.wbuf[m.shift + i]
    BY <1>1, <1>2, <1>5 DEF Shows
  <2>3. QED BY <1>4, <1>6, <2>1, <2>2 DEF Shows
<1>8. Text(m) = SubSeq(text, a, b)
  BY <1>1, <1>7, ShownIsText
<1>9. QED BY <1>8 DEF text, a, b

\* What a key makes of a line is what is expected of it, if it is that before
\* the line is drawn; of two keys on a line that has moved, all but the text.
AsWanted(l, k, m) ==
  LET want == Expected(k, Text(l), l.pos)
  IN  \/ want = <<Text(m), m.pos>>
      \/ l.shift # 0 /\ k \in {"ctrl-t", "ctrl-k"} /\ want[2] = m.pos /\ Len(want[1]) = m.len

LEMMA ChangesAsWanted ==
  ASSUME LineOK(line), NEW m, LineOK(m), m.shift = line.shift, Drawn(m, line'), AsWanted(line, last_key', m)
  PROVE  LineChanges
<1> DEFINE want  == Expected(last_key', Text(line), line.pos)
           moved == line'.shift - line.shift
<1>1. \/ want = <<Text(m), m.pos>>
      \/ line.shift # 0 /\ last_key' \in {"ctrl-t", "ctrl-k"} /\ want[2] = m.pos /\ Len(want[1]) = m.len
  BY DEF AsWanted
<1> HIDE DEF want
<1>2. Len(Text(m)) = m.len
  BY TextShown DEF Shows
<1>3. /\ want[2] = m.pos /\ Len(want[1]) = m.len
      /\ line.shift = 0 \/ last_key' \notin {"ctrl-t", "ctrl-k"} => want[1] = Text(m)
  <2>1. CASE want = <<Text(m), m.pos>>
    BY <1>2, <2>1
  <2>2. CASE line.shift # 0 /\ last_key' \in {"ctrl-t", "ctrl-k"} /\ want[2] = m.pos /\ Len(want[1]) = m.len
    BY <2>2
  <2>3. QED BY <1>1, <2>1, <2>2
<1>4. Text(line') = SubSeq(Text(m), moved + 1, moved + line'.len)
  BY DrawnText
<1>5. /\ line'.pos = m.pos - moved
      /\ multi \/ m.len < Room => moved = 0 /\ line'.len = m.len
  BY DEF Drawn
<1>6. /\ line'.pos = want[2] - moved
      /\ line.shift = 0 \/ last_key' \notin {"ctrl-t", "ctrl-k"} =>
           Text(line') = SubSeq(want[1], moved + 1, moved + line'.len)
      /\ multi \/ Len(want[1]) < Room => moved = 0 /\ line'.len = Len(want[1])
  BY <1>3, <1>4, <1>5
<1>7. QED BY <1>6 DEF LineChanges, want

\* A line whose text is what a C string of it is, at the start of its buffer.
Clean(l) == l.shift = 0 /\ Text(l) \in Seq(Letters) /\ l.wbuf[l.len + 1] = Nul

Held(l, text, pos, m) ==
  /\ LineOK(m) /\ Text(m) = text /\ m.shift = l.shift /\ m.pos = pos /\ m.len = Len(text)
  /\ l.shift = 0 /\ text \in Seq(Letters) => Clean(m)

LEMMA HoldingShows ==
  ASSUME NEW l, LineOK(l), NEW text \in Seq(LineChars), NEW pos \in 0..Len(text), l.shift + Len(text) < MaxLine
  PROVE  Held(l, text, pos, Holding(l, text, pos))
<1> DEFINE m == Holding(l, text, pos)
<1> DEFINE buf == [i \in 1..MaxLine |-> IF i - l.shift \in DOMAIN text THEN text[i - l.shift]
                                        ELSE IF i = l.shift + Len(text) + 1 THEN Nul ELSE l.wbuf[i]]
<1>1. /\ l \in Lines /\ l.wbuf \in [1..MaxLine -> LineChars] /\ l.shift \in Nat /\ Len(text) \in Nat
      /\ MaxLine \in Nat /\ DOMAIN text = 1..Len(text) /\ pos \in Nat
  BY EditorAssumption DEF LineOK, Lines
<1>2. Nul \in LineChars /\ Letters \subseteq LineChars
  BY DEF LineChars
<1>3. buf \in [1..MaxLine -> LineChars]
  BY <1>1, <1>2
<1>4. \A i \in 1..Len(text) : l.shift + i \in 1..MaxLine /\ (l.shift + i) - l.shift = i
  BY <1>1
<1>5. \A i \in 1..Len(text) : buf[l.shift + i] = text[i]
  BY <1>1, <1>4
<1>6. buf[l.shift + Len(text) + 1] = Nul
  BY <1>1
<1>7. m = [l EXCEPT !.len = Len(text), !.pos = pos, !.wbuf = buf]
  <2>1. DOMAIN l.wbuf = 1..MaxLine
    BY <1>1
  <2>2. QED BY <2>1 DEF Holding
<1> HIDE DEF buf, m
<1>8. m \in Lines /\ m.wbuf = buf /\ m.shift = l.shift /\ m.pos = pos /\ m.len = Len(text)
  BY <1>1, <1>3, <1>7 DEF Lines
<1>9. LineOK(m)
  BY <1>1, <1>8 DEF LineOK
<1>10. Text(m) = text
  <2>1. Shows(m, text)
    BY <1>5, <1>8 DEF Shows
  <2>2. QED BY <1>9, <2>1, ShownIsText
<1>11. l.shift = 0 => m.wbuf[m.len + 1] = Nul
  BY <1>1, <1>6, <1>8
<1>12. QED BY <1>8, <1>9, <1>10, <1>11 DEF Clean, Held, m

\* The first and the last characters of a text.
LEMMA EndsOf ==
  ASSUME NEW T, NEW s \in Seq(T), NEW a \in 0..Len(s)
  PROVE  /\ SubSeq(s, 1, a) \in Seq(T) /\ Len(SubSeq(s, 1, a)) = a
         /\ \A i \in 1..a : SubSeq(s, 1, a)[i] = s[i]
         /\ SubSeq(s, a + 1, Len(s)) \in Seq(T) /\ Len(SubSeq(s, a + 1, Len(s))) = Len(s) - a
         /\ \A i \in 1..Len(s) - a : SubSeq(s, a + 1, Len(s))[i] = s[a + i]
<1> DEFINE n == Len(s)
<1>1. n \in Nat /\ a \in Nat /\ a <= n /\ \A i \in 1..n : s[i] \in T
  OBVIOUS
<1> HIDE DEF n
<1>2. /\ SubSeq(s, 1, a) \in Seq(T) /\ Len(SubSeq(s, 1, a)) = IF 1 <= a THEN a - 1 + 1 ELSE 0
      /\ \A i \in 1..a - 1 + 1 : SubSeq(s, 1, a)[i] = s[1 + i - 1]
  <2>1. 1 \in Int /\ a \in Int /\ \A i \in 1..a : s[i] \in T
    BY <1>1
  <2>2. QED BY <2>1, SubSeqProperties
<1>3. /\ SubSeq(s, a + 1, n) \in Seq(T) /\ Len(SubSeq(s, a + 1, n)) = IF a + 1 <= n THEN n - (a + 1) + 1 ELSE 0
      /\ \A i \in 1..n - (a + 1) + 1 : SubSeq(s, a + 1, n)[i] = s[a + 1 + i - 1]
  <2>1. a + 1 \in Int /\ n \in Int /\ \A i \in a + 1..n : s[i] \in T
    BY <1>1
  <2>2. QED BY <2>1, SubSeqProperties
<1>4. \A i \in 1..a : SubSeq(s, 1, a)[i] = s[i]
  <2>1. \A i \in 1..a : i \in 1..a - 1 + 1 /\ 1 + i - 1 = i
    BY <1>1
  <2>2. QED BY <1>2, <2>1
<1>5. \A i \in 1..n - a : SubSeq(s, a + 1, n)[i] = s[a + i]
  <2>1. \A i \in 1..n - a : i \in 1..n - (a + 1) + 1 /\ a + 1 + i - 1 = a + i
    BY <1>1
  <2>2. QED BY <1>3, <2>1
<1>6. Len(SubSeq(s, 1, a)) = a /\ Len(SubSeq(s, a + 1, n)) = n - a
  BY <1>1, <1>2, <1>3
<1>7. QED BY <1>2, <1>3, <1>4, <1>5, <1>6 DEF n

\* A key does to a line what is expected of it, before the line is drawn.
Wanted(l, k, m) ==
  LineOK(m) /\ m.shift = l.shift /\ (Clean(l) => Clean(m)) /\ AsWanted(l, k, m)

Does(l, k, done) == \E m : Wanted(l, k, m) /\ Drawn(m, done)

LEMMA DrawnAfter ==
  ASSUME NEW l, NEW k, NEW m, Wanted(l, k, m)
  PROVE  Does(l, k, RefreshLine(m)) /\ Does(l, k, m)
<1>1. Drawn(m, RefreshLine(m)) /\ Drawn(m, m)
  BY RefreshDraws, NotDrawn DEF Wanted
<1>2. QED BY <1>1 DEF Does

\* Two pieces of a text, and what is between them.
LEMMA Joined ==
  ASSUME NEW T, NEW s \in Seq(T), NEW a \in 0..Len(s), NEW b \in a..Len(s)
  PROVE  /\ SubSeq(s, 1, a) \o SubSeq(s, b + 1, Len(s)) \in Seq(T)
         /\ Len(SubSeq(s, 1, a) \o SubSeq(s, b + 1, Len(s))) = Len(s) - (b - a)
<1> DEFINE n == Len(s)
           v == SubSeq(s, 1, a)
           w == SubSeq(s, b + 1, n)
<1>1. n \in Nat /\ a \in Nat /\ b \in Nat /\ a <= b /\ b <= n
  OBVIOUS
<1>2. v \in Seq(T) /\ Len(v) = a /\ w \in Seq(T) /\ Len(w) = n - b
  <2>1. a \in 0..Len(s) /\ b \in 0..Len(s)
    BY <1>1
  <2>2. QED BY <2>1, EndsOf
<1> HIDE DEF n, v, w
<1>3. v \o w \in Seq(T) /\ Len(v \o w) = Len(v) + Len(w)
  BY <1>2, ConcatProperties
<1>4. Len(v \o w) = n - (b - a)
  BY <1>1, <1>2, <1>3
<1>5. QED BY <1>3, <1>4 DEF n, v, w

LEMMA LetterDoes ==
  ASSUME NEW l, LineOK(l), NEW k \in Letters, l.len < MaxLine - 1 => l.shift + l.len + 1 < MaxLine
  PROVE  Does(l, k, EditInsert(l, k))
<1> DEFINE text == Text(l)
           v == SubSeq(text, 1, l.pos)
           w == SubSeq(text, l.pos + 1, Len(text))
<1>1. /\ l.len \in Nat /\ l.pos \in Nat /\ l.pos <= l.len /\ l.shift \in Nat /\ MaxLine \in Nat
      /\ l.shift + l.len < MaxLine
  BY EditorAssumption DEF LineOK, Lines
<1>2. text \in Seq(LineChars) /\ Len(text) = l.len
  BY TextShown DEF Shows
<1> HIDE DEF text
<1>3. CASE l.len >= MaxLine - 1
  <2>1. EditInsert(l, k) = l
    BY <1>3 DEF EditInsert
  <2>2. Expected(k, text, l.pos) = <<text, l.pos>>
    <3>1. Len(text) >= MaxLine - 1 /\ ~(Len(text) < MaxLine - 1)
      BY <1>1, <1>2, <1>3
    <3>2. k \notin ControlKeys
      BY EditorAssumption
    <3>3. QED BY <3>1, <3>2 DEF Expected, ControlKeys
  <2>3. Wanted(l, k, l)
    BY <2>2 DEF AsWanted, Wanted, text
  <2>4. QED BY <2>1, <2>3, DrawnAfter
<1>4. CASE l.len < MaxLine - 1
  <2> DEFINE new == v \o <<k>> \o w
             m   == Holding(l, new, l.pos + 1)
  <2>1. l.shift + l.len + 1 < MaxLine
    BY <1>4
  <2>2. \A T : text \in Seq(T) /\ k \in T => new \in Seq(T) /\ Len(new) = l.len + 1
    <3>1. SUFFICES ASSUME NEW T, text \in Seq(T), k \in T PROVE new \in Seq(T) /\ Len(new) = l.len + 1
      OBVIOUS
    <3>2. l.pos \in 0..Len(text)
      BY <1>1, <1>2
    <3>3. v \in Seq(T) /\ Len(v) = l.pos /\ w \in Seq(T) /\ Len(w) = l.len - l.pos
      BY <1>2, <3>1, <3>2, EndsOf
    <3> HIDE DEF v, w
    <3>4. <<k>> \in Seq(T) /\ Len(<<k>>) = 1
      BY <3>1
    <3>5. v \o <<k>> \in Seq(T) /\ Len(v \o <<k>>) = l.pos + 1
      BY <3>3, <3>4, ConcatProperties
    <3>6. new \in Seq(T) /\ Len(new) = Len(v \o <<k>>) + Len(w)
      BY <3>3, <3>5, ConcatProperties
    <3>7. QED BY <1>1, <3>3, <3>5, <3>6
  <2>3. k \in LineChars
    BY DEF LineChars
  <2>4. EditInsert(l, k) = RefreshLine(m)
    <3>1. (l.pos + 1) - 1 = l.pos
      BY <1>1
    <3>2. InsertAt(text, l.pos + 1, k) = new
      BY <3>1 DEF InsertAt
    <3>3. ~(l.len >= MaxLine - 1)
      BY <1>1, <1>4
    <3> HIDE DEF new
    <3>4. QED BY <3>2, <3>3 DEF EditInsert, text
  <2>5. Expected(k, text, l.pos) = <<new, l.pos + 1>>
    <3>1. Len(text) < MaxLine - 1 /\ ~(Len(text) >= MaxLine - 1)
      BY <1>1, <1>2, <1>4
    <3>2. k \notin ControlKeys
      BY EditorAssumption
    <3>3. QED BY <3>1, <3>2 DEF Expected, ControlKeys
  <2> HIDE DEF new
  <2>6. new \in Seq(LineChars) /\ Len(new) = l.len + 1 /\ l.pos + 1 \in 0..Len(new) /\ l.shift + Len(new) < MaxLine
    <3>1. new \in Seq(LineChars) /\ Len(new) = l.len + 1
      BY <1>2, <2>2, <2>3
    <3>2. QED BY <1>1, <2>1, <3>1
  <2>7. Held(l, new, l.pos + 1, m)
    BY <2>6, HoldingShows
  <2> HIDE DEF m
  <2>8. Clean(l) => Clean(m)
    BY <2>2, <2>7 DEF Clean, Held, text
  <2>9. Wanted(l, k, m)
    BY <2>5, <2>7, <2>8 DEF AsWanted, Wanted, Held, text
  <2>10. QED BY <2>4, <2>9, DrawnAfter
<1>5. QED BY <1>1, <1>3, <1>4

\* Cutting characters out of a line.
Without(text, a, b) == SubSeq(text, 1, a) \o SubSeq(text, b + 1, Len(text))

LEMMA CutShows ==
  ASSUME NEW l, LineOK(l), NEW a \in 0..l.len, NEW b \in a..l.len, NEW k,
         Expected(k, Text(l), l.pos) = <<Without(Text(l), a, b), a>>
  PROVE  Wanted(l, k, Holding(l, Without(Text(l), a, b), a))
<1> DEFINE text == Text(l)
           new  == Without(text, a, b)
           m    == Holding(l, new, a)
           n    == Len(new)
<1>1. l.len \in Nat /\ l.shift \in Nat /\ MaxLine \in Nat /\ l.shift + l.len < MaxLine /\ a \in Nat /\ b \in Nat /\ a <= b /\ b <= l.len
  BY EditorAssumption DEF LineOK, Lines
<1>2. text \in Seq(LineChars) /\ Len(text) = l.len
  BY TextShown DEF Shows
<1> HIDE DEF text
<1>3. \A T : text \in Seq(T) => new \in Seq(T) /\ n = l.len - (b - a)
  <2>1. SUFFICES ASSUME NEW T, text \in Seq(T) PROVE new \in Seq(T) /\ Len(new) = l.len - (b - a)
    OBVIOUS
  <2>2. a \in 0..Len(text) /\ b \in a..Len(text)
    BY <1>1, <1>2
  <2>3. /\ SubSeq(text, 1, a) \o SubSeq(text, b + 1, Len(text)) \in Seq(T)
        /\ Len(SubSeq(text, 1, a) \o SubSeq(text, b + 1, Len(text))) = Len(text) - (b - a)
    BY <2>1, <2>2, Joined
  <2>4. QED BY <1>2, <2>3 DEF Without
<1> HIDE DEF new, n
<1>4. new \in Seq(LineChars) /\ n = l.len - (b - a)
  BY <1>2, <1>3
<1>5. a \in 0..n /\ l.shift + n < MaxLine
  BY <1>1, <1>4
<1>6. Held(l, new, a, m)
  BY <1>4, <1>5, HoldingShows DEF n
<1> HIDE DEF m
<1>7. Clean(l) => Clean(m)
  BY <1>3, <1>6 DEF Clean, Held, text
<1>8. Wanted(l, k, m)
  BY <1>6, <1>7 DEF AsWanted, Wanted, Held, text, new
<1>9. QED BY <1>8 DEF m, new, text

LEMMA BackspaceDoes ==
  ASSUME NEW l, LineOK(l)
  PROVE  Does(l, "backspace", EditBackspace(l))
<1> DEFINE text == Text(l)
<1>1. l.len \in Nat /\ l.pos \in Nat /\ l.pos <= l.len
  BY DEF LineOK, Lines
<1>2. "backspace" \notin Letters
  BY EditorAssumption DEF ControlKeys
<1>3. CASE l.pos = 0
  <2>1. EditBackspace(l) = l
    BY <1>3 DEF EditBackspace
  <2>2. Expected("backspace", Text(l), l.pos) = <<Text(l), l.pos>>
    BY <1>2, <1>3 DEF Expected
  <2>3. Wanted(l, "backspace", l)
    BY <2>2 DEF AsWanted, Wanted
  <2>4. QED BY <2>1, <2>3, DrawnAfter
<1>4. CASE l.pos > 0
  <2> DEFINE m == Holding(l, Without(text, l.pos - 1, l.pos), l.pos - 1)
  <2>1. l.pos - 1 \in 0..l.len /\ l.pos \in l.pos - 1..l.len /\ l.pos # 0
    BY <1>1, <1>4
  <2>2. Expected("backspace", text, l.pos) = <<Without(text, l.pos - 1, l.pos), l.pos - 1>>
    BY <1>2, <2>1 DEF Expected, Without
  <2>3. EditBackspace(l) = RefreshLine(m)
    BY <1>4 DEF EditBackspace, RemoveAt, Without
  <2>4. Wanted(l, "backspace", m)
    BY <2>1, <2>2, CutShows
  <2> HIDE DEF m
  <2>5. QED BY <2>3, <2>4, DrawnAfter
<1>5. QED BY <1>1, <1>3, <1>4

\* Nothing is cut out of a text.
LEMMA NothingCut ==
  ASSUME NEW T, NEW s \in Seq(T), NEW a \in 0..Len(s)
  PROVE  SubSeq(s, 1, a) \o SubSeq(s, a + 1, Len(s)) = s
<1>1. 1 \in 1..Len(s) + 1 /\ a \in 1 - 1..Len(s) /\ Len(s) \in a..Len(s)
  OBVIOUS
<1>2. SubSeq(s, 1, a) \o SubSeq(s, a + 1, Len(s)) = SubSeq(s, 1, Len(s))
  BY <1>1, ConcatAdjacentSubSeq
<1>3. QED BY <1>2, SubSeqFull

LEMMA DeleteDoes ==
  ASSUME NEW l, LineOK(l)
  PROVE  Does(l, "ctrl-d", EditDelete(l))
<1> DEFINE text == Text(l)
<1>1. l.len \in Nat /\ l.pos \in Nat /\ l.pos <= l.len
  BY DEF LineOK, Lines
<1>2. text \in Seq(LineChars) /\ Len(text) = l.len
  BY TextShown DEF Shows
<1>3. "ctrl-d" \notin Letters
  BY EditorAssumption DEF ControlKeys
<1> DEFINE b == Min({l.pos + 1, Len(text)})
<1>4. Expected("ctrl-d", text, l.pos) = <<Without(text, l.pos, b), l.pos>>
  BY <1>3 DEF Expected, Without
<1>5. b = IF l.pos + 1 <= l.len THEN l.pos + 1 ELSE l.len
  BY <1>1, <1>2, SmallerOf
<1>6. CASE l.pos = l.len
  <2>1. EditDelete(l) = l
    BY <1>1, <1>6 DEF EditDelete
  <2>2. b = l.pos /\ l.pos \in 0..Len(text)
    BY <1>1, <1>2, <1>5, <1>6
  <2> HIDE DEF text, b
  <2>3. Without(text, l.pos, b) = text
    BY <1>2, <2>2, NothingCut DEF Without
  <2>4. Wanted(l, "ctrl-d", l)
    BY <1>4, <2>3 DEF AsWanted, Wanted, text
  <2>5. QED BY <2>1, <2>4, DrawnAfter
<1>7. CASE l.pos < l.len
  <2> DEFINE m == Holding(l, Without(text, l.pos, b), l.pos)
  <2>1. b = l.pos + 1 /\ l.pos \in 0..l.len /\ b \in l.pos..l.len /\ (l.pos + 1) - 1 = l.pos
    BY <1>1, <1>5, <1>7
  <2> HIDE DEF b
  <2>2. EditDelete(l) = RefreshLine(m)
    <3>1. RemoveAt(text, l.pos + 1) = Without(text, l.pos, b)
      BY <2>1 DEF RemoveAt, Without
    <3>2. QED BY <1>7, <3>1 DEF EditDelete
  <2>3. Wanted(l, "ctrl-d", m)
    BY <1>4, <2>1, CutShows
  <2> HIDE DEF m
  <2>4. QED BY <2>2, <2>3, DrawnAfter
<1>8. QED BY <1>1, <1>6, <1>7

LEMMA MovedDoes ==
  ASSUME NEW l, LineOK(l), NEW k, NEW pos \in 0..l.len, Expected(k, Text(l), l.pos) = <<Text(l), pos>>
  PROVE  Does(l, k, MovedTo(l, pos))
<1> DEFINE m == [l EXCEPT !.pos = pos]
<1>1. /\ l \in Lines /\ l.len \in Nat /\ l.pos \in Nat /\ l.shift \in Nat /\ l.shift + l.len < MaxLine
      /\ pos \in Nat /\ pos <= l.len
  BY DEF LineOK, Lines
<1>2. m \in Lines /\ m.wbuf = l.wbuf /\ m.shift = l.shift /\ m.len = l.len /\ m.pos = pos
  BY <1>1 DEF Lines
<1> HIDE DEF m
<1>3. LineOK(m) /\ Text(m) = Text(l) /\ (Clean(l) => Clean(m))
  BY <1>1, <1>2 DEF LineOK, Text, Clean
<1>4. Wanted(l, k, m)
  BY <1>2, <1>3 DEF AsWanted, Wanted
<1>5. CASE l.pos = pos
  <2>1. MovedTo(l, pos) = l
    BY <1>5 DEF MovedTo
  <2>2. Wanted(l, k, l)
    BY <1>5 DEF AsWanted, Wanted
  <2>3. QED BY <2>1, <2>2, DrawnAfter
<1>6. CASE l.pos # pos
  <2>1. MovedTo(l, pos) = RefreshLine(m)
    BY <1>6 DEF MovedTo, m
  <2>2. QED BY <1>4, <2>1, DrawnAfter
<1>7. QED BY <1>5, <1>6

LEMMA MovesDo ==
  ASSUME NEW l, LineOK(l)
  PROVE  /\ Does(l, "left", EditMoveLeft(l)) /\ Does(l, "right", EditMoveRight(l))
         /\ Does(l, "home", EditMoveHome(l)) /\ Does(l, "end", EditMoveEnd(l))
<1> DEFINE left  == Max({l.pos - 1, 0})
           right == Min({l.pos + 1, l.len})
<1>1. l.len \in Nat /\ l.pos \in Nat /\ l.pos <= l.len
  BY DEF LineOK, Lines
<1>2. Len(Text(l)) = l.len
  BY TextShown DEF Shows
<1>3. left \in 0..l.len /\ right \in 0..l.len
  <2>1. left = IF l.pos - 1 >= 0 THEN l.pos - 1 ELSE 0
    BY <1>1, LargerOf
  <2>2. right = IF l.pos + 1 <= l.len THEN l.pos + 1 ELSE l.len
    BY <1>1, SmallerOf
  <2> HIDE DEF left, right
  <2>3. QED BY <1>1, <2>1, <2>2
<1>4. {"left", "right", "home", "end"} \cap Letters = {}
  BY EditorAssumption DEF ControlKeys
<1>5. /\ Expected("left", Text(l), l.pos) = <<Text(l), left>>
      /\ Expected("right", Text(l), l.pos) = <<Text(l), right>>
      /\ Expected("home", Text(l), l.pos) = <<Text(l), 0>>
      /\ Expected("end", Text(l), l.pos) = <<Text(l), l.len>>
  BY <1>2, <1>4 DEF Expected
<1> HIDE DEF left, right
<1>6. /\ Does(l, "left", MovedTo(l, left)) /\ Does(l, "right", MovedTo(l, right))
      /\ Does(l, "home", MovedTo(l, 0)) /\ Does(l, "end", MovedTo(l, l.len))
  <2>1. 0 \in 0..l.len /\ l.len \in 0..l.len
    BY <1>1
  <2>2. QED BY <1>3, <1>5, <2>1, MovedDoes
<1>7. QED BY <1>6 DEF EditMoveLeft, EditMoveRight, EditMoveHome, EditMoveEnd, left, right

LEMMA SwapDoes ==
  ASSUME NEW l, LineOK(l)
  PROVE  Does(l, "ctrl-t", SwapPrevious(l))
<1> DEFINE text == Text(l)
           a == l.pos
           n == l.len
           b == IF a = n - 1 THEN a ELSE a + 1
           m == [l EXCEPT !.wbuf[a] = l.wbuf[a + 1], !.wbuf[a + 1] = l.wbuf[a],
                          !.pos = IF @ = l.len - 1 THEN @ ELSE @ + 1]
           new == [text EXCEPT ![a] = text[a + 1], ![a + 1] = text[a]]
<1>1. /\ l \in Lines /\ n \in Nat /\ a \in Nat /\ a <= n /\ l.shift \in Nat /\ l.shift + n < MaxLine
      /\ MaxLine \in Nat /\ l.wbuf \in [1..MaxLine -> LineChars]
  BY EditorAssumption DEF LineOK, Lines
<1>2. Shows(l, text)
  BY TextShown
<1>3. "ctrl-t" \notin Letters
  BY EditorAssumption DEF ControlKeys
<1>4. CASE ~(0 < a /\ a < n)
  <2>1. SwapPrevious(l) = l
    BY <1>4 DEF SwapPrevious
  <2>2. a \notin 1..(Len(text) - 1)
    BY <1>1, <1>2, <1>4 DEF Shows
  <2>3. Expected("ctrl-t", text, a) = <<text, a>>
    BY <1>3, <2>2 DEF Expected
  <2>4. Wanted(l, "ctrl-t", l)
    BY <2>3 DEF AsWanted, Wanted
  <2>5. QED BY <2>1, <2>4, DrawnAfter
<1>5. CASE 0 < a /\ a < n
  <2>1. SwapPrevious(l) = RefreshLine(m)
    BY <1>5 DEF SwapPrevious
  <2> DEFINE buf == [l.wbuf EXCEPT ![a] = l.wbuf[a + 1], ![a + 1] = l.wbuf[a]]
  <2>2. a \in 1..MaxLine /\ a + 1 \in 1..MaxLine
    BY <1>1, <1>5
  <2>3. buf \in [1..MaxLine -> LineChars]
    BY <1>1, <2>2
  <2>4. \A i \in 1..MaxLine : buf[i] = IF i = a + 1 THEN l.wbuf[a] ELSE IF i = a THEN l.wbuf[a + 1] ELSE l.wbuf[i]
    BY <1>1, <2>2
  <2>5. m = [l EXCEPT !.wbuf = buf, !.pos = b]
    BY <1>1 DEF Lines
  <2>6. b \in Nat /\ b <= n
    BY <1>1, <1>5
  <2> HIDE DEF buf, b, m
  <2>7. m \in Lines /\ m.wbuf = buf /\ m.shift = l.shift /\ m.len = n /\ m.pos = b
    BY <1>1, <2>3, <2>5, <2>6 DEF Lines
  <2>8. LineOK(m)
    BY <1>1, <2>6, <2>7 DEF LineOK
  <2>9. l.shift = 0 =>
          /\ Text(m) = new /\ m.wbuf[m.len + 1] = l.wbuf[n + 1]
          /\ \A T : text \in Seq(T) => new \in Seq(T)
    <3>1. SUFFICES ASSUME l.shift = 0
                   PROVE  /\ Text(m) = new /\ m.wbuf[m.len + 1] = l.wbuf[n + 1]
                          /\ \A T : text \in Seq(T) => new \in Seq(T)
      OBVIOUS
    <3>2. text \in Seq(LineChars) /\ Len(text) = n /\ \A i \in 1..n : text[i] = l.wbuf[i]
      BY <1>1, <1>2, <3>1 DEF Shows
    <3>3. a \in 1..n /\ a + 1 \in 1..n
      BY <1>1, <1>5
    <3> HIDE DEF text
    <3>4. \A T : text \in Seq(T) => new \in Seq(T) /\ Len(new) = n
      BY <3>2, <3>3
    <3>5. \A i \in 1..n : new[i] = IF i = a + 1 THEN text[a] ELSE IF i = a THEN text[a + 1] ELSE text[i]
      BY <3>2, <3>3
    <3> HIDE DEF new
    <3>6. \A i \in 1..n : new[i] = buf[i]
      BY <1>1, <2>4, <3>2, <3>3, <3>5, SMTT(20)
    <3>7. Shows(m, new)
      BY <1>1, <2>7, <3>1, <3>2, <3>4, <3>6 DEF Shows
    <3>8. Text(m) = new
      BY <2>8, <3>7, ShownIsText
    <3>9. n + 1 \in 1..MaxLine /\ n + 1 # a + 1 /\ n + 1 # a
      BY <1>1, <1>5, <3>1
    <3>10. m.wbuf[m.len + 1] = l.wbuf[n + 1]
      BY <2>4, <2>7, <3>9
    <3>11. QED BY <3>4, <3>8, <3>10
  <2>10. Clean(l) => Clean(m)
    <3>1. Clean(l) => l.shift = 0 /\ text \in Seq(Letters) /\ l.wbuf[n + 1] = Nul
      BY DEF Clean
    <3> HIDE DEF text, new
    <3>2. Clean(l) => m.shift = 0 /\ Text(m) \in Seq(Letters) /\ m.wbuf[m.len + 1] = Nul
      BY <2>7, <2>9, <3>1
    <3>3. QED BY <3>2 DEF Clean
  <2>11. Expected("ctrl-t", text, a) = <<new, b>>
    <3>1. a \in 1..(Len(text) - 1) /\ Len(text) = n
      BY <1>1, <1>2, <1>5 DEF Shows
    <3>2. Min({a + 1, Len(text) - 1}) = b
      <4>1. Min({a + 1, n - 1}) = IF a + 1 <= n - 1 THEN a + 1 ELSE n - 1
        <5>1. a + 1 \in Int /\ n - 1 \in Int
          BY <1>1
        <5>2. QED BY <5>1, SmallerOf
      <4>2. QED BY <1>1, <1>5, <3>1, <4>1 DEF b
    <3>3. QED BY <1>3, <3>1, <3>2 DEF Expected
  <2>12. Len(new) = n
    BY <1>2 DEF Shows
  <2> HIDE DEF text, new
  <2>13. AsWanted(l, "ctrl-t", m)
    BY <2>7, <2>9, <2>11, <2>12 DEF AsWanted, text
  <2>14. Wanted(l, "ctrl-t", m)
    BY <2>7, <2>8, <2>10, <2>13 DEF Wanted
  <2>15. QED BY <2>1, <2>14, DrawnAfter
<1>6. QED BY <1>4, <1>5

\* A line that is cut off at buf + len, if at the start of its buffer.
LEMMA CutOffDoes ==
  ASSUME NEW l, LineOK(l), NEW k \in {"ctrl-u", "ctrl-k"}, NEW n \in 0..l.len, k = "ctrl-u" => n = 0,
         Expected(k, Text(l), l.pos) = <<SubSeq(Text(l), 1, n), n>>
  PROVE  Does(l, k, RefreshLine([l EXCEPT !.wbuf[n + 1] = Nul, !.pos = n, !.len = n]))
<1> DEFINE m    == [l EXCEPT !.wbuf[n + 1] = Nul, !.pos = n, !.len = n]
           buf  == [l.wbuf EXCEPT ![n + 1] = Nul]
           text == Text(l)
           new  == SubSeq(text, 1, n)
<1>1. /\ l \in Lines /\ l.len \in Nat /\ l.shift \in Nat /\ l.shift + l.len < MaxLine
      /\ n \in Nat /\ n <= l.len /\ MaxLine \in Nat /\ l.wbuf \in [1..MaxLine -> LineChars] /\ Nul \in LineChars
  BY EditorAssumption DEF LineOK, Lines, LineChars
<1>2. n + 1 \in 1..MaxLine
  BY <1>1
<1>3. buf \in [1..MaxLine -> LineChars] /\ buf[n + 1] = Nul /\ \A i \in 1..n : buf[i] = l.wbuf[i]
  BY <1>1, <1>2
<1>4. m = [l EXCEPT !.wbuf = buf, !.pos = n, !.len = n]
  BY <1>1 DEF Lines
<1> HIDE DEF m, buf
<1>5. m \in Lines /\ m.wbuf = buf /\ m.shift = l.shift /\ m.len = n /\ m.pos = n
  BY <1>1, <1>3, <1>4 DEF Lines
<1>6. LineOK(m)
  BY <1>1, <1>5 DEF LineOK
<1>7. Shows(l, text)
  BY TextShown
<1>8. n \in 0..Len(text)
  BY <1>1, <1>7 DEF Shows
<1> HIDE DEF text
<1>9. \A T : text \in Seq(T) => new \in Seq(T) /\ Len(new) = n /\ \A i \in 1..n : new[i] = text[i]
  BY <1>8, EndsOf
<1> HIDE DEF new
<1>10. l.shift = 0 \/ n = 0 => Text(m) = new
  <2>1. SUFFICES ASSUME l.shift = 0 \/ n = 0 PROVE Text(m) = new
    OBVIOUS
  <2>2. \A i \in 1..n : i \in 1..l.len /\ l.shift + i = i /\ m.shift + i = i
    BY <1>1, <1>5, <2>1
  <2>3. text \in Seq(LineChars) /\ \A i \in 1..n : text[i] = l.wbuf[i]
    BY <1>7, <2>2 DEF Shows
  <2>4. new \in Seq(LineChars) /\ Len(new) = n /\ \A i \in 1..n : new[i] = l.wbuf[i]
    BY <1>9, <2>3
  <2>5. Shows(m, new)
    BY <1>3, <1>5, <2>2, <2>4 DEF Shows
  <2>6. QED BY <1>6, <2>5, ShownIsText
<1>11. Clean(l) => Clean(m)
  <2>1. Clean(l) => l.shift = 0 /\ text \in Seq(Letters)
    BY DEF Clean, text
  <2>2. Clean(l) => Text(m) \in Seq(Letters)
    BY <1>9, <1>10, <2>1
  <2>3. m.wbuf[m.len + 1] = Nul
    BY <1>3, <1>5
  <2>4. QED BY <1>5, <2>1, <2>2, <2>3 DEF Clean
<1>12. Wanted(l, k, m)
  <2>1. CASE l.shift = 0 \/ n = 0
    BY <1>5, <1>6, <1>10, <1>11, <2>1 DEF AsWanted, Wanted, text, new
  <2>2. CASE l.shift # 0 /\ n # 0
    <3>1. k = "ctrl-k" /\ Len(new) = n
      BY <1>7, <1>9, <2>2 DEF Shows
    <3>2. QED BY <1>5, <1>6, <1>11, <2>2, <3>1 DEF AsWanted, Wanted, text, new
  <2>3. QED BY <2>1, <2>2
<1>13. Does(l, k, RefreshLine(m))
  BY <1>12, DrawnAfter
<1>14. QED BY <1>13 DEF m

LEMMA CutsDo ==
  ASSUME NEW l, LineOK(l)
  PROVE  Does(l, "ctrl-u", DeleteLine(l)) /\ Does(l, "ctrl-k", DeleteToEnd(l))
<1>1. l.len \in Nat /\ l.pos \in Nat /\ l.pos <= l.len
  BY DEF LineOK, Lines
<1>2. {"ctrl-u", "ctrl-k"} \cap Letters = {}
  BY EditorAssumption DEF ControlKeys
<1>3. Expected("ctrl-u", Text(l), l.pos) = <<SubSeq(Text(l), 1, 0), 0>>
  <2>1. SubSeq(Text(l), 1, 0) = <<>>
    BY SubSeqEmpty
  <2>2. QED BY <1>2, <2>1 DEF Expected
<1>4. Expected("ctrl-k", Text(l), l.pos) = <<SubSeq(Text(l), 1, l.pos), l.pos>>
  BY <1>2 DEF Expected
<1>5. Does(l, "ctrl-u", RefreshLine([l EXCEPT !.wbuf[0 + 1] = Nul, !.pos = 0, !.len = 0]))
  <2>1. 0 \in 0..l.len
    BY <1>1
  <2>2. QED BY <1>3, <2>1, CutOffDoes
<1>6. Does(l, "ctrl-k", RefreshLine([l EXCEPT !.wbuf[l.pos + 1] = Nul, !.pos = l.pos, !.len = l.pos]))
  <2>1. l.pos \in 0..l.len
    BY <1>1
  <2>2. QED BY <1>4, <2>1, CutOffDoes
<1>7. DeleteLine(l) = RefreshLine([l EXCEPT !.wbuf[0 + 1] = Nul, !.pos = 0, !.len = 0])
  <2>1. 0 + 1 = 1
    OBVIOUS
  <2>2. QED BY <2>1 DEF DeleteLine
<1>8. DeleteToEnd(l) = RefreshLine([l EXCEPT !.wbuf[l.pos + 1] = Nul, !.pos = l.pos, !.len = l.pos])
  <2>1. [l EXCEPT !.wbuf[l.pos + 1] = Nul, !.len = l.pos] = [l EXCEPT !.wbuf[l.pos + 1] = Nul, !.pos = l.pos, !.len = l.pos]
    <3>1. l \in Lines
      BY DEF LineOK
    <3>2. QED BY <3>1 DEF Lines
  <2>2. QED BY <2>1 DEF DeleteToEnd
<1>9. QED BY <1>5, <1>6, <1>7, <1>8

\* What is cut behind the last character of a word is cut at its start, too.
LEMMA WordStart ==
  ASSUME NEW text, NEW pos \in Nat, NEW word, word = Max({0} \cup {i \in 1..pos : text[i] # Gap})
  PROVE  /\ Max({0} \cup {i \in 1..word : text[i] = Gap})
              = Max({0} \cup {q \in 1..(pos - 1) : text[q] = Gap /\ text[q + 1] # Gap})
         /\ Max({0} \cup {i \in 1..word : text[i] = Gap}) \in 0..pos
<1> DEFINE W == {0} \cup {i \in 1..pos : text[i] # Gap}
           S == {0} \cup {i \in 1..word : text[i] = Gap}
           Q == {0} \cup {q \in 1..(pos - 1) : text[q] = Gap /\ text[q + 1] # Gap}
<1>1. word \in W /\ \A i \in W : i <= word
  <2>1. W \in SUBSET (0..pos) /\ W # {}
    OBVIOUS
  <2>2. \E x \in W : \A y \in W : x >= y
    <3> HIDE DEF W
    <3>1. QED BY <2>1, GreatestOf
  <2>3. word \in W /\ \A y \in W : word >= y
    BY <2>2 DEF Max
  <2>4. QED BY <2>1, <2>3
<1>2. word \in 0..pos
  BY <1>1
<1> DEFINE start == Max(S)
<1>3. start \in S /\ \A i \in S : i <= start
  <2>1. S \in SUBSET (0..pos) /\ S # {}
    BY <1>2
  <2>2. \E x \in S : \A y \in S : x >= y
    <3> HIDE DEF S
    <3>1. QED BY <2>1, GreatestOf
  <2>3. start \in S /\ \A y \in S : start >= y
    <3> HIDE DEF S
    <3>1. QED BY <2>2 DEF Max
  <2>4. QED BY <2>1, <2>3
<1> HIDE DEF start
<1>4. start \in 0..pos /\ start <= word
  BY <1>2, <1>3
<1>5. start \in Q
  <2>1. CASE start = 0
    BY <2>1
  <2>2. CASE start # 0
    <3>1. start \in 1..word /\ text[start] = Gap /\ text[word] # Gap /\ start # word /\ start + 1 \in 1..word
      BY <1>1, <1>2, <1>3, <2>2
    <3>2. text[start + 1] # Gap
      <4>1. start + 1 \notin S
        BY <1>3, <1>4
      <4>2. QED BY <3>1, <4>1
    <3>3. QED BY <1>2, <3>1, <3>2
  <2>3. QED BY <2>1, <2>2
<1>6. \A q \in Q : q <= start
  <2>1. SUFFICES ASSUME NEW q \in 1..(pos - 1), text[q] = Gap, text[q + 1] # Gap PROVE q <= start
    BY <1>4
  <2>2. q + 1 \in W
    BY <2>1
  <2>3. q \in 1..word
    BY <1>1, <1>2, <2>2
  <2>4. QED BY <1>3, <2>1, <2>3
<1>7. Q \subseteq Nat
  OBVIOUS
<1> HIDE DEF Q
<1>8. Max(Q) = start
  <2>1. \A q \in Q : start >= q
    BY <1>4, <1>6, <1>7
  <2>2. Max(Q) \in Q /\ \A q \in Q : Max(Q) >= q
    BY <1>5, <2>1 DEF Max
  <2>3. Max(Q) >= start /\ start >= Max(Q) /\ Max(Q) \in Nat /\ start \in Nat
    BY <1>5, <1>7, <2>1, <2>2
  <2>4. QED BY <2>3
<1>9. QED BY <1>4, <1>8 DEF Q, start, S

LEMMA PrevWordDoes ==
  ASSUME NEW l, LineOK(l)
  PROVE  Does(l, "ctrl-w", EditDeletePrevWord(l))
<1> DEFINE text == Text(l)
           p    == l.pos
           n    == l.len
           h    == l.shift
           word == Max({0} \cup {i \in 1..p : text[i] # Gap})
           q    == Max({0} \cup {i \in 1..word : text[i] = Gap})
           rest == SubSeq(l.wbuf, h + p + 1, h + n + 1)
           buf  == [i \in 1..MaxLine |-> IF i - h - q \in DOMAIN rest THEN rest[i - h - q] ELSE l.wbuf[i]]
           m    == [l EXCEPT !.pos = q, !.len = n - (p - q), !.wbuf = buf]
           new  == Without(text, q, p)
<1>1. /\ l \in Lines /\ n \in Nat /\ p \in Nat /\ p <= n /\ h \in Nat /\ h + n < MaxLine
      /\ MaxLine \in Nat /\ l.wbuf \in [1..MaxLine -> LineChars]
  BY EditorAssumption DEF LineOK, Lines
<1>2. EditDeletePrevWord(l) = RefreshLine(m)
  <2>1. DOMAIN l.wbuf = 1..MaxLine
    BY <1>1
  <2>2. QED BY <2>1 DEF EditDeletePrevWord
<1>3. Expected("ctrl-w", text, p) = <<new, q>> /\ q \in 0..p
  <2> DEFINE before == Max({0} \cup {i \in 1..(p - 1) : text[i] = Gap /\ text[i + 1] # Gap})
  <2>1. q = before /\ q \in 0..p
    <3> HIDE DEF text, p
    <3>1. p \in Nat
      BY <1>1
    <3>2. QED BY <3>1, WordStart
  <2>2. "ctrl-w" \notin Letters
    BY EditorAssumption DEF ControlKeys
  <2>3. Expected("ctrl-w", text, p) = <<Without(text, before, p), before>>
    BY <2>2 DEF Expected, Without
  <2> HIDE DEF before, q
  <2>4. QED BY <2>1, <2>3
<1>4. Shows(l, text)
  BY TextShown
<1> HIDE DEF text, q, word
<1>5. /\ rest \in Seq(LineChars) /\ Len(rest) = n - p + 1
      /\ \A i \in 1..n - p + 1 : rest[i] = l.wbuf[h + p + i]
  <2> DEFINE a == h + p + 1
             b == h + n + 1
  <2>1. a \in Int /\ b \in Int /\ b - a + 1 = n - p + 1 /\ (IF a <= b THEN b - a + 1 ELSE 0) = n - p + 1
    BY <1>1
  <2>2. \A i \in a..b : l.wbuf[i] \in LineChars
    BY <1>1
  <2>3. \A i \in 1..n - p + 1 : a + i - 1 = h + p + i
    BY <1>1
  <2> HIDE DEF a, b
  <2>4. /\ SubSeq(l.wbuf, a, b) \in Seq(LineChars)
        /\ Len(SubSeq(l.wbuf, a, b)) = IF a <= b THEN b - a + 1 ELSE 0
        /\ \A i \in 1..b - a + 1 : SubSeq(l.wbuf, a, b)[i] = l.wbuf[a + i - 1]
    BY <2>1, <2>2, SubSeqProperties
  <2>5. rest = SubSeq(l.wbuf, a, b)
    BY DEF a, b
  <2> HIDE DEF rest
  <2>6. QED BY <2>1, <2>3, <2>4, <2>5
<1>6. DOMAIN rest = 1..n - p + 1 /\ \A i \in 1..n - p + 1 : rest[i] \in LineChars
  <2> HIDE DEF rest
  <2>1. QED BY <1>1, <1>5
<1> HIDE DEF rest
<1>7. buf \in [1..MaxLine -> LineChars]
  BY <1>1, <1>6
<1>8. /\ \A i \in 1..q : buf[h + i] = l.wbuf[h + i]
      /\ \A i \in 1..n - p + 1 : buf[h + q + i] = l.wbuf[h + p + i]
  <2>1. \A i \in 1..q : h + i \in 1..MaxLine /\ (h + i) - h - q \notin 1..n - p + 1
    BY <1>1, <1>3
  <2>2. \A i \in 1..n - p + 1 : h + q + i \in 1..MaxLine /\ (h + q + i) - h - q = i
    BY <1>1, <1>3, SMTT(20)
  <2>3. \A i \in 1..q : buf[h + i] = l.wbuf[h + i]
    BY <1>6, <2>1
  <2>4. \A i \in 1..n - p + 1 : buf[h + q + i] = rest[i]
    BY <1>6, <2>2
  <2> HIDE DEF buf
  <2>5. QED BY <1>5, <2>3, <2>4
<1> HIDE DEF buf
<1>9. n - (p - q) \in Nat /\ q \in Nat /\ q <= n - (p - q) /\ h + (n - (p - q)) < MaxLine
  BY <1>1, <1>3
<1>10. m \in Lines /\ m.wbuf = buf /\ m.shift = h /\ m.pos = q /\ m.len = n - (p - q)
  BY <1>1, <1>7, <1>9 DEF Lines
<1> HIDE DEF m
<1>11. LineOK(m)
  BY <1>9, <1>10 DEF LineOK
<1>12. \A T : text \in Seq(T) =>
         /\ new \in Seq(T) /\ Len(new) = n - (p - q)
         /\ \A i \in 1..n - (p - q) : new[i] = IF i <= q THEN text[i] ELSE text[p + (i - q)]
  <2>1. SUFFICES ASSUME NEW T, text \in Seq(T)
                 PROVE  /\ new \in Seq(T) /\ Len(new) = n - (p - q)
                        /\ \A i \in 1..n - (p - q) : new[i] = IF i <= q THEN text[i] ELSE text[p + (i - q)]
    OBVIOUS
  <2> DEFINE v == SubSeq(text, 1, q)
             w == SubSeq(text, p + 1, Len(text))
  <2>2. Len(text) = n /\ q \in 0..Len(text) /\ p \in 0..Len(text)
    BY <1>1, <1>3, <1>4 DEF Shows
  <2>3. v \in Seq(T) /\ Len(v) = q /\ \A i \in 1..q : v[i] = text[i]
    BY <2>1, <2>2, EndsOf
  <2>4. w \in Seq(T) /\ Len(w) = n - p /\ \A i \in 1..n - p : w[i] = text[p + i]
    BY <2>1, <2>2, EndsOf, SMTT(20)
  <2>5. new = v \o w
    BY DEF Without
  <2> HIDE DEF v, w, new
  <2>6. /\ v \o w \in Seq(T) /\ Len(v \o w) = Len(v) + Len(w)
        /\ \A i \in 1..Len(v) + Len(w) : (v \o w)[i] = IF i <= Len(v) THEN v[i] ELSE w[i - Len(v)]
    BY <2>3, <2>4, ConcatProperties
  <2>7. q + (n - p) = n - (p - q)
    BY <1>1, <1>3
  <2>8. \A i \in 1..n - (p - q) : i <= q => i \in 1..q
    BY <1>9
  <2>9. \A i \in 1..n - (p - q) : ~(i <= q) => i - q \in 1..n - p
    BY <1>1, <1>3
  <2>10. \A i \in 1..n - (p - q) : new[i] = IF i <= q THEN v[i] ELSE w[i - q]
    BY <2>3, <2>4, <2>5, <2>6, <2>7
  <2>11. QED BY <2>3, <2>4, <2>5, <2>6, <2>7, <2>8, <2>9, <2>10
<1> HIDE DEF new
<1>13. Text(m) = new
  <2>1. text \in Seq(LineChars) /\ \A i \in 1..n : text[i] = l.wbuf[h + i]
    BY <1>4 DEF Shows
  <2>2. \A i \in 1..n - (p - q) : new[i] = buf[h + i]
    <3>1. TAKE i \in 1..n - (p - q)
    <3>2. new[i] = IF i <= q THEN text[i] ELSE text[p + (i - q)]
      BY <1>12, <2>1
    <3>3. CASE i <= q
      <4>1. i \in 1..q /\ i \in 1..n
        BY <1>1, <1>3, <3>3
      <4>2. QED BY <1>8, <2>1, <3>2, <3>3, <4>1
    <3>4. CASE ~(i <= q)
      <4> DEFINE j == i - q
      <4>1. j \in 1..n - p + 1 /\ p + j \in 1..n /\ h + q + j = h + i /\ h + (p + j) = h + p + j
        <5>1. i \in Nat /\ q \in Nat /\ q < i /\ i <= n - (p - q)
          BY <1>9, <3>4
        <5>2. j \in Nat /\ 1 <= j /\ j <= n - p
          BY <1>1, <5>1
        <5>3. h + q + j = h + i
          BY <1>1, <5>1
        <5> HIDE DEF j
        <5>4. QED BY <1>1, <5>2, <5>3, SMTT(20)
      <4>2. new[i] = text[p + j]
        BY <3>2, <3>4
      <4> HIDE DEF j
      <4>3. text[p + j] = l.wbuf[h + p + j] /\ buf[h + q + j] = l.wbuf[h + p + j]
        BY <1>8, <2>1, <4>1
      <4>4. QED BY <4>1, <4>2, <4>3
    <3>5. QED BY <3>3, <3>4
  <2>3. Shows(m, new)
    BY <1>10, <1>12, <2>1, <2>2 DEF Shows
  <2>4. QED BY <1>11, <2>3, ShownIsText
<1>14. Clean(l) => Clean(m)
  <2>1. SUFFICES ASSUME Clean(l) PROVE Clean(m)
    OBVIOUS
  <2>2. h = 0 /\ text \in Seq(Letters) /\ l.wbuf[n + 1] = Nul
    BY <2>1 DEF Clean, text
  <2> DEFINE j == n - p + 1
  <2>3. j \in 1..n - p + 1 /\ h + q + j = n - (p - q) + 1 /\ h + p + j = n + 1
    BY <1>1, <1>3, <2>2, SMTT(20)
  <2> HIDE DEF j
  <2>4. m.wbuf[m.len + 1] = Nul
    BY <1>8, <1>10, <2>2, <2>3
  <2>5. Text(m) \in Seq(Letters)
    BY <1>12, <1>13, <2>2
  <2>6. QED BY <1>10, <2>2, <2>4, <2>5 DEF Clean
<1>15. Wanted(l, "ctrl-w", m)
  BY <1>3, <1>10, <1>11, <1>13, <1>14 DEF AsWanted, Wanted, text
<1>16. QED BY <1>2, <1>15, DrawnAfter

\* What a key does to the line.
LEMMA KeyDoes ==
  ASSUME NEW l, LineOK(l), NEW k \in EditKeys, k \in Letters /\ l.len < MaxLine - 1 => l.shift + l.len + 1 < MaxLine
  PROVE  Does(l, k, EditedLine(l, k))
<1>1. Letters \cap ControlKeys = {}
  BY EditorAssumption
<1>2. CASE k \in Letters
  <2>1. EditedLine(l, k) = EditInsert(l, k)
    BY <1>1, <1>2 DEF EditedLine, ControlKeys
  <2>2. QED BY <1>2, <2>1, LetterDoes
<1>3. CASE k \in ControlKeys
  <2>1. k \notin Letters
    BY <1>1, <1>3
  <2>2. CASE k = "backspace"
    BY <2>1, <2>2, BackspaceDoes DEF EditedLine
  <2>3. CASE k = "ctrl-d"
    BY <2>1, <2>3, DeleteDoes DEF EditedLine
  <2>4. CASE k = "ctrl-t"
    BY <2>1, <2>4, SwapDoes DEF EditedLine
  <2>5. CASE k = "left"
    BY <2>1, <2>5, MovesDo DEF EditedLine
  <2>6. CASE k = "right"
    BY <2>1, <2>6, MovesDo DEF EditedLine
  <2>7. CASE k = "home"
    BY <2>1, <2>7, MovesDo DEF EditedLine
  <2>8. CASE k = "end"
    BY <2>1, <2>8, MovesDo DEF EditedLine
  <2>9. CASE k = "ctrl-u"
    BY <2>1, <2>9, CutsDo DEF EditedLine
  <2>10. CASE k = "ctrl-k"
    BY <2>1, <2>10, CutsDo DEF EditedLine
  <2>11. CASE k = "ctrl-w"
    BY <2>1, <2>11, PrevWordDoes DEF EditedLine
  <2>12. QED BY <1>3, <2>2, <2>3, <2>4, <2>5, <2>6, <2>7, <2>8, <2>9, <2>10, <2>11 DEF ControlKeys
<1>4. QED BY <1>2, <1>3 DEF EditKeys

LEMMA DrawnClean ==
  ASSUME NEW l, LineOK(l), NEW m, Drawn(l, m), multi, Clean(l)
  PROVE  Clean(m) /\ Text(m) = Text(l) /\ m.len = l.len /\ m.shift = 0
<1>1. m.wbuf = l.wbuf /\ m.len = l.len /\ m.shift - l.shift = 0 /\ m.shift \in Nat /\ l.shift = 0
  BY DEF Drawn, LineOK, Lines, Clean
<1>2. m.shift = 0
  BY <1>1
<1>3. Text(m) = Text(l)
  BY <1>1, <1>2 DEF Text
<1>4. QED BY <1>1, <1>2, <1>3 DEF Clean

-----------------------------------------------------------------------------
(* The line editor: its history.                                           *)

LEMMA LeastIsIn ==
  ASSUME NEW S \in SUBSET Nat, S # {}
  PROVE  Min(S) \in S /\ \A y \in S : Min(S) <= y
BY LeastOf DEF Min

\* The first n characters of a text, if none of them is the byte 0 and that
\* comes next.
LEMMA UpToNulIs ==
  ASSUME NEW text \in Seq(LineChars)
  PROVE  /\ UpToNul(text) \in Seq(Letters)
         /\ \A n \in Nat : n < Len(text) /\ text[n + 1] = Nul /\ (\A i \in 1..n : text[i] \in Letters)
                             => UpToNul(text) = SubSeq(text, 1, n)
<1> DEFINE nuls == {i \in DOMAIN text : text[i] = Nul}
           short == SubSeq(text, 1, Min(nuls) - 1)
<1>1. /\ Len(text) \in Nat /\ DOMAIN text = 1..Len(text) /\ \A i \in 1..Len(text) : text[i] \in LineChars
      /\ Nul \notin Letters /\ LineChars = Letters \cup {Nul}
  BY EditorAssumption DEF LineChars
<1>2. nuls \in SUBSET Nat
  BY <1>1
<1>3. UpToNul(text) = IF nuls = {} THEN text ELSE short
  BY DEF UpToNul
<1>4. CASE nuls = {}
  <2>1. \A i \in 1..Len(text) : text[i] \in Letters /\ text[i] # Nul
    BY <1>1, <1>4
  <2>2. text \in [1..Len(text) -> Letters]
    BY <1>1, <2>1
  <2>3. text \in Seq(Letters)
    BY <1>1, <2>2
  <2>4. \A n \in Nat : n < Len(text) => n + 1 \in 1..Len(text)
    BY <1>1
  <2>5. QED BY <1>3, <1>4, <2>1, <2>3, <2>4
<1>5. CASE nuls # {}
  <2> DEFINE least == Min(nuls)
  <2>1. least \in nuls /\ \A i \in nuls : least <= i
    <3> HIDE DEF nuls
    <3>1. QED BY <1>2, <1>5, LeastIsIn
  <2>2. least \in 1..Len(text) /\ text[least] = Nul
    BY <1>1, <2>1
  <2> HIDE DEF least
  <2>3. \A i \in 1..least - 1 : text[i] \in Letters
    BY <1>1, <2>1, <2>2
  <2>4. SubSeq(text, 1, least - 1) \in Seq(Letters)
    <3>1. 1 \in Int /\ least - 1 \in Int
      BY <2>2
    <3>2. QED BY <2>3, <3>1, SubSeqProperties
  <2>5. ASSUME NEW n \in Nat, n < Len(text), text[n + 1] = Nul, \A i \in 1..n : text[i] \in Letters
        PROVE  least - 1 = n
    <3>1. n + 1 \in nuls
      BY <1>1, <2>5
    <3>2. least <= n + 1
      BY <2>1, <3>1
    <3>3. least \notin 1..n
      BY <1>1, <2>2, <2>5
    <3>4. QED BY <2>2, <3>2, <3>3
  <2>6. UpToNul(text) = SubSeq(text, 1, least - 1)
    BY <1>3, <1>5 DEF least
  <2>7. QED BY <2>4, <2>5, <2>6
<1>6. QED BY <1>4, <1>5

LEMMA CStringIs ==
  ASSUME NEW l, LineOK(l)
  PROVE  /\ CString(l) \in Seq(Letters)
         /\ Clean(l) => CString(l) = Text(l)
<1> DEFINE s == SubSeq(l.wbuf, l.shift + 1, MaxLine)
           n == l.len
<1>1. /\ l.shift \in Nat /\ n \in Nat /\ MaxLine \in Nat /\ l.shift + n < MaxLine
      /\ l.wbuf \in [1..MaxLine -> LineChars]
  BY EditorAssumption DEF LineOK, Lines
<1>2. CString(l) = UpToNul(s)
  BY DEF CString
<1>3. /\ s \in Seq(LineChars) /\ Len(s) = MaxLine - l.shift
      /\ \A i \in 1..MaxLine - l.shift : s[i] = l.wbuf[l.shift + i]
  <2> DEFINE a == l.shift + 1
  <2>1. /\ a \in Int /\ MaxLine \in Int /\ MaxLine - a + 1 = MaxLine - l.shift
        /\ (IF a <= MaxLine THEN MaxLine - a + 1 ELSE 0) = MaxLine - l.shift
    BY <1>1
  <2>2. \A i \in a..MaxLine : l.wbuf[i] \in LineChars
    BY <1>1
  <2>3. \A i \in 1..MaxLine - l.shift : a + i - 1 = l.shift + i
    BY <1>1
  <2> HIDE DEF a
  <2>4. /\ SubSeq(l.wbuf, a, MaxLine) \in Seq(LineChars)
        /\ Len(SubSeq(l.wbuf, a, MaxLine)) = IF a <= MaxLine THEN MaxLine - a + 1 ELSE 0
        /\ \A i \in 1..MaxLine - a + 1 : SubSeq(l.wbuf, a, MaxLine)[i] = l.wbuf[a + i - 1]
    BY <2>1, <2>2, SubSeqProperties
  <2>5. s = SubSeq(l.wbuf, a, MaxLine)
    BY DEF a
  <2> HIDE DEF s
  <2>6. QED BY <2>1, <2>3, <2>4, <2>5
<1> HIDE DEF s
<1>4. ASSUME Clean(l) PROVE UpToNul(s) = Text(l)
  <2>1. l.shift = 0 /\ Text(l) \in Seq(Letters) /\ l.wbuf[n + 1] = Nul
    BY <1>4 DEF Clean
  <2>2. Shows(l, Text(l))
    BY TextShown
  <2>3. \A i \in 1..n : i \in 1..MaxLine - l.shift /\ l.shift + i = i
    BY <1>1, <2>1
  <2>4. Len(Text(l)) = n /\ \A i \in 1..n : Text(l)[i] = s[i]
    BY <1>3, <2>2, <2>3 DEF Shows
  <2>5. \A i \in 1..n : s[i] \in Letters
    BY <2>1, <2>4
  <2>6. n < Len(s) /\ s[n + 1] = Nul
    <3>1. n + 1 \in 1..MaxLine - l.shift /\ l.shift + (n + 1) = n + 1
      BY <1>1, <2>1
    <3>2. QED BY <1>1, <1>3, <2>1, <3>1
  <2>7. UpToNul(s) = SubSeq(s, 1, n)
    BY <1>1, <1>3, <2>5, <2>6, UpToNulIs
  <2>8. /\ SubSeq(s, 1, n) \in Seq(LineChars) /\ Len(SubSeq(s, 1, n)) = n
        /\ \A i \in 1..n : SubSeq(s, 1, n)[i] = s[i]
    <3>1. n \in 0..Len(s)
      BY <1>1, <2>6, <1>3
    <3>2. QED BY <1>3, <3>1, EndsOf
  <2>9. Shows(l, SubSeq(s, 1, n))
    BY <2>2, <2>4, <2>8 DEF Shows
  <2>10. QED BY <2>7, <2>9, ShownIsText
<1>5. QED BY <1>2, <1>3, <1>4, UpToNulIs

Entries == {h \in Seq(Seq(Letters)) : Len(h) <= HistoryMaxLen}

LEMMA EntryAdded ==
  ASSUME NEW h \in Entries, NEW text \in Seq(Letters)
  PROVE  /\ AddHistory(h, text) \in Entries /\ AddHistory(h, text) # <<>>
         /\ Last(AddHistory(h, text)) = text
         /\ Len(AddHistory(h, text)) = IF (h # <<>> /\ Last(h) = text) \/ Len(h) = HistoryMaxLen
                                       THEN Len(h) ELSE Len(h) + 1
<1>1. h \in Seq(Seq(Letters)) /\ Len(h) \in Nat /\ Len(h) <= HistoryMaxLen /\ HistoryMaxLen \in Nat \ {0}
  BY EditorAssumption DEF Entries
<1>2. CASE h # <<>> /\ Last(h) = text
  BY <1>1, <1>2 DEF AddHistory
<1>3. CASE ~(h # <<>> /\ Last(h) = text)
  <2> DEFINE rest == IF Len(h) = HistoryMaxLen THEN Tail(h) ELSE h
  <2>1. rest \in Seq(Seq(Letters)) /\ Len(rest) = (IF Len(h) = HistoryMaxLen THEN Len(h) - 1 ELSE Len(h))
    <3>1. CASE Len(h) = HistoryMaxLen
      <4>1. h # <<>>
        BY <1>1, <3>1
      <4>2. Tail(h) \in Seq(Seq(Letters)) /\ Len(Tail(h)) = Len(h) - 1
        BY <1>1, <4>1, HeadTailProperties
      <4>3. QED BY <3>1, <4>2
    <3>2. CASE Len(h) # HistoryMaxLen
      BY <1>1, <3>2
    <3>3. QED BY <3>1, <3>2
  <2>2. AddHistory(h, text) = Append(rest, text)
    BY <1>3 DEF AddHistory
  <2> HIDE DEF rest
  <2>3. /\ Append(rest, text) \in Seq(Seq(Letters)) /\ Append(rest, text) # <<>>
        /\ Len(Append(rest, text)) = Len(rest) + 1 /\ Append(rest, text)[Len(rest) + 1] = text
    BY <2>1, AppendProperties
  <2>4. Len(rest) + 1 <= HistoryMaxLen /\ Len(rest) + 1 = IF Len(h) = HistoryMaxLen THEN Len(h) ELSE Len(h) + 1
    BY <1>1, <2>1
  <2>5. Last(AddHistory(h, text)) = text
    BY <2>2, <2>3 DEF Last
  <2>6. QED BY <1>3, <2>2, <2>3, <2>4, <2>5 DEF Entries
<1>4. QED BY <1>2, <1>3

LEMMA LoadedEntries ==
  ASSUME NEW lines \in Seq(Seq(Letters))
  PROVE  LoadHistory(lines) \in Entries
<1> DEFINE N == Len(lines)
           turn == [n \in 1..N |-> [h \in Entries |-> AddHistory(h, lines[n])]]
           Loop(f) == [n \in 0..N |-> IF n = 0 THEN <<>> ELSE AddHistory(f[n - 1], lines[n])]
           loaded == CHOOSE f : f = Loop(f)
<1>1. N \in Nat /\ \A n \in 1..N : lines[n] \in Seq(Letters)
  OBVIOUS
<1>2. LoadHistory(lines) = loaded[N]
  BY DEF LoadHistory
<1> HIDE DEF N
<1>3. <<>> \in Entries
  BY EditorAssumption DEF Entries
<1>4. turn \in Steps(N, Entries)
  BY <1>1, EntryAdded DEF Steps
<1>5. PICK f \in [0..N -> Entries] : IsLoop(f, N, <<>>, turn)
  <2> HIDE DEF turn
  <2>1. QED BY <1>1, <1>3, <1>4, LoopOf
<1>6. f = Loop(f)
  <2>1. \A n \in 0..N : n # 0 => turn[n][f[n - 1]] = AddHistory(f[n - 1], lines[n])
    <3>1. TAKE n \in 0..N
    <3>2. SUFFICES ASSUME n # 0 PROVE n - 1 \in 0..N /\ n \in 1..N
      OBVIOUS
    <3>3. QED BY <1>1, <3>2
  <2> HIDE DEF turn
  <2>2. QED BY <1>5, <2>1 DEF IsLoop
<1>7. loaded = Loop(loaded)
  <2> HIDE DEF Loop
  <2>1. QED BY <1>6
<1> HIDE DEF loaded
<1> DEFINE S == {n \in Nat : n <= N => loaded[n] \in Entries}
<1>8. 0 \in S
  BY <1>1, <1>3, <1>7
<1>9. ASSUME NEW n \in Nat, n \in S PROVE n + 1 \in S
  <2>1. SUFFICES ASSUME n + 1 <= N PROVE loaded[n + 1] \in Entries
    OBVIOUS
  <2>2. loaded[n] \in Entries /\ lines[n + 1] \in Seq(Letters)
    BY <1>1, <1>9, <2>1
  <2>3. loaded[n + 1] = AddHistory(loaded[n], lines[n + 1])
    <3> DEFINE m == n + 1
    <3>1. m \in 0..N /\ m # 0 /\ m - 1 = n
      BY <1>1, <2>1
    <3> HIDE DEF m
    <3>2. loaded[m] = AddHistory(loaded[m - 1], lines[m])
      BY <1>7, <3>1
    <3>3. QED BY <3>1, <3>2 DEF m
  <2>4. QED BY <2>2, <2>3, EntryAdded
<1> HIDE DEF S
<1>10. N \in S
  BY <1>1, <1>8, <1>9, NatInductiveOn
<1>11. QED BY <1>1, <1>2, <1>10 DEF S

-----------------------------------------------------------------------------
(* The line editor: its keys.                                              *)

\* In multi-line mode the line is what a C string of it is, so that the
\* history keeps the whole of it.
EditorInv ==
  /\ LineOK(line) /\ (multi => Clean(line))
  /\ history \in Entries /\ history # <<>>
  /\ history_index \in Nat

LEMMA FreshLines ==
  /\ LineOK(NewLine) /\ Clean(NewLine)
  /\ \A l : LineOK(l) => LineOK(FreshLine(l)) /\ (Clean(l) => Clean(FreshLine(l)))
<1>1. MaxLine \in Nat \ {0} /\ Nul \in LineChars
  BY EditorAssumption DEF LineChars
<1>2. \A l : l.len = 0 /\ l.shift = 0 => Text(l) = <<>>
  <2>1. SubSeq(<<>>, 1, 0) = <<>>
    OBVIOUS
  <2>2. \A l : l.len = 0 /\ l.shift = 0 => Text(l) = SubSeq(l.wbuf, 1, 0)
    BY DEF Text
  <2>3. \A w : SubSeq(w, 1, 0) = <<>>
    BY SubSeqEmpty
  <2>4. QED BY <2>2, <2>3
<1>3. <<>> \in Seq(Letters)
  OBVIOUS
<1>4. LineOK(NewLine) /\ NewLine.len = 0 /\ NewLine.shift = 0 /\ NewLine.wbuf[NewLine.len + 1] = Nul
  BY <1>1 DEF NewLine, LineOK, Lines
<1>5. ASSUME NEW l, LineOK(l)
      PROVE  LineOK(FreshLine(l)) /\ (Clean(l) => Clean(FreshLine(l)))
  <2> DEFINE m   == FreshLine(l)
             buf == [l.wbuf EXCEPT ![1] = Nul, ![l.shift + 1] = Nul]
  <2>1. l \in Lines /\ l.shift \in Nat /\ l.len \in Nat /\ l.shift + l.len < MaxLine /\ l.wbuf \in [1..MaxLine -> LineChars]
    BY <1>5 DEF LineOK, Lines
  <2>2. buf \in [1..MaxLine -> LineChars] /\ (l.shift = 0 => buf[1] = Nul)
    <3>1. l.shift + 1 \in 1..MaxLine /\ 1 \in 1..MaxLine /\ (l.shift = 0 => l.shift + 1 = 1)
      BY <1>1, <2>1
    <3>2. \A i \in 1..MaxLine : buf[i] = IF i = l.shift + 1 \/ i = 1 THEN Nul ELSE l.wbuf[i]
      BY <2>1, <3>1
    <3>3. buf = [i \in 1..MaxLine |-> buf[i]]
      BY <2>1
    <3> HIDE DEF buf
    <3>4. QED BY <1>1, <2>1, <3>1, <3>2, <3>3
  <2>3. m = [l EXCEPT !.wbuf = buf, !.len = 0, !.pos = 0]
    BY <2>1 DEF FreshLine, Lines
  <2> HIDE DEF buf, m
  <2>4. m \in Lines /\ m.wbuf = buf /\ m.shift = l.shift /\ m.len = 0 /\ m.pos = 0
    BY <2>1, <2>2, <2>3 DEF Lines
  <2>5. LineOK(m)
    BY <1>1, <2>1, <2>4 DEF LineOK
  <2>6. Clean(l) => Clean(m)
    <3>1. m.len + 1 = 1
      BY <2>4
    <3>2. l.shift = 0 => Text(m) = <<>>
      BY <1>2, <2>4
    <3>3. QED BY <1>3, <2>2, <2>4, <3>1, <3>2 DEF Clean
  <2>7. QED BY <2>5, <2>6 DEF m
<1>6. Clean(NewLine)
  BY <1>2, <1>3, <1>4 DEF Clean
<1>7. QED BY <1>4, <1>5, <1>6

LEMMA EditorStarts == EditorInit => EditorInv
<1> SUFFICES ASSUME EditorInit PROVE EditorInv
  OBVIOUS
<1>1. PICK h \in Histories : history = AddHistory(LoadHistory(h), <<>>)
  BY DEF EditorInit
<1>2. h \in Seq(Seq(Letters)) /\ <<>> \in Seq(Letters)
  BY EditorAssumption
<1>3. history \in Entries /\ history # <<>>
  BY <1>1, <1>2, LoadedEntries, EntryAdded
<1>4. line = NewLine /\ history_index = 0
  BY DEF EditorInit
<1>5. QED BY <1>3, <1>4, FreshLines DEF EditorInv

KeyHolds ==
  IF strayed' THEN StraysOnlyFrom
  ELSE /\ last_key' \in EditKeys => LineChanges
       /\ last_key' \in {"up", "down"} => EntryShown
       /\ PlaceKept

LEMMA KeyNames ==
  /\ EditKeys \cap {"up", "down", "enter", "quit"} = {}
  /\ "quit" \notin {"up", "down"} /\ "enter" \notin {"up", "down"}
BY EditorAssumption DEF EditKeys, ControlKeys

\* A line in multi-line mode stays at the start of its buffer.
LEMMA MovedIsSingle ==
  ASSUME EditorInv, line.shift # 0
  PROVE  StraysOnlyFrom
<1>1. line.shift \in Nat /\ ~multi
  BY DEF EditorInv, LineOK, Lines, Clean
<1>2. QED BY <1>1 DEF StraysOnlyFrom

LEMMA EditKeyStep ==
  ASSUME EditorInv, NEW k \in EditKeys, EditKey(k)
  PROVE  EditorInv' /\ KeyHolds
<1>1. /\ last_key' = k /\ multi' = multi /\ history' = history /\ history_index' = history_index
      /\ line' = IF InsertStrays(k) THEN line ELSE EditedLine(line, k)
  BY DEF EditKey, Pressed
<1>2. strayed' = InsertStrays(k)
  BY DEF EditKey, StraysIf
<1>3. /\ LineOK(line) /\ history_index \in Nat /\ history \in Entries /\ history # <<>> /\ (multi => Clean(line))
      /\ line.shift \in Nat /\ line.len \in Nat /\ MaxLine \in Nat
  BY EditorAssumption DEF EditorInv, LineOK, Lines
<1>4. CASE InsertStrays(k)
  <2>1. line.shift # 0
    BY <1>3, <1>4 DEF InsertStrays
  <2>2. StraysOnlyFrom
    BY <2>1, MovedIsSingle
  <2>3. EditorInv'
    BY <1>1, <1>3, <1>4 DEF EditorInv, LineOK, Clean, Text
  <2>4. strayed'
    BY <1>2, <1>4
  <2>5. QED BY <2>2, <2>3, <2>4 DEF KeyHolds
<1>5. CASE ~InsertStrays(k)
  <2>1. Does(line, k, line')
    <3>1. k \in Letters /\ line.len < MaxLine - 1 => line.shift + line.len + 1 < MaxLine
      BY <1>3, <1>5 DEF InsertStrays
    <3>2. QED BY <1>1, <1>3, <1>5, <3>1, KeyDoes
  <2>2. PICK m : Wanted(line, k, m) /\ Drawn(m, line')
    BY <2>1 DEF Does
  <2>3. LineOK(line') /\ (multi => Clean(line'))
    BY <1>3, <2>2, DrawnClean DEF Wanted, Drawn
  <2>4. EditorInv'
    BY <1>1, <1>3, <2>3 DEF EditorInv, LineOK, Clean, Text
  <2>5. LineChanges
    BY <1>1, <1>3, <2>2, ChangesAsWanted DEF Wanted
  <2>6. PlaceKept
    <3>1. Len(history) \in Nat
      BY <1>3 DEF Entries
    <3>2. QED BY <1>1, <1>3, <3>1 DEF PlaceKept
  <2>7. ~strayed'
    BY <1>2, <1>5
  <2>8. QED BY <1>1, <2>4, <2>5, <2>6, <2>7, KeyNames DEF KeyHolds
<1>6. QED BY <1>4, <1>5

\* What follows a part of a text that is dropped is its end.
LEMMA EndIsSuffix ==
  ASSUME NEW T, NEW s \in Seq(T), NEW a \in 0..Len(s)
  PROVE  IsSuffix(SubSeq(s, a + 1, Len(s)), s)
<1> DEFINE t == SubSeq(s, a + 1, Len(s))
           n == Len(s)
<1>1. t \in Seq(T) /\ Len(t) = n - a /\ \A i \in 1..n - a : t[i] = s[a + i]
  BY EndsOf
<1>2. n \in Nat /\ a \in Nat /\ a <= n /\ \A i \in 1..n : s[i] \in T
  OBVIOUS
<1> HIDE DEF t, n
<1> DEFINE u == [i \in 1..n - a |-> s[n - i + 1]]
<1>3. Reverse(s) = [i \in 1..n |-> s[n - i + 1]]
  BY DEF Reverse, n
<1>4. Reverse(t) = u
  <2>1. Reverse(t) = [i \in 1..n - a |-> t[(n - a) - i + 1]]
    BY <1>1 DEF Reverse
  <2>2. \A i \in 1..n - a : (n - a) - i + 1 \in 1..n - a /\ a + ((n - a) - i + 1) = n - i + 1
    BY <1>2
  <2>3. \A i \in 1..n - a : t[(n - a) - i + 1] = s[n - i + 1]
    BY <1>1, <2>2, SMTT(20)
  <2>4. QED BY <2>1, <2>3
<1>5. \A i \in 1..n : n - i + 1 \in 1..n
  BY <1>2
<1>6. Reverse(s) \in [1..n -> T] /\ u \in [1..n - a -> T]
  BY <1>2, <1>3, <1>5
<1>7. Reverse(s) \in Seq(T) /\ Len(Reverse(s)) = n /\ u \in Seq(T) /\ Len(u) = n - a
  BY <1>2, <1>6
<1>8. \A i \in 1..n - a : Reverse(s)[i] = u[i]
  BY <1>2, <1>3
<1> HIDE DEF u
<1> DEFINE v == SubSeq(Reverse(s), 1, n - a)
<1>9. v \in Seq(T) /\ Len(v) = n - a /\ \A i \in 1..n - a : v[i] = Reverse(s)[i]
  <2>1. n - a \in 0..Len(Reverse(s))
    BY <1>2, <1>7
  <2>2. QED BY <1>7, <2>1, EndsOf
<1>10. v = u
  <2> HIDE DEF v
  <2>1. QED BY <1>7, <1>8, <1>9, SeqEqual
<1>11. SubSeq(u, 1, Len(u)) = u
  BY <1>7, SubSeqFull
<1>12. Len(u) <= Len(Reverse(s)) /\ SubSeq(u, 1, Len(u)) = SubSeq(Reverse(s), 1, Len(u))
  BY <1>2, <1>7, <1>10, <1>11
<1>13. IsSuffix(t, s)
  BY <1>4, <1>12 DEF IsSuffix, IsPrefix
<1>14. QED BY <1>13 DEF t, n

\* An entry that takes the line, drawn.
LEMMA EntryTakesLine ==
  ASSUME NEW l, LineOK(l), NEW shown \in Seq(Letters), l.shift + Len(shown) < MaxLine,
         NEW clear, clear = [l EXCEPT !.wbuf = [i \in DOMAIN @ |-> IF i > l.shift THEN Nul ELSE @[i]]],
         NEW m, m = RefreshLine(Holding(clear, shown, Len(shown)))
  PROVE  /\ LineOK(m) /\ IsSuffix(Text(m), shown) /\ m.pos = m.len
         /\ multi => Text(m) = shown
         /\ multi /\ l.shift = 0 => Clean(m)
<1> DEFINE held == Holding(clear, shown, Len(shown))
           buf  == [i \in 1..MaxLine |-> IF i > l.shift THEN Nul ELSE l.wbuf[i]]
           N    == Len(shown)
<1>1. /\ l \in Lines /\ l.wbuf \in [1..MaxLine -> LineChars] /\ Nul \in LineChars /\ l.shift \in Nat
      /\ l.len \in Nat /\ l.pos <= l.len /\ l.shift + l.len < MaxLine /\ l.shift + N < MaxLine /\ N \in Nat
  BY DEF LineOK, Lines, LineChars
<1>2. LineOK(clear) /\ clear.shift = l.shift
  <2>1. buf \in [1..MaxLine -> LineChars]
    BY <1>1
  <2>2. clear = [l EXCEPT !.wbuf = buf]
    BY <1>1
  <2> HIDE DEF buf
  <2>3. clear \in Lines /\ clear.shift = l.shift /\ clear.len = l.len /\ clear.pos = l.pos
    BY <1>1, <2>1, <2>2 DEF Lines
  <2>4. QED BY <1>1, <2>3 DEF LineOK
<1>3. shown \in Seq(LineChars)
  BY DEF LineChars
<1>4. Held(clear, shown, N, held)
  <2>1. N \in 0..Len(shown) /\ clear.shift + Len(shown) < MaxLine
    BY <1>1, <1>2
  <2>2. QED BY <1>2, <1>3, <2>1, HoldingShows
<1>5. m = RefreshLine(held)
  OBVIOUS
<1> HIDE DEF held
<1>6. LineOK(held) /\ Text(held) = shown /\ held.pos = N /\ held.len = N /\ held.shift = l.shift
  BY <1>2, <1>4 DEF Held
<1>7. Drawn(held, m)
  BY <1>5, <1>6, RefreshDraws
<1> DEFINE moved == m.shift - held.shift
<1>8. /\ LineOK(m) /\ m.pos = m.len /\ m.pos = N - moved /\ moved \in Nat /\ m.len \in Nat
      /\ (multi => moved = 0)
  <2>1. /\ LineOK(m) /\ held.shift <= m.shift /\ m.pos = held.pos - moved
        /\ (multi => moved = 0) /\ (held.pos = held.len => m.pos = m.len)
    BY <1>7 DEF Drawn
  <2>2. m.shift \in Nat /\ m.len \in Nat /\ held.shift \in Nat
    BY <1>1, <1>6, <2>1 DEF LineOK, Lines
  <2>3. moved \in Nat
    BY <2>1, <2>2
  <2> HIDE DEF moved
  <2>4. QED BY <1>6, <2>1, <2>2, <2>3
<1>9. Text(m) = SubSeq(Text(held), moved + 1, moved + m.len)
  BY <1>6, <1>7, DrawnText
<1> HIDE DEF moved
<1>10. moved \in 0..N /\ moved + m.len = N
  BY <1>1, <1>8
<1>11. Text(m) = SubSeq(shown, moved + 1, Len(shown))
  BY <1>6, <1>9, <1>10
<1>12. IsSuffix(Text(m), shown)
  BY <1>10, <1>11, EndIsSuffix
<1>13. multi => Text(m) = shown
  <2>1. SubSeq(shown, 1, Len(shown)) = shown
    BY SubSeqFull
  <2>2. moved = 0 => moved + 1 = 1
    OBVIOUS
  <2>3. QED BY <1>8, <1>11, <2>1, <2>2
<1>14. multi /\ l.shift = 0 => Clean(m)
  <2>1. l.shift = 0 => Clean(held)
    BY <1>2, <1>4 DEF Held
  <2>2. QED BY <1>6, <1>7, <2>1, DrawnClean
<1>15. QED BY <1>8, <1>12, <1>13, <1>14

LEMMA ArrowStraysFrom ==
  ASSUME EditorInv, NEW k \in {"up", "down"}, ArrowStrays(k)
  PROVE  StraysOnlyFrom
<1> DEFINE n     == Len(history)
           there == n - NextIndex(k)
<1>1. /\ history_index \in Nat /\ n \in Nat /\ DOMAIN history = 1..n
      /\ line.shift \in Nat /\ MaxLine \in Nat
  BY EditorAssumption DEF EditorInv, Entries, LineOK, Lines
<1>2. CASE ~IsEntry(history_index)
  <2>1. history_index >= n
    BY <1>1, <1>2 DEF IsEntry
  <2>2. QED BY <2>1 DEF StraysOnlyFrom
<1>3. CASE line.shift # 0
  BY <1>3, MovedIsSingle
<1>4. CASE IsEntry(history_index) /\ line.shift = 0
  <2>1. NextIndex(k) \in 0..(n - 1)
    BY <1>4 DEF ArrowStrays, IsEntry
  <2>2. there \in DOMAIN history
    BY <1>1, <2>1
  <2>3. Len(history[there]) >= MaxLine
    <3>1. \/ 0 + MaxLine - 1 > MaxLine
          \/ 0 + Len(history[there]) >= MaxLine
      BY <1>4 DEF ArrowStrays
    <3>2. history[there] \in Seq(Letters)
      BY <2>2 DEF EditorInv, Entries
    <3>3. Len(history[there]) \in Nat
      BY <3>2
    <3> HIDE DEF there
    <3>4. QED BY <1>1, <3>1, <3>3
  <2>4. QED BY <2>2, <2>3 DEF StraysOnlyFrom
<1>5. QED BY <1>2, <1>3, <1>4

LEMMA HistoryKeyStep ==
  ASSUME EditorInv, NEW k \in {"up", "down"}, HistoryKey(k)
  PROVE  EditorInv' /\ KeyHolds
<1> DEFINE n     == Len(history)
           here  == n - history_index
           next  == NextIndex(k)
           there == n - next
           saved == [history EXCEPT ![here] = CString(line)]
           shown == saved[there]
           clear == [line EXCEPT !.wbuf = [i \in DOMAIN @ |-> IF i > line.shift THEN Nul ELSE @[i]]]
<1>1. LineOK(line) /\ (multi => Clean(line)) /\ history_index \in Nat /\ history \in Entries /\ history # <<>>
  BY DEF EditorInv
<1>2. history \in Seq(Seq(Letters)) /\ n \in Nat /\ n >= 1 /\ n <= HistoryMaxLen
  BY <1>1 DEF Entries
<1>3. last_key' = k /\ multi' = multi
  BY DEF HistoryKey, Pressed
<1>4. last_key' \notin EditKeys
  BY <1>3, KeyNames
<1>5. strayed' = ArrowStrays(k)
  BY DEF HistoryKey, StraysIf
<1>6. CASE n <= 1
  <2>1. ~strayed' /\ line' = line /\ history' = history /\ history_index' = history_index
    <3>1. ~(n > 1)
      BY <1>2, <1>6
    <3>2. ~ArrowStrays(k)
      BY <3>1 DEF ArrowStrays
    <3>3. QED BY <1>5, <1>6, <3>2 DEF HistoryKey
  <2>2. line' = line /\ history' = history /\ history_index' = history_index
    BY <2>1
  <2>3. EditorInv'
    BY <1>1, <1>3, <2>2 DEF EditorInv, LineOK, Clean, Text
  <2>4. ~(n > 1)
    BY <1>2, <1>6
  <2>5. EntryShown
    BY <2>2, <2>4 DEF EntryShown
  <2>6. PlaceKept
    BY <1>1, <1>2, <2>2 DEF PlaceKept
  <2>7. QED BY <1>4, <2>1, <2>3, <2>5, <2>6 DEF KeyHolds
<1>7. CASE n > 1 /\ ArrowStrays(k)
  <2>1. line' = line /\ history' = history /\ history_index' = history_index
    BY <1>7 DEF HistoryKey
  <2>2. EditorInv'
    BY <1>1, <1>3, <2>1 DEF EditorInv, LineOK, Clean, Text
  <2>3. StraysOnlyFrom
    BY <1>7, ArrowStraysFrom
  <2>4. strayed'
    BY <1>5, <1>7
  <2>5. QED BY <2>2, <2>3, <2>4 DEF KeyHolds
<1>8. CASE n > 1 /\ ~ArrowStrays(k)
  <2>1. ~strayed'
    BY <1>5, <1>8
  <2>2. /\ history_index < n /\ history' = saved
        /\ IF next \in 0..(n - 1)
           THEN /\ line.shift + Len(history[there]) < MaxLine /\ history_index' = next
                /\ line' = RefreshLine(Holding(clear, shown, Len(shown)))
           ELSE line' = line /\ history_index' = history_index
    <3>1. ~(n <= 1) /\ MaxLine \in Nat /\ line.shift \in Nat
      BY <1>1, <1>2, <1>8, EditorAssumption DEF LineOK, Lines
    <3>2. history_index \in 0..(n - 1)
      BY <1>8 DEF ArrowStrays, IsEntry
    <3>3. next \in 0..(n - 1) => ~(line.shift + Len(history[there]) >= MaxLine)
      BY <1>8 DEF ArrowStrays, IsEntry
    <3>4. next \in 0..(n - 1) => Len(history[there]) \in Nat
      <4>1. SUFFICES ASSUME next \in 0..(n - 1) PROVE Len(history[there]) \in Nat
        OBVIOUS
      <4>2. there \in 1..n
        BY <1>2, <4>1
      <4> HIDE DEF there
      <4>3. history[there] \in Seq(Letters)
        BY <1>2, <4>2
      <4>4. QED BY <4>3
    <3>5. /\ history' = saved
          /\ IF next \in 0..(n - 1)
             THEN history_index' = next /\ line' = RefreshLine(Holding(clear, shown, Len(shown)))
             ELSE line' = line /\ history_index' = history_index
      BY <1>8, <3>1 DEF HistoryKey, IsEntry
    <3> HIDE DEF next, there, saved, shown, clear
    <3>6. QED BY <1>2, <3>1, <3>2, <3>3, <3>4, <3>5
  <2>3. here \in 1..n
    BY <1>1, <1>2, <2>2
  <2>4. CString(line) \in Seq(Letters) /\ (multi => CString(line) = Text(line))
    BY <1>1, CStringIs
  <2>5. /\ saved \in Seq(Seq(Letters)) /\ Len(saved) = n
        /\ \A i \in 1..n : saved[i] = IF i = here THEN CString(line) ELSE history[i]
    BY <1>2, <2>3, <2>4, ExceptSeq
  <2>6. DOMAIN history = 1..n
    BY <1>2
  <2> HIDE DEF n, here, saved, clear
  <2>7. history' \in Entries /\ history' # <<>>
    <3>1. saved # <<>>
      BY <1>2, <2>5
    <3>2. QED BY <1>2, <2>2, <2>5, <3>1 DEF Entries
  <2>8. \A i \in DOMAIN history : i # here => history'[i] = history[i]
    BY <2>2, <2>5, <2>6
  <2>9. multi => history'[here] = Text(line)
    BY <2>2, <2>3, <2>4, <2>5
  <2>10. CASE next \in 0..(n - 1)
    <3>1. /\ line.shift + Len(history[there]) < MaxLine /\ history_index' = next
          /\ line' = RefreshLine(Holding(clear, shown, Len(shown)))
      BY <2>2, <2>10
    <3>2. there \in 1..n /\ there # here /\ next \in Nat /\ next < n
      BY <1>1, <1>2, <2>10 DEF here, NextIndex
    <3> HIDE DEF next, there
    <3>3. shown = history[there] /\ shown \in Seq(Letters)
      BY <1>2, <2>5, <3>2
    <3> HIDE DEF shown
    <3>4. /\ LineOK(line') /\ IsSuffix(Text(line'), shown) /\ line'.pos = line'.len
          /\ multi => Text(line') = shown
          /\ multi /\ line.shift = 0 => Clean(line')
      <4>1. /\ LineOK(line) /\ shown \in Seq(Letters) /\ line.shift + Len(shown) < MaxLine
            /\ clear = [line EXCEPT !.wbuf = [i \in DOMAIN @ |-> IF i > line.shift THEN Nul ELSE @[i]]]
            /\ line' = RefreshLine(Holding(clear, shown, Len(shown)))
        BY <1>1, <3>1, <3>3 DEF clear
      <4>2. QED BY <4>1, EntryTakesLine
    <3>5. multi => Clean(line')
      BY <1>1, <3>4 DEF Clean
    <3>6. EditorInv'
      BY <1>3, <2>7, <3>1, <3>2, <3>4, <3>5 DEF EditorInv, LineOK, Clean, Text
    <3>7. EntryShown
      <4>1. n - history_index' = there /\ n - history_index = here
        BY <3>1 DEF there, here
      <4>2. /\ IsSuffix(Text(line'), history[n - history_index'])
            /\ line'.pos = line'.len /\ (multi => Text(line') = history[n - history_index'])
        BY <3>3, <3>4, <4>1
      <4>3. /\ \A i \in DOMAIN history : i # n - history_index => history'[i] = history[i]
            /\ multi => history'[n - history_index] = Text(line)
        BY <2>8, <2>9, <4>1
      <4>4. QED BY <4>2, <4>3 DEF EntryShown, n
    <3>8. PlaceKept
      BY <2>2, <2>5, <3>1, <3>2 DEF PlaceKept
    <3>9. QED BY <1>4, <2>1, <3>6, <3>7, <3>8 DEF KeyHolds
  <2>11. CASE next \notin 0..(n - 1)
    <3>1. line' = line /\ history_index' = history_index
      BY <2>2, <2>11
    <3>2. EditorInv'
      BY <1>1, <1>3, <2>7, <3>1 DEF EditorInv, LineOK, Clean, Text
    <3>3. EntryShown
      <4>1. n - history_index = here
        BY DEF here
      <4>2. /\ \A i \in DOMAIN history : i # n - history_index => history'[i] = history[i]
            /\ multi => history'[n - history_index] = Text(line)
        BY <2>8, <2>9, <4>1
      <4>3. QED BY <3>1, <4>2 DEF EntryShown, n
    <3>4. PlaceKept
      BY <2>2, <2>5, <3>1 DEF PlaceKept
    <3>5. QED BY <1>4, <2>1, <3>2, <3>3, <3>4 DEF KeyHolds
  <2>12. QED BY <2>10, <2>11
<1>9. QED BY <1>2, <1>6, <1>8, <1>7

LEMMA FrontEntries ==
  ASSUME NEW h \in Entries, h # <<>>
  PROVE  Front(h) \in Entries /\ Len(Front(h)) = Len(h) - 1 /\ \A i \in 1..Len(h) - 1 : Front(h)[i] = h[i]
<1> DEFINE n == Len(h) - 1
<1>1. h \in Seq(Seq(Letters)) /\ Len(h) \in Nat /\ Len(h) <= HistoryMaxLen /\ n \in 0..Len(h) /\ HistoryMaxLen \in Nat
  BY EditorAssumption DEF Entries
<1>2. Front(h) = SubSeq(h, 1, n)
  BY DEF Front
<1> HIDE DEF n
<1>3. SubSeq(h, 1, n) \in Seq(Seq(Letters)) /\ Len(SubSeq(h, 1, n)) = n /\ \A i \in 1..n : SubSeq(h, 1, n)[i] = h[i]
  BY <1>1, EndsOf
<1>4. Front(h) \in Entries /\ Len(Front(h)) = n /\ \A i \in 1..n : Front(h)[i] = h[i]
  BY <1>1, <1>2, <1>3 DEF Entries
<1>5. QED BY <1>4 DEF n

LEMMA EnterKeyStep ==
  ASSUME EditorInv, EnterKey
  PROVE  EditorInv' /\ KeyHolds
<1> DEFINE text  == Text(line)
           kept  == Front(history)
           added == IF text = <<>> THEN kept ELSE AddHistory(kept, UpToNul(text))
           n     == Len(history)
<1>1. LineOK(line) /\ (multi => Clean(line)) /\ history_index \in Nat /\ history \in Entries /\ history # <<>>
  BY DEF EditorInv
<1>2. /\ last_key' = "enter" /\ multi' = multi /\ line' = FreshLine(line)
      /\ history' = AddHistory(added, <<>>) /\ history_index' = history_index /\ ~strayed'
  BY DEF EnterKey, Pressed, StraysIf
<1>3. n \in Nat /\ n >= 1 /\ n <= HistoryMaxLen
  BY <1>1 DEF Entries
<1>4. kept \in Entries /\ Len(kept) = n - 1 /\ \A i \in 1..n - 1 : kept[i] = history[i]
  BY <1>1, FrontEntries
<1>5. UpToNul(text) \in Seq(Letters)
  <2>1. text \in Seq(LineChars)
    BY <1>1, TextShown DEF Shows
  <2> HIDE DEF text
  <2>2. QED BY <2>1, UpToNulIs
<1>6. LineOK(line') /\ (multi => Clean(line'))
  BY <1>1, <1>2, FreshLines
<1> HIDE DEF text, kept
<1> DEFINE entry == UpToNul(text)
           Ended == n > 1 /\ history[n - 1] = <<>>
<1> HIDE DEF entry
<1>7. entry \in Seq(Letters) /\ <<>> \in Seq(Letters)
  BY <1>5 DEF entry
\* Nothing is added to the entries before, or what was typed.
<1>8. /\ added \in Entries
      /\ \/ added = kept
         \/ added # <<>> /\ Last(added) = entry /\ Len(added) >= Len(kept) /\ (Len(added) = Len(kept) => entry = Last(kept) /\ kept # <<>>)
  <2>1. CASE text = <<>>
    BY <1>4, <2>1
  <2>2. CASE text # <<>>
    <3>1. added = AddHistory(kept, entry)
      BY <2>2 DEF entry
    <3> HIDE DEF added
    <3>2. /\ added \in Entries /\ added # <<>> /\ Last(added) = entry
          /\ Len(added) = IF (kept # <<>> /\ Last(kept) = entry) \/ Len(kept) = HistoryMaxLen THEN Len(kept) ELSE Len(kept) + 1
      BY <1>4, <1>7, <3>1, EntryAdded
    <3>3. Len(kept) # HistoryMaxLen /\ Len(kept) \in Int
      BY <1>3, <1>4, EditorAssumption
    <3>4. QED BY <3>2, <3>3
  <2>3. QED BY <2>1, <2>2
<1> HIDE DEF added
<1>9. /\ history' \in Entries /\ history' # <<>>
      /\ Len(history') = IF (added # <<>> /\ Last(added) = <<>>) \/ Len(added) = HistoryMaxLen THEN Len(added) ELSE Len(added) + 1
  BY <1>2, <1>7, <1>8, EntryAdded
<1>10. kept # <<>> /\ Last(kept) = <<>> => Ended
  <2>1. SUFFICES ASSUME kept # <<>>, Last(kept) = <<>> PROVE Ended
    OBVIOUS
  <2>2. Len(kept) # 0
    BY <1>4, <2>1 DEF Entries
  <2>3. n > 1 /\ n - 1 \in 1..n - 1
    BY <1>3, <1>4, <2>2
  <2>4. Last(kept) = history[n - 1]
    BY <1>4, <2>3 DEF Last
  <2>5. QED BY <2>1, <2>3, <2>4
<1>11. Len(history') >= n \/ Ended
  <2>1. Len(added) \in Nat /\ Len(added) <= HistoryMaxLen /\ HistoryMaxLen \in Nat /\ Len(kept) \in Nat
    BY <1>4, <1>8, EditorAssumption DEF Entries
  <2>2. CASE added = kept
    BY <1>3, <1>4, <1>9, <1>10, <2>1, <2>2
  <2>3. CASE /\ added # <<>> /\ Last(added) = entry /\ Len(added) >= Len(kept)
             /\ Len(added) = Len(kept) => entry = Last(kept) /\ kept # <<>>
    <3>1. CASE Len(added) = Len(kept)
      <4>1. CASE entry = <<>>
        BY <1>10, <2>3, <3>1, <4>1
      <4>2. CASE entry # <<>>
        <5>1. Len(history') = Len(added) + 1
          BY <1>3, <1>4, <1>9, <2>1, <2>3, <3>1, <4>2
        <5>2. QED BY <1>3, <1>4, <2>1, <3>1, <5>1
      <4>3. QED BY <4>1, <4>2
    <3>2. CASE Len(added) # Len(kept)
      BY <1>3, <1>4, <1>9, <2>1, <2>3, <3>2
    <3>3. QED BY <3>1, <3>2
  <2>4. QED BY <1>8, <2>2, <2>3
<1>12. Len(history') \in Nat
  BY <1>9 DEF Entries
<1>13. PlaceKept
  BY <1>1, <1>2, <1>3, <1>11, <1>12 DEF PlaceKept
<1>14. EditorInv'
  BY <1>1, <1>2, <1>6, <1>9 DEF EditorInv, LineOK, Clean, Text
<1>15. QED BY <1>2, <1>13, <1>14, KeyNames DEF KeyHolds

LEMMA LeaveKeyStep ==
  ASSUME EditorInv, NEW k \in {"ctrl-c", "ctrl-d"}, LeaveKey(k)
  PROVE  EditorInv' /\ KeyHolds
<1> DEFINE saved == IF k = "ctrl-c" THEN history ELSE Front(history)
<1>1. history \in Entries /\ history # <<>>
  BY DEF EditorInv
<1>2. /\ last_key' = "quit" /\ multi' = multi /\ line' = NewLine /\ history_index' = 0
      /\ history' = AddHistory(LoadHistory(saved), <<>>) /\ ~strayed'
  BY DEF LeaveKey, Pressed, StraysIf
<1>3. saved \in Seq(Seq(Letters))
  BY <1>1, FrontEntries DEF Entries
<1> HIDE DEF saved
<1>4. history' \in Entries /\ history' # <<>>
  <2>1. <<>> \in Seq(Letters)
    OBVIOUS
  <2>2. QED BY <1>2, <1>3, <2>1, LoadedEntries, EntryAdded
<1>5. EditorInv'
  BY <1>2, <1>4, FreshLines DEF EditorInv, LineOK, Clean, Text
<1>6. PlaceKept
  <2>1. Len(history') \in Nat /\ Len(history') # 0
    BY <1>4 DEF Entries
  <2>2. QED BY <1>2, <2>1 DEF PlaceKept
<1>7. QED BY <1>2, <1>5, <1>6, KeyNames DEF KeyHolds

LEMMA EditorSteps == EditorInv /\ [EditorNext]_editorVars => EditorInv' /\ [KeyHolds]_editorVars
<1> SUFFICES ASSUME EditorInv, [EditorNext]_editorVars PROVE EditorInv' /\ [KeyHolds]_editorVars
  OBVIOUS
<1>1. CASE UNCHANGED editorVars
  BY <1>1 DEF EditorInv, editorVars, LineOK, Clean, Text
<1>2. ASSUME NEW k \in EditKeys, EditKey(k) PROVE EditorInv' /\ KeyHolds
  BY <1>2, EditKeyStep
<1>3. ASSUME NEW k \in {"up", "down"}, HistoryKey(k) PROVE EditorInv' /\ KeyHolds
  BY <1>3, HistoryKeyStep
<1>4. CASE EnterKey
  BY <1>4, EnterKeyStep
<1>5. ASSUME NEW k \in {"ctrl-c", "ctrl-d"}, LeaveKey(k) PROVE EditorInv' /\ KeyHolds
  BY <1>5, LeaveKeyStep
<1>6. QED BY <1>1, <1>2, <1>3, <1>4, <1>5 DEF EditorNext

\* As long as it stays in the buffers, a key changes the line, the cursor and
\* the history as such a key does, whatever was typed, drawn, returned and
\* remembered before, in lines and terminals of any length; and it leaves the
\* buffers only where a line wider than the terminal has moved, where the place
\* in the history is lost, or for an entry longer than the buffer.
THEOREM KeysKeepTheirPromise == EditorSpec => KeysDoWhatTheySay
<1> DEFINE A == IF strayed' THEN StraysOnlyFrom
                ELSE /\ last_key' \in EditKeys => LineChanges
                     /\ last_key' \in {"up", "down"} => EntryShown
                     /\ PlaceKept
<1>1. EditorInit => EditorInv
  BY EditorStarts
<1>2. EditorInv /\ [EditorNext]_editorVars => EditorInv'
  BY EditorSteps
<1>3. EditorInv /\ [EditorNext]_editorVars => [A]_editorVars
  BY EditorSteps DEF KeyHolds
<1>4. QED BY <1>1, <1>2, <1>3, PTL DEF EditorSpec, KeysDoWhatTheySay
=============================================================================
