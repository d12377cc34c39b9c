---------------------------- MODULE ZethaPageCache ----------------------------
(***************************************************************************)
(* PageCache of ZethaSTORAGE.hpp: buffers of pages by id, and the set of   *)
(* their ids that eviction takes the lowest of.                            *)
(***************************************************************************)
EXTENDS Integers, SequencesExt, FiniteSetsExt, Functions

CONSTANTS
  Ids,      \* page ids
  Limits    \* values of CacheConfig::max_pages

ASSUME CacheAssumption == Ids \subseteq Nat /\ Limits \subseteq Nat

VARIABLES
  max_pages,
  pages,    \* pages_: id -> buffer
  lru,      \* lru_: a std::set, so the order is that of the ids
  used      \* history variable: the ids that were used, the last one last

cacheVars == <<max_pages, pages, lru, used>>

\* What the bytes of a buffer are does not matter, only whether they changed.
Buffers == [bytes : {"first", "second"}, dirty : BOOLEAN]

CacheInit == max_pages \in Limits /\ pages = <<>> /\ lru = {} /\ used = <<>>

\* touch_ takes the id out of the set and puts it back: nothing gets younger.
Touched(ids, id) == (ids \ {id}) \cup {id}

GetPage(id) ==
  /\ id \in DOMAIN pages
  /\ lru' = Touched(lru, id)
  /\ UNCHANGED <<max_pages, pages>>

\* evict_one_, which has no look at the dirty flag.
Victims == CASE Cardinality(DOMAIN pages) < max_pages -> {}
             [] lru = {} -> {}
             [] OTHER    -> {Min(lru)}

\* MUTANT: the new buffer replaces the old one, and its dirty flag with it.
EmplacedOver(kept, id, buf) ==
  [i \in DOMAIN kept \cup {id} |-> IF i = id THEN buf ELSE kept[i]]

\* emplace leaves a buffer alone that is still there after the eviction.
Emplaced(kept, id, buf) ==
  [i \in DOMAIN kept \cup {id} |-> IF i \in DOMAIN kept THEN kept[i] ELSE buf]

PutPage(id, buf) ==
  /\ pages' = Emplaced(Restrict(pages, DOMAIN pages \ Victims), id, buf)
  /\ lru' = Touched(lru \ Victims, id)
  /\ UNCHANGED max_pages

MarkDirty(id) ==
  /\ id \in DOMAIN pages
  /\ pages' = [pages EXCEPT ![id].dirty = TRUE]
  /\ lru' = Touched(lru, id)
  /\ UNCHANGED max_pages

DirtyPages == {id \in DOMAIN pages : pages[id].dirty}

CacheNext == \E id \in Ids : /\ \/ GetPage(id)
                                \/ \E buf \in Buffers : PutPage(id, buf)
                                \/ MarkDirty(id)
                             /\ used' = Append(Remove(used, id), id)

CacheSpec == CacheInit /\ [][CacheNext]_cacheVars

-----------------------------------------------------------------------------
\* The dirty pages that a step takes out of the cache or changes.
LostDirty == {id \in DirtyPages : ~(id \in DOMAIN pages' /\ pages'[id] = pages[id])}

\* A dirty page is lost, or its buffer replaced, only by a put into a full cache,
\* and no put loses two; a put over a page that stays changes nothing of it (269).
\* And room is made whenever it must be: the cache never holds more than it may,
\* but for one page if it may hold none (266), and every page it holds can be
\* evicted. (Nothing is said here of which page goes.)
DirtyUntilEvicted ==
  [][/\ LostDirty # {} => Cardinality(DOMAIN pages) >= max_pages /\ \A i, j \in LostDirty : i = j
     /\ pages' \in [lru' -> Buffers]
     /\ Cardinality(lru') <= Max({1, max_pages})]_cacheVars

LastUse(id) == SelectInSeq(used, LAMBDA u : u = id)

\* begin() is "oldest" (302): the page that goes is the one whose last use is
\* the longest ago.
EvictsOldest ==
  [][\A gone \in DOMAIN pages \ DOMAIN pages' : \A id \in DOMAIN pages : LastUse(gone) <= LastUse(id)]_cacheVars
=============================================================================
