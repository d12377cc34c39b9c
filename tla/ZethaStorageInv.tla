-------------------------- MODULE ZethaStorageInv --------------------------
(***************************************************************************)
(* Why the journal is never corrupt and open loses nothing: the inductive  *)
(* invariant of ZethaStorage for the failures that leave it intact, which  *)
(* are all that happen outside of defragment but for a torn file, a TxnEnd *)
(* that cannot be flushed, and reads that fail.  And the refinement        *)
(* mapping from ZethaStorage to KvStore.                                   *)
(***************************************************************************)
EXTENDS ZethaStorage

SafeFaults == {"crash", "write", "header"}

Writing == pc \in {"begin", "op", "puts", "mark", "end", "header"}

\* The journal as the next reader will find it: the buffered record included,
\* up to where the handle, or without one the header, has it end.
Cell(o) == IF buf # Zero /\ o = off - 1 THEN buf ELSE file[o]
End     == IF pc = "closed" THEN hdr ELSE IF Writing THEN off ELSE fh

\* The record at o is one a reader expects there, and takes it to trail[o + 1].
Follows(o) == /\ Cell(o) \in Records
              /\ Valid(trail[o], Cell(o))
              /\ trail[o + 1] = After(trail[o], Cell(o))

Linked == trail[0] = Fresh /\ \A o \in 0 .. End - 1 : Follows(o)

\* At o no transaction is open, and the journal stands for m.
Settled(o, m) == trail[o].map = m /\ DOMAIN trail[o].pend = {}

\* At o the transaction of the call has done ops, and the journal stands for m.
Within(o, m, ops) == /\ trail[o].map = m
                     /\ DOMAIN trail[o].pend = {txn - 1}
                     /\ trail[o].pend[txn - 1] = ops

\* Outside of defragment, what the header on disk points at is whole.
DiskWhole == job # "defragment" => /\ hdr <= len
                                   /\ pc # "closed" => hdr <= fh
                                   /\ Settled(hdr, durable)

\* So is what the handle points at, until defragment starts over.
HandleWhole == pc # "closed" /\ (job = "defragment" => pc \in {"resize", "flush"}) =>
                 fh <= len /\ Settled(fh, journaled)

\* The next log sequence number is above all of the journal.
LsnAbove == /\ pc # "closed" /\ job # "open" => lsn > trail[End].last
            /\ job = "append" => lsn > trail[fh].last

\* The file has every record but the buffered one.
Covered == Writing => len >= IF buf = Zero THEN off ELSE off - 1

\* How far an append has got, beyond the journal it extends.
Appending ==
  job = "append" =>
    /\ pc = "begin" => off = fh
    /\ pc \in {"op", "end", "header"} => off > fh
    /\ pc = "op" => Within(off, journaled, NoOps)
    /\ pc = "end" => Within(off, journaled, With(NoOps, cmd.key, cmd.val))
    /\ pc = "header" => Settled(off, Intended)

\* How far defragment has got: the bindings no longer left are written.
Present == {k \in Keys : kv[k] # NoValue}
Defragmenting ==
  job = "defragment" =>
    /\ pc = "begin" => off = 0 /\ left = Present
    /\ pc \in {"mark", "end"} => left = {}
    /\ pc \in {"puts", "mark", "end"} =>
         /\ left \subseteq Present
         /\ Within(off, Empty, [k \in Present \ left |-> kv[k]])
    /\ pc = "header" => Settled(off, kv)

\* A reader knows what it should, and one that opens starts from the disk.
ReadingWell == pc = "replay" => /\ scan = trail[off]
                                /\ job = "open" => fh = hdr /\ journaled = durable

SafeInv == /\ TypeInv /\ Linked /\ DiskWhole /\ HandleWhole /\ LsnAbove
           /\ Covered /\ Appending /\ Defragmenting /\ ReadingWell
           /\ reply # "corrupt"

-----------------------------------------------------------------------------
(* Why open never makes up a map: reads may fail as well, and the file     *)
(* lose its tail, so that the journal may be unreadable from some record   *)
(* on; but nothing fails in defragment.                                    *)

TornFaults == SafeFaults \cup {"read", "tear"}

\* Up to end a reader of the cells f knows what the trail t says, or stops.
Legible(f, t, end) ==
  \E j \in 0 .. end :
    /\ \A o \in 0 .. j - 1 : t[o + 1] = After(t[o], f[o])
    /\ j = end \/ ~Valid(t[j], f[j])

DiskLegible == job # "defragment" => Legible(file, trail, hdr) /\ (pc # "closed" => hdr <= fh)

HandleLegible == pc # "closed" /\ (job = "defragment" => pc \in {"resize", "flush"}) =>
                   Legible(file, trail, fh)

\* What the call has written so far is what trail has, expected there or not.
Start  == IF job = "defragment" THEN 0 ELSE fh
Traced == Writing => /\ off >= Start /\ (buf # Zero => off > Start)
                     /\ \A o \in Start .. off - 1 : trail[o + 1] = After(trail[o], Cell(o))

\* A reader that opens has come across expected records only.
OpeningWell == job = "open" => /\ fh = hdr /\ scan = trail[off]
                               /\ \A o \in 0 .. off - 1 : Valid(trail[o], file[o])

PrefixInv == TypeInv /\ trail[0] = Fresh /\ DiskLegible /\ HandleLegible /\ Traced /\ OpeningWell

-----------------------------------------------------------------------------
(* The journal keeps the promises of KvStore: an opening handle is still   *)
(* down, an append is the one update in progress, and what is durable is   *)
(* what the header on disk was written for.                                *)

Mode == CASE pc = "closed" \/ job = "open"                   -> "down"
          [] job = "append"                                  -> "writing"
          [] job \in {"defragment", "rebuild", "snapshot"}   -> "maintaining"
          [] OTHER                                           -> "ready"

CallInProgress == IF job = "append" THEN [key |-> cmd.key, val |-> cmd.val]
                                    ELSE "no call"

KV == INSTANCE KvStore WITH mode <- Mode, mem <- kv, durable <- durable,
                            call <- CallInProgress, reply <- reply

\* insert, erase, open and the maintenance calls (ZethaSTORAGE.hpp:630-693)
\* keep every promise of KvStore: "ok" is said of no update that a crash, a
\* failed write or a maintenance call could still undo.
KeepsPromises == KV!Spec
=============================================================================
