---------------------------- MODULE ZethaStorage ----------------------------
(***************************************************************************)
(* One ZethaStorage handle (ZethaSTORAGE.hpp) on one .zdb file: the        *)
(* in-memory index, the journal in the file, and every step in between at  *)
(* which a write can fail or the process can die.                          *)
(*                                                                         *)
(* A journal record is one cell of file, whatever its key and value are;   *)
(* offsets count cells from fh_.journal_begin.  len is where the file      *)
(* ends: reading at len or beyond is the short read that replay takes for  *)
(* a crash tail.  A cell at or beyond len is what a later write past the   *)
(* end of the file would uncover: Zero, unless a torn record left its      *)
(* leading bytes there.                                                    *)
(*                                                                         *)
(* The stream keeps one record (buf, at off - 1) in its buffer; the seekp  *)
(* of the next write flushes it, and the header, written last, is flushed  *)
(* when the stream is destroyed.                                           *)
(***************************************************************************)
EXTENDS ZethaJournal, FiniteSets

CONSTANTS
  MaxCells,         \* bound: journal records that fit the file
  MaxLsn,           \* bound: log sequence numbers a handle may reach
  MaxFails,         \* bound: failures in a behaviour
  Faults            \* the failures the environment may cause, see FaultKinds

FaultKinds == { "crash",     \* the process dies outside of defragment
                "write",     \* a record of an append cannot be written
                "end",       \* the TxnEnd of an append cannot be written
                "header",    \* the last flush, in the destructor, fails
                "read",      \* replay cannot open the file, or read on in it
                "maintain",  \* any of these, or a failed resize, in defragment
                "tear" }     \* the file loses its tail while it is closed

ASSUME StorageAssumption ==
  /\ IsFiniteSet(Keys)
  /\ MaxCells \in Nat
  /\ MaxLsn \in Nat
  /\ MaxFails \in Nat
  /\ Faults \subseteq FaultKinds

VARIABLES
  file, len, hdr,        \* disk: journal cells, end of file, journal_end
  pc, job,               \* where the handle is, and in which call
  fh, kv, lsn, txn,      \* fh_.journal_end kv_index_ next_lsn_ next_txn_id_
  cmd, left, off, buf,   \* locals of append_kv_journal_op_ and defragment
  scan,                  \* locals of replay_journal_
  reply,                 \* what the last finished call returned
  fails,                 \* failures so far
  durable,               \* history: the map written with the header on disk
  journaled,             \* history: the map the handle's journal is to hold
  trail                  \* history: trail[o] is what replay should know at o

disk    == <<file, len, hdr>>
handle  == <<fh, kv, lsn, txn>>
writer  == <<cmd, left, off, buf>>
history == <<durable, journaled, trail>>
vars    == <<disk, pc, job, handle, writer, scan, reply, fails, history>>

Offsets == 0 .. MaxCells
Cmds    == [op : {"Put", "Erase"}, key : Keys, val : Vals]
NoCmd   == [op |-> "Zero", key |-> NoKey, val |-> NoValue]

-----------------------------------------------------------------------------
TypeOK ==
  /\ file \in [Offsets -> Records \cup {Zero}]
  /\ len \in Offsets
  /\ hdr \in Offsets
  /\ pc \in {"closed", "idle", "begin", "op", "puts", "mark", "end", "header",
             "resize", "flush", "replay"}
  /\ job \in {"none", "append", "defragment", "open", "rebuild", "snapshot"}
  /\ fh \in Offsets
  /\ kv \in Maps
  /\ lsn \in Nat \ {0}
  /\ txn \in Nat \ {0}
  /\ cmd \in Cmds \cup {NoCmd}
  /\ left \subseteq Keys
  /\ off \in Offsets
  /\ buf \in Records \cup {Zero}
  /\ IsScan(scan)
  /\ reply \in {"none", "ok", "error", "corrupt"}
  /\ fails \in 0 .. MaxFails
  /\ durable \in Maps
  /\ journaled \in Maps
  /\ trail = [o \in Offsets |-> trail[o]]
  /\ \A o \in Offsets : IsScan(trail[o])

\* A failure happens: one of kind f, of "maintain" whenever defragment is at work.
Fail(f) == /\ (IF job = "defragment" THEN "maintain" ELSE f) \in Faults
           /\ fails < MaxFails
           /\ fails' = fails + 1

\* A call is over: its locals are gone.
Leave(where, r) == /\ pc' = where
                   /\ job' = "none"
                   /\ reply' = r
                   /\ cmd' = NoCmd
                   /\ left' = {}
                   /\ off' = 0
                   /\ buf' = Zero
                   /\ scan' = Fresh

\* The handle is destroyed; what it had not flushed is lost with it.
Gone(r) == /\ Leave("closed", r)
           /\ fh' = 0
           /\ kv' = Empty
           /\ lsn' = 1
           /\ txn' = 1
           /\ journaled' = Empty
           /\ UNCHANGED <<durable, trail>>

\* The file as create leaves it: an empty journal, and no handle yet.
Init == /\ file = [o \in Offsets |-> Zero]
        /\ len = 0
        /\ hdr = 0
        /\ pc = "closed"
        /\ job = "none"
        /\ fh = 0
        /\ kv = Empty
        /\ lsn = 1
        /\ txn = 1
        /\ cmd = NoCmd
        /\ left = {}
        /\ off = 0
        /\ buf = Zero
        /\ scan = Fresh
        /\ reply = "none"
        /\ fails = 0
        /\ durable = Empty
        /\ journaled = Empty
        /\ trail = [o \in Offsets |-> Fresh]

-----------------------------------------------------------------------------
(* Writing: append_kv_journal_op_ and defragment push records through      *)
(* write_kv_record_ and rewrite the header last.                           *)

Stamped(r) == [op |-> r.op, key |-> r.key, val |-> r.val, lsn |-> lsn, txn |-> txn - 1]
Control(o) == [op |-> o, key |-> NoKey, val |-> NoValue]
Binding(k) == [op |-> "Put", key |-> k, val |-> kv[k]]

\* The buffered record reaches the file, if there is one.
FlushBuf == IF buf = Zero
            THEN UNCHANGED <<file, len>>
            ELSE /\ file' = [file EXCEPT ![off - 1] = buf]
                 /\ len' = IF len < off THEN off ELSE len

\* write_kv_record_: next_lsn_ is taken, seekp flushes the previous record,
\* this one goes to the buffer.
Push(r) == /\ lsn' = lsn + 1
           /\ FlushBuf
           /\ buf' = Stamped(r)
           /\ off' = off + 1
           /\ trail' = [trail EXCEPT ![off + 1] = After(trail[off], Stamped(r))]
           /\ UNCHANGED <<hdr, job, fh, kv, txn, cmd, scan, reply, fails, durable, journaled>>

\* Mutant: the error of a failed write is not returned.
PushFailsSilently == /\ pc \in {"op", "puts", "mark", "end"}
                     /\ Fail("write")
                     /\ lsn' = lsn + 1
                     /\ FlushBuf \/ UNCHANGED <<file, len>>
                     /\ Leave("idle", "ok")
                     /\ UNCHANGED <<hdr, fh, kv, txn, history>>

\* The seekp of a write fails and the call returns the error; destroying the
\* stream tries the buffered record once more, which may succeed.
PushFails == /\ pc \in {"op", "puts", "mark", "end"}
             /\ Fail("write")
             /\ lsn' = lsn + 1
             /\ FlushBuf \/ UNCHANGED <<file, len>>
             /\ Leave("idle", "error")
             /\ UNCHANGED <<hdr, fh, kv, txn, history>>

\* Mutant: the append starts where defragment starts.
AtBegin  == 0
AppendAt == fh

\* insert and erase: the index changes first, then append_kv_journal_op_
\* opens the file, which may fail, and takes a transaction id.
Update(c) ==
  /\ pc = "idle"
  /\ fh + 3 <= MaxCells
  /\ lsn + 3 <= MaxLsn
  /\ kv' = [kv EXCEPT ![c.key] = c.val]
  /\ \/ /\ pc' = "begin"
        /\ job' = "append"
        /\ cmd' = c
        /\ off' = AppendAt
        /\ txn' = txn + 1
        /\ reply' = "none"
        /\ UNCHANGED <<left, buf, scan, fails>>
     \/ /\ Fail("write")
        /\ Leave("idle", "error")
        /\ UNCHANGED txn
  /\ UNCHANGED <<disk, fh, lsn, history>>

Insert(k, v) == Update([op |-> "Put", key |-> k, val |-> v])
Erase(k)     == Update([op |-> "Erase", key |-> k, val |-> NoValue])

\* defragment starts over at journal_begin, over the journal it replaces.
Defragment ==
  /\ pc = "idle"
  /\ left' = {k \in Keys : kv[k] # NoValue}
  /\ Cardinality(left') + 3 <= MaxCells
  /\ lsn + Cardinality(left') + 3 <= MaxLsn
  /\ pc' = "begin"
  /\ job' = "defragment"
  /\ off' = 0
  /\ txn' = txn + 1
  /\ reply' = "none"
  /\ UNCHANGED <<disk, fh, kv, lsn, cmd, buf, scan, fails, history>>

\* It cannot open the file.
DefragmentFails == /\ pc = "idle"
                   /\ Fail("maintain")
                   /\ Leave("idle", "error")
                   /\ UNCHANGED <<disk, handle, history>>

WriteBegin == /\ pc = "begin"
              /\ Push(Control("TxnBegin"))
              /\ pc' = IF job = "append" THEN "op" ELSE IF left = {} THEN "mark" ELSE "puts"
              /\ UNCHANGED left

WriteOp == /\ pc = "op"
           /\ Push(cmd)
           /\ pc' = "end"
           /\ UNCHANGED left

\* The bindings of kv_index_ one by one; their order does not matter here.
WritePut(k) == /\ pc = "puts"
               /\ k \in left
               /\ Push(Binding(k))
               /\ left' = left \ {k}
               /\ pc' = IF left' = {} THEN "mark" ELSE "puts"

WriteMark == /\ pc = "mark"
             /\ Push(Control("Defragment"))
             /\ pc' = "end"
             /\ UNCHANGED left

WriteEnd == /\ pc = "end"
            /\ Push(Control("TxnEnd"))
            /\ pc' = "header"
            /\ UNCHANGED left

\* What the journal is to hold once the call is through.
Intended == IF job = "append" THEN [journaled EXCEPT ![cmd.key] = cmd.val] ELSE kv

\* fh_.journal_end moves, then the seekp to the header flushes the TxnEnd.
WriteHeader == /\ pc = "header"
               /\ fh' = off
               /\ journaled' = Intended
               /\ FlushBuf
               /\ buf' = Zero
               /\ pc' = IF job = "append" THEN "flush" ELSE "resize"
               /\ UNCHANGED <<hdr, job, kv, lsn, txn, cmd, left, off, scan, reply,
                              fails, durable, trail>>

\* The flush of the TxnEnd fails: the call returns the error, but
\* fh_.journal_end has moved.
WriteHeaderFails == /\ pc = "header"
                    /\ Fail("end")
                    /\ fh' = off
                    /\ journaled' = Intended
                    /\ FlushBuf \/ UNCHANGED <<file, len>>
                    /\ Leave("idle", "error")
                    /\ UNCHANGED <<hdr, kv, lsn, txn, durable, trail>>

\* defragment truncates the file while the header is still in the buffer.
Resize == /\ pc = "resize"
          /\ len' = fh
          /\ file' = [o \in Offsets |-> IF o < fh THEN file[o] ELSE Zero]
          /\ pc' = "flush"
          /\ UNCHANGED <<hdr, job, handle, writer, scan, reply, fails, history>>

\* It fails; the header may still be flushed.
ResizeFails == /\ pc = "resize"
               /\ Fail("maintain")
               /\ \/ hdr' = fh /\ durable' = journaled
                  \/ UNCHANGED <<hdr, durable>>
               /\ Leave("idle", "error")
               /\ UNCHANGED <<file, len, handle, journaled, trail>>

\* The stream is destroyed as the call returns: the header reaches the file.
FlushHeader == /\ pc = "flush"
               /\ hdr' = fh
               /\ durable' = journaled
               /\ Leave("idle", "ok")
               /\ UNCHANGED <<file, len, handle, fails, journaled, trail>>

\* The destructor's flush fails: nobody is told.
FlushHeaderLost == /\ pc = "flush"
                   /\ Fail("header")
                   /\ Leave("idle", "ok")
                   /\ UNCHANGED <<disk, handle, history>>

-----------------------------------------------------------------------------
(* Reading: open, rebuild_from_journal and scan_snapshot_from_journal run  *)
(* replay_journal_, a record a step.                                       *)

\* Mutant: the target still holds the index.
NotCleared == [Fresh EXCEPT !.map = kv]
Cleared    == Fresh

Replay(call) == /\ reply' = "none"
                /\ job' = call
                /\ pc' = "replay"
                /\ scan' = Cleared
                /\ UNCHANGED <<disk, kv, lsn, txn, writer, fails, durable, trail>>

Open == /\ pc = "closed"
        /\ fh' = hdr
        /\ journaled' = durable
        /\ Replay("open")

Rebuild == /\ pc = "idle"
           /\ Replay("rebuild")
           /\ UNCHANGED <<fh, journaled>>

Snapshot == /\ pc = "idle"
            /\ Replay("snapshot")
            /\ UNCHANGED <<fh, journaled>>

\* The loop goes on: a record is there to be read.
Reading == pc = "replay" /\ off < fh /\ off < len

ReplayRecord == /\ Reading
                /\ Valid(scan, file[off])
                /\ scan' = After(scan, file[off])
                /\ off' = off + 1
                /\ UNCHANGED <<disk, pc, job, handle, cmd, left, buf, reply, fails,
                               history>>

\* A record out of order or out of place: open gives no handle, the others
\* keep theirs, rebuild_from_journal with the index it had got to.
ReplayCorrupt ==
  /\ Reading
  /\ ~Valid(scan, file[off])
  /\ \/ job = "open" /\ Gone("corrupt")
     \/ /\ job # "open"
        /\ Leave("idle", "corrupt")
        /\ kv' = IF job = "rebuild" THEN scan.map ELSE kv
        /\ UNCHANGED <<fh, lsn, txn, history>>
  /\ UNCHANGED <<disk, fails>>

\* Mutants: a short read is not the end; next_lsn_ is one too low.
EndedAtJournalEnd == off >= fh
LsnLast           == IF fh = 0 THEN lsn ELSE scan.last

Ended     == off >= fh \/ off >= len
ResumeLsn == IF fh = 0 THEN lsn ELSE scan.last + 1

\* The journal was replayed as far as it went: transactions still pending are
\* dropped.  An empty journal leaves next_lsn_ and next_txn_id_ as they are.
Replayed == /\ Leave("idle", "ok")
            /\ lsn' = ResumeLsn
            /\ txn' = IF fh = 0 THEN txn ELSE scan.top + 1
            /\ kv' = IF job = "snapshot" THEN kv ELSE scan.map
            /\ UNCHANGED <<disk, fh, history>>

ReplayDone == /\ pc = "replay"
              /\ Ended
              /\ Replayed
              /\ UNCHANGED fails

\* A read fails in the middle of the journal: that, too, is taken for its end.
ReadFails == /\ Reading
             /\ Fail("read")
             /\ Replayed

\* The file does not open.  The index is already cleared.
ReplayFails ==
  /\ pc = "replay" /\ off = 0 /\ fh > 0
  /\ Fail("read")
  /\ \/ job = "open" /\ Gone("error")
     \/ /\ job # "open"
        /\ Leave("idle", "error")
        /\ kv' = IF job = "rebuild" THEN Empty ELSE kv
        /\ UNCHANGED <<fh, lsn, txn, history>>
  /\ UNCHANGED disk

-----------------------------------------------------------------------------
(* The environment.                                                        *)

Close == /\ pc = "idle"
         /\ Gone("none")
         /\ UNCHANGED <<disk, fails>>

Crash == /\ pc \notin {"closed", "idle"}
         /\ Fail("crash")
         /\ Gone("none")
         /\ UNCHANGED disk

\* The closed file loses the records from k on; of record k the leading
\* bytes stay, of which the lost ones may all have been zero.
Tear == /\ pc = "closed"
        /\ Fail("tear")
        /\ \E k \in 0 .. len - 1 : \E torn \in {file[k], Zero} :
             /\ len' = k
             /\ file' = [o \in Offsets |-> IF o < k THEN file[o]
                                           ELSE IF o = k THEN torn ELSE Zero]
        /\ UNCHANGED <<hdr, pc, job, handle, writer, scan, reply, history>>

Step == \/ WriteBegin \/ WriteOp \/ WriteMark \/ WriteEnd
        \/ \E k \in Keys : WritePut(k)
        \/ PushFails \/ WriteHeader \/ WriteHeaderFails
        \/ Resize \/ ResizeFails \/ FlushHeader \/ FlushHeaderLost
        \/ ReplayRecord \/ ReplayCorrupt \/ ReplayDone \/ ReadFails \/ ReplayFails

Call == \/ Open \/ Close
        \/ \E k \in Keys, v \in Values : Insert(k, v)
        \/ \E k \in Keys : Erase(k)
        \/ Defragment \/ DefragmentFails \/ Rebuild \/ Snapshot

Next == Call \/ Step \/ Crash \/ Tear

Spec     == Init /\ [][Next]_vars
\* A call that was made runs on: nothing in it waits.
FairSpec == Spec /\ WF_vars(Step)

-----------------------------------------------------------------------------
(* What makes the types and the properties below inductive.                *)

\* Where a handle can be in which call, and what it then holds.
Placed ==
  /\ pc \in {"closed", "idle"} => job = "none" /\ off = 0
  /\ pc = "op" => job = "append"
  /\ pc \in {"puts", "mark", "resize"} => job = "defragment"
  /\ pc \in {"begin", "end", "header", "flush"} => job \in {"append", "defragment"}
  /\ pc = "replay" <=> job \in {"open", "rebuild", "snapshot"}
  /\ job = "append" => cmd \in Cmds
  /\ pc \in {"op", "puts", "mark", "end", "header"} <=> buf # Zero
  /\ buf # Zero => off > 0
  /\ pc = "puts" => left # {}
  /\ pc = "replay" => off <= fh

\* The records the call has still to write fit the file.
Fits == /\ off <= MaxCells
        /\ pc = "begin" /\ job = "append" => off + 3 <= MaxCells
        /\ pc = "op" => off + 2 <= MaxCells
        /\ pc = "begin" /\ job = "defragment" => off + Cardinality(left) + 3 <= MaxCells
        /\ pc = "puts" => off + Cardinality(left) + 2 <= MaxCells
        /\ pc = "mark" => off + 2 <= MaxCells
        /\ pc = "end" => off + 1 <= MaxCells

\* The transaction of the call is open where the next record goes.
InTxn == pc \in {"op", "puts", "mark", "end"} => txn - 1 \in DOMAIN trail[off].pend

TypeInv == TypeOK /\ Placed /\ Fits /\ InTxn

-----------------------------------------------------------------------------
(* Properties.                                                             *)

\* replay_journal_ never finds a journal corrupt that this code wrote.
NeverCorrupt == reply # "corrupt"

\* open brings back the map written with the last header that reached the
\* file: every update made durable, whole, and none that was not, whatever
\* crashed or failed in between.
OpenRestoresCommitted ==
  [][job = "open" /\ pc' = "idle" => kv' = durable]_vars

\* rebuild_from_journal repairs a memory that ran ahead of the journal in a
\* failed update: afterwards it is what the journal was written to hold,
\* however many updates failed before.
RebuildRepairs ==
  [][job = "rebuild" /\ pc' = "idle" => kv' = journaled]_vars

\* The journal is append-only (ZethaSTORAGE.hpp:120): but for defragment, no
\* step changes a record below the journal_end of the header, or lowers it.
CommittedUntouched ==
  [][job # "defragment" =>
       hdr' >= hdr /\ \A o \in 0 .. hdr - 1 : file'[o] = file[o]]_vars

\* Up to fh_.journal_end log sequence numbers rise, and next_lsn_ is above
\* all of them: what replay_journal_ demands, write_kv_record_ will give.
LsnRising ==
  pc = "idle" => \A o \in 0 .. fh - 1 :
                   file[o].lsn < IF o + 1 < fh THEN file[o + 1].lsn ELSE lsn

\* Whatever crash, failed write, failed read or lost tail comes first, open never
\* makes up a map: it reports the journal corrupt, or returns what the journal,
\* as last written, stood for at some offset.  This takes in a few failures in
\* defragment; with enough of them, old records may line up with new ones.
PrefixOrCorrupt ==
  [][job = "open" /\ pc' = "idle" => \E o \in 0 .. hdr : kv' = trail[o].map]_vars

\* Every call returns, unless its process dies.
CallsReturn == pc \notin {"closed", "idle"} ~> pc \in {"closed", "idle"}
=============================================================================
