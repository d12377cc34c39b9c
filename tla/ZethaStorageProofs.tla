------------------------- MODULE ZethaStorageProofs -------------------------
(***************************************************************************)
(* Theorems about ZethaStorage, for any keys, values and bounds: types;    *)
(* that crashes, failed writes and lost headers outside of defragment      *)
(* never corrupt the journal and never undo or invent a committed update   *)
(* (SafeInv is inductive, and the properties of ZethaStorage follow from   *)
(* it); and that the journal implements KvStore.                           *)
(***************************************************************************)
EXTENDS ZethaStorageInv, FiniteSetTheorems, TLAPS

-----------------------------------------------------------------------------
(* The operators on transactions and reader states keep their types.       *)

LEMMA ZeroIsNoRecord == Zero \notin Records
BY DEF Zero, Records, Controls

LEMMA FreshIsScan == IsScan(Fresh)
BY DEF IsScan, Fresh, Maps, Empty, Vals, IsOps, NoOps

LEMMA EmptyIsMap == Empty \in Maps
BY DEF Maps, Empty, Vals

LEMMA WithOps ==
  ASSUME NEW ops, IsOps(ops), NEW k \in Keys, NEW v \in Vals
  PROVE  IsOps(With(ops, k, v))
BY DEF IsOps, With

LEMMA NoOpsIsOps == IsOps(NoOps)
BY DEF IsOps, NoOps

LEMMA ApplyIsMap ==
  ASSUME NEW m \in Maps, NEW ops, IsOps(ops)
  PROVE  Apply(m, ops) \in Maps
BY DEF Apply, Maps, IsOps

\* A record of a transaction that is open leaves a reader in a proper state.
LEMMA AfterIsScan ==
  ASSUME NEW s, IsScan(s), NEW r \in Records,
         r.op # "TxnBegin" => r.txn \in DOMAIN s.pend
  PROVE  IsScan(After(s, r))
<1> DEFINE p == Pending(s.pend, r)
<1>1. /\ r.lsn \in Nat
      /\ r.txn \in Nat
      /\ r.op \in {"Put", "Erase"} => r.key \in Keys /\ r.val \in Vals
      /\ r.op \in {"TxnBegin", "Put", "Erase", "Defragment", "TxnEnd"}
  BY DEF Records, Controls
<1>2. /\ p = [t \in DOMAIN p |-> p[t]]
      /\ DOMAIN p \subseteq Nat
      /\ \A t \in DOMAIN p : IsOps(p[t])
  <2>1. CASE r.op = "TxnBegin"
    <3>1. p = With(s.pend, r.txn, NoOps)
      BY <2>1 DEF Pending
    <3>2. QED BY <3>1, <1>1, NoOpsIsOps DEF With, IsScan
  <2>2. CASE r.op \in {"Put", "Erase"}
    <3> DEFINE ops == With(s.pend[r.txn], r.key, r.val)
    <3>1. p = With(s.pend, r.txn, ops)
      BY <2>2 DEF Pending
    <3>2. IsOps(ops)
      BY <2>2, <1>1, WithOps DEF IsScan
    <3> HIDE DEF ops
    <3>3. QED BY <3>1, <3>2, <1>1 DEF With, IsScan
  <2>3. CASE r.op = "Defragment"
    BY <2>3 DEF Pending, IsScan
  <2>4. CASE r.op = "TxnEnd"
    <3>1. p = Without(s.pend, r.txn)
      BY <2>4 DEF Pending
    <3>2. QED BY <3>1 DEF Without, IsScan
  <2>5. QED BY <1>1, <2>1, <2>2, <2>3, <2>4
<1>3. (IF r.op = "TxnEnd" THEN Apply(s.map, s.pend[r.txn]) ELSE s.map) \in Maps
  BY ApplyIsMap DEF IsScan
<1>4. (IF r.txn > s.top THEN r.txn ELSE s.top) \in Nat
  BY <1>1 DEF IsScan
<1> HIDE DEF p
<1>5. QED BY <1>1, <1>2, <1>3, <1>4 DEF After, IsScan, p

-----------------------------------------------------------------------------
(* Types, under every failure.                                             *)

LEMMA OffsetsTyped == MaxCells \in Nat /\ IsFiniteSet(Keys)
BY StorageAssumption

\* The buffered record, when it reaches the file, reaches a cell of it.
LEMMA FlushTyped ==
  ASSUME TypeInv, FlushBuf \/ UNCHANGED <<file, len>>
  PROVE  /\ file' \in [Offsets -> Records \cup {Zero}]
         /\ len' \in Offsets
BY OffsetsTyped DEF TypeInv, TypeOK, Placed, FlushBuf, Offsets

\* A call that is over leaves no local behind.
LEMMA LeaveTyped ==
  ASSUME NEW w \in {"closed", "idle"}, NEW r \in {"none", "ok", "error", "corrupt"},
         Leave(w, r)
  PROVE  /\ pc' = w /\ job' = "none" /\ reply' = r
         /\ cmd' \in Cmds \cup {NoCmd} /\ left' \subseteq Keys /\ left' = {}
         /\ off' \in Offsets /\ off' = 0 /\ buf' = Zero /\ IsScan(scan')
BY FreshIsScan, OffsetsTyped DEF Leave, Offsets

\* A record of the transaction of the call keeps the types.
LEMMA PushTyped ==
  ASSUME TypeInv, NEW r, Push(r), off + 1 <= MaxCells, Stamped(r) \in Records,
         r.op # "TxnBegin" => txn - 1 \in DOMAIN trail[off].pend
  PROVE  /\ lsn' \in Nat \ {0}
         /\ file' \in [Offsets -> Records \cup {Zero}]
         /\ len' \in Offsets
         /\ buf' \in Records /\ buf' # Zero
         /\ off' \in Offsets /\ off' = off + 1 /\ off' > 0
         /\ trail' = [o \in Offsets |-> trail'[o]]
         /\ \A o \in Offsets : IsScan(trail'[o])
         /\ r.op \notin {"TxnBegin", "TxnEnd"} => txn - 1 \in DOMAIN trail'[off'].pend
         /\ r.op = "TxnBegin" => txn - 1 \in DOMAIN trail'[off'].pend
         /\ UNCHANGED <<hdr, job, fh, kv, txn, cmd, scan, reply, fails, durable, journaled>>
<1> DEFINE rec == Stamped(r)
<1>1. rec.op = r.op /\ rec.txn = txn - 1
  BY DEF Stamped
<1>2. off \in Offsets /\ off + 1 \in Offsets /\ off + 1 > 0 /\ off + 1 # off
  BY OffsetsTyped DEF TypeInv, TypeOK, Offsets
<1>3. IsScan(trail[off])
  BY <1>2 DEF TypeInv, TypeOK
<1>4. IsScan(After(trail[off], rec))
  BY <1>1, <1>3, AfterIsScan
<1>5. /\ trail' = [trail EXCEPT ![off + 1] = After(trail[off], rec)]
      /\ buf' = rec
      /\ off' = off + 1
      /\ lsn' = lsn + 1
      /\ FlushBuf
      /\ UNCHANGED <<hdr, job, fh, kv, txn, cmd, scan, reply, fails, durable, journaled>>
  BY DEF Push
<1>6. r.op # "TxnEnd" => txn - 1 \in DOMAIN Pending(trail[off].pend, rec)
  BY <1>1 DEF Pending, With
<1>7. After(trail[off], rec).pend = Pending(trail[off].pend, rec)
  BY DEF After
<1>8. buf' # Zero
  BY <1>5, ZeroIsNoRecord
<1>9. trail = [o \in Offsets |-> trail[o]] /\ \A o \in Offsets : IsScan(trail[o])
  BY DEF TypeInv, TypeOK
<1>10. trail'[off + 1] = After(trail[off], rec)
  BY <1>2, <1>5, <1>9
<1>11. lsn \in Nat \ {0}
  BY DEF TypeInv, TypeOK
<1> HIDE DEF rec
<1>12. /\ trail' = [o \in Offsets |-> trail'[o]]
       /\ \A o \in Offsets : IsScan(trail'[o])
  BY <1>2, <1>4, <1>5, <1>9
<1>13. lsn' \in Nat \ {0}
  BY <1>5, <1>11
<1>14. file' \in [Offsets -> Records \cup {Zero}] /\ len' \in Offsets
  BY <1>5, FlushTyped
<1>15. QED BY <1>2, <1>5, <1>6, <1>7, <1>8, <1>10, <1>12, <1>13, <1>14 DEF rec

LEMMA TypeInvInit == Init => TypeInv
<1> SUFFICES ASSUME Init PROVE TypeInv
  OBVIOUS
<1>1. TypeOK
  BY OffsetsTyped, StorageAssumption, FreshIsScan
     DEF Init, TypeOK, Offsets, Maps, Empty, Vals
<1>2. Placed /\ Fits /\ InTxn
  BY OffsetsTyped DEF Init, Placed, Fits, InTxn
<1>3. QED BY <1>1, <1>2 DEF TypeInv

LEMMA TypeInvNext == TypeInv /\ [Next]_vars => TypeInv'
<1> SUFFICES ASSUME TypeInv, [Next]_vars PROVE TypeInv'
  OBVIOUS
<1> USE OffsetsTyped
<1>0. TypeOK /\ Placed /\ Fits /\ InTxn /\ off \in Nat /\ len \in Nat
  BY DEF TypeInv, TypeOK, Offsets
<1>1. CASE WriteBegin
  <2> DEFINE r == Control("TxnBegin")
  <2>1. Push(r) /\ pc = "begin" /\ left' = left
        /\ pc' = IF job = "append" THEN "op" ELSE IF left = {} THEN "mark" ELSE "puts"
    BY <1>1 DEF WriteBegin
  <2>2. r.op = "TxnBegin" /\ Stamped(r) \in Records
    BY <1>0 DEF Control, Stamped, Records, Controls, TypeOK
  <2>3. job \in {"append", "defragment"} /\ buf = Zero
    BY <1>0, <2>1 DEF Placed
  <2>4. /\ left \subseteq Keys
        /\ Cardinality(left) \in Nat
        /\ left = {} <=> Cardinality(left) = 0
    BY <1>0, FS_Subset, FS_CardinalityType, FS_EmptySet DEF TypeOK
  <2>5. off + 1 <= MaxCells
    BY <1>0, <2>1, <2>3, <2>4 DEF Fits
  <2> HIDE DEF r
  <2>6. TypeOK' /\ InTxn'
    BY <1>0, <2>1, <2>2, <2>5, PushTyped DEF TypeOK, InTxn
  <2>7. Placed'
    BY <1>0, <2>1, <2>2, <2>3, <2>5, PushTyped DEF Placed
  <2>8. Fits'
    BY <1>0, <2>1, <2>2, <2>3, <2>4, <2>5, PushTyped DEF Fits
  <2>9. QED BY <2>6, <2>7, <2>8 DEF TypeInv
<1>2. CASE WriteOp
  <2>1. Push(cmd) /\ pc = "op" /\ left' = left /\ pc' = "end"
    BY <1>2 DEF WriteOp
  <2>2. job = "append" /\ cmd \in Cmds
    BY <1>0, <2>1 DEF Placed
  <2>3. cmd.op \in {"Put", "Erase"} /\ Stamped(cmd) \in Records
    BY <1>0, <2>2 DEF Cmds, Stamped, Records, TypeOK
  <2>4. off + 1 <= MaxCells /\ off + 2 <= MaxCells /\ txn - 1 \in DOMAIN trail[off].pend
    BY <1>0, <2>1 DEF Fits, InTxn
  <2>5. TypeOK' /\ InTxn'
    BY <1>0, <2>1, <2>3, <2>4, PushTyped DEF TypeOK, InTxn
  <2>6. Placed' /\ Fits'
    BY <1>0, <2>1, <2>2, <2>3, <2>4, PushTyped DEF Placed, Fits
  <2>7. QED BY <2>5, <2>6 DEF TypeInv
<1>3. ASSUME NEW k \in Keys, WritePut(k) PROVE TypeInv'
  <2> DEFINE r == Binding(k)
  <2>1. /\ pc = "puts" /\ k \in left /\ Push(r) /\ left' = left \ {k}
        /\ pc' = IF left' = {} THEN "mark" ELSE "puts"
    BY <1>3 DEF WritePut
  <2>2. r.op = "Put" /\ Stamped(r) \in Records
    BY <1>0 DEF Binding, Stamped, Records, TypeOK, Maps
  <2>3. job = "defragment" /\ IsFiniteSet(left)
    BY <1>0, <2>1, FS_Subset DEF Placed, TypeOK
  <2>4. /\ Cardinality(left) \in Nat /\ Cardinality(left') \in Nat
        /\ Cardinality(left') = Cardinality(left) - 1
    BY <2>1, <2>3, FS_RemoveElement, FS_CardinalityType, FS_Subset
  <2>5. off + 1 <= MaxCells /\ txn - 1 \in DOMAIN trail[off].pend
    BY <1>0, <2>1, <2>4 DEF Fits, InTxn
  <2> HIDE DEF r
  <2>6. TypeOK' /\ InTxn'
    BY <1>0, <2>1, <2>2, <2>5, PushTyped DEF TypeOK, InTxn
  <2>7. Placed'
    BY <1>0, <2>1, <2>2, <2>3, <2>5, PushTyped DEF Placed
  <2>8. Fits'
    BY <1>0, <2>1, <2>2, <2>3, <2>4, <2>5, PushTyped DEF Fits
  <2>9. QED BY <2>6, <2>7, <2>8 DEF TypeInv
<1>4. CASE WriteMark
  <2> DEFINE r == Control("Defragment")
  <2>1. Push(r) /\ pc = "mark" /\ left' = left /\ pc' = "end"
    BY <1>4 DEF WriteMark
  <2>2. r.op = "Defragment" /\ Stamped(r) \in Records
    BY <1>0 DEF Control, Stamped, Records, Controls, TypeOK
  <2>3. job = "defragment"
    BY <1>0, <2>1 DEF Placed
  <2>4. off + 1 <= MaxCells /\ off + 2 <= MaxCells /\ txn - 1 \in DOMAIN trail[off].pend
    BY <1>0, <2>1 DEF Fits, InTxn
  <2> HIDE DEF r
  <2>5. TypeOK' /\ InTxn'
    BY <1>0, <2>1, <2>2, <2>4, PushTyped DEF TypeOK, InTxn
  <2>6. Placed' /\ Fits'
    BY <1>0, <2>1, <2>2, <2>3, <2>4, PushTyped DEF Placed, Fits
  <2>7. QED BY <2>5, <2>6 DEF TypeInv
<1>5. CASE WriteEnd
  <2> DEFINE r == Control("TxnEnd")
  <2>1. Push(r) /\ pc = "end" /\ left' = left /\ pc' = "header"
    BY <1>5 DEF WriteEnd
  <2>2. r.op = "TxnEnd" /\ Stamped(r) \in Records
    BY <1>0 DEF Control, Stamped, Records, Controls, TypeOK
  <2>3. job \in {"append", "defragment"}
    BY <1>0, <2>1 DEF Placed
  <2>4. off + 1 <= MaxCells /\ txn - 1 \in DOMAIN trail[off].pend
    BY <1>0, <2>1 DEF Fits, InTxn
  <2> HIDE DEF r
  <2>5. TypeOK' /\ InTxn'
    BY <1>0, <2>1, <2>2, <2>4, PushTyped DEF TypeOK, InTxn
  <2>6. Placed' /\ Fits'
    BY <1>0, <2>1, <2>2, <2>3, <2>4, PushTyped DEF Placed, Fits
  <2>7. QED BY <2>5, <2>6 DEF TypeInv
<1>6. CASE PushFails
  <2>1. /\ FlushBuf \/ UNCHANGED <<file, len>>
        /\ Leave("idle", "error") /\ lsn' = lsn + 1 /\ fails < MaxFails /\ fails' = fails + 1
        /\ UNCHANGED <<hdr, fh, kv, txn, durable, journaled, trail>>
    BY <1>6 DEF PushFails, Fail, history
  <2>2. TypeOK'
    BY <1>0, <2>1, FlushTyped, LeaveTyped, StorageAssumption DEF TypeOK
  <2>3. Placed' /\ Fits' /\ InTxn'
    BY <2>1, LeaveTyped DEF Placed, Fits, InTxn
  <2>4. QED BY <2>2, <2>3 DEF TypeInv
<1>7. CASE WriteHeader \/ WriteHeaderFails
  <2>1. /\ pc = "header" /\ fh' = off /\ journaled' = Intended
        /\ FlushBuf \/ UNCHANGED <<file, len>>
        /\ buf' = Zero
        /\ \/ /\ pc' = IF job = "append" THEN "flush" ELSE "resize"
              /\ UNCHANGED <<job, cmd, left, off, scan, reply, fails>>
           \/ Leave("idle", "error") /\ fails < MaxFails /\ fails' = fails + 1
        /\ UNCHANGED <<hdr, kv, lsn, txn, durable, trail>>
    BY <1>7 DEF WriteHeader, WriteHeaderFails, Fail, Leave
  <2>2. journaled' \in Maps
    <3>1. CASE job = "append"
      BY <1>0, <2>1, <3>1 DEF Intended, Placed, Cmds, TypeOK, Maps
    <3>2. CASE job # "append"
      BY <1>0, <2>1, <3>2 DEF Intended, TypeOK
    <3>3. QED BY <3>1, <3>2
  <2>3. job \in {"append", "defragment"}
    BY <1>0, <2>1 DEF Placed
  <2>4. TypeOK'
    BY <1>0, <2>1, <2>2, FlushTyped, LeaveTyped, StorageAssumption DEF TypeOK
  <2>5. Placed' /\ Fits' /\ InTxn'
    BY <1>0, <2>1, <2>3, LeaveTyped DEF Placed, Fits, InTxn
  <2>6. QED BY <2>4, <2>5 DEF TypeInv
<1>8. CASE Resize
  <2>1. TypeOK'
    BY <1>0, <1>8 DEF Resize, TypeOK, handle, writer, history, Offsets
  <2>2. Placed' /\ Fits' /\ InTxn'
    BY <1>0, <1>8 DEF Resize, handle, writer, history, Placed, Fits, InTxn
  <2>3. QED BY <2>1, <2>2 DEF TypeInv
<1>9. CASE ResizeFails \/ FlushHeader \/ FlushHeaderLost \/ DefragmentFails
  <2>1. /\ \/ hdr' = fh /\ durable' = journaled
           \/ UNCHANGED <<hdr, durable>>
        /\ \E r \in {"ok", "error"} : Leave("idle", r)
        /\ fails' = fails \/ (fails < MaxFails /\ fails' = fails + 1)
        /\ UNCHANGED <<file, len, fh, kv, lsn, txn, journaled, trail>>
    BY <1>9 DEF ResizeFails, FlushHeader, FlushHeaderLost, DefragmentFails, Fail, handle,
                disk, history
  <2>2. PICK r \in {"ok", "error"} : Leave("idle", r)
    BY <2>1
  <2>3. TypeOK'
    BY <1>0, <2>1, <2>2, LeaveTyped, StorageAssumption DEF TypeOK
  <2>4. Placed' /\ Fits' /\ InTxn'
    BY <2>2, LeaveTyped DEF Placed, Fits, InTxn
  <2>5. QED BY <2>3, <2>4 DEF TypeInv
<1>10. CASE ReplayRecord
  <2>1. /\ pc = "replay" /\ off < fh /\ off < len
        /\ Valid(scan, file[off]) /\ scan' = After(scan, file[off]) /\ off' = off + 1
        /\ UNCHANGED <<file, len, hdr, pc, job, fh, kv, lsn, txn, cmd, left, buf, reply,
                       fails, durable, journaled, trail>>
    BY <1>10 DEF ReplayRecord, Reading, disk, handle, history
  <2>2. off' \in Offsets /\ off' <= MaxCells /\ off' <= fh
    BY <1>0, <2>1 DEF TypeOK, Offsets
  <2>3. IsScan(scan) /\ scan.last \in Nat
    BY <1>0 DEF TypeOK, IsScan
  <2>4. file[off] # Zero
    BY <2>1, <2>3 DEF Valid, Zero
  <2>5. file[off] \in Records
    BY <1>0, <2>1, <2>4 DEF TypeOK, Offsets
  <2>6. IsScan(scan')
    BY <2>1, <2>3, <2>5, AfterIsScan DEF Valid
  <2>7. TypeOK'
    BY <1>0, <2>1, <2>2, <2>6 DEF TypeOK
  <2>8. Placed' /\ Fits' /\ InTxn'
    BY <1>0, <2>1, <2>2 DEF Placed, Fits, InTxn
  <2>9. QED BY <2>7, <2>8 DEF TypeInv
<1>11. CASE ReplayCorrupt \/ ReplayFails
  <2>1. /\ \E w \in {"closed", "idle"}, r \in {"error", "corrupt"} : Leave(w, r)
        /\ kv' \in {Empty, kv, scan.map}
        /\ lsn' \in {1, lsn} /\ txn' \in {1, txn} /\ fh' \in {0, fh}
        /\ journaled' \in {Empty, journaled}
        /\ fails' = fails \/ (fails < MaxFails /\ fails' = fails + 1)
        /\ UNCHANGED <<file, len, hdr, durable, trail>>
    BY <1>11 DEF ReplayCorrupt, ReplayFails, Gone, Fail, disk, history
  <2>2. PICK w \in {"closed", "idle"}, r \in {"error", "corrupt"} : Leave(w, r)
    BY <2>1
  <2>3. kv' \in Maps /\ journaled' \in Maps
    BY <1>0, <2>1, EmptyIsMap DEF TypeOK, IsScan
  <2>4. lsn' \in Nat \ {0} /\ txn' \in Nat \ {0} /\ fh' \in Offsets
    BY <1>0, <2>1 DEF TypeOK, Offsets
  <2>5. TypeOK'
    BY <1>0, <2>1, <2>2, <2>3, <2>4, LeaveTyped, StorageAssumption DEF TypeOK
  <2>6. Placed' /\ Fits' /\ InTxn'
    BY <2>2, LeaveTyped DEF Placed, Fits, InTxn
  <2>7. QED BY <2>5, <2>6 DEF TypeInv
<1>12. CASE ReplayDone \/ ReadFails
  <2>1. /\ Leave("idle", "ok")
        /\ lsn' \in {lsn, scan.last + 1} /\ txn' \in {txn, scan.top + 1}
        /\ kv' \in {kv, scan.map}
        /\ fails' = fails \/ (fails < MaxFails /\ fails' = fails + 1)
        /\ UNCHANGED <<file, len, hdr, fh, durable, journaled, trail>>
    BY <1>12 DEF ReplayDone, ReadFails, Replayed, ResumeLsn, Fail, disk, history
  <2>2. TypeOK'
    BY <1>0, <2>1, LeaveTyped, StorageAssumption DEF TypeOK, IsScan
  <2>3. Placed' /\ Fits' /\ InTxn'
    BY <2>1, LeaveTyped DEF Placed, Fits, InTxn
  <2>4. QED BY <2>2, <2>3 DEF TypeInv
<1>13. CASE Open \/ Rebuild \/ Snapshot
  <2>1. /\ pc \in {"closed", "idle"} /\ pc' = "replay"
        /\ job' \in {"open", "rebuild", "snapshot"} /\ reply' = "none" /\ scan' = Fresh
        /\ fh' \in {hdr, fh} /\ journaled' \in {durable, journaled}
        /\ UNCHANGED <<file, len, hdr, kv, lsn, txn, cmd, left, off, buf, fails, durable, trail>>
    BY <1>13 DEF Open, Rebuild, Snapshot, Replay, Cleared, disk, writer
  <2>2. buf = Zero /\ job = "none" /\ off = 0
    BY <1>0, <2>1 DEF Placed
  <2>3. TypeOK'
    BY <1>0, <2>1, FreshIsScan DEF TypeOK
  <2>4. Placed' /\ Fits' /\ InTxn'
    BY <1>0, <2>1, <2>2, <2>3 DEF Placed, Fits, InTxn, TypeOK, Offsets
  <2>5. QED BY <2>3, <2>4 DEF TypeInv
<1>14. CASE Close \/ Crash
  <2>1. /\ Gone("none") /\ UNCHANGED <<file, len, hdr>>
        /\ fails' = fails \/ (fails < MaxFails /\ fails' = fails + 1)
    BY <1>14 DEF Close, Crash, Fail, disk
  <2>2. Leave("closed", "none")
    BY <2>1 DEF Gone
  <2>3. TypeOK'
    BY <1>0, <2>1, <2>2, LeaveTyped, EmptyIsMap, StorageAssumption DEF Gone, TypeOK, Offsets
  <2>4. Placed' /\ Fits' /\ InTxn'
    BY <2>2, LeaveTyped DEF Placed, Fits, InTxn
  <2>5. QED BY <2>3, <2>4 DEF TypeInv
<1>15. ASSUME NEW c \in Cmds, Update(c) PROVE TypeInv'
  <2>1. /\ pc = "idle" /\ fh + 3 <= MaxCells /\ kv' = [kv EXCEPT ![c.key] = c.val]
        /\ \/ /\ pc' = "begin" /\ job' = "append" /\ cmd' = c /\ off' = AppendAt
              /\ txn' = txn + 1 /\ reply' = "none"
              /\ UNCHANGED <<left, buf, scan, fails>>
           \/ /\ Leave("idle", "error") /\ UNCHANGED txn
              /\ fails < MaxFails /\ fails' = fails + 1
        /\ UNCHANGED <<file, len, hdr, fh, lsn, durable, journaled, trail>>
    BY <1>15 DEF Update, Fail, disk, history
  <2>2. kv' \in Maps
    BY <1>0, <2>1 DEF TypeOK, Maps, Cmds
  <2>3. fh \in Nat /\ fh \in Offsets
    BY <1>0 DEF TypeOK, Offsets
  <2>4. TypeOK'
    BY <1>0, <2>1, <2>2, <2>3, LeaveTyped, StorageAssumption DEF TypeOK, AppendAt
  <2>5. Placed' /\ Fits' /\ InTxn'
    BY <1>0, <2>1, <2>3, LeaveTyped DEF Placed, Fits, InTxn, AppendAt
  <2>6. QED BY <2>4, <2>5 DEF TypeInv
<1>16. CASE Defragment
  <2>1. /\ pc = "idle" /\ left' \subseteq Keys /\ Cardinality(left') + 3 <= MaxCells
        /\ pc' = "begin" /\ job' = "defragment" /\ off' = 0 /\ txn' = txn + 1
        /\ reply' = "none"
        /\ UNCHANGED <<file, len, hdr, fh, kv, lsn, cmd, buf, scan, fails,
                       durable, journaled, trail>>
    BY <1>16 DEF Defragment, disk, history
  <2>2. Cardinality(left') \in Nat
    BY <2>1, FS_Subset, FS_CardinalityType
  <2>3. TypeOK'
    BY <1>0, <2>1 DEF TypeOK, Offsets
  <2>4. Placed' /\ Fits' /\ InTxn'
    BY <1>0, <2>1, <2>2 DEF Placed, Fits, InTxn
  <2>5. QED BY <2>3, <2>4 DEF TypeInv
<1>17. CASE Tear
  <2>1. /\ pc = "closed" /\ fails < MaxFails /\ fails' = fails + 1
        /\ UNCHANGED <<hdr, pc, job, fh, kv, lsn, txn, cmd, left, off, buf, scan, reply,
                       durable, journaled, trail>>
    BY <1>17 DEF Tear, Fail, handle, writer, history
  <2>2. PICK k \in 0 .. len - 1 : \E torn \in {file[k], Zero} :
             /\ len' = k
             /\ file' = [o \in Offsets |-> IF o < k THEN file[o]
                                           ELSE IF o = k THEN torn ELSE Zero]
    BY <1>17 DEF Tear
  <2>3. k \in Offsets
    BY <1>0 DEF TypeOK, Offsets
  <2>4. TypeOK'
    BY <1>0, <2>1, <2>2, <2>3, StorageAssumption DEF TypeOK
  <2>5. Placed' /\ Fits' /\ InTxn'
    BY <1>0, <2>1 DEF Placed, Fits, InTxn
  <2>6. QED BY <2>4, <2>5 DEF TypeInv
<1>18. CASE UNCHANGED vars
  BY <1>18 DEF vars, disk, handle, writer, history, TypeInv, TypeOK, Placed, Fits, InTxn
<1>19. ASSUME NEW k \in Keys, NEW v \in Values, Insert(k, v) PROVE TypeInv'
  BY <1>15, <1>19 DEF Insert, Cmds, Vals
<1>20. ASSUME NEW k \in Keys, Erase(k) PROVE TypeInv'
  BY <1>15, <1>20 DEF Erase, Cmds, Vals
<1>21. QED
  BY <1>1, <1>2, <1>3, <1>4, <1>5, <1>6, <1>7, <1>8, <1>9, <1>10, <1>11, <1>12, <1>13,
     <1>14, <1>16, <1>17, <1>18, <1>19, <1>20 DEF Next, Call, Step

\* Every variable keeps its type, whatever fails: no record of a journal and
\* no state of a reader is ever malformed.
THEOREM TypeCorrect == Spec => []TypeOK
<1>1. TypeInv => TypeOK
  BY DEF TypeInv
<1>2. QED BY <1>1, TypeInvInit, TypeInvNext, PTL DEF Spec

-----------------------------------------------------------------------------
(* Records put behind one another.                                         *)

LEMMA SafeTypes ==
  ASSUME SafeInv
  PROVE  /\ TypeInv /\ TypeOK /\ Placed
         /\ off \in Nat /\ len \in Nat /\ fh \in Nat /\ hdr \in Nat
         /\ off <= MaxCells /\ fh <= MaxCells /\ hdr <= MaxCells /\ len <= MaxCells
         /\ lsn \in Nat /\ txn \in Nat /\ MaxCells \in Nat
         /\ trail = [o \in Offsets |-> trail[o]]
         /\ file = [o \in Offsets |-> file[o]]
         /\ \A o \in Offsets : trail[o].last \in Nat
<1>1. TypeInv /\ TypeOK /\ Placed
  BY DEF SafeInv, TypeInv
<1>2. \A o \in Offsets : trail[o].last \in Nat
  BY <1>1 DEF TypeOK, IsScan
<1>3. QED BY <1>1, <1>2, OffsetsTyped DEF TypeOK, Offsets

\* What a Push of r leaves: one more record followed, the others as they were.
Extended(r) ==
  /\ \A o \in 0 .. off : Follows(o)'
  /\ \A o \in 0 .. off : trail'[o] = trail[o]
  /\ trail'[off + 1] = After(trail[off], Stamped(r))
  /\ lsn' > trail'[off + 1].last /\ lsn' > lsn /\ lsn' \in Nat
  /\ len' >= off /\ len' >= len /\ len' \in Nat
  /\ buf' # Zero /\ off' = off + 1
  /\ UNCHANGED <<hdr, job, fh, kv, txn, cmd, scan, reply, fails, durable, journaled>>

\* A record fit to be pushed: it has room, and its transaction is open, or is
\* opened by it.
Fit(r) == /\ Writing
          /\ Push(r)
          /\ off + 1 <= MaxCells
          /\ Stamped(r) \in Records
          /\ (r.op = "TxnBegin") = (txn - 1 \notin DOMAIN trail[off].pend)

LEMMA PushLinks == ASSUME SafeInv, NEW r, Fit(r) PROVE Extended(r)
<1> USE SafeTypes
<1>1. /\ Writing
      /\ off + 1 <= MaxCells
      /\ Stamped(r) \in Records
      /\ (r.op = "TxnBegin") = (txn - 1 \notin DOMAIN trail[off].pend)
      /\ lsn' = lsn + 1
      /\ FlushBuf
      /\ buf' = Stamped(r)
      /\ off' = off + 1
      /\ trail' = [trail EXCEPT ![off + 1] = After(trail[off], Stamped(r))]
      /\ UNCHANGED <<hdr, job, fh, kv, txn, cmd, scan, reply, fails, durable, journaled>>
  BY DEF Push, Fit
<1>2. buf' # Zero
  BY <1>1, ZeroIsNoRecord
<1>3. \A o \in 0 .. off : trail'[o] = trail[o]
  BY <1>1 DEF Offsets
<1>4. trail'[off + 1] = After(trail[off], Stamped(r))
  BY <1>1 DEF Offsets
<1>5. \A o \in 0 .. off - 1 : Cell(o)' = Cell(o)
  <2>1. CASE buf = Zero
    BY <2>1, <1>1 DEF Cell, FlushBuf
  <2>2. CASE buf # Zero
    <3>1. file' = [file EXCEPT ![off - 1] = buf] /\ off - 1 \in Offsets
      BY <2>2, <1>1 DEF FlushBuf, Placed, Offsets
    <3>2. QED BY <3>1, <2>2, <1>1 DEF Cell, Offsets
  <2>3. QED BY <2>1, <2>2
<1>6. ASSUME NEW o \in {off} PROVE Cell(o)' = Stamped(r)
  BY <1>1, <1>2 DEF Cell
<1>7. \A o \in 0 .. off - 1 : Follows(o)
  BY <1>1 DEF SafeInv, Linked, End, Writing
<1>8. \A o \in 0 .. off - 1 : Follows(o)'
  <2> SUFFICES ASSUME NEW o \in 0 .. off - 1 PROVE Follows(o)'
    OBVIOUS
  <2>1. trail'[o] = trail[o] /\ trail'[o + 1] = trail[o + 1]
    BY <1>3
  <2>2. QED BY <2>1, <1>5, <1>7 DEF Follows
<1>9. lsn > trail[off].last
  BY <1>1 DEF SafeInv, LsnAbove, End, Writing, Placed
<1>10. Valid(trail[off], Stamped(r))
  BY <1>1, <1>9 DEF Valid, Stamped
<1>11. ASSUME NEW o \in {off} PROVE Follows(o)'
  BY <1>1, <1>3, <1>4, <1>6, <1>10 DEF Follows
<1>12. lsn' > trail'[off + 1].last /\ lsn' > lsn /\ lsn' \in Nat
  BY <1>1, <1>4 DEF After, Stamped
<1>13. len' >= off /\ len' >= len /\ len' \in Nat
  BY <1>1, FlushTyped, SMTT(30) DEF SafeInv, Covered, FlushBuf, Offsets
<1>14. \A o \in 0 .. off : Follows(o)'
  BY <1>8, <1>11
<1>15. QED BY <1>1, <1>2, <1>3, <1>4, <1>12, <1>13, <1>14 DEF Extended

\* What does not depend on which record is written.
LEMMA PushKeeps ==
  ASSUME SafeInv, NEW r, Fit(r), Writing'
  PROVE  /\ Linked' /\ DiskWhole' /\ HandleWhole' /\ LsnAbove' /\ Covered'
         /\ ReadingWell' /\ reply' # "corrupt"
         /\ job = "append" => off' > fh'
<1> USE SafeTypes
<1>0. Writing /\ Extended(r)
  BY PushLinks DEF Fit
<1>1. job \in {"append", "defragment"} /\ pc # "closed" /\ pc' # "closed"
  BY <1>0 DEF Writing, Placed
<1>2. job = "append" => fh <= off /\ hdr <= fh /\ fh <= len
  BY <1>0, <1>1 DEF SafeInv, Appending, DiskWhole, HandleWhole, Writing, Placed
<1>3. End' = off + 1 /\ End = off
  BY <1>0 DEF End, Writing, Extended
<1>4. trail'[0] = Fresh
  BY <1>0 DEF SafeInv, Linked, Extended
<1>5. Linked'
  BY <1>0, <1>3, <1>4 DEF Linked, Extended
<1>6. /\ job' = job /\ hdr' = hdr /\ fh' = fh /\ durable' = durable
      /\ journaled' = journaled /\ len' >= len /\ len' \in Nat
      /\ \A o \in 0 .. off : trail'[o] = trail[o]
  BY <1>0 DEF Extended
<1>7. job = "append" => trail'[fh] = trail[fh] /\ trail'[hdr] = trail[hdr] /\ hdr <= len
  BY <1>1, <1>2, <1>6
<1>8. DiskWhole'
  BY <1>1, <1>2, <1>6, <1>7 DEF SafeInv, DiskWhole, Settled
<1>9. HandleWhole'
  BY <1>1, <1>2, <1>6, <1>7 DEF SafeInv, HandleWhole, Settled, Writing
<1>10. LsnAbove'
  <2>1. lsn' > trail'[End'].last /\ lsn' > lsn /\ lsn' \in Nat
    BY <1>0, <1>3 DEF Extended
  <2>2. job = "append" => lsn > trail[fh].last /\ trail[fh].last \in Nat
    BY DEF SafeInv, LsnAbove, Offsets
  <2>3. QED BY <1>6, <1>7, <2>1, <2>2 DEF LsnAbove
<1>11. Covered' /\ ReadingWell' /\ reply' # "corrupt"
  BY <1>0 DEF Covered, ReadingWell, SafeInv, Writing, Extended
<1>12. job = "append" => off' > fh'
  BY <1>0, <1>2 DEF Extended
<1>13. QED BY <1>5, <1>8, <1>9, <1>10, <1>11, <1>12

\* A TxnBegin opens an empty transaction, ...
LEMMA AfterBegin ==
  ASSUME NEW s, DOMAIN s.pend = {}, NEW r, r.op = "TxnBegin"
  PROVE  /\ After(s, r).map = s.map
         /\ DOMAIN After(s, r).pend = {r.txn}
         /\ After(s, r).pend[r.txn] = NoOps
BY DEF After, Pending, With

\* ... an operation joins it, ...
LEMMA AfterOp ==
  ASSUME NEW s, NEW r, r.op \in {"Put", "Erase"}, DOMAIN s.pend = {r.txn}
  PROVE  /\ After(s, r).map = s.map
         /\ DOMAIN After(s, r).pend = {r.txn}
         /\ After(s, r).pend[r.txn] = With(s.pend[r.txn], r.key, r.val)
BY DEF After, Pending, With

\* ... and a TxnEnd applies all of it.
LEMMA AfterEnd ==
  ASSUME NEW s, NEW r, r.op = "TxnEnd", DOMAIN s.pend = {r.txn}
  PROVE  /\ After(s, r).map = Apply(s.map, s.pend[r.txn])
         /\ DOMAIN After(s, r).pend = {}
BY DEF After, Pending, Without

\* One update applied is the map with the key set.
LEMMA ApplyOne ==
  ASSUME NEW m \in Maps, NEW k \in Keys, NEW v
  PROVE  Apply(m, With(NoOps, k, v)) = [m EXCEPT ![k] = v]
BY DEF Apply, With, NoOps, Maps

\* All the bindings of a map applied to the empty one are the map.
LEMMA ApplyAll ==
  ASSUME NEW m \in Maps
  PROVE  Apply(Empty, [k \in {j \in Keys : m[j] # NoValue} |-> m[k]]) = m
BY DEF Apply, Empty, Maps

-----------------------------------------------------------------------------
(* The steps of a write.                                                   *)

LEMMA BeginSafe == ASSUME SafeInv, WriteBegin, TypeInv' PROVE SafeInv'
<1> USE SafeTypes
<1> DEFINE r == Control("TxnBegin")
<1>1. /\ pc = "begin" /\ Push(r) /\ left' = left
      /\ pc' = IF job = "append" THEN "op" ELSE IF left = {} THEN "mark" ELSE "puts"
  BY DEF WriteBegin
<1>2. r.op = "TxnBegin" /\ Stamped(r).op = "TxnBegin" /\ Stamped(r).txn = txn - 1
  BY DEF Control, Stamped
<1>3. Stamped(r) \in Records /\ Writing /\ Writing'
  BY <1>1 DEF Control, Stamped, Records, Controls, TypeOK, Writing
<1>4. job \in {"append", "defragment"}
  BY <1>1 DEF Placed
<1>5. /\ DOMAIN trail[off].pend = {}
      /\ job = "append" => trail[off].map = journaled
      /\ job = "defragment" => trail[off].map = Empty /\ left = Present
  BY <1>1, <1>4
     DEF SafeInv, Appending, Defragmenting, HandleWhole, Settled, Linked, Fresh
<1>6. off + 1 <= MaxCells
  BY <1>1 DEF Push, TypeInv, TypeOK, Offsets
<1> HIDE DEF r
<1>7. Fit(r)
  BY <1>1, <1>2, <1>3, <1>5, <1>6 DEF Fit
<1>8. Extended(r)
  BY <1>7, PushLinks
<1>9. /\ Linked' /\ DiskWhole' /\ HandleWhole' /\ LsnAbove' /\ Covered'
      /\ ReadingWell' /\ reply' # "corrupt"
      /\ job = "append" => off' > fh'
  BY <1>3, <1>7, PushKeeps
<1>10. /\ trail'[off'].map = trail[off].map
       /\ DOMAIN trail'[off'].pend = {txn' - 1}
       /\ trail'[off'].pend[txn' - 1] = NoOps
  BY <1>2, <1>5, <1>8, AfterBegin, SMTT(30) DEF Extended
<1>11. job' = job /\ kv' = kv /\ journaled' = journaled
  BY <1>8 DEF Extended
<1>12. Appending'
  BY <1>1, <1>4, <1>5, <1>9, <1>10, <1>11 DEF Appending, Within
<1>13. Present' = Present /\ [k \in Present \ Present |-> kv[k]] = NoOps
  BY <1>11 DEF Present, NoOps
<1>14. Defragmenting'
  BY <1>1, <1>4, <1>5, <1>10, <1>11, <1>13 DEF Defragmenting, Within
<1>15. QED BY <1>9, <1>12, <1>14 DEF SafeInv
LEMMA OpSafe == ASSUME SafeInv, WriteOp, TypeInv' PROVE SafeInv'
<1> USE SafeTypes
<1>1. pc = "op" /\ Push(cmd) /\ left' = left /\ pc' = "end"
  BY DEF WriteOp
<1>2. job = "append" /\ cmd \in Cmds
  BY <1>1 DEF Placed
<1>3. /\ cmd.op \in {"Put", "Erase"} /\ Stamped(cmd) \in Records
      /\ Stamped(cmd).op = cmd.op /\ Stamped(cmd).txn = txn - 1
      /\ Stamped(cmd).key = cmd.key /\ Stamped(cmd).val = cmd.val
  BY <1>2 DEF Cmds, Stamped, Records, TypeOK
<1>4. Within(off, journaled, NoOps)
  BY <1>1, <1>2 DEF SafeInv, Appending
<1>5. off + 1 <= MaxCells
  BY <1>1 DEF Push, TypeInv, TypeOK, Offsets
<1>6. Fit(cmd) /\ Writing'
  BY <1>1, <1>3, <1>4, <1>5 DEF Fit, Within, Writing
<1>7. Extended(cmd)
  BY <1>6, PushLinks
<1>8. /\ Linked' /\ DiskWhole' /\ HandleWhole' /\ LsnAbove' /\ Covered'
      /\ ReadingWell' /\ reply' # "corrupt"
      /\ job = "append" => off' > fh'
  BY <1>6, PushKeeps
<1>9. /\ trail'[off'].map = journaled
      /\ DOMAIN trail'[off'].pend = {txn - 1}
      /\ trail'[off'].pend[txn - 1] = With(NoOps, cmd.key, cmd.val)
  BY <1>3, <1>4, <1>7, AfterOp DEF Extended, Within
<1>10. job' = job /\ journaled' = journaled /\ cmd' = cmd /\ txn' = txn
  BY <1>7 DEF Extended
<1>11. Appending' /\ Defragmenting'
  BY <1>1, <1>2, <1>8, <1>9, <1>10 DEF Appending, Defragmenting, Within
<1>12. QED BY <1>8, <1>11 DEF SafeInv

LEMMA PutSafe == ASSUME SafeInv, NEW k \in Keys, WritePut(k), TypeInv' PROVE SafeInv'
<1> USE SafeTypes
<1> DEFINE r == Binding(k)
           ops == [j \in Present \ left |-> kv[j]]
<1>1. /\ pc = "puts" /\ k \in left /\ Push(r) /\ left' = left \ {k}
      /\ pc' = IF left' = {} THEN "mark" ELSE "puts"
  BY DEF WritePut
<1>2. job = "defragment"
  BY <1>1 DEF Placed
<1>3. /\ r.op = "Put" /\ Stamped(r) \in Records
      /\ Stamped(r).op = "Put" /\ Stamped(r).txn = txn - 1
      /\ Stamped(r).key = k /\ Stamped(r).val = kv[k]
  BY DEF Binding, Stamped, Records, TypeOK, Maps
<1>4. left \subseteq Present /\ Within(off, Empty, ops)
  BY <1>1, <1>2 DEF SafeInv, Defragmenting
<1>5. off + 1 <= MaxCells
  BY <1>1 DEF Push, TypeInv, TypeOK, Offsets
<1>6. With(ops, k, kv[k]) = [j \in Present \ (left \ {k}) |-> kv[j]]
  BY <1>1, <1>4 DEF With
<1> HIDE DEF r, ops
<1>7. Fit(r) /\ Writing'
  BY <1>1, <1>3, <1>4, <1>5 DEF Fit, Within, Writing
<1>8. Extended(r)
  BY <1>7, PushLinks
<1>9. /\ Linked' /\ DiskWhole' /\ HandleWhole' /\ LsnAbove' /\ Covered'
      /\ ReadingWell' /\ reply' # "corrupt"
  BY <1>7, PushKeeps
<1>10. /\ trail'[off'].map = Empty
       /\ DOMAIN trail'[off'].pend = {txn - 1}
       /\ trail'[off'].pend[txn - 1] = [j \in Present \ left' |-> kv[j]]
  BY <1>1, <1>3, <1>4, <1>6, <1>8, AfterOp DEF Extended, Within
<1>11. job' = job /\ kv' = kv /\ txn' = txn
  BY <1>8 DEF Extended
<1>12. Present' = Present
  BY <1>11 DEF Present
<1>13. Appending' /\ Defragmenting'
  BY <1>1, <1>2, <1>4, <1>10, <1>11, <1>12 DEF Appending, Defragmenting, Within
<1>14. QED BY <1>9, <1>13 DEF SafeInv

LEMMA MarkSafe == ASSUME SafeInv, WriteMark, TypeInv' PROVE SafeInv'
<1> USE SafeTypes
<1> DEFINE r == Control("Defragment")
<1>1. pc = "mark" /\ Push(r) /\ left' = left /\ pc' = "end"
  BY DEF WriteMark
<1>2. job = "defragment"
  BY <1>1 DEF Placed
<1>3. /\ r.op = "Defragment" /\ Stamped(r) \in Records
      /\ Stamped(r).op = "Defragment" /\ Stamped(r).txn = txn - 1
  BY DEF Control, Stamped, Records, Controls, TypeOK
<1>4. left = {} /\ Within(off, Empty, [j \in Present \ left |-> kv[j]])
  BY <1>1, <1>2 DEF SafeInv, Defragmenting
<1>5. off + 1 <= MaxCells
  BY <1>1 DEF Push, TypeInv, TypeOK, Offsets
<1> HIDE DEF r
<1>6. Fit(r) /\ Writing'
  BY <1>1, <1>3, <1>4, <1>5 DEF Fit, Within, Writing
<1>7. Extended(r)
  BY <1>6, PushLinks
<1>8. /\ Linked' /\ DiskWhole' /\ HandleWhole' /\ LsnAbove' /\ Covered'
      /\ ReadingWell' /\ reply' # "corrupt"
  BY <1>6, PushKeeps
<1>9. trail'[off'].map = trail[off].map /\ trail'[off'].pend = trail[off].pend
  BY <1>3, <1>7 DEF Extended, After, Pending
<1>10. job' = job /\ kv' = kv /\ txn' = txn
  BY <1>7 DEF Extended
<1>11. Present' = Present
  BY <1>10 DEF Present
<1>12. Appending' /\ Defragmenting'
  BY <1>1, <1>2, <1>4, <1>9, <1>10, <1>11 DEF Appending, Defragmenting, Within
<1>13. QED BY <1>8, <1>12 DEF SafeInv

LEMMA EndSafe == ASSUME SafeInv, WriteEnd, TypeInv' PROVE SafeInv'
<1> USE SafeTypes
<1> DEFINE r == Control("TxnEnd")
<1>1. pc = "end" /\ Push(r) /\ left' = left /\ pc' = "header"
  BY DEF WriteEnd
<1>2. job \in {"append", "defragment"}
  BY <1>1 DEF Placed
<1>3. /\ r.op = "TxnEnd" /\ Stamped(r) \in Records
      /\ Stamped(r).op = "TxnEnd" /\ Stamped(r).txn = txn - 1
  BY DEF Control, Stamped, Records, Controls, TypeOK
<1>4. /\ DOMAIN trail[off].pend = {txn - 1}
      /\ Apply(trail[off].map, trail[off].pend[txn - 1])
           = IF job = "append" THEN Intended ELSE kv
  <2>1. CASE job = "append"
    <3>1. Within(off, journaled, With(NoOps, cmd.key, cmd.val))
      BY <1>1, <2>1 DEF SafeInv, Appending
    <3>2. cmd \in Cmds /\ journaled \in Maps
      BY <2>1 DEF Placed, TypeOK
    <3>3. QED BY <2>1, <3>1, <3>2, ApplyOne DEF Within, Intended, Cmds
  <2>2. CASE job = "defragment"
    <3>1. left = {} /\ Within(off, Empty, [j \in Present \ left |-> kv[j]])
      BY <1>1, <2>2 DEF SafeInv, Defragmenting
    <3>2. Within(off, Empty, [j \in Present |-> kv[j]]) /\ kv \in Maps
      BY <3>1 DEF TypeOK
    <3>3. QED BY <2>2, <3>2, ApplyAll DEF Within, Present
  <2>3. QED BY <1>2, <2>1, <2>2
<1>5. off + 1 <= MaxCells
  BY <1>1 DEF Push, TypeInv, TypeOK, Offsets
<1> HIDE DEF r
<1>6. Fit(r) /\ Writing'
  BY <1>1, <1>3, <1>4, <1>5 DEF Fit, Writing
<1>7. Extended(r)
  BY <1>6, PushLinks
<1>8. /\ Linked' /\ DiskWhole' /\ HandleWhole' /\ LsnAbove' /\ Covered'
      /\ ReadingWell' /\ reply' # "corrupt"
      /\ job = "append" => off' > fh'
  BY <1>6, PushKeeps
<1>9. /\ trail'[off'].map = IF job = "append" THEN Intended ELSE kv
      /\ DOMAIN trail'[off'].pend = {}
  BY <1>3, <1>4, <1>7, AfterEnd DEF Extended
<1>10. job' = job /\ kv' = kv /\ cmd' = cmd /\ journaled' = journaled
  BY <1>7 DEF Extended
<1>11. Intended' = Intended
  BY <1>10 DEF Intended
<1>12. Appending' /\ Defragmenting'
  BY <1>1, <1>2, <1>8, <1>9, <1>10, <1>11 DEF Appending, Defragmenting, Settled
<1>13. QED BY <1>8, <1>12 DEF SafeInv
\* Flushing the buffer, or failing to, leaves the records before it alone.
LEMMA FlushKeeps ==
  ASSUME SafeInv, FlushBuf \/ UNCHANGED <<file, len>>
  PROVE  /\ \A o \in 0 .. off - 2 : file'[o] = file[o] /\ Cell(o) = file[o]
         /\ FlushBuf => \A o \in 0 .. off - 1 : file'[o] = Cell(o)
         /\ len' >= len /\ len' \in Nat
         /\ Writing /\ FlushBuf => len' >= off
<1> USE SafeTypes
<1>1. buf # Zero => off - 1 \in Offsets
  BY DEF Placed, Offsets
<1>2. CASE UNCHANGED <<file, len>> /\ ~FlushBuf
  BY <1>2 DEF Cell
<1>3. CASE buf = Zero
  BY <1>3 DEF FlushBuf, Cell, SafeInv, Covered
<1>4. CASE buf # Zero /\ FlushBuf
  <2>1. file' = [file EXCEPT ![off - 1] = buf] /\ len' = IF len < off THEN off ELSE len
    BY <1>4 DEF FlushBuf
  <2>2. \A o \in 0 .. off - 1 : file'[o] = Cell(o)
    BY <1>1, <1>4, <2>1 DEF Cell, Offsets
  <2>3. \A o \in 0 .. off - 2 : Cell(o) = file[o]
    BY <1>4 DEF Cell
  <2>4. QED BY <2>1, <2>2, <2>3
<1>5. QED BY <1>2, <1>3, <1>4

LEMMA PushFailsSafe ==
  ASSUME Faults \subseteq SafeFaults, SafeInv, PushFails, TypeInv'
  PROVE  SafeInv'
<1> USE SafeTypes
<1>1. /\ pc \in {"op", "puts", "mark", "end"} /\ job # "defragment"
      /\ lsn' = lsn + 1
      /\ FlushBuf \/ UNCHANGED <<file, len>>
      /\ Leave("idle", "error")
      /\ UNCHANGED <<hdr, fh, kv, txn, durable, journaled, trail>>
  BY DEF PushFails, Fail, SafeFaults, history
<1>2. pc' = "idle" /\ job' = "none" /\ reply' = "error" /\ buf' = Zero
  BY <1>1 DEF Leave
<1>3. job = "append" /\ off > fh /\ Writing
  BY <1>1 DEF Placed, SafeInv, Appending, Writing
<1>4. /\ \A o \in 0 .. off - 2 : file'[o] = file[o] /\ Cell(o) = file[o]
      /\ len' >= len /\ len' \in Nat
  BY <1>1, FlushKeeps
<1>5. End = off /\ End' = fh
  BY <1>1, <1>2, <1>3 DEF End, Writing
<1>6. \A o \in 0 .. fh - 1 : Follows(o) /\ Cell(o) = Cell(o)'
  BY <1>2, <1>3, <1>4, <1>5 DEF SafeInv, Linked, Cell
<1>7. Linked'
  BY <1>1, <1>5, <1>6 DEF SafeInv, Linked, Follows
<1>8. DiskWhole' /\ HandleWhole'
  BY <1>1, <1>2, <1>3, <1>4 DEF SafeInv, DiskWhole, HandleWhole, Settled
<1>9. LsnAbove'
  <2>1. lsn > trail[fh].last /\ trail[fh].last \in Nat
    BY <1>3 DEF SafeInv, LsnAbove, Offsets
  <2>2. lsn' > trail[fh].last
    BY <1>1, <2>1
  <2>3. trail'[End'].last = trail[fh].last
    BY <1>1, <1>5
  <2>4. QED BY <1>2, <2>2, <2>3 DEF LsnAbove
<1>10. Covered' /\ Appending' /\ Defragmenting' /\ ReadingWell'
  BY <1>2 DEF Covered, Appending, Defragmenting, ReadingWell, Writing
<1>11. QED BY <1>2, <1>7, <1>8, <1>9, <1>10 DEF SafeInv

LEMMA HeaderSafe == ASSUME SafeInv, WriteHeader, TypeInv' PROVE SafeInv'
<1> USE SafeTypes
<1>1. /\ pc = "header" /\ fh' = off /\ journaled' = Intended /\ FlushBuf /\ buf' = Zero
      /\ pc' = IF job = "append" THEN "flush" ELSE "resize"
      /\ UNCHANGED <<hdr, job, kv, lsn, txn, cmd, left, off, scan, reply, fails,
                     durable, trail>>
  BY DEF WriteHeader
<1>2. job \in {"append", "defragment"} /\ Writing
  BY <1>1 DEF Placed, Writing
<1>3. /\ \A o \in 0 .. off - 1 : file'[o] = Cell(o)
      /\ len' >= len /\ len' \in Nat /\ len' >= off
  BY <1>1, <1>2, FlushKeeps
<1>4. End = off /\ End' = off
  BY <1>1, <1>2 DEF End, Writing
<1>5. \A o \in 0 .. off - 1 : Follows(o) /\ Cell(o) = Cell(o)'
  BY <1>1, <1>3, <1>4 DEF SafeInv, Linked, Cell
<1>6. Linked'
  BY <1>1, <1>4, <1>5 DEF SafeInv, Linked, Follows
<1>7. Settled(off, journaled')
  BY <1>1, <1>2 DEF SafeInv, Appending, Defragmenting, Intended
<1>8. HandleWhole'
  BY <1>1, <1>3, <1>7 DEF HandleWhole, Settled
<1>9. DiskWhole'
  BY <1>1, <1>2, <1>3 DEF SafeInv, DiskWhole, Appending, Settled
<1>10. LsnAbove'
  BY <1>1, <1>4 DEF SafeInv, LsnAbove
<1>11. Covered' /\ Appending' /\ Defragmenting' /\ ReadingWell' /\ reply' # "corrupt"
  BY <1>1 DEF SafeInv, Covered, Appending, Defragmenting, ReadingWell, Writing
<1>12. QED BY <1>6, <1>8, <1>9, <1>10, <1>11 DEF SafeInv

LEMMA ResizeSafe == ASSUME SafeInv, Resize, TypeInv' PROVE SafeInv'
<1> USE SafeTypes
<1>1. /\ pc = "resize" /\ pc' = "flush" /\ len' = fh
      /\ file' = [o \in Offsets |-> IF o < fh THEN file[o] ELSE Zero]
      /\ UNCHANGED <<hdr, job, fh, kv, lsn, txn, cmd, left, off, buf, scan, reply,
                     fails, durable, journaled, trail>>
  BY DEF Resize, handle, writer, history
<1>2. job = "defragment" /\ buf = Zero
  BY <1>1 DEF Placed
<1>3. End = fh /\ End' = fh
  BY <1>1 DEF End, Writing
<1>4. \A o \in 0 .. fh - 1 : Follows(o) /\ Cell(o) = Cell(o)'
  BY <1>1, <1>2, <1>3 DEF SafeInv, Linked, Cell, Offsets
<1>5. Linked'
  BY <1>1, <1>3, <1>4 DEF SafeInv, Linked, Follows
<1>6. DiskWhole' /\ HandleWhole' /\ LsnAbove'
  BY <1>1, <1>2, <1>3 DEF SafeInv, DiskWhole, HandleWhole, LsnAbove, Settled
<1>7. Covered' /\ Appending' /\ Defragmenting' /\ ReadingWell' /\ reply' # "corrupt"
  BY <1>1, <1>2 DEF SafeInv, Covered, Appending, Defragmenting, ReadingWell, Writing
<1>8. QED BY <1>5, <1>6, <1>7 DEF SafeInv

\* Whether the header arrives or, in an append, not.
LEMMA LeaveFlushSafe ==
  ASSUME Faults \subseteq SafeFaults, SafeInv, FlushHeader \/ FlushHeaderLost, TypeInv'
  PROVE  SafeInv'
<1> USE SafeTypes
<1>1. /\ pc = "flush" /\ Leave("idle", "ok")
      /\ \/ hdr' = fh /\ durable' = journaled
         \/ UNCHANGED <<hdr, durable>> /\ job # "defragment"
      /\ UNCHANGED <<file, len, fh, kv, lsn, txn, journaled, trail>>
  BY DEF FlushHeader, FlushHeaderLost, Fail, SafeFaults, disk, handle, history
<1>2. pc' = "idle" /\ job' = "none" /\ reply' = "ok" /\ buf' = Zero /\ buf = Zero
  BY <1>1 DEF Leave, Placed
<1>3. job \in {"append", "defragment"}
  BY <1>1 DEF Placed
<1>4. End = fh /\ End' = fh
  BY <1>1, <1>2 DEF End, Writing
<1>5. Linked'
  BY <1>1, <1>2, <1>4 DEF SafeInv, Linked, Follows, Cell
<1>6. HandleWhole' /\ fh <= len /\ Settled(fh, journaled)
  BY <1>1, <1>2, <1>3 DEF SafeInv, HandleWhole, Settled
<1>7. DiskWhole'
  BY <1>1, <1>2, <1>3, <1>6 DEF SafeInv, DiskWhole, Settled
<1>8. LsnAbove'
  BY <1>1, <1>2, <1>3, <1>4 DEF SafeInv, LsnAbove
<1>9. Covered' /\ Appending' /\ Defragmenting' /\ ReadingWell'
  BY <1>2 DEF Covered, Appending, Defragmenting, ReadingWell, Writing
<1>10. QED BY <1>2, <1>5, <1>6, <1>7, <1>8, <1>9 DEF SafeInv
-----------------------------------------------------------------------------
(* The steps of a reader, and the rest.                                    *)

\* The record a reader is about to read is the one that should be there.
LEMMA ReadsWhatFollows ==
  ASSUME SafeInv, Reading
  PROVE  /\ Valid(scan, file[off])
         /\ After(scan, file[off]) = trail[off + 1]
<1> USE SafeTypes
<1>1. pc = "replay" /\ off < fh /\ buf = Zero /\ scan = trail[off]
  BY DEF Reading, Placed, SafeInv, ReadingWell
<1>2. Follows(off) /\ Cell(off) = file[off]
  BY <1>1 DEF SafeInv, Linked, End, Writing, Cell
<1>3. QED BY <1>1, <1>2 DEF Follows

LEMMA ReadSafe == ASSUME SafeInv, ReplayRecord, TypeInv' PROVE SafeInv'
<1> USE SafeTypes
<1>1. /\ pc = "replay" /\ scan' = After(scan, file[off]) /\ off' = off + 1
      /\ UNCHANGED <<file, len, hdr, pc, job, fh, kv, lsn, txn, cmd, left, buf, reply,
                     fails, durable, journaled, trail>>
  BY DEF ReplayRecord, Reading, disk, handle, history
<1>2. buf = Zero /\ job \in {"open", "rebuild", "snapshot"}
  BY <1>1 DEF Placed
<1>3. scan' = trail[off + 1]
  BY <1>1, ReadsWhatFollows DEF ReplayRecord
<1>4. End = fh /\ End' = fh
  BY <1>1 DEF End, Writing
<1>5. Linked'
  BY <1>1, <1>2, <1>4 DEF SafeInv, Linked, Follows, Cell
<1>6. DiskWhole' /\ HandleWhole' /\ LsnAbove'
  BY <1>1, <1>2, <1>4 DEF SafeInv, DiskWhole, HandleWhole, LsnAbove, Settled
<1>7. Covered' /\ Appending' /\ Defragmenting' /\ ReadingWell' /\ reply' # "corrupt"
  BY <1>1, <1>2, <1>3
     DEF SafeInv, Covered, Appending, Defragmenting, ReadingWell, Writing
<1>8. QED BY <1>5, <1>6, <1>7 DEF SafeInv

\* A reader that comes to an end has read all of the journal.
LEMMA ReadsAll ==
  ASSUME SafeInv, pc = "replay", Ended
  PROVE  scan = trail[fh] /\ scan.map = journaled
<1> USE SafeTypes
<1>1. off <= fh /\ job # "defragment"
  BY DEF Placed
<1>2. fh <= len /\ Settled(fh, journaled) /\ scan = trail[off]
  BY <1>1 DEF SafeInv, HandleWhole, ReadingWell
<1>3. off = fh
  BY <1>1, <1>2 DEF Ended
<1>4. QED BY <1>2, <1>3 DEF Settled

LEMMA ReadAllSafe == ASSUME SafeInv, ReplayDone, TypeInv' PROVE SafeInv'
<1> USE SafeTypes
<1>1. /\ pc = "replay" /\ Leave("idle", "ok") /\ lsn' = ResumeLsn
      /\ UNCHANGED <<file, len, hdr, fh, fails, durable, journaled, trail>>
  BY DEF ReplayDone, Replayed, disk, history
<1>2. pc' = "idle" /\ job' = "none" /\ reply' = "ok" /\ buf' = Zero /\ buf = Zero
  BY <1>1 DEF Leave, Placed
<1>3. End = fh /\ End' = fh
  BY <1>1, <1>2 DEF End, Writing
<1>4. job # "defragment" /\ pc # "closed"
  BY <1>1 DEF Placed
<1>5. Linked'
  BY <1>1, <1>2, <1>3 DEF SafeInv, Linked, Follows, Cell
<1>6. DiskWhole' /\ HandleWhole'
  BY <1>1, <1>2, <1>4 DEF SafeInv, DiskWhole, HandleWhole, Settled
<1>7. LsnAbove'
  <2>1. CASE fh = 0
    <3>1. trail[fh].last = 0 /\ lsn' = lsn
      BY <1>1, <2>1 DEF SafeInv, Linked, Fresh, ResumeLsn
    <3>2. lsn > 0
      BY DEF TypeOK
    <3>3. QED BY <1>1, <1>2, <1>3, <3>1, <3>2 DEF LsnAbove
  <2>2. CASE fh # 0
    <3>1. lsn' = trail[fh].last + 1 /\ trail[fh].last \in Nat
      BY <1>1, <2>2, ReadsAll DEF ReplayDone, ResumeLsn, Offsets
    <3>2. QED BY <1>1, <1>2, <1>3, <3>1 DEF LsnAbove
  <2>3. QED BY <2>1, <2>2
<1>8. Covered' /\ Appending' /\ Defragmenting' /\ ReadingWell'
  BY <1>2 DEF Covered, Appending, Defragmenting, ReadingWell, Writing
<1>9. QED BY <1>2, <1>5, <1>6, <1>7, <1>8 DEF SafeInv

LEMMA StartSafe == ASSUME SafeInv, Open \/ Rebuild \/ Snapshot, TypeInv' PROVE SafeInv'
<1> USE SafeTypes
<1>1. /\ pc' = "replay" /\ reply' = "none" /\ scan' = Fresh
      /\ \/ pc = "closed" /\ job' = "open" /\ fh' = hdr /\ journaled' = durable
         \/ pc = "idle" /\ job' \in {"rebuild", "snapshot"} /\ UNCHANGED <<fh, journaled>>
      /\ UNCHANGED <<file, len, hdr, kv, lsn, txn, cmd, left, off, buf, fails, durable, trail>>
  BY DEF Open, Rebuild, Snapshot, Replay, Cleared, disk, writer
<1>2. buf = Zero /\ job = "none" /\ off = 0
  BY <1>1 DEF Placed
<1>3. End = fh' /\ End' = fh'
  BY <1>1 DEF End, Writing
<1>4. Linked' /\ trail[0] = Fresh
  BY <1>1, <1>2, <1>3 DEF SafeInv, Linked, Follows, Cell
<1>5. DiskWhole' /\ HandleWhole'
  BY <1>1, <1>2 DEF SafeInv, DiskWhole, HandleWhole, Settled
<1>6. LsnAbove'
  BY <1>1, <1>2, <1>3 DEF SafeInv, LsnAbove
<1>7. Covered' /\ Appending' /\ Defragmenting' /\ ReadingWell'
  BY <1>1, <1>2, <1>4 DEF Covered, Appending, Defragmenting, ReadingWell, Writing
<1>8. QED BY <1>1, <1>4, <1>5, <1>6, <1>7 DEF SafeInv

\* Closing is safe; so is dying, but in defragment.
LEMMA GoneSafe ==
  ASSUME Faults \subseteq SafeFaults, SafeInv, Close \/ Crash, TypeInv'
  PROVE  SafeInv'
<1> USE SafeTypes
<1>1. /\ Gone("none") /\ pc # "closed" /\ job # "defragment"
      /\ UNCHANGED <<file, len, hdr, durable, trail>>
  BY DEF Close, Crash, Gone, Fail, SafeFaults, Placed, disk
<1>2. pc' = "closed" /\ job' = "none" /\ reply' = "none" /\ buf' = Zero
  BY <1>1 DEF Gone, Leave
<1>3. hdr <= fh /\ hdr <= len /\ Settled(hdr, durable) /\ End' = hdr
  BY <1>1, <1>2 DEF SafeInv, DiskWhole, End
<1>4. /\ hdr <= End
      /\ \A o \in 0 .. hdr - 1 : Cell(o) = file[o]
  <2>1. CASE Writing
    <3>1. fh <= off /\ (buf # Zero => off > fh) /\ End = off
      BY <1>1, <2>1 DEF SafeInv, Appending, Writing, Placed, End
    <3>2. QED BY <1>3, <3>1 DEF Cell
  <2>2. CASE ~Writing
    <3>1. buf = Zero
      BY <2>2 DEF Writing, Placed
    <3>2. QED BY <1>1, <1>3, <2>2, <3>1 DEF End, Cell
  <2>3. QED BY <2>1, <2>2
<1>5. End \in Nat
  BY DEF End
<1>6. \A o \in 0 .. hdr - 1 : Follows(o) /\ Cell(o) = Cell(o)'
  BY <1>1, <1>2, <1>4, <1>5 DEF SafeInv, Linked, Cell
<1>7. Linked'
  BY <1>1, <1>3, <1>6 DEF SafeInv, Linked, Follows
<1>8. DiskWhole' /\ HandleWhole' /\ LsnAbove'
  BY <1>1, <1>2, <1>3 DEF DiskWhole, HandleWhole, LsnAbove, Settled
<1>9. Covered' /\ Appending' /\ Defragmenting' /\ ReadingWell'
  BY <1>2 DEF Covered, Appending, Defragmenting, ReadingWell, Writing
<1>10. QED BY <1>2, <1>7, <1>8, <1>9 DEF SafeInv

\* An update, or the call of it that cannot open the file, begins.
LEMMA UpdateSafe == ASSUME SafeInv, NEW c \in Cmds, Update(c), TypeInv' PROVE SafeInv'
<1> USE SafeTypes
<1>1. /\ pc = "idle"
      /\ \/ /\ pc' = "begin" /\ job' = "append" /\ off' = fh
            /\ reply' = "none" /\ buf' = buf
         \/ Leave("idle", "error")
      /\ UNCHANGED <<file, len, hdr, fh, lsn, durable, journaled, trail>>
  BY DEF Update, AppendAt, disk, history
<1>2. job = "none" /\ buf = Zero /\ buf' = Zero /\ reply' # "corrupt"
      /\ \/ pc' = "begin" /\ job' = "append" /\ off' = fh
         \/ pc' = "idle" /\ job' = "none"
  BY <1>1 DEF Placed, Leave
<1>3. End = fh /\ End' = fh
  BY <1>1, <1>2 DEF End, Writing
<1>4. Linked'
  BY <1>1, <1>2, <1>3 DEF SafeInv, Linked, Follows, Cell
<1>5. DiskWhole' /\ HandleWhole' /\ LsnAbove' /\ fh <= len
  BY <1>1, <1>2, <1>3 DEF SafeInv, DiskWhole, HandleWhole, LsnAbove, Settled
<1>6. Covered' /\ Appending' /\ Defragmenting' /\ ReadingWell'
  BY <1>1, <1>2, <1>5 DEF Covered, Appending, Defragmenting, ReadingWell, Writing
<1>7. QED BY <1>2, <1>4, <1>5, <1>6 DEF SafeInv

LEMMA DefragmentSafe == ASSUME SafeInv, Defragment, TypeInv' PROVE SafeInv'
<1> USE SafeTypes
<1>1. /\ pc = "idle" /\ pc' = "begin" /\ job' = "defragment" /\ off' = 0
      /\ left' = Present /\ kv' = kv /\ reply' = "none"
      /\ UNCHANGED <<file, len, hdr, fh, lsn, buf, durable, journaled, trail>>
  BY DEF Defragment, Present, disk, history
<1>2. buf = Zero /\ End' = 0 /\ Present' = Present /\ lsn > 0
  BY <1>1 DEF Placed, End, Writing, Present, TypeOK
<1>3. trail[0] = Fresh
  BY DEF SafeInv, Linked
<1>4. Linked' /\ LsnAbove'
  BY <1>1, <1>2, <1>3 DEF Linked, LsnAbove, Fresh
<1>5. DiskWhole' /\ HandleWhole' /\ ReadingWell' /\ Appending'
  BY <1>1 DEF DiskWhole, HandleWhole, ReadingWell, Appending
<1>6. Covered' /\ Defragmenting'
  BY <1>1, <1>2 DEF Covered, Defragmenting
<1>7. QED BY <1>1, <1>4, <1>5, <1>6 DEF SafeInv
-----------------------------------------------------------------------------
(* The invariant.                                                          *)

LEMMA SafeInvInit == Init => SafeInv
<1> SUFFICES ASSUME Init PROVE SafeInv
  OBVIOUS
<1>1. TypeInv
  BY TypeInvInit
<1>2. trail[0] = Fresh /\ DOMAIN trail[0].pend = {} /\ trail[0].map = Empty
  BY OffsetsTyped DEF Init, Offsets, Fresh
<1>3. Linked /\ DiskWhole /\ HandleWhole /\ LsnAbove
  BY <1>2 DEF Init, Linked, DiskWhole, HandleWhole, LsnAbove, End, Settled
<1>4. Covered /\ Appending /\ Defragmenting /\ ReadingWell /\ reply # "corrupt"
  BY DEF Init, Covered, Appending, Defragmenting, ReadingWell, Writing
<1>5. QED BY <1>1, <1>3, <1>4 DEF SafeInv

\* What the failures considered rule out.
LEMMA RuledOut ==
  ASSUME Faults \subseteq SafeFaults, SafeInv
  PROVE  /\ ~WriteHeaderFails /\ ~ResizeFails /\ ~Tear /\ ~ReadFails /\ ~ReplayFails
         /\ ~DefragmentFails /\ ~ReplayCorrupt
<1>1. ~ResizeFails /\ ~DefragmentFails
  BY SafeTypes DEF ResizeFails, DefragmentFails, Fail, SafeFaults, Placed
<1>2. ~WriteHeaderFails /\ ~Tear /\ ~ReadFails /\ ~ReplayFails
  BY DEF WriteHeaderFails, Tear, ReadFails, ReplayFails, Fail, SafeFaults
<1>3. ~ReplayCorrupt
  BY ReadsWhatFollows DEF ReplayCorrupt
<1>4. QED BY <1>1, <1>2, <1>3

LEMMA SafeInvNext ==
  ASSUME Faults \subseteq SafeFaults
  PROVE  SafeInv /\ [Next]_vars => SafeInv'
<1> SUFFICES ASSUME SafeInv, [Next]_vars PROVE SafeInv'
  OBVIOUS
<1>1. TypeInv'
  BY TypeInvNext DEF SafeInv
<1>2. CASE Step
  BY <1>1, <1>2, RuledOut, BeginSafe, OpSafe, PutSafe, MarkSafe, EndSafe, PushFailsSafe,
     HeaderSafe, ResizeSafe, LeaveFlushSafe, ReadSafe, ReadAllSafe DEF Step
<1>3. ASSUME NEW k \in Keys, NEW v \in Values, Insert(k, v) PROVE SafeInv'
  BY <1>1, <1>3, UpdateSafe DEF Insert, Cmds, Vals
<1>4. ASSUME NEW k \in Keys, Erase(k) PROVE SafeInv'
  BY <1>1, <1>4, UpdateSafe DEF Erase, Cmds, Vals
<1>5. CASE Open \/ Close \/ Defragment \/ Rebuild \/ Snapshot \/ Crash
  BY <1>1, <1>5, StartSafe, GoneSafe, DefragmentSafe
<1>6. CASE UNCHANGED vars
  <2>1. /\ UNCHANGED <<file, len, hdr, pc, job, fh, kv, lsn, txn, cmd, left, off, buf,
                      scan, reply, durable, journaled, trail>>
    BY <1>6 DEF vars, disk, handle, writer, history
  <2>2. Linked' /\ DiskWhole' /\ HandleWhole' /\ LsnAbove'
    BY <2>1 DEF SafeInv, Linked, Follows, Cell, End, Writing, DiskWhole, HandleWhole,
                LsnAbove, Settled
  <2>3. Covered' /\ Appending' /\ Defragmenting' /\ ReadingWell'
    BY <2>1 DEF SafeInv, Covered, Appending, Defragmenting, ReadingWell, Writing, Settled,
                Within, Intended, Present
  <2>4. QED BY <1>1, <2>1, <2>2, <2>3 DEF SafeInv
<1>7. QED BY <1>2, <1>3, <1>4, <1>5, <1>6, RuledOut DEF Next, Call

\* As long as only crashes, failed writes and lost headers outside of defragment
\* happen, the journal is at every step one that a reader can follow to the map
\* that the handle has, or is about to have.
THEOREM AlwaysSafe ==
  ASSUME Faults \subseteq SafeFaults PROVE Spec => []SafeInv
<1>1. SafeInv /\ [Next]_vars => SafeInv'
  BY SafeInvNext
<1>2. QED BY <1>1, SafeInvInit, PTL DEF Spec

-----------------------------------------------------------------------------
(* The theorems.                                                           *)

\* A reader that hands its map over has come to the end of the journal.
LEMMA ReadEnds ==
  ASSUME Faults \subseteq SafeFaults, SafeInv, Next, job \in {"open", "rebuild"}, pc' = "idle"
  PROVE  pc = "replay" /\ kv' = scan.map /\ Ended
<1>1. pc = "replay"
  BY SafeTypes DEF Placed
<1>2. ~ReplayRecord /\ ~Crash
  BY <1>1 DEF ReplayRecord, Crash, Gone, Leave
<1>3. ReplayDone
  BY <1>1, <1>2, RuledOut
     DEF Next, Call, Step, Open, Close, Insert, Erase, Update, Defragment, Rebuild,
         Snapshot, WriteBegin, WriteOp, WriteMark, WriteEnd, WritePut, PushFails,
         WriteHeader, Resize, FlushHeader, FlushHeaderLost
<1>4. QED BY <1>1, <1>3 DEF ReplayDone, Replayed

\* No crash, failed write or lost header outside of defragment makes
\* replay_journal_ find a journal corrupt.
THEOREM NotCorrupted ==
  ASSUME Faults \subseteq SafeFaults PROVE Spec => []NeverCorrupt
<1>1. SafeInv => NeverCorrupt
  BY DEF SafeInv, NeverCorrupt
<1>2. QED BY <1>1, AlwaysSafe, PTL

\* Nor does any of them make open bring back anything but the map written with
\* the header on disk: every committed update and no other.
THEOREM RestoresCommitted ==
  ASSUME Faults \subseteq SafeFaults PROVE Spec => OpenRestoresCommitted
<1>1. ASSUME SafeInv, [Next]_vars
      PROVE  [job = "open" /\ pc' = "idle" => kv' = durable]_vars
  <2> SUFFICES ASSUME Next, job = "open", pc' = "idle" PROVE kv' = durable
    BY <1>1
  <2>1. pc = "replay" /\ kv' = scan.map /\ Ended
    BY <1>1, ReadEnds
  <2>2. QED BY <1>1, <2>1, ReadsAll DEF SafeInv, ReadingWell
<1>2. QED BY <1>1, AlwaysSafe, PTL DEF Spec, OpenRestoresCommitted

\* After any number of such failures rebuild_from_journal makes the index what
\* the handle's journal was written to hold.
THEOREM Repairs ==
  ASSUME Faults \subseteq SafeFaults PROVE Spec => RebuildRepairs
<1>1. ASSUME SafeInv, [Next]_vars
      PROVE  [job = "rebuild" /\ pc' = "idle" => kv' = journaled]_vars
  <2> SUFFICES ASSUME Next, job = "rebuild", pc' = "idle" PROVE kv' = journaled
    BY <1>1
  <2>1. pc = "replay" /\ kv' = scan.map /\ Ended
    BY <1>1, ReadEnds
  <2>2. QED BY <1>1, <2>1, ReadsAll
<1>2. QED BY <1>1, AlwaysSafe, PTL DEF Spec, RebuildRepairs

\* Log sequence numbers rise along the journal and stay below next_lsn_.
THEOREM LsnRises ==
  ASSUME Faults \subseteq SafeFaults PROVE Spec => []LsnRising
<1>1. SafeInv => LsnRising
  <2> SUFFICES ASSUME SafeInv, pc = "idle", NEW o \in 0 .. fh - 1
               PROVE  file[o].lsn < IF o + 1 < fh THEN file[o + 1].lsn ELSE lsn
    BY DEF LsnRising
  <2> USE SafeTypes
  <2>1. End = fh /\ buf = Zero
    BY DEF End, Writing, Placed
  <2>2. \A i \in 0 .. fh - 1 : Follows(i) /\ Cell(i) = file[i]
    BY <2>1 DEF SafeInv, Linked, Cell
  <2>3. trail[o + 1].last = file[o].lsn
    <3>1. trail[o + 1] = After(trail[o], file[o])
      BY <2>2 DEF Follows
    <3>2. QED BY <3>1 DEF After
  <2>4. CASE o + 1 < fh
    <3>1. Valid(trail[o + 1], file[o + 1])
      BY <2>2, <2>4 DEF Follows
    <3>2. file[o + 1].lsn \in Nat /\ file[o].lsn \in Nat
      BY <2>2, <2>4 DEF Follows, Records
    <3>3. QED BY <2>3, <2>4, <3>1, <3>2 DEF Valid
  <2>5. CASE ~(o + 1 < fh)
    <3>1. o + 1 = fh
      BY <2>5
    <3>2. lsn > trail[fh].last /\ file[o].lsn \in Nat
      BY <2>1, <2>2 DEF SafeInv, LsnAbove, Follows, Records, Placed
    <3>3. QED BY <2>3, <2>5, <3>1, <3>2
  <2>6. QED BY <2>4, <2>5
<1>2. QED BY <1>1, AlwaysSafe, PTL

\* The journal is append-only below the journal_end on disk.
THEOREM AppendOnly ==
  ASSUME Faults \subseteq SafeFaults PROVE Spec => CommittedUntouched
<1>1. ASSUME SafeInv, [Next]_vars
      PROVE  [job # "defragment" =>
                hdr' >= hdr /\ \A o \in 0 .. hdr - 1 : file'[o] = file[o]]_vars
  <2> SUFFICES ASSUME Next, job # "defragment"
               PROVE  hdr' >= hdr /\ \A o \in 0 .. hdr - 1 : file'[o] = file[o]
    BY <1>1
  <2> USE <1>1, SafeTypes
  <2>1. CASE UNCHANGED <<hdr, file>>
    BY <2>1
  <2>2. CASE UNCHANGED hdr /\ FlushBuf
    <3>1. CASE buf = Zero
      BY <2>2, <3>1 DEF FlushBuf
    <3>2. CASE buf # Zero
      <4>1. off > fh /\ hdr <= fh
        BY <3>2 DEF SafeInv, Appending, DiskWhole, Placed
      <4>2. \A o \in 0 .. off - 2 : file'[o] = file[o]
        BY <2>2, FlushKeeps
      <4>3. QED BY <2>2, <4>1, <4>2
    <3>3. QED BY <3>1, <3>2
  <2>3. CASE FlushHeader
    <3>1. hdr' = fh /\ UNCHANGED file /\ pc = "flush"
      BY <2>3 DEF FlushHeader
    <3>2. hdr <= fh
      BY <3>1 DEF SafeInv, DiskWhole
    <3>3. QED BY <3>1, <3>2
  <2>4. \/ UNCHANGED <<hdr, file>>
        \/ UNCHANGED hdr /\ FlushBuf
        \/ FlushHeader
    BY RuledOut
       DEF Next, Call, Step, Open, Close, Insert, Erase, Update, Defragment, Rebuild,
           Snapshot, Replay, WriteBegin, WriteOp, WriteMark, WriteEnd, WritePut, Push,
           PushFails, WriteHeader, Resize, FlushHeaderLost, ReplayRecord, ReplayDone,
           Replayed, Crash, Placed, disk
  <2>5. QED BY <2>1, <2>2, <2>3, <2>4
<1>2. QED BY <1>1, AlwaysSafe, PTL DEF Spec, CommittedUntouched

-----------------------------------------------------------------------------
(* The journal implements KvStore.                                          *)

PromisedFaults == {"crash", "write"}

\* Between calls the header on disk is the handle's; a call gets ahead of it
\* only once its header is in the buffer.
Agreed == /\ pc = "closed" => kv = Empty /\ reply = "none"
          /\ job = "open" => reply = "none"
          /\ job = "append" =>
               journaled = IF pc = "flush" THEN [durable EXCEPT ![cmd.key] = cmd.val]
                                           ELSE durable
          /\ pc \in {"resize", "flush"} /\ job = "defragment" => journaled = kv
          /\ pc # "closed" /\ job \notin {"append", "defragment"} => journaled = durable

LEMMA AgreedInit == Init => Agreed
BY DEF Init, Agreed

LEMMA AgreedNext ==
  ASSUME Faults \subseteq PromisedFaults, SafeInv, Agreed, [Next]_vars
  PROVE  Agreed'
<1> USE SafeTypes
<1>0. Faults \subseteq SafeFaults /\ ~FlushHeaderLost
  BY SafeTypes DEF PromisedFaults, SafeFaults, FlushHeaderLost, Fail, Placed
<1>1. CASE WriteBegin \/ WriteOp \/ WriteMark \/ WriteEnd \/ \E k \in Keys : WritePut(k)
  <2>1. /\ UNCHANGED <<job, kv, cmd, reply, durable, journaled>>
        /\ pc \in {"begin", "op", "puts", "mark", "end"}
        /\ pc' \in {"op", "puts", "mark", "end", "header"}
    BY <1>1 DEF WriteBegin, WriteOp, WriteMark, WriteEnd, WritePut, Push
  <2>2. QED BY <2>1 DEF Agreed, Placed
<1>2. CASE PushFails
  <2>1. pc # "flush" /\ job = "append" /\ pc # "closed"
    BY <1>0, <1>2 DEF PushFails, Fail, SafeFaults, Placed
  <2>2. pc' = "idle" /\ job' = "none" /\ UNCHANGED <<durable, journaled>>
    BY <1>2 DEF PushFails, Leave, history
  <2>3. QED BY <2>1, <2>2 DEF Agreed
<1>3. CASE WriteHeader
  <2>1. /\ pc = "header" /\ pc' = (IF job = "append" THEN "flush" ELSE "resize")
        /\ journaled' = Intended /\ UNCHANGED <<job, kv, cmd, reply, durable>>
    BY <1>3 DEF WriteHeader
  <2>2. job \in {"append", "defragment"}
    BY <2>1 DEF Placed
  <2>3. QED BY <2>1, <2>2 DEF Agreed, Intended
<1>4. CASE Resize
  <2>1. /\ pc = "resize" /\ pc' = "flush"
        /\ UNCHANGED <<job, kv, cmd, reply, durable, journaled>>
    BY <1>4 DEF Resize, handle, writer, history
  <2>2. job = "defragment"
    BY <2>1 DEF Placed
  <2>3. QED BY <2>1, <2>2 DEF Agreed
<1>5. CASE FlushHeader
  <2>1. durable' = journaled /\ pc' = "idle" /\ job' = "none" /\ UNCHANGED journaled
    BY <1>5 DEF FlushHeader, Leave
  <2>2. QED BY <2>1 DEF Agreed
<1>6. CASE ReplayRecord
  <2>1. UNCHANGED <<pc, job, kv, cmd, reply, durable, journaled>>
    BY <1>6 DEF ReplayRecord, handle, history
  <2>2. QED BY <2>1 DEF Agreed
<1>7. CASE ReplayDone
  <2>1. /\ pc = "replay" /\ pc' = "idle" /\ job' = "none"
        /\ UNCHANGED <<durable, journaled>>
    BY <1>7 DEF ReplayDone, Replayed, Leave, history
  <2>2. QED BY <2>1 DEF Agreed, Placed
<1>8. CASE Open \/ Rebuild \/ Snapshot
  <2>1. /\ pc' = "replay" /\ reply' = "none"
        /\ \/ pc = "closed" /\ job' = "open" /\ journaled' = durable
           \/ pc = "idle" /\ job' \in {"rebuild", "snapshot"} /\ journaled' = journaled
        /\ UNCHANGED <<kv, durable>>
    BY <1>8 DEF Open, Rebuild, Snapshot, Replay
  <2>2. QED BY <2>1 DEF Agreed, Placed
<1>9. CASE Close \/ Crash
  <2>1. pc' = "closed" /\ job' = "none" /\ kv' = Empty /\ reply' = "none"
    BY <1>9 DEF Close, Crash, Gone, Leave
  <2>2. QED BY <2>1 DEF Agreed
<1>10. ASSUME NEW c \in Cmds, Update(c) PROVE Agreed'
  <2>1. /\ pc = "idle"
        /\ \/ pc' = "begin" /\ job' = "append"
           \/ pc' = "idle" /\ job' = "none"
        /\ UNCHANGED <<durable, journaled>>
    BY <1>10 DEF Update, Leave, history
  <2>2. QED BY <2>1 DEF Agreed, Placed
<1>11. CASE Defragment
  <2>1. pc' = "begin" /\ job' = "defragment"
    BY <1>11 DEF Defragment
  <2>2. QED BY <2>1 DEF Agreed
<1>12. CASE UNCHANGED vars
  BY <1>12 DEF vars, handle, writer, history, Agreed
<1>13. ASSUME NEW k \in Keys, NEW v \in Values, Insert(k, v) PROVE Agreed'
  BY <1>10, <1>13 DEF Insert, Cmds, Vals
<1>14. ASSUME NEW k \in Keys, Erase(k) PROVE Agreed'
  BY <1>10, <1>14 DEF Erase, Cmds, Vals
<1>15. QED
  BY <1>0, <1>1, <1>2, <1>3, <1>4, <1>5, <1>6, <1>7, <1>8, <1>9, <1>11, <1>12, <1>13,
     <1>14, RuledOut DEF Next, Call, Step
LEMMA StepRefines ==
  ASSUME Faults \subseteq PromisedFaults, SafeInv, Agreed, [Next]_vars
  PROVE  [KV!Next]_(KV!vars)
<1> USE SafeTypes
<1>0. Faults \subseteq SafeFaults /\ ~FlushHeaderLost
  BY DEF PromisedFaults, SafeFaults, FlushHeaderLost, Fail, Placed
<1>1. ASSUME NEW c \in Cmds, Update(c) PROVE KV!Next
  <2> DEFINE d == [key |-> c.key, val |-> c.val]
  <2>1. d \in KV!Calls /\ d.key = c.key /\ d.val = c.val
    BY DEF Cmds, Vals, KV!Calls
  <2>2. pc = "idle" /\ job = "none" /\ kv' = [kv EXCEPT ![c.key] = c.val] /\ durable' = durable
    BY <1>1 DEF Update, Placed, history
  <2>3. \/ pc' = "begin" /\ job' = "append" /\ cmd' = c /\ reply' = "none"
        \/ pc' = "idle" /\ job' = "none" /\ reply' = "error"
    BY <1>1 DEF Update, Leave
  <2>4. KV!Update(d)
    BY <2>1, <2>2, <2>3 DEF KV!Update, KV!Set, Mode, CallInProgress
  <2>5. QED BY <2>1, <2>4 DEF KV!Next
<1>2. CASE FlushHeader
  <2>1. /\ pc = "flush" /\ pc' = "idle" /\ job' = "none" /\ reply' = "ok"
        /\ durable' = journaled /\ kv' = kv
    BY <1>2 DEF FlushHeader, Leave, handle
  <2>2. CASE job = "append"
    <3>1. KV!Commit
      BY <2>1, <2>2 DEF Agreed, KV!Commit, KV!Set, KV!NoCall, Mode, CallInProgress
    <3>2. QED BY <3>1 DEF KV!Next
  <2>3. CASE job = "defragment"
    <3>1. KV!Maintained
      BY <2>1, <2>3 DEF Agreed, KV!Maintained, Mode, CallInProgress
    <3>2. QED BY <3>1 DEF KV!Next
  <2>4. QED BY <2>1, <2>2, <2>3 DEF Placed
<1>3. CASE ReplayDone
  <2>1. /\ pc = "replay" /\ pc' = "idle" /\ job' = "none" /\ reply' = "ok"
        /\ durable' = durable
        /\ kv' = IF job = "snapshot" THEN kv ELSE scan.map
    BY <1>3 DEF ReplayDone, Replayed, Leave, history
  <2>2. job \in {"open", "rebuild", "snapshot"} /\ scan.map = durable
    BY <1>3, <2>1, ReadsAll DEF ReplayDone, Placed, Agreed
  <2>3. CASE job = "open"
    <3>1. KV!Start
      BY <2>1, <2>2, <2>3 DEF KV!Start, Mode, CallInProgress
    <3>2. QED BY <3>1 DEF KV!Next
  <2>4. CASE job \in {"rebuild", "snapshot"}
    <3>1. KV!Maintained
      BY <2>1, <2>2, <2>4 DEF KV!Maintained, Mode, CallInProgress
    <3>2. QED BY <3>1 DEF KV!Next
  <2>5. QED BY <2>2, <2>3, <2>4
<1>4. CASE PushFails
  <2>1. job = "append" /\ pc # "closed"
    BY <1>0, <1>4 DEF PushFails, Fail, SafeFaults, Placed
  <2>2. pc' = "idle" /\ job' = "none" /\ reply' = "error" /\ UNCHANGED <<kv, durable>>
    BY <1>4 DEF PushFails, Leave, history
  <2>3. KV!Abort
    BY <2>1, <2>2 DEF KV!Abort, KV!NoCall, Mode, CallInProgress
  <2>4. QED BY <2>3 DEF KV!Next
<1>5. CASE Defragment \/ Rebuild \/ Snapshot
  <2>1. /\ pc = "idle" /\ job = "none" /\ pc' # "closed" /\ reply' = "none"
        /\ job' \in {"defragment", "rebuild", "snapshot"} /\ UNCHANGED <<kv, durable>>
    BY <1>5 DEF Defragment, Rebuild, Snapshot, Replay, Placed, history
  <2>2. KV!Maintain
    BY <2>1 DEF KV!Maintain, Mode, CallInProgress
  <2>3. QED BY <2>2 DEF KV!Next
<1>6. CASE Close \/ Crash
  <2>1. /\ pc' = "closed" /\ job' = "none" /\ reply' = "none" /\ kv' = Empty
        /\ durable' = durable
    BY <1>6 DEF Close, Crash, Gone, Leave
  <2>2. KV!Stop
    BY <2>1 DEF KV!Stop, KV!Empty, KV!NoCall, Empty, Mode, CallInProgress
  <2>3. QED BY <2>2 DEF KV!Next
<1>7. CASE Open
  <2>1. /\ pc = "closed" /\ job = "none" /\ job' = "open" /\ reply' = "none"
        /\ reply = "none" /\ UNCHANGED <<kv, durable>>
    BY <1>7 DEF Open, Replay, Agreed, Placed
  <2>2. QED BY <2>1 DEF KV!vars, Mode, CallInProgress
<1>8. CASE \/ WriteBegin \/ WriteOp \/ WriteMark \/ WriteEnd \/ WriteHeader
           \/ \E k \in Keys : WritePut(k)
  <2>1. /\ UNCHANGED <<job, kv, cmd, reply, durable>>
        /\ pc \in {"begin", "op", "puts", "mark", "end", "header"}
        /\ pc' \in {"op", "puts", "mark", "end", "header", "flush", "resize"}
    BY <1>8 DEF WriteBegin, WriteOp, WriteMark, WriteEnd, WritePut, WriteHeader, Push
  <2>2. QED BY <2>1 DEF KV!vars, Mode, CallInProgress
<1>9. CASE Resize \/ ReplayRecord \/ UNCHANGED vars
  <2>1. /\ UNCHANGED <<job, kv, cmd, reply, durable>>
        /\ pc' = "closed" <=> pc = "closed"
    BY <1>9
       DEF Resize, ReplayRecord, Reading, vars, disk, handle, writer, history
  <2>2. QED BY <2>1 DEF KV!vars, Mode, CallInProgress
<1>10. ASSUME NEW k \in Keys, NEW v \in Values, Insert(k, v) PROVE KV!Next
  BY <1>1, <1>10 DEF Insert, Cmds, Vals
<1>11. ASSUME NEW k \in Keys, Erase(k) PROVE KV!Next
  BY <1>1, <1>11 DEF Erase, Cmds, Vals
<1>12. QED
  BY <1>0, <1>2, <1>3, <1>4, <1>5, <1>6, <1>7, <1>8, <1>9, <1>10, <1>11, RuledOut
     DEF Next, Call, Step

\* Under crashes and failed writes outside of defragment a handle keeps every
\* promise of KvStore: an update is atomic, durable once acknowledged, and
\* brought back by the next open.
THEOREM Implements ==
  ASSUME Faults \subseteq PromisedFaults PROVE Spec => KeepsPromises
<1>1. Faults \subseteq SafeFaults
  BY DEF PromisedFaults, SafeFaults
<1>2. Init => KV!Init
  BY DEF Init, KV!Init, KV!Empty, KV!NoCall, Empty, Mode, CallInProgress
<1>3. SafeInv /\ Agreed /\ [Next]_vars => Agreed' /\ [KV!Next]_(KV!vars)
  BY AgreedNext, StepRefines
<1>4. Spec => []SafeInv
  BY <1>1, AlwaysSafe
<1>5. QED BY <1>2, <1>3, <1>4, AgreedInit, PTL DEF Spec, KeepsPromises, KV!Spec

-----------------------------------------------------------------------------
(* What a reader knows of a journal that may stop being readable.          *)

\* It knows no less when cells and trail are changed from end on, or behind it.
LEMMA LegibleBelow ==
  ASSUME NEW f, NEW t, NEW g, NEW u, NEW end \in Nat, NEW e \in 0 .. end, Legible(f, t, end),
         \A o \in 0 .. e : u[o] = t[o], \A o \in 0 .. e - 1 : g[o] = f[o]
  PROVE  Legible(g, u, e)
<1>1. PICK j \in 0 .. end : /\ \A o \in 0 .. j - 1 : t[o + 1] = After(t[o], f[o])
                            /\ j = end \/ ~Valid(t[j], f[j])
  BY DEF Legible
<1>2. CASE j < e
  <2>1. \A o \in 0 .. j - 1 : u[o + 1] = After(u[o], g[o])
    BY <1>1, <1>2
  <2>2. ~Valid(u[j], g[j])
    BY <1>1, <1>2
  <2>3. QED BY <1>2, <2>1, <2>2 DEF Legible
<1>3. CASE e <= j
  <2>1. \A o \in 0 .. e - 1 : u[o + 1] = After(u[o], g[o])
    BY <1>1, <1>3
  <2>2. QED BY <2>1 DEF Legible
<1>4. QED BY <1>2, <1>3

LEMMA LegibleSame ==
  ASSUME NEW f, NEW t, NEW g, NEW u, NEW end \in Nat, Legible(f, t, end),
         \A o \in 0 .. end : u[o] = t[o], \A o \in 0 .. end - 1 : g[o] = f[o]
  PROVE  Legible(g, u, end)
<1>1. end \in 0 .. end
  OBVIOUS
<1>2. QED BY <1>1, LegibleBelow

\* It knows more when records are written from end on as trail has them.
LEMMA LegibleBeyond ==
  ASSUME NEW f, NEW t, NEW g, NEW start \in Nat, NEW end \in Nat, start <= end,
         Legible(f, t, start), \A o \in 0 .. start - 1 : g[o] = f[o],
         \A o \in start .. end - 1 : t[o + 1] = After(t[o], g[o])
  PROVE  Legible(g, t, end)
<1>1. PICK j \in 0 .. start : /\ \A o \in 0 .. j - 1 : t[o + 1] = After(t[o], g[o])
                              /\ j = start \/ ~Valid(t[j], g[j])
  BY DEF Legible
<1>2. CASE j = start
  <2>1. \A o \in 0 .. end - 1 : t[o + 1] = After(t[o], g[o])
    BY <1>1, <1>2
  <2>2. QED BY <2>1 DEF Legible
<1>3. CASE j # start
  BY <1>1, <1>3 DEF Legible
<1>4. QED BY <1>2, <1>3

\* A record that was never written is none that a reader expects.
LEMMA ZeroStops ==
  ASSUME NEW s, s.last \in Nat
  PROVE  ~Valid(s, Zero)
BY DEF Valid, Zero

\* It knows what it did, up to the cell at which the file was torn.
LEMMA LegibleTorn ==
  ASSUME NEW f, NEW t, NEW g, NEW end \in Offsets, NEW k \in Offsets, Legible(f, t, end),
         \A o \in Offsets : t[o].last \in Nat,
         \A o \in 0 .. k - 1 : g[o] = f[o], g[k] \in {f[k], Zero},
         \A o \in Offsets : o > k => g[o] = Zero
  PROVE  Legible(g, t, end)
<1> USE OffsetsTyped DEF Offsets
<1>1. PICK j \in 0 .. end : /\ \A o \in 0 .. j - 1 : t[o + 1] = After(t[o], f[o])
                            /\ j = end \/ ~Valid(t[j], f[j])
  BY DEF Legible
<1>2. \A o \in Offsets : g[o] = Zero => ~Valid(t[o], g[o])
  BY ZeroStops
<1>3. CASE j <= k
  <2>1. \A o \in 0 .. j - 1 : t[o + 1] = After(t[o], g[o])
    BY <1>1, <1>3
  <2>2. j = end \/ ~Valid(t[j], g[j])
    BY <1>1, <1>2, <1>3
  <2>3. QED BY <2>1, <2>2 DEF Legible
<1>4. CASE k < j /\ g[k] = f[k]
  <2>1. \A o \in 0 .. k : t[o + 1] = After(t[o], g[o])
    BY <1>1, <1>4, SMTT(30)
  <2>2. k + 1 = end \/ ~Valid(t[k + 1], g[k + 1])
    BY <1>2, <1>4
  <2>3. QED BY <1>4, <2>1, <2>2 DEF Legible
<1>5. CASE k < j /\ g[k] = Zero
  <2>1. \A o \in 0 .. k - 1 : t[o + 1] = After(t[o], g[o])
    BY <1>1, <1>5
  <2>2. ~Valid(t[k], g[k])
    BY <1>2, <1>5
  <2>3. QED BY <1>5, <2>1, <2>2 DEF Legible
<1>6. QED BY <1>3, <1>4, <1>5

\* A reader that finds the record it expects at off is still where trail says.
LEMMA LegibleRead ==
  ASSUME NEW f, NEW t, NEW end \in Nat, NEW o \in 0 .. end - 1, Legible(f, t, end),
         \A i \in 0 .. o : Valid(t[i], f[i])
  PROVE  t[o + 1] = After(t[o], f[o])
BY DEF Legible

-----------------------------------------------------------------------------
(* PrefixInv is inductive.                                                 *)

LEMMA PrefixTypes ==
  ASSUME PrefixInv
  PROVE  /\ TypeInv /\ TypeOK /\ Placed /\ trail[0] = Fresh
         /\ off \in Nat /\ len \in Nat /\ fh \in Nat /\ hdr \in Nat
         /\ off <= MaxCells /\ fh <= MaxCells /\ hdr <= MaxCells /\ len <= MaxCells
         /\ trail = [o \in Offsets |-> trail[o]]
         /\ file = [o \in Offsets |-> file[o]]
         /\ \A o \in Offsets : trail[o].last \in Nat
<1>1. TypeInv /\ TypeOK /\ Placed /\ trail[0] = Fresh
  BY DEF PrefixInv, TypeInv
<1>2. \A o \in Offsets : trail[o].last \in Nat
  BY <1>1 DEF TypeOK, IsScan
<1>3. QED BY <1>1, <1>2, OffsetsTyped DEF TypeOK, Offsets

\* What the flush of the buffered record leaves.
LEMMA FlushShows ==
  ASSUME PrefixInv, FlushBuf \/ UNCHANGED <<file, len>>
  PROVE  /\ FlushBuf => \A o \in Offsets : file'[o] = Cell(o)
         /\ \A o \in Offsets : buf = Zero \/ o # off - 1 => file'[o] = file[o]
<1> USE PrefixTypes DEF FlushBuf, Cell
<1>1. QED BY DEF Placed

\* A record is put behind the others of its call.
LEMMA PushPrefix ==
  ASSUME PrefixInv, TypeInv', NEW r, Push(r), pc \in {"begin", "op", "puts", "mark", "end"},
         pc' \in {"op", "puts", "mark", "end", "header"}
  PROVE  PrefixInv'
<1> USE PrefixTypes, OffsetsTyped
<1>1. /\ FlushBuf /\ buf' = Stamped(r) /\ off' = off + 1
      /\ trail' = [trail EXCEPT ![off + 1] = After(trail[off], Stamped(r))]
      /\ hdr' = hdr /\ job' = job /\ fh' = fh
  BY DEF Push
<1>2. buf' # Zero /\ off + 1 \in Offsets
  <2>1. Placed' /\ off' \in Offsets
    BY DEF TypeInv, TypeOK
  <2>2. QED BY <1>1, <2>1 DEF Placed
<1>3. Writing /\ Start' = Start /\ job \in {"append", "defragment"} /\ Start \in Nat
  BY <1>1 DEF Writing, Start, Placed
<1>4. off >= Start /\ (buf # Zero => off > Start)
  BY <1>3 DEF PrefixInv, Traced
<1>5. /\ \A o \in Offsets : file'[o] = Cell(o)
      /\ \A o \in Offsets : o < Start => file'[o] = file[o]
      /\ \A o \in Offsets : o <= off => trail'[o] = trail[o]
      /\ trail'[off + 1] = After(trail[off], Stamped(r))
  BY <1>1, <1>2, <1>3, <1>4, FlushShows DEF Offsets
<1>6. trail'[0] = Fresh
  BY <1>5 DEF Offsets
<1>7. DiskLegible'
  <2>1. SUFFICES ASSUME job = "append"
                 PROVE  Legible(file', trail', hdr) /\ hdr <= fh
    BY <1>1, <1>3 DEF DiskLegible
  <2>2. Legible(file, trail, hdr) /\ hdr <= fh /\ Start = fh
    BY <2>1 DEF PrefixInv, DiskLegible, Start, Placed
  <2>3. /\ \A o \in 0 .. hdr : trail'[o] = trail[o]
        /\ \A o \in 0 .. hdr - 1 : file'[o] = file[o]
    BY <1>4, <1>5, <2>2 DEF Offsets
  <2>4. Legible(file', trail', hdr)
    BY <2>2, <2>3, LegibleSame
  <2>5. QED BY <2>2, <2>4
<1>8. HandleLegible'
  <2>1. SUFFICES ASSUME job = "append" PROVE Legible(file', trail', fh)
    BY <1>1, <1>3 DEF HandleLegible
  <2>2. Legible(file, trail, fh) /\ Start = fh
    BY <2>1 DEF PrefixInv, HandleLegible, Start, Placed
  <2>3. /\ \A o \in 0 .. fh : trail'[o] = trail[o]
        /\ \A o \in 0 .. fh - 1 : file'[o] = file[o]
    BY <1>4, <1>5, <2>2 DEF Offsets
  <2>4. QED BY <2>2, <2>3, LegibleSame
<1>9. Traced'
  <2>1. SUFFICES ASSUME NEW o \in Start .. off
                 PROVE  trail'[o + 1] = After(trail'[o], Cell(o)')
    BY <1>1, <1>3, <1>4 DEF Traced
  <2>2. CASE o = off
    <3>1. Cell(o)' = Stamped(r)
      BY <1>1, <1>2, <2>2 DEF Cell
    <3>2. QED BY <1>5, <2>2, <3>1 DEF Offsets
  <2>3. CASE o # off
    <3>1. o \in Start .. off - 1 /\ o \in Offsets /\ o + 1 <= off
      BY <1>3, <2>3 DEF Offsets
    <3>2. trail[o + 1] = After(trail[o], Cell(o))
      BY <1>3, <3>1 DEF PrefixInv, Traced
    <3>3. Cell(o)' = Cell(o)
      BY <1>1, <1>5, <3>1 DEF Cell
    <3>4. trail'[o + 1] = trail[o + 1] /\ trail'[o] = trail[o]
      BY <1>5, <3>1 DEF Offsets
    <3>5. QED BY <3>2, <3>3, <3>4
  <2>4. QED BY <2>2, <2>3
<1>10. OpeningWell'
  BY <1>1, <1>3 DEF OpeningWell
<1>11. QED BY <1>6, <1>7, <1>8, <1>9, <1>10 DEF PrefixInv

\* A step that leaves the journal up to its end alone, and lets no open run on.
LEMMA QuietPrefix ==
  ASSUME PrefixInv, TypeInv', pc # "closed", job # "defragment",
         \A o \in Offsets : o < fh => file'[o] = file[o],
         UNCHANGED <<hdr, trail>>, pc' = "closed" \/ fh' = fh, job' # "open",
         \/ pc' \in {"closed", "idle", "flush", "replay"} /\ job' # "defragment"
         \/ pc' = "begin" /\ buf' = Zero /\ off' = IF job' = "defragment" THEN 0 ELSE fh
  PROVE  PrefixInv'
<1> USE PrefixTypes, OffsetsTyped
<1>1. hdr <= fh /\ Legible(file, trail, hdr) /\ Legible(file, trail, fh)
  BY DEF PrefixInv, DiskLegible, HandleLegible
<1>2. Legible(file', trail', hdr) /\ Legible(file', trail', fh)
  <2>1. \A o \in 0 .. fh - 1 : file'[o] = file[o]
    BY DEF Offsets
  <2>2. QED BY <1>1, <2>1, LegibleBelow, SMTT(30)
<1>3. DiskLegible' /\ HandleLegible'
  BY <1>1, <1>2 DEF DiskLegible, HandleLegible
<1>4. Traced'
  <2>1. SUFFICES ASSUME pc' = "begin" PROVE Traced'
    BY DEF Traced, Writing
  <2>2. off' = Start' /\ buf' = Zero /\ Start' \in Nat
    BY <2>1 DEF Start
  <2>3. QED BY <2>2 DEF Traced
<1>5. OpeningWell' /\ trail'[0] = Fresh
  BY DEF OpeningWell
<1>6. QED BY <1>3, <1>4, <1>5 DEF PrefixInv

LEMMA PushesPrefix ==
  ASSUME PrefixInv, TypeInv',
         WriteBegin \/ WriteOp \/ WriteMark \/ WriteEnd \/ \E k \in Keys : WritePut(k)
  PROVE  PrefixInv'
<1>1. CASE WriteBegin
  BY <1>1, PushPrefix DEF WriteBegin
<1>2. CASE WriteOp
  BY <1>2, PushPrefix DEF WriteOp
<1>3. CASE WriteMark
  BY <1>3, PushPrefix DEF WriteMark
<1>4. CASE WriteEnd
  BY <1>4, PushPrefix DEF WriteEnd
<1>5. ASSUME NEW k \in Keys, WritePut(k) PROVE PrefixInv'
  BY <1>5, PushPrefix DEF WritePut
<1>6. QED BY <1>1, <1>2, <1>3, <1>4, <1>5

\* The journal ends behind the transaction of the call.
LEMMA HeaderPrefix == ASSUME PrefixInv, TypeInv', WriteHeader PROVE PrefixInv'
<1> USE PrefixTypes, OffsetsTyped
<1>1. /\ pc = "header" /\ fh' = off /\ FlushBuf /\ buf' = Zero
      /\ pc' = IF job = "append" THEN "flush" ELSE "resize"
      /\ UNCHANGED <<hdr, job, trail>>
  BY DEF WriteHeader
<1>2. Writing /\ job \in {"append", "defragment"} /\ Start \in Nat
  BY <1>1 DEF Writing, Start, Placed
<1>3. /\ off >= Start /\ (buf # Zero => off > Start)
      /\ \A o \in Start .. off - 1 : trail[o + 1] = After(trail[o], Cell(o))
  BY <1>2 DEF PrefixInv, Traced
<1>4. /\ \A o \in Offsets : file'[o] = Cell(o)
      /\ \A o \in Offsets : o < Start => file'[o] = file[o]
  BY <1>1, <1>2, <1>3, FlushShows DEF Offsets
<1>5. Legible(file, trail, Start)
  <2>1. CASE job = "append"
    BY <1>1, <2>1 DEF PrefixInv, HandleLegible, Start
  <2>2. CASE job = "defragment"
    BY <2>2 DEF Legible, Start
  <2>3. QED BY <1>2, <2>1, <2>2
<1>6. Legible(file', trail, off)
  <2>1. \A o \in 0 .. Start - 1 : file'[o] = file[o]
    BY <1>2, <1>3, <1>4 DEF Offsets
  <2>2. \A o \in Start .. off - 1 : trail[o + 1] = After(trail[o], file'[o])
    BY <1>2, <1>3, <1>4 DEF Offsets
  <2>3. QED BY <1>2, <1>3, <1>5, <2>1, <2>2, LegibleBeyond
<1>7. DiskLegible'
  <2>1. SUFFICES ASSUME job = "append" PROVE Legible(file', trail, hdr) /\ hdr <= off
    BY <1>1, <1>2 DEF DiskLegible
  <2>2. hdr <= off
    BY <1>3, <2>1 DEF PrefixInv, DiskLegible, Start, Placed
  <2>3. QED BY <1>6, <2>2, LegibleBelow
<1>8. HandleLegible' /\ trail'[0] = Fresh
  BY <1>1, <1>6 DEF HandleLegible
<1>9. Traced' /\ OpeningWell'
  BY <1>1, <1>2 DEF Traced, Writing, OpeningWell
<1>10. QED BY <1>7, <1>8, <1>9 DEF PrefixInv

\* The old journal behind the new one is cut off.
LEMMA ResizePrefix == ASSUME PrefixInv, TypeInv', Resize PROVE PrefixInv'
<1> USE PrefixTypes, OffsetsTyped
<1>1. /\ pc = "resize" /\ pc' = "flush" /\ job = "defragment"
      /\ \A o \in Offsets : o < fh => file'[o] = file[o]
      /\ UNCHANGED <<job, fh, trail>>
  BY DEF Resize, handle, history, Placed
<1>2. Legible(file', trail', fh)
  <2>1. /\ Legible(file, trail, fh) /\ \A o \in 0 .. fh - 1 : file'[o] = file[o]
        /\ \A o \in 0 .. fh : trail'[o] = trail[o]
    BY <1>1 DEF PrefixInv, HandleLegible, Offsets
  <2>2. QED BY <2>1, LegibleSame
<1>3. DiskLegible' /\ HandleLegible' /\ Traced' /\ OpeningWell' /\ trail'[0] = Fresh
  BY <1>1, <1>2 DEF DiskLegible, HandleLegible, Traced, Writing, OpeningWell
<1>4. QED BY <1>3 DEF PrefixInv

\* The header reaches the file.
LEMMA FlushHeaderPrefix == ASSUME PrefixInv, TypeInv', FlushHeader PROVE PrefixInv'
<1> USE PrefixTypes, OffsetsTyped
<1>1. /\ pc = "flush" /\ pc' = "idle" /\ job' = "none" /\ hdr' = fh
      /\ UNCHANGED <<file, fh, trail>>
  BY DEF FlushHeader, Leave, handle
<1>2. Legible(file, trail, fh)
  BY <1>1 DEF PrefixInv, HandleLegible
<1>3. DiskLegible' /\ HandleLegible' /\ Traced' /\ OpeningWell' /\ trail'[0] = Fresh
  BY <1>1, <1>2 DEF DiskLegible, HandleLegible, Traced, Writing, OpeningWell
<1>4. QED BY <1>3 DEF PrefixInv

LEMMA OpenPrefix == ASSUME PrefixInv, TypeInv', Open PROVE PrefixInv'
<1> USE PrefixTypes, OffsetsTyped
<1>1. /\ pc = "closed" /\ pc' = "replay" /\ job' = "open" /\ fh' = hdr
      /\ scan' = Fresh /\ job = "none" /\ off = 0 /\ off' = 0
      /\ UNCHANGED <<file, hdr, trail>>
  BY DEF Open, Replay, Cleared, disk, writer, Placed
<1>2. Legible(file, trail, hdr)
  BY <1>1 DEF PrefixInv, DiskLegible
<1>3. DiskLegible' /\ HandleLegible' /\ Traced' /\ trail'[0] = Fresh
  BY <1>1, <1>2 DEF DiskLegible, HandleLegible, Traced, Writing
<1>4. OpeningWell'
  BY <1>1 DEF OpeningWell
<1>5. QED BY <1>3, <1>4 DEF PrefixInv

\* An opening reader takes the next record.
LEMMA OpeningPrefix ==
  ASSUME PrefixInv, TypeInv', ReplayRecord, job = "open"
  PROVE  PrefixInv'
<1> USE PrefixTypes, OffsetsTyped
<1>1. /\ off < fh /\ Valid(scan, file[off]) /\ pc = "replay"
      /\ scan' = After(scan, file[off]) /\ off' = off + 1
      /\ UNCHANGED <<file, hdr, pc, job, fh, trail>>
  BY DEF ReplayRecord, Reading, disk, handle, history
<1>2. /\ fh = hdr /\ scan = trail[off] /\ \A o \in 0 .. off - 1 : Valid(trail[o], file[o])
      /\ Legible(file, trail, hdr)
  BY DEF PrefixInv, OpeningWell, DiskLegible
<1>3. \A o \in 0 .. off : Valid(trail[o], file[o])
  BY <1>1, <1>2
<1>4. scan' = trail[off + 1]
  BY <1>1, <1>2, <1>3, LegibleRead
<1>5. OpeningWell'
  BY <1>1, <1>2, <1>3, <1>4 DEF OpeningWell
<1>6. DiskLegible' /\ HandleLegible' /\ Traced' /\ trail'[0] = Fresh
  BY <1>1, <1>2 DEF DiskLegible, HandleLegible, Traced, Writing
<1>7. QED BY <1>5, <1>6 DEF PrefixInv

\* The closed file loses its tail.
LEMMA TearPrefix == ASSUME PrefixInv, TypeInv', Tear PROVE PrefixInv'
<1> USE PrefixTypes, OffsetsTyped
<1>1. /\ pc = "closed" /\ job = "none"
      /\ UNCHANGED <<hdr, pc, job, handle, writer, scan, history>>
  BY DEF Tear, Placed
<1>2. PICK k \in 0 .. len - 1 : \E torn \in {file[k], Zero} :
        file' = [o \in Offsets |-> IF o < k THEN file[o] ELSE IF o = k THEN torn ELSE Zero]
  BY DEF Tear
<1>3. Legible(file, trail, hdr)
  BY <1>1 DEF PrefixInv, DiskLegible
<1>4. /\ k \in Offsets /\ hdr \in Offsets
      /\ \A o \in 0 .. k - 1 : file'[o] = file[o]
      /\ file'[k] \in {file[k], Zero}
      /\ \A o \in Offsets : o > k => file'[o] = Zero
  BY <1>2 DEF Offsets
<1>5. Legible(file', trail, hdr)
  BY <1>3, <1>4, LegibleTorn
<1>6. DiskLegible' /\ HandleLegible' /\ Traced' /\ OpeningWell' /\ trail'[0] = Fresh
  BY <1>1, <1>5 DEF DiskLegible, HandleLegible, Traced, Writing, OpeningWell, history
<1>7. QED BY <1>6 DEF PrefixInv

\* An append that fails at a record, or loses its header, changes nothing
\* below fh_.journal_end.
LEMMA AppendFailsPrefix ==
  ASSUME Faults \subseteq TornFaults, PrefixInv, TypeInv', PushFails \/ FlushHeaderLost
  PROVE  PrefixInv'
<1> USE PrefixTypes, OffsetsTyped
<1>1. job = "append" /\ pc # "closed"
  BY DEF PushFails, FlushHeaderLost, Fail, TornFaults, SafeFaults, Placed
<1>2. pc' = "idle" /\ job' = "none" /\ UNCHANGED <<hdr, fh, trail>>
  BY DEF PushFails, FlushHeaderLost, Leave, disk, handle, history
<1>3. \A o \in Offsets : o < fh => file'[o] = file[o]
  <2>1. CASE FlushHeaderLost
    BY <2>1 DEF FlushHeaderLost, disk
  <2>2. CASE PushFails
    <3>1. Writing /\ buf # Zero /\ (FlushBuf \/ UNCHANGED <<file, len>>)
      BY <2>2 DEF PushFails, Writing, Placed
    <3>2. off > fh
      BY <1>1, <3>1 DEF PrefixInv, Traced, Start
    <3>3. QED BY <3>1, <3>2, FlushShows DEF Offsets
  <2>3. QED BY <2>1, <2>2
<1>4. QED BY <1>1, <1>2, <1>3, QuietPrefix

LEMMA CallPrefix ==
  ASSUME PrefixInv, TypeInv',
         (\E c \in Cmds : Update(c)) \/ Defragment \/ Rebuild \/ Snapshot
  PROVE  PrefixInv'
<1> USE PrefixTypes, OffsetsTyped
<1>1. pc = "idle" /\ job = "none" /\ buf = Zero /\ UNCHANGED <<file, hdr, fh, trail>>
  BY DEF Update, Defragment, Rebuild, Snapshot, Replay, disk, history, Placed
<1>2. CASE \E c \in Cmds : Update(c)
  <2>1. \/ pc' = "begin" /\ job' = "append" /\ off' = fh /\ buf' = Zero
        \/ pc' = "idle" /\ job' = "none"
    BY <1>1, <1>2 DEF Update, AppendAt, Leave
  <2>2. QED BY <1>1, <2>1, QuietPrefix
<1>3. CASE Defragment
  <2>1. pc' = "begin" /\ job' = "defragment" /\ off' = 0 /\ buf' = Zero
    BY <1>1, <1>3 DEF Defragment
  <2>2. QED BY <1>1, <2>1, QuietPrefix
<1>4. CASE Rebuild \/ Snapshot
  <2>1. pc' = "replay" /\ job' \in {"rebuild", "snapshot"}
    BY <1>4 DEF Rebuild, Snapshot, Replay
  <2>2. QED BY <1>1, <2>1, QuietPrefix
<1>5. QED BY <1>2, <1>3, <1>4

\* A reader ends, or one that does not open reads on.
LEMMA ReadPrefix ==
  ASSUME PrefixInv, TypeInv',
         \/ ReplayCorrupt \/ ReplayDone \/ ReadFails \/ ReplayFails
         \/ ReplayRecord /\ job # "open"
  PROVE  PrefixInv'
<1> USE PrefixTypes, OffsetsTyped
<1>1. pc = "replay" /\ job # "defragment" /\ UNCHANGED <<file, hdr, trail>>
  BY DEF ReplayCorrupt, ReplayDone, ReadFails, ReplayFails, ReplayRecord, Reading, Replayed,
         Gone, disk, history, Placed
<1>2. \/ pc' = "closed" /\ job' = "none"
      \/ pc' = "idle" /\ job' = "none" /\ fh' = fh
      \/ pc' = "replay" /\ job' = job /\ fh' = fh /\ job # "open"
  BY <1>1 DEF ReplayCorrupt, ReplayDone, ReadFails, ReplayFails, ReplayRecord, Replayed,
              Gone, Leave, handle
<1>3. QED BY <1>1, <1>2, QuietPrefix

\* The handle goes.
LEMMA GonePrefix ==
  ASSUME Faults \subseteq TornFaults, PrefixInv, TypeInv', Close \/ Crash
  PROVE  PrefixInv'
<1> USE PrefixTypes, OffsetsTyped
<1>1. pc # "closed" /\ job # "defragment"
  BY DEF Close, Crash, Fail, TornFaults, SafeFaults, Placed
<1>2. pc' = "closed" /\ job' = "none" /\ UNCHANGED <<file, hdr, trail>>
  BY DEF Close, Crash, Gone, Leave, disk
<1>3. QED BY <1>1, <1>2, QuietPrefix

LEMMA PrefixInvInit == Init => PrefixInv
<1> SUFFICES ASSUME Init PROVE PrefixInv
  OBVIOUS
<1>1. TypeInv
  BY TypeInvInit
<1>2. trail[0] = Fresh
  BY OffsetsTyped DEF Init, Offsets
<1>3. Legible(file, trail, 0)
  BY DEF Legible
<1>4. QED
  BY <1>1, <1>2, <1>3
     DEF Init, PrefixInv, DiskLegible, HandleLegible, Traced, Writing, OpeningWell

\* Of what can fail, this is left out.
LEMMA TornRuledOut ==
  ASSUME Faults \subseteq TornFaults, PrefixInv
  PROVE  ~WriteHeaderFails /\ ~ResizeFails /\ ~DefragmentFails
<1>1. ~ResizeFails
  BY PrefixTypes DEF ResizeFails, Fail, TornFaults, SafeFaults, Placed
<1>2. ~DefragmentFails
  BY PrefixTypes DEF DefragmentFails, Fail, TornFaults, SafeFaults, Placed
<1>3. ~WriteHeaderFails
  BY DEF WriteHeaderFails, Fail, TornFaults, SafeFaults
<1>4. QED BY <1>1, <1>2, <1>3

LEMMA PrefixInvNext ==
  ASSUME Faults \subseteq TornFaults
  PROVE  PrefixInv /\ [Next]_vars => PrefixInv'
<1> SUFFICES ASSUME PrefixInv, [Next]_vars PROVE PrefixInv'
  OBVIOUS
<1>1. TypeInv'
  BY TypeInvNext DEF PrefixInv
<1>2. CASE Step
  BY <1>1, <1>2, TornRuledOut, PushesPrefix, AppendFailsPrefix, HeaderPrefix, ResizePrefix,
     FlushHeaderPrefix, OpeningPrefix, ReadPrefix DEF Step
<1>3. ASSUME NEW k \in Keys, NEW v \in Values, Insert(k, v) PROVE PrefixInv'
  BY <1>1, <1>3, CallPrefix DEF Insert, Cmds, Vals
<1>4. ASSUME NEW k \in Keys, Erase(k) PROVE PrefixInv'
  BY <1>1, <1>4, CallPrefix DEF Erase, Cmds, Vals
<1>5. CASE Open \/ Close \/ Defragment \/ Rebuild \/ Snapshot \/ Crash \/ Tear
  BY <1>1, <1>5, OpenPrefix, GonePrefix, CallPrefix, TearPrefix
<1>6. CASE UNCHANGED vars
  <2>1. UNCHANGED <<file, hdr, pc, job, fh, off, buf, scan, trail>>
    BY <1>6 DEF vars, disk, handle, writer, history
  <2>2. DiskLegible' /\ HandleLegible' /\ OpeningWell' /\ trail'[0] = Fresh
    BY <2>1 DEF PrefixInv, DiskLegible, HandleLegible, OpeningWell
  <2>3. Traced'
    BY <2>1 DEF PrefixInv, Traced, Writing, Start, Cell
  <2>4. QED BY <1>1, <2>2, <2>3 DEF PrefixInv
<1>7. QED BY <1>2, <1>3, <1>4, <1>5, <1>6, TornRuledOut DEF Next, Call

\* Whatever crashes, whatever write, header or read is lost outside of
\* defragment, and wherever the file is cut off while it is closed: open never
\* makes up a map.  It reports the journal corrupt, or returns what the journal
\* stood for at some offset up to its end.
THEOREM NeverMadeUp ==
  ASSUME Faults \subseteq TornFaults PROVE Spec => PrefixOrCorrupt
<1>1. ASSUME PrefixInv, [Next]_vars
      PROVE  [job = "open" /\ pc' = "idle" => \E o \in 0 .. hdr : kv' = trail[o].map]_vars
  <2> SUFFICES ASSUME Next, job = "open", pc' = "idle"
               PROVE  \E o \in 0 .. hdr : kv' = trail[o].map
    BY <1>1
  <2> USE <1>1, PrefixTypes
  <2>1. pc = "replay" /\ fh = hdr /\ scan = trail[off] /\ off <= fh
    BY DEF PrefixInv, OpeningWell, Placed
  <2>2. ~ReplayCorrupt /\ ~ReplayFails /\ ~ReplayRecord /\ ~Crash /\ ~Tear
    BY <2>1 DEF ReplayCorrupt, ReplayFails, ReplayRecord, Crash, Tear, Gone, Leave
  <2>3. Replayed
    BY <2>1, <2>2, TornRuledOut
       DEF Next, Call, Step, Open, Close, Insert, Erase, Update, Defragment, Rebuild,
           Snapshot, WriteBegin, WriteOp, WriteMark, WriteEnd, WritePut, PushFails,
           WriteHeader, Resize, FlushHeader, FlushHeaderLost, ReplayDone, ReadFails,
           DefragmentFails, WriteHeaderFails, ResizeFails
  <2>4. kv' = trail[off].map
    BY <2>1, <2>3 DEF Replayed
  <2>5. QED BY <2>1, <2>4
<1>2. PrefixInv /\ [Next]_vars => PrefixInv'
  BY PrefixInvNext
<1>3. QED BY <1>1, <1>2, PrefixInvInit, PTL DEF Spec, PrefixOrCorrupt
=============================================================================
