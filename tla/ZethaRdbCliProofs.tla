--------------------------- MODULE ZethaRdbCliProofs ---------------------------
(***************************************************************************)
(* Theorems about ZethaRdbCli, for any programs, keys, values and bounds.  *)
(***************************************************************************)
EXTENDS ZethaRdbCli, FiniteSetTheorems, SequenceTheorems, Recursion

USE CliAssumption

-----------------------------------------------------------------------------
(* What a reader may know.                                                 *)

\* What may be bound to SchemaKey.
Marks == Schemas \cup {NoValue}

\* A record as the programs write them.
Sound(r) == r.lsn < MaxLsn /\ r.txn <= r.lsn /\ (r.key = SchemaKey => r.val \in Marks)

Ops   == {ops \in UNION {[K -> Vals] : K \in SUBSET Keys} :
            SchemaKey \in DOMAIN ops => ops[SchemaKey] \in Marks}
Pends == UNION {[T -> Ops] : T \in SUBSET Nat}
Scans == {s \in [map : Maps, pend : Pends, last : Nat, top : Nat] :
            /\ s.map[SchemaKey] \in Marks
            /\ \A t \in DOMAIN s.pend : t <= s.top
            /\ s.top <= s.last /\ s.last < MaxLsn}

LEMMA ValueSets == Marks \subseteq Vals /\ NoValue \notin Values /\ Schemas \subseteq Values
BY JournalAssumption DEF Marks, Vals

LEMMA EmptyIsMap == Empty \in Maps /\ \A k \in Keys : Empty[k] = NoValue
BY DEF Empty, Maps, Vals

LEMMA NoOpsIsOps == NoOps \in Ops
<1>1. NoOps \in [{} -> Vals] /\ DOMAIN NoOps = {}
  BY DEF NoOps
<1>2. QED BY <1>1 DEF Ops

LEMMA FreshIsScan == Fresh \in Scans
<1> DEFINE p == [t \in {} |-> NoOps]
<1>1. p \in [{} -> Ops] /\ DOMAIN p = {}
  OBVIOUS
<1>2. p \in Pends
  BY <1>1 DEF Pends
<1>3. Empty[SchemaKey] \in Marks
  BY EmptyIsMap DEF Marks
<1>4. QED BY <1>1, <1>2, <1>3, EmptyIsMap DEF Fresh, Scans

LEMMA WithOps ==
  ASSUME NEW ops \in Ops, NEW k \in Keys, NEW v \in Vals, k = SchemaKey => v \in Marks
  PROVE  With(ops, k, v) \in Ops
<1> DEFINE w == With(ops, k, v)
<1>1. DOMAIN ops \subseteq Keys /\ \A l \in DOMAIN ops : ops[l] \in Vals
  BY DEF Ops
<1>2. DOMAIN w = DOMAIN ops \cup {k} /\ \A l \in DOMAIN w : w[l] = IF l = k THEN v ELSE ops[l]
  BY DEF With
<1>3. w \in [DOMAIN w -> Vals]
  BY <1>1, <1>2 DEF With
<1>4. SchemaKey \in DOMAIN w => w[SchemaKey] \in Marks
  BY <1>2 DEF Ops
<1> HIDE DEF w
<1>5. QED BY <1>1, <1>2, <1>3, <1>4 DEF Ops, w

LEMMA WithPends ==
  ASSUME NEW p \in Pends, NEW t \in Nat, NEW ops \in Ops
  PROVE  With(p, t, ops) \in Pends /\ DOMAIN With(p, t, ops) = DOMAIN p \cup {t}
<1> DEFINE w == With(p, t, ops)
<1>1. DOMAIN p \in SUBSET Nat /\ \A u \in DOMAIN p : p[u] \in Ops
  BY DEF Pends
<1>2. DOMAIN w = DOMAIN p \cup {t} /\ w \in [DOMAIN p \cup {t} -> Ops]
  BY <1>1 DEF With
<1> HIDE DEF w
<1>3. QED BY <1>1, <1>2 DEF Pends, w

LEMMA WithoutPends ==
  ASSUME NEW p \in Pends, NEW t
  PROVE  Without(p, t) \in Pends /\ DOMAIN Without(p, t) = DOMAIN p \ {t}
<1> DEFINE w == Without(p, t)
<1>1. DOMAIN p \in SUBSET Nat /\ \A u \in DOMAIN p : p[u] \in Ops
  BY DEF Pends
<1>2. DOMAIN w = DOMAIN p \ {t} /\ w \in [DOMAIN p \ {t} -> Ops]
  BY <1>1 DEF Without
<1> HIDE DEF w
<1>3. QED BY <1>1, <1>2 DEF Pends, w

LEMMA ApplyOps ==
  ASSUME NEW m \in Maps, m[SchemaKey] \in Marks, NEW ops \in Ops
  PROVE  Apply(m, ops) \in Maps /\ Apply(m, ops)[SchemaKey] \in Marks
<1>1. DOMAIN ops \subseteq Keys /\ \A l \in DOMAIN ops : ops[l] \in Vals
  BY DEF Ops
<1>2. \A k \in Keys : Apply(m, ops)[k] = IF k \in DOMAIN ops THEN ops[k] ELSE m[k]
  BY DEF Apply
<1>3. Apply(m, ops) \in Maps
  BY <1>1 DEF Apply, Maps
<1>4. QED BY <1>2, <1>3 DEF Ops

\* A reader that takes a record knows proper things again.
LEMMA AfterIsScan ==
  ASSUME NEW s \in Scans, NEW r \in Records, Sound(r), Valid(s, r)
  PROVE  After(s, r) \in Scans
<1> DEFINE p == Pending(s.pend, r)
           m == IF r.op = "TxnEnd" THEN Apply(s.map, s.pend[r.txn]) ELSE s.map
           t == IF r.txn > s.top THEN r.txn ELSE s.top
<1>1. /\ r.lsn \in Nat /\ r.txn \in Nat
      /\ r.op \in {"Put", "Erase"} => r.key \in Keys /\ r.val \in Vals
      /\ r.op \in {"TxnBegin", "Put", "Erase", "Defragment", "TxnEnd"}
      /\ r.op # "TxnBegin" => r.txn \in DOMAIN s.pend
  BY DEF Records, Controls, Valid
<1>2. /\ s.map \in Maps /\ s.map[SchemaKey] \in Marks /\ s.pend \in Pends
      /\ s.last \in Nat /\ s.top \in Nat /\ s.top <= s.last
      /\ \A u \in DOMAIN s.pend : u <= s.top /\ u \in Nat /\ s.pend[u] \in Ops
  BY DEF Scans, Pends
<1>3. p \in Pends /\ DOMAIN p \subseteq DOMAIN s.pend \cup {r.txn}
  <2>1. CASE r.op = "TxnBegin"
    BY <1>1, <1>2, <2>1, NoOpsIsOps, WithPends, ZenonT(30) DEF Pending
  <2>2. CASE r.op \in {"Put", "Erase"}
    <3> DEFINE ops == With(s.pend[r.txn], r.key, r.val)
    <3>1. ops \in Ops
      BY <1>1, <1>2, <2>2, WithOps DEF Sound
    <3>2. p = With(s.pend, r.txn, ops)
      BY <2>2 DEF Pending
    <3> HIDE DEF ops, p
    <3>3. QED BY <1>1, <1>2, <3>1, <3>2, WithPends
  <2>3. CASE r.op = "Defragment"
    BY <1>2, <2>3 DEF Pending
  <2>4. CASE r.op = "TxnEnd"
    BY <1>2, <2>4, WithoutPends DEF Pending
  <2>5. QED BY <1>1, <2>1, <2>2, <2>3, <2>4
<1>4. m \in Maps /\ m[SchemaKey] \in Marks
  BY <1>1, <1>2, ApplyOps
<1>5. t \in Nat /\ r.txn <= t /\ s.top <= t /\ t <= r.lsn /\ r.lsn < MaxLsn
  BY <1>1, <1>2 DEF Valid, Sound
<1>6. \A u \in DOMAIN p : u <= t
  <2> HIDE DEF p, t
  <2>1. QED BY <1>1, <1>2, <1>3, <1>5
<1>7. After(s, r) = [map |-> m, pend |-> p, last |-> r.lsn, top |-> t]
  BY DEF After
<1> HIDE DEF m, p, t
<1>8. QED BY <1>1, <1>3, <1>4, <1>5, <1>6, <1>7 DEF Scans

-----------------------------------------------------------------------------
(* What replay_journal_ knows at an offset, from the file alone.           *)

\* A file as the programs write one, and what is seen in it.
Files   == {f \in [Offsets -> Records \cup {Zero}] : \A o \in Offsets : Sound(f[o])}
Read(S, r) == {After(s, r) : s \in {t \in S : Valid(t, r)}}
SeenIn(f) == CHOOSE seen : seen =
  [o \in Offsets |-> IF o = 0 THEN {Fresh} ELSE Read(seen[o - 1], f[o - 1])]

LEMMA SeenIsOfFile == Seen = SeenIn(file)
BY DEF Seen, SeenIn, Read

\* No more than one scan, of proper things.
Knows(S) == S \in SUBSET Scans /\ \A s, t \in S : s = t

LEMMA ReadScan ==
  ASSUME NEW S, Knows(S), NEW r \in Records \cup {Zero}, Sound(r)
  PROVE  Knows(Read(S, r))
<1>1. ASSUME NEW s \in S, Valid(s, r) PROVE After(s, r) \in Scans
  <2>1. s \in Scans /\ s.last \in Nat
    BY DEF Knows, Scans
  <2>2. r \in Records
    BY <1>1, <2>1 DEF Valid, Zero
  <2>3. QED BY <1>1, <2>1, <2>2, AfterIsScan
<1>2. QED BY <1>1 DEF Knows, Read

LEMMA SeenSteps ==
  ASSUME NEW f \in Files
  PROVE  /\ SeenIn(f)[0] = {Fresh}
         /\ \A o \in 0 .. MaxCells - 1 : SeenIn(f)[o + 1] = Read(SeenIn(f)[o], f[o])
         /\ \A o \in Offsets : Knows(SeenIn(f)[o])
<1> DEFINE D == {S \in SUBSET Scans : Knows(S)}
           step == [o \in 1 .. MaxCells |-> [S \in D |-> Read(S, f[o - 1])]]
           Next_(g) == [o \in Offsets |-> IF o = 0 THEN {Fresh} ELSE Read(g[o - 1], f[o - 1])]
           seen == SeenIn(f)
<1>1. Offsets = 0 .. MaxCells /\ MaxCells \in Nat
  BY DEF Offsets
<1>2. \A o \in 0 .. MaxCells - 1 : f[o] \in Records \cup {Zero} /\ Sound(f[o])
  BY <1>1 DEF Files
<1>3. {Fresh} \in D
  BY FreshIsScan DEF Knows
<1>4. \A S \in D : \A o \in 0 .. MaxCells - 1 : Read(S, f[o]) \in D
  BY <1>2, ReadScan DEF Knows
<1> HIDE DEF D
<1>5. step \in Steps(MaxCells, D)
  <2>1. \A o \in 1 .. MaxCells : o - 1 \in 0 .. MaxCells - 1
    BY <1>1
  <2>2. \A o \in 1 .. MaxCells : [S \in D |-> Read(S, f[o - 1])] \in [D -> D]
    BY <1>4, <2>1
  <2>3. QED BY <2>2 DEF Steps
<1>6. PICK g \in [0 .. MaxCells -> D] :
        g[0] = {Fresh} /\ \A o \in 1 .. MaxCells : g[o] = step[o][g[o - 1]]
  <2> HIDE DEF step
  <2>1. Runs(MaxCells, D, {Fresh}, step) # {}
    BY <1>1, <1>3, <1>5, RecursiveFunction
  <2>2. QED BY <2>1 DEF Runs
<1>7. \A o \in 1 .. MaxCells : g[o] = Read(g[o - 1], f[o - 1])
  <2>1. TAKE o \in 1 .. MaxCells
  <2>2. g[o - 1] \in D
    BY <1>1
  <2>3. QED BY <1>6, <2>2
<1>8. g = Next_(g)
  BY <1>1, <1>6, <1>7
<1>9. seen = CHOOSE h : h = Next_(h)
  BY DEF SeenIn
<1> HIDE DEF Next_, seen
<1>10. seen = Next_(seen)
  BY <1>8, <1>9
<1>11. seen[0] = {Fresh}
  BY <1>1, <1>10 DEF Next_
<1>12. \A o \in 0 .. MaxCells - 1 : seen[o + 1] = Read(seen[o], f[o])
  <2>1. \A o \in 0 .. MaxCells - 1 : o + 1 \in Offsets /\ o + 1 # 0 /\ o + 1 - 1 = o
    BY <1>1
  <2>2. \A o \in Offsets : o # 0 => seen[o] = Read(seen[o - 1], f[o - 1])
    BY <1>10 DEF Next_
  <2>3. QED BY <2>1, <2>2
<1> DEFINE S == {o \in Nat : o <= MaxCells => seen[o] \in D}
<1>13. 0 \in S
  BY <1>3, <1>11
<1>14. \A o \in Nat : o \in S => o + 1 \in S
  <2>1. SUFFICES ASSUME NEW o \in Nat, o \in S, o + 1 <= MaxCells PROVE seen[o + 1] \in D
    OBVIOUS
  <2>2. seen[o] \in D /\ o \in 0 .. MaxCells - 1
    BY <1>1, <2>1
  <2>3. QED BY <1>4, <1>12, <2>2
<1> HIDE DEF S
<1>15. \A o \in Nat : o \in S
  BY <1>13, <1>14, NatInductiveOn
<1>16. \A o \in Offsets : seen[o] \in D
  BY <1>1, <1>15 DEF S
<1>17. QED BY <1>11, <1>12, <1>16 DEF seen, D

\* What is seen at an offset depends on what is before it.
LEMMA SeenAlike ==
  ASSUME NEW f \in Files, NEW g \in Files, NEW n \in Offsets, \A o \in 0 .. n - 1 : f[o] = g[o]
  PROVE  SeenIn(f)[n] = SeenIn(g)[n]
<1>1. Offsets = 0 .. MaxCells /\ MaxCells \in Nat /\ n \in Nat /\ n <= MaxCells
  BY DEF Offsets
<1> DEFINE a == SeenIn(f)
           b == SeenIn(g)
           S == {o \in Nat : o <= n => a[o] = b[o]}
<1>2. /\ a[0] = b[0]
      /\ \A o \in 0 .. MaxCells - 1 : a[o + 1] = Read(a[o], f[o])
      /\ \A o \in 0 .. MaxCells - 1 : b[o + 1] = Read(b[o], g[o])
  BY SeenSteps
<1> HIDE DEF a, b
<1>3. 0 \in S
  BY <1>2
<1>4. \A o \in Nat : o \in S => o + 1 \in S
  <2>1. SUFFICES ASSUME NEW o \in Nat, o \in S, o + 1 <= n PROVE a[o + 1] = b[o + 1]
    OBVIOUS
  <2>2. a[o] = b[o] /\ o \in 0 .. MaxCells - 1 /\ f[o] = g[o]
    BY <1>1, <2>1
  <2>3. QED BY <1>2, <2>2
<1> HIDE DEF S
<1>5. \A o \in Nat : o \in S
  BY <1>3, <1>4, NatInductiveOn
<1>6. QED BY <1>1, <1>5 DEF S, a, b

\* A record that follows on what is seen before it is read.
LEMMA SeenNext ==
  ASSUME NEW f \in Files, NEW o \in 0 .. MaxCells - 1, NEW s, SeenIn(f)[o] = {s}, Valid(s, f[o])
  PROVE  SeenIn(f)[o + 1] = {After(s, f[o])}
<1>1. SeenIn(f)[o + 1] = Read({s}, f[o])
  BY SeenSteps
<1>2. QED BY <1>1 DEF Read

-----------------------------------------------------------------------------
(* Transactions.                                                           *)

\* What is seen stands for m, up to log sequence number l and transaction t.
At(S, m, l, t) == \E s : S = {s} /\ s.map = m /\ s.last = l /\ s.top = t

\* The same, in the middle of transaction t, which has done ops.
In(S, m, ops, l, t) ==
  \E s : /\ S = {s} /\ s.map = m /\ s.last = l /\ s.top = t
        /\ t \in DOMAIN s.pend /\ s.pend[t] = ops

LEMMA BeginReads ==
  ASSUME NEW f \in Files, NEW o \in 0 .. MaxCells - 1, NEW m, NEW l \in Nat, NEW t \in Nat,
         At(SeenIn(f)[o], m, l, t), NEW n \in Nat, NEW u \in Nat, l < n, t < u,
         f[o].op = "TxnBegin", f[o].lsn = n, f[o].txn = u
  PROVE  In(SeenIn(f)[o + 1], m, NoOps, n, u)
<1>1. PICK s : SeenIn(f)[o] = {s} /\ s.map = m /\ s.last = l /\ s.top = t
  BY DEF At
<1>2. s \in Scans
  BY <1>1, SeenSteps DEF Offsets, Knows
<1>3. u \notin DOMAIN s.pend
  BY <1>1, <1>2 DEF Scans
<1>4. Valid(s, f[o])
  BY <1>1, <1>3 DEF Valid
<1> DEFINE a == After(s, f[o])
<1>5. SeenIn(f)[o + 1] = {a}
  BY <1>1, <1>4, SeenNext
<1>6. a.map = m /\ a.last = n /\ a.top = u /\ u \in DOMAIN a.pend /\ a.pend[u] = NoOps
  BY <1>1 DEF After, Pending, With
<1> HIDE DEF a
<1>7. QED BY <1>5, <1>6 DEF In

LEMMA OpReads ==
  ASSUME NEW f \in Files, NEW o \in 0 .. MaxCells - 1, NEW m, NEW ops, NEW l \in Nat, NEW t \in Nat,
         In(SeenIn(f)[o], m, ops, l, t),
         f[o].op \in {"Put", "Erase"}, f[o].lsn = l + 1, f[o].txn = t
  PROVE  In(SeenIn(f)[o + 1], m, With(ops, f[o].key, f[o].val), l + 1, t)
<1>1. PICK s : /\ SeenIn(f)[o] = {s} /\ s.map = m /\ s.last = l /\ s.top = t
               /\ t \in DOMAIN s.pend /\ s.pend[t] = ops
  BY DEF In
<1>2. Valid(s, f[o])
  BY <1>1 DEF Valid
<1> DEFINE u == After(s, f[o])
<1>3. SeenIn(f)[o + 1] = {u}
  BY <1>1, <1>2, SeenNext
<1>4. /\ u.map = m /\ u.last = l + 1 /\ u.top = t
      /\ t \in DOMAIN u.pend /\ u.pend[t] = With(ops, f[o].key, f[o].val)
  <2> DEFINE w == With(s.pend[t], f[o].key, f[o].val)
  <2>1. u.map = m /\ u.last = l + 1 /\ u.top = t /\ u.pend = With(s.pend, t, w)
    BY <1>1 DEF After, Pending
  <2> HIDE DEF w, u
  <2>2. t \in DOMAIN u.pend /\ u.pend[t] = w
    BY <2>1 DEF With
  <2>3. QED BY <1>1, <2>1, <2>2 DEF w
<1> HIDE DEF u
<1>5. QED BY <1>3, <1>4 DEF In

LEMMA MarkReads ==
  ASSUME NEW f \in Files, NEW o \in 0 .. MaxCells - 1, NEW m, NEW ops, NEW l \in Nat, NEW t \in Nat,
         In(SeenIn(f)[o], m, ops, l, t),
         f[o].op = "Defragment", f[o].lsn = l + 1, f[o].txn = t
  PROVE  In(SeenIn(f)[o + 1], m, ops, l + 1, t)
<1>1. PICK s : /\ SeenIn(f)[o] = {s} /\ s.map = m /\ s.last = l /\ s.top = t
               /\ t \in DOMAIN s.pend /\ s.pend[t] = ops
  BY DEF In
<1>2. Valid(s, f[o])
  BY <1>1 DEF Valid
<1> DEFINE u == After(s, f[o])
<1>3. SeenIn(f)[o + 1] = {u}
  BY <1>1, <1>2, SeenNext
<1>4. u.map = m /\ u.last = l + 1 /\ u.top = t /\ u.pend = s.pend
  BY <1>1 DEF After, Pending
<1> HIDE DEF u
<1>5. QED BY <1>1, <1>3, <1>4 DEF In

LEMMA EndReads ==
  ASSUME NEW f \in Files, NEW o \in 0 .. MaxCells - 1, NEW m, NEW ops, NEW l \in Nat, NEW t \in Nat,
         In(SeenIn(f)[o], m, ops, l, t),
         f[o].op = "TxnEnd", f[o].lsn = l + 1, f[o].txn = t
  PROVE  At(SeenIn(f)[o + 1], Apply(m, ops), l + 1, t)
<1>1. PICK s : /\ SeenIn(f)[o] = {s} /\ s.map = m /\ s.last = l /\ s.top = t
               /\ t \in DOMAIN s.pend /\ s.pend[t] = ops
  BY DEF In
<1>2. Valid(s, f[o])
  BY <1>1 DEF Valid
<1> DEFINE u == After(s, f[o])
<1>3. SeenIn(f)[o + 1] = {u}
  BY <1>1, <1>2, SeenNext
<1>4. u.map = Apply(m, ops) /\ u.last = l + 1 /\ u.top = t
  BY <1>1 DEF After
<1> HIDE DEF u
<1>5. QED BY <1>3, <1>4 DEF At

\* Records without their numbers.
Notes == {r \in [op : {"Put", "Erase"}, key : Keys, val : Vals] : r.key = SchemaKey => r.val \in Marks}
         \cup [op : Controls, key : {NoKey}, val : {NoValue}]

LEMMA NotesMade ==
  /\ \A op \in Controls : Control(op) \in Notes
  /\ \A k \in Keys, v \in Vals : (k = SchemaKey => v \in Marks) => Operation(k, v) \in Notes
BY DEF Notes, Control, Operation

\* A note as a record: with its log sequence number and its transaction.
Numbered(r, n, t) == [op |-> r.op, key |-> r.key, val |-> r.val, lsn |-> n, txn |-> t]

\* What Written puts where.
LEMMA WrittenFile ==
  ASSUME NEW f \in Files, NEW at \in Nat, NEW ops \in Seq(Notes), NEW n \in Nat, NEW t \in Nat,
         at + Len(ops) <= MaxCells, n + Len(ops) <= MaxLsn, t <= n
  PROVE  /\ Written(f, at, ops, n, t) \in Files
         /\ \A o \in Offsets : o \notin at .. at + Len(ops) - 1 => Written(f, at, ops, n, t)[o] = f[o]
         /\ \A i \in 1 .. Len(ops) :
              Written(f, at, ops, n, t)[at + i - 1] = Numbered(ops[i], n + i - 1, t)
<1> DEFINE g == Written(f, at, ops, n, t)
           Rec(o) == [op |-> ops[o - at + 1].op, key |-> ops[o - at + 1].key, val |-> ops[o - at + 1].val,
                      lsn |-> n + (o - at), txn |-> t]
<1>1. Offsets = 0 .. MaxCells /\ MaxCells \in Nat /\ Len(ops) \in Nat /\ NoKey # SchemaKey
  BY JournalAssumption DEF Offsets
<1>2. g = [o \in Offsets |-> IF o \in at .. at + Len(ops) - 1 THEN Rec(o) ELSE f[o]]
  BY DEF Written
<1>3. ASSUME NEW o \in at .. at + Len(ops) - 1 PROVE Rec(o) \in Records /\ Sound(Rec(o))
  <2>1. o - at + 1 \in 1 .. Len(ops) /\ o - at \in Nat /\ n + (o - at) \in Nat
    BY <1>1
  <2>2. ops[o - at + 1] \in Notes
    BY <2>1
  <2>3. n + (o - at) < MaxLsn /\ t <= n + (o - at)
    BY <1>1, <2>1
  <2>4. Rec(o) \in Records
    BY <2>1, <2>2 DEF Notes, Records
  <2>5. ops[o - at + 1].key = SchemaKey => ops[o - at + 1].val \in Marks
    BY <1>1, <2>2 DEF Notes
  <2>6. QED BY <2>3, <2>4, <2>5 DEF Sound
<1> HIDE DEF Rec
<1>4. g \in Files
  BY <1>2, <1>3 DEF Files
<1>5. \A o \in Offsets : o \notin at .. at + Len(ops) - 1 => g[o] = f[o]
  BY <1>2
<1>6. ASSUME NEW i \in 1 .. Len(ops)
      PROVE  g[at + i - 1] = Numbered(ops[i], n + i - 1, t)
  <2>1. /\ at + i - 1 \in at .. at + Len(ops) - 1 /\ at + i - 1 \in Offsets
        /\ at + i - 1 - at + 1 = i /\ n + (at + i - 1 - at) = n + i - 1
    BY <1>1
  <2>2. g[at + i - 1] = Rec(at + i - 1)
    BY <1>2, <2>1
  <2>3. QED BY <2>1, <2>2 DEF Rec, Numbered
<1>7. QED BY <1>4, <1>5, <1>6

LEMMA TransactionSeq ==
  ASSUME NEW ops \in Seq(Notes)
  PROVE  /\ Transaction(ops) \in Seq(Notes) /\ Len(Transaction(ops)) = Len(ops) + 2
         /\ Transaction(ops)[1] = Control("TxnBegin")
         /\ \A i \in 1 .. Len(ops) : Transaction(ops)[i + 1] = ops[i]
         /\ Transaction(ops)[Len(ops) + 2] = Control("TxnEnd")
<1> DEFINE b == <<Control("TxnBegin")>>
           e == <<Control("TxnEnd")>>
           p == b \o ops
<1>1. Control("TxnBegin") \in Notes /\ Control("TxnEnd") \in Notes
  BY NotesMade DEF Controls
<1>2. b \in Seq(Notes) /\ Len(b) = 1 /\ b[1] = Control("TxnBegin") /\ e \in Seq(Notes) /\ Len(e) = 1 /\ e[1] = Control("TxnEnd")
  BY <1>1
<1> HIDE DEF b, e
<1> DEFINE N == Notes
<1> HIDE DEF N
<1>3. /\ p \in Seq(N) /\ Len(p) = Len(ops) + 1
      /\ \A i \in 1 .. Len(ops) + 1 : p[i] = IF i <= 1 THEN b[i] ELSE ops[i - 1]
  <2>1. b \in Seq(N) /\ ops \in Seq(N)
    BY <1>2 DEF N
  <2>2. Len(ops) \in Nat
    BY <2>1
  <2>3. /\ b \o ops \in Seq(N)
        /\ Len(b \o ops) = Len(b) + Len(ops)
        /\ \A i \in 1 .. Len(b) + Len(ops) : (b \o ops)[i] = IF i <= Len(b) THEN b[i] ELSE ops[i - Len(b)]
    BY <2>1, ConcatProperties, Zenon
  <2> HIDE DEF p
  <2>4. p = b \o ops
    BY DEF p
  <2>5. /\ p \in Seq(N) /\ Len(p) = 1 + Len(ops)
        /\ \A i \in 1 .. 1 + Len(ops) : p[i] = IF i <= 1 THEN b[i] ELSE ops[i - 1]
    BY <1>2, <2>3, <2>4, Zenon
  <2>6. 1 + Len(ops) = Len(ops) + 1
    BY <2>2
  <2>7. QED BY <2>5, <2>6, Zenon
<1> HIDE DEF p
<1>4. /\ p \o e \in Seq(N) /\ Len(p \o e) = Len(ops) + 2
      /\ \A i \in 1 .. Len(ops) + 2 : (p \o e)[i] = IF i <= Len(ops) + 1 THEN p[i] ELSE e[i - (Len(ops) + 1)]
  <2>1. e \in Seq(N) /\ Len(ops) \in Nat
    BY <1>2 DEF N
  <2>2. /\ p \o e \in Seq(N)
        /\ Len(p \o e) = Len(p) + Len(e)
        /\ \A i \in 1 .. Len(p) + Len(e) : (p \o e)[i] = IF i <= Len(p) THEN p[i] ELSE e[i - Len(p)]
    BY <1>3, <2>1, ConcatProperties, Zenon
  <2>3. Len(p) + Len(e) = Len(ops) + 2
    BY <1>2, <1>3, <2>1
  <2>4. QED BY <1>3, <2>2, <2>3, Zenon
<1>5. Transaction(ops) = p \o e
  BY DEF Transaction, b, e, p
<1> DEFINE q == p \o e
<1>6. Len(ops) \in Nat
  OBVIOUS
<1> HIDE DEF q
<1>7. q[1] = Control("TxnBegin")
  BY <1>2, <1>3, <1>4, <1>6 DEF q
<1>8. \A i \in 1 .. Len(ops) : q[i + 1] = ops[i]
  <2>1. TAKE i \in 1 .. Len(ops)
  <2>2. i + 1 \in 1 .. Len(ops) + 1 /\ i + 1 \in 1 .. Len(ops) + 2 /\ ~ i + 1 <= 1 /\ i + 1 - 1 = i
    BY <1>6
  <2>3. q[i + 1] = p[i + 1] /\ p[i + 1] = ops[i + 1 - 1]
    BY <1>3, <1>4, <2>2 DEF q
  <2>4. QED BY <2>2, <2>3
<1>9. q[Len(ops) + 2] = Control("TxnEnd")
  <2>1. Len(ops) + 2 \in 1 .. Len(ops) + 2 /\ ~ Len(ops) + 2 <= Len(ops) + 1 /\ Len(ops) + 2 - (Len(ops) + 1) = 1
    BY <1>6
  <2>2. QED BY <1>2, <1>4, <2>1 DEF q
<1>10. QED BY <1>4, <1>5, <1>7, <1>8, <1>9 DEF q, N

\* One update put behind what is seen is seen.
LEMMA UpdateReads ==
  ASSUME NEW f \in Files, NEW at \in Nat, NEW k \in Keys, NEW v \in Vals, k = SchemaKey => v \in Marks,
         NEW m \in Maps, NEW l \in Nat, NEW t \in Nat, t <= l, At(SeenIn(f)[at], m, l, t),
         at + 3 <= MaxCells, l + 4 <= MaxLsn,
         NEW g, g = Written(f, at, Transaction(<<Operation(k, v)>>), l + 1, t + 1)
  PROVE  /\ g \in Files
         /\ \A o \in 0 .. at - 1 : g[o] = f[o]
         /\ At(SeenIn(g)[at + 3], [m EXCEPT ![k] = v], l + 3, t + 1)
<1> DEFINE ops == Transaction(<<Operation(k, v)>>)
<1>1. /\ ops \in Seq(Notes) /\ Len(ops) = 3
      /\ ops[1] = Control("TxnBegin") /\ ops[2] = Operation(k, v) /\ ops[3] = Control("TxnEnd")
  <2>1. Operation(k, v) \in Notes
    BY NotesMade
  <2> DEFINE q == <<Operation(k, v)>>
  <2>2. q \in Seq(Notes) /\ Len(q) = 1 /\ q[1] = Operation(k, v)
    BY <2>1
  <2> HIDE DEF q
  <2> DEFINE T == Transaction(q)
  <2>3. /\ T \in Seq(Notes) /\ Len(T) = Len(q) + 2 /\ T[1] = Control("TxnBegin")
        /\ \A i \in 1 .. Len(q) : T[i + 1] = q[i]
        /\ T[Len(q) + 2] = Control("TxnEnd")
    BY <2>2, TransactionSeq
  <2> HIDE DEF T
  <2>4. Len(T) = 3 /\ T[3] = Control("TxnEnd")
    BY <2>2, <2>3
  <2>5. T[1 + 1] = q[1]
    BY <2>2, <2>3
  <2>6. QED BY <2>2, <2>3, <2>4, <2>5 DEF q, T
<1> HIDE DEF ops
<1>2. /\ g \in Files
      /\ \A o \in Offsets : o \notin at .. at + 3 - 1 => g[o] = f[o]
      /\ \A i \in 1 .. 3 : g[at + i - 1] = Numbered(ops[i], l + 1 + i - 1, t + 1)
  <2> DEFINE n == l + 1
             u == t + 1
  <2>1. at + Len(ops) <= MaxCells /\ n + Len(ops) <= MaxLsn /\ u <= n /\ n \in Nat /\ u \in Nat
    BY <1>1
  <2>2. g = Written(f, at, ops, n, u)
    BY DEF ops
  <2> HIDE DEF n, u
  <2>3. /\ g \in Files
        /\ \A o \in Offsets : o \notin at .. at + Len(ops) - 1 => g[o] = f[o]
        /\ \A i \in 1 .. Len(ops) :
             g[at + i - 1] = Numbered(ops[i], n + i - 1, u)
    <3>1. ops \in Seq(Notes)
      BY <1>1
    <3> HIDE CliAssumption
    <3>2. Written(f, at, ops, n, u) \in Files
      BY <3>1, <2>1, WrittenFile
    <3>3. \A o \in Offsets : o \notin at .. at + Len(ops) - 1 => Written(f, at, ops, n, u)[o] = f[o]
      BY <3>1, <2>1, WrittenFile
    <3>4. \A i \in 1 .. Len(ops) :
              Written(f, at, ops, n, u)[at + i - 1] = Numbered(ops[i], n + i - 1, u)
      BY <3>1, <2>1, WrittenFile
    <3>5. QED BY <2>2, <3>2, <3>3, <3>4
  <2>4. QED BY <1>1, <2>3, Zenon DEF n, u
<1>3. at \in Offsets /\ at \in 0 .. MaxCells - 1 /\ at + 1 \in 0 .. MaxCells - 1 /\ at + 2 \in 0 .. MaxCells - 1
  BY DEF Offsets
<1>4. /\ g[at].op = "TxnBegin" /\ g[at].lsn = l + 1 /\ g[at].txn = t + 1
      /\ g[at + 1].op \in {"Put", "Erase"} /\ g[at + 1].key = k /\ g[at + 1].val = v
      /\ g[at + 1].lsn = l + 2 /\ g[at + 1].txn = t + 1
      /\ g[at + 2].op = "TxnEnd" /\ g[at + 2].lsn = l + 3 /\ g[at + 2].txn = t + 1
  <2>1. at + 1 - 1 = at /\ at + 2 - 1 = at + 1 /\ at + 3 - 1 = at + 2
    OBVIOUS
  <2>2. \A i \in 1 .. 3 : /\ g[at + i - 1].op = ops[i].op /\ g[at + i - 1].key = ops[i].key
                           /\ g[at + i - 1].val = ops[i].val
                           /\ g[at + i - 1].lsn = l + i /\ g[at + i - 1].txn = t + 1
    BY <1>2 DEF Numbered
  <2>3. QED BY <1>1, <2>1, <2>2 DEF Control, Operation
<1>5. \A o \in 0 .. at - 1 : g[o] = f[o]
  BY <1>2 DEF Offsets
<1>6. At(SeenIn(g)[at], m, l, t)
  <2>1. SeenIn(g)[at] = SeenIn(f)[at]
    BY <1>2, <1>3, <1>5, SeenAlike
  <2>2. QED BY <2>1
<1>7. In(SeenIn(g)[at + 1], m, NoOps, l + 1, t + 1)
  BY <1>2, <1>3, <1>4, <1>6, BeginReads
<1>8. In(SeenIn(g)[at + 1 + 1], m, With(NoOps, k, v), l + 1 + 1, t + 1)
  BY <1>2, <1>3, <1>4, <1>7, OpReads
<1>9. At(SeenIn(g)[at + 2 + 1], Apply(m, With(NoOps, k, v)), l + 2 + 1, t + 1)
  <2>1. at + 1 + 1 = at + 2 /\ l + 1 + 1 = l + 2
    OBVIOUS
  <2>2. In(SeenIn(g)[at + 2], m, With(NoOps, k, v), l + 2, t + 1)
    BY <1>8, <2>1
  <2>3. QED BY <1>2, <1>3, <1>4, <2>2, EndReads
<1>10. Apply(m, With(NoOps, k, v)) = [m EXCEPT ![k] = v]
  BY DEF Apply, With, NoOps, Maps
<1>11. at + 2 + 1 = at + 3 /\ l + 2 + 1 = l + 3
  OBVIOUS
<1>12. QED BY <1>2, <1>5, <1>9, <1>10, <1>11

\* SetToSeq lists a finite set: each of its elements, once.
LEMMA SetToSeqLists ==
  ASSUME NEW S, IsFiniteSet(S)
  PROVE  /\ SetToSeq(S) \in Seq(S) /\ \A x \in S : \E i \in 1 .. Len(SetToSeq(S)) : SetToSeq(S)[i] = x
<1> DEFINE n == Cardinality(S)
           f == SetToSeq(S)
<1>1. n \in Nat /\ ExistsBijection(1 .. n, S)
  BY FS_CardinalityType
<1>2. PICK b \in [1 .. n -> S] : IsInjective(b)
  BY <1>1 DEF ExistsBijection, Bijection, Injection
<1>3. f \in [1 .. n -> S] /\ IsInjective(f)
  BY <1>2 DEF SetToSeq
<1> HIDE DEF f
<1>4. f \in Injection(1 .. n, S)
  BY <1>3 DEF Injection
<1>5. Cardinality(1 .. n) = n
  BY <1>1, FS_Interval
<1>6. f \in Surjection(1 .. n, S)
  BY <1>4, <1>5, FS_Injection
<1>7. f \in Seq(S) /\ Len(f) = n
  BY <1>1, <1>3
<1>8. \A x \in S : \E i \in 1 .. n : f[i] = x
  BY <1>6 DEF Surjection
<1>9. QED BY <1>7, <1>8 DEF f

\* The bound keys of m, and what Survivors makes of them.
Bound(m) == SetToSeq({k \in Keys : m[k] # NoValue})

LEMMA BoundKeys ==
  ASSUME NEW m \in Maps
  PROVE  /\ Bound(m) \in Seq(Keys)
         /\ \A i \in 1 .. Len(Bound(m)) : m[Bound(m)[i]] # NoValue
         /\ \A k \in Keys : m[k] # NoValue => \E i \in 1 .. Len(Bound(m)) : Bound(m)[i] = k
<1> DEFINE S == {k \in Keys : m[k] # NoValue}
<1>1. IsFiniteSet(S)
  BY FS_Subset
<1>2. /\ Bound(m) \in Seq(S)
      /\ \A x \in S : \E i \in 1 .. Len(Bound(m)) : Bound(m)[i] = x
  BY <1>1, SetToSeqLists DEF Bound
<1>3. Bound(m) \in Seq(Keys)
  BY <1>2, SeqMonotonic
<1>4. \A i \in 1 .. Len(Bound(m)) : Bound(m)[i] \in S
  BY <1>2, ElementOfSeq
<1>5. QED BY <1>2, <1>3, <1>4

LEMMA SurvivorsSeq ==
  ASSUME NEW m \in Maps, m[SchemaKey] \in Marks
  PROVE  /\ Survivors(m) \in Seq(Notes) /\ Len(Survivors(m)) = Len(Bound(m)) + 1
         /\ \A i \in 1 .. Len(Bound(m)) : Survivors(m)[i] = Operation(Bound(m)[i], m[Bound(m)[i]])
         /\ Survivors(m)[Len(Bound(m)) + 1] = Control("Defragment")
<1> DEFINE b == Bound(m)
           p == [i \in DOMAIN b |-> Operation(b[i], m[b[i]])]
           e == <<Control("Defragment")>>
           N == Notes
<1>1. b \in Seq(Keys)
  BY BoundKeys
<1>2. Survivors(m) = p \o e
  BY DEF Survivors, Bound
<1> HIDE DEF b, N
<1>3. DOMAIN b = 1 .. Len(b) /\ Len(b) \in Nat /\ \A i \in 1 .. Len(b) : b[i] \in Keys
  BY <1>1
<1>4. \A i \in 1 .. Len(b) : Operation(b[i], m[b[i]]) \in N
  BY <1>3, NotesMade DEF Maps, N
<1>5. p \in [1 .. Len(b) -> N] /\ \A i \in 1 .. Len(b) : p[i] = Operation(b[i], m[b[i]])
  BY <1>3, <1>4
<1> HIDE DEF p
<1>6. p \in Seq(N) /\ Len(p) = Len(b)
  BY <1>3, <1>5
<1>7. Control("Defragment") \in N
  BY NotesMade DEF Controls, N
<1>8. e \in Seq(N) /\ Len(e) = 1 /\ e[1] = Control("Defragment")
  BY <1>7
<1> HIDE DEF e
<1>9. /\ p \o e \in Seq(N)
      /\ Len(p \o e) = Len(p) + Len(e)
      /\ \A i \in 1 .. Len(p) + Len(e) : (p \o e)[i] = IF i <= Len(p) THEN p[i] ELSE e[i - Len(p)]
  BY <1>6, <1>8, ConcatProperties, Zenon
<1> DEFINE q == p \o e
<1>10. /\ q \in Seq(N) /\ Len(q) = Len(b) + 1
       /\ \A i \in 1 .. Len(b) + 1 : q[i] = IF i <= Len(b) THEN p[i] ELSE e[i - Len(b)]
  BY <1>6, <1>8, <1>9, Zenon
<1> HIDE DEF q
<1>11. \A i \in 1 .. Len(b) : q[i] = p[i]
  BY <1>3, <1>10
<1>12. q[Len(b) + 1] = e[1]
  <2>1. Len(b) + 1 \in 1 .. Len(b) + 1 /\ ~ Len(b) + 1 <= Len(b) /\ Len(b) + 1 - Len(b) = 1
    BY <1>3
  <2>2. QED BY <1>10, <2>1
<1>13. \A i \in 1 .. Len(b) : q[i] = Operation(b[i], m[b[i]])
  BY <1>5, <1>11
<1>14. QED BY <1>2, <1>8, <1>10, <1>12, <1>13 DEF q, N, b

LEMMA CompactionSeq ==
  ASSUME NEW m \in Maps, m[SchemaKey] \in Marks
  PROVE  /\ Compaction(m) \in Seq(Notes) /\ Len(Compaction(m)) = Len(Bound(m)) + 3
         /\ Compaction(m)[1] = Control("TxnBegin")
         /\ \A i \in 1 .. Len(Bound(m)) :
              Compaction(m)[i + 1] = Operation(Bound(m)[i], m[Bound(m)[i]])
         /\ Compaction(m)[Len(Bound(m)) + 2] = Control("Defragment")
         /\ Compaction(m)[Len(Bound(m)) + 3] = Control("TxnEnd")
<1> DEFINE b == Bound(m)
           q == Survivors(m)
           c == Compaction(m)
<1>1. /\ q \in Seq(Notes) /\ Len(q) = Len(b) + 1
      /\ \A i \in 1 .. Len(b) : q[i] = Operation(b[i], m[b[i]])
      /\ q[Len(b) + 1] = Control("Defragment")
  BY SurvivorsSeq
<1>2. Len(b) \in Nat
  BY BoundKeys
<1> HIDE DEF q, b
<1>3. /\ c \in Seq(Notes) /\ Len(c) = Len(q) + 2 /\ c[1] = Control("TxnBegin")
      /\ \A i \in 1 .. Len(q) : c[i + 1] = q[i]
      /\ c[Len(q) + 2] = Control("TxnEnd")
  <2>1. c = Transaction(q)
    BY DEF Compaction, q
  <2> HIDE DEF c
  <2>2. QED BY <1>1, <2>1, TransactionSeq
<1> HIDE DEF c
<1>4. Len(q) + 2 = Len(b) + 3
  BY <1>1, <1>2
<1>5. \A i \in 1 .. Len(b) : i \in 1 .. Len(q)
  BY <1>1, <1>2
<1>6. Len(b) + 1 \in 1 .. Len(q) /\ Len(b) + 1 + 1 = Len(b) + 2
  BY <1>1, <1>2
<1>7. \A i \in 1 .. Len(b) : c[i + 1] = Operation(b[i], m[b[i]])
  BY <1>1, <1>3, <1>5
<1>8. c[Len(b) + 2] = Control("Defragment")
  BY <1>1, <1>3, <1>6
<1>9. QED BY <1>3, <1>4, <1>7, <1>8 DEF b, c

\* A file of zeros.
Blank == [o \in Offsets |-> Zero]

LEMMA BlankFile ==
  /\ Blank \in Files
  /\ \A f \in Files : At(SeenIn(f)[0], Empty, 0, 0)
<1>1. Sound(Zero)
  BY JournalAssumption DEF Sound, Zero, Marks
<1>2. Blank \in Files
  BY <1>1 DEF Blank, Files
<1>3. \A f \in Files : SeenIn(f)[0] = {Fresh}
  BY SeenSteps
<1>4. Fresh.map = Empty /\ Fresh.last = 0 /\ Fresh.top = 0
  BY DEF Fresh
<1>5. QED BY <1>2, <1>3, <1>4 DEF At

\* What defragment writes is read as the map it was made of.
LEMMA CompactionReads ==
  ASSUME NEW m \in Maps, m[SchemaKey] \in Marks, NEW n \in Nat, NEW u \in Nat, 0 < u, u <= n,
         Len(Compaction(m)) <= MaxCells, n + Len(Compaction(m)) <= MaxLsn,
         NEW g, g = Written(Blank, 0, Compaction(m), n, u)
  PROVE  g \in Files /\ At(SeenIn(g)[Len(Compaction(m))], m, n + Len(Compaction(m)) - 1, u)
<1> DEFINE b == Bound(m)
           N == Len(b)
           c == Compaction(m)
           Done(i) == [k \in {b[j] : j \in 1 .. i} |-> m[k]]
           S == {i \in Nat : i <= N => In(SeenIn(g)[i + 1], Empty, Done(i), n + i, u)}
<1>1. /\ b \in Seq(Keys) /\ N \in Nat
      /\ \A i \in 1 .. N : b[i] \in Keys /\ m[b[i]] # NoValue
      /\ \A k \in Keys : m[k] # NoValue => \E i \in 1 .. N : b[i] = k
  BY BoundKeys
<1>2. /\ c \in Seq(Notes) /\ Len(c) = N + 3 /\ c[1] = Control("TxnBegin")
      /\ \A i \in 1 .. N : c[i + 1] = Operation(b[i], m[b[i]])
      /\ c[N + 2] = Control("Defragment") /\ c[N + 3] = Control("TxnEnd")
  BY CompactionSeq
<1>3. N + 3 <= MaxCells /\ n + N + 3 <= MaxLsn
  BY <1>1, <1>2
<1>4. /\ g \in Files
      /\ \A i \in 1 .. N + 3 :
           g[0 + i - 1] = Numbered(c[i], n + i - 1, u)
  <2>1. 0 + Len(c) <= MaxCells /\ n + Len(c) <= MaxLsn /\ g = Written(Blank, 0, c, n, u)
    OBVIOUS
  <2> HIDE DEF c
  <2>2. g \in Files
    BY <1>2, <2>1, BlankFile, WrittenFile, 0 \in Nat
  <2>3. \A i \in 1 .. Len(c) :
           Written(Blank, 0, c, n, u)[0 + i - 1] = Numbered(c[i], n + i - 1, u)
    <3> DEFINE at == 0
    <3>1. c \in Seq(Notes) /\ Blank \in Files /\ at \in Nat /\ at + Len(c) <= MaxCells
      BY <1>2, <2>1, BlankFile
    <3> HIDE DEF at, b, N, Done, S
    <3> HIDE CliAssumption
    <3>2. \A i \in 1 .. Len(c) :
             Written(Blank, at, c, n, u)[at + i - 1] = Numbered(c[i], n + i - 1, u)
      BY <3>1, <2>1, WrittenFile
    <3>3. QED BY <3>2 DEF at
  <2>4. QED BY <1>2, <2>1, <2>2, <2>3
<1> HIDE DEF b, c, Done, N, S
<1>5. \A i \in 0 .. N + 2 : /\ g[i].op = c[i + 1].op /\ g[i].key = c[i + 1].key /\ g[i].val = c[i + 1].val
                            /\ g[i].lsn = n + i /\ g[i].txn = u
  <2>1. TAKE i \in 0 .. N + 2
  <2>2. i + 1 \in 1 .. N + 3 /\ 0 + (i + 1) - 1 = i /\ n + (i + 1) - 1 = n + i
    BY <1>1
  <2> DEFINE k == i + 1
  <2>3. k \in 1 .. N + 3 /\ 0 + k - 1 = i /\ n + k - 1 = n + i
    BY <2>2
  <2> HIDE DEF k
  <2>4. g[i] = Numbered(c[k], n + i, u)
    BY <1>4, <2>3
  <2>5. QED BY <2>4 DEF k, Numbered
<1>6. 0 \in S
  <2>1. /\ 0 \in 0 .. MaxCells - 1 /\ 0 \in 0 .. N + 2 /\ 0 + 1 = 1 /\ n + 0 = n /\ 0 < n
    BY <1>1, <1>3
  <2>2. g[0].op = "TxnBegin" /\ g[0].lsn = n /\ g[0].txn = u
    BY <1>2, <1>5, <2>1 DEF Control
  <2>3. At(SeenIn(g)[0], Empty, 0, 0)
    BY <1>4, BlankFile
  <2>4. In(SeenIn(g)[0 + 1], Empty, NoOps, n, u)
    BY <1>4, <2>1, <2>2, <2>3, BeginReads
  <2>5. Done(0) = NoOps
    <3>1. {b[j] : j \in 1 .. 0} = {}
      OBVIOUS
    <3>2. QED BY <3>1 DEF NoOps, Done
  <2>6. QED BY <2>1, <2>4, <2>5 DEF S
<1>7. \A i \in Nat : i \in S => i + 1 \in S
  <2>1. SUFFICES ASSUME NEW i \in Nat, i \in S, i + 1 <= N
                 PROVE  In(SeenIn(g)[i + 1 + 1], Empty, Done(i + 1), n + (i + 1), u)
    BY DEF S
  <2>2. i <= N /\ i + 1 \in 1 .. N /\ i + 1 \in 0 .. N + 2 /\ i + 1 \in 0 .. MaxCells - 1
    BY <1>1, <1>3, <2>1
  <2>3. n + (i + 1) = n + i + 1 /\ n + i \in Nat
    OBVIOUS
  <2> DEFINE o == i + 1
             k == b[o]
  <2>4. c[o + 1] = Operation(k, m[k]) /\ k \in Keys /\ m[k] # NoValue
    BY <1>1, <1>2, <2>2
  <2>5. In(SeenIn(g)[o], Empty, Done(i), n + i, u)
    BY <2>1, <2>2 DEF S
  <2>6. g[o].op = "Put" /\ g[o].key = k /\ g[o].val = m[k] /\ g[o].lsn = n + i + 1 /\ g[o].txn = u
    <3>1. o \in 0 .. N + 2
      BY <2>2
    <3> HIDE DEF o
    <3>2. /\ g[o].op = c[o + 1].op /\ g[o].key = c[o + 1].key /\ g[o].val = c[o + 1].val
          /\ g[o].lsn = n + o /\ g[o].txn = u
      BY <1>5, <3>1
    <3>3. n + o = n + i + 1
      BY <2>3 DEF o
    <3> HIDE DEF k
    <3>4. QED BY <2>4, <3>2, <3>3 DEF Operation
  <2>7. Done(o) = With(Done(i), k, m[k])
    <3>1. {b[j] : j \in 1 .. o} = {b[j] : j \in 1 .. i} \cup {k}
      OBVIOUS
    <3>2. QED BY <3>1 DEF With, Done
  <2>8. o \in 0 .. MaxCells - 1 /\ n + i \in Nat /\ n + o = n + i + 1
    BY <2>2, <2>3
  <2> HIDE DEF o, k
  <2>9. In(SeenIn(g)[o + 1], Empty, With(Done(i), g[o].key, g[o].val), n + i + 1, u)
    BY <1>4, <2>5, <2>6, <2>8, OpReads
  <2>10. QED BY <2>6, <2>7, <2>8, <2>9 DEF o
<1>8. \A i \in Nat : i \in S
  BY <1>6, <1>7, NatInductiveOn
<1>9. In(SeenIn(g)[N + 1], Empty, Done(N), n + N, u)
  <2>1. N \in S /\ N <= N
    BY <1>1, <1>8
  <2>2. QED BY <2>1 DEF S
<1>10. /\ N + 1 \in 0 .. MaxCells - 1 /\ N + 2 \in 0 .. MaxCells - 1 /\ N + 1 \in 0 .. N + 2 /\ N + 2 \in 0 .. N + 2
       /\ n + N \in Nat /\ n + N + 1 \in Nat /\ n + (N + 1) = n + N + 1 /\ n + (N + 2) = n + N + 1 + 1
       /\ N + 1 + 1 = N + 2 /\ N + 2 + 1 = N + 3
  BY <1>1, <1>3
<1>11. /\ g[N + 1].op = "Defragment" /\ g[N + 1].lsn = n + N + 1 /\ g[N + 1].txn = u
       /\ g[N + 2].op = "TxnEnd" /\ g[N + 2].lsn = n + N + 1 + 1 /\ g[N + 2].txn = u
  <2> DEFINE x == N + 1
             y == N + 2
  <2>1. x \in 0 .. N + 2 /\ y \in 0 .. N + 2 /\ c[x + 1] = Control("Defragment") /\ c[y + 1] = Control("TxnEnd")
    BY <1>1, <1>2, <1>10
  <2>2. n + x = n + N + 1 /\ n + y = n + N + 1 + 1
    BY <1>1, <1>10
  <2> HIDE DEF x, y
  <2>3. g[x].op = "Defragment" /\ g[x].lsn = n + x /\ g[x].txn = u /\ g[y].op = "TxnEnd" /\ g[y].lsn = n + y /\ g[y].txn = u
    BY <1>5, <2>1 DEF Control
  <2>4. QED BY <2>2, <2>3 DEF x, y
<1> DEFINE ops == Done(N)
<1>12. Apply(Empty, ops) = m
  <2>1. DOMAIN ops = {b[j] : j \in 1 .. N} /\ \A k \in DOMAIN ops : ops[k] = m[k]
    BY DEF Done
  <2>2. \A k \in Keys : k \notin DOMAIN ops => m[k] = NoValue
    BY <1>1, <2>1
  <2> HIDE DEF ops
  <2>3. QED BY <2>1, <2>2 DEF Apply, Empty, Maps
<1> HIDE DEF ops
<1>13. In(SeenIn(g)[N + 1], Empty, ops, n + N, u)
  BY <1>9 DEF ops
<1>14. In(SeenIn(g)[N + 1 + 1], Empty, ops, n + N + 1, u)
  BY <1>4, <1>10, <1>11, <1>13, MarkReads
<1>15. In(SeenIn(g)[N + 2], Empty, ops, n + N + 1, u)
  BY <1>10, <1>14
<1>16. At(SeenIn(g)[N + 2 + 1], m, n + N + 1 + 1, u)
  BY <1>4, <1>10, <1>11, <1>12, <1>15, EndReads
<1>17. n + Len(c) - 1 = n + N + 1 + 1 /\ Len(c) = N + 2 + 1 /\ N \in Nat
  <2>1. Len(c) = N + 3 /\ N \in Nat
    BY <1>1, <1>2, Zenon
  <2>2. QED BY <2>1
<1>18. QED BY <1>4, <1>16, <1>17 DEF c

-----------------------------------------------------------------------------
(* The inductive invariant.                                                *)

Shows(S, m) == \E s : S = {s} /\ s.map = m

\* Every record is one the programs write, whoever's numbers it has.
TypeInv == CliTypeOK /\ file \in Files /\ \A h \in Apps : txn[h] <= lsn[h]

\* Up to the journal_end of an App is, until another handle writes there, what
\* that App has; and the App is what was acknowledged, unless it is stale.
Tracks(h) ==
  /\ up[h] => exists
  /\ rewritten[h] => stale[h]
  /\ up[h] /\ ~rewritten[h] => At(SeenIn(file)[fh[h]], kv[h], lsn[h] - 1, txn[h] - 1)
  /\ ~misused /\ up[h] /\ ~stale[h] =>
       fh[h] = hdr /\ kv[h] = acked /\ schema[h] = acked[SchemaKey]

Inv ==
  /\ TypeInv
  /\ exists => acked[SchemaKey] \in Schemas
  /\ exists /\ ~misused => Shows(SeenIn(file)[hdr], acked)
  /\ \A h \in Apps : Tracks(h)

LEMMA InitInv == CliInit => Inv
<1> SUFFICES ASSUME CliInit PROVE Inv
  OBVIOUS
<1>1. file \in Files
  BY BlankFile DEF CliInit, Blank
<1>2. CliTypeOK
  <2>1. file \in [Offsets -> Records \cup {Zero}]
    BY <1>1 DEF Files
  <2>2. len \in Offsets /\ hdr \in 0 .. len /\ fh \in [Apps -> Offsets]
    BY DEF CliInit, Offsets
  <2>3. lsn \in [Apps -> 1 .. MaxLsn] /\ txn \in [Apps -> 1 .. MaxLsn]
    BY DEF CliInit
  <2>4. kv \in [Apps -> Maps] /\ acked \in Maps /\ schema \in [Apps -> Schemas]
    BY EmptyIsMap DEF CliInit
  <2>5. /\ exists \in BOOLEAN /\ up \in [Apps -> BOOLEAN] /\ stale \in [Apps -> BOOLEAN]
        /\ rewritten \in [Apps -> BOOLEAN] /\ misused \in BOOLEAN
    BY DEF CliInit
  <2>6. QED BY <2>1, <2>2, <2>3, <2>4, <2>5 DEF CliTypeOK
<1>3. QED BY <1>1, <1>2 DEF CliInit, Inv, TypeInv, Tracks

\* A database that opens is the one scan at hdr.
LEMMA LoadedIsShown ==
  ASSUME TypeInv
  PROVE  /\ Loaded = IF exists THEN SeenIn(file)[hdr] ELSE {}
         /\ Knows(SeenIn(file)[hdr])
         /\ \A s \in Loaded : exists /\ s \in Scans /\ SeenIn(file)[hdr] = {s}
<1>1. hdr \in Offsets /\ (~ hdr < len => hdr = len)
  BY DEF TypeInv, CliTypeOK, Offsets
<1>2. Loaded = IF exists THEN SeenIn(file)[hdr] ELSE {}
  BY <1>1, SeenIsOfFile DEF Loaded
<1>3. Knows(SeenIn(file)[hdr])
  BY <1>1, SeenSteps DEF TypeInv
<1>4. QED BY <1>2, <1>3 DEF Knows

\* What is made of the file by an App that appends.
LEMMA UpdateStep ==
  ASSUME Inv, NEW h \in Apps, up[h], NEW k \in Keys, NEW v \in Vals, k = SchemaKey => v \in Marks,
         Update(h, k, v)
  PROVE  /\ file' \in Files /\ hdr' = fh[h] + 3 /\ hdr' \in 0 .. len' /\ len' \in Offsets
         /\ \A n \in 0 .. fh[h] : SeenIn(file')[n] = SeenIn(file)[n]
         /\ ~rewritten[h] => At(SeenIn(file')[hdr'], [kv[h] EXCEPT ![k] = v], lsn[h] + 2, txn[h])
         /\ fh' = [fh EXCEPT ![h] = hdr'] /\ lsn[h] + 3 <= MaxLsn
         /\ lsn' = [lsn EXCEPT ![h] = lsn[h] + 3]
<1> DEFINE ops == Transaction(<<Operation(k, v)>>)
           at == fh[h]
<1>1. ops \in Seq(Notes) /\ Len(ops) = 3
  <2> DEFINE q == <<Operation(k, v)>>
  <2>1. q \in Seq(Notes) /\ Len(q) = 1
    BY NotesMade
  <2> HIDE DEF q
  <2>2. Transaction(q) \in Seq(Notes) /\ Len(Transaction(q)) = Len(q) + 2
    BY <2>1, TransactionSeq
  <2>3. QED BY <2>1, <2>2 DEF q
<1>2. /\ file' = Written(file, at, ops, lsn[h], txn[h])
      /\ at + Len(ops) <= MaxCells /\ lsn[h] + Len(ops) <= MaxLsn
      /\ len' = IF len < at + Len(ops) THEN at + Len(ops) ELSE len
      /\ hdr' = at + Len(ops)
      /\ fh' = [fh EXCEPT ![h] = at + Len(ops)]
      /\ lsn' = [lsn EXCEPT ![h] = lsn[h] + Len(ops)]
  BY DEF Update, AppendAt
<1>3. /\ file \in Files /\ at \in Nat /\ lsn[h] \in Nat \ {0} /\ txn[h] \in Nat \ {0} /\ txn[h] <= lsn[h]
      /\ at \in Offsets /\ len \in Offsets /\ kv[h] \in Maps
  BY DEF Inv, TypeInv, CliTypeOK, Offsets
<1> HIDE DEF ops, at
<1>4. /\ at + 3 <= MaxCells /\ lsn[h] + 3 <= MaxLsn /\ hdr' = at + 3
      /\ len' = IF len < at + 3 THEN at + 3 ELSE len
      /\ lsn' = [lsn EXCEPT ![h] = lsn[h] + 3] /\ fh' = [fh EXCEPT ![h] = hdr']
  BY <1>1, <1>2
<1>5. file' \in Files /\ \A o \in 0 .. at - 1 : file'[o] = file[o]
  <2>1. /\ Written(file, at, ops, lsn[h], txn[h]) \in Files
        /\ \A o \in Offsets : o \notin at .. at + Len(ops) - 1
                                => Written(file, at, ops, lsn[h], txn[h])[o] = file[o]
    <3> DEFINE n == lsn[h]
               t == txn[h]
    <3>1. ops \in Seq(Notes) /\ at + Len(ops) <= MaxCells /\ n + Len(ops) <= MaxLsn
      BY <1>1, <1>2
    <3>2. file \in Files /\ at \in Nat /\ n \in Nat /\ t \in Nat /\ t <= n
      BY <1>3
    <3> HIDE CliAssumption
    <3> HIDE DEF n, t
    <3>3. Written(file, at, ops, n, t) \in Files
      BY <3>1, <3>2, WrittenFile
    <3>4. \A o \in Offsets : o \notin at .. at + Len(ops) - 1 => Written(file, at, ops, n, t)[o] = file[o]
      BY <3>1, <3>2, WrittenFile
    <3>5. QED BY <3>3, <3>4 DEF n, t
  <2>2. \A o \in 0 .. at - 1 : o \in Offsets /\ o \notin at .. at + 3 - 1
    BY <1>3 DEF Offsets
  <2>3. QED BY <1>1, <1>2, <2>1, <2>2
<1>6. \A n \in 0 .. at : SeenIn(file')[n] = SeenIn(file)[n]
  <2>1. TAKE n \in 0 .. at
  <2>2. n \in Offsets /\ \A o \in 0 .. n - 1 : file'[o] = file[o]
    BY <1>3, <1>5 DEF Offsets
  <2>3. QED BY <1>3, <1>5, <2>2, SeenAlike
<1>7. ASSUME ~rewritten[h]
      PROVE  At(SeenIn(file')[hdr'], [kv[h] EXCEPT ![k] = v], lsn[h] + 2, txn[h])
  <2> DEFINE l == lsn[h] - 1
             t == txn[h] - 1
  <2>1. /\ l \in Nat /\ t \in Nat /\ t <= l /\ l + 4 <= MaxLsn /\ l + 1 = lsn[h] /\ t + 1 = txn[h]
        /\ l + 3 = lsn[h] + 2
    BY <1>3, <1>4
  <2>2. At(SeenIn(file)[at], kv[h], l, t)
    BY <1>7 DEF Inv, Tracks, at
  <2> HIDE DEF l, t
  <2>3. file' = Written(file, at, Transaction(<<Operation(k, v)>>), l + 1, t + 1)
    BY <1>2, <2>1 DEF ops
  <2>4. At(SeenIn(file')[at + 3], [kv[h] EXCEPT ![k] = v], l + 3, t + 1)
    BY <1>3, <1>4, <2>1, <2>2, <2>3, UpdateReads, SMTT(30)
  <2>5. QED BY <1>4, <2>1, <2>4
<1>8. hdr' \in 0 .. len' /\ len' \in Offsets
  <2>1. at \in Nat /\ len \in 0 .. MaxCells /\ at + 3 <= MaxCells
    BY <1>3, <1>4 DEF Offsets
  <2>2. CASE len < at + 3
    BY <1>4, <2>1, <2>2 DEF Offsets
  <2>3. CASE ~ len < at + 3
    BY <1>4, <2>1, <2>3 DEF Offsets
  <2>4. QED BY <2>2, <2>3
<1>9. QED BY <1>4, <1>5, <1>6, <1>7, <1>8 DEF at

LEMMA UpdateInv ==
  ASSUME Inv, NEW h \in Apps, up[h], NEW k \in Keys, NEW v \in Vals, k = SchemaKey => v \in Schemas,
         Update(h, k, v),
         \/ k # SchemaKey /\ schema' = schema
         \/ k = SchemaKey /\ schema' = [schema EXCEPT ![h] = v]
  PROVE  Inv'
<1>1. k = SchemaKey => v \in Marks
  BY DEF Marks
<1>2. /\ file' \in Files /\ hdr' = fh[h] + 3 /\ hdr' \in 0 .. len' /\ len' \in Offsets
      /\ \A n \in 0 .. fh[h] : SeenIn(file')[n] = SeenIn(file)[n]
      /\ ~rewritten[h] => At(SeenIn(file')[hdr'], [kv[h] EXCEPT ![k] = v], lsn[h] + 2, txn[h])
      /\ fh' = [fh EXCEPT ![h] = hdr'] /\ lsn[h] + 3 <= MaxLsn
      /\ lsn' = [lsn EXCEPT ![h] = lsn[h] + 3]
  BY <1>1, UpdateStep
<1>3. /\ kv' = [kv EXCEPT ![h][k] = v]
      /\ txn' = [txn EXCEPT ![h] = txn[h] + 1]
      /\ stale' = [g \in Apps |-> stale[g] \/ (g # h /\ up[g])]
      /\ rewritten' = [g \in Apps |-> rewritten[g] \/ (g # h /\ up[g] /\ fh[h] < fh[g])]
      /\ (misused' <=> (misused \/ stale[h]))
      /\ acked' = [acked EXCEPT ![k] = v]
      /\ exists' = exists /\ up' = up /\ misused' \in BOOLEAN
  <2>1. misused \in BOOLEAN /\ stale \in [Apps -> BOOLEAN]
    BY DEF Inv, TypeInv, CliTypeOK
  <2>2. misused' = (misused \/ stale[h])
    BY DEF Update
  <2>3. misused' \in BOOLEAN /\ (misused' <=> (misused \/ stale[h]))
    BY <2>2
  <2>4. QED BY <2>3 DEF Update
<1>4. /\ fh \in [Apps -> Offsets] /\ kv \in [Apps -> Maps] /\ acked \in Maps
      /\ lsn \in [Apps -> 1 .. MaxLsn] /\ txn \in [Apps -> 1 .. MaxLsn]
      /\ schema \in [Apps -> Schemas] /\ hdr \in 0 .. len /\ len \in Offsets
      /\ exists \in BOOLEAN /\ up \in [Apps -> BOOLEAN]
      /\ \A g \in Apps : txn[g] <= lsn[g]
  BY DEF Inv, TypeInv, CliTypeOK
<1>5. Tracks(h)
  BY DEF Inv
<1>6. /\ kv' \in [Apps -> Maps] /\ kv'[h] = [kv[h] EXCEPT ![k] = v] /\ acked' \in Maps
      /\ \A g \in Apps \ {h} : kv'[g] = kv[g]
  BY <1>3, <1>4 DEF Maps
<1>7. /\ fh' \in [Apps -> Offsets] /\ fh'[h] = hdr' /\ \A g \in Apps \ {h} : fh'[g] = fh[g]
      /\ hdr' \in Offsets
  <2>1. hdr' \in Offsets
    BY <1>2 DEF Offsets
  <2>2. QED BY <1>2, <1>4, <2>1
<1>8. /\ lsn' \in [Apps -> 1 .. MaxLsn] /\ txn' \in [Apps -> 1 .. MaxLsn]
      /\ lsn'[h] - 1 = lsn[h] + 2 /\ txn'[h] - 1 = txn[h]
      /\ \A g \in Apps : txn'[g] <= lsn'[g]
      /\ \A g \in Apps \ {h} : lsn'[g] = lsn[g] /\ txn'[g] = txn[g]
  <2>1. lsn[h] \in 1 .. MaxLsn /\ txn[h] \in 1 .. MaxLsn /\ txn[h] <= lsn[h] /\ MaxLsn \in Nat
    BY <1>4
  <2>2. lsn[h] + 3 \in 1 .. MaxLsn /\ txn[h] + 1 \in 1 .. MaxLsn /\ txn[h] + 1 <= lsn[h] + 3
        /\ lsn[h] + 3 - 1 = lsn[h] + 2 /\ txn[h] + 1 - 1 = txn[h]
    BY <1>2, <2>1
  <2>3. QED BY <1>2, <1>3, <1>4, <2>2
<1>9. schema' \in [Apps -> Schemas] /\ \A g \in Apps \ {h} : schema'[g] = schema[g]
  BY <1>4
<1>10. stale' \in [Apps -> BOOLEAN] /\ rewritten' \in [Apps -> BOOLEAN]
  <2>1. stale \in [Apps -> BOOLEAN] /\ rewritten \in [Apps -> BOOLEAN] /\ up \in [Apps -> BOOLEAN]
    BY DEF Inv, TypeInv, CliTypeOK
  <2>2. QED BY <1>3, <2>1
<1>11. TypeInv'
  <2>1. file' \in [Offsets -> Records \cup {Zero}]
    BY <1>2 DEF Files
  <2>2. QED BY <1>2, <1>3, <1>4, <1>6, <1>7, <1>8, <1>9, <1>10, <2>1 DEF TypeInv, CliTypeOK
<1>12. acked'[SchemaKey] \in Schemas
  <2>1. exists
    BY <1>5 DEF Tracks
  <2>2. acked[SchemaKey] \in Schemas
    BY <2>1 DEF Inv
  <2>3. QED BY <1>3, <1>4, <2>2 DEF Maps
<1>13. ~misused' => /\ kv'[h] = acked' /\ schema'[h] = acked'[SchemaKey] /\ ~stale'[h]
                    /\ ~rewritten[h]
  <2>1. SUFFICES ASSUME ~misused' PROVE /\ kv'[h] = acked' /\ schema'[h] = acked'[SchemaKey] /\ ~stale'[h]
                                        /\ ~rewritten[h]
    OBVIOUS
  <2>2. ~misused /\ ~stale[h]
    BY <1>3, <2>1
  <2>3. kv[h] = acked /\ schema[h] = acked[SchemaKey] /\ ~rewritten[h]
    BY <1>5, <2>2 DEF Tracks
  <2>4. kv'[h] = acked'
    BY <1>3, <1>6, <2>3
  <2>5. schema'[h] = acked'[SchemaKey]
    BY <1>3, <1>4, <2>3 DEF Maps
  <2>6. ~stale'[h]
    BY <1>3, <2>2
  <2>7. QED BY <2>3, <2>4, <2>5, <2>6
<1>14. ~rewritten[h] => At(SeenIn(file')[hdr'], kv'[h], lsn'[h] - 1, txn'[h] - 1)
  BY <1>2, <1>6, <1>8
<1>15. ~misused' => Shows(SeenIn(file')[hdr'], acked')
  BY <1>13, <1>14 DEF At, Shows
<1>16. ASSUME NEW g \in Apps PROVE Tracks(g)'
  <2>1. CASE g = h
    <3>1. (rewritten'[h] <=> rewritten[h]) /\ (stale'[h] <=> stale[h])
      BY <1>3
    <3>2. QED BY <1>2, <1>3, <1>5, <1>7, <1>13, <1>14, <2>1, <3>1 DEF Tracks
  <2>2. CASE g # h
    <3>1. Tracks(g)
      BY DEF Inv
    <3>2. (rewritten'[g] <=> (rewritten[g] \/ (up[g] /\ fh[h] < fh[g]))) /\ (stale'[g] <=> (stale[g] \/ up[g]))
      BY <1>3, <2>2
    <3>3. up'[g] => exists' /\ stale'[g]
      BY <1>3, <3>1, <3>2 DEF Tracks
    <3>4. rewritten'[g] => stale'[g]
      BY <3>1, <3>2 DEF Tracks
    <3>5. ASSUME up'[g], ~rewritten'[g]
          PROVE  At(SeenIn(file')[fh'[g]], kv'[g], lsn'[g] - 1, txn'[g] - 1)
      <4>1. up[g] /\ ~rewritten[g] /\ ~ fh[h] < fh[g]
        BY <1>3, <3>2, <3>5
      <4>2. At(SeenIn(file)[fh[g]], kv[g], lsn[g] - 1, txn[g] - 1)
        BY <3>1, <4>1 DEF Tracks
      <4>3. fh[g] \in Nat /\ fh[h] \in Nat
        BY <1>4 DEF Offsets
      <4>4. fh[g] \in 0 .. fh[h]
        BY <4>1, <4>3
      <4>5. SeenIn(file')[fh[g]] = SeenIn(file)[fh[g]]
        BY <1>2, <4>4
      <4>6. QED BY <1>6, <1>7, <1>8, <2>2, <4>2, <4>5
    <3>6. QED BY <3>3, <3>4, <3>5 DEF Tracks
  <2>3. QED BY <2>1, <2>2
<1>17. QED BY <1>11, <1>12, <1>15, <1>16 DEF Inv

\* What create makes of the file.
LEMMA CreateStep ==
  ASSUME NEW h \in Apps, NEW s \in Schemas, Create(h, s)
  PROVE  /\ file' \in Files /\ len' = 3 /\ hdr' = 3
         /\ At(SeenIn(file')[3], [Empty EXCEPT ![SchemaKey] = s], 3, 1)
         /\ Handle(h, 3, [Empty EXCEPT ![SchemaKey] = s], 4, 2, s)
<1> DEFINE q == <<Operation(SchemaKey, s)>>
           ops == Transaction(q)
<1>1. s \in Marks /\ s \in Vals
  BY ValueSets DEF Marks
<1>2. Len(ops) = 3
  <2>1. q \in Seq(Notes) /\ Len(q) = 1
    BY <1>1, NotesMade
  <2> HIDE DEF q
  <2>2. Transaction(q) \in Seq(Notes) /\ Len(Transaction(q)) = Len(q) + 2
    BY <2>1, TransactionSeq
  <2>3. QED BY <2>1, <2>2
<1>3. /\ file' = Written(Blank, 0, ops, 1, 1) /\ len' = Len(ops) /\ hdr' = Len(ops)
      /\ Handle(h, Len(ops), [Empty EXCEPT ![SchemaKey] = s], 1 + Len(ops), 2, s)
  BY DEF Create, Blank
<1>4. file' = Written(Blank, 0, Transaction(<<Operation(SchemaKey, s)>>), 0 + 1, 0 + 1)
  BY <1>3
<1> HIDE DEF ops
<1>5. At(SeenIn(Blank)[0], Empty, 0, 0)
  BY BlankFile
<1> DEFINE z == 0
<1>6. file' = Written(Blank, z, Transaction(<<Operation(SchemaKey, s)>>), z + 1, z + 1)
  BY <1>4
<1>7. z \in Nat /\ z <= z /\ z + 3 <= MaxCells /\ z + 4 <= MaxLsn /\ At(SeenIn(Blank)[z], Empty, z, z)
  BY <1>5
<1>8. z + 3 = 3 /\ z + 1 = 1
  OBVIOUS
<1> HIDE DEF z
<1>9. file' \in Files /\ At(SeenIn(file')[z + 3], [Empty EXCEPT ![SchemaKey] = s], z + 3, z + 1)
  BY <1>1, <1>6, <1>7, BlankFile, EmptyIsMap, UpdateReads
<1>10. 1 + Len(ops) = 4
  BY <1>2
<1>11. QED BY <1>2, <1>3, <1>8, <1>9, <1>10

LEMMA CreateInv ==
  ASSUME Inv, NEW h \in Apps, NEW s \in Schemas, Create(h, s)
  PROVE  Inv'
<1> DEFINE m == [Empty EXCEPT ![SchemaKey] = s]
<1>1. /\ file' \in Files /\ len' = 3 /\ hdr' = 3
      /\ At(SeenIn(file')[3], m, 3, 1) /\ Handle(h, 3, m, 4, 2, s)
  BY CreateStep
<1>2. /\ exists' = TRUE /\ misused' = FALSE /\ acked' = m
      /\ stale' = [g \in Apps |-> g # h /\ up[g]]
      /\ rewritten' = [g \in Apps |-> g # h /\ up[g]]
  BY DEF Create
<1>3. m \in Maps /\ m[SchemaKey] = s
  BY EmptyIsMap, ValueSets DEF Maps, Vals
<1> HIDE DEF m
<1>4. /\ fh \in [Apps -> Offsets] /\ kv \in [Apps -> Maps]
      /\ lsn \in [Apps -> 1 .. MaxLsn] /\ txn \in [Apps -> 1 .. MaxLsn]
      /\ schema \in [Apps -> Schemas] /\ up \in [Apps -> BOOLEAN]
      /\ \A g \in Apps : txn[g] <= lsn[g]
  BY DEF Inv, TypeInv, CliTypeOK
<1>5. /\ up' = [up EXCEPT ![h] = TRUE] /\ fh' = [fh EXCEPT ![h] = 3] /\ kv' = [kv EXCEPT ![h] = m]
      /\ lsn' = [lsn EXCEPT ![h] = 4] /\ txn' = [txn EXCEPT ![h] = 2] /\ schema' = [schema EXCEPT ![h] = s]
  BY <1>1 DEF Handle
<1>6. 3 \in Offsets /\ 4 \in 1 .. MaxLsn /\ 2 \in 1 .. MaxLsn /\ 3 \in 0 .. 3
  BY DEF Offsets
<1>7. TypeInv'
  <2>1. file' \in [Offsets -> Records \cup {Zero}]
    BY <1>1 DEF Files
  <2>2. len' \in Offsets /\ hdr' \in 0 .. len' /\ fh' \in [Apps -> Offsets]
    BY <1>1, <1>4, <1>5, <1>6
  <2>3. lsn' \in [Apps -> 1 .. MaxLsn] /\ txn' \in [Apps -> 1 .. MaxLsn]
    BY <1>4, <1>5, <1>6
  <2>4. kv' \in [Apps -> Maps] /\ acked' \in Maps /\ schema' \in [Apps -> Schemas]
    BY <1>2, <1>3, <1>4, <1>5
  <2>5. up' \in [Apps -> BOOLEAN] /\ stale' \in [Apps -> BOOLEAN] /\ rewritten' \in [Apps -> BOOLEAN]
    BY <1>2, <1>4, <1>5
  <2>6. exists' \in BOOLEAN /\ misused' \in BOOLEAN
    BY <1>2
  <2>7. \A g \in Apps : txn'[g] <= lsn'[g]
    BY <1>4, <1>5
  <2>8. QED BY <1>1, <2>1, <2>2, <2>3, <2>4, <2>5, <2>6, <2>7 DEF TypeInv, CliTypeOK
<1>8. Shows(SeenIn(file')[hdr'], acked')
  BY <1>1, <1>2 DEF At, Shows
<1>9. ASSUME NEW g \in Apps PROVE Tracks(g)'
  <2>1. CASE g = h
    <3>1. /\ fh'[h] = hdr' /\ kv'[h] = m /\ lsn'[h] - 1 = 3 /\ txn'[h] - 1 = 1 /\ schema'[h] = s
          /\ ~stale'[h] /\ ~rewritten'[h]
      <4>1. fh'[h] = 3 /\ kv'[h] = m /\ schema'[h] = s
        BY <1>4, <1>5
      <4>2. lsn'[h] = 4 /\ txn'[h] = 2
        BY <1>4, <1>5
      <4>3. ~stale'[h] /\ ~rewritten'[h]
        BY <1>2
      <4>4. QED BY <1>1, <4>1, <4>2, <4>3
    <3>2. QED BY <1>1, <1>2, <1>3, <2>1, <3>1 DEF Tracks
  <2>2. CASE g # h
    <3>1. (up'[g] <=> up[g]) /\ (stale'[g] <=> up[g]) /\ (rewritten'[g] <=> up[g])
      BY <1>2, <1>4, <1>5, <2>2
    <3>2. QED BY <1>2, <3>1 DEF Tracks
  <2>3. QED BY <2>1, <2>2
<1>10. QED BY <1>2, <1>3, <1>7, <1>8, <1>9 DEF Inv

LEMMA OpenInv ==
  ASSUME Inv, NEW h \in Apps, Open(h)
  PROVE  Inv'
<1>1. PICK s \in Loaded :
        Handle(h, hdr, s.map, NextLsn(s), NextTxn(s),
               IF s.map[SchemaKey] = NoValue THEN {} ELSE s.map[SchemaKey])
  BY DEF Open
<1> DEFINE sc == IF s.map[SchemaKey] = NoValue THEN {} ELSE s.map[SchemaKey]
<1>2. exists /\ s \in Scans /\ SeenIn(file)[hdr] = {s}
  BY LoadedIsShown DEF Inv
<1>3. /\ s.map \in Maps /\ s.map[SchemaKey] \in Marks /\ s.last \in Nat /\ s.top \in Nat
      /\ s.top <= s.last /\ s.last < MaxLsn
  BY <1>2 DEF Scans
<1>4. sc \in Schemas /\ (s.map[SchemaKey] \in Schemas => sc = s.map[SchemaKey])
  BY <1>3, ValueSets DEF Marks
<1>5. /\ up' = [up EXCEPT ![h] = TRUE] /\ fh' = [fh EXCEPT ![h] = hdr] /\ kv' = [kv EXCEPT ![h] = s.map]
      /\ lsn' = [lsn EXCEPT ![h] = s.last + 1] /\ txn' = [txn EXCEPT ![h] = s.top + 1]
      /\ schema' = [schema EXCEPT ![h] = sc]
  BY <1>1 DEF Handle, NextLsn, NextTxn
<1> HIDE DEF sc
<1>6. /\ stale' = [stale EXCEPT ![h] = FALSE] /\ rewritten' = [rewritten EXCEPT ![h] = FALSE]
      /\ exists' = exists /\ file' = file /\ len' = len /\ hdr' = hdr
      /\ misused' = misused /\ acked' = acked
  BY DEF Open, disk
<1>7. /\ fh \in [Apps -> Offsets] /\ kv \in [Apps -> Maps] /\ file \in Files
      /\ lsn \in [Apps -> 1 .. MaxLsn] /\ txn \in [Apps -> 1 .. MaxLsn]
      /\ schema \in [Apps -> Schemas] /\ up \in [Apps -> BOOLEAN]
      /\ stale \in [Apps -> BOOLEAN] /\ rewritten \in [Apps -> BOOLEAN]
      /\ hdr \in 0 .. len /\ len \in Offsets
      /\ \A g \in Apps : txn[g] <= lsn[g]
  BY DEF Inv, TypeInv, CliTypeOK
<1>8. TypeInv'
  <2>1. hdr \in Offsets /\ s.last + 1 \in 1 .. MaxLsn /\ s.top + 1 \in 1 .. MaxLsn /\ s.top + 1 <= s.last + 1
    BY <1>3, <1>7 DEF Offsets
  <2>2. fh' \in [Apps -> Offsets] /\ lsn' \in [Apps -> 1 .. MaxLsn] /\ txn' \in [Apps -> 1 .. MaxLsn]
    BY <1>5, <1>7, <2>1
  <2>3. kv' \in [Apps -> Maps] /\ schema' \in [Apps -> Schemas]
    BY <1>3, <1>4, <1>5, <1>7
  <2>4. up' \in [Apps -> BOOLEAN] /\ stale' \in [Apps -> BOOLEAN] /\ rewritten' \in [Apps -> BOOLEAN]
    BY <1>5, <1>6, <1>7
  <2>5. \A g \in Apps : txn'[g] <= lsn'[g]
    <3>1. ASSUME NEW g \in Apps PROVE txn'[g] <= lsn'[g]
      <4>1. CASE g = h
        BY <1>5, <1>7, <2>1, <4>1
      <4>2. CASE g # h
        BY <1>5, <1>7, <4>2
      <4>3. QED BY <4>1, <4>2
    <3>2. QED BY <3>1
  <2>6. /\ exists \in BOOLEAN /\ misused \in BOOLEAN /\ acked \in Maps
        /\ file \in [Offsets -> Records \cup {Zero}]
    BY DEF Inv, TypeInv, CliTypeOK
  <2>7. QED BY <1>6, <1>7, <2>2, <2>3, <2>4, <2>5, <2>6 DEF TypeInv, CliTypeOK
<1>9. ASSUME NEW g \in Apps PROVE Tracks(g)'
  <2>1. CASE g = h
    <3>1. /\ fh'[h] = hdr /\ kv'[h] = s.map /\ lsn'[h] = s.last + 1 /\ txn'[h] = s.top + 1 /\ schema'[h] = sc
          /\ ~stale'[h] /\ ~rewritten'[h]
      BY <1>5, <1>6, <1>7
    <3>2. lsn'[h] - 1 = s.last /\ txn'[h] - 1 = s.top
      BY <1>3, <3>1
    <3>3. At(SeenIn(file')[fh'[h]], kv'[h], lsn'[h] - 1, txn'[h] - 1)
      BY <1>2, <1>6, <3>1, <3>2 DEF At
    <3>4. ~misused' => s.map = acked /\ sc = acked[SchemaKey]
      BY <1>2, <1>4, <1>6 DEF Inv, Shows
    <3>5. QED BY <1>2, <1>6, <2>1, <3>1, <3>3, <3>4 DEF Tracks
  <2>2. CASE g # h
    <3>1. /\ up'[g] = up[g] /\ stale'[g] = stale[g] /\ rewritten'[g] = rewritten[g] /\ fh'[g] = fh[g]
          /\ kv'[g] = kv[g] /\ lsn'[g] = lsn[g] /\ txn'[g] = txn[g] /\ schema'[g] = schema[g]
      BY <1>5, <1>6, <1>7, <2>2
    <3>2. Tracks(g)
      BY DEF Inv
    <3>3. QED BY <1>6, <3>1, <3>2 DEF Tracks
  <2>3. QED BY <2>1, <2>2
<1>10. QED BY <1>6, <1>8, <1>9 DEF Inv

\* What maintain makes of the file.
LEMMA MaintainStep ==
  ASSUME TypeInv, NEW h \in Apps, Maintain(h)
  PROVE  \E s : /\ exists /\ Loaded = {s} /\ s \in Scans /\ SeenIn(file)[hdr] = {s}
                /\ file' \in Files /\ hdr' \in Offsets /\ len' = hdr'
                /\ Shows(SeenIn(file')[hdr'], s.map)
<1>1. PICK s \in Loaded :
        /\ Len(Compaction(s.map)) <= MaxCells
        /\ NextLsn(s) + Len(Compaction(s.map)) <= MaxLsn
        /\ file' = Written(Blank, 0, Compaction(s.map), NextLsn(s), NextTxn(s))
        /\ len' = Len(Compaction(s.map))
        /\ hdr' = Len(Compaction(s.map))
  BY DEF Maintain, Blank
<1>2. exists /\ s \in Scans /\ SeenIn(file)[hdr] = {s} /\ Loaded = {s}
  BY LoadedIsShown
<1>3. /\ s.map \in Maps /\ s.map[SchemaKey] \in Marks /\ s.last \in Nat /\ s.top \in Nat
      /\ s.top <= s.last
  BY <1>2 DEF Scans
<1> DEFINE n == NextLsn(s)
           u == NextTxn(s)
           m == s.map
           e == Len(Compaction(m))
<1>4. n \in Nat /\ u \in Nat /\ 0 < u /\ u <= n
  BY <1>3 DEF NextLsn, NextTxn
<1>5. e \in Nat
  <2>1. Compaction(m) \in Seq(Notes)
    BY <1>3, CompactionSeq
  <2>2. QED BY <2>1
<1>6. e <= MaxCells /\ n + e <= MaxLsn /\ file' = Written(Blank, 0, Compaction(m), n, u)
  BY <1>1
<1> HIDE DEF n, u
<1>7. file' \in Files /\ At(SeenIn(file')[e], m, n + e - 1, u)
  BY <1>3, <1>4, <1>6, CompactionReads
<1>8. hdr' = e /\ len' = e /\ e \in Offsets
  BY <1>1, <1>5 DEF Offsets
<1>9. QED BY <1>2, <1>7, <1>8 DEF At, Shows

LEMMA MaintainInv ==
  ASSUME Inv, NEW h \in Apps, Maintain(h)
  PROVE  Inv'
<1>1. PICK s : /\ exists /\ Loaded = {s} /\ s \in Scans /\ SeenIn(file)[hdr] = {s}
               /\ file' \in Files /\ hdr' \in Offsets /\ len' = hdr'
               /\ Shows(SeenIn(file')[hdr'], s.map)
  BY MaintainStep DEF Inv
<1>2. /\ exists' = exists /\ misused' = misused /\ acked' = acked
      /\ up' = up /\ fh' = fh /\ kv' = kv /\ lsn' = lsn /\ txn' = txn /\ schema' = schema
      /\ stale' = [g \in Apps |-> stale[g] \/ up[g]]
      /\ rewritten' = [g \in Apps |-> rewritten[g] \/ up[g]]
  BY DEF Maintain, apps
<1>3. TypeInv'
  <2>1. file' \in [Offsets -> Records \cup {Zero}]
    BY <1>1 DEF Files
  <2>2. /\ stale \in [Apps -> BOOLEAN] /\ rewritten \in [Apps -> BOOLEAN] /\ up \in [Apps -> BOOLEAN]
    BY DEF Inv, TypeInv, CliTypeOK
  <2>3. stale' \in [Apps -> BOOLEAN] /\ rewritten' \in [Apps -> BOOLEAN]
    BY <1>2, <2>2
  <2>4. hdr' \in 0 .. len' /\ len' \in Offsets
    BY <1>1 DEF Offsets
  <2>5. QED BY <1>1, <1>2, <2>1, <2>3, <2>4 DEF Inv, TypeInv, CliTypeOK
<1>4. ~misused' => Shows(SeenIn(file')[hdr'], acked')
  BY <1>1, <1>2 DEF Inv, Shows
<1>5. ASSUME NEW g \in Apps PROVE Tracks(g)'
  <2>1. (stale'[g] <=> (stale[g] \/ up[g])) /\ (rewritten'[g] <=> (rewritten[g] \/ up[g]))
    BY <1>2
  <2>2. Tracks(g)
    BY DEF Inv
  <2>3. QED BY <1>2, <2>1, <2>2 DEF Tracks
<1>6. QED BY <1>2, <1>3, <1>4, <1>5 DEF Inv

LEMMA CloseInv ==
  ASSUME Inv, NEW h \in Apps, Close(h)
  PROVE  Inv'
<1>1. /\ up' = [up EXCEPT ![h] = FALSE] /\ fh' = [fh EXCEPT ![h] = 0] /\ kv' = [kv EXCEPT ![h] = Empty]
      /\ lsn' = [lsn EXCEPT ![h] = 1] /\ txn' = [txn EXCEPT ![h] = 1] /\ schema' = [schema EXCEPT ![h] = {}]
      /\ stale' = [stale EXCEPT ![h] = FALSE] /\ rewritten' = [rewritten EXCEPT ![h] = FALSE]
      /\ exists' = exists /\ file' = file /\ len' = len /\ hdr' = hdr
      /\ misused' = misused /\ acked' = acked
  BY DEF Close, disk
<1>2. /\ fh \in [Apps -> Offsets] /\ kv \in [Apps -> Maps]
      /\ lsn \in [Apps -> 1 .. MaxLsn] /\ txn \in [Apps -> 1 .. MaxLsn]
      /\ schema \in [Apps -> Schemas] /\ up \in [Apps -> BOOLEAN]
      /\ stale \in [Apps -> BOOLEAN] /\ rewritten \in [Apps -> BOOLEAN]
      /\ \A g \in Apps : txn[g] <= lsn[g]
  BY DEF Inv, TypeInv, CliTypeOK
<1>3. TypeInv'
  <2>1. fh' \in [Apps -> Offsets] /\ lsn' \in [Apps -> 1 .. MaxLsn] /\ txn' \in [Apps -> 1 .. MaxLsn]
    BY <1>1, <1>2 DEF Offsets
  <2>2. kv' \in [Apps -> Maps] /\ schema' \in [Apps -> Schemas]
    BY <1>1, <1>2, EmptyIsMap
  <2>3. up' \in [Apps -> BOOLEAN] /\ stale' \in [Apps -> BOOLEAN] /\ rewritten' \in [Apps -> BOOLEAN]
    BY <1>1, <1>2
  <2>4. \A g \in Apps : txn'[g] <= lsn'[g]
    BY <1>1, <1>2
  <2>5. QED BY <1>1, <2>1, <2>2, <2>3, <2>4 DEF Inv, TypeInv, CliTypeOK
<1>4. ASSUME NEW g \in Apps PROVE Tracks(g)'
  <2>1. CASE g = h
    <3>1. ~up'[h] /\ ~rewritten'[h]
      BY <1>1, <1>2
    <3>2. QED BY <2>1, <3>1 DEF Tracks
  <2>2. CASE g # h
    <3>1. /\ up'[g] = up[g] /\ stale'[g] = stale[g] /\ rewritten'[g] = rewritten[g] /\ fh'[g] = fh[g]
          /\ kv'[g] = kv[g] /\ lsn'[g] = lsn[g] /\ txn'[g] = txn[g] /\ schema'[g] = schema[g]
      BY <1>1, <1>2, <2>2
    <3>2. Tracks(g)
      BY DEF Inv
    <3>3. QED BY <1>1, <3>1, <3>2 DEF Tracks
  <2>3. QED BY <2>1, <2>2
<1>5. QED BY <1>1, <1>3, <1>4 DEF Inv

\* Every action, and a stutter.
LEMMA NextInv == Inv /\ [CliNext]_cliVars => Inv'
<1> SUFFICES ASSUME Inv, [CliNext]_cliVars PROVE Inv'
  OBVIOUS
<1>1. ASSUME NEW h \in Apps, NEW s \in Schemas, SchemaLoad(h, s) PROVE Inv'
  BY <1>1, UpdateInv, ValueSets DEF SchemaLoad, Vals
<1>2. ASSUME NEW h \in Apps, NEW k \in RowKeys, NEW v \in RowValues, Put(h, k, v) PROVE Inv'
  BY <1>2, UpdateInv DEF Put, Vals, RowKeys
<1>3. ASSUME NEW h \in Apps, NEW k \in RowKeys, Erase(h, k) PROVE Inv'
  BY <1>3, UpdateInv DEF Erase, Vals, RowKeys
<1>4. CASE UNCHANGED cliVars
  BY <1>4 DEF Inv, TypeInv, CliTypeOK, Tracks, cliVars, disk, apps, cliHistory
<1>5. QED BY <1>1, <1>2, <1>3, <1>4, CreateInv, OpenInv, MaintainInv, CloseInv DEF CliNext

-----------------------------------------------------------------------------
(* The theorems.                                                           *)

LEMMA Invariance == CliSpec => []Inv
<1>1. CliInit => Inv
  BY InitInv
<1>2. Inv /\ [CliNext]_cliVars => Inv'
  BY NextInv
<1>3. QED BY <1>1, <1>2, PTL DEF CliSpec

\* What the file holds after a step.
LEMMA ContentsAfter ==
  ASSUME TypeInv', NEW m, exists', Shows(SeenIn(file')[hdr'], m)
  PROVE  Contents' = {m}
<1>1. Seen' = SeenIn(file')
  BY DEF Seen, SeenIn, Read
<1>2. hdr' \in 0 .. len' /\ len' \in 0 .. MaxCells
  BY DEF TypeInv, CliTypeOK, Offsets
<1>3. ~ hdr' < len' => hdr' = len'
  BY <1>2
<1>4. Loaded' = SeenIn(file')[hdr']
  BY <1>1, <1>3 DEF Loaded
<1>5. PICK s : Loaded' = {s} /\ s.map = m
  BY <1>4 DEF Shows
<1>6. QED BY <1>5 DEF Contents

LEMMA ContentsNow ==
  ASSUME TypeInv, NEW m, exists, Shows(SeenIn(file)[hdr], m)
  PROVE  Contents = {m}
<1>1. PICK s : Loaded = {s} /\ s.map = m
  BY LoadedIsShown DEF Shows
<1>2. QED BY <1>1 DEF Contents

\* Programs that take turns with a database, and write only with a handle that
\* is not stale, never lose an acknowledged command: the file always opens with
\* the map that was acknowledged, and so has every program that is not stale.
THEOREM TurnTaking == CliSpec => []TurnsAreSafe
<1>1. Inv => TurnsAreSafe
  <2>1. SUFFICES ASSUME Inv PROVE TurnsAreSafe
    OBVIOUS
  <2>2. CliTypeOK /\ TypeInv
    BY <2>1 DEF Inv, TypeInv
  <2>3. exists /\ ~misused => Contents = {acked}
    BY <2>1, <2>2, ContentsNow DEF Inv
  <2>4. exists /\ ~misused => \A h \in Apps : up[h] /\ ~stale[h] => kv[h] = acked /\ schema[h] = acked[SchemaKey]
    BY <2>1 DEF Inv, Tracks
  <2>5. QED BY <2>2, <2>3, <2>4 DEF TurnsAreSafe
<1>2. QED BY <1>1, Invariance, PTL

\* maintain leaves in the file the map that it held, whichever handles have
\* written it before.
THEOREM MaintainKeeps == CliSpec => MaintainKeepsContents
<1> DEFINE A == (\E h \in Apps : Maintain(h)) => Contents' = Contents
<1>1. Inv /\ Inv' /\ [CliNext]_cliVars => [A]_cliVars
  <2>1. SUFFICES ASSUME Inv, Inv', NEW h \in Apps, Maintain(h) PROVE Contents' = Contents
    OBVIOUS
  <2>2. TypeInv /\ TypeInv'
    BY <2>1 DEF Inv
  <2>3. PICK s : /\ exists /\ Loaded = {s} /\ SeenIn(file)[hdr] = {s}
                 /\ Shows(SeenIn(file')[hdr'], s.map)
    BY <2>1, <2>2, MaintainStep
  <2>4. exists'
    BY <2>1, <2>3 DEF Maintain
  <2>5. Contents' = {s.map}
    BY <2>2, <2>3, <2>4, ContentsAfter
  <2>6. Contents = {s.map}
    BY <2>3 DEF Contents
  <2>7. QED BY <2>5, <2>6
<1>2. QED BY <1>1, Invariance, PTL DEF CliSpec, MaintainKeepsContents

\* An update through a handle whose part of the file nobody has written leaves
\* the file with the map of that handle: what others have appended is gone.
THEOREM LastWriter == CliSpec => LastWriterWins
<1> DEFINE A == \A h \in Apps : lsn'[h] > lsn[h] /\ ~rewritten[h] => Contents' = {kv'[h]}
<1>1. Inv /\ Inv' /\ [CliNext]_cliVars => [A]_cliVars
  <2>1. SUFFICES ASSUME Inv, Inv', CliNext, NEW h \in Apps, lsn'[h] > lsn[h], ~rewritten[h]
                 PROVE  Contents' = {kv'[h]}
    OBVIOUS
  <2>2. /\ TypeInv /\ TypeInv' /\ kv \in [Apps -> Maps] /\ lsn \in [Apps -> 1 .. MaxLsn]
        /\ \A g \in Apps : up[g] => exists
    BY <2>1 DEF Inv, TypeInv, CliTypeOK, Tracks
  <2>3. ~ lsn'[h] = lsn[h]
    BY <2>1, <2>2
  <2>4. ASSUME NEW g \in Apps, NEW k \in Keys, NEW v \in Vals, k = SchemaKey => v \in Marks,
               up[g], Update(g, k, v)
        PROVE  Contents' = {kv'[h]}
    <3>1. /\ ~rewritten[g] => At(SeenIn(file')[hdr'], [kv[g] EXCEPT ![k] = v], lsn[g] + 2, txn[g])
          /\ lsn' = [lsn EXCEPT ![g] = lsn[g] + 3]
      BY <2>1, <2>4, UpdateStep
    <3>2. kv' = [kv EXCEPT ![g][k] = v] /\ exists' = exists
      BY <2>4 DEF Update
    <3>3. g = h
      BY <2>2, <2>3, <3>1
    <3>4. kv'[h] = [kv[g] EXCEPT ![k] = v] /\ exists'
      BY <2>2, <2>4, <3>2, <3>3
    <3>5. Shows(SeenIn(file')[hdr'], kv'[h])
      BY <2>1, <3>1, <3>3, <3>4 DEF At, Shows
    <3>6. QED BY <2>2, <3>4, <3>5, ContentsAfter
  <2>5. ASSUME NEW g \in Apps, NEW s \in Schemas, SchemaLoad(g, s) PROVE Contents' = {kv'[h]}
    BY <2>4, <2>5, ValueSets DEF SchemaLoad, Vals, Marks
  <2>6. ASSUME NEW g \in Apps, NEW k \in RowKeys, NEW v \in RowValues, Put(g, k, v) PROVE Contents' = {kv'[h]}
    BY <2>4, <2>6 DEF Put, Vals, RowKeys
  <2>7. ASSUME NEW g \in Apps, NEW k \in RowKeys, Erase(g, k) PROVE Contents' = {kv'[h]}
    BY <2>4, <2>7 DEF Erase, Vals, RowKeys
  <2>8. ASSUME NEW g \in Apps, NEW s \in Schemas, Create(g, s) PROVE Contents' = {kv'[h]}
    <3> DEFINE m == [Empty EXCEPT ![SchemaKey] = s]
    <3>1. hdr' = 3 /\ At(SeenIn(file')[3], m, 3, 1) /\ Handle(g, 3, m, 4, 2, s)
      BY <2>8, CreateStep
    <3> HIDE DEF m
    <3>2. lsn' = [lsn EXCEPT ![g] = 4] /\ kv' = [kv EXCEPT ![g] = m]
      BY <3>1 DEF Handle
    <3>3. g = h /\ kv'[h] = m
      BY <2>2, <2>3, <3>2
    <3>4. exists' /\ Shows(SeenIn(file')[hdr'], m)
      BY <2>8, <3>1 DEF At, Shows, Create
    <3>5. QED BY <2>2, <3>3, <3>4, ContentsAfter
  <2>9. ASSUME NEW g \in Apps, Open(g) PROVE Contents' = {kv'[h]}
    <3>1. PICK s \in Loaded :
            Handle(g, hdr, s.map, NextLsn(s), NextTxn(s),
                   IF s.map[SchemaKey] = NoValue THEN {} ELSE s.map[SchemaKey])
      BY <2>9 DEF Open
    <3>2. exists /\ SeenIn(file)[hdr] = {s} /\ exists' = exists /\ file' = file /\ hdr' = hdr
      BY <2>2, <2>9, LoadedIsShown DEF Open, disk
    <3>3. lsn' = [lsn EXCEPT ![g] = NextLsn(s)] /\ kv' = [kv EXCEPT ![g] = s.map]
      BY <3>1 DEF Handle
    <3>4. g = h /\ kv'[h] = s.map
      BY <2>2, <2>3, <3>3
    <3>5. Shows(SeenIn(file')[hdr'], s.map)
      BY <3>2 DEF Shows
    <3>6. QED BY <2>2, <3>2, <3>4, <3>5, ContentsAfter
  <2>10. ASSUME NEW g \in Apps, Maintain(g) PROVE FALSE
    BY <2>3, <2>10 DEF Maintain, apps
  <2>11. ASSUME NEW g \in Apps, Close(g) PROVE FALSE
    <3>1. lsn' = [lsn EXCEPT ![g] = 1]
      BY <2>11 DEF Close
    <3>2. lsn[h] \in 1 .. MaxLsn /\ lsn'[h] \in {1, lsn[h]}
      BY <2>2, <3>1
    <3>3. QED BY <2>1, <3>2
  <2>12. QED BY <2>1, <2>5, <2>6, <2>7, <2>8, <2>9, <2>10, <2>11 DEF CliNext
<1>2. QED BY <1>1, Invariance, PTL DEF CliSpec, LastWriterWins
=============================================================================
