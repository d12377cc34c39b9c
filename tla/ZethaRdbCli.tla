----------------------------- MODULE ZethaRdbCli -----------------------------
(***************************************************************************)
(* zetha-rdb programs (ZethaRDB-CLI.cpp) at work on one .zdb file.  Each   *)
(* App has a database of its own: a ZethaStorage handle that holds its own *)
(* kv_index_, fh_.journal_end, next_lsn_ and next_txn_id_, and a ZethaRDB  *)
(* schema_ on top.  Nothing tells a handle that another one, of another    *)
(* App or the one that maintain opens, has written the file.               *)
(*                                                                         *)
(* A command is one step: what can fail inside one is in ZethaStorage.     *)
(* The journal is the one of ZethaJournal, all of its records of one size; *)
(* a create over the file puts journal_begin where it was.                 *)
(***************************************************************************)
EXTENDS ZethaJournal, SequencesExt

CONSTANTS
  Apps,             \* the programs
  SchemaKey,        \* the key ZethaRDB keeps the schema under
  TableOf,          \* the table of a row key
  Schemas,          \* schemas, as the set of their tables: values of SchemaKey
  RowValues,        \* encoded rows: values of the other keys
  MaxCells, MaxLsn  \* bounds: records in the file, log sequence numbers

RowKeys == Keys \ {SchemaKey}

\* A schema may be empty.  There is room for what create writes.
ASSUME CliAssumption ==
  /\ SchemaKey \in Keys /\ IsFiniteSet(Keys)
  /\ Schemas \subseteq SUBSET {TableOf[k] : k \in RowKeys}
  /\ {} \in Schemas
  /\ Values = Schemas \cup RowValues
  /\ MaxCells \in Nat /\ MaxCells >= 3
  /\ MaxLsn \in Nat /\ MaxLsn > 3

VARIABLES
  exists, file, len, hdr,             \* the file: journal, its end, journal_end
  up, fh, kv, lsn, txn, schema,       \* per App: db, and what is in it
  stale,      \* history: another handle has written the file since the App's opened
  rewritten,  \* history: it did so below the App's journal_end
  misused,    \* history: a stale handle has written the file
  acked       \* history: the map that the commands which said ok have made

disk    == <<exists, file, len, hdr>>
apps    == <<up, fh, kv, lsn, txn, schema>>
cliHistory == <<stale, rewritten, misused, acked>>
cliVars    == <<disk, apps, cliHistory>>

Offsets == 0 .. MaxCells

CliTypeOK ==
  /\ exists \in BOOLEAN
  /\ file \in [Offsets -> Records \cup {Zero}]
  /\ len \in Offsets
  /\ hdr \in 0 .. len
  /\ up \in [Apps -> BOOLEAN]
  /\ fh \in [Apps -> Offsets]
  /\ kv \in [Apps -> Maps]
  /\ lsn \in [Apps -> 1 .. MaxLsn]
  /\ txn \in [Apps -> 1 .. MaxLsn]
  /\ schema \in [Apps -> Schemas]
  /\ stale \in [Apps -> BOOLEAN]
  /\ rewritten \in [Apps -> BOOLEAN]
  /\ misused \in BOOLEAN
  /\ acked \in Maps

CliInit == /\ exists = FALSE
           /\ file = [o \in Offsets |-> Zero]
           /\ len = 0
           /\ hdr = 0
           /\ up = [h \in Apps |-> FALSE]
           /\ fh = [h \in Apps |-> 0]
           /\ kv = [h \in Apps |-> Empty]
           /\ lsn = [h \in Apps |-> 1]
           /\ txn = [h \in Apps |-> 1]
           /\ schema = [h \in Apps |-> {}]
           /\ stale = [h \in Apps |-> FALSE]
           /\ rewritten = [h \in Apps |-> FALSE]
           /\ misused = FALSE
           /\ acked = Empty

-----------------------------------------------------------------------------
(* What open reads in the file.                                            *)

\* What replay_journal_ knows at offset o: one scan, or none if it has found
\* the journal corrupt before.
Seen[o \in Offsets] ==
  IF o = 0 THEN {Fresh}
  ELSE {After(s, file[o - 1]) : s \in {t \in Seen[o - 1] : Valid(t, file[o - 1])}}

Loaded   == IF ~exists THEN {} ELSE IF hdr < len THEN Seen[hdr] ELSE Seen[len]
Contents == {s.map : s \in Loaded}

\* Mutant: the number of the last record is given out once more.
LastLsn(s)  == s.last
NextLsn(s)  == s.last + 1
NextTxn(s)  == s.top + 1

-----------------------------------------------------------------------------
(* What a handle writes.                                                   *)

Control(op)      == [op |-> op, key |-> NoKey, val |-> NoValue]
Operation(k, v)  == [op |-> IF v = NoValue THEN "Erase" ELSE "Put", key |-> k, val |-> v]
Transaction(ops) == <<Control("TxnBegin")>> \o ops \o <<Control("TxnEnd")>>

\* ops from offset at on, with log sequence numbers from n on, in transaction t.
Written(old, at, ops, n, t) ==
  [o \in Offsets |->
     IF o \in at .. at + Len(ops) - 1
     THEN LET r == ops[o - at + 1] IN
          [op |-> r.op, key |-> r.key, val |-> r.val, lsn |-> n + (o - at), txn |-> t]
     ELSE old[o]]

\* Mutant: at the journal_end of the file.
AtFileEnd(h) == hdr
AppendAt(h)  == fh[h]

\* append_kv_journal_op_ of App h: at its own journal_end, wherever the file's is.
Update(h, k, v) ==
  LET ops == Transaction(<<Operation(k, v)>>)
      end == AppendAt(h) + Len(ops)
  IN /\ end <= MaxCells
     /\ lsn[h] + Len(ops) <= MaxLsn
     /\ file' = Written(file, AppendAt(h), ops, lsn[h], txn[h])
     /\ len' = IF len < end THEN end ELSE len
     /\ hdr' = end
     /\ fh' = [fh EXCEPT ![h] = end]
     /\ kv' = [kv EXCEPT ![h][k] = v]
     /\ lsn' = [lsn EXCEPT ![h] = @ + Len(ops)]
     /\ txn' = [txn EXCEPT ![h] = @ + 1]
     /\ stale' = [g \in Apps |-> stale[g] \/ (g # h /\ up[g])]
     /\ rewritten' = [g \in Apps |-> rewritten[g] \/ (g # h /\ up[g] /\ fh[h] < fh[g])]
     /\ misused' = (misused \/ stale[h])
     /\ acked' = [acked EXCEPT ![k] = v]
     /\ UNCHANGED <<exists, up>>

\* The App holds a handle on the file as it is now.
Handle(h, end, m, n, t, s) ==
  /\ up' = [up EXCEPT ![h] = TRUE]
  /\ fh' = [fh EXCEPT ![h] = end]
  /\ kv' = [kv EXCEPT ![h] = m]
  /\ lsn' = [lsn EXCEPT ![h] = n]
  /\ txn' = [txn EXCEPT ![h] = t]
  /\ schema' = [schema EXCEPT ![h] = s]

-----------------------------------------------------------------------------
(* The commands.  One that fails with a usage, schema or storage error     *)
(* before it has changed anything is no step.                              *)

\* ZethaRDB::create truncates the file and persists the schema in the journal.
Create(h, s) ==
  LET ops == Transaction(<<Operation(SchemaKey, s)>>)
      m   == [Empty EXCEPT ![SchemaKey] = s]
  IN /\ exists' = TRUE
     /\ file' = Written([o \in Offsets |-> Zero], 0, ops, 1, 1)
     /\ len' = Len(ops)
     /\ hdr' = Len(ops)
     /\ Handle(h, Len(ops), m, 1 + Len(ops), 2, s)
     /\ stale' = [g \in Apps |-> g # h /\ up[g]]
     /\ rewritten' = [g \in Apps |-> g # h /\ up[g]]
     /\ misused' = FALSE
     /\ acked' = m

\* open: only a database that opens replaces the one the App has.
Open(h) ==
  /\ \E s \in Loaded :
       Handle(h, hdr, s.map, NextLsn(s), NextTxn(s),
              IF s.map[SchemaKey] = NoValue THEN {} ELSE s.map[SchemaKey])
  /\ stale' = [stale EXCEPT ![h] = FALSE]
  /\ rewritten' = [rewritten EXCEPT ![h] = FALSE]
  /\ UNCHANGED <<disk, misused, acked>>

SchemaLoad(h, s) == /\ up[h]
                    /\ schema' = [schema EXCEPT ![h] = s]
                    /\ Update(h, SchemaKey, s)

Put(h, k, v) == /\ up[h]
                /\ TableOf[k] \in schema[h]
                /\ Update(h, k, v)
                /\ UNCHANGED schema

\* Also of a row that is not there.
Erase(h, k) == /\ up[h]
               /\ TableOf[k] \in schema[h]
               /\ Update(h, k, NoValue)
               /\ UNCHANGED schema

\* A Put for every key that is bound, and the mark.
Survivors(m) == LET bound == SetToSeq({k \in Keys : m[k] # NoValue})
                IN [i \in DOMAIN bound |-> Operation(bound[i], m[bound[i]])]
                     \o <<Control("Defragment")>>

\* Mutant: the transaction is left open.
CompactionOpen(m) == <<Control("TxnBegin")>> \o Survivors(m)

\* What defragment makes of m: one transaction.
Compaction(m) == Transaction(Survivors(m))

\* maintain opens the file once more, defragments it and drops that handle;
\* the App keeps the one it has.
Maintain(h) ==
  /\ up[h]
  /\ \E s \in Loaded :
       LET ops == Compaction(s.map) IN
       /\ Len(ops) <= MaxCells
       /\ NextLsn(s) + Len(ops) <= MaxLsn
       /\ file' = Written([o \in Offsets |-> Zero], 0, ops, NextLsn(s), NextTxn(s))
       /\ len' = Len(ops)
       /\ hdr' = Len(ops)
  /\ stale' = [g \in Apps |-> stale[g] \/ up[g]]
  /\ rewritten' = [g \in Apps |-> rewritten[g] \/ up[g]]
  /\ UNCHANGED <<exists, apps, misused, acked>>

\* close, exit, and the end of the program.
Close(h) == /\ up[h]
            /\ up' = [up EXCEPT ![h] = FALSE]
            /\ fh' = [fh EXCEPT ![h] = 0]
            /\ kv' = [kv EXCEPT ![h] = Empty]
            /\ lsn' = [lsn EXCEPT ![h] = 1]
            /\ txn' = [txn EXCEPT ![h] = 1]
            /\ schema' = [schema EXCEPT ![h] = {}]
            /\ stale' = [stale EXCEPT ![h] = FALSE]
            /\ rewritten' = [rewritten EXCEPT ![h] = FALSE]
            /\ UNCHANGED <<disk, misused, acked>>

CliNext == \E h \in Apps :
          \/ \E s \in Schemas : Create(h, s) \/ SchemaLoad(h, s)
          \/ \E k \in RowKeys, v \in RowValues : Put(h, k, v)
          \/ \E k \in RowKeys : Erase(h, k)
          \/ Open(h) \/ Maintain(h) \/ Close(h)

CliSpec == CliInit /\ [][CliNext]_cliVars

-----------------------------------------------------------------------------
(* Properties.                                                             *)

\* As long as no stale handle has written the file, programs may take turns
\* with it in any way: it opens, holds what the commands that said ok have
\* put there, and so does every App that is not stale, with the schema. (And,
\* whatever they do, each variable keeps its type.)
TurnsAreSafe ==
  /\ CliTypeOK
  /\ exists /\ ~misused =>
       /\ Contents = {acked}
       /\ \A h \in Apps : up[h] /\ ~stale[h] =>
            kv[h] = acked /\ schema[h] = acked[SchemaKey]

\* maintain keeps what the file holds, even where stale handles have written it.
MaintainKeepsContents ==
  [][(\E h \in Apps : Maintain(h)) => Contents' = Contents]_cliVars

\* A handle made stale by nothing but appends behind its own journal_end takes
\* the file back to its own map: it opens, and the other handle's updates are
\* gone, although they were reported ok.
LastWriterWins ==
  [][\A h \in Apps : lsn'[h] > lsn[h] /\ ~rewritten[h]
                      => Contents' = {kv'[h]}]_cliVars

\* A file that one program alone has worked on opens, whatever commands it was
\* given: maintain is meant to be followed by others (docs/SMOKE_TESTS.md:114).
SoleUserCanReopen == exists => Loaded # {}
=============================================================================
