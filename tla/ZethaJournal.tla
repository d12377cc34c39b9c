---------------------------- MODULE ZethaJournal ----------------------------
(***************************************************************************)
(* The journal of ZethaSTORAGE.hpp as data: its records, and what a reader *)
(* (replay_journal_) knows after each of them.                             *)
(***************************************************************************)
EXTENDS Naturals

CONSTANTS
  Keys, Values,     \* the caller's keys and values
  NoKey, NoValue    \* of a record without a key; of a key without a value

ASSUME JournalAssumption == NoKey \notin Keys /\ NoValue \notin Values

Vals    == Values \cup {NoValue}
Maps    == [Keys -> Vals]
Empty   == [k \in Keys |-> NoValue]
Controls == {"TxnBegin", "Defragment", "TxnEnd"}
Records  == [op : {"Put", "Erase"}, key : Keys, val : Vals, lsn : Nat, txn : Nat]
       \cup [op : Controls, key : {NoKey}, val : {NoValue}, lsn : Nat, txn : Nat]
Zero    == [op |-> "Zero", key |-> NoKey, val |-> NoValue, lsn |-> 0, txn |-> 0]

\* f with x mapped to v, and f without x.
With(f, x, v) == [y \in DOMAIN f \cup {x} |-> IF y = x THEN v ELSE f[y]]
Without(f, x) == [y \in DOMAIN f \ {x} |-> f[y]]
NoOps         == [k \in {} |-> NoValue]

-----------------------------------------------------------------------------
(* What replay_journal_ makes of a record.                                 *)

\* The operations of a transaction: the last one on each key.
IsOps(ops) == /\ ops = [k \in DOMAIN ops |-> ops[k]]
              /\ DOMAIN ops \subseteq Keys
              /\ \A k \in DOMAIN ops : ops[k] \in Vals

\* target, pending, last_lsn and max_txn.
IsScan(s) == /\ s = [map |-> s.map, pend |-> s.pend, last |-> s.last, top |-> s.top]
             /\ s.map \in Maps
             /\ s.pend = [t \in DOMAIN s.pend |-> s.pend[t]]
             /\ DOMAIN s.pend \subseteq Nat
             /\ \A t \in DOMAIN s.pend : IsOps(s.pend[t])
             /\ s.last \in Nat
             /\ s.top \in Nat
Fresh     == [map |-> Empty, pend |-> [t \in {} |-> NoOps], last |-> 0, top |-> 0]

\* Mutant: the order of log sequence numbers is not looked at.
ValidTxn(s, r) == (r.op = "TxnBegin") = (r.txn \notin DOMAIN s.pend)

\* The log sequence number rises; a TxnBegin opens a transaction that is not
\* open, any other record belongs to one that is.
Valid(s, r) == /\ r.lsn > s.last
               /\ (r.op = "TxnBegin") = (r.txn \notin DOMAIN s.pend)

\* Mutant: TxnEnd forgets the erasures.
ApplyPuts(m, ops) ==
  [k \in Keys |-> IF k \in DOMAIN ops /\ ops[k] # NoValue THEN ops[k] ELSE m[k]]

\* m after the operations of a transaction.
Apply(m, ops) == [k \in Keys |-> IF k \in DOMAIN ops THEN ops[k] ELSE m[k]]

Pending(p, r) ==
  IF r.op = "TxnBegin" THEN With(p, r.txn, NoOps)
  ELSE IF r.op \in {"Put", "Erase"} THEN With(p, r.txn, With(p[r.txn], r.key, r.val))
  ELSE IF r.op = "TxnEnd" THEN Without(p, r.txn)
  ELSE p

After(s, r) ==
  [map  |-> IF r.op = "TxnEnd" THEN Apply(s.map, s.pend[r.txn]) ELSE s.map,
   pend |-> Pending(s.pend, r),
   last |-> r.lsn,
   top  |-> IF r.txn > s.top THEN r.txn ELSE s.top]
=============================================================================
