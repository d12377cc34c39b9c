---------------------------- MODULE ZethaRdbProofs ----------------------------
(***************************************************************************)
(* Theorems about ZethaRdb, for any tables, columns, schemas, rows and     *)
(* failures.                                                               *)
(***************************************************************************)
EXTENDS ZethaRdb, SequenceTheorems, Recursion

USE RdbAssumption

-----------------------------------------------------------------------------
(* Keys.                                                                   *)

\* What separates a table's name from the rest of a key is in no name: keys of
\* two tables are never the same, nor is one in the other's range.
LEMMA KeysOfTables ==
  ASSUME NEW t \in Tables, NEW u \in Tables, NEW d \in Data
  PROVE  InTable(t, RowKey(u, d)) <=> t = u
<1> DEFINE S == STRING \cup {":"}
           p == t \o <<":">>
           q == u \o <<":">>
           k == q \o d
<1>1. t \in Seq(S) /\ u \in Seq(S) /\ d \in Seq(S) /\ <<":">> \in Seq(S)
  <2>1. t \in Seq(STRING) /\ u \in Seq(STRING) /\ d \in Seq(STRING) /\ STRING \subseteq S
    OBVIOUS
  <2>2. QED BY <2>1, SeqMonotonic
<1>2. /\ p \in Seq(S) /\ Len(p) = Len(t) + 1
      /\ \A i \in 1 .. Len(t) : p[i] = t[i]
      /\ p[Len(t) + 1] = ":"
  BY <1>1
<1>3. /\ q \in Seq(S) /\ Len(q) = Len(u) + 1
      /\ \A i \in 1 .. Len(u) : q[i] = u[i]
      /\ q[Len(u) + 1] = ":"
  BY <1>1
<1>4. /\ k \in Seq(S) /\ Len(k) = Len(q) + Len(d)
      /\ \A i \in 1 .. Len(q) : k[i] = q[i]
  BY <1>1, <1>3
<1> HIDE DEF p, q, k
<1>5. InTable(t, RowKey(u, d)) <=>
        Len(p) <= Len(k) /\ SubSeq(p, 1, Len(p)) = SubSeq(k, 1, Len(p))
  BY DEF InTable, RowKey, IsPrefix, p, q, k
<1>6. Len(p) <= Len(k) =>
        (SubSeq(p, 1, Len(p)) = SubSeq(k, 1, Len(p)) <=> \A i \in 1 .. Len(p) : p[i] = k[i])
  BY <1>2, <1>4
<1>7. ASSUME Len(p) <= Len(k), \A i \in 1 .. Len(p) : p[i] = k[i] PROVE t = u
  <2>1. CASE Len(t) < Len(u)
    <3>1. k[Len(t) + 1] = ":" /\ Len(t) + 1 \in 1 .. Len(u)
      BY <1>1, <1>2, <1>7, <2>1
    <3>2. u[Len(t) + 1] = ":"
      BY <1>3, <1>4, <3>1
    <3>3. QED BY <3>1, <3>2
  <2>2. CASE Len(u) < Len(t)
    <3>1. p[Len(u) + 1] = ":" /\ Len(u) + 1 \in 1 .. Len(t)
      BY <1>1, <1>2, <1>3, <1>4, <1>7, <2>2
    <3>2. t[Len(u) + 1] = ":"
      BY <1>2, <3>1
    <3>3. QED BY <3>1, <3>2
  <2>3. CASE Len(t) = Len(u)
    <3>1. \A i \in 1 .. Len(t) : t[i] = u[i]
      BY <1>1, <1>2, <1>3, <1>4, <1>7, <2>3
    <3>2. QED BY <1>1, <2>3, <3>1
  <2>4. QED BY <1>1, <2>1, <2>2, <2>3
<1>8. t = u => Len(p) <= Len(k) /\ \A i \in 1 .. Len(p) : p[i] = k[i]
  BY <1>1, <1>2, <1>3, <1>4 DEF p, q
<1>9. QED BY <1>5, <1>6, <1>7, <1>8

\* No row lies under the key of the schema.
LEMMA SchemaKeyIsNoRowKey == KeyOfSchema \notin KeysOfRows
<1>1. SUFFICES ASSUME NEW t \in Tables, NEW d \in Data PROVE RowKey(t, d) # <<>>
  BY DEF KeysOfRows, KeyOfSchema
<1>2. t \in Seq(STRING) /\ d \in Seq(STRING)
  OBVIOUS
<1>3. Len(RowKey(t, d)) = Len(t) + 1 + Len(d)
  BY <1>2 DEF RowKey
<1>4. QED BY <1>2, <1>3

-----------------------------------------------------------------------------
(* Schemas and rows.                                                       *)

SchemaOK(s) == DOMAIN s \subseteq Tables /\ \A t \in DOMAIN s : s[t] \in TableSchemas

LEMMA NoDefaults == <<>> \in UNION {[C -> Cells] : C \in SUBSET Columns}
<1>1. <<>> \in [{} -> Cells]
  OBVIOUS
<1>2. QED BY <1>1

LEMMA BareFields ==
  ASSUME NEW def \in TableSchemas
  PROVE  /\ Bare(def) \in TableSchemas /\ Bare(Bare(def)) = Bare(def)
         /\ Bare(def).columns = def.columns /\ Bare(def).primary_key = def.primary_key
         /\ Bare(def).nullable = def.nullable /\ Bare(def).defaults = <<>>
BY NoDefaults DEF Bare, TableSchemas

\* What a schema has lost by being written it does not lose again.
LEMMA WrittenSchema ==
  ASSUME NEW s, SchemaOK(s)
  PROVE  SchemaOK(Encoded(s)) /\ Encoded(Encoded(s)) = Encoded(s) /\ DOMAIN Encoded(s) = DOMAIN s
<1>1. DOMAIN Encoded(s) = DOMAIN s /\ \A t \in DOMAIN s : Encoded(s)[t] = Bare(s[t])
  BY DEF Encoded
<1>2. SchemaOK(Encoded(s))
  BY <1>1, BareFields DEF SchemaOK
<1>3. \A t \in DOMAIN s : Bare(Encoded(s)[t]) = Encoded(s)[t]
  BY <1>1, BareFields DEF SchemaOK
<1>4. Encoded(Encoded(s)) = Encoded(s)
  BY <1>1, <1>3 DEF Encoded
<1>5. QED BY <1>1, <1>2, <1>4

LEMMA FilledRow ==
  ASSUME NEW def \in TableSchemas, NEW row, \A c \in DOMAIN row : row[c] \in Cells
  PROVE  Completed(def, row) \in [def.columns -> Cells]
<1>1. def.defaults \in UNION {[C -> Cells] : C \in SUBSET Columns}
  BY DEF TableSchemas
<1>2. \A c \in DOMAIN def.defaults : def.defaults[c] \in Cells
  BY <1>1
<1>3. NullValue \in Cells
  BY DEF Cells
<1>4. QED BY <1>2, <1>3 DEF Completed

\* The primary key of a row that is accepted is good for a key.
LEMMA AcceptedKey ==
  ASSUME NEW def \in TableSchemas, NEW row, \A c \in DOMAIN row : row[c] \in Cells,
         Accepts(def, row)
  PROVE  Completed(def, row)[def.primary_key].data \in Data
<1>1. Completed(def, row)[def.primary_key] \in Cells
  BY FilledRow DEF Accepts
<1>2. Completed(def, row)[def.primary_key] # NullValue
  BY DEF Accepts, NullValue
<1>3. QED BY <1>1, <1>2 DEF Cells

LEMMA PayloadIsRow ==
  ASSUME SchemaOK(schema_), NEW t \in DOMAIN schema_, NEW pk \in Data, NEW row,
         \A c \in DOMAIN row : row[c] \in Cells,
         Completed(schema_[t], row)[schema_[t].primary_key].data = pk
  PROVE  /\ Payload(t, pk, row) \in Rows
         /\ InPlace(RowKey(t, pk), Payload(t, pk, row))
         /\ Payload(t, pk, row).of = t /\ Payload(t, pk, row).under = schema_[t]
<1>1. t \in Tables /\ schema_[t] \in TableSchemas /\ schema_[t].columns \in SUBSET Columns
  BY DEF SchemaOK, TableSchemas
<1>2. Completed(schema_[t], row) \in [schema_[t].columns -> Cells]
  BY <1>1, FilledRow
<1>3. Completed(schema_[t], row) \in UNION {[C -> Cells] : C \in SUBSET Columns}
  BY <1>1, <1>2
<1>4. DOMAIN Completed(schema_[t], row) = schema_[t].columns
  BY <1>2
<1>5. Payload(t, pk, row) = [cells |-> Completed(schema_[t], row), of |-> t, pk |-> pk, under |-> schema_[t]]
  BY DEF Payload
<1>6. QED BY <1>1, <1>3, <1>4, <1>5 DEF Rows, InPlace

LEMMA KeyedRow ==
  ASSUME SchemaOK(schema_), NEW t \in DOMAIN schema_, NEW pk \in Data, NEW patch \in Patches,
         Accepts(schema_[t], Keyed(t, pk, patch))
  PROVE  /\ \A c \in DOMAIN Keyed(t, pk, patch) : Keyed(t, pk, patch)[c] \in Cells
         /\ Completed(schema_[t], Keyed(t, pk, patch))[schema_[t].primary_key].data = pk
<1>1. [kind |-> "text", data |-> pk] \in Cells
  BY DEF Cells
<1>2. \A c \in DOMAIN patch : patch[c] \in Cells
  OBVIOUS
<1>3. \A c \in DOMAIN Keyed(t, pk, patch) : Keyed(t, pk, patch)[c] \in Cells
  BY <1>1, <1>2 DEF Keyed
<1>4. schema_[t].primary_key \in schema_[t].columns
  BY DEF Accepts
<1>5. Completed(schema_[t], Keyed(t, pk, patch))[schema_[t].primary_key] = [kind |-> "text", data |-> pk]
  BY <1>4 DEF Completed, Keyed
<1>6. QED BY <1>3, <1>5

-----------------------------------------------------------------------------
(* The invariant.                                                          *)

\* The file has s, but for its defaults; or neither has a schema.
Saved(s) == \/ durable[KeyOfSchema] = NoRecord /\ s = NoSchema
            \/ durable[KeyOfSchema] = Encoded(s) /\ Encoded(s) # NoRecord

\* A row on its way into the file is in its place, under a schema that schema_
\* has still; a schema on its way is schema_.
CallOK == mode = "writing" =>
  /\ call.key = KeyOfSchema => call.val = Encoded(schema_) /\ call.val # NoRecord
  /\ call.key # KeyOfSchema /\ call.val # NoRecord =>
       /\ call.val \in Rows
       /\ InPlace(call.key, call.val)
       /\ call.val.of \in DOMAIN schema_
       /\ call.val.under = schema_[call.val.of]

Placed == \A k \in KeysOfRows : InPlace(k, mem[k]) /\ InPlace(k, durable[k])

\* What is in the file is what was last reported stored there, and what the
\* handle has, unless an init_schema has failed.
IInv == /\ RdbTypeOK
        /\ SchemaOK(accepted)
        /\ Placed
        /\ CallOK
        /\ Saved(accepted)
        /\ mode # "down" /\ ~ahead => Saved(schema_)

LEMMA InitIInv == RdbInit => IInv
<1> SUFFICES ASSUME RdbInit PROVE IInv
  OBVIOUS
<1>1. /\ mem = [k \in KeysOfRows \cup {KeyOfSchema} |-> NoRecord]
      /\ durable = [k \in KeysOfRows \cup {KeyOfSchema} |-> NoRecord]
      /\ mode = "down" /\ reply = "none"
  BY DEF RdbInit, Store!Init, Store!Empty
<1>2. DOMAIN NoSchema = {}
  BY DEF NoSchema
<1>3. RdbTypeOK /\ SchemaOK(accepted)
  <2>1. schema_ = NoSchema /\ accepted = NoSchema /\ fails \in 0 .. MaxFails
    BY DEF RdbInit
  <2>2. /\ DOMAIN schema_ \subseteq Tables /\ \A t \in DOMAIN schema_ : schema_[t] \in TableSchemas
        /\ SchemaOK(accepted)
    BY <1>2, <2>1 DEF SchemaOK
  <2>3. QED BY <1>1, <2>1, <2>2 DEF RdbInit, RdbTypeOK
<1>4. Placed
  BY <1>1 DEF Placed, InPlace
<1>5. CallOK /\ Saved(accepted) /\ (mode # "down" /\ ~ahead => Saved(schema_))
  BY <1>1 DEF RdbInit, CallOK, Saved
<1>6. QED BY <1>3, <1>4, <1>5 DEF IInv

\* What storage_insert and storage_erase do to the store and its invariant.
LEMMA WriteKeeps ==
  ASSUME IInv, NEW k \in KeysOfRows, NEW v \in Rows \cup {NoRecord}, Write(k, v),
         UNCHANGED <<rdbHandle, accepted, ahead>>,
         v # NoRecord => /\ InPlace(k, v)
                         /\ v.of \in DOMAIN schema_
                         /\ v.under = schema_[v.of]
  PROVE  IInv'
<1>1. /\ mode = "ready" /\ mode' \in {"ready", "writing"}
      /\ mem' = [mem EXCEPT ![k] = v] /\ durable' = durable
      /\ mode' = "writing" => call' = [key |-> k, val |-> v]
      /\ reply' \in {"none", "error"}
  BY DEF Write, Store!Update, Store!Set, IInv, RdbTypeOK
<1>2. fails' \in 0 .. MaxFails
  BY DEF Write, Counted, IInv, RdbTypeOK
<1>3. k # KeyOfSchema
  BY SchemaKeyIsNoRowKey
<1>4. \A l \in KeysOfRows : mem'[l] = IF l = k THEN v ELSE mem[l]
  BY <1>1 DEF IInv, RdbTypeOK
<1>5. RdbTypeOK'
  BY <1>1, <1>2, <1>4 DEF IInv, RdbTypeOK, rdbHandle
<1>6. Placed'
  BY <1>1, <1>4 DEF IInv, Placed, InPlace
<1>7. CallOK'
  BY <1>1, <1>3 DEF CallOK, rdbHandle, InPlace
<1>8. SchemaOK(accepted)' /\ Saved(accepted)' /\ (mode' # "down" /\ ~ahead' => Saved(schema_)')
  BY <1>1 DEF IInv, Saved, SchemaOK, rdbHandle
<1>9. QED BY <1>5, <1>6, <1>7, <1>8 DEF IInv

LEMMA CreateKeeps == ASSUME IInv, NEW s \in GivenSchemas, RdbCreate(s) PROVE IInv'
<1>1. /\ mode' = "writing" /\ call' = [key |-> KeyOfSchema, val |-> Encoded(s)]
      /\ durable' = [k \in KeysOfRows \cup {KeyOfSchema} |-> NoRecord]
      /\ mem' = [durable' EXCEPT ![KeyOfSchema] = Encoded(s)]
      /\ schema_' = s /\ accepted' = NoSchema /\ ahead' = TRUE
  BY DEF RdbCreate, Store!Set, Store!Empty
<1>2. SchemaOK(s) /\ SchemaOK(NoSchema)
  BY DEF SchemaOK, NoSchema
<1>3. \A k \in KeysOfRows : mem'[k] = NoRecord /\ durable'[k] = NoRecord
  BY <1>1, SchemaKeyIsNoRowKey
<1>4. RdbTypeOK'
  <2>1. DOMAIN mem' = KeysOfRows \cup {KeyOfSchema} /\ DOMAIN durable' = KeysOfRows \cup {KeyOfSchema}
    BY <1>1
  <2>2. \A k \in KeysOfRows : {mem'[k], durable'[k]} \subseteq Rows \cup {NoRecord}
    BY <1>3
  <2>3. /\ made' = TRUE /\ read_only' = FALSE /\ creating' = TRUE /\ reply' = "none"
        /\ fails' \in 0 .. MaxFails
    BY DEF RdbCreate, IInv, RdbTypeOK
  <2>4. /\ DOMAIN schema_' \subseteq Tables
        /\ \A t \in DOMAIN schema_' : schema_'[t] \in TableSchemas
    BY <1>1, <1>2 DEF SchemaOK
  <2>5. QED BY <1>1, <2>1, <2>2, <2>3, <2>4 DEF RdbTypeOK
<1>5. Placed'
  BY <1>3 DEF Placed, InPlace
<1>6. CallOK'
  BY <1>1, NoRecordAssumption DEF CallOK
<1>7. SchemaOK(accepted)' /\ Saved(accepted)' /\ (mode' # "down" /\ ~ahead' => Saved(schema_)')
  BY <1>1, <1>2 DEF Saved, SchemaOK
<1>8. QED BY <1>4, <1>5, <1>6, <1>7 DEF IInv

\* What open reads is what was reported stored.
LEMMA OpenReads ==
  ASSUME IInv, NEW ro, RdbOpen(ro)
  PROVE  \/ durable[KeyOfSchema] = NoRecord /\ accepted = NoSchema /\ schema_' = NoSchema
         \/ durable[KeyOfSchema] = Encoded(accepted) /\ Encoded(accepted) # NoRecord /\ schema_' = Encoded(accepted)
BY DEF RdbOpen, IInv, Saved

LEMMA OpenKeeps == ASSUME IInv, NEW ro \in BOOLEAN, RdbOpen(ro) PROVE IInv'
<1>1. mode' = "ready" /\ mem' = durable /\ durable' = durable /\ accepted' = accepted /\ reply' = "ok"
  BY DEF RdbOpen, Store!Start
<1>2. SchemaOK(schema_') /\ Saved(schema_)'
  <2>1. SchemaOK(NoSchema)
    BY DEF SchemaOK, NoSchema
  <2>2. SchemaOK(Encoded(accepted)) /\ Encoded(Encoded(accepted)) = Encoded(accepted)
    BY WrittenSchema DEF IInv
  <2>3. QED BY <1>1, <2>1, <2>2, OpenReads DEF Saved
<1>3. RdbTypeOK'
  BY <1>1, <1>2 DEF RdbOpen, IInv, RdbTypeOK, SchemaOK
<1>4. Placed' /\ CallOK' /\ SchemaOK(accepted)' /\ Saved(accepted)'
  BY <1>1 DEF IInv, Placed, InPlace, CallOK, SchemaOK, Saved
<1>5. QED BY <1>2, <1>3, <1>4 DEF IInv

LEMMA InitSchemaKeeps == ASSUME IInv, NEW s \in GivenSchemas, InitSchema(s) PROVE IInv'
<1>1. /\ mode = "ready" /\ mode' \in {"ready", "writing"}
      /\ mem' = [mem EXCEPT ![KeyOfSchema] = Encoded(s)] /\ durable' = durable
      /\ mode' = "writing" => call' = [key |-> KeyOfSchema, val |-> Encoded(s)]
      /\ reply' \in {"none", "error"}
      /\ schema_' = s /\ accepted' = accepted /\ ahead' = TRUE
  BY DEF InitSchema, Write, Store!Update, Store!Set
<1>2. fails' \in 0 .. MaxFails
  BY DEF InitSchema, Write, Counted, IInv, RdbTypeOK
<1>3. SchemaOK(s)
  BY DEF SchemaOK
<1>4. \A k \in KeysOfRows : mem'[k] = mem[k]
  BY <1>1, SchemaKeyIsNoRowKey
<1>5. RdbTypeOK'
  BY <1>1, <1>2, <1>3, <1>4 DEF InitSchema, IInv, RdbTypeOK, SchemaOK
<1>6. Placed' /\ SchemaOK(accepted)' /\ Saved(accepted)'
  BY <1>1, <1>4 DEF IInv, Placed, InPlace, SchemaOK, Saved
<1>7. CallOK'
  BY <1>1, NoRecordAssumption DEF CallOK
<1>8. QED BY <1>1, <1>5, <1>6, <1>7 DEF IInv

LEMMA InsertKeeps ==
  ASSUME IInv, NEW t \in Tables, NEW row \in Inputs, Insert(t, row) PROVE IInv'
<1> DEFINE pk == Completed(schema_[t], row)[schema_[t].primary_key].data
<1>1. SchemaOK(schema_) /\ t \in DOMAIN schema_ /\ schema_[t] \in TableSchemas
  BY DEF Insert, IInv, RdbTypeOK, SchemaOK
<1>2. \A c \in DOMAIN row : row[c] \in Cells
  OBVIOUS
<1>3. pk \in Data
  BY <1>1, <1>2, AcceptedKey DEF Insert
<1>4. /\ Payload(t, pk, row) \in Rows
      /\ InPlace(RowKey(t, pk), Payload(t, pk, row))
      /\ Payload(t, pk, row).of = t /\ Payload(t, pk, row).under = schema_[t]
  BY <1>1, <1>2, <1>3, PayloadIsRow
<1>5. Write(RowKey(t, pk), Payload(t, pk, row)) /\ UNCHANGED <<rdbHandle, accepted, ahead>>
  BY DEF Insert
<1>6. RowKey(t, pk) \in KeysOfRows
  BY <1>3 DEF KeysOfRows
<1> HIDE DEF pk
<1>7. QED BY <1>1, <1>4, <1>5, <1>6, WriteKeeps

LEMMA UpdateKeeps ==
  ASSUME IInv, NEW t \in Tables, NEW pk \in Data, NEW patch \in Patches, RdbUpdate(t, pk, patch)
  PROVE  IInv'
<1> DEFINE row == Keyed(t, pk, patch)
<1>1. SchemaOK(schema_) /\ t \in DOMAIN schema_
  BY DEF RdbUpdate, IInv, RdbTypeOK, SchemaOK
<1>2. /\ \A c \in DOMAIN row : row[c] \in Cells
      /\ Completed(schema_[t], row)[schema_[t].primary_key].data = pk
  BY <1>1, KeyedRow DEF RdbUpdate
<1>3. Write(RowKey(t, pk), Payload(t, pk, row)) /\ UNCHANGED <<rdbHandle, accepted, ahead>>
  BY DEF RdbUpdate
<1> HIDE DEF row
<1>4. /\ Payload(t, pk, row) \in Rows
      /\ InPlace(RowKey(t, pk), Payload(t, pk, row))
      /\ Payload(t, pk, row).of = t /\ Payload(t, pk, row).under = schema_[t]
  BY <1>1, <1>2, PayloadIsRow
<1>5. RowKey(t, pk) \in KeysOfRows
  BY DEF KeysOfRows
<1>6. QED BY <1>1, <1>3, <1>4, <1>5, WriteKeeps

LEMMA EraseKeeps ==
  ASSUME IInv, NEW t \in Tables, NEW pk \in Data, RdbErase(t, pk) PROVE IInv'
<1>1. Write(RowKey(t, pk), NoRecord) /\ UNCHANGED <<rdbHandle, accepted, ahead>>
  BY DEF RdbErase
<1>2. RowKey(t, pk) \in KeysOfRows
  BY DEF KeysOfRows
<1>3. QED BY <1>1, <1>2, WriteKeeps

LEMMA CommitKeeps == ASSUME IInv, Commit PROVE IInv'
<1>1. /\ mode = "writing" /\ mode' = "ready" /\ reply' = "ok"
      /\ durable' = [durable EXCEPT ![call.key] = call.val] /\ mem' = mem
      /\ schema_' = schema_ /\ fails' = fails
      /\ DOMAIN durable = KeysOfRows \cup {KeyOfSchema}
  BY DEF Commit, Store!Commit, Store!Set, IInv, RdbTypeOK
<1>2. SchemaOK(schema_)
  BY DEF IInv, RdbTypeOK, SchemaOK
<1>3. CASE call.key = KeyOfSchema
  <2>1. call.val = Encoded(schema_) /\ call.val # NoRecord
    BY <1>1, <1>3 DEF IInv, CallOK
  <2>2. durable'[KeyOfSchema] = Encoded(schema_) /\ \A k \in KeysOfRows : durable'[k] = durable[k]
    BY <1>1, <1>3, <2>1, SchemaKeyIsNoRowKey
  <2>3. accepted' = schema_ /\ ahead' = FALSE
    BY <1>3 DEF Commit
  <2>4. RdbTypeOK'
    <3>1. DOMAIN durable' = KeysOfRows \cup {KeyOfSchema}
      BY <1>1
    <3>2. \A k \in KeysOfRows : {mem'[k], durable'[k]} \subseteq Rows \cup {NoRecord}
      BY <1>1, <2>2 DEF IInv, RdbTypeOK
    <3>3. QED BY <1>1, <2>3, <3>1, <3>2 DEF Commit, IInv, RdbTypeOK
  <2>5. SchemaOK(accepted)' /\ Placed' /\ CallOK' /\ Saved(accepted)' /\ Saved(schema_)'
    BY <1>1, <1>2, <2>1, <2>2, <2>3 DEF IInv, Placed, InPlace, CallOK, SchemaOK, Saved
  <2>6. QED BY <2>4, <2>5 DEF IInv
<1>4. CASE call.key # KeyOfSchema
  <2>1. call.key \in KeysOfRows
    BY <1>1, <1>4 DEF IInv, RdbTypeOK
  <2>2. call.val # NoRecord => call.val \in Rows /\ InPlace(call.key, call.val)
    BY <1>1, <1>4 DEF IInv, CallOK
  <2>3. /\ durable'[KeyOfSchema] = durable[KeyOfSchema]
        /\ \A k \in KeysOfRows : durable'[k] = IF k = call.key THEN call.val ELSE durable[k]
    BY <1>1, <2>1, SchemaKeyIsNoRowKey
  <2>4. accepted' = accepted /\ ahead' = ahead
    BY <1>4 DEF Commit
  <2>5. RdbTypeOK'
    <3>1. DOMAIN durable' = KeysOfRows \cup {KeyOfSchema}
      BY <1>1
    <3>2. \A k \in KeysOfRows : {mem'[k], durable'[k]} \subseteq Rows \cup {NoRecord}
      BY <1>1, <2>2, <2>3 DEF IInv, RdbTypeOK
    <3>3. QED BY <1>1, <2>4, <3>1, <3>2 DEF Commit, IInv, RdbTypeOK
  <2>6. SchemaOK(accepted)' /\ CallOK' /\ Saved(accepted)' /\ (~ahead' => Saved(schema_)')
    BY <1>1, <2>3, <2>4 DEF IInv, CallOK, SchemaOK, Saved
  <2>7. Placed'
    BY <1>1, <2>2, <2>3 DEF IInv, Placed, InPlace
  <2>8. QED BY <2>5, <2>6, <2>7 DEF IInv
<1>5. QED BY <1>3, <1>4

LEMMA RestKeeps == IInv /\ (Abort \/ Stop \/ RemoveFile \/ UNCHANGED rdbVars) => IInv'
<1> SUFFICES ASSUME IInv, Abort \/ Stop \/ RemoveFile \/ UNCHANGED rdbVars PROVE IInv'
  OBVIOUS
<1>1. CASE Abort
  <2>1. /\ mode = "writing" /\ mode' = "ready" /\ reply' = "error" /\ mem' = mem /\ durable' = durable
        /\ fails' \in 0 .. MaxFails
    BY <1>1 DEF Abort, Store!Abort, Counted, IInv, RdbTypeOK
  <2>2. QED BY <1>1, <2>1 DEF Abort, rdbHandle, IInv, RdbTypeOK, Placed, InPlace, CallOK, SchemaOK, Saved
<1>2. CASE Stop
  <2>1. /\ mode' = "down" /\ reply' = "none" /\ durable' = durable
        /\ mem' = [k \in KeysOfRows \cup {KeyOfSchema} |-> NoRecord]
    BY <1>2 DEF Stop, Store!Stop, Store!Empty
  <2>2. DOMAIN schema_' = {}
    BY <1>2 DEF Stop, NoSchema
  <2>3. RdbTypeOK'
    BY <1>2, <2>1, <2>2 DEF Stop, IInv, RdbTypeOK
  <2>4. QED BY <1>2, <2>1, <2>3 DEF Stop, IInv, Placed, InPlace, CallOK, SchemaOK, Saved
<1>3. CASE RemoveFile
  <2>1. mode' = "down" /\ durable' = [k \in KeysOfRows \cup {KeyOfSchema} |-> NoRecord] /\ accepted' = NoSchema
    BY <1>3 DEF RemoveFile, Store!Empty
  <2>2. SchemaOK(accepted')
    BY <2>1 DEF SchemaOK, NoSchema
  <2>3. RdbTypeOK'
    BY <1>3, <2>1 DEF RemoveFile, IInv, RdbTypeOK
  <2>4. QED BY <1>3, <2>1, <2>2, <2>3 DEF RemoveFile, IInv, Placed, InPlace, CallOK, SchemaOK, Saved
<1>4. CASE UNCHANGED rdbVars
  BY <1>4 DEF rdbVars, store, rdbHandle, IInv, RdbTypeOK, Placed, InPlace, CallOK, SchemaOK, Saved
<1>5. QED BY <1>1, <1>2, <1>3, <1>4

THEOREM Invariance == RdbSpec => []IInv
<1>1. IInv /\ [RdbNext]_rdbVars => IInv'
  <2> SUFFICES ASSUME IInv, [RdbNext]_rdbVars PROVE IInv'
    OBVIOUS
  <2>1. ASSUME NEW s \in GivenSchemas, RdbCreate(s) \/ InitSchema(s) PROVE IInv'
    BY <2>1, CreateKeeps, InitSchemaKeeps
  <2>2. ASSUME NEW ro \in BOOLEAN, RdbOpen(ro) PROVE IInv'
    BY <2>2, OpenKeeps
  <2>3. ASSUME NEW t \in Tables, NEW r \in Inputs, Insert(t, r) PROVE IInv'
    BY <2>3, InsertKeeps
  <2>4. ASSUME NEW t \in Tables, NEW pk \in Data, NEW r \in Patches, RdbUpdate(t, pk, r) PROVE IInv'
    BY <2>4, UpdateKeeps
  <2>5. ASSUME NEW t \in Tables, NEW pk \in Data, RdbErase(t, pk) PROVE IInv'
    BY <2>5, EraseKeeps
  <2>6. CASE Commit
    BY <2>6, CommitKeeps
  <2>7. QED BY <2>1, <2>2, <2>3, <2>4, <2>5, <2>6, RestKeeps DEF RdbNext
<1>2. QED BY InitIInv, <1>1, PTL DEF RdbSpec

-----------------------------------------------------------------------------
(* Rows.                                                                   *)

\* However rows got there (insert with a default, update by a patch, under
\* whatever schema, before or after a crash), each lies under the key of the
\* table and primary key it was given for and has the cells of its columns;
\* and every variable has its type.
THEOREM RowsStayInPlace == RdbSpec => []RowsInPlace
<1>1. IInv => RowsInPlace
  BY DEF IInv, RowsInPlace, Placed
<1>2. QED BY Invariance, <1>1, PTL

LEMMA ScanOfRows == IInv => ScanFindsItsTable
<1>1. SUFFICES ASSUME IInv, NEW t \in Tables, NEW k \in KeysOfRows, mem[k] # NoRecord
               PROVE  InTable(t, k) <=> mem[k].of = t
  BY DEF ScanFindsItsTable
<1>2. mem[k].of \in Tables /\ mem[k].pk \in Data
  BY <1>1 DEF IInv, RdbTypeOK, Rows
<1>3. k = RowKey(mem[k].of, mem[k].pk)
  BY <1>1 DEF IInv, Placed, InPlace
<1>4. QED BY <1>2, <1>3, KeysOfTables

\* query, scanning by the prefix of a table, meets the rows of that table and
\* no row of another, also where one name begins with the other.
THEOREM ScansFindTheirTable == RdbSpec => []ScanFindsItsTable
BY Invariance, ScanOfRows, PTL

\* Unless an init_schema of the handle has failed, a row that is reported
\* stored is of a table that the schema in the file has, as the caller knew it.
THEOREM StoredRowsFitTheFile == RdbSpec => StoredRowFitsFile
<1> DEFINE Fits == Commit /\ call.key # KeyOfSchema /\ call.val # NoRecord /\ ~ahead =>
                     LET inFile == durable'[KeyOfSchema]
                     IN  inFile # NoRecord /\ call.val.of \in DOMAIN inFile
                         /\ inFile[call.val.of] = Bare(call.val.under)
<1>1. IInv /\ [RdbNext]_rdbVars => [Fits]_rdbVars
  <2>1. SUFFICES ASSUME IInv, Commit, call.key # KeyOfSchema, call.val # NoRecord, ~ahead PROVE Fits
    OBVIOUS
  <2>2. /\ mode = "writing" /\ durable' = [durable EXCEPT ![call.key] = call.val]
        /\ DOMAIN durable = KeysOfRows \cup {KeyOfSchema}
    BY <2>1 DEF Commit, Store!Commit, Store!Set, IInv, RdbTypeOK
  <2>3. call.val.of \in DOMAIN schema_ /\ call.val.under = schema_[call.val.of]
    BY <2>1, <2>2 DEF IInv, CallOK
  <2>4. durable[KeyOfSchema] = Encoded(schema_) /\ Encoded(schema_) # NoRecord
    <3>1. schema_ # NoSchema
      BY <2>3 DEF NoSchema
    <3>2. QED BY <2>1, <2>2, <3>1 DEF IInv, Saved
  <2>5. durable'[KeyOfSchema] = Encoded(schema_)
    BY <2>1, <2>2, <2>4
  <2>6. QED BY <2>3, <2>4, <2>5 DEF Encoded
<1>2. QED BY Invariance, <1>1, PTL DEF RdbSpec, StoredRowFitsFile

\* open brings back the schema that create or init_schema last reported stored,
\* whatever came in between, but for the defaults.
THEOREM SchemasSurvive == RdbSpec => SchemaSurvives
<1> DEFINE Back == \A ro \in BOOLEAN : RdbOpen(ro) =>
                     /\ DOMAIN schema_' = DOMAIN accepted
                     /\ \A t \in DOMAIN accepted :
                          /\ schema_'[t].columns = accepted[t].columns
                          /\ schema_'[t].primary_key = accepted[t].primary_key
                          /\ schema_'[t].nullable = accepted[t].nullable
                          /\ schema_'[t].defaults = <<>>
<1>1. IInv /\ [RdbNext]_rdbVars => [Back]_rdbVars
  <2>1. SUFFICES ASSUME IInv, NEW ro \in BOOLEAN, RdbOpen(ro)
                 PROVE  /\ DOMAIN schema_' = DOMAIN accepted
                        /\ \A t \in DOMAIN accepted :
                             /\ schema_'[t].columns = accepted[t].columns
                             /\ schema_'[t].primary_key = accepted[t].primary_key
                             /\ schema_'[t].nullable = accepted[t].nullable
                             /\ schema_'[t].defaults = <<>>
    OBVIOUS
  <2>2. CASE accepted = NoSchema /\ schema_' = NoSchema
    BY <2>2 DEF NoSchema
  <2>3. CASE schema_' = Encoded(accepted)
    <3>1. \A t \in DOMAIN accepted : accepted[t] \in TableSchemas
      BY <2>1 DEF IInv, SchemaOK
    <3>2. QED BY <2>3, <3>1, BareFields DEF Encoded
  <2>4. QED BY <2>1, <2>2, <2>3, OpenReads
<1>2. QED BY Invariance, <1>1, PTL DEF RdbSpec, SchemaSurvives

-----------------------------------------------------------------------------
(* Pages.                                                                  *)

Start == [rows |-> <<>>, skipped |-> 0, full |-> FALSE]

\* query looks at k.
Hit(t, k) == InTable(t, k) /\ mem[k] # NoRecord

Turns == [rows : Seq(KeysOfRows), skipped : Nat, full : BOOLEAN]

LEMMA EmitTurns ==
  ASSUME NEW offset \in Nat, NEW limit, NEW k \in KeysOfRows, NEW q \in Turns
  PROVE  EmitRow(offset, limit, k, q) \in Turns
<1>1. Append(q.rows, k) \in Seq(KeysOfRows) /\ q.skipped + 1 \in Nat
  BY DEF Turns
<1>2. (\E n \in limit : Len(q.rows) + 1 >= n) \in BOOLEAN
  OBVIOUS
<1>3. QED BY <1>1, <1>2 DEF EmitRow, Turns

\* The loop of query, turn by turn.
LEMMA ScanTurns ==
  ASSUME NEW t, NEW offset \in Nat, NEW limit
  PROVE  /\ Scan(t, offset, limit)[0] = Start
         /\ \A n \in 1 .. Len(Order) : Scan(t, offset, limit)[n] =
              IF Hit(t, Order[n]) THEN EmitRow(offset, limit, Order[n], Scan(t, offset, limit)[n - 1])
                                  ELSE Scan(t, offset, limit)[n - 1]
         /\ \A n \in 0 .. Len(Order) : Scan(t, offset, limit)[n] \in Turns
<1> DEFINE N == Len(Order)
           Turn(n, q) == IF Hit(t, Order[n]) THEN EmitRow(offset, limit, Order[n], q) ELSE q
           step == [n \in 1 .. N |-> [q \in Turns |-> Turn(n, q)]]
           Loop(f) == [n \in 0 .. N |-> IF n = 0 THEN Start ELSE Turn(n, f[n - 1])]
           scan == Scan(t, offset, limit)
<1>1. N \in Nat /\ \A n \in 1 .. N : Order[n] \in KeysOfRows
  OBVIOUS
<1>2. Start \in Turns
  BY DEF Start, Turns
<1>3. \A n \in 1 .. N : \A q \in Turns : Turn(n, q) \in Turns
  BY <1>1, EmitTurns
<1> HIDE DEF Turn
<1>4. step \in Steps(N, Turns)
  BY <1>3 DEF Steps
<1>5. PICK f \in [0 .. N -> Turns] : f[0] = Start /\ \A n \in 1 .. N : f[n] = step[n][f[n - 1]]
  <2> HIDE DEF step, N
  <2>1. Runs(N, Turns, Start, step) # {}
    BY <1>1, <1>2, <1>4, RecursiveFunction
  <2>2. QED BY <2>1 DEF Runs
<1>6. \A n \in 1 .. N : f[n] = Turn(n, f[n - 1])
  <2>1. TAKE n \in 1 .. N
  <2>2. f[n - 1] \in Turns
    BY <1>1
  <2>3. QED BY <1>5, <2>2
<1>7. f = Loop(f)
  BY <1>1, <1>5, <1>6
<1>8. scan = CHOOSE g : g = Loop(g)
  BY DEF Scan, Turn, Hit, Start
<1> HIDE DEF Loop, scan, N
<1>9. scan = Loop(scan)
  BY <1>7, <1>8
<1> USE DEF Loop
<1>10. scan[0] = Start /\ \A n \in 1 .. N : scan[n] = Turn(n, scan[n - 1])
  BY <1>1, <1>9
<1> DEFINE S == {n \in Nat : n <= N => scan[n] \in Turns}
<1>11. 0 \in S
  BY <1>2, <1>10
<1>12. \A n \in Nat : n \in S => n + 1 \in S
  <2>1. SUFFICES ASSUME NEW n \in Nat, n \in S, n + 1 <= N PROVE scan[n + 1] \in Turns
    OBVIOUS
  <2>2. scan[n] \in Turns /\ n + 1 \in 1 .. N /\ n + 1 - 1 = n
    BY <1>1, <2>1
  <2>3. QED BY <1>3, <1>10, <2>2
<1> HIDE DEF S
<1>13. \A n \in Nat : n \in S
  BY <1>11, <1>12, NatInductiveOn
<1>14. \A n \in 0 .. N : scan[n] \in Turns
  BY <1>1, <1>13 DEF S
<1>15. QED BY <1>10, <1>14 DEF Turn, scan, N

HIDE RdbAssumption

\* A piece of a sequence that gets longer.
LEMMA PieceOfLonger ==
  ASSUME NEW S, NEW s \in Seq(S), NEW k \in S, NEW m \in Nat
  PROVE  /\ \A n \in 0 .. Len(s) : SubSeq(Append(s, k), m + 1, n) = SubSeq(s, m + 1, n)
         /\ m <= Len(s) => SubSeq(Append(s, k), m + 1, Len(s) + 1) = Append(SubSeq(s, m + 1, Len(s)), k)
<1> DEFINE l == Append(s, k)
<1>1. l \in Seq(S) /\ Len(l) = Len(s) + 1 /\ l[Len(s) + 1] = k /\ \A i \in 1 .. Len(s) : l[i] = s[i]
  OBVIOUS
<1> HIDE DEF l
<1>2. ASSUME NEW n \in 0 .. Len(s) PROVE SubSeq(l, m + 1, n) = SubSeq(s, m + 1, n)
  <2>1. \A i \in m + 1 .. n : l[i] = s[i]
    BY <1>1
  <2>2. QED BY <1>1, <2>1, SMTT(30)
<1>3. ASSUME m <= Len(s) PROVE SubSeq(l, m + 1, Len(s) + 1) = Append(SubSeq(s, m + 1, Len(s)), k)
  <2> DEFINE p == SubSeq(s, m + 1, Len(s))
             q == SubSeq(l, m + 1, Len(s) + 1)
  <2>1. Len(s) \in Nat /\ \A i \in m + 1 .. Len(s) : s[i] \in S
    OBVIOUS
  <2>2. p \in Seq(S) /\ Len(p) = Len(s) - m /\ \A i \in 1 .. Len(s) - m : p[i] = s[m + i]
    BY <1>3, <2>1
  <2>3. q \in Seq(S) /\ Len(q) = Len(s) + 1 - m /\ \A i \in 1 .. Len(s) + 1 - m : q[i] = l[m + i]
    BY <1>1, <1>3, <2>1
  <2> HIDE DEF p, q
  <2>4. /\ Append(p, k) \in Seq(S) /\ Len(Append(p, k)) = Len(s) + 1 - m
        /\ \A i \in 1 .. Len(s) - m : Append(p, k)[i] = p[i]
        /\ Append(p, k)[Len(s) + 1 - m] = k
    BY <1>3, <2>1, <2>2
  <2>5. \A i \in 1 .. Len(s) + 1 - m : q[i] = Append(p, k)[i]
    <3>1. TAKE i \in 1 .. Len(s) + 1 - m
    <3>2. CASE i \in 1 .. Len(s) - m
      <4>1. m + i \in 1 .. Len(s)
        BY <2>1, <3>2
      <4>2. QED BY <1>1, <2>2, <2>3, <2>4, <3>2, <4>1
    <3>3. CASE i = Len(s) + 1 - m
      <4>1. m + i = Len(s) + 1
        BY <2>1, <3>3
      <4>2. QED BY <1>1, <2>3, <2>4, <3>3, <4>1
    <3>4. i \in 1 .. Len(s) - m \/ i = Len(s) + 1 - m
      BY <1>3, <2>1
    <3>5. QED BY <3>2, <3>3, <3>4
  <2>6. q = Append(p, k)
    BY <2>3, <2>4, <2>5, SeqEqual
  <2>7. QED BY <2>6 DEF p, q
<1>4. QED BY <1>2, <1>3 DEF l

LEMMA SetOfLonger ==
  ASSUME NEW S, NEW s \in Seq(S), NEW k \in S
  PROVE  ToSet(Append(s, k)) = ToSet(s) \cup {k}
<1>1. /\ Len(s) \in Nat /\ DOMAIN s = 1 .. Len(s) /\ DOMAIN Append(s, k) = 1 .. Len(s) + 1
      /\ \A i \in 1 .. Len(s) : Append(s, k)[i] = s[i]
      /\ Append(s, k)[Len(s) + 1] = k
  OBVIOUS
<1> DEFINE l == Append(s, k)
<1>2. ToSet(s) = {s[i] : i \in 1 .. Len(s)} /\ ToSet(l) = {l[i] : i \in 1 .. Len(s) + 1}
  BY <1>1 DEF ToSet
<1> HIDE DEF l
<1>3. ToSet(l) = ToSet(s) \cup {k}
  BY <1>1, <1>2 DEF l
<1>4. QED BY <1>3 DEF l

\* One turn that emits or skips.
LEMMA EmitFields ==
  ASSUME NEW offset \in Nat, NEW limit, NEW k, NEW q \in Turns
  PROVE  /\ q.full => EmitRow(offset, limit, k, q) = q
         /\ ~q.full /\ q.skipped < offset =>
              /\ EmitRow(offset, limit, k, q).rows = q.rows
              /\ EmitRow(offset, limit, k, q).skipped = q.skipped + 1
              /\ ~EmitRow(offset, limit, k, q).full
         /\ ~q.full /\ ~(q.skipped < offset) =>
              /\ EmitRow(offset, limit, k, q).rows = Append(q.rows, k)
              /\ EmitRow(offset, limit, k, q).skipped = q.skipped
              /\ EmitRow(offset, limit, k, q).full <=> \E n \in limit : Len(q.rows) + 1 >= n
BY DEF EmitRow, Turns

\* What a limit comes to.
Most(limit) == IF limit = 0 THEN 1 ELSE limit

\* What the loop with an offset and a limit has where the one without has all:
\* it skips still, or emits, or is done.
PageOf(page, all, offset, limit) ==
  \/ /\ Len(all) < offset
     /\ page.rows = <<>> /\ page.skipped = Len(all) /\ ~page.full
  \/ /\ offset <= Len(all) /\ Len(all) < offset + Most(limit)
     /\ page.rows = SubSeq(all, offset + 1, Len(all)) /\ page.skipped = offset /\ ~page.full
  \/ /\ offset + Most(limit) <= Len(all)
     /\ page.rows = SubSeq(all, offset + 1, offset + Most(limit)) /\ page.full

LEMMA EmitToPage ==
  ASSUME NEW offset \in Nat, NEW limit \in Nat, NEW k \in KeysOfRows, NEW s \in Seq(KeysOfRows),
         NEW page \in Turns, PageOf(page, s, offset, limit)
  PROVE  PageOf(EmitRow(offset, {limit}, k, page), Append(s, k), offset, limit)
<1> DEFINE turn == EmitRow(offset, {limit}, k, page)
           longer == Append(s, k)
           end == offset + Most(limit)
<1>1. Len(s) \in Nat /\ end \in Nat /\ Len(longer) = Len(s) + 1
  BY DEF Most
<1>2. end >= offset + 1 /\ (limit = 0 => end = offset + 1) /\ (limit # 0 => end = offset + limit)
  BY DEF Most
<1>3. \A n \in 0 .. Len(s) : SubSeq(longer, offset + 1, n) = SubSeq(s, offset + 1, n)
  BY PieceOfLonger
<1>4. offset <= Len(s) => SubSeq(longer, offset + 1, Len(s) + 1) = Append(SubSeq(s, offset + 1, Len(s)), k)
  BY PieceOfLonger
<1>5. /\ page.full => turn = page
      /\ ~page.full /\ page.skipped < offset =>
           turn.rows = page.rows /\ turn.skipped = page.skipped + 1 /\ ~turn.full
      /\ ~page.full /\ ~(page.skipped < offset) =>
           turn.rows = Append(page.rows, k) /\ turn.skipped = page.skipped
  BY EmitFields
<1>6. ~page.full /\ ~(page.skipped < offset) => (turn.full <=> Len(page.rows) + 1 >= limit)
  <2>1. (\E n \in {limit} : Len(page.rows) + 1 >= n) <=> Len(page.rows) + 1 >= limit
    OBVIOUS
  <2>2. QED BY <2>1, EmitFields
<1>7. PageOf(page, s, offset, limit)
  OBVIOUS
<1> HIDE DEF turn, longer
<1>8. CASE /\ end <= Len(s)
           /\ page.rows = SubSeq(s, offset + 1, end) /\ page.full
  <2>1. SubSeq(longer, offset + 1, end) = SubSeq(s, offset + 1, end) /\ end <= Len(longer)
    <3> HIDE DEF end
    <3>1. QED BY <1>1, <1>3, <1>8
  <2>2. turn = page
    BY <1>5, <1>8
  <2>3. QED BY <1>8, <2>1, <2>2 DEF PageOf, turn, longer
<1>9. CASE /\ Len(s) < offset
           /\ page.rows = <<>> /\ page.skipped = Len(s) /\ ~page.full
  <2>1. turn.rows = <<>> /\ turn.skipped = Len(longer) /\ ~turn.full
    BY <1>1, <1>5, <1>9
  <2>2. CASE Len(longer) < offset
    BY <2>1, <2>2 DEF PageOf, turn, longer
  <2>3. CASE Len(longer) = offset
    <3>1. SubSeq(longer, offset + 1, Len(longer)) = <<>>
      BY <1>1, <2>3, SubSeqEmpty
    <3>2. offset <= Len(longer) /\ Len(longer) < end
      <4> HIDE DEF end
      <4>1. QED BY <1>1, <1>2, <2>3
    <3>3. QED BY <2>1, <2>3, <3>1, <3>2 DEF PageOf, turn, longer
  <2>4. Len(longer) < offset \/ Len(longer) = offset
    BY <1>1, <1>9
  <2>5. QED BY <2>2, <2>3, <2>4
<1>10. CASE /\ offset <= Len(s) /\ Len(s) < end
            /\ page.rows = SubSeq(s, offset + 1, Len(s)) /\ page.skipped = offset /\ ~page.full
  <2>1. Len(page.rows) = Len(s) - offset
    BY <1>1, <1>10
  <2>2. turn.rows = SubSeq(longer, offset + 1, Len(longer)) /\ turn.skipped = offset
    <3>1. turn.rows = Append(page.rows, k) /\ turn.skipped = offset
      BY <1>5, <1>10
    <3>2. Append(page.rows, k) = SubSeq(longer, offset + 1, Len(s) + 1)
      BY <1>4, <1>10
    <3>3. QED BY <1>1, <3>1, <3>2
  <2>3. turn.full <=> (Len(s) - offset + 1 >= limit)
    BY <1>6, <1>10, <2>1
  <2>4. CASE Len(longer) < end
    <3>1. ~(Len(s) - offset + 1 >= limit) /\ offset <= Len(longer)
      <4> HIDE DEF end
      <4>1. QED BY <1>1, <1>2, <1>10, <2>4
    <3>2. ~turn.full
      BY <2>3, <3>1
    <3>3. QED BY <2>2, <2>4, <3>1, <3>2 DEF PageOf, turn, longer
  <2>5. CASE Len(longer) = end
    <3>1. Len(s) - offset + 1 >= limit /\ end <= Len(longer)
      <4> HIDE DEF end
      <4>1. QED BY <1>1, <1>2, <1>10, <2>5
    <3>2. turn.full
      BY <2>3, <3>1
    <3>3. QED BY <2>2, <2>5, <3>1, <3>2 DEF PageOf, turn, longer
  <2>6. Len(longer) < end \/ Len(longer) = end
    <3> HIDE DEF end
    <3>1. QED BY <1>1, <1>10
  <2>7. QED BY <2>4, <2>5, <2>6
<1>11. QED BY <1>7, <1>8, <1>9, <1>10 DEF PageOf

LEMMA EmitToAll ==
  ASSUME NEW k \in KeysOfRows, NEW all \in Turns, all.skipped = 0, ~all.full
  PROVE  /\ EmitRow(0, NoLimit, k, all).rows = Append(all.rows, k)
         /\ EmitRow(0, NoLimit, k, all).skipped = 0
         /\ ~EmitRow(0, NoLimit, k, all).full
BY EmitFields DEF NoLimit

\* What the loop has after n keys, with an offset and a limit and without.
LEMMA ScanToPage ==
  ASSUME NEW t, NEW offset \in Nat, NEW limit \in Nat
  PROVE  \A n \in 0 .. Len(Order) :
           LET all == Scan(t, 0, NoLimit)[n]
           IN  /\ ToSet(all.rows) = {Order[i] : i \in {j \in 1 .. n : Hit(t, Order[j])}}
               /\ PageOf(Scan(t, offset, {limit})[n], all.rows, offset, limit)
<1> DEFINE N == Len(Order)
           whole == Scan(t, 0, NoLimit)
           part == Scan(t, offset, {limit})
           Met(n) == {Order[i] : i \in {j \in 1 .. n : Hit(t, Order[j])}}
           Good(n) == /\ whole[n].skipped = 0 /\ ~whole[n].full
                      /\ ToSet(whole[n].rows) = Met(n)
                      /\ PageOf(part[n], whole[n].rows, offset, limit)
           S == {n \in Nat : n <= N => Good(n)}
<1>1. N \in Nat /\ \A n \in 1 .. N : Order[n] \in KeysOfRows
  BY RdbAssumption
<1>2. /\ whole[0] = Start
      /\ \A n \in 1 .. N : whole[n] =
           IF Hit(t, Order[n]) THEN EmitRow(0, NoLimit, Order[n], whole[n - 1]) ELSE whole[n - 1]
      /\ \A n \in 0 .. N : whole[n] \in Turns
  BY ScanTurns
<1>3. /\ part[0] = Start
      /\ \A n \in 1 .. N : part[n] =
           IF Hit(t, Order[n]) THEN EmitRow(offset, {limit}, Order[n], part[n - 1]) ELSE part[n - 1]
      /\ \A n \in 0 .. N : part[n] \in Turns
  BY ScanTurns
<1> HIDE DEF whole, part, N
<1>4. 0 \in S
  <2>1. whole[0].rows = <<>> /\ whole[0].skipped = 0 /\ ~whole[0].full
    BY <1>2 DEF Start
  <2>2. ToSet(<<>>) = {} /\ Met(0) = {}
    BY DEF ToSet
  <2>3. part[0].rows = <<>> /\ part[0].skipped = 0 /\ ~part[0].full
    BY <1>3 DEF Start
  <2>4. SubSeq(<<>>, offset + 1, 0) = <<>> /\ Len(<<>>) = 0 /\ offset + Most(limit) >= 1
    BY SubSeqEmpty DEF Most
  <2>5. PageOf(part[0], <<>>, offset, limit)
    <3>1. CASE offset = 0
      <4>1. offset <= Len(<<>>) /\ Len(<<>>) < offset + Most(limit)
        BY <2>4, <3>1 DEF Most
      <4>2. part[0].rows = SubSeq(<<>>, offset + 1, Len(<<>>)) /\ part[0].skipped = offset
        BY <2>3, <2>4, <3>1
      <4>3. QED BY <2>3, <4>1, <4>2 DEF PageOf
    <3>2. CASE 0 < offset
      BY <2>3, <2>4, <3>2 DEF PageOf
    <3>3. QED BY <3>1, <3>2
  <2>6. QED BY <2>1, <2>2, <2>5
<1>5. ASSUME NEW n \in Nat, n \in S PROVE n + 1 \in S
  <2>1. SUFFICES ASSUME n + 1 <= N PROVE Good(n + 1)
    OBVIOUS
  <2>2. n \in 0 .. N /\ n + 1 \in 1 .. N /\ n + 1 - 1 = n /\ Good(n)
    BY <1>1, <1>5, <2>1
  <2> DEFINE k == Order[n + 1]
  <2>3. k \in KeysOfRows /\ whole[n] \in Turns /\ part[n] \in Turns /\ whole[n].rows \in Seq(KeysOfRows)
    BY <1>1, <1>2, <1>3, <2>2 DEF Turns
  <2>4. CASE ~Hit(t, k)
    <3>1. whole[n + 1] = whole[n] /\ part[n + 1] = part[n]
      BY <1>2, <1>3, <2>2, <2>4
    <3>2. Met(n + 1) = Met(n)
      BY <2>2, <2>4
    <3>3. QED BY <2>2, <3>1, <3>2
  <2>5. CASE Hit(t, k)
    <3>1. whole[n + 1] = EmitRow(0, NoLimit, k, whole[n]) /\ part[n + 1] = EmitRow(offset, {limit}, k, part[n])
      <4> DEFINE m == n + 1
      <4>1. m \in 1 .. N /\ m - 1 = n /\ Order[m] = k /\ Hit(t, Order[m])
        BY <2>2, <2>5
      <4> HIDE DEF m, k
      <4>2. whole[m] = EmitRow(0, NoLimit, k, whole[n]) /\ part[m] = EmitRow(offset, {limit}, k, part[n])
        BY <1>2, <1>3, <4>1
      <4>3. QED BY <4>2 DEF m
    <3>2. whole[n].skipped = 0 /\ ~whole[n].full /\ PageOf(part[n], whole[n].rows, offset, limit)
      BY <2>2
    <3> HIDE DEF k
    <3>3. whole[n + 1].rows = Append(whole[n].rows, k) /\ whole[n + 1].skipped = 0 /\ ~whole[n + 1].full
      BY <2>3, <3>1, <3>2, EmitToAll
    <3>4. PageOf(part[n + 1], whole[n + 1].rows, offset, limit)
      BY <2>3, <3>1, <3>2, <3>3, EmitToPage
    <3>5. ToSet(Append(whole[n].rows, k)) = ToSet(whole[n].rows) \cup {k}
      BY <2>3, SetOfLonger
    <3>6. Met(n + 1) = Met(n) \cup {k}
      BY <2>2, <2>5 DEF k
    <3>7. QED BY <2>2, <3>3, <3>4, <3>5, <3>6
  <2>6. QED BY <2>4, <2>5
<1> HIDE DEF S, Good
<1>6. \A n \in Nat : n \in S
  BY <1>4, <1>5, NatInductiveOn
<1>7. \A n \in 0 .. N : Good(n)
  BY <1>1, <1>6 DEF S
<1>8. QED BY <1>7 DEF Good, whole, part, N

LEMMA PagesOfRows ==
  ASSUME IInv, NEW t \in Tables, NEW offset \in Nat, NEW limit \in Nat
  PROVE  LET all  == Query(t, 0, NoLimit)
             most == IF limit = 0 THEN 1 ELSE limit
         IN  /\ ToSet(all) = {k \in KeysOfRows : mem[k] # NoRecord /\ mem[k].of = t}
             /\ Query(t, offset, {limit}) =
                  SubSeq(all, offset + 1, IF offset + most < Len(all) THEN offset + most ELSE Len(all))
<1> DEFINE N == Len(Order)
           all == Query(t, 0, NoLimit)
           page == Scan(t, offset, {limit})[N]
           end == offset + Most(limit)
<1>1. /\ N \in Nat /\ N \in 0 .. N
      /\ KeysOfRows = {Order[i] : i \in 1 .. N}
  <2>1. N \in Nat /\ DOMAIN Order = 1 .. N
    BY RdbAssumption
  <2>2. KeysOfRows = {Order[i] : i \in DOMAIN Order}
    BY RdbAssumption, Zenon DEF ToSet
  <2>3. QED BY <2>1, <2>2
<1>2. /\ ToSet(all) = {Order[i] : i \in {j \in 1 .. N : Hit(t, Order[j])}}
      /\ PageOf(page, all, offset, limit)
  <2> HIDE DEF N
  <2>1. QED BY <1>1, ScanToPage DEF Query, N
<1>3. \A k \in KeysOfRows : Hit(t, k) <=> mem[k] # NoRecord /\ mem[k].of = t
  BY ScanOfRows DEF ScanFindsItsTable, Hit
<1>4. ToSet(all) = {k \in KeysOfRows : mem[k] # NoRecord /\ mem[k].of = t}
  <2> HIDE DEF all, N
  <2>1. QED BY <1>1, <1>2, <1>3
<1>5. Len(all) \in Nat /\ end \in Nat
  <2>1. Scan(t, 0, NoLimit)[N] \in Turns
    BY <1>1, ScanTurns
  <2>2. all \in Seq(KeysOfRows)
    BY <2>1 DEF Query, Turns
  <2> HIDE DEF all
  <2>3. QED BY <2>2 DEF Most
<1> HIDE DEF all, page, N
<1>6. page.rows = SubSeq(all, offset + 1, IF end < Len(all) THEN end ELSE Len(all))
  <2>1. CASE Len(all) < offset /\ page.rows = <<>>
    <3>1. end >= offset
      BY DEF Most
    <3> HIDE DEF end
    <3>2. ~(end < Len(all))
      BY <1>5, <2>1, <3>1
    <3>3. SubSeq(all, offset + 1, Len(all)) = <<>>
      BY <1>5, <2>1, SubSeqEmpty
    <3>4. QED BY <2>1, <3>2, <3>3
  <2>2. CASE Len(all) < end /\ page.rows = SubSeq(all, offset + 1, Len(all))
    <3> HIDE DEF end
    <3>1. ~(end < Len(all))
      BY <1>5, <2>2
    <3>2. QED BY <2>2, <3>1
  <2>3. CASE end <= Len(all) /\ page.rows = SubSeq(all, offset + 1, end)
    <3> HIDE DEF end
    <3>1. (IF end < Len(all) THEN end ELSE Len(all)) = end
      BY <1>5, <2>3
    <3>2. QED BY <2>3, <3>1
  <2>4. QED BY <1>2, <2>1, <2>2, <2>3 DEF PageOf
<1>7. QED BY <1>4, <1>6 DEF all, page, N, Query, Most

\* offset and limit cut a page out of the whole answer, which has the rows of
\* the table and no others: pages neither overlap nor leave rows out.  A limit
\* of 0 is one of 1.  (PagesOfRows says it for all offsets and limits.)
THEOREM PagesArePieces == RdbSpec => []PagesAreSlices
<1>1. IInv => PagesAreSlices
  <2>1. 0 .. 3 \subseteq Nat
    OBVIOUS
  <2>2. QED BY <2>1, PagesOfRows DEF PagesAreSlices
<1>2. QED BY Invariance, <1>1, PTL
=============================================================================
