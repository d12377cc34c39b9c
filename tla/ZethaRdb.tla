------------------------------- MODULE ZethaRdb -------------------------------
(***************************************************************************)
(* One ZethaRDB (ZethaRDB.hpp) on its ZethaStorage, of which KvStore says  *)
(* all that is known here.  A call that writes is two steps: it begins,    *)
(* and memory changes (Update); the store commits it or refuses it.  The   *)
(* process may end in between.                                             *)
(*                                                                         *)
(* Encoded rows and schemas are what decoding them gives back; two things  *)
(* are lost on the way: the defaults of a schema, and everything about a   *)
(* name in a key but its characters.                                       *)
(***************************************************************************)
EXTENDS Naturals, Sequences, SequencesExt

CONSTANTS
  Tables,           \* names of tables, as sequences of characters
  Data,             \* data of cells, likewise
  Kinds,            \* kinds of cells but null
  Columns,
  GivenSchemas,     \* what callers pass to create and init_schema
  Inputs, Patches,  \* rows they pass to insert and to update
  Order,            \* the keys of rows, in the order std::map has them in
  NoRecord,
  MaxFails          \* bound: failed writes in a behaviour

NullValue == [kind |-> "null", data |-> <<>>]
Cells     == {NullValue} \cup [kind : Kinds, data : Data]

\* The key of a row, but for the "tbl:" all of them begin with; and a key
\* that does not begin so.
RowKey(t, pk) == t \o <<":">> \o pk
KeyOfSchema   == <<>>
KeysOfRows    == {RowKey(t, pk) : t \in Tables, pk \in Data}

\* Mutant: the prefix of a table is its name.
InTableNamed(t, k) == IsPrefix(t, k)

\* table_prefix.
InTable(t, k) == IsPrefix(t \o <<":">>, k)

\* A table without a primary key has one that is no column.
TableSchemas == [columns : SUBSET Columns, primary_key : Columns \cup {"none"},
                 nullable : SUBSET Columns, defaults : UNION {[C -> Cells] : C \in SUBSET Columns}]

\* Order lists the keys there may be; update makes a text of the key.
ASSUME RdbAssumption ==
  /\ \A t \in Tables : t \in Seq(STRING) /\ \A i \in 1 .. Len(t) : t[i] # ":"
  /\ \A d \in Data : d \in Seq(STRING)
  /\ \A s \in GivenSchemas : DOMAIN s \subseteq Tables /\ \A t \in DOMAIN s : s[t] \in TableSchemas
  /\ \A r \in Inputs \cup Patches : \A c \in DOMAIN r : r[c] \in Cells
  /\ Order \in Seq(KeysOfRows) /\ ToSet(Order) = KeysOfRows
  /\ "text" \in Kinds
  /\ MaxFails \in Nat

VARIABLES
  mode, mem, durable, call, reply,  \* the ZethaStorage, as in KvStore
  made,                             \* there is a file
  schema_, read_only,               \* schema_ and read_only_
  creating,                         \* the call in progress is create
  fails,                            \* failed writes so far
  accepted,                         \* history: the schema last persisted
  ahead                             \* history: schema_ is not what is persisted

store     == <<mode, mem, durable, call, reply>>
rdbHandle == <<made, schema_, read_only, creating>>
rdbVars   == <<store, rdbHandle, fails, accepted, ahead>>

Store == INSTANCE KvStore WITH
           Keys <- KeysOfRows \cup {KeyOfSchema}, Values <- {}, NoValue <- NoRecord

NoSchema == <<>>

-----------------------------------------------------------------------------
(* Rows and schemas.                                                       *)

\* normalize_row_for_insert: what a row becomes, and when it is refused.
\* An explicit null is good enough for a column that is not nullable.
Completed(def, row) == [c \in def.columns |->
  IF c \in DOMAIN row THEN row[c]
  ELSE IF c \in DOMAIN def.defaults THEN def.defaults[c] ELSE NullValue]

Accepts(def, row) ==
  /\ def.columns \ DOMAIN row \subseteq DOMAIN def.defaults \cup def.nullable
  /\ DOMAIN row \subseteq def.columns
  /\ def.primary_key \in def.columns
  /\ Completed(def, row)[def.primary_key].data # <<>>

\* encode_schema forgets the defaults.
Bare(def) == [def EXCEPT !.defaults = <<>>]

\* Mutant: all columns come back nullable.
WrittenLoose(s) == [t \in DOMAIN s |-> [Bare(s[t]) EXCEPT !.nullable = s[t].columns]]

Encoded(s) == [t \in DOMAIN s |-> Bare(s[t])]

\* What is read where no schema was stored is not taken for one.
ASSUME NoRecordAssumption == \A s \in GivenSchemas : Encoded(s) # NoRecord

\* A row as it is stored; of, pk and under are history: the table and the key
\* the caller named, and the table's schema.
Payload(t, pk, row) ==
  [cells |-> Completed(schema_[t], row), of |-> t, pk |-> pk, under |-> schema_[t]]

-----------------------------------------------------------------------------
(* Calls.                                                                  *)

Counted == IF reply' = "error" THEN fails < MaxFails /\ fails' = fails + 1
                               ELSE UNCHANGED fails

\* storage_insert, storage_erase.
Write(k, v) == Store!Update([key |-> k, val |-> v]) /\ Counted

RdbInit == /\ Store!Init
           /\ made = FALSE
           /\ schema_ = NoSchema
           /\ read_only = FALSE
           /\ creating = FALSE
           /\ fails = 0
           /\ accepted = NoSchema
           /\ ahead = FALSE

\* create makes a new file and stores the schema in it; ...
RdbCreate(s) == /\ mode = "down"
                /\ mode' = "writing"
                /\ durable' = Store!Empty
                /\ call' = [key |-> KeyOfSchema, val |-> Encoded(s)]
                /\ mem' = Store!Set(Store!Empty, call')
                /\ reply' = "none"
                /\ made' = TRUE
                /\ schema_' = s
                /\ read_only' = FALSE
                /\ creating' = TRUE
                /\ accepted' = NoSchema
                /\ ahead' = TRUE
                /\ UNCHANGED fails

\* open reads it back, and does not mind if there is none.
RdbOpen(ro) == /\ made
               /\ Store!Start
               /\ schema_' = IF durable[KeyOfSchema] = NoRecord THEN NoSchema ELSE durable[KeyOfSchema]
               /\ read_only' = ro
               /\ UNCHANGED <<made, creating, fails, accepted, ahead>>

\* Mutant: the schema is not stored.
InitSchemaOnly(s) == /\ mode = "ready" /\ ~read_only
                     /\ schema_' = s
                     /\ UNCHANGED <<store, made, read_only, creating, fails, accepted, ahead>>

\* init_schema takes the new schema before it is stored.
InitSchema(s) == /\ ~read_only
                 /\ schema_' = s
                 /\ Write(KeyOfSchema, Encoded(s))
                 /\ ahead' = TRUE
                 /\ UNCHANGED <<made, read_only, creating, accepted>>

\* insert overwrites a row of the same key.
Insert(t, row) ==
  /\ t \in DOMAIN schema_
  /\ Accepts(schema_[t], row)
  /\ LET pk == Completed(schema_[t], row)[schema_[t].primary_key].data
     IN  Write(RowKey(t, pk), Payload(t, pk, row))
  /\ UNCHANGED <<rdbHandle, accepted, ahead>>

\* Mutant: the primary key of the patch is kept.
KeyedByPatch(t, pk, patch) == [c \in DOMAIN patch \cup {schema_[t].primary_key} |->
  IF c \in DOMAIN patch THEN patch[c] ELSE [kind |-> "text", data |-> pk]]

\* update makes a new row of the patch and the key alone.
Keyed(t, pk, patch) == [c \in DOMAIN patch \cup {schema_[t].primary_key} |->
  IF c # schema_[t].primary_key THEN patch[c] ELSE [kind |-> "text", data |-> pk]]

RdbUpdate(t, pk, patch) ==
  /\ t \in DOMAIN schema_
  /\ mem[RowKey(t, pk)] # NoRecord
  /\ Accepts(schema_[t], Keyed(t, pk, patch))
  /\ Write(RowKey(t, pk), Payload(t, pk, Keyed(t, pk, patch)))
  /\ UNCHANGED <<rdbHandle, accepted, ahead>>

\* erase writes whether there is a row or not.
RdbErase(t, pk) == /\ t \in DOMAIN schema_
                   /\ Write(RowKey(t, pk), NoRecord)
                   /\ UNCHANGED <<rdbHandle, accepted, ahead>>

\* The end of a call that writes.
Commit == /\ Store!Commit
          /\ creating' = FALSE
          /\ IF call.key = KeyOfSchema THEN accepted' = schema_ /\ ahead' = FALSE
                                     ELSE UNCHANGED <<accepted, ahead>>
          /\ UNCHANGED <<made, schema_, read_only, fails>>

Abort == /\ ~creating
         /\ Store!Abort
         /\ Counted
         /\ UNCHANGED <<rdbHandle, accepted, ahead>>

\* The handle is gone: closed, its process dead, or its create refused.
Stop == /\ mode # "down"
        /\ Store!Stop
        /\ schema_' = NoSchema
        /\ creating' = FALSE
        /\ ahead' = FALSE
        /\ UNCHANGED <<made, read_only, fails, accepted>>

RemoveFile == /\ made /\ mode = "down"
              /\ durable' = Store!Empty
              /\ made' = FALSE
              /\ accepted' = NoSchema
              /\ UNCHANGED <<mode, mem, call, reply, schema_, read_only, creating, fails, ahead>>

RdbNext == \/ \E s \in GivenSchemas : RdbCreate(s) \/ InitSchema(s)
           \/ \E ro \in BOOLEAN : RdbOpen(ro)
           \/ \E t \in Tables : \/ \E r \in Inputs : Insert(t, r)
                                \/ \E pk \in Data : \/ \E r \in Patches : RdbUpdate(t, pk, r)
                                                    \/ RdbErase(t, pk)
           \/ Commit \/ Abort \/ Stop \/ RemoveFile

RdbSpec == RdbInit /\ [][RdbNext]_rdbVars

-----------------------------------------------------------------------------
(* query: the rows of a table in the order of their keys.                  *)

NoLimit == {}

\* Mutant: the limit is one row short.
EmitBelow(offset, limit, k, q) ==
  IF \E n \in limit : Len(q.rows) >= n - 1 THEN q
  ELSE IF q.skipped < offset THEN [q EXCEPT !.skipped = @ + 1]
  ELSE [q EXCEPT !.rows = Append(@, k)]

\* One turn of the loop; limit is {} or {n}, looked at after a row is out.
EmitRow(offset, limit, k, q) ==
  IF q.full THEN q
  ELSE IF q.skipped < offset THEN [q EXCEPT !.skipped = @ + 1]
  ELSE [q EXCEPT !.rows = Append(@, k),
                 !.full = \E n \in limit : Len(q.rows) + 1 >= n]

\* The loop, and what it has after n keys.
Scan(t, offset, limit) ==
  LET scan[n \in 0 .. Len(Order)] ==
        IF n = 0 THEN [rows |-> <<>>, skipped |-> 0, full |-> FALSE]
        ELSE IF InTable(t, Order[n]) /\ mem[Order[n]] # NoRecord
             THEN EmitRow(offset, limit, Order[n], scan[n - 1]) ELSE scan[n - 1]
  IN  scan

Query(t, offset, limit) == Scan(t, offset, limit)[Len(Order)].rows

-----------------------------------------------------------------------------
(* Properties.                                                             *)

Rows == [cells : UNION {[C -> Cells] : C \in SUBSET Columns},
         of : Tables, pk : Data, under : TableSchemas]

\* Every variable has its type.
RdbTypeOK == /\ mode \in {"down", "ready", "writing"}
             /\ DOMAIN mem = KeysOfRows \cup {KeyOfSchema}
             /\ DOMAIN durable = KeysOfRows \cup {KeyOfSchema}
             /\ \A k \in KeysOfRows : {mem[k], durable[k]} \subseteq Rows \cup {NoRecord}
             /\ mode = "writing" => call.key \in KeysOfRows \cup {KeyOfSchema}
             /\ reply \in {"none", "ok", "error"}
             /\ made \in BOOLEAN /\ read_only \in BOOLEAN
             /\ creating \in BOOLEAN /\ ahead \in BOOLEAN
             /\ DOMAIN schema_ \subseteq Tables
             /\ \A t \in DOMAIN schema_ : schema_[t] \in TableSchemas
             /\ fails \in 0 .. MaxFails

\* A stored row lies under the key of the table and primary key it was given
\* for, has a cell for each column its table had then and no other, and says
\* the same primary key as the key it lies under.
InPlace(k, v) == v # NoRecord =>
  /\ k = RowKey(v.of, v.pk)
  /\ DOMAIN v.cells = v.under.columns
  /\ v.cells[v.under.primary_key].data = v.pk

\* However rows got there, by insert with a default or by update, with whatever
\* schema in between, before or after a crash, each is in its place.
RowsInPlace == RdbTypeOK /\ \A k \in KeysOfRows : InPlace(k, mem[k]) /\ InPlace(k, durable[k])

\* query scans by the prefix of a table: it meets all rows written to that
\* table, and none written to another one whose name begins alike.
ScanFindsItsTable == \A t \in Tables, k \in KeysOfRows :
  mem[k] # NoRecord => (InTable(t, k) <=> mem[k].of = t)

\* offset and limit cut a page out of the whole answer, but a limit of 0 is one of 1.
PagesAreSlices == mode = "ready" =>
  \A t \in Tables, offset, limit \in 0 .. 3 :
    LET all  == Query(t, 0, NoLimit)
        most == IF limit = 0 THEN 1 ELSE limit
    IN  /\ ToSet(all) = {k \in KeysOfRows : mem[k] # NoRecord /\ mem[k].of = t}
        /\ Query(t, offset, {limit}) =
             SubSeq(all, offset + 1, IF offset + most < Len(all) THEN offset + most ELSE Len(all))

\* A row that insert or update reports stored is one of a table that the schema
\* in the file has as the caller knew it, but for defaults; unless an
\* init_schema of this handle has failed.
StoredRowFitsFile ==
  [][Commit /\ call.key # KeyOfSchema /\ call.val # NoRecord /\ ~ahead =>
       LET inFile == durable'[KeyOfSchema]
       IN  inFile # NoRecord /\ call.val.of \in DOMAIN inFile
           /\ inFile[call.val.of] = Bare(call.val.under)]_rdbVars

\* open brings back the schema that create or init_schema last reported stored,
\* with every column, key and constraint of it, but no default.
SchemaSurvives ==
  [][\A ro \in BOOLEAN : RdbOpen(ro) =>
       /\ DOMAIN schema_' = DOMAIN accepted
       /\ \A t \in DOMAIN accepted :
            /\ schema_'[t].columns = accepted[t].columns
            /\ schema_'[t].primary_key = accepted[t].primary_key
            /\ schema_'[t].nullable = accepted[t].nullable
            /\ schema_'[t].defaults = <<>>]_rdbVars
=============================================================================
