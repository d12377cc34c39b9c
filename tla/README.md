# ZethaDB in TLA+

ZethaDB is a set of header-only C++20 libraries with small command-line
programs on top: a journaled key-value file (ZethaSTORAGE), a relational layer on
it (ZethaRDB), two in-memory stores (ZethaMEM), a full-text index (ZethaINDEX),
a query parser (ZethaQUERY), a sealed vault (ZethaCRYPT) and a CLI kit
(klyspec). This directory holds TLA+ models of it, the TLC configurations that
check them, and theorems about them that the TLA+ proof system checks.

Everything starts from the journal: a database of this kind is worth what an
`open` brings back after the last process died. That part is modelled first,
step by step, with everything that can fail in between.

## 1. Inventory

Line numbers are those of the files under `src/`.

| Part | State | Operations | What makes it correct (what of it holds: sections 2 and 4) |
|---|---|---|---|
| **ZethaSTORAGE, journal** (`ZethaSTORAGE.hpp` 420-919) | the file (records between `journal_begin` and `journal_end`, the header), `fh_`, `kv_index_`, `next_lsn_`, `next_txn_id_` | `create`, `open`, `insert`, `erase`, `get`, scans, `rebuild_from_journal`, `scan_snapshot_from_journal`, `defragment`, `close` | `open` restores exactly what was committed; "ok" means durable; replay never rejects a journal the code wrote; nothing below the committed end changes |
| **ZethaSTORAGE, file layout** (453-565) | the bytes of a new file: shebang, header, pages, Python stub | `create` | a file whose creation was cut short is not taken for a database |
| **ZethaSTORAGE, PageCache** (255-304) | `pages_`, `lru_` | `get`, `put`, `mark_dirty`, `dirty_pages` | bounded; evicts the least recently used; no dirty page is lost |
| **ZethaSTORAGE, MMapWindow** (318-386) | `base_`, `length_`, `fd_` | `map_readwrite`, `unmap` | no descriptor or mapping leaks, `size()` tells the truth |
| **ZethaRDB** (`ZethaRDB.hpp`) | a ZethaStorage, `schema_`, `read_only_` | `create`, `open`, `init_schema`, `insert`, `get`, `erase`, `update`, `query` | rows conform to the schema, the schema on disk is the schema in memory, read-only means read-only, row keys are unambiguous |
| **ZethaRDB-CLI** | an `App` with one ZethaRDB, script files, profiles | commands; `maintain` opens a second handle on the file | a command never works on a handle another one has made stale |
| **ZethaMEM, tables** (`ZethaMEM.hpp` 200-420) | schemas and rows in memory | create/insert/update/erase/select | a statement that fails changes nothing |
| **ZethaMEM, memv2** (700-1111) | `data_` and an mmap'ed file | `open_mmap`, `put`, `get`, `erase`, `query`, `dump`, `load` | what is flushed is what is loaded; a crash loses no more than the last change |
| **ZethaMEM-CLI** | an `App` | commands, scripts | as for the RDB CLI |
| **ZethaINDEX** (`ZethaINDEX.hpp`) | inverted index, documents, metadata | `build_index`, `save_index`, `load_index`, `query`, HTTP server | what is saved is what is loaded; a query finds what was indexed |
| **ZethaQUERY** (`ZethaQUERY.hpp`) | parser position | tokenizer and recursive-descent parser | precedence and rejection of malformed queries |
| **ZethaCRYPT** (`ZethaCRYPT.hpp`) and its CLI | entries of the vault, key material | `put`, `get`, `erase`, seal and open of files | one entry per key; an opened vault is the sealed one |
| **klyspec** (`klyspec/*.hpp`, `CliKlyspecBridge.cpp`) | registry of commands, plugins, subcommands, profiles | `register_command`, `parse`, `dispatch`, `parse_klytmk`, profile loading | an alias leads to one command; what is required was given; nothing of a command line is lost |
| **SerdeTk** (`klyspec/SerdeTk`) | values, documents under construction | load and dump of JSON, YAML, XML, S-expressions and carriers of them; validator; STKQ paths; field API; builders; descriptors | what a format writes it reads back; a verdict does not depend on the format |
| **DSLUtils** (`DSLUtils.hpp`, four identical copies) | none that lasts | parser combinators, `pattern<>`, tree rewriting, helpers | a parser says truly where it stops; a rewriting ends and keeps the meaning |
| **IPCtk** (`klyspec/IPCtk`) | none that lasts | parsers of programs and backends, validation, compilation | what compiles is emitted whole and fits the backend |
| **zbase64** | none | `encode`, `decode` | a round trip |
| **cpp-linenoise** | line, cursor, history, modes | keys, history, refresh | a key does to the line what it is for |
| **tweetnacl** | none; vendored cryptography | `crypto_secretbox`, `crypto_secretbox_open` | a box opens with the key and nonce it was made with, and with no others |
| **command line of the programs** (`ZethaRDB-CLI.cpp`, `ZethaMEM-CLI.cpp`, `ZethaINDEX-CLI.cpp`) | scripts, sessions, configurations | splitting of lines, script and session loops, filters, builds | a script runs what is written, as it is written |

How they interact: ZethaRDB owns a ZethaStorage and calls it synchronously, one
call at a time; a ZethaRDB row is a key of it. The CLIs own one database object
each, run one command at a time, and read their commands through linenoise or from
a script. zetha-mem asks its store through ZethaQUERY's parser, ZethaRDB through
ZethaQUERY's builders. Profiles of klyspec and configurations of zetha-index are
documents of SerdeTk. There are no threads and no locks anywhere;
what runs concurrently is *processes*, and handles in one process, on one file.
No call waits for another. So the hard behaviours are: a process that dies, or a
write, flush, truncation or read that fails, between any two steps of a call;
state in memory that a failed call left ahead of, or behind, the file; two
handles with their own idea of where the journal ends; long sequences of legal
calls after any of these. PROJECT.json lists the hazards line by line.

## 2. Modules

| Module | What it is |
|---|---|
| `KvStore` | abstract specification: what one handle of a ZethaStorage promises its caller |
| `ZethaJournal` | journal records, and what a reader of them knows |
| `ZethaStorage`, `MCZethaStorage` | one handle on one file, detailed |
| `ZethaStorageInv` | the inductive invariants; the refinement mapping from `ZethaStorage` to `KvStore` |
| `ZethaStorageProofs` | theorems about it: types, safety, refinement |
| `Recursion` | lemmas: induction, least and greatest numbers, recursive functions, sequences put together |
| `ZethaRdbCli`, `MCZethaRdbCli`, `ZethaRdbCliProofs` | several zetha-rdb programs, each with a handle of its own, on one file; theorems |
| `ZethaRdb`, `MCZethaRdb`, `ZethaRdbProofs` | one ZethaRDB on the `KvStore` that its file is; theorems |
| `ZethaRdbQuery` | how queries are built, and which rows ZethaRDB finds by them |
| `ZethaRdbText` | schemas, as text and made in C++ |
| `ZethaMemDb`, `ZethaMemDbProofs` | several zetha-mem programs on one mapped file, and the dump; theorems |
| `ZethaTables`, `ZethaTablesProofs` | statements on the tables of ZethaMEM; theorems |
| `ZethaMemText` | their texts, and what it means that they are read back |
| `MCZethaMem` | what TLC tries on `ZethaMemDb`, `ZethaTables` and `ZethaMemText` |
| `ZethaCreate` | how a database file comes to be |
| `ZethaPageCache`, `ZethaWindow` | the page cache and the mapped window |
| `ZethaIndex`, `ZethaIndexProofs` | build, save, load and ask an index; theorems |
| `ZethaIndexCli` | filters, configurations, arguments and walks of zetha-index; answers of its server |
| `ZethaLibraryProofs` | theorems about `ZethaCreate`, `ZethaPageCache`, `ZethaWindow`, `ZethaCrypt`, `Klyspec` and `Linenoise` |
| `ZethaCrypt`, `CryptBlob` | the vault and its records; keys and sealed data as hex, and the boxes of tweetnacl |
| `Klyspec`, `KlyspecText` | registry, command lines, plugins; templates, profiles, what is sent |
| `ZethaQuery` | paths as text, and what zetha-mem finds with them |
| `ZethaCodec` | Base64, escaped fields, rows, snapshots, IPC messages, UTF-8 |
| `CliScript` | scripts, lines, arguments and sessions of zetha-rdb and zetha-mem |
| `Linenoise` | the line editor behind their prompts |
| `SerdeValue`, `SerdeText`, `SerdeSchema`, `MCSerdeTk` | documents: values, JSON and its carriers; YAML, XML, S-expressions; validator, paths, builders, descriptors |
| `DslUtils` | parser combinators; `pattern<>` and rewriting of trees |
| `IpcTk` | programs and backends of IPCtk |
| `MCToolkits` | what TLC tries on the last three |
| `MCZethaPrograms`, `MCZethaLibrary` | what TLC tries on the modules from `ZethaCreate` on, `ZethaRdbQuery` and `ZethaRdbText`, and with `MCZethaRdb` and `MCZethaRdbCli` on `ZethaRdb` and `ZethaRdbCli` |

What composes what:

- `ZethaStorage` and `ZethaRdbCli` share `ZethaJournal`: the first looks inside a
  call of one handle, the second takes a call as one step and looks at what several
  handles do to each other.
- `ZethaStorage` implements `KvStore` (`ZethaStorageInv`), and `ZethaRdb` is
  `KvStore` with its keys and rows (`Store == INSTANCE KvStore WITH ...`): its every
  write is a step of the store.
- `ZethaQuery` finds records by what `CliScript` makes of the text of a `put`.
  `KlyspecText` reads profiles with the loaders of `SerdeText`; `ZethaIndexCli`
  reads configurations as values of `SerdeValue`, and answers a search request with
  what `ZethaIndex` finds (`HitsFor`).
- `MCZethaLibrary` and `MCZethaMem` run parts side by side in one state space: the
  variable `part` says which of them a behaviour is about, no step changes it, and
  the variables of the others keep their first values.

The results of parsers and loaders are sets: `{}` where the code throws or returns
an error, `{v}` where it returns `v`.

### ZethaStorage

State. `file`, `len`, `hdr` are the disk: the journal's cells, where the file
ends, and the `journal_end` of the header. A journal record is one cell whatever
its size: no code looks at a record's size but to step over it. Offsets count
from `journal_begin`. `fh`, `kv`, `lsn`, `txn` are `fh_.journal_end`,
`kv_index_`, `next_lsn_`, `next_txn_id_`. `cmd`, `left`, `off`, `buf` are the
locals of a writing call, `buf` being what the stream has buffered; `scan` those
of `replay_journal_`. `pc` and `job` say where in which call the handle is.
`durable`, `journaled` and `trail` are history that no action reads in a guard:
the map that goes with the header on disk, the one that goes with
`fh_.journal_end`, and at each offset what a reader of the journal as last
written would know there.

Steps. A call is one action that begins it (`Insert`, `Erase`, `Defragment`,
`Open`, `Rebuild`, `Snapshot`) and one per record written or read and per file
operation after that, so that a crash can come between any two. Writes go the way
`std::fstream` sends them: `seekp` flushes the previous record (`FlushBuf`), a
record pushed stays in the buffer, the header is written last and reaches the
file only when the stream is destroyed, after the result of the call is decided
(`FlushHeader`, `FlushHeaderLost`).

Failures are kinds that a configuration allows or not (`Faults`), at most
`MaxFails` of them in a behaviour: `crash`, `write` (a record, or opening the
file for it), `end` (the flush of the TxnEnd, at the `seekp` to the header),
`header` (the flush in the destructor), `read`, `tear` (the closed file loses
its tail) and `maintain` (any of them, or a failed truncation, while
`defragment` is at work). They are kept apart because the code is right about
some of them and wrong about others, and the properties say which.

Abstractions. Keys and values are model values, and so is the order of the keys
that `defragment` writes. A record torn in the middle is whole, absent, or a
`Zero` cell (leading bytes that happen to be zero); reading on from the middle of
a record is not modelled, nor is the bounds check of line 800, which only
misaligned bytes can trip. The empty-key check changes no state and is left out.
A failure of the TxnBegin write is that of the first flush, since nothing
reaches the file before it. `get` and the scans read `kv`.

| Run | Bounds | Checks |
|---|---|---|
| `append` | 9 cells, 12 lsns, 3 failures of `crash`, `write` | `SafeInv` (with `TypeOK`, `NeverCorrupt` and `LsnRising` in it), `OpenRestoresCommitted`, `RebuildRepairs`, `CommittedUntouched`, `KeepsPromises`: every step is one of `KvStore` or changes nothing there |
| `unfinished` | 7 cells, 10 lsns, 3 failures of `crash`, `write`, `header`, `maintain`, `tear` | `PrefixOrCorrupt` |
| `calls` | one key, 6 cells, 9 lsns, 2 failures of every kind | `CallsReturn`; fires every action |

Two keys and one value (a key bound or absent) unless said. Nine cells are three
transactions on top of one another: enough for an update that fails, one that
overwrites what it left, and one behind it; or for an update and a
defragmentation of both keys. Twelve log sequence numbers let a transaction fail
and be written again, and a journal be defragmented and extended. Two or three
failures let each kind meet each other. The theorems need no bound, and some
allow more kinds of failures than `append` has.

Fairness. `FairSpec` asks for weak fairness of `Step`, the steps of a call that
has been made: it is ordinary sequential code that waits for nobody. Nothing
makes a caller call, and no failure has to happen or to stop happening. No other
module states fairness: in them a call is one step, or a few that nothing needs to
finish.

`PrefixOrCorrupt` is not claimed of `end`, nor in general of `maintain`: a record of an
earlier, unfinished transaction can then lie where a TxnEnd was lost, and its number may
be the one expected there. Three failures are too few for that; section 4 has a trace
with seven. Without these two, and with failed reads, it is a theorem.

### ZethaRdbCli

State. `exists`, `file`, `len`, `hdr` are the file. Each App has a ZethaRDB that
is `up` or not, with the `fh`, `kv`, `lsn` and `txn` of its handle and its
`schema`. History: `stale` (another handle has written since this one opened),
`rewritten` (it did so below this one's `journal_end`), `misused` (a stale handle
has written the file), `acked` (what the commands that said ok have made).

Steps. One per command that changes state: `Create`, `Open`, `SchemaLoad`, `Put`,
`Erase`, `Maintain`, `Close`. `open` replays the journal from the start (`Seen`)
with the reader of `ZethaJournal`. An update is written at the handle's own
`journal_end` (`AppendAt`), with its own numbers, and moves the header there,
wherever the file's journal ends by then. `maintain` opens a second handle,
compacts through it and drops it.

Abstractions. A command is atomic and does not fail half way: that is
`ZethaStorage`. A schema is the set of its tables, a row an opaque value, and all
records have one size, so that a stale handle's writes overlay whole records; with
other sizes the file is corrupt where here it may not be. `ZethaRDB::update` is
reached by no command.

Run `library`, part `turns`: two Apps, one table, one row; 10 cells, 14 lsns. It checks
`TurnsAreSafe`, `MaintainKeepsContents` and `LastWriterWins`.

Ten cells hold three transactions, enough for two handles to overlay each other's
and for a compaction of both keys with an update behind it. The properties say
where the line runs. As long as no stale handle writes, any order of commands of
any programs is safe. One that was overtaken by appends alone takes the file back
to its own map, and what others were told is stored is gone. One overtaken by a
compaction or a create ruins the file; and because `maintain` makes its *own*
App's handle stale, one program alone can do that by `maintain` and then `put`
(`finding_maintain_stale`).

### ZethaRdb

State. `mode`, `mem`, `durable`, `call`, `reply` are the store's, as in `KvStore`:
what the handle shows, what the next open brings back, and the write in progress.
`made`, `schema_`, `read_only` are the file, `schema_` and `read_only_`; `creating`
says that the write in progress is that of `create`. History: `accepted`, the schema
last reported stored, and `ahead`, the handle has a schema that is not.

Steps. A call that writes begins (`RdbCreate`, `InitSchema`, `Insert`,
`RdbUpdate`, `RdbErase`), which changes memory at once, and is then committed or refused by the
store (`Commit`, `Abort`); the process may end in between (`Stop`). `RdbOpen` reads the
schema back. `RemoveFile` is `remove`. `Query` is no step: it is what the scan shows
of a state, with its offset and limit.

Abstractions. A row is stored as what decoding gives back (the encoding itself is in
`ZethaCodec`); of a schema the defaults are lost on the way. A row carries as
history the table and key it was given for. The prefix `tbl:` is left out of keys,
the `:` between table and primary key is not; names of tables have no `:` in them,
which the code asks of no caller. `update` with no row to change does not look at
its assignments, as in the code. What `where` selects is `ZethaRdbQuery`.

Run `library`, part `rdb`: tables `a` and `ab`, whose keys could join to the same prefix, two texts that
are data and keys, two schemas (one with a default, a nullable column, a table
without a primary key), one failed write. It checks `RowsInPlace`,
`ScanFindsItsTable`, `PagesAreSlices`, `StoredRowFitsFile`, `SchemaSurvives`. Two
tables are what it takes for a scan to meet a wrong row, limits and offsets of 0 to
3 lie on both sides of what two rows of a table can fill, one failure separates
memory from the file. The properties say what the code really keeps: after a failed
`init_schema` rows are stored of tables the file does not know, and a limit of 0 is
a limit of 1.

### ZethaMemDb

State. `area` is the mapped file: whether the magic and the size are in it, how
much of the encoded map (`body`), and of which (`map`). `dump` is the dump file:
the maps it decodes to, one or none. Per App `mode`, `mapped`, `data` are its
MemDB, `opened` is `App::opened`, `pc` where in a command it is. History:
`whole`, a flush went through and none has begun since, and `flushed`, its map;
`stale` and `ahead`, another App has flushed since this one read or flushed, or
this one is mapped and holds what it has neither read nor flushed; `dumped`.

Steps. A change (`Put`, `Erase`, `Load`) takes effect in memory and, on a mapped
database, begins a flush, or fails if it is not mapped or the map does not fit.
The flush is `Clear`, `CopyMagic`, `CopySize`, `Copy`, `CopyRest`, `Sync`; another
App can open the file, or this one die, before each. `Open`, `OpenFails`, `Create`
and `Close` put a new database in place of the App's, whether they succeed or not.
`Dump` truncates and `DumpWritten` writes, perhaps in part and, since the stream
is closed by its destructor, perhaps without saying so. `Exit` is the end of a
program, a crash if it is in a command, and the start of the next.

Abstractions. The map is encoded by what decoding it gives back: `Reread` keeps
what six digits keep of a double (`Kept`), `Decodable` fails for a record with a
bar (`Piped`). The size of an encoding is its number of records. The clearing of
the mapping is one step, and so is each of magic and size. Flushes of two programs
do not overlap, nor do dumps. The mapping has its default length. A crash is that
of a process: stores to the mapping are seen in program order by who opens the
file next; what a power failure leaves of the pages is not modelled.

Run `mem`, part `records`: two Apps, two paths, a plain and a piped value, room for one
record, one failure of any kind. It checks `MemInv` (the file and the dump at
every step of writing them), `MappedAgrees`, `OpenAllOrNothing`, `OkIsOnFile` and
`LoadsWhatWasDumped`.

Two paths and room for one record make both a map that fits and one that does
not; two records are enough for a dump to be cut between them. One failure is
enough for what it does to a flush or a dump to be seen by the other program and
by the one that comes after; the theorems have no bound.

`OpenAllOrNothing` and `MappedAgrees` are as strong as the code allows: a flush
cut short loses every record, not only the last change, and a program that opens
the file before the size is there sees, and may then flush, an empty map.

### ZethaTables

State. `tables`: the columns, their types and the rows of each; `answer` and
`affected` are what the last statement said. Every statement is one step:
`CreateTable`, `Insert`, `Update`, `Delete`, `NoTable`. One that throws half way
leaves what it has done (`Stopped`). A number is counted in halves, so that a double
has more room than an int. The texts of statements are read by the operators of
`ZethaMemText`, over tokens; how the characters of a literal make a value is left
out.

Run `mem`, part `tables`: one table with an int and a double column, three rows (one before and
one behind the row at which a statement fails), literals that fit, lose a half, or
have a wrong type. `ComparesNumbers` says where comparison in the column's type is
comparison of numbers: not for a literal with a fraction on an int column.
`AffectsWhatItSelects`: delete and update report as many rows as a select shows,
and leave the others as they were, in their order. `ThrownChangesOneRow`: a
statement that throws has changed at most one row. `ReadsBack`: every statement is
read from the tokens that it is written as, of which a `true` or `false` is a word,
so that an operator in front of it without a blank is refused as one in front of a
digit is (`RunsOn`).

### The parts of the library (run `library`)

`part` picks one. With `rdb` and `turns`, which are described above, the first seven
are state machines; all others choose one
`sample`, and the property evaluates the code's functions on it.

| Part | State and steps, or samples | Property |
|---|---|---|
| `create` | `ZethaCreate`: the file region by region, each write failing or not, the process dying, another one opening and inserting meanwhile; two records | `WholeOrNothing`: a file whose header was written again is complete; any other opens empty or not at all, whatever was reported stored in it |
| `cache` | `ZethaPageCache`: get, put, mark, dirty list; 3 pages, limits of 0 and 2 | `DirtyUntilEvicted`: a dirty page is lost only to a put into a full cache, one by each, and the cache is never too full; of which page goes nothing is said here (`finding_cache_order`) |
| `window` | `ZethaWindow`: map and unmap with every outcome of `open` and `mmap`; two descriptors, two addresses | `WindowOwnsAll`: what the kernel holds is what the window knows of, also after a failure and a second map |
| `index` | `ZethaIndex`: build, save, load; two or three documents, stemming and stopwords on and off, eleven filters; what a query and the server answer | `IndexKeepsTheWords`, `QueryFindsTheWords` |
| `vault` | `ZethaCrypt`: put, get, erase, three nonces; a record cut, or opened with another key | `VaultReadsBack` |
| `klyspec` | `Klyspec`: commands with up to four arguments of their own, which nothing compares with one another, aliases and arguments registered in any order, and after each step all command lines of up to three tokens | `NamesResolve`, `OnlyCommandsTakeOver`, `NothingIsLost` |
| `editor` | `Linenoise`: five keys, of which the line, the cursor, both refresh modes and the history know; room for 3 columns, a buffer for lines of up to 5, a history of 3 | `KeysDoWhatTheySay` |
| `query`, `schema`, `klytmk`, `descriptor`, `itkd` | texts: what is written of paths, schemas, templates, descriptors, backends; these cut, or with one token more, less or other | `TextsReadBack` |
| `asked` | paths of up to two steps, each put to stores of seven values | `TextsReadBack` |
| `native` | schemas made by calls in C++, and their texts | `TextsReadBack` |
| `plugins` | up to three subcommands and plugins in any order | `TextsReadBack` |
| `ipcl` | programs of up to two resources and two steps, for each backend | `TextsReadBack` |
| `script`, `row`, `filter`, `build` | scripts of up to two commands, rows of `put`, filter texts, builds from arguments or a configuration | `TextsReadBack` |
| `codec` | up to four bytes; fields, rows, messages, snapshots, each of them cut; sealed data; up to four code points | `CodesReadBack` |
| `document`, `built` | documents of depth three in every format, whole and cut; up to four calls of builders | `FormatsReadBack` |
| `verdict` | schemas and documents, the documents from every format | `VerdictsAgree` |
| `parser`, `pattern`, `tree` | combinators of three levels on texts of up to three characters; patterns; trees and three rules | `CombinatorsReadRight` |
| `where` | chains of builder calls, on rows with any of three columns null | `QueriesAreAnswered` |

Where a form is lossy the property says exactly how, and claims the rest. That a
text is *refused* is part of it: the samples with one token changed are there to
show that no parser passes over a word. The bounds are small because what these
functions do depends on neighbours: a quote and what it encloses, an item and the
next, a prefix and the whole. Three tokens, two items, depth three have each of
these; a history of three and room for three columns are reached and overrun with
five keys.

Abstractions. `ZethaCreate`: a region is there or not; the magic and the schema may
have no bytes. `ZethaPageCache`: a buffer is changed or not. `ZethaIndex`: words of
few letters, two endings of the stemmer, scores left out (hits are ordered by the
code's sort, ties by document). `ZethaCrypt` and `CryptBlob`: `crypto_secretbox` by
its contract in the first, by its layout in the second with the stream and the tag as
parameters, random nonces as a counter (no nonce comes twice), wiping of memory
left out. `Klyspec`: what commands and plugins do is a constant (`Executed`,
`PluginTurn`). Parsers work on tokens where the code skips blanks between them, and
on characters where blanks count. `Linenoise`: one-byte characters of one column;
terminal modes, escape sequences written and completion left out. Where a key
would reach outside the buffer or the history, which no test in the code prevents
(`InsertStrays`, `ArrowStrays`), the model says so (`strayed`) and follows the program
no further. `DslUtils`: `$` is left out of the texts that patterns are tried on.
`SerdeText` counts
numbers and words as one character. `DslUtils` has parsers as terms; what C++ types
decide is left out. `IpcTk` has no sockets. `ZethaIndexCli` has a tree of
directories as a constant, and HTTP from the parsed request to the body of the
answer.

## 3. Theorems

### ZethaStorage

For all keys, values and bounds, from `StorageAssumption` alone (finitely many
keys; `NoKey` and `NoValue` are not keys and values; the bounds are naturals):

| Theorem | Failures | Says |
|---|---|---|
| `TypeCorrect` | all | `Spec => []TypeOK` |
| `AlwaysSafe` | `crash`, `write`, `header` | `Spec => []SafeInv` |
| `NotCorrupted` | " | `Spec => []NeverCorrupt`: no open finds the file corrupt |
| `RestoresCommitted` | " | `Spec => OpenRestoresCommitted` |
| `Repairs` | " | `Spec => RebuildRepairs` |
| `LsnRises` | " | `Spec => []LsnRising` |
| `AppendOnly` | " | `Spec => CommittedUntouched` |
| `Implements` | `crash`, `write` | `Spec => KeepsPromises` |
| `NeverMadeUp` | `crash`, `write`, `header`, `read`, `tear` | `Spec => PrefixOrCorrupt` |

The hypothesis `Faults \subseteq ...` is in the statement of each, and is needed:
the failing runs are counterexamples without it.

The argument. `TypeOK` is not inductive: a record fits the file because the call
checked for room when it began (`Fits`), and replaying it is defined because its
transaction is open (`InTxn`); `TypeInv` adds these. `SafeInv` is the invariant
proper. Its core is `Linked`: from offset 0 to the end of the journal, the
buffered record included, each record is `Valid` for a reader in state
`trail[o]` and takes it to `trail[o + 1]`. `DiskWhole` and `HandleWhole` say that
at the header's `journal_end` and at `fh_.journal_end` no transaction is open and
the map is `durable`, `journaled`; `Appending` and `Defragmenting` say what the
transaction being written holds so far, so that its TxnEnd lands on the map
intended; `LsnAbove` that the next number is above all in use; `Covered` that
only the buffered record is missing from the file. A reader in the middle of a
replay then holds `trail[off]` (`ReadingWell`), the next record is one it expects,
and it ends with `durable`. TLC checks `SafeInv` in the run `append`.

For `NeverMadeUp` the invariant is `PrefixInv`. Once the file has lost its tail nothing
of `SafeInv` is left: what follows the cut may be unreadable, log sequence numbers
are given out again, and later appends lie behind a gap. What remains is `Legible`:
from offset 0 each record takes a reader from `trail[o]` to `trail[o + 1]`, up to the
end or up to some record that no reader accepts. It does not ask that the records
before are accepted, so that it survives every append (`Traced`), a compaction that
goes through, and a tear at any record. An opening reader has come across accepted
records only (`OpeningWell`), so it is at `trail[off]`. TLC finds no violation of
`PrefixInv` in the bounds of `unfinished` with these failures.

For `Implements` the mapping is in `ZethaStorageInv` and the invariant
`Agreed` adds that between calls `journaled = durable`.

### ZethaMemDb

For any programs, paths, records, capacity, kinds and numbers of failures, from
`MemAssumption` alone (finitely many paths, ordered as numbers; `NoValue` is no
record; what has been through the encoding once is not changed by it again):

| Theorem | Says |
|---|---|
| `MemTypeCorrect` | `Spec => []TypeOK` |
| `FilesHold` | `Spec => []MemInv`: what the mapped file and the dump hold at every step of writing them |
| `MemOpenAllOrNothing` | `Spec => OpenAllOrNothing` |
| `MemOkIsOnFile` | `Spec => OkIsOnFile` |
| `MemMappedAgrees` | `Spec => []MappedAgrees` |
| `MemLoadsWhatWasDumped` | `Spec => LoadsWhatWasDumped` |

Of `MemInv`, `FlushInv` is inductive: one program at a time flushes (`Alone`), the
file holds the last map flushed whole or not the whole of one (`AreaHolds`), and
each step of a flush knows what the ones before it have put there (`Progress`).
The two lemmas `QuietStep` and `FlushStep` are the two kinds of steps it has to
survive. `Mapped` adds that a program that is neither stale nor ahead has the map
last flushed, up to what the encoding loses; `DumpInv` that the dump decodes to
the map last dumped, to its first records, or to nothing.

### ZethaRdbCli

For any Apps, tables, rows and bounds, from `CliAssumption`: the keys are finitely
many and the schema's is one; a schema is a set of the tables of the row keys, and
the empty one is one; a value is a schema or a row; there is room for what `create`
writes (three cells, three numbers).

| Theorem | Says |
|---|---|
| `TurnTaking` | `CliSpec => []TurnsAreSafe` |
| `MaintainKeeps` | `CliSpec => MaintainKeepsContents` |
| `LastWriter` | `CliSpec => LastWriterWins` |

What `open` reads is the recursive function `Seen` of the offset. `Inv` says that the
file opens with `acked` (`Shows`) as long as nothing was misused, and of each App
(`Tracks`) that replaying the file up to its handle's `journal_end` gives its map and
numbers, unless another has written below it, and that a handle that is not stale
has `acked` and ends where the file does. An append changes no cell before it, so `Seen` is the same up to there, by
induction over the offset, and three steps more behind it. A compaction is a Put for
each bound key in some order: an induction over how many of them are read. Both inductions
are on facts about one file, outside of the temporal argument.

### ZethaRdb

For any names, data, schemas and rows, from `RdbAssumption` and
`NoRecordAssumption`: names of tables have no `:` in them (a code with such names
breaks `ScanFindsItsTable`), data and names are sequences of characters, schemas
are over the tables and kinds given, `Order` lists the row keys, and no schema is
the mark for a key that is not there.

| Theorem | Says |
|---|---|
| `RowsStayInPlace` | `RdbSpec => []RowsInPlace` |
| `ScansFindTheirTable` | `RdbSpec => []ScanFindsItsTable` |
| `PagesArePieces` | `RdbSpec => []PagesAreSlices` |
| `StoredRowsFitTheFile` | `RdbSpec => StoredRowFitsFile` |
| `SchemasSurvive` | `RdbSpec => SchemaSurvives` |

The write in progress is what makes these hard: memory, the file and the change that
is about to reach it are three maps, and each of them can become the others by a
commit, an abort or the end of the process; the invariant says the same of all three.
Of the file nothing is used but `KvStore`'s steps, so with `Implements` the
theorems speak about a ZethaRDB on the journal, for the failures `Implements`
allows. That the scan's prefix separates tables is a lemma about sequences; that
the loop over limit and offset yields a slice is an induction over the loop.

### ZethaTables

For any names, layouts, rows, predicates, assignments and number of rows, from
`TablesAssumption`: layouts are sequences of columns with types, lists sequences of
names with literals, literals are values, and a statement has no `where` or one of a
column, one of the six operators and a literal.

| Theorem | Says |
|---|---|
| `CellsKeepTheirTypes` | `TablesSpec => []TablesTypeOK` |
| `PredicatesCompareNumbers` | `TablesSpec => []ComparesNumbers` |
| `ThrownStopsAtOneRow` | `TablesSpec => ThrownChangesOneRow` |
| `StatementsAffectWhatTheySelect` | `TablesSpec => AffectsWhatItSelects` |
| `StatementsReadBack` | `TablesSpec => []ReadsBack` |

`TablesInv` is the types, with every row as wide as its table, which is what makes a
predicate and an assignment defined on every row. The loops over rows, `Only` and
`Matching`, are recursive functions of how far they have come; that the rows kept
and the rows found make up the table, each kept one moved up by those
gone before it, is an induction over that.

`ReadsBack` speaks of all statements in all states, and needs no invariant. A text is
put together from lists of tokens, one behind the other (`FlattenBySteps`), so that
the place of each token is known by counting; the first decides which statement it
is, their number how many fields there are, and each field stands where the parser
looks for it. A statement in which an operator runs on is refused.

### ZethaIndex

For any documents, options, words and filters, from `IndexAssumption`: characters
and texts are listed in the order the code's maps sort them by, each once; lower
case is in that order and is its own lower case; documents, names and endings are
over these.

| Theorem | Says |
|---|---|
| `WordsAreKept` | `IndexSpec => []IndexKeepsTheWords` |
| `QueriesFindTheWords` | `IndexSpec => []QueryFindsTheWords` |
| `NearWords` | two words are within one edit, by the code's table, if and only if they are equal or one letter is changed, added or left out |

Of the state little is needed, `IndexInv`: an index, in memory or in the file, has its
types, and one that was built is just what `BuildIndex` makes of those options. The
work is in what the functions do. The lexicographic order of words is strict and
linear, a sorted list has every word once, in order, and those with a prefix are side
by side, so that the walk over `terms` that stops at the first other word has met all.
Postings are folds over documents: by induction over how many of them
are read. The file is read back line by line, each term with its postings, and the
metadata with keys and values swapped, as the code does.

### The parts of the library

Each by itself, in `ZethaLibraryProofs`. `WindowAssumption`: the marks for no mapping
and no descriptor are none of the addresses and descriptors. `CacheAssumption`: ids
and limits are naturals. `VaultAssumption`: keys and values are byte sequences, and
sealing adds at least a byte. `KlyspecAssumption`: command lines are sequences of
tokens, and an option has at least one name. `EditorAssumption`: there is room for a
column, a byte and an entry; characters that are typed are neither keys nor the byte
0, and the histories loaded are of such characters.

| Theorem | Says | Invariant |
|---|---|---|
| `CreatedWhole` | `CreateSpec => []WholeOrNothing` | which regions are written at which step, that the header comes last, and what another handle knows of it |
| `WindowOwns` | `WindowSpec => []WindowOwnsAll` | itself, the types, and that what is mapped has a length |
| `DirtyStays` | `CacheSpec => DirtyUntilEvicted` | the pages are those of `lru_`, finitely many and within the limit |
| `NamesAlwaysResolve` | `RegistrySpec => []NamesResolve` | itself, and that what is registered is a sequence of arguments: those a command came with, whatever they are, and behind them those that clash with none |
| `WordsAreTakenByCommands` | `RegistrySpec => OnlyCommandsTakeOver` | the same |
| `NoWordIsLost` | `RegistrySpec => []NothingIsLost` | the same; and by induction over the words of a line, each step puts one word at one place more; a command may have several arguments of one id, and then one may count as given for another's sake, as the property says |
| `VaultKeepsItsValues` | `VaultSpec => []VaultReadsBack` | entries and stored keys are one to one, each sealed with a nonce of its own below the next; records of any length parse into what was written |
| `KeysKeepTheirPromise` | `EditorSpec => KeysDoWhatTheySay` | the line as far as it was followed lies within its buffer; in multi-line mode it has not moved and is what a C string of it is; the history has an entry |

The editor reaches outside its buffers (`strayed`) in three kinds of states only
(`StraysOnlyFrom`), and the theorem says which; in all others a key does what it is
for. The line of the editor is a piece of a buffer, and the buffer holds more than the
line. For each key there is a lemma that says character by character what the line
shows after it (`Shows`), and one for what a refresh keeps of it (`RefreshDraws`). A
refresh cuts the line where it is wider than the terminal, and in multi-line mode
not at all.

### Recursion

The library's theorems on induction and recursive definitions take an operator,
which no prover here can instantiate. `Recursion` states them for sets and functions
instead: `NatInductiveOn` (a set that has 0 and with `n` also `n + 1` has every
natural of the range), `LeastOf`, `GreatestOf`, and `RecursiveFunction` (a function
defined by a step from `n - 1` to `n` satisfies its definition). They are proved
from the library's theorem that `<` is well-founded on Nat, and cited by name; the set is the comprehension of the formula to be proved. `FlattenBySteps` says how long the
sequences are that are put together from others, and what is in them. This covers loops
over offsets, rows, words, documents and tokens, once they are written as recursive
functions. It does not cover trees, nor texts that hold one another.

### Model-checked only

- `CallsReturn`: liveness is out of the prover's reach.
- `PrefixOrCorrupt` with failures in `defragment`: the run `unfinished` finds no
  violation with three, and there is one with seven (section 4).
- `TextsReadBack`, `CodesReadBack`, `FormatsReadBack`, `VerdictsAgree`,
  `CombinatorsReadRight`, `QueriesAreAnswered`: recursive over texts and trees, declared
  RECURSIVE, which the prover cannot do.

## 4. Findings

Violations that TLC finds in the model of the code as it is; PROJECT.json quotes for
each the line of a doc, a comment or a test it disagrees with.

| Run | Bounds | What |
|---|---|---|
| `finding_defragment_crash` | as `append`, one failure in `defragment` | a crash in `defragment` leaves a database that opens, empty |
| `finding_torn_tail` | as `append`, one torn tail | the first insert after a torn tail was tolerated makes the file corrupt |
| `finding_maintain_stale` | one App, 9 cells, 12 lsns | `maintain` makes its own program's handle stale; the next update corrupts the file |
| `finding_mem_readback` | one App, a long double as well, 3 failures | a record with a `\|` is stored and makes the file undecodable |
| `finding_cache_order` | 3 pages, limits of 0 and 2 | a full page cache evicts the lowest id, though it was used last |
| `finding_profile_formats` | as `library` | a profile in JSON loses its numbers that are not negative, and an S-expression gives none |
| `finding_unique_items` | as `library` | an array with equal items is valid where unique ones are asked for |

`finding_mem_readback` stops at the bar; that a double comes back with six digits it
does not show.

What else the models show of the code, and their properties allow for; no line of
the repository promises otherwise unless it is quoted.

- ZethaSTORAGE: an insert after one that failed with "header update failed" corrupts
  the file, and an insert can report success though its header was never written
  (the theorems exclude `end`, the second also `header`). `open` can make up a map:
  three inserts that fail half way leave a gap in the numbers, the next one goes
  through, the file loses its tail behind that one's first record, the program goes on
  with the numbers it finds, and `defragment` cannot flush its TxnEnd; the old TxnBegin
  then stands where the TxnEnd should, with the very number expected there, the next
  insert continues the journal, and the next `open` shows that insert alone. This takes
  seven failures, more than `unfinished` allows; the trace was replayed in the model. `create` reports success
  after failed writes. `put` of a page that PageCache has keeps the old buffer.
- ZethaRDB: the text of a schema is accepted when columns are given twice. A number
  in a query keeps six digits; a condition on a missing column is false and its
  negation true; null counts as 0, as false and as the empty text; a text that is no
  number compares as 0; the axis of a step is ignored; `where` before the first step
  throws. In C++, `nullable_col` after `primary_key` makes a key that may be null,
  and a key column without a name is not noticed. An IPC message that is cut is
  taken, with the payload shorter.
- ZethaMEM: steps of a path must be identifiers, so that a key like `users/1` cannot
  be asked for; `a//b` and `a/b` are one path; the predicates of all steps are put
  to the same record; a number in a query has no fraction; texts that read as
  numbers or booleans are stored as these and cannot be asked for as strings.
- ZethaINDEX: `load_index` swaps keys and values of metadata. A query is not
  stemmed, the index is. `has_any` splits at commas between quotes, too;
  `metadata.x>=10` needs a blank; only a configuration lower-cases its adapter; a
  directory without an adapter is read as plain text; `q` is not URL-decoded; a
  configuration with an empty list of inputs builds an empty index, which arguments
  refuse.
- ZethaCRYPT: the id of a record's key is stored and never read. The headers include
  `tweenacl.h` and call `randombytes_buf`, neither of which the repository has.
- klyspec: the arguments that a command is registered with are not compared: of two
  with one name the first is meant, and of two with one id a required one counts as
  given by the other's option. An alias is redirected by a command of that name without a word.
  parse_klytmk accepts a text that ends in a header or inside a quoted string.
  What is sent of a command line escapes neither `;` nor `=`.
- SerdeTk: nested items of a YAML list are lost, a list of one item in XML comes
  back as the item, texts beginning with the carriers' mark are taken for carriers;
  `nan` is within every minimum and maximum and matches no `const`; `uniqueItems`
  throws for numbers; `const` and `enum` tell an unsigned
  number of JSON from the same number of YAML; `additionalProperties` without
  `properties` is ignored; a negative size is a huge one; a descriptor whose
  category differs from its backend's becomes a format that can neither load nor
  write; pairs of `\u` escapes are not joined, though `JSON.sktl` says they are
  required; a `#` between quotes cuts a descriptor line; builders keep pointers into
  objects that may be replaced.
- DSLUtils: `operator&` commits when its second parser fails behind the first; `+`
  of `pattern<>` gives nothing back; `$` is a character, though the comment (652)
  says it is ignored; `ch('\0')` succeeds at the end of the text; `Result<string,
  string>::is_ok` and the handlers of `MatchTable` do not compile when used.
- IPCtk: what follows the last parenthesis of a step is dropped; nested steps are
  neither validated nor emitted; `//` in the body of a rule is cut as a comment; of
  two resources of a name the last one's kind counts.
- Command lines: an empty argument between quotes vanishes; `quit`, documented in
  `docs/SMOKE_TESTS.md` (43, 69), is not known; `1-2` reads as the integer 1. Empty
  lines and `#` lines are dropped from quoted text over several lines.
- cpp-linenoise: the place in the history is not set back when a line is returned,
  and can leave the history; a line that is wider than the terminal loses its text
  and leaves the buffer moved, which ctrl-t, ctrl-u and ctrl-k do not know, and which
  inserts, arrows and the clearing before an entry is shown do not count with: they can
  reach behind it, as can an entry from the file that is as long as the buffer;
  `SetHistoryMaxLen` keeps the oldest, its comment says the latest; ctrl-c leaves an
  empty entry; an entry of several lines is several after a restart; an invalid byte
  ends the line. An entry is remembered as a C string, up to its first byte 0.

## 5. Plan

Done: the journal and its theorems, programs that share a file, the mapped store and
its theorems, the relational layer and its queries, tables in memory, and the parts
of the library, with theorems about each of them that is a state machine. What is left, in this order:

1. Proofs. `PrefixOrCorrupt` with the failure `end`, for which `Legible` has to
   speak of maps only, and of where in the file transactions may begin. Codes and
   texts without nesting (`CodesReadBack`, scripts, rows), once their loops are
   recursive functions.
2. Records of different sizes in `ZethaRdbCli`, so that a stale handle's writes may
   fall into the middle of one.
3. Flushes and dumps of two programs that overlap in `ZethaMemDb`.
4. What is partly modelled: the pipelines of DSLUtils, and SerdeTk's editors.

## 6. Not modelled

- tweetnacl: the ciphers themselves, and whatever else it has than `crypto_secretbox`:
  vendored cryptography.
- DSLUtils: its text is in the repository four times, and the model stands for the
  first. Left out of it are tagged values, units, state tags and clauses of `match`
  (only types tell them apart), the pipelines, and the helpers for strings and
  files.
- IPCtk: sockets, pipes and descriptors, and the builder interface, of which each
  call adds one record.
- klyspec: the hooks of plugins that no code of the repository calls.
- SerdeTk: editors and printers, conversion reports, the namespaces that a macro
  makes.
- ZethaINDEX: sockets, scores, what `inspect` and `export` print.
- ZethaQUERY: `order_by`, `limit` and `offset` of a built query, which nothing
  reads; the printing of trees.
- ZethaCRYPT: the drawing of random keys and the wiping of buffers.
- cpp-linenoise: terminal modes, what is sent to the terminal, completion (no
  program here sets it up), the Windows console.
- Printing and wording of all programs.
- Power failures: the code makes no attempt at them (there is no fsync). Journal
  records that are misaligned, and the bounds check only they can trip.
