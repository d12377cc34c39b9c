------------------------------ MODULE ZethaCreate ------------------------------
(***************************************************************************)
(* ZethaStorage::create writes a file region by region with a header that   *)
(* does not yet say where the journal is, and writes the header again at    *)
(* the end. Its stream is never asked whether a write failed; the process   *)
(* may die between two writes, and another one may open the file meanwhile.*)
(* ZethaStorage.tla starts where this ends: with a file that is complete.   *)
(***************************************************************************)
EXTENDS Integers

CONSTANT StoredValues    \* what callers insert

VARIABLES
  onDisk,     \* {} or {[regions, blank, final, spoilt, records]}: those on disk
  step,       \* the region create writes next, 0 when no create is running
  failed,     \* its stream has failed: nothing is written any more
  handle,     \* {} or {[knows, mem]}: a process that has the database open
  inserted     \* records whose insert reported success, since create truncated

createVars == <<onDisk, step, failed, handle, inserted>>

\* shebang, header, magic, schema, pages, Python stub; then the header again.
MagicRegion   == 3
SchemaRegion  == 4
Stub    == 6
Rewrite == 7

CreateInit == onDisk = {} /\ step = 0 /\ failed = FALSE /\ handle = {} /\ inserted = {}

\* std::ios::trunc: whatever was there is gone. The magic and the schema may
\* have no bytes.
CreateStart == \E blank \in SUBSET {MagicRegion, SchemaRegion} :
  /\ step = 0 /\ handle = {}
  /\ step' = 1 /\ failed' = FALSE /\ inserted' = {}
  /\ onDisk' = {[regions |-> 0, blank |-> blank, final |-> FALSE, spoilt |-> FALSE, records |-> {}]}
  /\ UNCHANGED handle

WriteRegion == \E f \in onDisk, fails \in BOOLEAN :
  /\ step \in 1..Stub
  /\ failed' = (failed \/ fails)
  /\ onDisk' = {[f EXCEPT !.regions = IF failed' THEN @ ELSE step]}
  /\ step' = step + 1
  /\ UNCHANGED <<handle, inserted>>

\* open reads the header, the magic and the schema: a region without bytes is
\* read wherever the file ends. Where no newline is left after the shebang the
\* header is read from the wrong place, and its geometry is refused.
Opens(f) == /\ ~f.spoilt
            /\ \A r \in 1..SchemaRegion : r <= f.regions \/ r \in f.blank

\* load_kv_journal_: a header that was not written again says 0 twice, which
\* is no journal.
LoadedRecords(f) == IF f.final THEN f.records ELSE {}

Opened(f) == IF Opens(f) THEN {[knows |-> f.final, mem |-> LoadedRecords(f)]} ELSE {}

\* MUTANT: the stream is cleared before the header is written again.
FinishesAnyway == \E f \in onDisk, fails \in BOOLEAN :
  LET whole == [f EXCEPT !.final = ~fails]
  IN  /\ step = Rewrite
      /\ step' = 0
      /\ onDisk' = {whole}
      /\ handle' = IF handle = {} THEN Opened(whole) ELSE handle
      /\ UNCHANGED <<failed, inserted>>

\* The header again, then open: create reports what open does, so a database
\* that lacks pages, the stub or its final header is reported as created. (The
\* handle is not followed while another process has the database open.)
CreateFinish == \E f \in onDisk, fails \in BOOLEAN :
  LET whole == [f EXCEPT !.final = ~(failed \/ fails)]
  IN  /\ step = Rewrite
      /\ step' = 0
      /\ onDisk' = {whole}
      /\ handle' = IF handle = {} THEN Opened(whole) ELSE handle
      /\ UNCHANGED <<failed, inserted>>

OpenFile == \E f \in onDisk :
  /\ handle = {}
  /\ handle' = Opened(f)
  /\ UNCHANGED <<onDisk, step, failed, inserted>>

\* append_kv_journal_op_ through a header that knows no journal writes its
\* records over the shebang and the header, and succeeds.
InsertRecord == \E f \in onDisk, h \in handle, r \in StoredValues :
  /\ onDisk' = {IF h.knows THEN [f EXCEPT !.records = @ \cup {r}] ELSE [f EXCEPT !.spoilt = TRUE]}
  /\ handle' = {[h EXCEPT !.mem = @ \cup {r}]}
  /\ inserted' = inserted \cup {r}
  /\ UNCHANGED <<step, failed>>

CloseFile == handle # {} /\ handle' = {} /\ UNCHANGED <<onDisk, step, failed, inserted>>

\* The creating process dies.
CreateDies == step # 0 /\ step' = 0 /\ UNCHANGED <<onDisk, failed, handle, inserted>>

CreateNext == \/ CreateStart \/ WriteRegion \/ CreateFinish \/ CreateDies
              \/ OpenFile \/ InsertRecord \/ CloseFile

-----------------------------------------------------------------------------
\* A file whose header was written again, and that nobody spoilt, is complete:
\* it opens with every insert that was acknowledged. Any other file opens with
\* nothing or not at all, whatever was acknowledged (552): it never shows a
\* part of what it should hold.
WholeOrNothing ==
  \A f \in onDisk : IF f.final /\ ~f.spoilt
                    THEN /\ f.regions = Stub /\ Opens(f) /\ LoadedRecords(f) = inserted
                         /\ \A h \in handle : h.knows => h.mem = inserted
                    ELSE Opens(f) => LoadedRecords(f) = {}
=============================================================================
