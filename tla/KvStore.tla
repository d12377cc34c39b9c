------------------------------ MODULE KvStore ------------------------------
(***************************************************************************)
(* What one ZethaStorage handle promises its caller, with no journal in    *)
(* sight: a map in memory, the map a restart brings back, and one call at  *)
(* a time.  An update shows in memory before it is durable; "ok" is only   *)
(* said of an update that is durable; a failed update stays in memory and  *)
(* is not durable.  ZethaStorageInv has the mapping by which the journal   *)
(* of ZethaSTORAGE.hpp keeps these promises.                               *)
(***************************************************************************)
CONSTANTS Keys, Values, NoValue

VARIABLES mode,     \* "down", "ready", "writing" or "maintaining"
          mem,      \* what get and scan show
          durable,  \* what the next start brings back
          call,     \* the update in progress, or NoCall
          reply     \* the outcome of the last finished call

vars == <<mode, mem, durable, call, reply>>

Maps   == [Keys -> Values \cup {NoValue}]
Empty  == [k \in Keys |-> NoValue]
Calls  == [key : Keys, val : Values \cup {NoValue}]
NoCall == "no call"

Set(m, c) == [m EXCEPT ![c.key] = c.val]

TypeOK == /\ mode \in {"down", "ready", "writing", "maintaining"}
          /\ mem \in Maps
          /\ durable \in Maps
          /\ call \in Calls \cup {NoCall}
          /\ reply \in {"none", "ok", "error"}

Init == /\ mode = "down"
        /\ mem = Empty
        /\ durable = Empty
        /\ call = NoCall
        /\ reply = "none"

\* The store comes up with exactly what was durable.
Start == /\ mode = "down"
         /\ mode' = "ready"
         /\ mem' = durable
         /\ reply' = "ok"
         /\ UNCHANGED <<durable, call>>

\* insert and erase (val = NoValue): memory first.
Update(c) == /\ mode = "ready"
             /\ mem' = Set(mem, c)
             /\ \/ /\ mode' = "writing"
                   /\ call' = c
                   /\ reply' = "none"
                \/ /\ reply' = "error"
                   /\ UNCHANGED <<mode, call>>
             /\ UNCHANGED durable

\* The update becomes durable and is acknowledged, in one step.
Commit == /\ mode = "writing"
          /\ durable' = Set(durable, call)
          /\ mode' = "ready"
          /\ call' = NoCall
          /\ reply' = "ok"
          /\ UNCHANGED mem

\* The update is refused: durable as if it had never been called.
Abort == /\ mode = "writing"
         /\ mode' = "ready"
         /\ call' = NoCall
         /\ reply' = "error"
         /\ UNCHANGED <<mem, durable>>

\* defragment, rebuild_from_journal or scan_snapshot_from_journal begins ...
Maintain == /\ mode = "ready"
            /\ mode' = "maintaining"
            /\ reply' = "none"
            /\ UNCHANGED <<mem, durable, call>>

\* ... and ends: with memory made durable, with what is durable read back
\* into memory, or with neither changed.
Maintained == /\ mode \in {"ready", "maintaining"}
              /\ mode' = "ready"
              /\ reply' = "ok"
              /\ \/ durable' = mem /\ UNCHANGED mem
                 \/ mem' = durable /\ UNCHANGED durable
                 \/ UNCHANGED <<mem, durable>>
              /\ UNCHANGED call

\* The handle is closed or its process dies, in any state.
Stop == /\ mode' = "down"
        /\ mem' = Empty
        /\ call' = NoCall
        /\ reply' = "none"
        /\ UNCHANGED durable

Next == \/ Start
        \/ \E c \in Calls : Update(c)
        \/ Commit
        \/ Abort
        \/ Maintain
        \/ Maintained
        \/ Stop

Spec == Init /\ [][Next]_vars
=============================================================================
