------------------------------ MODULE ZethaWindow ------------------------------
(***************************************************************************)
(* MMapWindow of ZethaSTORAGE.hpp: one mapped window of a file, and what    *)
(* the kernel holds for it.                                                *)
(***************************************************************************)
EXTENDS Integers

CONSTANTS
  Lengths,      \* lengths, and offsets, asked for
  PageSizes,    \* page sizes asked for, 0 among them
  Fds,          \* descriptors the kernel may give
  Addresses     \* addresses it may map at

VARIABLES
  window,  \* [base, length, offset, fd]
  fds,     \* the descriptors that are open
  maps     \* the mappings there are: [base, length, offset]

windowVars == <<window, fds, maps>>

NullBase   == 0     \* nullptr
ClosedFd == -1    \* fd_

\* The kernel gives neither the null pointer nor a descriptor below 0.
ASSUME WindowAssumption ==
  NullBase \notin Addresses /\ ClosedFd \notin Fds /\ Lengths \subseteq Nat /\ PageSizes \subseteq Nat

WindowInit == /\ window = [base |-> NullBase, length |-> 0, offset |-> 0, fd |-> ClosedFd]
              /\ fds = {}
              /\ maps = {}

\* validate_page_window
ValidWindow(offset, length, page_size) ==
  page_size # 0 /\ offset % page_size = 0 /\ length % page_size = 0

UnmappedWindow == [window EXCEPT !.base = NullBase, !.length = 0, !.fd = ClosedFd]
FdsLeft  == fds \ {window.fd}

\* munmap is asked for length_ bytes at base_, which is right of all of a
\* mapping or of none.
MapsLeft == IF window.base # NullBase /\ window.length # 0
            THEN {m \in maps : m.base # window.base \/ m.length # window.length}
            ELSE maps

UnmapWindow == window' = UnmappedWindow /\ fds' = FdsLeft /\ maps' = MapsLeft

\* open fails.
OpenFails == UnmapWindow

\* MUTANT: the descriptor stays open.
MapFailsOpen(offset, length) == \E fd \in Fds \ FdsLeft :
  /\ window' = [UnmappedWindow EXCEPT !.length = length, !.offset = offset]
  /\ fds' = FdsLeft \cup {fd}
  /\ maps' = MapsLeft

\* mmap fails, as it must for no bytes: the descriptor is closed again, and
\* length_ keeps the length of a window that is not there.
MapFails(offset, length) ==
  /\ window' = [UnmappedWindow EXCEPT !.length = length, !.offset = offset]
  /\ fds' = FdsLeft
  /\ maps' = MapsLeft

MapSucceeds(offset, length) ==
  /\ length # 0
  /\ \E fd \in Fds \ FdsLeft, base \in Addresses \ {m.base : m \in MapsLeft} :
       /\ window' = [base |-> base, length |-> length, offset |-> offset, fd |-> fd]
       /\ fds' = FdsLeft \cup {fd}
       /\ maps' = MapsLeft \cup {[base |-> base, length |-> length, offset |-> offset]}

\* Arguments that are refused leave the old window as it is.
MapReadWrite(offset, length, page_size) ==
  /\ ValidWindow(offset, length, page_size)
  /\ OpenFails \/ MapFails(offset, length) \/ MapSucceeds(offset, length)

WindowNext == \/ UnmapWindow
              \/ \E offset, length \in Lengths, page_size \in PageSizes :
                   MapReadWrite(offset, length, page_size)

-----------------------------------------------------------------------------
\* The window holds a descriptor and a mapping or neither, the kernel holds
\* nothing else for it, and length_ tells how much to unmap whenever base_ does
\* not tell that nothing is mapped; a length left by a failed mmap (344) never
\* unmaps anything.
WindowOwnsAll ==
  /\ fds = {window.fd} \ {ClosedFd}
  /\ maps = IF window.base = NullBase THEN {}
            ELSE {[base |-> window.base, length |-> window.length, offset |-> window.offset]}
  /\ window.base = NullBase <=> window.fd = ClosedFd
=============================================================================
