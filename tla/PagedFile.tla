----------------------------- MODULE PagedFile -----------------------------
(***************************************************************************)
(* What the paged-file layer promises, without buffers, headers, free      *)
(* lists or file descriptors: named files, each a set of live pages that   *)
(* keep what was last written to them.  A page becomes live when it is     *)
(* allocated and goes only when it is disposed of, unpinned, or with its   *)
(* whole file.  Opening, closing, scanning and failing change nothing.     *)
(***************************************************************************)
CONSTANTS
  Files, Pages, Data,
  None     \* the data of a page that is not live, the pages of no file

VARIABLES
  exists,  \* the files there are
  page,    \* page[f][p]: the data of page p of file f, None if it is not live
  pinned   \* the pages <<f, p>> some caller holds

vars == <<exists, page, pinned>>
Live(f, p) == page[f][p] # None

Init ==
  /\ exists = {}
  /\ page = [f \in Files |-> [p \in Pages |-> None]]
  /\ pinned = {}

CreateFile(f) ==
  /\ f \notin exists
  /\ exists' = exists \cup {f}
  /\ UNCHANGED <<page, pinned>>

DestroyFile(f) ==
  /\ f \in exists
  /\ exists' = exists \ {f}
  /\ \A p \in Pages : <<f, p>> \notin pinned
  /\ page' = [page EXCEPT ![f] = [p \in Pages |-> None]]
  /\ UNCHANGED pinned

Alloc(f, p) ==
  /\ f \in exists
  /\ <<f, p>> \notin pinned
  /\ pinned' = pinned \cup {<<f, p>>}
  /\ ~ Live(f, p)
  /\ \E d \in Data : page' = [page EXCEPT ![f][p] = d]
  /\ UNCHANGED exists

Dispose(f, p) ==
  /\ <<f, p>> \notin pinned
  /\ Live(f, p) /\ ~ Live(f, p)'
  /\ page' = [page EXCEPT ![f][p] = None]
  /\ UNCHANGED <<exists, pinned>>

Pin(f, p) ==
  /\ <<f, p>> \notin pinned
  /\ pinned' = pinned \cup {<<f, p>>}
  /\ Live(f, p)
  /\ UNCHANGED <<exists, page>>

Unpin(f, p) ==
  /\ <<f, p>> \in pinned
  /\ pinned' = pinned \ {<<f, p>>}
  /\ UNCHANGED <<exists, page>>

Write(f, p) ==
  /\ <<f, p>> \in pinned
  /\ UNCHANGED <<exists, pinned>>
  /\ \E d \in Data : page' = [page EXCEPT ![f][p] = d]

Next ==
  \E f \in Files :
    \/ CreateFile(f)
    \/ DestroyFile(f)
    \/ \E p \in Pages :
         Alloc(f, p) \/ Dispose(f, p) \/ Pin(f, p) \/ Write(f, p) \/ Unpin(f, p)

Spec == Init /\ [][Next]_vars
=============================================================================
