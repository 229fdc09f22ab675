----------------------------- MODULE PageStore -----------------------------
(***************************************************************************)
(* What the buffer manager promises to its callers, without frames, lists, *)
(* hash table or disk: a store of pages, some of them pinned.  A page      *)
(* comes into being pinned, only a pinned page changes, and only by a      *)
(* write of whoever holds it.  Nothing else a call does - evicting,        *)
(* reading back, flushing, failing half way - can be seen here.            *)
(***************************************************************************)
CONSTANTS Keys, Value, Unborn

VARIABLES
  content,  \* content[k]: the page, Unborn before it is allocated
  pinned    \* the pages some caller holds

Init ==
  /\ content = [k \in Keys |-> Unborn]
  /\ pinned = {}

Create(k) ==
  /\ content[k] = Unborn
  /\ pinned' = pinned \cup {k}
  /\ \E v \in Value : content' = [content EXCEPT ![k] = v]

Pin(k) ==
  /\ content[k] # Unborn
  /\ k \notin pinned
  /\ pinned' = pinned \cup {k}
  /\ UNCHANGED content

Write(k) ==
  /\ k \in pinned
  /\ UNCHANGED pinned
  /\ \E v \in Value : content' = [content EXCEPT ![k] = v]

Unpin(k) ==
  /\ k \in pinned
  /\ pinned' = pinned \ {k}
  /\ UNCHANGED content

Next == \E k \in Keys : Create(k) \/ Pin(k) \/ Write(k) \/ Unpin(k)

Spec == Init /\ [][Next]_<<content, pinned>>
=============================================================================
