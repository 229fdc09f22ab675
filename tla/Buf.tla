-------------------------------- MODULE Buf --------------------------------
(***************************************************************************)
(* The buffer manager running under the calls PF makes of it.  The calls   *)
(* of all holders of pages interleave; each is one action, except the walk *)
(* of PFbufReleaseFile, which takes one step per frame (nothing else runs  *)
(* meanwhile).                                                             *)
(*                                                                         *)
(* The caller's side is what pf.c guarantees: a page is asked for only     *)
(* below the file's page count, allocated exactly at it (pf.c:357-365,     *)
(* 399, 450), and written through the pointer only while it is fixed.  Of  *)
(* PF's own users it assumes that whoever allocated or changed a page says *)
(* so when unfixing it (PF_UnfixPage's "dirty", pf.c:537).                 *)
(***************************************************************************)
EXTENDS BufOps

CONSTANT NextFreeWritten   \* the nextfree values PF stores in held pages

ASSUME WrittenAssumption == NextFreeWritten \subseteq NextFree

VARIABLES
  pool,      \* the pool of BufOps
  npages,    \* npages[fd]: pages allocated so far, PFftab[fd].hdr.numpages
  owed,      \* pages changed since they were fixed and not yet reported dirty
  releasing, \* the fd PFbufReleaseFile is walking for, or -1
  newer      \* history: <<j, k>> when page j was asked for after page k was

vars == <<pool, npages, owed, releasing, newer>>

Born == {k \in Keys : k[2] < npages[k[1]]}
Held == {k \in Keys : Fixed(pool, k)}
Idle == releasing = -1

\* Only what is still resident is ordered.
Among(order, t) == {p \in order : Resident(t, p[1]) /\ Resident(t, p[2])}
Asked(k, t) ==
  Among({p \in newer : p[2] # k} \cup {<<k, j>> : j \in Keys \ {k}}, t)

\* The files are distinct and hold no page yet.
Init ==
  /\ \E file \in [Fds -> Files] :
       /\ IsInjective(file)
       /\ pool = EmptyPool(file, [q \in Files \X Pages |-> Absent])
  /\ npages = [fd \in Fds |-> 0]
  /\ owed = {}
  /\ releasing = -1
  /\ newer = {}

Get(k) ==
  /\ Idle
  /\ k \in Born
  /\ \E o \in PFbufGet(pool, k) : pool' = o.s
  /\ newer' = Asked(k, pool')
  /\ UNCHANGED <<npages, owed, releasing>>

\* PF_AllocPage at end of file: PFbufAlloc, then PFbufUsed (pf.c:450-477).
Alloc(fd) ==
  LET k == <<fd, npages[fd]>>
  IN  /\ Idle
      /\ k \in Keys
      /\ \E o \in PFbufAlloc(pool, k) :
           IF o.rc = "OK"
           THEN /\ pool' = PFbufUsed(o.s, k).s
                /\ npages' = [npages EXCEPT ![fd] = @ + 1]
                /\ owed' = owed \cup {k}
           ELSE /\ pool' = o.s
                /\ UNCHANGED <<npages, owed>>
      /\ newer' = Asked(k, pool')
      /\ UNCHANGED releasing

Unfix(k, dirty) ==
  /\ Idle
  /\ k \in Born
  /\ k \in owed => dirty
  /\ pool' = PFbufUnfix(pool, k, dirty).s
  /\ owed' = owed \ {k}
  /\ UNCHANGED <<npages, releasing, newer>>

\* The holder of a page writes through the pointer it was given.
Write(k, c) ==
  /\ Idle
  /\ k \in Held
  /\ pool' = [pool EXCEPT !.frame[pool.hash[k]].fpage = c]
  /\ owed' = owed \cup {k}
  /\ UNCHANGED <<npages, releasing, newer>>

SetStrategy(strategy) ==
  /\ Idle
  /\ pool' = PFbufSetStrategy(pool, strategy)
  /\ UNCHANGED <<npages, owed, releasing, newer>>

ReleaseFile(fd) ==
  /\ Idle
  /\ releasing' = fd
  /\ UNCHANGED <<pool, npages, owed, newer>>

ReleaseStep ==
  /\ ~ Idle
  /\ \E o \in PFbufReleaseStep(pool, releasing) :
       /\ pool' = o.s
       /\ releasing' = IF o.rc = "MORE" THEN releasing ELSE -1
  /\ newer' = Among(newer, pool')
  /\ UNCHANGED <<npages, owed>>

Next ==
  \/ \E k \in Keys :
       \/ Get(k)
       \/ \E dirty \in BOOLEAN : Unfix(k, dirty)
       \/ \E n \in NextFreeWritten, d \in Data :
            Write(k, [nextfree |-> n, data |-> d])
  \/ \E fd \in Fds : Alloc(fd) \/ ReleaseFile(fd)
  \/ \E strategy \in Strategies : SetStrategy(strategy)
  \/ ReleaseStep

Spec == Init /\ [][Next]_vars
-----------------------------------------------------------------------------
(* Properties. *)

\* Every variable has its type.
TypeOK ==
  /\ pool \in Pool
  /\ npages \in [Fds -> Nat]
  /\ owed \subseteq Keys
  /\ releasing \in Fds \cup {-1}
  /\ newer \subseteq Keys \X Keys

\* Between two calls the buffer list, the hash table and the frame count tell
\* the same story, whichever malloc, read or write failed before: no page is
\* buffered twice, no entry leads to a freed frame (buf.c:100-344, 426-453).
PoolConsistent == Consistent(pool)

\* A buffered page marked clean equals the page in the file, unless its holder
\* has yet to report a change: dropping it without a write, as eviction and
\* close do, loses nothing (buf.c:154-162, 438-442).
CleanIsOnDisk ==
  \A k \in Keys \ owed :
    Resident(pool, k) /\ ~ pool.frame[pool.hash[k]].dirty
      => pool.disk[Place(pool, k)] = Content(pool, k)

\* The pointer a holder was given stays good: while a page is held, no other
\* page's eviction, read or release takes its frame, and the step that gives it
\* up moves no page (buf.c:136, 142, 434, 257).
HeldFramesStay ==
  [][\A k \in Held :
       /\ k \in Held' => pool'.hash[k] = pool.hash[k]
       /\ k \notin Held' => pool'.list = pool.list /\ pool'.hash = pool.hash]_vars

\* A call that takes a page's frame away takes that of the least recently
\* asked for unfixed page under LRU, of the most recently asked for under MRU;
\* asking counts even if the page was found fixed (buf.c:133-145, 285-301).
EvictsByStrategy ==
  [][Idle => \A k \in Keys : Resident(pool, k) /\ ~ Resident(pool', k) =>
       \A j \in Keys \ {k} : Resident(pool, j) /\ ~ Fixed(pool, j) =>
         IF pool.strategy = "LRU" THEN <<j, k>> \in newer
                                  ELSE <<k, j>> \in newer]_vars

\* The pages as callers see them form a PageStore: evictions, write-backs,
\* reads, flushes and every failure of malloc, read and write leave each
\* allocated page as its last writer left it (buf.c, whole file).
Store == INSTANCE PageStore WITH
  Value <- FPage,
  Unborn <- Absent,
  content <- [k \in Keys |-> IF k \in Born THEN Content(pool, k) ELSE Absent],
  pinned <- Held
StoreSpec == Store!Spec
=============================================================================
