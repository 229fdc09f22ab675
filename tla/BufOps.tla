------------------------------- MODULE BufOps -------------------------------
(***************************************************************************)
(* The buffer manager of the paged-file layer (pflayer/buf.c) as operators *)
(* on one record, the pool.  A call of buf.c is an operator from the pool  *)
(* (and the call's arguments) to the SET of its outcomes [rc, s]: the code *)
(* returned and the pool left behind.  More than one outcome means that    *)
(* malloc, read or write may fail there.  Buf runs the calls on their own, *)
(* the PF modules compose them into the handlers of pf.c.                  *)
(*                                                                         *)
(* The pool s has the fields                                               *)
(*   list     the buffer list, PFfirstbpage first, PFlastbpage last        *)
(*   frame    what each PFbpage holds; FreedFrame when it is not allocated *)
(*   hash     the hash table: page -> frame, NULL when it has no entry     *)
(*   numbpage PFnumbpage                                                   *)
(*   strategy pf_strategy                                                  *)
(*   file     the file each fd is open on: PFftab[fd].unixfd               *)
(*   disk     the pages in the files themselves, Absent past end of file   *)
(***************************************************************************)
EXTENDS Integers, Sequences, SequencesExt, FiniteSetsExt

CONSTANTS
  Fds,       \* indices of PFftab
  Pages,     \* page numbers a file may reach
  Frames,    \* memory blocks malloc can give for a PFbpage
  Files,     \* files in the file system
  Data,      \* contents of a pagebuf
  MaxBufs,   \* PF_MAX_BUFS
  Zeros,     \* the pagebuf of a hole in a file
  Junk,      \* a pagebuf nobody wrote as a whole: uninitialised or torn
  NULL,      \* no frame
  Absent,    \* no page at this place of the file
  Faults     \* which of "malloc", "read", "write" and "close" may fail

LIST_END == -1   \* PF_PAGE_LIST_END
USED == -2       \* PF_PAGE_USED

Keys == Fds \X Pages
NextFree == Pages \cup {LIST_END, USED}
FPage == [nextfree : NextFree, data : Data]
Strategies == {"LRU", "MRU"}

ASSUME PoolAssumption ==
  /\ MaxBufs \in Nat \ {0}
  /\ Pages \subseteq Nat /\ 0 \in Pages
  /\ Fds \subseteq Nat
  /\ Zeros \in Data /\ Junk \in Data
  /\ NULL \notin Frames
  /\ Absent \notin FPage

Frame == [fd : Fds \cup {-1}, page : Pages \cup {-1},
          fixed : BOOLEAN, dirty : BOOLEAN, fpage : FPage]
Hole == [nextfree |-> 0, data |-> Zeros]
FreedFrame == [fd |-> -1, page |-> -1, fixed |-> FALSE, dirty |-> FALSE,
               fpage |-> [nextfree |-> LIST_END, data |-> Junk]]
Pool == [list : Seq(Frames), frame : [Frames -> Frame],
         hash : [Keys -> Frames \cup {NULL}], numbpage : Nat,
         strategy : Strategies, file : [Fds -> Files \cup {NULL}],
         disk : [Files \X Pages -> FPage \cup {Absent}]]

Outcome(rc, s) == [rc |-> rc, s |-> s]
OnFault(kind, o) == {x \in {o} : kind \in Faults}

-----------------------------------------------------------------------------
(* What the pool holds. *)
KeyOf(s, f) == <<s.frame[f].fd, s.frame[f].page>>
Resident(s, k) == s.hash[k] # NULL
Fixed(s, k) == Resident(s, k) /\ s.frame[s.hash[k]].fixed
Place(s, k) == <<s.file[k[1]], k[2]>>
\* The page as its users see it: the buffered copy, else the one in the file.
Content(s, k) ==
  IF Resident(s, k) THEN s.frame[s.hash[k]].fpage ELSE s.disk[Place(s, k)]

\* No frame is linked twice, and PFnumbpage counts the linked frames.
ListSound(s) ==
  /\ IsInjective(s.list)
  /\ s.numbpage = Len(s.list)
  /\ s.numbpage <= MaxBufs
\* Every linked frame is entered in the hash table under the page it holds.
ListHashed(s) ==
  \A f \in Range(s.list) : KeyOf(s, f) \in Keys /\ s.hash[KeyOf(s, f)] = f
\* Every entry of the hash table leads to a linked frame holding that page.
HashLinked(s) ==
  \A k \in Keys : Resident(s, k) =>
    s.hash[k] \in Range(s.list) /\ KeyOf(s, s.hash[k]) = k
Consistent(s) == ListSound(s) /\ ListHashed(s) /\ HashLinked(s)

-----------------------------------------------------------------------------
(* The file system under PFreadfcn and PFwritefcn. *)

\* A write past end of file leaves a hole of zeros below it.
Extended(disk, place) ==
  [q \in DOMAIN disk |->
     IF q[1] = place[1] /\ q[2] < place[2] /\ disk[q] = Absent
     THEN Hole ELSE disk[q]]
Stored(disk, place, c) == [Extended(disk, place) EXCEPT ![place] = c]
\* A short write: nextfree, the first word of the page, and part of the rest.
Torn(disk, place, c) ==
  [Extended(disk, place) EXCEPT
     ![place] = IF @ = Absent THEN Absent ELSE [c EXCEPT !.data = Junk]]

PFreadfcn(s, k) ==
  (IF s.disk[Place(s, k)] = Absent
   THEN {[rc |-> "INCOMPLETEREAD"]}
   ELSE {[rc |-> "OK"]}) \cup OnFault("read", [rc |-> "UNIX"])

PFwritefcn(s, k, c) ==
  {Outcome("OK", [s EXCEPT !.disk = Stored(@, Place(s, k), c)])}
    \cup OnFault("write", Outcome("UNIX", s))
    \cup OnFault("write", Outcome("INCOMPLETEWRITE",
                   [s EXCEPT !.disk = Torn(@, Place(s, k), c)]))

-----------------------------------------------------------------------------
(* The buffer list and the hash table (hash.c, seen as the map it is). *)
Position(list, f) == CHOOSE i \in DOMAIN list : list[i] = f
PFbufUnlink(list, f) == RemoveAt(list, Position(list, f))
PFbufLinkHead(list, f) == Cons(f, list)
MoveToHead(list, f) == PFbufLinkHead(PFbufUnlink(list, f), f)

PFhashInsert(s, k, f) ==
  IF s.hash[k] # NULL
  THEN {Outcome("HASHPAGEEXIST", s)}
  ELSE {Outcome("OK", [s EXCEPT !.hash[k] = f])}
         \cup OnFault("malloc", Outcome("NOMEM", s))
PFhashDelete(s, k) == [s EXCEPT !.hash[k] = NULL]

\* Unlink a frame, count it out and free it.
FreeFrame(s, f) ==
  [s EXCEPT !.list = PFbufUnlink(@, f), !.numbpage = @ - 1,
            !.frame[f] = FreedFrame]

-----------------------------------------------------------------------------
(* PFbufInternalAlloc: its outcomes also name the frame, b. *)

\* Mutant: PFnumbpage++ forgotten.
NewFrame_NotCounted(s, f) ==
  [s EXCEPT !.list = PFbufLinkHead(@, f), !.frame[f] = FreedFrame]
NewFrame(s, f) ==
  [s EXCEPT !.list = PFbufLinkHead(@, f), !.numbpage = @ + 1,
            !.frame[f] = FreedFrame]

MallocFrame(s) ==
  {[rc |-> "OK", b |-> f, s |-> NewFrame(s, f)] : f \in Frames \ Range(s.list)}
    \cup OnFault("malloc", [rc |-> "NOMEM", b |-> NULL, s |-> s])

\* Mutant: the walk does not look at the fixed bit.
Unfixed_All(s) == DOMAIN s.list
Unfixed(s) == {i \in DOMAIN s.list : ~ s.frame[s.list[i]].fixed}
\* LRU walks from the tail, MRU from the head, to the first unfixed frame.
Victim(s) ==
  s.list[IF s.strategy = "LRU" THEN Max(Unfixed(s)) ELSE Min(Unfixed(s))]

\* Mutant: the victim's hash entry is left behind.
Reuse_StillHashed(s, f) ==
  [s EXCEPT !.list = MoveToHead(@, f), !.frame[f] = FreedFrame]

\* The victim's pagebuf is not cleared: the next owner finds the old bytes.
Reuse(s, f) ==
  [PFhashDelete(s, KeyOf(s, f)) EXCEPT
     !.list = MoveToHead(@, f),
     !.frame[f] = [FreedFrame EXCEPT !.fpage.data = s.frame[f].fpage.data]]

\* A dirty page is written back before it is given up; if not, it stays, dirty.
WriteBack(s, f) ==
  IF s.frame[f].dirty
  THEN PFwritefcn(s, KeyOf(s, f), s.frame[f].fpage)
  ELSE {Outcome("OK", s)}

\* Mutant: the frame is reused although the write back failed.
Evict_WriteUnchecked(s, f) ==
  {[rc |-> "OK", b |-> f, s |-> Reuse(w.s, f)] : w \in WriteBack(s, f)}
Evict(s, f) ==
  {IF w.rc = "OK"
   THEN [rc |-> "OK", b |-> f, s |-> Reuse(w.s, f)]
   ELSE [rc |-> w.rc, b |-> NULL, s |-> w.s] : w \in WriteBack(s, f)}

PFbufInternalAlloc(s) ==
  IF s.numbpage < MaxBufs THEN MallocFrame(s)
  ELSE IF Unfixed(s) = {} THEN {[rc |-> "NOBUF", b |-> NULL, s |-> s]}
  ELSE Evict(s, Victim(s))

-----------------------------------------------------------------------------
(* The calls of buf.c. *)

\* Set up frame f for page k, holding c, and enter it in the hash table; when
\* that fails the frame is unlinked and freed.
Install(s, k, f, c) ==
  {IF h.rc = "OK" THEN h ELSE Outcome(h.rc, FreeFrame(h.s, f)) :
     h \in PFhashInsert(
             [s EXCEPT !.frame[f] = [fd |-> k[1], page |-> k[2], fixed |-> TRUE,
                                     dirty |-> FALSE, fpage |-> c]], k, f)}

PFbufAlloc(s, k) ==
  IF Resident(s, k)
  THEN {Outcome("HASHPAGEEXIST", s)}
  ELSE UNION {IF a.rc # "OK" THEN {Outcome(a.rc, a.s)}
              ELSE Install(a.s, k, a.b,
                           [a.s.frame[a.b].fpage EXCEPT !.nextfree = USED]) :
                a \in PFbufInternalAlloc(s)}

\* Mutant: a hit on a page that is fixed already leaves the list alone.
Hit_FixedNotMoved(s, k) ==
  LET f == s.hash[k]
  IN  IF s.frame[f].fixed THEN Outcome("PAGEFIXED", s)
      ELSE Outcome("OK", [s EXCEPT !.list = MoveToHead(@, f),
                                   !.frame[f].fixed = TRUE])
\* A hit fixes the page if nobody holds it and moves it to the head either way.
Hit(s, k) ==
  LET f == s.hash[k]
  IN  Outcome(IF s.frame[f].fixed THEN "PAGEFIXED" ELSE "OK",
              [s EXCEPT !.list = MoveToHead(@, f), !.frame[f].fixed = TRUE])

\* Mutant: the frame is left linked when the read fails.
ReadInto_FrameKept(s, k, f) ==
  UNION {IF r.rc = "OK" THEN Install(s, k, f, s.disk[Place(s, k)])
         ELSE {Outcome(r.rc, s)} : r \in PFreadfcn(s, k)}
\* The frame is taken, and its old page gone, before the read is tried.
ReadInto(s, k, f) ==
  UNION {IF r.rc = "OK" THEN Install(s, k, f, s.disk[Place(s, k)])
         ELSE {Outcome(r.rc, FreeFrame(s, f))} : r \in PFreadfcn(s, k)}

PFbufGet(s, k) ==
  IF Resident(s, k)
  THEN {Hit(s, k)}
  ELSE UNION {IF a.rc # "OK" THEN {Outcome(a.rc, a.s)}
              ELSE ReadInto(a.s, k, a.b) : a \in PFbufInternalAlloc(s)}

\* Mutant: the dirty bit is overwritten, not accumulated.
PFbufUnfix_DirtyAssigned(s, k, dirty) ==
  IF ~ Fixed(s, k) THEN Outcome("PAGEUNFIXED", s)
  ELSE Outcome("OK", [s EXCEPT !.frame[s.hash[k]].fixed = FALSE,
                               !.frame[s.hash[k]].dirty = dirty])
Released(b, dirty) == [b EXCEPT !.fixed = FALSE, !.dirty = @ \/ dirty]
PFbufUnfix(s, k, dirty) ==
  IF ~ Resident(s, k) THEN Outcome("HASHNOTFOUND", s)
  ELSE IF ~ Fixed(s, k) THEN Outcome("PAGEUNFIXED", s)
  ELSE Outcome("OK", [s EXCEPT !.frame[s.hash[k]] = Released(@, dirty)])

PFbufUsed(s, k) ==
  IF ~ Resident(s, k) THEN Outcome("HASHNOTFOUND", s)
  ELSE Outcome("OK", [s EXCEPT !.frame[s.hash[k]].fpage.nextfree = USED])

PFbufSetStrategy(s, strategy) == [s EXCEPT !.strategy = strategy]

\* Mutant: fixed frames are passed over.
FramesOf_Unfixed(s, fd) ==
  {i \in DOMAIN s.list : s.frame[s.list[i]].fd = fd /\ ~ s.frame[s.list[i]].fixed}
\* PFbufReleaseFile walks the list from the head; one round of its loop, at the
\* first frame of fd that is left.  "MORE": the walk goes on.
FramesOf(s, fd) == {i \in DOMAIN s.list : s.frame[s.list[i]].fd = fd}
ReleaseFrame(s, f) ==
  IF s.frame[f].fixed
  THEN {Outcome("PAGEFIXED", s)}
  ELSE {IF w.rc = "OK"
        THEN Outcome("MORE", FreeFrame(PFhashDelete(w.s, KeyOf(s, f)), f))
        ELSE w : w \in WriteBack(s, f)}
PFbufReleaseStep(s, fd) ==
  IF FramesOf(s, fd) = {} THEN {Outcome("OK", s)}
  ELSE ReleaseFrame(s, s.list[Min(FramesOf(s, fd))])

EmptyPool(file, disk) ==
  [list |-> << >>, frame |-> [f \in Frames |-> FreedFrame],
   hash |-> [k \in Keys |-> NULL], numbpage |-> 0, strategy |-> "LRU",
   file |-> file, disk |-> disk]
=============================================================================
