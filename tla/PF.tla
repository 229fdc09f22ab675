--------------------------------- MODULE PF ---------------------------------
(***************************************************************************)
(* The paged-file layer (pflayer/pf.c): file table, file headers and free  *)
(* lists of pages, on top of the buffer manager of BufOps.  One action per *)
(* PF_ call; the two calls that loop, PF_CloseFile and PF_GetNextPage, take*)
(* one step per round, and no other call runs meanwhile.  A call that only *)
(* returns an error (bad fd, bad page, table full, no such file) changes   *)
(* nothing and is not an action.                                           *)
(*                                                                         *)
(* The callers are any number of holders of pages.  They write only pages  *)
(* they were given, unfix what they allocated or changed as dirty, and do  *)
(* not open a file that is open (pf.c:537 and IMP.DOC's rules for callers: *)
(* a file may be opened twice, and is corrupted if both change it).        *)
(***************************************************************************)
EXTENDS BufOps

VARIABLES
  pool,  \* the buffer pool, with the pages in the files
  ftab,  \* PFftab but for fname and unixfd, which are pool.file: NULL when free
  dhdr,  \* the header in each file, Absent when there is no such file
  owed,  \* pages changed since they were fixed and not yet reported dirty
  call   \* the looping call in progress

vars == <<pool, ftab, dhdr, owed, call>>

Hdr == [firstfree : NextFree, numpages : Nat]
FtabEntry == [hdr : Hdr, hdrchanged : BOOLEAN]
\* What marks nothing is neither a pagebuf, a header nor a file.
ASSUME PFAssumption ==
  Absent \notin Data /\ Absent \notin Hdr /\ NULL \notin Files
NoCall == [op |-> "none"]
Idle == call = NoCall

Open == {fd \in Fds : pool.file[fd] # NULL}
ValidPages(fd) == {p \in Pages : p < ftab[fd].hdr.numpages}
ValidKeys == {k \in Keys : k[1] \in Open /\ k[2] \in ValidPages(k[1])}
NextFreeOf(s, k) == Content(s, k).nextfree
Held == {k \in Keys : Fixed(pool, k)}

EmptyHdr == [firstfree |-> LIST_END, numpages |-> 0]
ClosedEntry == [hdr |-> EmptyHdr, hdrchanged |-> FALSE]

Init ==
  /\ pool = EmptyPool([fd \in Fds |-> NULL], [q \in Files \X Pages |-> Absent])
  /\ ftab = [fd \in Fds |-> ClosedEntry]
  /\ dhdr = [name \in Files |-> Absent]
  /\ owed = {}
  /\ call = NoCall

-----------------------------------------------------------------------------
(* Files. *)

PF_CreateFile(name) ==
  /\ Idle
  /\ dhdr[name] = Absent
  /\ dhdr' = [dhdr EXCEPT ![name] = EmptyHdr]
  /\ UNCHANGED <<pool, ftab, owed, call>>

IsOpen(name) == \E fd \in Fds : pool.file[fd] = name

PF_DestroyFile(name) ==
  /\ Idle
  /\ dhdr[name] # Absent
  /\ ~ IsOpen(name)
  /\ dhdr' = [dhdr EXCEPT ![name] = Absent]
  /\ pool' = [pool EXCEPT !.disk = [q \in DOMAIN @ |->
                                      IF q[1] = name THEN Absent ELSE @[q]]]
  /\ UNCHANGED <<ftab, owed, call>>

\* PFftabFindFree takes the first free slot.  A file that is open can be opened
\* again here; that no caller does is Next's.
PF_OpenFile(name) ==
  /\ Idle
  /\ dhdr[name] # Absent
  /\ Fds \ Open # {}
  /\ LET fd == Min(Fds \ Open)
     IN  /\ ftab' = [ftab EXCEPT ![fd] = [hdr |-> dhdr[name], hdrchanged |-> FALSE]]
         /\ pool' = [pool EXCEPT !.file[fd] = name]
  /\ UNCHANGED <<dhdr, owed, call>>

PF_CloseFile(fd) ==
  /\ Idle
  /\ fd \in Open
  /\ call' = [op |-> "Close", fd |-> fd]
  /\ UNCHANGED <<pool, ftab, dhdr, owed>>

\* Mutant: hdrchanged is cleared before the write is tried.
CloseHeader_FlagCleared(fd) ==
  LET name == pool.file[fd]
  IN  \/ /\ dhdr' = IF ftab[fd].hdrchanged THEN [dhdr EXCEPT ![name] = ftab[fd].hdr]
                                           ELSE dhdr
         /\ ftab' = [ftab EXCEPT ![fd] = ClosedEntry]
         /\ pool' = [pool EXCEPT !.file[fd] = NULL]
      \/ /\ "write" \in Faults
         /\ ftab[fd].hdrchanged
         /\ ftab' = [ftab EXCEPT ![fd].hdrchanged = FALSE]
         /\ UNCHANGED <<pool, dhdr>>
\* Closing the header: written back if it changed, whole or, when write fails,
\* not at all or only its first word; then the file is closed and the slot given
\* up.  When close fails the entry stays, its header no longer marked changed.
\* Its descriptor may be dead: then every read and write of it fails, which
\* Faults allows.  (That Unix hands the number to another file is left out.)
CloseHeader(fd) ==
  LET name == pool.file[fd]
      hdr == ftab[fd].hdr
  IN  \/ /\ dhdr' = IF ftab[fd].hdrchanged THEN [dhdr EXCEPT ![name] = hdr]
                                           ELSE dhdr
         /\ ftab' = [ftab EXCEPT ![fd] = ClosedEntry]
         /\ pool' = [pool EXCEPT !.file[fd] = NULL]
      \/ /\ "write" \in Faults
         /\ ftab[fd].hdrchanged
         /\ \/ dhdr' = dhdr
            \/ dhdr' = [dhdr EXCEPT ![name].firstfree = hdr.firstfree]
         /\ UNCHANGED <<pool, ftab>>
      \/ /\ "close" \in Faults
         /\ dhdr' = IF ftab[fd].hdrchanged THEN [dhdr EXCEPT ![name] = hdr] ELSE dhdr
         /\ ftab' = [ftab EXCEPT ![fd].hdrchanged = FALSE]
         /\ UNCHANGED pool

CloseStep ==
  /\ call.op = "Close"
  /\ \E o \in PFbufReleaseStep(pool, call.fd) :
       IF o.rc = "OK"
       THEN CloseHeader(call.fd) /\ call' = NoCall
       ELSE /\ pool' = o.s
            /\ call' = IF o.rc = "MORE" THEN call ELSE NoCall
            /\ UNCHANGED <<ftab, dhdr>>
  /\ UNCHANGED owed

-----------------------------------------------------------------------------
(* Pages. *)

\* Mutant: a free page come upon is left fixed.
GetUsed_LeftFixed(s, k) ==
  {IF o.rc = "OK" /\ NextFreeOf(o.s, k) # USED THEN Outcome("FREE", o.s)
   ELSE o : o \in PFbufGet(s, k)}
\* PFbufGet, for callers that want a used page: a free one is unfixed again.
GetUsed(s, k) ==
  {IF o.rc = "OK" /\ NextFreeOf(o.s, k) # USED
   THEN Outcome("FREE", PFbufUnfix(o.s, k, FALSE).s)
   ELSE o : o \in PFbufGet(s, k)}

PF_GetThisPage(k) ==
  /\ Idle
  /\ k \in ValidKeys
  /\ \E o \in GetUsed(pool, k) : pool' = o.s
  /\ UNCHANGED <<ftab, dhdr, owed, call>>

\* PF_GetFirstPage is PF_GetNextPage from page -1.
PF_GetNextPage(fd, from) ==
  /\ Idle
  /\ fd \in Open
  /\ from \in ValidPages(fd) \cup {-1}
  /\ call' = [op |-> "Next", fd |-> fd, from |-> from, at |-> from + 1]
  /\ UNCHANGED <<pool, ftab, dhdr, owed>>

\* Mutant: a page that cannot be had is passed over.
NextStep_SkipsFixed ==
  /\ call.op = "Next"
  /\ IF call.at < ftab[call.fd].hdr.numpages
     THEN \E o \in GetUsed(pool, <<call.fd, call.at>>) :
            /\ pool' = o.s
            /\ call' = IF o.rc # "OK" THEN [call EXCEPT !.at = @ + 1] ELSE NoCall
     ELSE call' = NoCall /\ UNCHANGED pool
  /\ UNCHANGED <<ftab, dhdr, owed>>
NextStep ==
  /\ call.op = "Next"
  /\ IF call.at < ftab[call.fd].hdr.numpages
     THEN \E o \in GetUsed(pool, <<call.fd, call.at>>) :
            /\ pool' = o.s
            /\ call' = IF o.rc = "FREE" THEN [call EXCEPT !.at = @ + 1] ELSE NoCall
     ELSE call' = NoCall /\ UNCHANGED pool
  /\ UNCHANGED <<ftab, dhdr, owed>>

\* The outcomes of PF_AllocPage: pool, header and the page handed out.
TakeFree(s, hdr, fd) ==
  LET k == <<fd, hdr.firstfree>>
  IN  {[rc |-> o.rc, key |-> k,
        s |-> IF o.rc = "OK" THEN PFbufUsed(o.s, k).s ELSE o.s,
        hdr |-> IF o.rc = "OK" THEN [hdr EXCEPT !.firstfree = NextFreeOf(o.s, k)]
                               ELSE hdr] : o \in PFbufGet(s, k)}
Extend(s, hdr, fd) ==
  LET k == <<fd, hdr.numpages>>
  IN  {[rc |-> o.rc, key |-> k,
        s |-> IF o.rc = "OK" THEN PFbufUsed(o.s, k).s ELSE o.s,
        hdr |-> IF o.rc = "OK" THEN [hdr EXCEPT !.numpages = @ + 1] ELSE hdr] :
          o \in PFbufAlloc(s, k)}
AllocOutcomes(s, hdr, fd) ==
  IF hdr.firstfree # LIST_END THEN TakeFree(s, hdr, fd) ELSE Extend(s, hdr, fd)

\* Pages bounds the length of a file.
PF_AllocPage(fd) ==
  /\ Idle
  /\ fd \in Open
  /\ ftab[fd].hdr.firstfree # LIST_END \/ ftab[fd].hdr.numpages \in Pages
  /\ \E o \in AllocOutcomes(pool, ftab[fd].hdr, fd) :
       /\ pool' = o.s
       /\ ftab' = [ftab EXCEPT ![fd].hdr = o.hdr,
                               ![fd].hdrchanged = @ \/ o.rc = "OK"]
       /\ owed' = IF o.rc = "OK" THEN owed \cup {o.key} ELSE owed
  /\ UNCHANGED <<dhdr, call>>

\* Mutant: the freed page is unfixed as unchanged.
Freed_Clean(s, k, firstfree) ==
  PFbufUnfix([s EXCEPT !.frame[s.hash[k]].fpage.nextfree = firstfree], k, FALSE).s
\* The held page k is chained before firstfree and unfixed dirty.
Freed(s, k, firstfree) ==
  PFbufUnfix([s EXCEPT !.frame[s.hash[k]].fpage.nextfree = firstfree], k, TRUE).s

PF_DisposePage(k) ==
  /\ Idle
  /\ k \in ValidKeys
  /\ \E o \in GetUsed(pool, k) :
       IF o.rc = "OK"
       THEN /\ pool' = Freed(o.s, k, ftab[k[1]].hdr.firstfree)
            /\ ftab' = [ftab EXCEPT ![k[1]].hdr.firstfree = k[2],
                                    ![k[1]].hdrchanged = TRUE]
       ELSE pool' = o.s /\ UNCHANGED ftab
  /\ UNCHANGED <<dhdr, owed, call>>

\* A page that is not buffered counts as unfixed already.
UnfixOutcome(s, k, dirty) ==
  IF Resident(s, k) THEN PFbufUnfix(s, k, dirty) ELSE Outcome("OK", s)
PF_UnfixPage(k, dirty) ==
  /\ Idle
  /\ k \in ValidKeys
  /\ k \in owed => dirty
  /\ pool' = UnfixOutcome(pool, k, dirty).s
  /\ owed' = owed \ {k}
  /\ UNCHANGED <<ftab, dhdr, call>>

PF_SetStrategy(strategy) ==
  /\ Idle
  /\ pool' = PFbufSetStrategy(pool, strategy)
  /\ UNCHANGED <<ftab, dhdr, owed, call>>

\* A holder writes the pagebuf it was given.
WritePage(k, data) ==
  /\ Idle
  /\ k \in Held
  /\ pool' = [pool EXCEPT !.frame[pool.hash[k]].fpage.data = data]
  /\ owed' = owed \cup {k}
  /\ UNCHANGED <<ftab, dhdr, call>>

Next ==
  \/ \E name \in Files :
       \/ PF_CreateFile(name) \/ PF_DestroyFile(name)
       \/ ~ IsOpen(name) /\ PF_OpenFile(name)
  \/ \E fd \in Fds :
       \/ PF_CloseFile(fd)
       \/ PF_AllocPage(fd)
       \/ \E from \in Pages \cup {-1} : PF_GetNextPage(fd, from)
  \/ \E k \in Keys :
       \/ PF_GetThisPage(k)
       \/ PF_DisposePage(k)
       \/ \E dirty \in BOOLEAN : PF_UnfixPage(k, dirty)
       \/ \E data \in Data : WritePage(k, data)
  \/ \E strategy \in Strategies : PF_SetStrategy(strategy)
  \/ CloseStep
  \/ NextStep

Spec == Init /\ [][Next]_vars
-----------------------------------------------------------------------------
(* Files as their users see them, open or closed. *)
Existing == {name \in Files : dhdr[name] # Absent}
FdOf(name) == CHOOSE fd \in Fds : pool.file[fd] = name
FileHdr(name) == IF IsOpen(name) THEN ftab[FdOf(name)].hdr ELSE dhdr[name]
FilePage(name, p) ==
  IF IsOpen(name) THEN Content(pool, <<FdOf(name), p>>)
                  ELSE pool.disk[<<name, p>>]
FilePages(name) == {p \in Pages : p < FileHdr(name).numpages}
UsedData(hdr, p, c) ==
  IF p < hdr.numpages /\ c.nextfree = USED THEN c.data ELSE Absent
FileData(name) ==
  IF dhdr[name] = Absent THEN [p \in Pages |-> Absent]
  ELSE LET hdr == FileHdr(name)
       IN  [p \in Pages |-> UsedData(hdr, p, FilePage(name, p))]

(* Properties. *)

\* Every variable has its type.
TypeOK ==
  /\ pool \in Pool
  /\ ftab \in [Fds -> FtabEntry]
  /\ dhdr \in [Files -> Hdr \cup {Absent}]
  /\ owed \subseteq Keys
  /\ call \in {NoCall} \cup [op : {"Close"}, fd : Fds]
              \cup [op : {"Next"}, fd : Fds, from : Pages \cup {-1}, at : Nat]

\* The calls of pf.c, whatever fails inside them, leave the buffer list, the
\* hash table and the frame count telling the same story.
PoolConsistent == Consistent(pool)

\* The free list of a file, open or closed, runs from its header through
\* exactly the pages that are not used, each once, and ends: none is lost to
\* allocation, none in use can be allocated again (pf.c:439-447, 523-526), and
\* header and pages still agree after a close that failed and was retried
\* (pf.c:294-316).
FreeListExact ==
  \A name \in Existing :
    \E order \in SetToSeqs({p \in FilePages(name) : FileData(name)[p] = Absent}) :
      LET at(i) == IF i \in DOMAIN order THEN order[i] ELSE LIST_END
      IN  /\ FileHdr(name).firstfree = at(1)
          /\ \A i \in DOMAIN order : FilePage(name, order[i]).nextfree = at(i + 1)

\* Only used pages of open files stay fixed: the calls that come upon a free
\* page unfix it again, and a disposed page is in nobody's hands (pf.c:374-376,
\* 414-421, 513-529).
HeldAreUsed == \A k \in Held : k \in ValidKeys /\ NextFreeOf(pool, k) = USED

\* Closing a file leaves none of its pages buffered, so the next file opened
\* at the same fd cannot be served pages of this one (pf.c:293-295, 326).
BufferedPagesOpen == \A k \in Keys : Resident(pool, k) => k \in ValidKeys

\* PF_GetNextPage skips only free pages, also while its own reads evict the
\* frames of pages it has passed (pf.c:363-377).
SkipsOnlyFree ==
  call.op = "Next" =>
    \A p \in Pages : call.from < p /\ p < call.at =>
      NextFreeOf(pool, <<call.fd, p>>) # USED

\* The layer implements PagedFile: a live page keeps its data and stays live
\* until it is disposed of, and a disposed page stays gone until it is allocated
\* again, through evictions, closes (failed, retried or done), reopening, and
\* every failed malloc, read and write (pf.c, whole file).
File == INSTANCE PagedFile WITH
  None <- Absent,
  exists <- Existing,
  page <- [name \in Files |-> FileData(name)],
  pinned <- {<<pool.file[k[1]], k[2]>> : k \in Held}
FileSpec == File!Spec
=============================================================================
