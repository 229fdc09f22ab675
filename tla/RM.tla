--------------------------------- MODULE RM ---------------------------------
(***************************************************************************)
(* The record manager (rmlayer/rm.c): one file of slotted pages, the calls *)
(* that insert, delete and fetch records, and scans over them.  The calls  *)
(* of one process do not interleave, and each of them gives back the page  *)
(* it fixed, so a call is one action, but for RM_GetNextRec, whose two     *)
(* loops take a step for each page and each slot while no other call runs. *)
(* The calls of several callers interleave, and the calls of a scan        *)
(* interleave with everything else.                                        *)
(*                                                                         *)
(* The paged file below is what PagedFile promises of it: pages 0, 1, ...  *)
(* that keep their contents, none ever disposed of.  Any PF_ call that     *)
(* gets or allocates a page may be refused ("page" \in Faults): no buffer  *)
(* to be had, the page fixed by another caller, a failed read or write.    *)
(*                                                                         *)
(* A page is PAGE_SIZE units of 8 bytes, the size of both RM_PageHeader    *)
(* and RM_Slot: unit 0 is the header, units 1, 2, ... the slot directory,  *)
(* and records, whose lengths are multiples of a unit, fill it from the    *)
(* end.  A record may be longer than a page has room for: nothing checks   *)
(* it (rm.c:187), and its slot comes to lie over it.  Only a record as     *)
(* long as a page, which would lie over the header too, is left out.       *)
(***************************************************************************)
EXTENDS Naturals, Integers, Sequences, FiniteSets, FiniteSetsExt

CONSTANTS
  PAGE_SIZE,  \* units in a page
  MaxPages,   \* bound: no file grows beyond this many pages
  Records,    \* the records callers insert
  Length,     \* their lengths in units
  Scans,      \* the scan handles
  Faults,     \* {"page"} if PF_ calls may be refused, or {}
  Absent,     \* what file is when there is no file
  Blank,      \* a unit nothing was written to
  Never, Gone \* what a RID holds before its record is inserted, and after its deletion

ASSUME RMAssumption ==
  /\ PAGE_SIZE \in Nat /\ PAGE_SIZE > 2
  /\ MaxPages \in Nat \ {0}
  /\ Length \in [Records -> 1 .. PAGE_SIZE - 1]
  /\ Never # Gone /\ Never \notin Records /\ Gone \notin Records

VARIABLES
  file,   \* the pages of the file, Absent when there is no file
  open,   \* fh.pf_fd # -1
  scan,   \* the scan handles
  told,   \* for each scan, what its caller has seen of it so far
  acked,  \* for each RID, what the callers were told is there
  call    \* for each scan, where RM_GetNextRec is: "page", "slots" or not running

vars == <<file, open, scan, told, acked, call>>

HDR == 1
SLOT == 1
TOMBSTONE == -1

\* What a unit of a page may hold.
Slots == [offset : {TOMBSTONE} \cup 0 .. PAGE_SIZE, length : 0 .. PAGE_SIZE]
Headers == [numSlots : 0 .. PAGE_SIZE, freeSpaceOffset : 0 .. PAGE_SIZE]
UnitsOf == UNION {{[of |-> r, unit |-> j] : j \in 0 .. Length[r] - 1} : r \in Records}
Page == [0 .. PAGE_SIZE - 1 -> Headers \cup Slots \cup UnitsOf \cup {Blank}]

ASSUME AbsentAssumption == \A n \in 0 .. MaxPages : Absent \notin [0 .. n - 1 -> Page]

NewPage == [a \in 0 .. PAGE_SIZE - 1 |-> Blank]
NumPages(f) == Cardinality(DOMAIN f)
NumSlots(m) == m[0].numSlots
SlotAt(m, i) == m[HDR + i * SLOT]
Units(r) == [j \in 0 .. Length[r] - 1 |-> [of |-> r, unit |-> j]]
\* Does an empty page have room for r?
Fits(r) == HDR + SLOT + Length[r] <= PAGE_SIZE
\* What a page keeps of r: a record that does not fit has its slot for first unit.
Stored(r) ==
  IF Fits(r) THEN Units(r)
  ELSE [Units(r) EXCEPT ![0] = [offset |-> HDR, length |-> Length[r]]]
\* The bytes a slot describes.
Data(m, slot) == [j \in 0 .. slot.length - 1 |-> m[slot.offset + j]]

\* A record takes at least one unit and its slot; one slot number more than there
\* can be is asked for.
RIDs == (0 .. MaxPages - 1) \X (0 .. (PAGE_SIZE - HDR) \div (SLOT + 1))
\* What PF keeps of a page that was changed from old to new: everything if it
\* was unfixed as dirty; if not, the old contents come back with an eviction.
Unfixed(old, new, dirty) == IF dirty THEN {new} ELSE {old, new}

-----------------------------------------------------------------------------
(* Pages. *)

RM_InitPage(m) == [m EXCEPT ![0] = [numSlots |-> 0, freeSpaceOffset |-> PAGE_SIZE]]

FreeSpace(m) == m[0].freeSpaceOffset - (HDR + NumSlots(m) * SLOT)

\* Mutant: the slot that the record needs is forgotten.
HasRoom_NoSlot(m, len) == FreeSpace(m) >= len
HasRoom(m, len) == FreeSpace(m) >= len + SLOT

\* Record r copied into page m below the records there, and its slot appended.
\* Mutant: the slot of a deleted record is used again.
Inserted_SlotReuse(m, r) ==
  LET off == m[0].freeSpaceOffset - Length[r]
      dead == {i \in 0 .. NumSlots(m) - 1 : SlotAt(m, i).offset = TOMBSTONE}
      n == IF dead = {} THEN NumSlots(m) ELSE Min(dead)
      copied == [a \in DOMAIN m |-> IF a \in off .. off + Length[r] - 1
                                    THEN Units(r)[a - off] ELSE m[a]]
  IN  [copied EXCEPT ![HDR + n * SLOT] = [offset |-> off, length |-> Length[r]],
                     ![0] = [numSlots |-> Max({n + 1, NumSlots(m)}), freeSpaceOffset |-> off]]
Inserted(m, r) ==
  LET off == m[0].freeSpaceOffset - Length[r]
      n == NumSlots(m)
      copied == [a \in DOMAIN m |-> IF a \in off .. off + Length[r] - 1
                                    THEN Units(r)[a - off] ELSE m[a]]
  IN  [copied EXCEPT ![HDR + n * SLOT] = [offset |-> off, length |-> Length[r]],
                     ![0] = [numSlots |-> n + 1, freeSpaceOffset |-> off]]

Deleted(m, i) == [m EXCEPT ![HDR + i * SLOT].offset = TOMBSTONE]

\* The answer of RM_GetRec; RM_DeleteRec refuses what RM_GetRec refuses.
RM_GetRec(f, rid) ==
  IF rid[1] \notin DOMAIN f THEN [rc |-> "PFE_INVALIDPAGE"]
  ELSE LET m == f[rid[1]]
           slot == SlotAt(m, rid[2])
       IN  IF rid[2] >= NumSlots(m) THEN [rc |-> "-1"]
           ELSE IF slot.offset = TOMBSTONE THEN [rc |-> "-2"]
           ELSE [rc |-> "PFE_OK", data |-> Data(m, slot)]

LiveRIDs(f) == {rid \in RIDs : RM_GetRec(f, rid).rc = "PFE_OK"}

-----------------------------------------------------------------------------
(* The file. *)

ClosedScan == [open |-> FALSE, page |-> -1, slot |-> -1]
NothingTold == [due |-> {}, got |-> <<>>, eof |-> FALSE, refused |-> FALSE]
Idle == \A s \in Scans : call[s] = "none"

Init ==
  /\ file = Absent
  /\ open = FALSE
  /\ scan = [s \in Scans |-> ClosedScan]
  /\ told = [s \in Scans |-> NothingTold]
  /\ acked = [rid \in RIDs |-> Never]
  /\ call = [s \in Scans |-> "none"]

RM_CreateFile ==
  /\ Idle
  /\ file = Absent
  /\ file' = <<>>
  /\ UNCHANGED <<open, scan, told, acked, call>>

\* Mutant: a file is destroyed though it is open.
RM_DestroyFile_Open ==
  /\ Idle
  /\ file # Absent
  /\ file' = Absent
  /\ told' = [s \in Scans |-> [told[s] EXCEPT !.due = {}]]
  /\ acked' = [rid \in RIDs |-> Never]
  /\ UNCHANGED <<open, scan, call>>
RM_DestroyFile ==
  /\ Idle
  /\ file # Absent
  /\ ~ open
  /\ file' = Absent
  /\ told' = [s \in Scans |-> [told[s] EXCEPT !.due = {}]]
  /\ acked' = [rid \in RIDs |-> Never]
  /\ UNCHANGED <<open, scan, call>>

RM_OpenFile ==
  /\ Idle
  /\ file # Absent
  /\ ~ open
  /\ open' = TRUE
  /\ UNCHANGED <<file, scan, told, acked, call>>

RM_CloseFile ==
  /\ Idle
  /\ open
  /\ open' = FALSE
  /\ UNCHANGED <<file, scan, told, acked, call>>

\* The first page with room for len units; a new, empty page if there is none.
\* The room of a new page is not looked at.
RM_FindFreePage(len) ==
  LET n == NumPages(file)
      fits == {p \in DOMAIN file : HasRoom(file[p], len)}
  IN  IF fits # {} THEN [pageNum |-> Min(fits), file |-> file]
      ELSE [pageNum |-> n,
            file |-> [p \in 0 .. n |-> IF p = n THEN RM_InitPage(NewPage) ELSE file[p]]]

RM_InsertRec(r) ==
  /\ Idle
  /\ open
  /\ LET o == RM_FindFreePage(Length[r])
         old == o.file[o.pageNum]
     IN  /\ o.pageNum < MaxPages
         /\ \/ /\ \E m \in Unfixed(old, Inserted(old, r), TRUE) :
                    file' = [o.file EXCEPT ![o.pageNum] = m]
               /\ acked' = [acked EXCEPT ![<<o.pageNum, NumSlots(old)>>] = r]
            \* the page was found, or made, but cannot be fixed
            \/ /\ "page" \in Faults
               /\ file' = o.file
               /\ UNCHANGED acked
  /\ UNCHANGED <<open, scan, told, call>>

\* Mutant: the page with the tombstone is given back as unchanged.
RM_DeleteRec_Clean(rid) ==
  /\ Idle
  /\ open
  /\ rid \in LiveRIDs(file)
  /\ LET old == file[rid[1]]
     IN  \E m \in Unfixed(old, Deleted(old, rid[2]), FALSE) :
           file' = [file EXCEPT ![rid[1]] = m]
  /\ told' = [s \in Scans |-> [told[s] EXCEPT !.due = @ \ {rid}]]
  /\ acked' = [acked EXCEPT ![rid] = Gone]
  /\ UNCHANGED <<open, scan, call>>
RM_DeleteRec(rid) ==
  /\ Idle
  /\ open
  /\ rid \in LiveRIDs(file)
  /\ LET old == file[rid[1]]
     IN  \E m \in Unfixed(old, Deleted(old, rid[2]), TRUE) :
           file' = [file EXCEPT ![rid[1]] = m]
  /\ told' = [s \in Scans |-> [told[s] EXCEPT !.due = @ \ {rid}]]
  /\ acked' = [acked EXCEPT ![rid] = Gone]
  /\ UNCHANGED <<open, scan, call>>

-----------------------------------------------------------------------------
(* Scans.  A caller asks until it is told RM_EOF (testrm.c:85).            *)

RM_ScanOpen(s) ==
  /\ Idle
  /\ open
  /\ ~ scan[s].open
  /\ scan' = [scan EXCEPT ![s] = [open |-> TRUE, page |-> -1, slot |-> -1]]
  /\ told' = [told EXCEPT ![s] = [NothingTold EXCEPT !.due = LiveRIDs(file)]]
  /\ UNCHANGED <<file, open, acked, call>>

RM_ScanClose(s) ==
  /\ Idle
  /\ scan[s].open
  /\ scan' = [scan EXCEPT ![s] = ClosedScan]
  /\ told' = [told EXCEPT ![s] = NothingTold]
  /\ UNCHANGED <<file, open, acked, call>>

RM_GetNextRec(s) ==
  /\ Idle
  /\ scan[s].open
  /\ ~ told[s].eof
  /\ call' = [call EXCEPT ![s] = "page"]
  /\ UNCHANGED <<file, open, scan, told, acked>>

Place(s) == <<scan[s].page, scan[s].slot>>
ScanAt(s, p, i) == scan' = [scan EXCEPT ![s].page = p, ![s].slot = i]
Walk(s) == call' = [call EXCEPT ![s] = "slots"]
Return(s) == call' = [call EXCEPT ![s] = "none"]

\* The caller is told RM_EOF; the scan stays where it is.
\* Mutant: the error of PF_GetThisPage is passed on in its place.
TellEOF_Error(s, refused) == Return(s) /\ UNCHANGED <<scan, told>>
TellEOF(s, refused) ==
  /\ Return(s)
  /\ told' = [told EXCEPT ![s].eof = TRUE, ![s].refused = refused]
  /\ UNCHANGED scan

\* The page that the scan is at, the first of the file to begin with, is fixed.
Wanted(s) == IF scan[s].page = -1 THEN 0 ELSE scan[s].page
GetPage(s) ==
  /\ call[s] = "page"
  /\ open
  /\ IF Wanted(s) \notin DOMAIN file THEN TellEOF(s, FALSE)
     ELSE /\ Walk(s)
          /\ IF scan[s].page = -1 THEN ScanAt(s, 0, 0) ELSE UNCHANGED scan
          /\ UNCHANGED told
  /\ UNCHANGED <<file, open, acked>>

\* PF refuses the page, or the file has been closed.  For the first page of the
\* scan the caller gets the error, and nothing changes; any other page the scan
\* takes for the end of the file.
GetPageRefused(s) ==
  /\ call[s] = "page"
  /\ open => "page" \in Faults /\ Wanted(s) \in DOMAIN file
  /\ IF scan[s].page = -1 THEN Return(s) /\ UNCHANGED <<scan, told>>
     ELSE TellEOF(s, TRUE)
  /\ UNCHANGED <<file, open, acked>>

\* Mutant: the slots of deleted records are returned.
InUse_Any(m, i) == i < NumSlots(m)
InUse(m, i) == i < NumSlots(m) /\ SlotAt(m, i).offset # TOMBSTONE

\* The record of the slot is returned; the scan waits at the next slot.
\* Mutant: the slot is not advanced past the record returned.
ReturnRec_NotAdvanced(s) ==
  /\ call[s] = "slots"
  /\ InUse(file[scan[s].page], scan[s].slot)
  /\ told' = [told EXCEPT ![s].got = IF Len(@) < 9 THEN Append(@, Place(s)) ELSE @]
  /\ Return(s)
  /\ UNCHANGED <<file, open, scan, acked>>
ReturnRec(s) ==
  /\ call[s] = "slots"
  /\ InUse(file[scan[s].page], scan[s].slot)
  /\ told' = [told EXCEPT ![s].got = Append(@, Place(s))]
  /\ ScanAt(s, scan[s].page, scan[s].slot + 1)
  /\ Return(s)
  /\ UNCHANGED <<file, open, acked>>

\* Mutant: the slot is not advanced past a tombstone.
SkipSlot_Stays(s) ==
  /\ call[s] = "slots"
  /\ scan[s].slot < NumSlots(file[scan[s].page])
  /\ ~ InUse(file[scan[s].page], scan[s].slot)
  /\ UNCHANGED vars
SkipSlot(s) ==
  /\ call[s] = "slots"
  /\ scan[s].slot < NumSlots(file[scan[s].page])
  /\ ~ InUse(file[scan[s].page], scan[s].slot)
  /\ ScanAt(s, scan[s].page, scan[s].slot + 1)
  /\ UNCHANGED <<file, open, told, acked, call>>

\* Mutant: the slot number is kept when the page changes.
NextPage_SlotKept(s) ==
  /\ call[s] = "slots"
  /\ scan[s].slot >= NumSlots(file[scan[s].page])
  /\ ScanAt(s, scan[s].page + 1, scan[s].slot)
  /\ call' = [call EXCEPT ![s] = "page"]
  /\ UNCHANGED <<file, open, told, acked>>
NextPage(s) ==
  /\ call[s] = "slots"
  /\ scan[s].slot >= NumSlots(file[scan[s].page])
  /\ ScanAt(s, scan[s].page + 1, 0)
  /\ call' = [call EXCEPT ![s] = "page"]
  /\ UNCHANGED <<file, open, told, acked>>

-----------------------------------------------------------------------------
Next ==
  \/ RM_CreateFile \/ RM_DestroyFile \/ RM_OpenFile \/ RM_CloseFile
  \/ \E r \in Records : RM_InsertRec(r)
  \/ \E rid \in RIDs : RM_DeleteRec(rid)
  \/ \E s \in Scans :
       \/ RM_ScanOpen(s) \/ RM_ScanClose(s) \/ RM_GetNextRec(s)
       \/ GetPage(s) \/ GetPageRefused(s)
       \/ ReturnRec(s) \/ SkipSlot(s) \/ NextPage(s)

Spec == Init /\ [][Next]_vars

\* Fairness: a call that runs goes on; a scan that is open is asked again and
\* again, among the other calls (the loops of testrm.c:85 and
\* test_objective3.c:105); and PF does not refuse the scan's page for ever.
\* Nobody else has to do anything.
FairSpec ==
  /\ Spec
  /\ \A s \in Scans :
       /\ SF_vars(RM_GetNextRec(s))
       /\ SF_vars(GetPage(s))
       /\ WF_vars(ReturnRec(s) \/ SkipSlot(s) \/ NextPage(s))

-----------------------------------------------------------------------------
(* RM_GetSpaceUtilization. *)

SlotsOf(m) == 0 .. NumSlots(m) - 1
\* Mutant: the bytes of deleted records are counted too.
RecordBytes_All(m) == MapThenSumSet(LAMBDA i : SlotAt(m, i).length, SlotsOf(m))
RecordBytes(m) ==
  MapThenSumSet(LAMBDA i : SlotAt(m, i).length,
                {i \in SlotsOf(m) : SlotAt(m, i).offset # TOMBSTONE})

RM_GetSpaceUtilization(f) ==
  [pages  |-> NumPages(f),
   record |-> MapThenSumSet(LAMBDA p : RecordBytes(f[p]), DOMAIN f),
   wasted |-> MapThenSumSet(LAMBDA p : PAGE_SIZE - RecordBytes(f[p]), DOMAIN f)]

-----------------------------------------------------------------------------
(* Properties. *)

Exists == file # Absent

\* A file is a run of pages, each with a header that is a header.
TypeOK ==
  /\ Exists => /\ DOMAIN file = 0 .. NumPages(file) - 1
               /\ NumPages(file) <= MaxPages
               /\ \A p \in DOMAIN file :
                    /\ file[p] \in Page /\ file[p][0] \in Headers
                    /\ \A a \in 1 .. PAGE_SIZE - 1 :
                         file[p][a] \in Slots \cup UnitsOf \cup {Blank}
  /\ open \in BOOLEAN /\ (open => Exists)
  /\ acked \in [RIDs -> Records \cup {Never, Gone}]
  /\ scan \in [Scans -> [open : BOOLEAN, page : -1 .. MaxPages, slot : -1 .. PAGE_SIZE]]
  /\ told \in [Scans -> [due : SUBSET RIDs, got : Seq(RIDs),
                         eof : BOOLEAN, refused : BOOLEAN]]
  /\ call \in [Scans -> {"none", "page", "slots"}]
  /\ \A s \in Scans : call[s] = "slots" => open /\ scan[s].page \in DOMAIN file

SlotsEnd(m) == HDR + NumSlots(m) * SLOT
Extent(m, i) == LET slot == SlotAt(m, i)
                IN  slot.offset .. slot.offset + slot.length - 1
LiveSlots(m) == {i \in SlotsOf(m) : SlotAt(m, i).offset # TOMBSTONE}

\* On every page the records of two live slots never share a byte and lie between
\* the free space and the end of the page, and the slot directory ends before the
\* free space does: no insertion, whatever was deleted before, writes over a slot
\* or a record (rm.c:187, rm.c:293).  A record that no page has room for gets a
\* page of its own, where its slot lies over it, and nothing is ever put there.
PagesWellFormed ==
  Exists => \A p \in DOMAIN file :
    LET m == file[p]
    IN  /\ \/ SlotsEnd(m) <= m[0].freeSpaceOffset
           \/ NumSlots(m) = 1 /\ HDR + SLOT + SlotAt(m, 0).length > PAGE_SIZE
        /\ \A i \in SlotsOf(m) : SlotAt(m, i) \in Slots
        /\ \A i \in LiveSlots(m) :
             /\ Extent(m, i) \subseteq m[0].freeSpaceOffset .. PAGE_SIZE - 1
             /\ \A j \in LiveSlots(m) \ {i} : Extent(m, i) \cap Extent(m, j) = {}

RecordOf(rid) ==
  LET answer == RM_GetRec(file, rid)
  IN  CASE answer.rc = "PFE_OK" -> answer.data
        [] answer.rc = "-2" -> Gone
        [] OTHER -> Never

\* What the callers were told holds for records that an empty page has room for: a
\* RID that RM_InsertRec returned fetches that record's bytes until RM_DeleteRec
\* succeeds on it, and nothing ever after, whatever else is inserted and deleted,
\* longer records among it (rm.c:187, rm.c:293).
AckedHolds ==
  Exists => \A rid \in RIDs :
    IF acked[rid] \in Records
    THEN Fits(acked[rid]) => RecordOf(rid) = Units(acked[rid])
    ELSE RecordOf(rid) = acked[rid]

\* A record of any length up to the page size is kept as it was inserted
\* (README.md:613).
AnyLengthHolds ==
  Exists => \A rid \in RIDs :
    acked[rid] \in Records => RecordOf(rid) = Units(acked[rid])

\* A scan whose caller was told RM_EOF, and that PF refused no page, returned
\* every record that was there when it was opened and was not deleted since
\* (rm.c:368), however insertions and deletions fell between its calls.
ScanComplete ==
  \A s \in Scans :
    told[s].eof /\ ~ told[s].refused => told[s].due \subseteq {told[s].got[i] : i \in DOMAIN told[s].got}

Before(x, y) == x[1] < y[1] \/ (x[1] = y[1] /\ x[2] < y[2])

\* No scan returns the same record twice, though records are inserted on pages
\* before and after the one it is on.
ScanOnce ==
  \A s \in Scans :
    \A i, j \in DOMAIN told[s].got : i < j => Before(told[s].got[i], told[s].got[j])

\* What a scan returns was inserted and not deleted, by what the callers of
\* RM_InsertRec and RM_DeleteRec were told before it is returned: never a record
\* deleted since the scan was opened or since its last call, and never a slot that
\* nobody was given (rm.c:409).
ScanReturnsLive ==
  [][\A s \in Scans : Len(told'[s].got) > Len(told[s].got)
       => acked[told'[s].got[Len(told'[s].got)]] \in Records]_vars

\* RM_GetSpaceUtilization reports the bytes of the records that can be fetched
\* (rm.c:500-512).
SpaceReportTrue ==
  Exists =>
    RM_GetSpaceUtilization(file).record =
      MapThenSumSet(LAMBDA rid : Cardinality(DOMAIN RM_GetRec(file, rid).data), LiveRIDs(file))

\* A scan that is asked again and again comes to its end, unless its caller gives
\* it up or the file is closed: neither the calls nor the loops inside them, which
\* have no bound of their own, go round for ever (rm.c:375, rm.c:405).  MaxPages
\* keeps others from adding pages before it for ever.
ScanEnds ==
  \A s \in Scans :
    (open /\ scan[s].open /\ ~ told[s].eof)
      ~> (~ open \/ ~ scan[s].open \/ told[s].eof)

\* RM_EOF means that the scan is complete (rm.h:84).
EofMeansComplete ==
  \A s \in Scans :
    told[s].eof => told[s].due \subseteq {told[s].got[i] : i \in DOMAIN told[s].got}

-----------------------------------------------------------------------------
(* Refinement: the file is a record store. *)

Store == INSTANCE RecordStore
  WITH Contents <- {Stored(r) : r \in Records},
       exists <- Exists,
       record <- [rid \in RIDs |-> IF Exists THEN RecordOf(rid) ELSE Never]

\* The pages keep the promise of a record store: what RM_GetRec answers for a RID
\* is what was stored under it until it is deleted, and then it is never again a
\* record; no call on one record changes the answer for another.  (AckedHolds says
\* that what is stored is what was inserted.)
StoreSpec == Store!Spec
=============================================================================
