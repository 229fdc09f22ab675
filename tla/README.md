# ToyDB in TLA+

A verification development of ToyDB: a paged file layer with a buffer pool
(`src/pflayer`), a record manager on slotted pages (`src/rmlayer`) and a B+ tree
access method (`src/amlayer`). It holds TLA+ modules translated from the C code,
TLC configurations that check them on small instances, and TLAPS proofs of what
holds on every instance.

## The system

Single-threaded C; the layers call each other as libraries. "Concurrency" here
is that of *callers*: record scans, index scans and test programs hold pages of
the same pool at the same time and their calls interleave.

| part | state | operations | calls |
|---|---|---|---|
| buffer manager `buf.c` | frames in a doubly linked list (head = last asked for), frame count, strategy; per frame fd, page, one *fixed* bit, one *dirty* bit, the page | get, alloc, unfix, used, release file, set strategy | hash table, `PFreadfcn`/`PFwritefcn` |
| hash table `hash.c` | 20 buckets, doubly linked chains of (fd, page, frame) | init, find, insert, delete | malloc |
| paged files `pf.c` | file table of 20 (name, unix fd, header copy, *hdrchanged*); in each file a header (first free page, page count) and pages (next free / used, data); counters | create, destroy, open, close, get first/next/this, alloc, dispose, unfix, set strategy, statistics | buffer manager, unix files |
| record manager `rm.c` | pages with a header and a slot directory; a scan's page and slot | create, open, close, insert, get, delete, scan, utilisation | paged files |
| B+ tree `am.c`, `aminsert.c`, `amfns.c`, `amsearch.c`, `amstack.c` | root page number, a stack of (page, slot) of depth 50, leaves with chains of record ids, inner nodes | create, destroy, insert, delete, search, split | paged files |
| index scans `amscan.c` | table of 20 scans: operator, value, leaf, key index, record id offset, last leaf | open, next, close | B+ tree search, paged files |

Not part of the model: printing (`amprint.c`, `misc.c`, the Print functions), the
test and workload programs (read for how callers behave), scripts and plots.

### What is hard

* **Failing half way.** `malloc`, `read` and `write` can fail between two
  changes of the pool; the code undoes by hand (`buf.c:154-162, 322-339`).
* **The pool at its limit.** With all frames in use a call takes a victim's
  frame while other holders keep pointers into theirs (`buf.c:132-180`).
* **Shared bits.** *fixed* and *dirty* are single bits shared by all holders.
* **Two copies of everything.** Page: frame and file. Header: table and file.
  Free list: links spread over buffered and written pages.
* **Retried closes.** A close may stop at a fixed page or at a failed write
  and be called again (`pf.c:293-329`).
* **Errors ignored or mistaken** above the paged files: a scan that takes "no
  buffer" for the end, a split whose second insertion is not checked.
* **Cursors over changing pages** (record and index scans).

What makes each part correct: the *buffer manager* keeps list, table and count
in step, loses no page, moves no held frame, and evicts by its strategy. *Paged
files* chain exactly the free pages, never hand out a page in use, and keep live
pages through anything. *Records* keep RID and content until deleted, and a scan
returns each surviving record once. *The tree* maps a key to exactly the record
ids inserted and not deleted, its leaves sorted and chained, its pages unfixed
after each call. *Index scans* return what satisfies the operator, once.

## Modules

| module | what it is |
|---|---|
| `BufOps` | the calls of `buf.c` as operators: pool -> set of outcomes `[rc, s]` |
| `Buf` | the buffer manager under interleaved callers; its properties |
| `PageStore` | what `Buf` promises: pages, created, pinned, written, unpinned |
| `PoolChains` | the pointers of the frame list (`buf.c`) and of the hash chains (`hash.c`) |
| `PoolIndex` | what they stand for: the sequence and the map of `BufOps` |
| `PF` | the calls of `pf.c` composed from `BufOps`; its properties |
| `PagedFile` | what `PF` promises: named files of live pages that keep their data |
| `RM` | the record manager: slotted pages, records, scans |
| `RecordStore` | what `RM` promises: a map from RIDs to records |
| `AMLeaf` | one leaf of the index: lists of record ids, free cells, compaction, halves |
| `AM` | the tree: search, insertion with splits up to the root, deletion |
| `AMScan` | index scans over `AM` |
| `MCBuf`, `MCChains`, `MCPF`, `MCRM`, `MCAM`, `MCAMScan` | the instances for TLC |
| `BufOps_proofs` | each call of `buf.c` keeps the pool sound; what callers see of it: no page lost, no held frame taken |
| `Buf_proofs` | types, consistency and held frames of `Buf`; `Buf` implements `PageStore`; it gives up the page that LRU or MRU should |
| `Chains_proofs` | the pointers of list and hash table are sound; they implement `PoolIndex` |
| `PF_proofs` | the invariants of `PF`: free lists, held pages, buffers of open files, scans; `PF` implements `PagedFile` |
| `RM_proofs` | the invariants and scans of `RM`; `RM` implements `RecordStore` |
| `AMLeaf_proofs` | what each operation on a leaf does, to the byte |
| `AM_proofs` | the invariants of `AM`: leaves, search tree, chain of leaves, every entry found |
| `AMScan_proofs` | the same with scans between the calls; on one leaf scans leave nothing fixed |

How they compose: `PF` is made of the `BufOps` operators, and `BufOps` uses the
list and the map that `PoolChains` shows the pointers to be. `RM` and `AM` stand
on what `PF` was shown to promise (pages that keep their contents), not on its
pool; what they keep of the pool is that it may refuse a page, because no buffer is
free, a read or write fails, or another call has the page fixed. `AMScan` extends
`AM`, and `AM` is made of the operators of `AMLeaf`.

### The buffer manager: `BufOps`, `Buf`

The pool is one record: `list` is the chain from `PFfirstbpage` to `PFlastbpage`
as a sequence, `frame` what the `PFbpage`s hold, `hash` the hash table as the
map it implements, `numbpage` is `PFnumbpage`, `file` the `unixfd`s of `PFftab`,
`disk` the pages in the files. A frame that is freed gets the value `FreedFrame`,
so a stale pointer shows as a wrong page. A call is an operator returning the
set of its outcomes; the set has several members where `malloc`, `read` or
`write` may fail (constant `Faults`). A write can also fall short, leaving a
torn page (`Torn`); a write past the end of file leaves a hole of zeros.

`Buf` interleaves the calls of all holders, each call one action. Only
`PFbufReleaseFile`, which loops over frames and may stop in between, takes one
step per frame, during which no other call runs. Two history variables serve the
properties: `owed`, the pages changed and not yet reported dirty, and `newer`,
which of two resident pages was asked for later.

What callers are assumed to do is what `pf.c` and its users do: ask only for
pages below the page count, allocate exactly at it, write only pages they hold,
and pass `dirty` when unfixing a page that was allocated or changed.

### Paged files: `PF`

`ftab` is `PFftab` (name and unix fd are `pool.file`), `dhdr` the header in each
file. Each `PF_` call is one action made from the `BufOps` operators;
`PF_GetNextPage` and `PF_CloseFile`, which loop, take a step per round (`call`).
Calls that only return an error change nothing and are not actions. A closed
table entry is reset to a fixed value (the code leaves the old header there and
overwrites it at the next open). A close may stop at a fixed page, at a write of the
header that fails or falls short, or at `close()` itself (`pf.c:318-322`): then the
entry stays, its header no longer marked as changed, and its descriptor may be dead,
so that reads and writes of it fail, as `Faults` lets them. `PF_OpenFile` opens a
file as often as it is asked, as the code does. That no caller opens one that is open
is a conjunct of `Next`: `IMP.DOC:106` warns of changing such a file, and with two
headers none of the properties holds. Destroying an open file is refused as in the
code.

### Pointers of the pool: `PoolChains`, `PoolIndex`

`s.frame` holds `nextpage`, `prevpage` and the page of each `PFbpage`, `s.entry`
the `PFhash_entry`s, `s.hashtbl` the bucket heads, beside `PFfirstbpage`,
`PFlastbpage` and `PFnumbpage`. `PFbufUnlink`, `PFbufLinkHead`, `PFhashInsert` and
`PFhashDelete` change them field by field as the code does. Of the rest of the
pool nothing is kept: any frame may be the victim, any `malloc`, read or write
may fail. `PFbufReleaseFile` keeps its loop variable `bpage` in `walk` and frees
the frame it stands on. `IndexSpec` is the refinement: the list read along
`nextpage` and the map that `PFhashFind` answers change in each call exactly as
the `BufOps` operators `MoveToHead`, `PFbufLinkHead` and `PFbufUnlink` say and as
a map changes.

### Records: `RM`, `RecordStore`

A page is `PAGE_SIZE` units of 8 bytes, the size of a page header and of a slot,
so that header, slot directory and records lie in one array and can overlap.
`file` is the pages, `scan` the `RM_ScanHandle`s, and every call of `rm.c` is an
action: `RM_InsertRec` with `RM_FindFreePage` and the page it may have to make,
`RM_DeleteRec`, `RM_GetRec` (an operator, it changes nothing), the scan calls, the
file calls, `RM_GetSpaceUtilization`. `RM_GetNextRec` alone has loops that need not
end, so it takes a step for each page it gets, is refused or leaves and for each slot
it looks at (`GetPage`, `GetPageRefused`, `NextPage`, `SkipSlot`, `ReturnRec`); while
it runs (`call`) no other call does. A page given back as clean may come back as
it was (`Unfixed`), so a wrong dirty flag shows. With `"page"` in `Faults` any
`PF_` call that gets a page may be refused. History: `told`, what each scan's
caller was told and which records are due to it; `acked`, what was told of each
RID.

Nothing in the code looks at the length of a record, so callers insert records up to
one unit less than a page. One that fits no page (`Fits`) gets a page of its own, and
its slot is written over its first unit (`Stored`). Only a record as long as the page,
which would lie over the header too, is left out.

### The tree: `AMLeaf`, `AM`

A leaf is the fields of `AM_LEAFHEADER`, the key slots (those behind the last key
keep what was there) and the cells by byte offset. Room is counted in bytes as
in the code. `AM_InsertintoLeaf` has the ways the code has: a free cell or
one carved, a new key or a known one, compaction, no room. `SplitLeaf` cuts at
half the keys and inserts into one half whether it has room or not, as `am.c:32`
does not look. `AM_InsertEntry` and `AM_DeleteEntry` are one action each: the
search and the way it notes, the leaf, the splits up that way, page 0 staying
the root with its halves in two new pages. `fixed` is what calls left fixed,
`stack` what they left on `AM_Stack`. `acked` counts the entries inserted and not
deleted.

A page that a call finds in `fixed` is refused, and with `"page"` in `Faults` any
page may be. A search then ends at any node of its way (`Searches`). A split ends
before its first new page, with nothing changed but the leaf fixed, or later, where
the code has no way back (`CutShort`): the parent of a page already split is refused
(`am.c:114`), or the second half of a node (`am.c:133`), or the new page below the
root (`am.c:57`, `142`). `CutShort` has the pages as each of these leaves them, and
the history variable `damaged` becomes true. It also does when a range of no keys is
compacted (`CompactsNothing`), whose `keyPtr` the code computes from an int that it
never set (`aminsert.c:132`). What later calls make of a damaged index is not
modelled, and the properties speak of one that is not. How an index comes to be
damaged is part of every run, and `NeverDamaged` proves when it does not.

### Index scans: `AMScan`

`scan` is `AM_scanTable` with the fields of a row. A call is a chain of steps on a
record `k` (row, fixed pages, answer so far, and `pool`), each step of which fixes or
unfixes a page and may end the call with `AME_PF`; what was changed till then stays
changed, as the code's `AM_Check` returns on the spot. `pool` is chosen per call: the
pool still holds the pages that are not fixed or not, since `PF_UnfixPage` answers by
it, and at most one page is refused, which `PF_GetThisPage` answers with an error
(`GetLeftPageNum`, refused the root, answers `AME_PF` and the code takes that for a
page number). The search of a call is refused a page independently of that. Reading
at an offset where the leaf has no key or cell gives `Junk`. The operators are the
seven of `am.h` and one that is none, for which the code frees the row and leaves
the leaf of the search fixed (`amscan.c:235-239`). Callers keep to what the tests do:
one scan at a time changes the index, by deleting the entry it was just given.

The code is right about only some scans, and `Sure` says which: `ALL` of an index
that is not empty, `=`, `>` and `>=` from a value that is in the index or on an index
of one leaf, `<` and `<=` on an index of one leaf with an entry to return, but not `<=`
the last value. `SureAnswersSatisfy` and `ScanComplete` hold for these, and on one
leaf `SureEnds`: such a scan, opened while nothing was fixed, is answered `AME_PF`
only if PF refused it a page. Over several leaves even these scans stop with `AME_PF`
when the wrong leaf is unfixed, and `ScanComplete` speaks of those that were told
`AME_EOF`. What goes wrong with the others:

* `<=` the last value of the index reads on behind its end (finding `am_scan_le`).
* Going on to the next leaf unfixes the wrong page (finding `am_scan_leaf`): the
  scan stops with `AME_PF`, or the old leaf stays fixed.
* A last leaf that is empty, and so a scan of an empty index, ends with `AME_PF`
  and the leaf left fixed: the code unfixes page -1 (`amscan.c:282-292`).
* `<` the smallest value, and `<=` one below it, have nothing to return and end the
  same way on an index of one leaf: with `lastIndex` 0 the code unfixes the page
  after the leaf, -1, answers `AME_PF` and leaves the leaf fixed (`amscan.c:326-335`).
* A value behind the last key of its leaf: the code fetches the next leaf, then
  unfixes and goes to the page after *that* one (`amscan.c:99-108`).
* `<` and `<=` compare page numbers although the leaves are chained in another order
  (`amscan.c:324`).
* `!=` a value that is not in the index never places the row, so it reads what an
  earlier scan left there; with a value that is in it, the excluded key can be
  returned.
* An open that fails after the search keeps its row of the scan table for ever; for
  an invalid operator the row is freed, but the leaf stays fixed and the way on
  `AM_Stack`.

## Runs

| run | instance | shows |
|---|---|---|
| `buf` | 2 fds, 2 files of 2 pages, 2 frames, all faults | types, list/table/count agree, clean means on disk, held frames stay, victims follow the strategy, and `Buf` implements `PageStore` |
| `pool_chains` | 4 frames, 2 fds of 3 pages, 2 buckets | list and chains are sound both ways, the release walk passes nothing, and they implement `PoolIndex` |
| `pf` | 1 file of up to 3 pages, 1 frame, 2 page contents, LRU only, all faults, `close()` included | free list exact for open and closed files, fixed pages are used pages of open files, nothing buffered after a close, scans skip only free pages, pool consistent, and `PF` implements `PagedFile` |
| `rm` | 1 file of up to 2 pages of 6 units, records of 1 and 2 units and one of 5 that fits no page, 1 scan, refused pages | RIDs keep their records if these fit, deleted ones stay dead, pages well formed, scans complete, each record once and live, the space report true; scans end; `RM` implements `RecordStore` |
| `rm_eof` | as `rm` | finding: `RM_EOF` before the end |
| `rm_long` | as `rm` | finding: a record that fits no page is spoiled |
| `am_tree` | 6 values, 8 entries, leaves of 2 keys, nodes of 2 keys, refused pages | until the index is damaged: leaves sound to the byte, a search tree, leaf chain in order, acknowledged entries found |
| `am_leak` | as `am_tree`, with deletions of absent entries | finding: a leaf left fixed |
| `am_lost` | as `am_tree`, no page refused | finding: an acknowledged entry lost |
| `am_scan` | 5 entries, leaves of up to 3 keys, up to 3 leaves, 1 scan, 6 operators and an invalid one, refused pages | scans that are `Sure` return exactly what satisfies the operator and end; on one leaf nothing stays fixed |
| `am_scan_le` | as `am_scan`, `<=` | finding: bytes of the header as a record id |
| `am_scan_leaf` | as `am_scan`, `ALL` | finding: the wrong leaf is unfixed |

### The bounds

*Pool and files.* In `buf`, with 2 frames and 4 pages every request beyond the second
evicts, a fixed frame can stand at either end of the list, and both frames can be
fixed (`PFE_NOBUF`). In `pf` one frame is enough to make every request of another page
evict, or fail while the page before it is fixed; how several frames share a pool is
`buf`'s question. Three pages let a free list have a first, a middle and a last page,
be partly buffered, partly written, and be taken apart in another order than page
order. Two page contents tell a lost update from a kept one; one of them doubles as
the content of torn writes, holes and memory from `malloc`. `Pages` bounds a file's
length, the only counter that would grow. `LRUOnly` cuts the `pf` run off where the
strategy is changed; `buf` explores both strategies and the switch between them. The
frames and files of `buf` are symmetric: no definition names one of them.

*Pointers.* Four frames give a list with a head, two inner frames that are
neighbours, and a tail; three pages in each of two buckets give chains with a
head, a middle and a tail, and insertions into either bucket in between.

*Records.* A page of 6 units holds two short records, so pages fill, a first page with
room is passed over for a second one, and a scan crosses a page boundary before, at
and behind insertions and deletions. A record of 5 units is one that no page has room
for. `MaxPages` stops a file from growing; RIDs are never reused, so it also bounds
everything else.

*Tree.* `PAGE_SIZE` 58 leaves 34 bytes behind the header: two keys of 6 bytes
with up to three cells of 6, or one key with up to four, so the key slots and the
cells meet from both sides, leaves are compacted and split. `MaxKeys` 2 is the
least even number (`amfns.c:58` makes it even). Six values reach two levels of
internal nodes and the split of one that is not the root; the largest tree has
10 pages, so `MaxPages` never cuts anything off. `Deletable` names three of the
eight entries, two of them of the value that has three: alone in a leaf these fill
it, which a split then cuts into an empty half and a full one. `MaxCopies` 1: an
entry inserted twice would add nothing to that. `MaxFixed` 1 lets an insertion leave a leaf fixed
that later calls come upon; `MaxStack` 0 takes what earlier calls left on the stack
away, as no call reads it (`am_leak` keeps one place of it).

*Scans.* `PAGE_SIZE` 64 has room for three keys, so a scan has a first, a middle
and a last key in a leaf, and the five entries grow to three leaves, of which the
callers' deletions can empty any. One scan is opened per behaviour (`MaxOpens`); with
a second, over a row that the first left, only scans for # of a value that is not
there would begin differently. `Sought` 2 and 3 are values at, before and behind the
borders of leaves, in the index or not, with smaller and larger ones; the runs of the
findings ask for all four. `MaxFixed` 0: that an insertion leaves a leaf fixed is a
question of `am_tree`. A scan that does not stop is cut off one answer after
everything it owed.

### Fairness

Only records have something that must come about in steps: a scan that is asked
again and again must come to its end, though others insert behind it
(`ScanEnds`). `FairSpec` assumes strong fairness of `RM_GetNextRec` for each scan:
the callers ask in a loop until they are told otherwise (`testrm.c:85`,
`test_objective3.c:105`), but a call of another scan may always be running when one
looks. It assumes strong fairness of `GetPage`, as a page that PF refuses, or a file
that is closed, again and again is not so for ever; and weak fairness of the other
steps of a call, as a call that runs goes on. No
other call is fair. In the other layers no call waits for another and nothing
schedules the callers, so there is nothing to be fair about.

### Findings

* `rm_eof`: `RM_GetNextRec` "returns RM_EOF when the scan is complete"
  (`rm.h:84`), but any error of `PF_GetThisPage` after the first page becomes
  `RM_EOF` (`rm.c:395-398`).
* `rm_long`: "Record Size: Variable up to page size" (`README.md:613`), but nothing
  looks at the length (`rm.c:187`) or at the room of a page just made
  (`rm.c:158-167`): `RM_InsertRec` answers OK and writes the slot over the record.
* `am_leak`: "resource cleanup on error paths", "stack cleanup after operations"
  (`README.md:529`, `535`), but `AM_DeleteEntry` of an entry that is not there leaves
  the leaf fixed and the way on the stack (`amfns.c:138-141`, `169-172`).
* `am_lost`: `AM_InsertEntry` "Inserts a value,recId pair into the tree"
  (`amfns.c:197`), but a leaf of one key whose list fills it is split into an empty
  half and one as full as before, whose refusal of the entry is not looked at
  (`am.c:32-41`): the answer is `AME_OK` and the entry is lost.
* `am_scan_le`: `AM_FindNextEntry` "returns the record id of the next record that
  satisfies the conditions" (`amscan.c:247`), but at the last key `OVER` is
  overwritten by `LAST` (`amscan.c:421`, `461`) and the next call reads offset 0.
* `am_scan_leaf`: "unfix the current page before getting the next one"
  (`amscan.c:427`), but `nextpageNum` is the next page already.

Met while modelling, with no run of their own: the scans listed above; a split that
PF refuses a page after it began leaves a page cut in half, the rest unreachable, and
up to two pages fixed (`CutShort`, `am.c:57`, `114`, `133`, `142`); each open scan
leaves its way on `AM_Stack`, whose 50 places nothing checks (`amstack.c:12`). A
second `PF_UnfixPage` answers OK or `PFE_PAGEUNFIXED` by whether the page was evicted
in between (`pf.c:557-560`, `buf.c:377-387`).

## Proofs

The theorems hold for all values of the constants that satisfy the named
assumptions of the modules: `PoolAssumption` (a positive pool size, fds and page
numbers that are natural numbers, zeros and junk among the page contents, and
`NULL` and `Absent` different from every frame and page), `WrittenAssumption`
(in `Buf`), `ChainsAssumption` (positive sizes, finitely many frames and entries, `NULL`
none of them), `PFAssumption` (`Absent` is no header or content, `NULL` no file) and
`RMAssumption` with `AbsentAssumption` (sizes are natural numbers, markers differ
from records). They concern markers the models use and sizes no build has
otherwise. `RMAssumption` leaves out records as long as a page or longer. Those of the
index, `LeafAssumption` and `AMAssumption`, are of the same kind; `ScanAssumption`
only says that scans have the operators of `am.h` and ask for values that an index
may have. None restricts what faults do, and what callers do beyond it is in the
actions. Four theorems have hypotheses of their own, discussed with them:
`NeverDamaged`, `EntriesAlwaysFound`, `ScanAlwaysTyped` and
`OneLeafAlwaysLeavesNothing`.

| theorem | says | module |
|---|---|---|
| `TypesKept`, `PoolStaysConsistent` | `Buf`: `TypeOK`, `PoolConsistent` | `Buf_proofs` |
| `HoldersKeepFrames` | `Buf`: `HeldFramesStay`, an action property | `Buf_proofs` |
| `CleanPagesAreOnDisk` | `Buf`: `CleanIsOnDisk` | `Buf_proofs` |
| `BufImplementsPageStore` | `Buf`: `StoreSpec`, a refinement | `Buf_proofs` |
| `EvictionsFollowStrategy` | `Buf`: `EvictsByStrategy`, an action property | `Buf_proofs` |
| `PointersTyped`, `ListStaysSound`, `ChainsStaySound` | `PoolChains`: `TypeOK`, `ListSound`, `ChainsSound` | `Chains_proofs` |
| `WalkPassesNothing` | `PoolChains`: `NothingPassed` | `Chains_proofs` |
| `PointersImplementIndex` | `PoolChains`: `IndexSpec`, a refinement | `Chains_proofs` |
| `TypeCorrect`, `PoolStaysSound` | `PF`: `TypeOK`, `PoolConsistent` | `PF_proofs` |
| `FreeListsExact` | `PF`: `FreeListExact` | `PF_proofs` |
| `HeldPagesAreUsed`, `BuffersAreOfOpenFiles`, `ScansSkipOnlyFree` | `PF`: `HeldAreUsed`, `BufferedPagesOpen`, `SkipsOnlyFree` | `PF_proofs` |
| `PFImplementsPagedFile` | `PF`: `FileSpec`, a refinement | `PF_proofs` |
| `RecordTypeCorrect`, `PagesStayWellFormed`, `AnswersAreKept` | `RM`: `TypeOK`, `PagesWellFormed`, `AckedHolds` | `RM_proofs` |
| `ScansAreComplete`, `ScansReturnOnce`, `ScansReturnLiveRecords` | `RM`: `ScanComplete`, `ScanOnce`, `ScanReturnsLive` | `RM_proofs` |
| `RMImplementsRecordStore` | `RM`: `StoreSpec`, a refinement | `RM_proofs` |
| `SpaceReportIsTrue` | `RM`: `SpaceReportTrue` | `RM_proofs` |
| `TreeAlways` | `AM`: the inductive invariant `AMInv` | `AM_proofs` |
| `TypeAlwaysOK`, `LeavesAlwaysSound` | `AM`: `TypeOK`, `LeavesSound` | `AM_proofs` |
| `TreeAlwaysSound`, `ChainAlwaysInOrder` | `AM`: `TreeSound`, `ChainInOrder` | `AM_proofs` |
| `AckedAlwaysFound` | `AM`: `AckedFound` | `AM_proofs` |
| `NeverDamaged`, `EntriesAlwaysFound` | `AM`: `~ damaged`, `EntriesFound`, if no page is refused and few copies fill a leaf | `AM_proofs` |
| `ScanAlways` | `AMScan`: the inductive invariant `ScanInv` | `AMScan_proofs` |
| `ScanAlwaysTyped` | `AMScan`: `ScanTypeOK` | `AMScan_proofs` |
| `ScannedLeavesSound` | `AMScan`: `LeavesSound` | `AMScan_proofs` |
| `ScannedTreeSound`, `ScannedChainInOrder` | `AMScan`: `TreeSound`, `ChainInOrder` | `AMScan_proofs` |
| `OneLeafAlwaysLeavesNothing` | `AMScan`: `OneLeafLeavesNothing` | `AMScan_proofs` |

So every property that the passing runs of `Buf`, `PoolChains`, `PF` and `AM` check
is proved, and every one of `RM` but the liveness.

### The pool: `BufOps_proofs`, `Buf_proofs`

The first inductive invariant is `PoolInv`: the pool is `Sound` (well typed and
consistent) and every fd has a file. Consistency alone is not inductive: a
victim is found by its position in the list, so the list must be a sequence of
frames and the frames must be well typed before the step can be followed.

Inside a call the pool is *not* consistent: `PFbufInternalAlloc` returns a frame
that is linked but has no page and no hash entry. `HalfMade(s, b)` says exactly
that of frame `b`. The lemmas then follow the code: `MallocHalfMade` and
`ReuseHalfMade` for the two ways to get a frame, `InstallSound` for naming and
hashing it, `FreeHalfMade` for undoing it, and one lemma per call
(`GetSound`, `AllocSound`, `UnfixSound`, `UsedSound`, `ReleaseStepSound`, ...).
They rest on facts about lists without repeats (`UnlinkProperties`,
`LinkProperties`, `MoveProperties`).

`HoldersKeepFrames` is an action property proved from the same invariant.
`Keeps(s, t)` says that every page fixed in `s` is fixed in `t`, in the same
frame; it is transitive, so a call is followed step by step. Each step touches
at most one frame, and that frame either has no hash entry (a new or half-made
one) or is not fixed (a victim, a frame being released). Only `Unfix` gives a
held page up, and it moves nothing.

That nothing is *lost* needs more than a sound pool. `Faithful(s, B, O)` speaks of
the pages `B` that exist and the pages `O` changed and not yet reported dirty:
only pages of `B` are buffered, pages of `O` are fixed, no two fds share a file,
and a page of `B` that is buffered, clean and not in `O` is what the file has, one
not buffered is in the file at all. This is the strengthening that makes
`CleanIsOnDisk` inductive: without the pages of `O` being fixed an eviction would
drop a change, without the last part a read could find nothing. What a call
shows is `SameSeen` (a page keeps its content and whether it is fixed) of every
page but the one it is about. `StoreInv` is `PoolInv` with `Faithful`, and from it
each action of `Buf` is a step of `PageStore` or a stutter.

### Eviction: `Buf_proofs`

`OrderInv` adds `Ordered`: a page nearer the head of the list than another was
asked for later (`newer`). The list operators keep the order of all frames
but one (`UnlinkOrder` and what follows it), a call puts only the page it asks for
in front of others (`NewOrderFor`) and evicts nothing but the `Victim`; so
the victim, outermost among the unfixed, is the one the strategy names.

### Pointers: `Chains_proofs`

What TLC walks along (`List`, `Bucket`, the walk of `PFhashFind`) is a recursive
function of the pointers, which says nothing by itself about what a write to one
pointer does. The invariant `ChainsInv` therefore names the sequences instead:
`Sound(t, x, L)` says of the pointers `t` that they link the sequence `L` of all
frames in use (`ListIs`: head, tail, each next and each previous pointer), that
some sequences of entries are linked in the buckets (`BucketsAre`), and that there
is one entry for each frame in use but `x` (`Match`), where `x` is the frame that
a call has taken and not yet entered. `WalkOn(L)` has the place of
`PFbufReleaseFile` in `L`. It is the conjunction of the three properties the run
`pool_chains` checks, said without walking.

The argument has four layers. `LinkFirst` and `LinkOut` say, of any linked
sequence, what must be written to put a node first and to take one out.
`LinkHeadIs`, `UnlinkIs`, `InsertIs` and `DeleteIs` show that the operators of the
code write exactly that; aliasing is what makes them long: `next` and `prev` of a
frame may be `NULL`, the head, the tail or neighbours of each other. The calls
(`TakenIs`, `ServedIs`, `HitIs`, `LostIs`) are sequences of these. And `PathIs`
shows that the walk along pointers that link a sequence gives that sequence,
`EntryOfIs` that the walk of `PFhashFind` ends at the entry for its page.

The last two are inductions, over the length of a path. A theorem of the library
that takes a predicate as parameter cannot be used here, but `SetInduction` gives
induction over a *set* of numbers from the well-foundedness of `<`.

### Paged files: `PF_proofs`

`PF` uses the pool through `Faithful` alone: its pages are those the headers of
open files count (`ValidKeys`). `PFInv` adds the types, and

* `OpenGood`: the pages of an open file are chained as its header says, the file
  exists, and a header that has not changed is the one in the file;
* `ClosedGood`: the same of a closed file, whose pages are all in it;
* `HeldUsed`: what is held is used;
* `CallGood`: a looping call works on an open file, and `PF_GetNextPage` has passed
  free pages only.

`FreeListExact` alone is not inductive: opening and closing move a file from
one form to the other, which needs what `OpenGood` says of `hdrchanged` and what
`Faithful` says of clean pages; and a header torn by a failed write is harmless
only because the file stays open and its header changed. A free list is the
existence of an order of pages (`FreeList`), not a walk along links, so that its three
changes (`TakeHead`, `PutHead`, `AddUsed`) can be reasoned about without induction.
TLC checked `PFInv` as an invariant on the instance of `pf` first.

For the refinement, `View` says what each open or closed file shows in terms of
its header and pages, `OnePageShown` that a call about one page changes at most
this page of what is shown, and there is one lemma per action of `PF` that makes
it an action of `PagedFile` or a stutter (`EveryStep`).

### Records: `RM_proofs`

`RecordInv` says of a page that directory and records are apart, inside the page
and counted right, or that it is the page of one record that fits none, whose free
space ends before its directory does, so that nothing finds room there; and that each
slot fetches what callers were told of its RID, a record that fits as it was inserted,
another as its slot spoiled it (`Stored`). So the theorems need no assumption on
lengths, and `AckedHolds` claims only the records that fit. `ScanInv` says where a
scan stands: what it returned lies before its place and was returned in order, and
what is owed to it lies at its place or behind. Without the places neither `ScanOnce`
nor `ScanComplete` is inductive: a list of returned records does not say what comes
next. `CallInv` says of a call that runs that its caller was not told the end, and that
the page whose slots it looks at is one of the open file's. `ScanReturnsLive` needs all three: the walk
tests slots, and that a slot in use is a RID which callers were given and did not
delete is `RecordInv`.

`SpaceReportTrue` relates two sums, one over the slots of each page and one over
RIDs. `MapThenSumSet` is a recursive function that takes the members of a set in an
order nobody chose: `SumExists` shows that its equation has a solution, `SumTotals`
that the solution does not depend on that order, and `RecordsCounted` adds the
slots of a page one by one on both sides.

### The tree: `AMLeaf_proofs`, `AM_proofs`

None of the five invariants of `AM` is inductive. `AckedFound` speaks of what a
search finds, and a search goes right only if the separators bound what is below
them; `TreeSound` says that, but the split that keeps it needs to know that the
way noted on `AM_Stack` is the way from the root; and a leaf must be sound for its
halves to be what `SplitLeaf` means them to be. `AMInv` is one statement of all of
it. It says that there are for the pages a set of values and a height, `E` and
`rk`, with `Tree(page, m, E, E, rk, acked, -1, 0)`:

* the root is entered by all values, and each other page by the values that its
  parent's separators leave to it, from exactly one place;
* heights fall by one from a node to its children, so every leaf is as deep;
* a leaf holds, in lists of cells that are apart and inside the page, exactly the
  entries of `acked` whose values enter it, each as often as it was inserted;
* a node has no more keys than fit, sorted, one pointer more than keys.

`Linked` adds that `nextLeafPage` of a leaf leads to the leaf that the next values
enter, and that the leftmost is page 0 or page 2, where `GetLeftPageNum` looks.

*Leaves.* `GoodLeaf` says that the lists of the keys and the free list are paths
through disjoint cells (`Paths`, an existence, not a walk). Each operation
of `AMLeaf` is shown to keep it and to change what the leaf holds by the one entry:
the new first cell of a list, the carved cell, the slots moved aside,
`AM_Compact`, which copies the lists of some keys to the end of an empty leaf, and
`Removed`. What the recursive walk `ListOf` finds is by induction over a path what
the path says. A split copies each half by two compactions, and the copies of
both together are the old leaf (`SplitLeaf`).

*Nodes.* In the middle of an insertion the tree is not a tree: a page is split and its new
half has no parent yet. The two last arguments of `Tree` are for this: a page number
and a value, the new half and the least value that belongs to it (-1 when nothing
is owed). Each round of `AM_AddtoParent` takes such a tree either to a whole one
(room in the parent, or a new root above page 0, whose old content moves to a new
page) or to one where a page of the next level is owed. The sets that enter pages
are split with them. An induction over the height of the stack gives the call.

*Searching.* `AM_BinSearch` is a recursive function over intervals; by induction over
their length it finds the first separator above a value, so the search goes from a
page that the value enters to a child that it enters, and down to the one leaf that
holds its entries.

*Reading the tree.* `TreeSound` and `ChainInOrder` compare sequences of pages that are
put together recursively (`PagesBelow`, the chain). `AM_proofs` shows by induction over
heights that the pages below a page are those whose values lie between its separators,
without repeats and in the order of their values, and that a sequence of all leaves in
that order is the chain.

*Damage.* `AMInv` says this, and what `fixed` and `stack` may be, of an index that is not
damaged. An insertion that is refused a page before a split changes nothing, one that
is cut short sets `damaged`, and the third way is that a range of no keys is compacted.
What remains to be shown is that any other split has room for the entry, which the
code does not look for (`am.c:32-41`): a leaf of two keys or more without room is
cut by keys, and whichever half the entry belongs to has lost to the other at least
one key with its list, so that what is freed is a slot and a cell at least. That
takes no bound on duplicates.

`NeverDamaged` has two hypotheses. `Faults = {}`: no page is refused. `FewCopies`: all
entries of one value, with one of another value, fit in a leaf, so that none is filled
by the list of one key. Both are needed, the second by `am_lost`. The instance of
`am_scan` satisfies it and that of `am_tree` does not, which so has damage of both
kinds. `EntriesAlwaysFound` is what follows for callers.

### Scans: `AMScan_proofs`

A call of `amscan.c` is a chain of steps on a record, and each of them may end it.
`K(...)` is a call for the next entry and `Op(...)` one that opens a scan, each
with a name for every part; one lemma per step of the code (`SkipForm`,
`OvershotForm`, `TakenForm`, ..., `HereForm`, `LeftForm`) says what it makes of the
parts. A refused page is one more way for a step to end. What is fixed then follows along the chain: `Inside` says that exactly the
leaf is fixed and the call goes on, `Over` that it has ended with nothing fixed or was
answered `AME_PF`, and `Keeps` that a step leads from the one to either
(`NextSettles` for the whole of `AM_FindNextEntry`). For the opening of a scan `Ready`
and `Ended` do the same through every operator of `Position` (`PositionReady`).

`ScanInv` is, unless the index is damaged, the invariant of the tree, the types of the
two tables, and on an index of one leaf, while no call of a scan failed, `AtRest`:
nothing is fixed and every row is at the leaf or nowhere. `OneLeafLeavesNothing` alone is not inductive: a row
that stood at another page would fix that. Nor can the index have been higher
before: no call takes a page out of the tree (`StillLeaf`).

`OneLeafAlwaysLeavesNothing` has two hypotheses, for the calls of `AM` that leave a leaf
fixed: that no entry is deleted that is not there, `"absent" \notin Callers`, as such a
deletion answers `AME_NOTFOUND` with the leaf fixed (`amfns.c:139`, finding `am_leak`);
and `MaxFixed = 0`, that no insertion is refused the first page of its split
(`am.c:24`). Pages may be refused to scans. The instance of `am_scan` satisfies both.

`ScanAlwaysTyped` follows the same steps in a tree of any height, and asks only for the
kinds of things: `CallOf` is a call whose row is at a leaf, `OpenOf` one that opens a
scan with its operator, its pages, its index and its buffer among the sets given, so
that one lemma per step serves before and after the place of the value is known
(`AM_NULL_PAGE` when that place is behind the last leaf, and `AME_PF` for a moment when
the root is refused). The invariant is `ScanTyped`: of an index not
damaged, `AMInv`, rows and answers of their
types, and the row of an open scan at a leaf, behind the last one or over. The last
part is what makes the rest inductive, as only a page that is a leaf can be read as
one, and it needs the whole system: a leaf turns into an internal page (page 0, by the
split of a root) only in an insertion, and then no scan is open (`CallTyped`); a
deletion leaves every leaf a leaf (`DeleteKinds`).

Its hypothesis is `"NOT_EQUAL" \notin Ops`. A scan for # of a value that is not there
gets no page to start from and keeps the `nextpageNum` of the scan that had its row
before (`amscan.c:231`), and what was a leaf then may be an internal page now, whose
bytes the model does not read as entries. The instance of `am_scan` has every operator
but #.

### Model-checked only

* `ScanEnds` of `RM`, which is liveness.
* `SureAnswersSatisfy`, `ScanComplete` and `SureEnds` of `AMScan`. They hold only where each
  record identifier is that of one entry, with one scan at a time. A row keeps the
  place of the entry to come, beside places it passed and slots that are no longer
  in use, through deletions that empty leaves and change lists; an inductive
  invariant has to say of each operator and each way a call can be cut short what
  the row still means.

## Not modelled

* `PFbufShutdown`, which nothing in the repository calls; the Print functions,
  `amprint.c` and `misc.c`, which only print; the test and workload programs,
  read for how callers behave; scripts and plots.
* A second `PF_Init` (it empties the hash table but not the list; the repository
  calls it once, first), a process that ends without closing (the header is written
  by `PF_CloseFile` alone and nothing is promised of such a file), the statistics.
  Each breaks the layer by what the code does not do, so there is no property to keep.
* A file opened while it is open: the action is there, but the callers of `Next` do
  not take it. After a `close()` that fails the descriptor may be dead; that Unix
  hands its number to another file, which the entry would then read, is left out.
* Records as long as a page or longer: they are written over the page's header, or
  over what lies before the page.
* Creating, opening and destroying an index: `PF` calls around one empty leaf. Values
  of an index are integers; the comparison of floats and strings is left out.
* What later calls make of an index that is damaged, by a split cut short or an empty
  half whose `keyPtr` is made of an int that was never set.
* The size of `AM_Stack`, 50, and of `AM_scanTable`, which the code does check.
* Changes under an open scan other than deleting the entry it was just given:
  `amlayer/DOC:54` asks for no other.

## What is left

**Proofs about the answers of index scans.** `ScanInv` gives what they need of the
leaves and their chain and of the steps of a call; what is missing is the place in
the order of entries that a row of `AM_scanTable` stands for, for those scans that
the code gets right (`Sure`).
