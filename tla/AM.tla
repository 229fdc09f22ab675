--------------------------------- MODULE AM ---------------------------------
(***************************************************************************)
(* The access method (amlayer): one open index, a B+ tree in a paged file, *)
(* with the calls that insert and delete entries.  The calls of a process  *)
(* do not interleave, so a call is one action: the search down from the    *)
(* root, which notes the way on AM_Stack, the change to the leaf, and the  *)
(* splits up the tree.                                                     *)
(*                                                                         *)
(* The paged file is what PagedFile promises: pages that keep their        *)
(* contents.  No page of an index is ever disposed of, so PF_AllocPage     *)
(* takes the next number, and the root is the first page.  PF refuses a    *)
(* page that an earlier call of AM left fixed, and may refuse any other    *)
(* when its pool is full or a read or write fails.  Values are integers.   *)
(*                                                                         *)
(* A split that is refused a page halfway, or the compaction of a range of *)
(* no keys, leaves pages that are no index any more.  The module says what *)
(* they are, and that damaged is TRUE; what later calls make of them is    *)
(* not modelled.                                                           *)
(***************************************************************************)
EXTENDS AMLeaf

CONSTANTS
  Pairs,      \* the entries <<value, record identifier>> that callers insert
  Deletable,  \* bound: the entries that they delete
  MaxKeys,    \* keys in an internal node, even (amfns.c:58)
  MaxPages,   \* bound: an index of at most this many pages
  MaxCopies,  \* bound: copies of an entry
  MaxStack,   \* bound: what is pushed on an AM_Stack of this length is not noted
  MaxFixed,   \* bound: the leaves that insertions leave fixed
  Callers,    \* {"absent"} if entries that are not there are deleted too, or {}
  Faults      \* {"page"} if PF may refuse a page that is not fixed, or {}

ASSUME AMAssumption ==
  /\ Pairs \subseteq Int \X Nat /\ IsFiniteSet(Pairs) /\ Pairs # {}
  /\ Deletable \subseteq Pairs
  /\ MaxKeys \in Nat /\ MaxKeys > 0 /\ MaxKeys % 2 = 0
  /\ MaxPages \in Nat /\ MaxPages > 0 /\ {MaxCopies, MaxStack, MaxFixed} \subseteq Nat

VARIABLES
  page,   \* the pages of the index
  fixed,  \* the pages that calls left fixed
  stack,  \* AM_Stack
  acked,  \* acked[v][r]: entries <<v, r>> by what the callers were told
  damaged \* history: a split was cut short, or a range of no keys was compacted

vars == <<page, fixed, stack, acked, damaged>>

Values == {pair[1] : pair \in Pairs}
RecIds == {pair[2] : pair \in Pairs}
RecsOf(v) == {r \in RecIds : <<v, r>> \in Pairs}

\* All copies of one value's entries, and another key with an entry, fit in a leaf.
FewCopies ==
  \A v \in Values :
    PAGE_SIZE > AM_sl + 2 * recSize + CELL * (Cardinality(RecsOf(v)) * MaxCopies + 1)

AM_RootPageNum == 0
NumPages == Cardinality(DOMAIN page)
IsLeaf(p) == page[p].type = "l"
Node(keys, ptrs) == [type |-> "i", key |-> keys, ptr |-> ptrs]

Init ==
  /\ page = [p \in {AM_RootPageNum} |-> EmptyLeaf]
  /\ fixed = {}
  /\ stack = <<>>
  /\ acked = [v \in Values |-> [r \in RecIds |-> 0]]
  /\ damaged = FALSE

-----------------------------------------------------------------------------
(* Searching. *)

\* The place in an internal node where value goes down.
AM_BinSearch(keys, value) ==
  LET s == BinarySearch(keys, value) IN IF s.found THEN s.at + 1 ELSE s.at

\* The search for a value: the internal nodes on the way, and the leaf it ends at,
\* which stays fixed, or no leaf if a page on the way is fixed already.
AM_Search(value) ==
  LET down[p \in DOMAIN page] ==
        IF p \in fixed THEN [rc |-> "AME_PF", way |-> <<>>, pageNum |-> p]
        ELSE IF IsLeaf(p) THEN [rc |-> "AME_OK", way |-> <<>>, pageNum |-> p]
        ELSE LET i == AM_BinSearch(page[p].key, value)
                 rest == down[page[p].ptr[i + 1]]
             IN  [rest EXCEPT !.way = <<[pageNumber |-> p, offset |-> i]>> \o @]
  IN  down[AM_RootPageNum]

\* The search, or the part of it until PF refuses a page: the root, or the child of
\* the node pushed last.
Searches(value) ==
  LET s == AM_Search(value)
  IN  {s} \cup {[s EXCEPT !.rc = "AME_PF", !.way = SubSeq(@, 1, n)] :
                  n \in IF "page" \in Faults THEN 0 .. Len(s.way) ELSE {}}

\* The way on top of what earlier calls left, which no call reads: those that go
\* back up the way stop at the root, its first entry.
Pushed(s) == IF Len(stack) < MaxStack THEN stack \o s.way ELSE stack

-----------------------------------------------------------------------------
(* Inserting. *)

\* Mutant: the new pointer goes to the left of the new key.
AM_AddtoIntPage_Left(n, value, pageNum, offset) ==
  Node(InsertAt(n.key, offset + 1, value), InsertAt(n.ptr, offset + 1, pageNum))
AM_AddtoIntPage(n, value, pageNum, offset) ==
  Node(InsertAt(n.key, offset + 1, value), InsertAt(n.ptr, offset + 2, pageNum))

\* A full node with one more key in two halves; the key between them goes up.
\* Mutant: the middle key stays in the first half as well.
AM_SplitIntNode_MiddleKept(n, value, pageNum, offset) ==
  LET all == AM_AddtoIntPage(n, value, pageNum, offset)
      half == MaxKeys \div 2
  IN  [first  |-> Node(SubSeq(all.key, 1, half + 1), SubSeq(all.ptr, 1, half + 2)),
       up     |-> all.key[half + 1],
       second |-> Node(SubSeq(all.key, half + 2, MaxKeys + 1),
                       SubSeq(all.ptr, half + 2, MaxKeys + 2))]
AM_SplitIntNode(n, value, pageNum, offset) ==
  LET all == AM_AddtoIntPage(n, value, pageNum, offset)
      half == MaxKeys \div 2
  IN  [first  |-> Node(SubSeq(all.key, 1, half), SubSeq(all.ptr, 1, half + 1)),
       up     |-> all.key[half + 1],
       second |-> Node(SubSeq(all.key, half + 2, MaxKeys + 1),
                       SubSeq(all.ptr, half + 2, MaxKeys + 2))]

\* The pages pg with further pages after them.
Allocated(pg, more) ==
  [p \in 0 .. Cardinality(DOMAIN pg) + Len(more) - 1 |->
     IF p \in DOMAIN pg THEN pg[p] ELSE more[p - Cardinality(DOMAIN pg) + 1]]

\* One level of AM_AddtoParent: key and pageNum go into the node on top of the
\* stack, and if that is full, its second half and middle key into the next.
AddtoParentStep(s, top) ==
  LET p == top.pageNumber
      n == s.page[p]
      new == Cardinality(DOMAIN s.page)
      halves == AM_SplitIntNode(n, s.key, s.pageNum, top.offset)
  IN  IF Len(n.key) < MaxKeys
      THEN [s EXCEPT !.page[p] = AM_AddtoIntPage(n, s.key, s.pageNum, top.offset), !.done = TRUE]
      ELSE IF p = AM_RootPageNum
      THEN [s EXCEPT !.page = [Allocated(s.page, <<halves.second, halves.first>>)
                                 EXCEPT ![p] = Node(<<halves.up>>, <<new + 1, new>>)],
                     !.done = TRUE]
      ELSE [s EXCEPT !.page = [Allocated(s.page, <<halves.second>>) EXCEPT ![p] = halves.first],
                     !.key = halves.up, !.pageNum = new]

AM_AddtoParent(pg, pageNum, key, way) ==
  LET up[k \in 0 .. Len(way)] ==
        IF k = 0 THEN [page |-> pg, pageNum |-> pageNum, key |-> key, done |-> FALSE]
        ELSE IF up[k - 1].done THEN up[k - 1]
        ELSE AddtoParentStep(up[k - 1], way[Len(way) - k + 1])
  IN  up[Len(way)].page

\* The pages after leaf p, reached over way, was split.
\* Mutant: the first half stays chained to the leaf behind the second.
AM_SplitLeaf_NotChained(p, value, recId, index, found, way) ==
  LET halves == SplitLeaf(page[p], value, recId, index, found)
      new == NumPages
      key == halves.second.key[1].val
  IN  IF p = AM_RootPageNum
      THEN [Allocated(page, <<halves.second, halves.first>>)
              EXCEPT ![p] = Node(<<key>>, <<new + 1, new>>)]
      ELSE AM_AddtoParent([Allocated(page, <<halves.second>>) EXCEPT ![p] = halves.first],
                          new, key, way)
AM_SplitLeaf(p, value, recId, index, found, way) ==
  LET halves == SplitLeaf(page[p], value, recId, index, found)
      new == NumPages
      first == [halves.first EXCEPT !.nextLeafPage = new]
      key == halves.second.key[1].val
  IN  IF p = AM_RootPageNum
      THEN [Allocated(page, <<halves.second, first>>)
              EXCEPT ![p] = Node(<<key>>, <<new + 1, new>>)]
      ELSE AM_AddtoParent([Allocated(page, <<halves.second>>) EXCEPT ![p] = first],
                          new, key, way)

\* The split of a leaf reached over way after its first new page, when PF refuses it
\* another: the pages as they are then, and those left fixed.  split[n] are the
\* pages of a split that leaves out the first n nodes of the way.  Refused is a node
\* to which a key is to be added, the page for its second half, or that for the
\* first half of the root.
CutShort(split, way) ==
  LET Full(n) == Len(page[way[n].pageNumber].key) = MaxKeys
      reached == {n \in DOMAIN way : \A m \in n + 1 .. Len(way) : Full(m)}
      last == Cardinality(DOMAIN split[0]) - 1
      root == IF way = <<>> THEN split[0][last] ELSE page[AM_RootPageNum]
  IN  {[page |-> split[n], fixed |-> {}] : n \in reached}
      \cup {[page |-> split[n], fixed |-> {way[n].pageNumber}] : n \in {m \in reached : Full(m)}}
      \cup IF \E n \in DOMAIN way : ~ Full(n) THEN {}
           ELSE {[page |-> [q \in 0 .. last - 1 |-> IF q = AM_RootPageNum THEN root ELSE split[0][q]],
                  fixed |-> {AM_RootPageNum, last - 1}]}

\* An error empties the stack.  The leaf stays fixed if its split is refused the
\* first page, and nothing is changed then.
AM_InsertEntry(value, recId) ==
  \E s \in Searches(value) :
    LET p == s.pageNum
        at == AM_SearchLeaf(page[p], value)
        put == AM_InsertintoLeaf(page[p], value, recId, at.index, at.found)
    IN  /\ ~ damaged /\ acked[value][recId] < MaxCopies
        /\ stack' = <<>>
        /\ \/ s.rc # "AME_OK" /\ UNCHANGED <<page, fixed, acked, damaged>>
           \/ /\ s.rc = "AME_OK"
              /\ page' = IF put.done THEN [page EXCEPT ![p] = put.leaf]
                         ELSE AM_SplitLeaf(p, value, recId, at.index, at.found, s.way)
              /\ acked' = [acked EXCEPT ![value][recId] = @ + 1]
              /\ damaged' = CompactsNothing(page[p], at.found, put.done)
              /\ UNCHANGED fixed
           \/ /\ s.rc = "AME_OK" /\ ~ put.done /\ "page" \in Faults
              /\ UNCHANGED acked
              /\ \/ /\ fixed' = fixed \cup {p} /\ Cardinality(fixed) < MaxFixed
                    /\ UNCHANGED <<page, damaged>>
                 \/ \E split \in {[n \in 0 .. Len(s.way) |->
                                     AM_SplitLeaf(p, value, recId, at.index, at.found,
                                                  SubSeq(s.way, n + 1, Len(s.way)))]} :
                      \E c \in CutShort(split, s.way) :
                        page' = c.page /\ fixed' = fixed \cup c.fixed /\ damaged' = TRUE
        /\ Cardinality(DOMAIN page') <= MaxPages

-----------------------------------------------------------------------------
(* Deleting. *)

\* AME_NOTFOUND leaves the leaf fixed, and an error leaves the way on the stack.
AM_DeleteEntry(value, recId) ==
  \E s \in Searches(value) :
    LET p == s.pageNum
        at == AM_SearchLeaf(page[p], value)
    IN  /\ ~ damaged
        /\ acked[value][recId] = 0 => "absent" \in Callers
        /\ IF s.rc # "AME_OK"
           THEN stack' = Pushed(s) /\ UNCHANGED <<page, fixed, acked>>
           ELSE IF ~ at.found \/ recId \notin ToSet(RecsAt(page[p], at.index))
           THEN stack' = Pushed(s) /\ fixed' = fixed \cup {p} /\ UNCHANGED <<page, acked>>
           ELSE /\ page' = [page EXCEPT ![p] = Removed(@, at.index, recId)]
                /\ acked' = [acked EXCEPT ![value][recId] = @ - 1]
                /\ stack' = <<>>
                /\ UNCHANGED fixed
        /\ UNCHANGED damaged

-----------------------------------------------------------------------------
Next ==
  \/ \E pair \in Pairs :
       \/ AM_InsertEntry(pair[1], pair[2])
       \/ pair \in Deletable /\ AM_DeleteEntry(pair[1], pair[2])
  \/ damaged /\ UNCHANGED vars

Spec == Init /\ [][Next]_vars

-----------------------------------------------------------------------------
(* Properties. *)

Offsets == {AM_NULL} \cup AM_sl .. PAGE_SIZE

PagesTyped ==
  /\ DOMAIN page = 0 .. NumPages - 1 /\ NumPages <= MaxPages
  /\ \A p \in DOMAIN page :
       IF IsLeaf(p)
       THEN /\ page[p].nextLeafPage \in {AM_NULL_PAGE} \cup DOMAIN page
            /\ {page[p].recIdPtr, page[p].keyPtr, page[p].freeListPtr} \subseteq Offsets
            /\ page[p].numinfreeList \in Nat
            /\ page[p].numKeys \in 0 .. Len(page[p].key)
            /\ page[p].key \in Seq([val : Values, head : Offsets])
            /\ page[p].cell \in [DOMAIN page[p].cell -> [recId : RecIds, next : Offsets]]
       ELSE page[p].key \in Seq(Values) /\ page[p].ptr \in Seq(DOMAIN page)
  /\ fixed \subseteq DOMAIN page
  /\ stack \in Seq([pageNumber : DOMAIN page, offset : Nat])
  /\ acked \in [Values -> [RecIds -> Nat]]
\* Leaves, internal nodes, and calls' leftovers are what their names say, of an
\* index that was not damaged.
TypeOK == damaged \in BOOLEAN /\ (~ damaged => PagesTyped)

EachLeafSound == \A p \in DOMAIN page : IsLeaf(p) => LeafSound(page[p])
\* No sequence of insertions, deletions, compactions and splits makes a leaf lose
\* a cell, share it between lists, or let keys and cells overlap, and a list head
\* or the free count never lies (amfns.c:148), whatever PF refuses, unless the
\* index is damaged: by a split that is cut short, or an empty range compacted,
\* which makes keyPtr of an int that was never set (aminsert.c:132).
LeavesSound == ~ damaged => EachLeafSound

Ascending(keys) == \A i, j \in DOMAIN keys : i < j => keys[i] < keys[j]

\* The pages of the types below each page and itself, in order from the left.
PagesBelow(types) ==
  LET below[p \in DOMAIN page] ==
        (IF page[p].type \in types THEN <<p>> ELSE <<>>)
          \o (IF IsLeaf(p) THEN <<>>
              ELSE FlattenSeq([i \in DOMAIN page[p].ptr |-> below[page[p].ptr[i]]]))
  IN  below
ValuesIn(leaves) == UNION {ToSet(KeysOf(page[p])) : p \in ToSet(leaves)}

IsSearchTree ==
  LET leaves == PagesBelow({"l"})
      whole == PagesBelow({"l", "i"})[AM_RootPageNum]
  IN  /\ IsInjective(whole) /\ ToSet(whole) = DOMAIN page
      /\ \A p \in DOMAIN page :
           IF IsLeaf(p) THEN Ascending(KeysOf(page[p]))
           ELSE /\ Ascending(page[p].key)
                /\ Len(page[p].key) \in 1 .. MaxKeys
                /\ Len(page[p].ptr) = Len(page[p].key) + 1
                /\ \A i \in DOMAIN page[p].key :
                     /\ \A v \in ValuesIn(leaves[page[p].ptr[i]]) : v < page[p].key[i]
                     /\ \A v \in ValuesIn(leaves[page[p].ptr[i + 1]]) : v >= page[p].key[i]

\* The tree is a search tree: every page of the file is in it once, keys ascend,
\* a node has one child more than keys and no more keys than fit, and what is
\* below a child lies between the keys on either side of its pointer (am.c:94),
\* unless the index is damaged.
TreeSound == ~ damaged => IsSearchTree

GetLeftPageNum == IF IsLeaf(AM_RootPageNum) THEN AM_RootPageNum ELSE 2

LeavesChained ==
  LET from[p \in {AM_NULL_PAGE} \cup {q \in DOMAIN page : IsLeaf(q)}] ==
        IF p = AM_NULL_PAGE THEN <<>> ELSE <<p>> \o from[page[p].nextLeafPage]
  IN  from[GetLeftPageNum] = PagesBelow({"l"})[AM_RootPageNum]
\* The leaves are chained in the order of the tree, from the page that
\* GetLeftPageNum takes for the leftmost, whose number is fixed in the code
\* (amscan.c:500), to the last, unless the index is damaged.
ChainInOrder == ~ damaged => LeavesChained

\* What a search for a value comes upon, whatever is fixed.
Found(value) ==
  LET down[p \in DOMAIN page] ==
        IF IsLeaf(p) THEN p ELSE down[page[p].ptr[AM_BinSearch(page[p].key, value) + 1]]
      l == page[down[AM_RootPageNum]]
      at == AM_SearchLeaf(l, value)
  IN  IF at.found THEN RecsAt(l, at.index) ELSE <<>>
Entries ==
  [v \in Values |-> LET recs == Found(v)
                    IN  [r \in RecIds |-> Cardinality({j \in DOMAIN recs : recs[j] = r})]]

\* "Inserts a value,recId pair into the tree" (amfns.c:197): every entry whose
\* insertion was answered AME_OK and that was not deleted since is found by a
\* search, as often as it was inserted, and no other.
EntriesFound == Entries = acked

\* So it is unless the index is damaged: the half that a leaf of two keys or more
\* is split into has room for the entry, which the code does not look for
\* (am.c:32), however many entries a key has, and an insertion that is refused a
\* page leaves nothing behind or the index damaged.
AckedFound == ~ damaged => EntriesFound

\* Between calls nothing is fixed and the stack is empty: README.md:529 promises
\* "Resource cleanup on error paths", README.md:535 "Stack cleanup after operations".
NothingLeft == fixed = {} /\ stack = <<>>
=============================================================================
