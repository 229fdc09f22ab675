------------------------------- MODULE AMLeaf -------------------------------
(***************************************************************************)
(* A leaf of the B+ tree index (amlayer): its layout and the operators that*)
(* search, insert into, delete from, compact and split it.  Keys grow up   *)
(* from the header, each with the offset of the head of its list of record *)
(* identifiers; the cells of the lists are carved down from the end of the *)
(* page, and a cell given back is chained in the free list.                *)
(*                                                                         *)
(* A leaf is a record: the header's fields that change, the sequence of    *)
(* key slots (those beyond numKeys keep what was last there) and the carved*)
(* cells, by offset.  Offsets and sizes are those of the code, in bytes, in*)
(* a page that is small.                                                   *)
(***************************************************************************)
EXTENDS Integers, Sequences, FiniteSets, SequencesExt

CONSTANTS
  PAGE_SIZE,   \* PF_PAGE_SIZE
  attrLength,  \* bytes of a value
  Junk         \* the offset that an int that was never set happens to hold

AM_si == 4     \* sizeof(int)
AM_ss == 2     \* sizeof(short)
AM_sl == 24    \* sizeof(AM_LEAFHEADER)
AM_NULL == 0
AM_NULL_PAGE == -1

CELL == AM_si + AM_ss          \* a record identifier and the offset of the next
recSize == attrLength + AM_ss  \* a key and the offset of its list

\* A page has room for an entry and more.
ASSUME LeafAssumption ==
  PAGE_SIZE \in Nat /\ attrLength \in Nat /\ PAGE_SIZE > AM_sl + recSize + CELL

EmptyLeaf ==
  [type |-> "l", nextLeafPage |-> AM_NULL_PAGE, recIdPtr |-> PAGE_SIZE, keyPtr |-> AM_sl,
   freeListPtr |-> AM_NULL, numinfreeList |-> 0, numKeys |-> 0, key |-> <<>>, cell |-> <<>>]

Gap(l) == l.recIdPtr - l.keyPtr

-----------------------------------------------------------------------------
(* What a leaf holds. *)

\* The offsets on the list that starts at head, in order.
Chain(l, head) ==
  LET from[o \in DOMAIN l.cell \cup {AM_NULL}] ==
        IF o = AM_NULL THEN <<>> ELSE <<o>> \o from[l.cell[o].next]
  IN  from[head]

RecsAt(l, i) == LET c == Chain(l, l.key[i].head)
                IN  [j \in DOMAIN c |-> l.cell[c[j]].recId]
KeysOf(l) == [i \in 1 .. l.numKeys |-> l.key[i].val]

-----------------------------------------------------------------------------
(* Searching. *)

AM_Compare(key, value) == IF value < key THEN -1 ELSE IF value > key THEN 1 ELSE 0

\* The loop of AM_BinSearch and AM_SearchLeaf over an ordered sequence of keys:
\* where an equal key is, or how many keys are smaller.
BinarySearch(keys, value) ==
  LET n == Len(keys)
      loop[low_high \in (0 .. n) \X (-1 .. n - 1)] ==
        LET low == low_high[1]
            high == low_high[2]
            mid == (low + high) \div 2
            c == AM_Compare(keys[mid + 1], value)
        IN  IF low > high THEN [found |-> FALSE, at |-> low]
            ELSE IF c = 0 THEN [found |-> TRUE, at |-> mid]
            ELSE IF c < 0 THEN loop[<<low, mid - 1>>]
            ELSE loop[<<mid + 1, high>>]
  IN  loop[<<0, n - 1>>]

AM_SearchLeaf(l, value) ==
  LET s == BinarySearch(KeysOf(l), value)
  IN  [found |-> s.found, index |-> s.at + 1]

-----------------------------------------------------------------------------
(* Inserting. *)

\* The cell at o filled with recId and put at the head of the list of key index.
Put(l, o, recId, index) ==
  LET cell == [recId |-> recId, next |-> l.key[index].head]
  IN  [l EXCEPT !.key[index].head = o,
                !.cell = [c \in DOMAIN @ \cup {o} |-> IF c = o THEN cell ELSE @[c]]]

\* A free cell is taken if there is one.
\* Mutant: the cell taken stays on the free list.
AM_InsertToLeafFound_CellKept(l, recId, index) ==
  IF l.freeListPtr = AM_NULL
  THEN Put([l EXCEPT !.recIdPtr = @ - CELL], l.recIdPtr - CELL, recId, index)
  ELSE Put(l, l.freeListPtr, recId, index)
\* Mutant: the free cells are counted down for a cell that was carved, too.
AM_InsertToLeafFound_CountedDown(l, recId, index) ==
  IF l.freeListPtr = AM_NULL
  THEN Put([l EXCEPT !.recIdPtr = @ - CELL, !.numinfreeList = @ - 1],
           l.recIdPtr - CELL, recId, index)
  ELSE Put([l EXCEPT !.freeListPtr = l.cell[@].next, !.numinfreeList = @ - 1],
           l.freeListPtr, recId, index)
AM_InsertToLeafFound(l, recId, index) ==
  IF l.freeListPtr = AM_NULL
  THEN Put([l EXCEPT !.recIdPtr = @ - CELL], l.recIdPtr - CELL, recId, index)
  ELSE Put([l EXCEPT !.freeListPtr = l.cell[@].next, !.numinfreeList = @ - 1],
           l.freeListPtr, recId, index)

\* The key slots from index on move up one, over whatever was behind the last.
AM_InsertToLeafNotFound(l, value, recId, index) ==
  LET n == l.numKeys
      shifted == SubSeq(l.key, 1, index - 1) \o <<[val |-> value, head |-> AM_NULL]>>
                 \o SubSeq(l.key, index, n) \o SubSeq(l.key, n + 2, Len(l.key))
  IN  AM_InsertToLeafFound([l EXCEPT !.key = shifted, !.keyPtr = @ + recSize, !.numKeys = n + 1],
                           recId, index)

\* The keys low to high with their lists, in a page of their own: the cells are
\* carved afresh in the order of the lists and nothing is free.  With no key to
\* copy, the code computes keyPtr from an int it never set.
AM_Compact(low, high, l) ==
  LET recs == [i \in 1 .. high - low + 1 |-> RecsAt(l, low + i - 1)]
      before[i \in 1 .. Len(recs) + 1] == IF i = 1 THEN 0 ELSE before[i - 1] + Len(recs[i - 1])
      total == before[Len(recs) + 1]
      At(k) == PAGE_SIZE - CELL * k
  IN  [l EXCEPT
        !.recIdPtr = At(total),
        !.keyPtr = (IF recs = <<>> THEN Junk ELSE (Len(recs) - 1) * recSize + AM_sl) + recSize,
        !.numKeys = Len(recs), !.freeListPtr = AM_NULL, !.numinfreeList = 0,
        !.key = [i \in 1 .. Len(recs) |-> [val |-> l.key[low + i - 1].val, head |-> At(before[i] + 1)]],
        !.cell = [o \in {At(k) : k \in 1 .. total} |->
                    LET k == (PAGE_SIZE - o) \div CELL
                        i == CHOOSE j \in 1 .. Len(recs) : before[j] < k /\ k <= before[j + 1]
                    IN  [recId |-> recs[i][k - before[i]],
                         next |-> IF k = before[i + 1] THEN AM_NULL ELSE At(k + 1)]]]

\* Whether an entry goes in as the leaf is.
HasRoom(l, found) ==
  IF found THEN l.freeListPtr # AM_NULL \/ Gap(l) >= CELL
  ELSE IF l.freeListPtr = AM_NULL THEN Gap(l) >= CELL + recSize
  ELSE Gap(l) > recSize

\* AM_InsertintoLeaf: the leaf with the entry, or the leaf as it was when there is
\* no room.
AM_InsertintoLeaf(l, value, recId, index, found) ==
  IF HasRoom(l, found)
  THEN [done |-> TRUE,
        leaf |-> IF found THEN AM_InsertToLeafFound(l, recId, index)
                 ELSE AM_InsertToLeafNotFound(l, value, recId, index)]
  ELSE IF ~ found /\ l.freeListPtr # AM_NULL
                  /\ l.numinfreeList * CELL + Gap(l) > recSize + CELL
  THEN [done |-> TRUE,
        leaf |-> AM_InsertToLeafNotFound(AM_Compact(1, l.numKeys, l), value, recId, index)]
  ELSE [done |-> FALSE, leaf |-> l]

\* Whether the insertion compacts a range of no keys: an empty leaf, or one of a
\* single key that is split, so that its lower half is empty.
CompactsNothing(l, found, done) ==
  ~ HasRoom(l, found) /\ l.numKeys <= IF done THEN 0 ELSE 1

\* A leaf without room split in two by the number of its keys, and the entry
\* inserted into the half it belongs to; the code does not look whether that has
\* room, and the leaf of a single key has the same one key in its upper half.
SplitLeaf(l, value, recId, index, found) ==
  LET half == l.numKeys \div 2
      first == AM_Compact(1, half, l)
      second == AM_Compact(half + 1, l.numKeys, l)
  IN  IF index <= half
      THEN [first |-> AM_InsertintoLeaf(first, value, recId, index, found).leaf, second |-> second]
      ELSE [first |-> first,
            second |-> AM_InsertintoLeaf(second, value, recId, index - half, found).leaf]

-----------------------------------------------------------------------------
(* Deleting. *)

\* The first cell with recId on the list of key index moves to the free list; a
\* key whose list is empty goes, the slots behind it move down, and the last slot
\* keeps what it held.
Removed(l, index, recId) ==
  LET chain == Chain(l, l.key[index].head)
      j == CHOOSE i \in DOMAIN chain : /\ l.cell[chain[i]].recId = recId
                                       /\ \A h \in 1 .. i - 1 : l.cell[chain[h]].recId # recId
      o == chain[j]
      unlinked == IF j = 1 THEN [l EXCEPT !.key[index].head = l.cell[o].next]
                  ELSE [l EXCEPT !.cell[chain[j - 1]].next = l.cell[o].next]
      freed == [unlinked EXCEPT !.cell[o].next = l.freeListPtr, !.freeListPtr = o,
                                !.numinfreeList = @ + 1]
  IN  IF freed.key[index].head # AM_NULL THEN freed
      ELSE [freed EXCEPT
              !.key = [i \in DOMAIN @ |-> IF i >= index /\ i < l.numKeys THEN @[i + 1] ELSE @[i]],
              !.numKeys = @ - 1, !.keyPtr = @ - recSize]

-----------------------------------------------------------------------------
(* A leaf is sound when the lists of its keys and its free list share out the   *)
(* carved cells, the header's numbers say where keys and cells end, and neither *)
(* reaches into the other.                                                      *)

LeafSound(l) ==
  LET lists == [i \in 1 .. l.numKeys |-> Chain(l, l.key[i].head)]
      free == Chain(l, l.freeListPtr)
      carved == {o \in AM_sl .. PAGE_SIZE : o >= l.recIdPtr /\ (PAGE_SIZE - o) % CELL = 0 /\ o < PAGE_SIZE}
      used == UNION {ToSet(lists[i]) : i \in 1 .. l.numKeys}
  IN  /\ l.keyPtr = AM_sl + l.numKeys * recSize
      /\ l.keyPtr <= l.recIdPtr
      /\ DOMAIN l.cell = carved
      /\ used \cup ToSet(free) = carved
      /\ used \cap ToSet(free) = {}
      /\ \A i, j \in 1 .. l.numKeys : i # j => ToSet(lists[i]) \cap ToSet(lists[j]) = {}
      /\ \A i \in 1 .. l.numKeys : lists[i] # <<>>
      /\ l.numinfreeList = Len(free)
=============================================================================
