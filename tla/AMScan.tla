------------------------------- MODULE AMScan -------------------------------
(***************************************************************************)
(* Index scans (amlayer/amscan.c) over the index of AM: the rows of        *)
(* AM_scanTable, the calls that open a scan, ask it for the next entry and *)
(* close it, and the calls of AM between them.  As its documentation asks  *)
(* (and test3.c does), a caller with a scan open deletes only the entry    *)
(* that it was just given, and inserts nothing.                            *)
(*                                                                         *)
(* A call is a chain of steps that fix and unfix pages; each of them may   *)
(* end it with AME_PF, and what was fixed and set till then stays so.  A   *)
(* call in progress is a record k: the row, the pages fixed, the answer    *)
(* ("" while there is none) and what PF does with a page that is not fixed:*)
(* it is held in the pool, read when it is asked for, or refused, because  *)
(* no buffer is free or a read or write fails.                             *)
(***************************************************************************)
EXTENDS AM

CONSTANTS
  Scans,   \* rows of AM_scanTable: 1 .. MAXSCANS
  MaxOpens, \* bound: the calls that open a scan
  Ops,     \* bound: the operators that callers ask for
  Sought   \* bound: the values that they ask for

\* The operators are the codes of am.h; the values asked for are among those that
\* entries may have, in the index or not.
ASSUME ScanAssumption ==
  /\ Scans \subseteq Nat /\ MaxOpens \in Nat /\ Sought \subseteq Values
  /\ Ops \subseteq {"ALL", "EQUAL", "LESS_THAN", "GREATER_THAN", "LESS_THAN_EQUAL",
                    "GREATER_THAN_EQUAL", "NOT_EQUAL", "INVALID"}

VARIABLES
  scan,  \* AM_scanTable
  opens, \* how many scans were opened
  told   \* for each row, what the caller of its scan asked for and was told

AME_PF == -3

scanVars == <<scan, opens, told>>
allVars == <<page, fixed, stack, acked, damaged, scan, opens, told>>

\* The table is static, so it starts as zeros.
Row == [status |-> "FREE", op |-> "ALL", pageNum |-> 0, index |-> 0, actindex |-> 0,
        nextpageNum |-> 0, nextvalue |-> 0, nextIndex |-> 0, nextRecIdPtr |-> 0,
        lastpageNum |-> 0, lastIndex |-> 0]
NothingTold == [open |-> FALSE, due |-> {}, got |-> <<>>, rc |-> "AME_OK", sure |-> FALSE,
                failed |-> FALSE, refused |-> FALSE]

ScanInit ==
  /\ Init
  /\ scan = [s \in Scans |-> Row]
  /\ opens = 0
  /\ told = [s \in Scans |-> NothingTold]

-----------------------------------------------------------------------------
(* What a scan reads of a leaf: a key slot, in use or left behind, and a cell,  *)
(* in use or free; anything else is not what it is taken for.                   *)

Slot(p, i) == IF i \in DOMAIN page[p].key THEN page[p].key[i] ELSE [val |-> Junk, head |-> Junk]
Cell(p, o) == IF o \in DOMAIN page[p].cell THEN page[p].cell[o] ELSE [recId |-> Junk, next |-> Junk]
KeyHead(p, i) == Slot(p, i).head

-----------------------------------------------------------------------------
(* The calls of PF.                                                             *)

Fail(k) == [k EXCEPT !.rc = "AME_PF"]

\* What PF may do with the pages that are not fixed, in one call: the pool holds
\* them or not, and at most one is refused.
Pool(held, refused) ==
  [p \in DOMAIN page |-> IF p = refused THEN "refused" ELSE IF held THEN "held" ELSE "read"]
Pools == {Pool(held, refused) :
            held \in BOOLEAN,
            refused \in {AM_NULL_PAGE} \cup IF "page" \in Faults THEN DOMAIN page ELSE {}}
Refuses(pool) == \E p \in DOMAIN page : pool[p] = "refused"

PF_GetThisPage(k, p) ==
  IF p \notin DOMAIN page \/ p \in k.fixed \/ k.pool[p] = "refused" THEN Fail(k)
  ELSE [k EXCEPT !.fixed = @ \cup {p}]

\* Unfixing a page that is not fixed is an error while the pool holds it, and none
\* when it does not (pf.c:560).
PF_UnfixPage(k, p) ==
  IF p \in k.fixed THEN [k EXCEPT !.fixed = @ \ {p}]
  ELSE IF p = AM_NULL_PAGE \/ k.pool[p] = "held" THEN Fail(k)
  ELSE k

\* Step after k, unless the call is over.
Then(k, Step(_)) == IF k.rc = "" THEN Step(k) ELSE k

At(row, p, i) == [row EXCEPT !.nextpageNum = p, !.nextIndex = i, !.actindex = i]

-----------------------------------------------------------------------------
(* Opening a scan. *)

\* For all entries, from the leaf left.
OpenAll(k, left) ==
  LET at == [k EXCEPT !.row = At([@ EXCEPT !.op = "ALL"], left, 1)]
  IN  Then(PF_GetThisPage(at, left), LAMBDA g :
        PF_UnfixPage([g EXCEPT !.row.nextRecIdPtr = KeyHead(left, 1)], left))

\* The place of a value that is behind its leaf's last key: the code fetches the
\* next leaf, and then takes the page after that one for it.
Beyond(k, p) ==
  LET next == page[p].nextLeafPage
  IN  IF next = AM_NULL_PAGE THEN [k EXCEPT !.row.pageNum = AM_NULL_PAGE]
      ELSE Then(PF_GetThisPage(k, next), LAMBDA g :
             Then(PF_UnfixPage(g, page[next].nextLeafPage), LAMBDA u :
               [u EXCEPT !.buf = next, !.row.pageNum = page[next].nextLeafPage, !.row.index = 1]))

\* A scan that starts from the leftmost leaf; if that is the one the search ended
\* at, the code reads whatever page is in pageBuf.
FromLeft(k, p, left) ==
  LET at == [k EXCEPT !.row = At(@, left, 1)]
  IN  IF p = left THEN [at EXCEPT !.row.nextRecIdPtr = KeyHead(k.buf, 1)]
      ELSE Then(PF_GetThisPage(at, left), LAMBDA g :
             PF_UnfixPage([g EXCEPT !.row.nextRecIdPtr = KeyHead(left, 1)], left))

\* Mutant: the page of the row is not set.
FromHere_Unplaced(k, i) ==
  [k EXCEPT !.row.nextIndex = i, !.row.actindex = i, !.row.nextRecIdPtr = KeyHead(k.buf, i)]
FromHere(k, i) == [k EXCEPT !.row = [At(@, k.row.pageNum, i) EXCEPT !.nextRecIdPtr = KeyHead(k.buf, i)]]

Position(k, p, found, left) ==
  LET i == k.row.index
      next == page[k.buf].nextLeafPage
      last(n) == [k EXCEPT !.row.lastpageNum = k.row.pageNum, !.row.lastIndex = n]
  IN  CASE k.row.op = "EQUAL" ->
             IF found THEN FromHere(last(i), i) ELSE [k EXCEPT !.row.status = "OVER"]
        [] k.row.op = "LESS_THAN" -> FromLeft(last(i - 1), p, left)
        [] k.row.op = "LESS_THAN_EQUAL" -> FromLeft(last(IF found THEN i ELSE i - 1), p, left)
        [] k.row.op = "GREATER_THAN_EQUAL" \/ (k.row.op = "GREATER_THAN" /\ ~ found) ->
             FromHere(k, i)
        [] k.row.op = "GREATER_THAN" /\ found ->
             IF i + 1 <= page[k.buf].numKeys THEN FromHere(k, i + 1)
             ELSE IF next = AM_NULL_PAGE THEN [k EXCEPT !.row.status = "OVER"]
             ELSE Then(PF_GetThisPage([k EXCEPT !.row = At(@, next, 1)], next), LAMBDA g :
                    PF_UnfixPage([g EXCEPT !.row.nextRecIdPtr = KeyHead(next, 1)], next))
        [] k.row.op = "NOT_EQUAL" ->
             IF found THEN FromLeft(k, p, left) ELSE [k EXCEPT !.row.pageNum = AM_NULL_PAGE]
        [] k.row.op = "INVALID" ->
             [k EXCEPT !.row.status = "FREE", !.rc = "AME_INVALID_OP_TO_SCAN"]

Matches(op, v, value) ==
  CASE op = "ALL" -> TRUE
    [] op = "EQUAL" -> v = value
    [] op = "LESS_THAN" -> v < value
    [] op = "GREATER_THAN" -> v > value
    [] op = "LESS_THAN_EQUAL" -> v <= value
    [] op = "GREATER_THAN_EQUAL" -> v >= value
    [] op = "NOT_EQUAL" -> v # value
Due(op, value) == {pair \in Pairs : acked[pair[1]][pair[2]] > 0 /\ Matches(op, pair[1], value)}

\* The scans that the code gets right to their end: of an index of one leaf, for all
\* entries if there are any, or from a value that is in the index; < and <= of an
\* index of one leaf if an entry is smaller or equal, <= not of its last value; no
\* # at all.
Sure(op, at) ==
  LET one == IsLeaf(AM_RootPageNum)
  IN  CASE op = "NOT_EQUAL" -> FALSE
        [] op = "LESS_THAN" -> one /\ at.index > 1
        [] op = "LESS_THAN_EQUAL" -> one /\ IF at.found THEN at.index < page[AM_RootPageNum].numKeys
                                            ELSE at.index > 1
        [] op = "ALL" -> one => page[AM_RootPageNum].numKeys > 0
        [] OTHER -> one \/ at.found

\* Row s is the first free one.  A call that fails gives no descriptor back; its
\* row stays taken, unless it was the search that failed or the operator is none.
\* That PF refuses GetLeftPageNum the root makes AME_PF the leftmost page.
AM_OpenIndexScan(s, op, value, pool) ==
  \E sr \in Searches(value) :
    LET k == [row |-> [scan[s] EXCEPT !.status = "FIRST"], fixed |-> fixed, rc |-> "",
              pool |-> pool, buf |-> AM_RootPageNum]
        left == IF AM_RootPageNum \in fixed \/ pool[AM_RootPageNum] = "refused" THEN AME_PF
                ELSE GetLeftPageNum
        p == sr.pageNum
        at == AM_SearchLeaf(page[p], value)
        placed == [k EXCEPT !.fixed = @ \cup {p}, !.buf = p,
                            !.row = [@ EXCEPT !.op = op, !.pageNum = p, !.index = at.index]]
        beyond == IF at.index > page[p].numKeys THEN Beyond(placed, p) ELSE placed
        done == IF op = "ALL" THEN OpenAll(k, left)
                ELSE Then(Then(beyond, LAMBDA b : Position(b, p, at.found, left)),
                          LAMBDA r : PF_UnfixPage(r, p))
    IN  /\ ~ damaged /\ opens < MaxOpens /\ opens' = opens + 1
        /\ scan[s].status = "FREE" /\ \A t \in Scans : t < s => scan[t].status # "FREE"
        /\ IF op # "ALL" /\ sr.rc # "AME_OK"
           THEN UNCHANGED <<fixed, scan, told>>
           ELSE /\ fixed' = done.fixed
                /\ scan' = [scan EXCEPT ![s] = done.row]
                /\ told' = IF done.rc # "" THEN [told EXCEPT ![s].failed = TRUE]
                           ELSE [told EXCEPT ![s] = [@ EXCEPT !.open = TRUE, !.due = Due(op, value),
                                                              !.sure = Sure(op, at),
                                                              !.refused = fixed # {}]]
        /\ stack' = IF op = "ALL" THEN stack ELSE Pushed(sr)
        /\ UNCHANGED <<page, acked, damaged>>

-----------------------------------------------------------------------------
(* The next entry. *)

Leaf(k) == page[k.row.nextpageNum]
AtEnd(k) == Leaf(k).nextLeafPage = AM_NULL_PAGE

\* An empty leaf is left for the next one; at the last leaf the code unfixes the
\* page after it.
SkipEmpty(k) ==
  LET next == Leaf(k).nextLeafPage
      moved == Then(PF_UnfixPage(k, k.row.nextpageNum), LAMBDA u :
                 PF_GetThisPage([u EXCEPT !.row.nextpageNum = next], next))
  IN  IF Leaf(k).numKeys > 0 THEN k
      ELSE IF AtEnd(k) THEN PF_UnfixPage([k EXCEPT !.row.status = "OVER"], next)
      ELSE Then(moved, LAMBDA g :
             [g EXCEPT !.row = [At(@, next, 1) EXCEPT !.nextRecIdPtr = KeyHead(next, 1),
                                                      !.status = "FIRST"]])
SkipEmptyLeaves(k) ==
  LET skip[n \in 0 .. NumPages] == IF n = 0 THEN k ELSE Then(skip[n - 1], SkipEmpty)
  IN  skip[NumPages]

\* < and <= with nothing smaller in the leaf where they end.
\* Mutant: with one key smaller there, too.
Overshot_One(k) ==
  IF /\ k.row.op \in {"LESS_THAN", "LESS_THAN_EQUAL"}
     /\ k.row.lastpageNum <= k.row.nextpageNum /\ k.row.lastIndex <= 1
  THEN Then(PF_UnfixPage([k EXCEPT !.row.status = "OVER"], Leaf(k).nextLeafPage),
            LAMBDA u : [u EXCEPT !.rc = "AME_EOF"])
  ELSE k
Overshot(k) ==
  IF /\ k.row.op \in {"LESS_THAN", "LESS_THAN_EQUAL"}
     /\ k.row.lastpageNum <= k.row.nextpageNum /\ k.row.lastIndex = 0
  THEN Then(PF_UnfixPage([k EXCEPT !.row.status = "OVER"], Leaf(k).nextLeafPage),
            LAMBDA u : [u EXCEPT !.rc = "AME_EOF"])
  ELSE k

\* The key slot at the row's index, and the list of its records.
Pointed(k) == [k EXCEPT !.row.nextRecIdPtr = KeyHead(k.row.nextpageNum, k.row.nextIndex)]
Stepped(k) == Pointed([k EXCEPT !.row.nextIndex = @ + 1, !.row.actindex = @ + 1])
Noted(k) == [k EXCEPT !.row.nextvalue = Slot(k.row.nextpageNum, k.row.nextIndex).val]
\* Mutant: the slots left behind by keys that went count as keys.
MoreKeys_Slots(k) == k.row.nextIndex + 1 <= Len(Leaf(k).key)
MoreKeys(k) == k.row.nextIndex + 1 <= Leaf(k).numKeys

SkipExcluded(k) ==
  LET next == Leaf(k).nextLeafPage
      left == PF_UnfixPage(k, k.row.nextpageNum)
  IN  IF \/ k.row.op # "NOT_EQUAL" \/ k.row.pageNum # k.row.nextpageNum
         \/ k.row.index # k.row.actindex
      THEN k
      ELSE IF MoreKeys(k) THEN Stepped(k)
      ELSE IF AtEnd(k) THEN [left EXCEPT !.rc = "AME_EOF"]
      ELSE Then(PF_GetThisPage([left EXCEPT !.row = At(@, next, 1)], next), Pointed)

\* Another key than the one noted at the row's index: the entry returned last was
\* deleted and its key with it, and the keys moved down.
\* Mutant: the scan does not notice.
Resumed_Unnoticed(k) ==
  IF k.row.status = "FIRST" THEN Noted([k EXCEPT !.row.status = "BUSY"]) ELSE k
Resumed(k) ==
  IF k.row.status = "FIRST" THEN Noted([k EXCEPT !.row.status = "BUSY"])
  ELSE IF Slot(k.row.nextpageNum, k.row.nextIndex).val = k.row.nextvalue THEN k
  ELSE Pointed([k EXCEPT !.row.nextIndex = @ - 1])

\* The record is read, and the row moves to the next of its list, to the next key,
\* or to the next leaf; on that last way the code unfixes the leaf it goes to, not
\* the one that it leaves.
Taken(k) ==
  LET cell == Cell(k.row.nextpageNum, k.row.nextRecIdPtr)
      read == [k EXCEPT !.rec = cell.recId, !.row.nextRecIdPtr = cell.next]
      next == Leaf(k).nextLeafPage
  IN  IF cell.next # AM_NULL THEN read
      ELSE IF MoreKeys(read) THEN Noted(Stepped(read))
      ELSE IF AtEnd(k) THEN [read EXCEPT !.row.status = "OVER"]
      ELSE Then(PF_UnfixPage([read EXCEPT !.row = At(@, next, 1)], next), LAMBDA u :
             Then(PF_GetThisPage(u, next), LAMBDA g : Noted(Pointed(g))))

\* Whether that was the last entry that the operator asks for.
Bounded(k) ==
  LET r == k.row
      status ==
        IF r.op = "EQUAL" THEN
          IF r.pageNum # r.nextpageNum \/ r.index # r.actindex THEN "OVER" ELSE r.status
        ELSE IF r.op \notin {"LESS_THAN", "LESS_THAN_EQUAL"} THEN r.status
        ELSE IF r.lastpageNum = r.nextpageNum /\ r.lastIndex = r.actindex THEN "LAST"
        ELSE IF r.lastpageNum = r.nextpageNum /\ r.lastIndex < r.actindex THEN "OVER"
        ELSE IF r.status = "LAST" THEN "OVER"
        ELSE r.status
  IN  [k EXCEPT !.row.status = status]

\* The page is unfixed before the answer.
\* Mutant: it is not.
Answered_Kept(k) == k
Answered(k) == PF_UnfixPage(k, k.row.nextpageNum)

NextEntry(k) ==
  LET fetched == PF_GetThisPage(k, k.row.nextpageNum)
      found == Then(Then(Then(fetched, SkipEmptyLeaves), Overshot), SkipExcluded)
      taken == Then(Then(Then(found, Resumed), Taken), Bounded)
  IN  IF k.row.status = "OVER" THEN [k EXCEPT !.rc = "AME_EOF"]
      ELSE IF k.row.nextpageNum = AM_NULL_PAGE
      THEN [k EXCEPT !.rc = "AME_EOF", !.row.status = "OVER"]
      ELSE Then(taken, Answered)

\* What its caller is told at the end.
TellsEnd(t, rc, refuses) ==
  [t EXCEPT !.rc = rc, !.failed = @ \/ rc = "AME_PF", !.refused = @ \/ (rc = "AME_PF" /\ refuses)]

\* A caller asks until it is told AME_EOF or an error; bound: or once more than
\* there are entries for it.
AM_FindNextEntry(s, pool) ==
  LET k == NextEntry([row |-> scan[s], fixed |-> fixed, rc |-> "", pool |-> pool, rec |-> Junk])
  IN  /\ told[s].open /\ told[s].rc = "AME_OK" /\ Len(told[s].got) <= Cardinality(told[s].due)
      /\ fixed' = k.fixed
      /\ scan' = [scan EXCEPT ![s] = k.row]
      /\ told' = IF k.rc = "" THEN [told EXCEPT ![s].got = Append(@, k.rec)]
                 ELSE [told EXCEPT ![s] = TellsEnd(@, k.rc, Refuses(pool))]
      /\ UNCHANGED <<page, stack, acked, damaged, opens>>

AM_CloseIndexScan(s) ==
  /\ told[s].open
  /\ scan' = [scan EXCEPT ![s].status = "FREE"]
  /\ told' = [told EXCEPT ![s] = [NothingTold EXCEPT !.failed = told[s].failed]]
  /\ UNCHANGED <<page, fixed, stack, acked, damaged, opens>>

-----------------------------------------------------------------------------
NoneOpen == \A s \in Scans : ~ told[s].open
JustTold(pair) ==
  \E s \in Scans : /\ told[s].open /\ told[s].got # <<>>
                   /\ pair \in told[s].due /\ told[s].got[Len(told[s].got)] = pair[2]

ScanNext ==
  \/ /\ \E pair \in Pairs : \/ NoneOpen /\ AM_InsertEntry(pair[1], pair[2])
                            \/ /\ IF NoneOpen THEN pair \in Deletable ELSE JustTold(pair)
                               /\ AM_DeleteEntry(pair[1], pair[2])
     /\ UNCHANGED scanVars
  \/ \E s \in Scans :
       \/ \E op \in Ops, value \in Sought, pool \in Pools : AM_OpenIndexScan(s, op, value, pool)
       \/ \E pool \in Pools : AM_FindNextEntry(s, pool)
       \/ AM_CloseIndexScan(s)
  \/ damaged /\ UNCHANGED allVars

ScanSpec == ScanInit /\ [][ScanNext]_allVars

-----------------------------------------------------------------------------
(* Properties. *)

PageNums == {AM_NULL_PAGE} \cup DOMAIN page
Leaves == {p \in DOMAIN page : IsLeaf(p)}
Stops == {AM_NULL_PAGE} \cup Leaves

TablesTyped ==
  /\ opens \in 0 .. MaxOpens
  /\ \A s \in Scans :
       /\ scan[s].status \in {"FREE", "FIRST", "BUSY", "LAST", "OVER"}
       /\ scan[s].op \in {"ALL"} \cup Ops
       /\ {scan[s].pageNum, scan[s].lastpageNum} \subseteq PageNums
       /\ scan[s].nextpageNum \in PageNums \cup {AME_PF}
       /\ {scan[s].index, scan[s].actindex, scan[s].lastIndex} \subseteq Nat /\ scan[s].nextIndex \in Int
       /\ told[s].open => scan[s].status # "FREE" /\ (scan[s].status = "OVER" \/ scan[s].nextpageNum \in Stops)
       /\ told[s].due \subseteq Pairs /\ told[s].got \in Seq(RecIds \cup {Junk})
       /\ told[s].rc \in {"AME_OK", "AME_EOF", "AME_PF"}
       /\ {told[s].open, told[s].sure, told[s].failed, told[s].refused} \subseteq BOOLEAN
\* The types of the tables, and the row of an open scan stands at a leaf, behind the
\* last one, or is over (amscan.c:267), of an index that was not damaged.  A scan
\* that the code gets wrong can look for the key that it was at where it is not, and
\* step back once more (amscan.c:378).
ScanTypeOK == TypeOK /\ (~ damaged => TablesTyped)

Occurs(r, s) == Cardinality({i \in DOMAIN told[s].got : told[s].got[i] = r})
Owed(r, s) == Cardinality({pair \in told[s].due : pair[2] = r})

\* Every record identifier that a scan returns is one of an entry that satisfies
\* its operator, and none is returned more often than there are such entries
\* (amscan.c:247: "the next record that satisfies the conditions specified").
Satisfies(s) ==
  \A i \in DOMAIN told[s].got : Occurs(told[s].got[i], s) <= Owed(told[s].got[i], s)
AnswersSatisfy == \A s \in Scans : Satisfies(s)

\* So it is for the scans that the code gets right, though its caller may delete
\* each entry, and with it the key, before the scan goes on (amscan.c:378).
SureAnswersSatisfy == \A s \in Scans : told[s].sure => Satisfies(s)

\* A scan that the code gets right and that was told AME_EOF has returned every
\* entry that satisfies its operator, over as many leaves as there are, empty ones
\* between them and the deletions of its caller.
ScanComplete ==
  \A s \in Scans : told[s].sure /\ told[s].rc = "AME_EOF" =>
    \A r \in RecIds : Occurs(r, s) = Owed(r, s)

\* Such a scan of an index of one leaf, opened while nothing was fixed, is answered
\* AME_PF only if PF refuses a page: it never unfixes one that it does not hold, as
\* it does with nothing to return (amscan.c:333) or of an empty leaf (amscan.c:289).
SureEnds ==
  \A s \in Scans : told[s].sure /\ IsLeaf(AM_RootPageNum) /\ ~ told[s].refused => told[s].rc # "AME_PF"

\* As long as the index is one leaf and no call of a scan failed, no call leaves its
\* page fixed, unless an insertion was refused its first page or damaged the index.
OneLeafLeavesNothing ==
  ~ damaged /\ IsLeaf(AM_RootPageNum) /\ (\A s \in Scans : ~ told[s].failed) => fixed = {}

\* A scan that goes on has no page fixed between its calls: "Unfix the current page
\* before getting the next one" (amscan.c:427).
GoesOnUnfixed == \A s \in Scans : told[s].open /\ told[s].rc = "AME_OK" => fixed = {}
=============================================================================
