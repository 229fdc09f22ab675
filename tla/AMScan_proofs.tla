--------------------------- MODULE AMScan_proofs ----------------------------
(***************************************************************************)
(* The scans of AMScan leave the index as AM keeps it, and on an index     *)
(* of one leaf they leave nothing fixed.  A call in progress is K(...),    *)
(* with a name for each part, and each step of the code is one lemma that  *)
(* says what it makes of the parts.  Inside says that the leaf is fixed    *)
(* and the call goes on, Over that it ended with nothing fixed or was      *)
(* answered AME_PF; every step of AM_FindNextEntry keeps that.  ScanInv    *)
(* adds the tables to TreeInv, and is inductive.                           *)
(***************************************************************************)
EXTENDS AMScan, AM_proofs

-----------------------------------------------------------------------------
(* The parts of a call for the next entry. *)

\* A row: what is set when the scan is opened is in b, what a call moves is apart.
RowAt(b, st, np, ni, ax, nr, nv) ==
  [status |-> st, op |-> b.op, pageNum |-> b.pageNum, index |-> b.index, actindex |-> ax,
   nextpageNum |-> np, nextvalue |-> nv, nextIndex |-> ni, nextRecIdPtr |-> nr,
   lastpageNum |-> b.lastpageNum, lastIndex |-> b.lastIndex]
\* A call for the next entry in progress.
Call(row, fx, rc, po, rec) ==
  [row |-> row, fixed |-> fx, rc |-> rc, pool |-> po, rec |-> rec]
K(b, st, np, ni, ax, nr, nv, fx, rc, po, rec) == Call(RowAt(b, st, np, ni, ax, nr, nv), fx, rc, po, rec)

\* What the calls do to their row and answer.
SetStatus(k, e) == [k EXCEPT !.row.status = e]
Goes(k, p, i) == [k EXCEPT !.row = At(@, p, i)]
Anew(k, p) == [k EXCEPT !.row = [At(@, p, 1) EXCEPT !.nextRecIdPtr = KeyHead(p, 1), !.status = "FIRST"]]
Back(k) == Pointed([k EXCEPT !.row.nextIndex = @ - 1])
Read(k, cell) == [k EXCEPT !.rec = cell.recId, !.row.nextRecIdPtr = cell.next]
SetPage(k, p) == [k EXCEPT !.row.nextpageNum = p]
SetAnswer(k, e) == [k EXCEPT !.rc = e]

\* What a call has.
LEMMA CallHas ==
  ASSUME NEW b, NEW st, NEW np, NEW ni, NEW ax, NEW nr, NEW nv, NEW fx, NEW rc, NEW po, NEW rec, NEW k,
         k = K(b, st, np, ni, ax, nr, nv, fx, rc, po, rec)
  PROVE  /\ k.row = RowAt(b, st, np, ni, ax, nr, nv)
         /\ k.row.status = st /\ k.row.op = b.op /\ k.row.pageNum = b.pageNum /\ k.row.index = b.index
         /\ k.row.actindex = ax /\ k.row.nextpageNum = np /\ k.row.nextvalue = nv /\ k.row.nextIndex = ni
         /\ k.row.nextRecIdPtr = nr /\ k.row.lastpageNum = b.lastpageNum /\ k.row.lastIndex = b.lastIndex
         /\ k.fixed = fx /\ k.rc = rc /\ k.pool = po /\ k.rec = rec
  BY DEF K, Call, RowAt

\* Its parts are set.
LEMMA RowSet ==
  ASSUME NEW b, NEW st, NEW np, NEW ni, NEW ax, NEW nr, NEW nv, NEW e, NEW r,
         r = RowAt(b, st, np, ni, ax, nr, nv)
  PROVE  /\ [r EXCEPT !.status = e] = RowAt(b, e, np, ni, ax, nr, nv)
         /\ [r EXCEPT !.nextpageNum = e] = RowAt(b, st, e, ni, ax, nr, nv)
         /\ [r EXCEPT !.nextIndex = e] = RowAt(b, st, np, e, ax, nr, nv)
         /\ [r EXCEPT !.actindex = e] = RowAt(b, st, np, ni, e, nr, nv)
         /\ [r EXCEPT !.nextRecIdPtr = e] = RowAt(b, st, np, ni, ax, e, nv)
         /\ [r EXCEPT !.nextvalue = e] = RowAt(b, st, np, ni, ax, nr, e)
  BY DEF RowAt

\* A row that goes to slot i of page p.
LEMMA RowGoes ==
  ASSUME NEW b, NEW st, NEW np, NEW ni, NEW ax, NEW nr, NEW nv, NEW p, NEW i
  PROVE  At(RowAt(b, st, np, ni, ax, nr, nv), p, i) = RowAt(b, st, p, i, i, nr, nv)
<1> DEFINE r == RowAt(b, st, np, ni, ax, nr, nv)
<1>1. At(r, p, i) = [[[r EXCEPT !.nextpageNum = p] EXCEPT !.nextIndex = i] EXCEPT !.actindex = i]
  BY DEF At
<1>2. [r EXCEPT !.nextpageNum = p] = RowAt(b, st, p, ni, ax, nr, nv)
  BY DEF RowAt
<1>3. [RowAt(b, st, p, ni, ax, nr, nv) EXCEPT !.nextIndex = i] = RowAt(b, st, p, i, ax, nr, nv)
  BY DEF RowAt
<1>4. [RowAt(b, st, p, i, ax, nr, nv) EXCEPT !.actindex = i] = RowAt(b, st, p, i, i, nr, nv)
  BY DEF RowAt
<1>5. QED
  BY <1>1, <1>2, <1>3, <1>4, Zenon

\* The row of a call goes to slot i of page p.
LEMMA CallGoes ==
  ASSUME NEW b, NEW st, NEW np, NEW ni, NEW ax, NEW nr, NEW nv, NEW fx, NEW rc, NEW po, NEW rec, NEW p,
         NEW i, NEW k, k = K(b, st, np, ni, ax, nr, nv, fx, rc, po, rec)
  PROVE  Goes(k, p, i) = K(b, st, p, i, i, nr, nv, fx, rc, po, rec)
<1>1. k.row = RowAt(b, st, np, ni, ax, nr, nv)
  BY CallHas
<1>2. At(k.row, p, i) = RowAt(b, st, p, i, i, nr, nv)
  BY <1>1, RowGoes
<1>3. [k EXCEPT !.row = At(@, p, i)] = [k EXCEPT !.row = RowAt(b, st, p, i, i, nr, nv)]
  BY <1>2, Zenon
<1>4. [k EXCEPT !.row = RowAt(b, st, p, i, i, nr, nv)] = K(b, st, p, i, i, nr, nv, fx, rc, po, rec)
  BY DEF K, Call
<1>5. QED
  BY <1>3, <1>4 DEF Goes

\* The row starts anew at the first slot of page p.
LEMMA CallAnew ==
  ASSUME NEW b, NEW st, NEW np, NEW ni, NEW ax, NEW nr, NEW nv, NEW fx, NEW rc, NEW po, NEW rec, NEW p,
         NEW k, k = K(b, st, np, ni, ax, nr, nv, fx, rc, po, rec)
  PROVE  Anew(k, p) = K(b, "FIRST", p, 1, 1, KeyHead(p, 1), nv, fx, rc, po, rec)
<1> DEFINE h == KeyHead(p, 1)
<1> HIDE DEF h
<1>1. k.row = RowAt(b, st, np, ni, ax, nr, nv)
  BY CallHas
<1> DEFINE r == At(k.row, p, 1)
<1>2. r = RowAt(b, st, p, 1, 1, nr, nv)
  BY <1>1, RowGoes
<1> HIDE DEF r
<1>3. [r EXCEPT !.nextRecIdPtr = h,
       !.status = "FIRST"] = [[r EXCEPT !.nextRecIdPtr = h] EXCEPT !.status = "FIRST"]
  OBVIOUS
<1>4. [r EXCEPT !.nextRecIdPtr = h] = RowAt(b, st, p, 1, 1, h, nv)
  BY <1>2, RowSet
<1>5. [RowAt(b, st, p, 1, 1, h, nv) EXCEPT !.status = "FIRST"] = RowAt(b, "FIRST", p, 1, 1, h, nv)
  BY DEF RowAt
<1>6. [r EXCEPT !.nextRecIdPtr = h, !.status = "FIRST"] = RowAt(b, "FIRST", p, 1, 1, h, nv)
  BY <1>3, <1>4, <1>5, Zenon
<1> DEFINE e == RowAt(b, "FIRST", p, 1, 1, h, nv)
<1>7. [k EXCEPT !.row = [At(@, p, 1) EXCEPT !.nextRecIdPtr = h,
                         !.status = "FIRST"]] = [k EXCEPT !.row = e]
  BY <1>6, Zenon DEF r
<1> HIDE DEF e
<1>8. [k EXCEPT !.row = e] = Call(e, fx, rc, po, rec)
  BY DEF K, Call
<1>9. QED
  BY <1>7, <1>8, Zenon DEF K, h, e, Anew

\* The calls of PF.
LEMMA CallFail ==
  ASSUME NEW b, NEW st, NEW np, NEW ni, NEW ax, NEW nr, NEW nv, NEW fx, NEW rc, NEW po, NEW rec, NEW k,
         k = K(b, st, np, ni, ax, nr, nv, fx, rc, po, rec)
  PROVE  Fail(k) = K(b, st, np, ni, ax, nr, nv, fx, "AME_PF", po, rec)
<1> DEFINE e == "AME_PF"
<1>1. Fail(k) = [k EXCEPT !.rc = e]
  BY DEF Fail
<1> HIDE DEF e
<1>2. [k EXCEPT !.rc = e] = K(b, st, np, ni, ax, nr, nv, fx, e, po, rec)
  BY DEF K, Call, RowAt
<1>3. QED
  BY <1>1, <1>2 DEF e

\* What fixing a page does to a call in progress,
LEMMA CallGets ==
  ASSUME NEW b, NEW st, NEW np, NEW ni, NEW ax, NEW nr, NEW nv, NEW fx, NEW rc, NEW po, NEW rec, NEW k,
         k = K(b, st, np, ni, ax, nr, nv, fx, rc, po, rec), NEW p, NEW j, j = PF_GetThisPage(k, p)
  PROVE  \/ j = K(b, st, np, ni, ax, nr, nv, fx, "AME_PF", po, rec)
         \/ p \notin fx /\ p \in DOMAIN page /\ j = K(b, st, np, ni, ax, nr, nv, fx \cup {p}, rc, po, rec)
<1> DEFINE e == fx \cup {p}
           No == p \notin DOMAIN page \/ p \in k.fixed \/ k.pool[p] = "refused"
<1>1. k.fixed = fx
  BY CallHas
<1>2. No => j = Fail(k)
  BY DEF PF_GetThisPage
<1>3. ~ No => j = [k EXCEPT !.fixed = e] /\ p \notin fx /\ p \in DOMAIN page
  BY <1>1, Zenon DEF PF_GetThisPage
<1> HIDE DEF e, No
<1>4. [k EXCEPT !.fixed = e] = K(b, st, np, ni, ax, nr, nv, e, rc, po, rec)
  BY DEF K, Call, RowAt
<1>5. QED
  BY <1>2, <1>3, <1>4, CallFail DEF e

\* and unfixing one.
LEMMA CallUnfixes ==
  ASSUME NEW b, NEW st, NEW np, NEW ni, NEW ax, NEW nr, NEW nv, NEW fx, NEW rc, NEW po, NEW rec, NEW k,
         k = K(b, st, np, ni, ax, nr, nv, fx, rc, po, rec), NEW p, NEW j, j = PF_UnfixPage(k, p)
  PROVE  /\ p \in fx => j = K(b, st, np, ni, ax, nr, nv, fx \ {p}, rc, po, rec)
         /\ p \notin fx /\ p = AM_NULL_PAGE => j = K(b, st, np, ni, ax, nr, nv, fx, "AME_PF", po, rec)
         /\ p \notin fx => j = K(b, st, np, ni, ax, nr, nv, fx, "AME_PF", po, rec) \/ j = k
<1> DEFINE e == fx \ {p}
<1>1. k.fixed = fx
  BY CallHas
<1>2. p \in fx => j = [k EXCEPT !.fixed = e]
  BY <1>1, Zenon DEF PF_UnfixPage
<1>3. p \notin fx /\ p = AM_NULL_PAGE => j = Fail(k)
  BY <1>1 DEF PF_UnfixPage
<1>4. p \notin fx => j = Fail(k) \/ j = k
  BY <1>1 DEF PF_UnfixPage
<1> HIDE DEF e
<1>5. [k EXCEPT !.fixed = e] = K(b, st, np, ni, ax, nr, nv, e, rc, po, rec)
  BY DEF K, Call, RowAt
<1>6. QED
  BY <1>2, <1>3, <1>4, <1>5, CallFail DEF e

\* The row's pointers.
LEMMA CallPoints ==
  ASSUME NEW b, NEW st, NEW np, NEW ni, NEW ax, NEW nr, NEW nv, NEW fx, NEW rc, NEW po, NEW rec, NEW k,
         k = K(b, st, np, ni, ax, nr, nv, fx, rc, po, rec)
  PROVE  Pointed(k) = K(b, st, np, ni, ax, KeyHead(np, ni), nv, fx, rc, po, rec)
<1> DEFINE e == KeyHead(np, ni)
<1>1. k.row.nextpageNum = np /\ k.row.nextIndex = ni
  BY CallHas
<1>2. Pointed(k) = [k EXCEPT !.row.nextRecIdPtr = e]
  BY <1>1, Zenon DEF Pointed
<1> HIDE DEF e
<1>3. [k EXCEPT !.row.nextRecIdPtr = e] = K(b, st, np, ni, ax, e, nv, fx, rc, po, rec)
  BY DEF K, Call, RowAt
<1>4. QED
  BY <1>2, <1>3 DEF e

\* The value at the slot is noted.
LEMMA CallNotes ==
  ASSUME NEW b, NEW st, NEW np, NEW ni, NEW ax, NEW nr, NEW nv, NEW fx, NEW rc, NEW po, NEW rec, NEW k,
         k = K(b, st, np, ni, ax, nr, nv, fx, rc, po, rec)
  PROVE  Noted(k) = K(b, st, np, ni, ax, nr, Slot(np, ni).val, fx, rc, po, rec)
<1> DEFINE e == Slot(np, ni).val
<1>1. k.row.nextpageNum = np /\ k.row.nextIndex = ni
  BY CallHas
<1>2. Noted(k) = [k EXCEPT !.row.nextvalue = e]
  BY <1>1, Zenon DEF Noted
<1> HIDE DEF e
<1>3. [k EXCEPT !.row.nextvalue = e] = K(b, st, np, ni, ax, nr, e, fx, rc, po, rec)
  BY DEF K, Call, RowAt
<1>4. QED
  BY <1>2, <1>3 DEF e

\* The row moves to the next slot,
LEMMA CallSteps ==
  ASSUME NEW b, NEW st, NEW np, NEW ni, NEW ax, NEW nr, NEW nv, NEW fx, NEW rc, NEW po, NEW rec, NEW k,
         k = K(b, st, np, ni, ax, nr, nv, fx, rc, po, rec)
  PROVE  Stepped(k) = K(b, st, np, ni + 1, ax + 1, KeyHead(np, ni + 1), nv, fx, rc, po, rec)
<1> DEFINE i == ni + 1
           a == ax + 1
           j == [k EXCEPT !.row.nextIndex = i, !.row.actindex = a]
           h == [k EXCEPT !.row.nextIndex = i]
<1>1. k.row.nextIndex = ni /\ k.row.actindex = ax
  BY CallHas
<1>2. Stepped(k) = Pointed(j)
  BY <1>1, Zenon DEF Stepped
<1> HIDE DEF i, a
<1>3. j = [h EXCEPT !.row.actindex = a]
  BY Zenon
<1>4. h = K(b, st, np, i, ax, nr, nv, fx, rc, po, rec)
  BY DEF K, Call, RowAt
<1> HIDE DEF h
<1>5. [h EXCEPT !.row.actindex = a] = K(b, st, np, i, a, nr, nv, fx, rc, po, rec)
  BY <1>4 DEF K, Call, RowAt
<1>6. j = K(b, st, np, i, a, nr, nv, fx, rc, po, rec)
  BY <1>3, <1>5
<1> HIDE DEF j
<1>7. Pointed(j) = K(b, st, np, i, a, KeyHead(np, i), nv, fx, rc, po, rec)
  BY <1>6, CallPoints
<1>8. QED
  BY <1>2, <1>7 DEF i, a

\* or to the slot before.
LEMMA CallBack ==
  ASSUME NEW b, NEW st, NEW np, NEW ni, NEW ax, NEW nr, NEW nv, NEW fx, NEW rc, NEW po, NEW rec, NEW k,
         k = K(b, st, np, ni, ax, nr, nv, fx, rc, po, rec)
  PROVE  Back(k) = K(b, st, np, ni - 1, ax, KeyHead(np, ni - 1), nv, fx, rc, po, rec)
<1> DEFINE i == ni - 1
           j == [k EXCEPT !.row.nextIndex = i]
<1>1. k.row.nextIndex = ni
  BY CallHas
<1>2. [k EXCEPT !.row.nextIndex = @ - 1] = j
  BY <1>1, Zenon
<1> HIDE DEF i
<1>3. j = K(b, st, np, i, ax, nr, nv, fx, rc, po, rec)
  BY DEF K, Call, RowAt
<1> HIDE DEF j
<1>4. Pointed(j) = K(b, st, np, i, ax, KeyHead(np, i), nv, fx, rc, po, rec)
  BY <1>3, CallPoints
<1>5. QED
  BY <1>2, <1>4, Zenon DEF i, Back

\* The status is set,
LEMMA CallStatus ==
  ASSUME NEW b, NEW st, NEW np, NEW ni, NEW ax, NEW nr, NEW nv, NEW fx, NEW rc, NEW po, NEW rec, NEW k,
         k = K(b, st, np, ni, ax, nr, nv, fx, rc, po, rec), NEW e
  PROVE  SetStatus(k, e) = K(b, e, np, ni, ax, nr, nv, fx, rc, po, rec)
  BY DEF K, Call, RowAt, SetStatus

\* the page,
LEMMA CallPage ==
  ASSUME NEW b, NEW st, NEW np, NEW ni, NEW ax, NEW nr, NEW nv, NEW fx, NEW rc, NEW po, NEW rec, NEW k,
         k = K(b, st, np, ni, ax, nr, nv, fx, rc, po, rec), NEW e
  PROVE  SetPage(k, e) = K(b, st, e, ni, ax, nr, nv, fx, rc, po, rec)
  BY DEF K, Call, RowAt, SetPage

\* the answer.
LEMMA CallAnswer ==
  ASSUME NEW b, NEW st, NEW np, NEW ni, NEW ax, NEW nr, NEW nv, NEW fx, NEW rc, NEW po, NEW rec, NEW k,
         k = K(b, st, np, ni, ax, nr, nv, fx, rc, po, rec), NEW e
  PROVE  SetAnswer(k, e) = K(b, st, np, ni, ax, nr, nv, fx, e, po, rec)
  BY DEF K, Call, RowAt, SetAnswer

\* A cell is read.
LEMMA CallReads ==
  ASSUME NEW b, NEW st, NEW np, NEW ni, NEW ax, NEW nr, NEW nv, NEW fx, NEW rc, NEW po, NEW rec, NEW k,
         k = K(b, st, np, ni, ax, nr, nv, fx, rc, po, rec), NEW cell
  PROVE  Read(k, cell) = K(b, st, np, ni, ax, cell.next, nv, fx, rc, po, cell.recId)
<1> DEFINE x == cell.recId
           y == cell.next
           h == [k EXCEPT !.rec = x]
<1>1. Read(k, cell) = [h EXCEPT !.row.nextRecIdPtr = y]
  BY Zenon DEF Read
<1> HIDE DEF x, y
<1>2. h = K(b, st, np, ni, ax, nr, nv, fx, rc, po, x)
  BY DEF K, Call, RowAt
<1> HIDE DEF h
<1>3. [h EXCEPT !.row.nextRecIdPtr = y] = K(b, st, np, ni, ax, y, nv, fx, rc, po, x)
  BY <1>2 DEF K, Call, RowAt
<1>4. QED
  BY <1>1, <1>3 DEF x, y

-----------------------------------------------------------------------------
(* Which pages a call has fixed. *)

\* A call in progress; -1 is never a page that is fixed.
IsCall(k) == \E b, st, np, ni, ax, nr, nv, fx, rc, po,
  rec : k = K(b, st, np, ni, ax, nr, nv, fx, rc, po, rec) /\ AM_NULL_PAGE \notin fx
\* One that was answered AME_PF.
Broken(k) == IsCall(k) /\ k.rc = "AME_PF"

\* A call by its parts.
LEMMA IsCallOf ==
  ASSUME NEW b, NEW st, NEW np, NEW ni, NEW ax, NEW nr, NEW nv, NEW fx, NEW rc, NEW po, NEW rec, NEW k,
         k = K(b, st, np, ni, ax, nr, nv, fx, rc, po, rec), AM_NULL_PAGE \notin fx
  PROVE  IsCall(k)
  BY Zenon DEF IsCall

\* A call that was answered AME_PF.
LEMMA BrokenOf ==
  ASSUME NEW b, NEW st, NEW np, NEW ni, NEW ax, NEW nr, NEW nv, NEW fx, NEW rc, NEW po, NEW rec, NEW k,
         k = K(b, st, np, ni, ax, nr, nv, fx, "AME_PF", po, rec), AM_NULL_PAGE \notin fx
  PROVE  Broken(k)
<1> DEFINE e == "AME_PF"
<1>1. k = K(b, st, np, ni, ax, nr, nv, fx, e, po, rec)
  OBVIOUS
<1> HIDE DEF e
<1>2. IsCall(k) /\ k.rc = e
  BY <1>1, IsCallOf, CallHas
<1>3. QED
  BY <1>2 DEF Broken, e

\* The calls of PF.
LEMMA GetsIs ==
  ASSUME NEW k, IsCall(k), NEW p, p # AM_NULL_PAGE
  PROVE  LET j == PF_GetThisPage(k, p)
         IN  IsCall(j) /\ (Broken(j) \/ (j.rc = k.rc /\ j.fixed = k.fixed \cup {p}))
<1> DEFINE j == PF_GetThisPage(k, p)
<1>1. PICK b, st, np, ni, ax, nr, nv, fx, rc, po, rec : k = K(b, st, np, ni, ax, nr, nv, fx, rc, po, rec)
        /\ AM_NULL_PAGE \notin fx
  BY DEF IsCall
<1>2. k.fixed = fx /\ k.rc = rc
  BY <1>1, CallHas
<1>3. \/ j = K(b, st, np, ni, ax, nr, nv, fx, "AME_PF", po, rec)
      \/ j = K(b, st, np, ni, ax, nr, nv, fx \cup {p}, rc, po, rec)
  BY <1>1, CallGets
<1> HIDE DEF j
<1>4. CASE j = K(b, st, np, ni, ax, nr, nv, fx, "AME_PF", po, rec)
  <2>1. Broken(j)
    BY <1>1, <1>4, BrokenOf
  <2>2. QED
    BY <2>1 DEF Broken, j
<1>5. CASE j = K(b, st, np, ni, ax, nr, nv, fx \cup {p}, rc, po, rec)
  <2> DEFINE f == fx \cup {p}
  <2>1. j = K(b, st, np, ni, ax, nr, nv, f, rc, po, rec) /\ AM_NULL_PAGE \notin f
    BY <1>1, <1>5
  <2> HIDE DEF f
  <2>2. IsCall(j) /\ j.fixed = f /\ j.rc = rc
    BY <2>1, IsCallOf, CallHas
  <2>3. QED
    BY <2>2, <1>2 DEF f, j
<1>6. QED
  BY <1>3, <1>4, <1>5

\* A page that is fixed is unfixed without an error; the page -1 never is.
LEMMA UnfixIs ==
  ASSUME NEW k, IsCall(k), NEW p
  PROVE  LET j == PF_UnfixPage(k, p)
         IN  /\ IsCall(j)
             /\ p \in k.fixed => j.rc = k.rc /\ j.fixed = k.fixed \ {p}
             /\ p = AM_NULL_PAGE => Broken(j)
             /\ Broken(j) \/ j.rc = k.rc
<1> DEFINE j == PF_UnfixPage(k, p)
<1>1. PICK b, st, np, ni, ax, nr, nv, fx, rc, po, rec : k = K(b, st, np, ni, ax, nr, nv, fx, rc, po, rec)
        /\ AM_NULL_PAGE \notin fx
  BY DEF IsCall
<1>2. k.fixed = fx /\ k.rc = rc
  BY <1>1, CallHas
<1>3. /\ p \in fx => j = K(b, st, np, ni, ax, nr, nv, fx \ {p}, rc, po, rec)
      /\ p \notin fx /\ p = AM_NULL_PAGE => j = K(b, st, np, ni, ax, nr, nv, fx, "AME_PF", po, rec)
      /\ p \notin fx => j = K(b, st, np, ni, ax, nr, nv, fx, "AME_PF", po, rec) \/ j = k
  BY <1>1, CallUnfixes
<1> HIDE DEF j
<1>4. CASE p \in fx
  <2> DEFINE f == fx \ {p}
  <2>1. j = K(b, st, np, ni, ax, nr, nv, f, rc, po, rec) /\ AM_NULL_PAGE \notin f /\ p # AM_NULL_PAGE
    BY <1>1, <1>3, <1>4
  <2> HIDE DEF f
  <2>2. IsCall(j) /\ j.fixed = f /\ j.rc = rc
    BY <2>1, IsCallOf, CallHas
  <2>3. QED
    BY <2>1, <2>2, <1>2, <1>4 DEF f, j
<1>5. CASE p \notin fx
  <2>1. CASE j = K(b, st, np, ni, ax, nr, nv, fx, "AME_PF", po, rec)
    <3>1. Broken(j)
      BY <1>1, <2>1, BrokenOf
    <3>2. QED
      BY <3>1, <1>2, <1>5 DEF Broken, j
  <2>2. CASE j = k /\ j # K(b, st, np, ni, ax, nr, nv, fx, "AME_PF", po, rec)
    BY <1>1, <1>2, <1>3, <1>5, <2>2 DEF j, IsCall
  <2>3. QED
    BY <1>3, <1>5, <2>1, <2>2
<1>6. QED
  BY <1>4, <1>5

\* What is set in the row leaves the rest.
OnlyRow(j, k) == IsCall(j) /\ j.rc = k.rc /\ j.fixed = k.fixed

\* A call of which only the row and the record changed.
LEMMA MovedOf ==
  ASSUME NEW b, NEW st, NEW np, NEW ni, NEW ax, NEW nr, NEW nv, NEW fx, NEW rc, NEW po, NEW rec, NEW k,
         k = K(b, st, np, ni, ax, nr, nv, fx, rc, po, rec), AM_NULL_PAGE \notin fx, NEW j, NEW b2,
           NEW st2, NEW np2, NEW ni2, NEW ax2, NEW nr2, NEW nv2, NEW rec2,
         j = K(b2, st2, np2, ni2, ax2, nr2, nv2, fx, rc, po, rec2)
  PROVE  OnlyRow(j, k)
<1>1. IsCall(j) /\ j.fixed = fx /\ j.rc = rc
  BY IsCallOf, CallHas
<1>2. k.fixed = fx /\ k.rc = rc
  BY CallHas
<1>3. QED
  BY <1>1, <1>2 DEF OnlyRow

\* The steps that only change the row, and the page that it is at after each.
LEMMA SetsIs ==
  ASSUME NEW k, IsCall(k), NEW e, NEW i
  PROVE  /\ OnlyRow(Pointed(k), k) /\ Pointed(k).row.nextpageNum = k.row.nextpageNum
         /\ OnlyRow(Noted(k), k) /\ Noted(k).row.nextpageNum = k.row.nextpageNum
         /\ OnlyRow(Stepped(k), k) /\ Stepped(k).row.nextpageNum = k.row.nextpageNum
         /\ OnlyRow(Back(k), k)
         /\ Back(k).row.nextpageNum = k.row.nextpageNum
         /\ OnlyRow(SetStatus(k, e), k) /\ SetStatus(k, e).row.nextpageNum = k.row.nextpageNum
         /\ OnlyRow(Goes(k, e, i), k) /\ Goes(k, e, i).row.nextpageNum = e
         /\ OnlyRow(SetAnswer(k, e), SetAnswer(k, e)) /\ SetAnswer(k, e).fixed = k.fixed
            /\ SetAnswer(k, e).rc = e
         /\ SetAnswer(k, e).row.nextpageNum = k.row.nextpageNum
         /\ OnlyRow(SetPage(k, e), k) /\ SetPage(k, e).row.nextpageNum = e
         /\ OnlyRow(Read(k, e), k) /\ Read(k, e).row.nextpageNum = k.row.nextpageNum
         /\ OnlyRow(Anew(k, e), k)
         /\ Anew(k, e).row.nextpageNum = e
<1>1. PICK b, st, np, ni, ax, nr, nv, fx, rc, po, rec : k = K(b, st, np, ni, ax, nr, nv, fx, rc, po, rec)
        /\ AM_NULL_PAGE \notin fx
  BY DEF IsCall
<1>0. k.row.nextpageNum = np
  BY <1>1, CallHas
<1>2. OnlyRow(Pointed(k), k) /\ Pointed(k).row.nextpageNum = np
  <2> DEFINE x == KeyHead(np, ni)
             j == Pointed(k)
  <2>1. j = K(b, st, np, ni, ax, x, nv, fx, rc, po, rec)
    BY <1>1, CallPoints
  <2> HIDE DEF x, j
  <2>2. QED
    BY <1>1, <2>1, MovedOf, CallHas DEF j
<1>3. OnlyRow(Noted(k), k) /\ Noted(k).row.nextpageNum = np
  <2> DEFINE x == Slot(np, ni).val
             j == Noted(k)
  <2>1. j = K(b, st, np, ni, ax, nr, x, fx, rc, po, rec)
    BY <1>1, CallNotes
  <2> HIDE DEF x, j
  <2>2. QED
    BY <1>1, <2>1, MovedOf, CallHas DEF j
<1>4. OnlyRow(Stepped(k), k) /\ Stepped(k).row.nextpageNum = np
  <2> DEFINE x == ni + 1
             y == ax + 1
             z == KeyHead(np, x)
             j == Stepped(k)
  <2>1. j = K(b, st, np, x, y, z, nv, fx, rc, po, rec)
    BY <1>1, CallSteps
  <2> HIDE DEF x, y, z, j
  <2>2. QED
    BY <1>1, <2>1, MovedOf, CallHas DEF j
<1>5. LET j == Back(k) IN OnlyRow(j, k) /\ j.row.nextpageNum = np
  <2> DEFINE x == ni - 1
             z == KeyHead(np, x)
             j == Back(k)
  <2>1. j = K(b, st, np, x, ax, z, nv, fx, rc, po, rec)
    BY <1>1, CallBack
  <2> HIDE DEF x, z, j
  <2>2. QED
    BY <1>1, <2>1, MovedOf, CallHas DEF j
<1>6. LET j == SetStatus(k, e) IN OnlyRow(j, k) /\ j.row.nextpageNum = np
  <2> DEFINE j == SetStatus(k, e)
  <2>1. j = K(b, e, np, ni, ax, nr, nv, fx, rc, po, rec)
    BY <1>1, CallStatus
  <2> HIDE DEF j
  <2>2. QED
    BY <1>1, <2>1, MovedOf, CallHas DEF j
<1>7. LET j == Goes(k, e, i) IN OnlyRow(j, k) /\ j.row.nextpageNum = e
  <2> DEFINE j == Goes(k, e, i)
  <2>1. j = K(b, st, e, i, i, nr, nv, fx, rc, po, rec)
    BY <1>1, CallGoes
  <2> HIDE DEF j
  <2>2. QED
    BY <1>1, <2>1, MovedOf, CallHas DEF j
<1>8. LET j == Anew(k, e)
      IN  OnlyRow(j, k) /\ j.row.nextpageNum = e
  <2> DEFINE x == KeyHead(e, 1)
             j == Anew(k, e)
             st2 == "FIRST"
             one == 1
  <2>1. j = K(b, st2, e, one, one, x, nv, fx, rc, po, rec)
    BY <1>1, CallAnew
  <2> HIDE DEF x, j, st2, one
  <2>2. OnlyRow(j, k) /\ j.row.nextpageNum = e
    BY <1>1, <2>1, MovedOf, CallHas
  <2>3. QED
    BY <2>2 DEF j, x
<1>9. LET j == SetAnswer(k, e) IN OnlyRow(j, j) /\ j.fixed = k.fixed /\ j.rc = e /\ j.row.nextpageNum = np
  <2> DEFINE j == SetAnswer(k, e)
  <2>1. j = K(b, st, np, ni, ax, nr, nv, fx, e, po, rec)
    BY <1>1, CallAnswer
  <2> HIDE DEF j
  <2>2. k.fixed = fx /\ j.fixed = fx /\ j.rc = e /\ j.row.nextpageNum = np
    BY <1>1, <2>1, CallHas
  <2>3. QED
    BY <1>1, <2>1, <2>2, IsCallOf DEF j, OnlyRow
<1>10. LET j == Read(k, e) IN OnlyRow(j, k) /\ j.row.nextpageNum = np
  <2> DEFINE x == e.next
             y == e.recId
             j == Read(k, e)
  <2>1. j = K(b, st, np, ni, ax, x, nv, fx, rc, po, y)
    BY <1>1, CallReads
  <2> HIDE DEF x, y, j
  <2>2. QED
    BY <1>1, <2>1, MovedOf, CallHas DEF j
<1>11. LET j == SetPage(k, e) IN OnlyRow(j, k) /\ j.row.nextpageNum = e
  <2> DEFINE j == SetPage(k, e)
  <2>1. j = K(b, st, e, ni, ax, nr, nv, fx, rc, po, rec)
    BY <1>1, CallPage
  <2> HIDE DEF j
  <2>2. QED
    BY <1>1, <2>1, MovedOf, CallHas DEF j
<1>12. QED
  BY <1>0, <1>2, <1>3, <1>4, <1>5, <1>6, <1>7, <1>8, <1>9, <1>10, <1>11

-----------------------------------------------------------------------------
(* The steps of AM_FindNextEntry. *)

\* A step is taken unless the call is over.
LEMMA ThenIs ==
  ASSUME NEW k, NEW Step(_)
  PROVE  Then(k, Step) = IF k.rc = "" THEN Step(k) ELSE k
  BY DEF Then

\* What the steps of a call for the next entry are made of.
LEMMA SkipEmptyForm ==
  ASSUME NEW k, NEW u, u = PF_UnfixPage(k, k.row.nextpageNum), NEW l, l = Leaf(k),
         NEW g, g = PF_GetThisPage(SetPage(u, l.nextLeafPage), l.nextLeafPage)
  PROVE  SkipEmpty(k) = IF l.numKeys > 0 THEN k
                        ELSE IF l.nextLeafPage = AM_NULL_PAGE
                        THEN PF_UnfixPage(SetStatus(k, "OVER"), AM_NULL_PAGE)
                        ELSE IF u.rc # "" THEN u
                        ELSE IF g.rc # "" THEN g
                        ELSE Anew(g, l.nextLeafPage)
  BY DEF SkipEmpty, AtEnd, Then, SetStatus, SetPage, Anew

\* The form of Overshot,
LEMMA OvershotForm ==
  ASSUME NEW k, NEW l, l = Leaf(k), NEW u, u = PF_UnfixPage(SetStatus(k, "OVER"), l.nextLeafPage)
  PROVE  Overshot(k) = IF /\ k.row.op \in {"LESS_THAN", "LESS_THAN_EQUAL"}
                          /\ k.row.lastpageNum <= k.row.nextpageNum /\ k.row.lastIndex = 0
                       THEN IF u.rc # "" THEN u ELSE SetAnswer(u, "AME_EOF")
                       ELSE k
  BY DEF Overshot, Then, SetStatus, SetAnswer

\* of SkipExcluded,
LEMMA SkipExcludedForm ==
  ASSUME NEW k, NEW l, l = Leaf(k), NEW u, u = PF_UnfixPage(k, k.row.nextpageNum),
         NEW g, g = PF_GetThisPage(Goes(u, l.nextLeafPage, 1), l.nextLeafPage)
  PROVE  SkipExcluded(k) = IF \/ k.row.op # "NOT_EQUAL" \/ k.row.pageNum # k.row.nextpageNum
                              \/ k.row.index # k.row.actindex
                           THEN k
                           ELSE IF MoreKeys(k) THEN Stepped(k)
                           ELSE IF l.nextLeafPage = AM_NULL_PAGE THEN SetAnswer(u, "AME_EOF")
                           ELSE IF g.rc # "" THEN g ELSE Pointed(g)
  BY DEF SkipExcluded, AtEnd, Then, Goes, SetAnswer

\* of Resumed,
LEMMA ResumedForm ==
  ASSUME NEW k
  PROVE  Resumed(k) = IF k.row.status = "FIRST" THEN Noted(SetStatus(k, "BUSY"))
                      ELSE IF Slot(k.row.nextpageNum, k.row.nextIndex).val = k.row.nextvalue THEN k
                      ELSE Back(k)
  BY DEF Resumed, SetStatus, Back

\* of Taken,
LEMMA TakenForm ==
  ASSUME NEW k, NEW l, l = Leaf(k), NEW cell, cell = Cell(k.row.nextpageNum, k.row.nextRecIdPtr),
         NEW h, h = Read(k, cell), NEW u, u = PF_UnfixPage(Goes(h, l.nextLeafPage, 1), l.nextLeafPage),
         NEW g, g = PF_GetThisPage(u, l.nextLeafPage)
  PROVE  Taken(k) = IF cell.next # AM_NULL THEN h
                    ELSE IF MoreKeys(h) THEN Noted(Stepped(h))
                    ELSE IF l.nextLeafPage = AM_NULL_PAGE THEN SetStatus(h, "OVER")
                    ELSE IF u.rc # "" THEN u
                    ELSE IF g.rc # "" THEN g ELSE Noted(Pointed(g))
<1>0. Leaf(k) = l /\ Cell(k.row.nextpageNum, k.row.nextRecIdPtr) = cell
        /\ [k EXCEPT !.rec = cell.recId, !.row.nextRecIdPtr = cell.next] = h
  BY DEF Read
<1>1. CASE cell.next # AM_NULL
  BY <1>0, <1>1 DEF Taken
<1>2. CASE cell.next = AM_NULL /\ MoreKeys(h)
  BY <1>0, <1>2 DEF Taken
<1>3. CASE cell.next = AM_NULL /\ ~ MoreKeys(h) /\ l.nextLeafPage = AM_NULL_PAGE
  BY <1>0, <1>3 DEF Taken, AtEnd, SetStatus
<1>4. CASE cell.next = AM_NULL /\ ~ MoreKeys(h) /\ l.nextLeafPage # AM_NULL_PAGE
  <2> DEFINE next == Leaf(k).nextLeafPage
             hh == [k EXCEPT !.rec = Cell(k.row.nextpageNum, k.row.nextRecIdPtr).recId,
                             !.row.nextRecIdPtr = Cell(k.row.nextpageNum, k.row.nextRecIdPtr).next]
             uu == PF_UnfixPage([hh EXCEPT !.row = At(@, next, 1)], next)
             gg == PF_GetThisPage(uu, next)
  <2>1. hh = h /\ next = l.nextLeafPage
    BY <1>0
  <2>2. uu = u
    BY <2>1 DEF Goes
  <2>3. gg = g
    BY <2>1, <2>2
  <2>4. Cell(k.row.nextpageNum, k.row.nextRecIdPtr).next = AM_NULL /\ ~ MoreKeys(hh) /\ ~ AtEnd(k)
    BY <2>1, <1>0, <1>4 DEF AtEnd
  <2>5. Taken(k) = IF uu.rc = "" THEN IF gg.rc = "" THEN Noted(Pointed(gg)) ELSE gg ELSE uu
    BY <2>4 DEF Taken, Then
  <2>6. QED
    BY <2>2, <2>3, <2>5, <1>4
<1>5. QED
  BY <1>1, <1>2, <1>3, <1>4
NewStatus(r) ==
  IF r.op = "EQUAL" THEN
    IF r.pageNum # r.nextpageNum \/ r.index # r.actindex THEN "OVER" ELSE r.status
  ELSE IF r.op \notin {"LESS_THAN", "LESS_THAN_EQUAL"} THEN r.status
  ELSE IF r.lastpageNum = r.nextpageNum /\ r.lastIndex = r.actindex THEN "LAST"
  ELSE IF r.lastpageNum = r.nextpageNum /\ r.lastIndex < r.actindex THEN "OVER"
  ELSE IF r.status = "LAST" THEN "OVER"
  ELSE r.status

\* of Bounded,
LEMMA BoundedForm ==
  ASSUME NEW k
  PROVE  Bounded(k) = SetStatus(k, NewStatus(k.row))
  BY DEF Bounded, NewStatus, SetStatus
SkipTurn(f, i, k) == IF i = 0 THEN k ELSE IF f[i - 1].rc = "" THEN SkipEmpty(f[i - 1]) ELSE f[i - 1]
Skips(f, n, k) == f = [i \in 0 .. n |-> SkipTurn(f, i, k)]

\* of SkipEmptyLeaves: what its loop ends with.
LEMMA SkipForm ==
  ASSUME NEW k
  PROVE  SkipEmptyLeaves(k) = (CHOOSE f : Skips(f, NumPages, k))[NumPages]
  BY DEF SkipEmptyLeaves, Skips, SkipTurn, Then

\* The loop over empty leaves has a course.
LEMMA SkipsExist ==
  ASSUME NEW n \in Nat, NEW s
  PROVE  \E f : Skips(f, n, s)
<1> DEFINE T == {k \in Nat : \E f : Skips(f, k, s)}
<1>1. 0 \in T
  <2> DEFINE f == [k \in 0 .. 0 |-> s]
  <2>1. \A k \in 0 .. 0 : k = 0
    OBVIOUS
  <2>2. \A k \in 0 .. 0 : SkipTurn(f, k, s) = s
    BY <2>1 DEF SkipTurn
  <2>3. f = [k \in 0 .. 0 |-> SkipTurn(f, k, s)]
    BY <2>2
  <2> HIDE DEF f
  <2>4. Skips(f, 0, s)
    BY <2>3 DEF Skips
  <2>5. QED
    BY <2>4
<1>2. ASSUME NEW k \in Nat, k \in T PROVE k + 1 \in T
  <2>1. PICK f : Skips(f, k, s)
    BY <1>2
  <2> DEFINE g == [h \in 0 .. k + 1 |-> IF h <= k THEN f[h] ELSE SkipTurn(f, k + 1, s)]
  <2>2. \A h \in 0 .. k : f[h] = SkipTurn(f, h, s) /\ h \in 0 .. k + 1 /\ h <= k
    BY <2>1 DEF Skips
  <2>3. \A h \in 0 .. k : g[h] = f[h]
    BY <2>2
  <2>4. k + 1 \in 0 .. k + 1 /\ ~ (k + 1 <= k)
    OBVIOUS
  <2>5. g[k + 1] = SkipTurn(f, k + 1, s) /\ DOMAIN g = 0 .. k + 1 /\ g = [h \in 0 .. k + 1 |-> g[h]]
    BY <2>4
  <2> HIDE DEF g
  <2>6. ASSUME NEW h \in 0 .. k + 1 PROVE g[h] = SkipTurn(g, h, s)
    <3>1. h # 0 => h - 1 \in 0 .. k
      OBVIOUS
    <3>2. SkipTurn(g, h, s) = SkipTurn(f, h, s)
      BY <2>3, <3>1 DEF SkipTurn
    <3>3. CASE h = k + 1
      BY <2>5, <3>2, <3>3
    <3>4. CASE h # k + 1
      <4>1. h \in 0 .. k
        BY <3>4
      <4>2. QED
        BY <2>2, <2>3, <3>2, <4>1
    <3>5. QED
      BY <3>3, <3>4
  <2>7. g = [h \in 0 .. k + 1 |-> SkipTurn(g, h, s)]
    BY <2>5, <2>6
  <2>8. Skips(g, k + 1, s)
    BY <2>7 DEF Skips
  <2>9. QED
    BY <2>8
<1>3. Nat \subseteq T
  <2> HIDE DEF T
  <2>1. QED
    BY <1>1, <1>2, SetInduction
<1>4. QED
  BY <1>3
NextForm(k, a, b, c, d, e, f, t) ==
  /\ a = PF_GetThisPage(k, k.row.nextpageNum)
  /\ b = (IF a.rc = "" THEN SkipEmptyLeaves(a) ELSE a)
  /\ c = (IF b.rc = "" THEN Overshot(b) ELSE b)
  /\ d = (IF c.rc = "" THEN SkipExcluded(c) ELSE c)
  /\ e = (IF d.rc = "" THEN Resumed(d) ELSE d)
  /\ f = (IF e.rc = "" THEN Taken(e) ELSE e)
  /\ t = (IF f.rc = "" THEN Bounded(f) ELSE f)

\* NextEntry as the sequence of its steps.
LEMMA NextEntryForm ==
  ASSUME NEW k, NEW a, NEW b, NEW c, NEW d, NEW e, NEW f, NEW t, NextForm(k, a, b, c, d, e, f, t)
  PROVE  NextEntry(k) = IF k.row.status = "OVER" THEN SetAnswer(k, "AME_EOF")
                        ELSE IF k.row.nextpageNum = AM_NULL_PAGE
                        THEN SetAnswer(SetStatus(k, "OVER"), "AME_EOF")
                        ELSE IF t.rc = "" THEN Answered(t) ELSE t
<1>1. k.row.status = "OVER" => NextEntry(k) = SetAnswer(k, "AME_EOF")
  BY DEF NextEntry, SetAnswer
<1>2. k.row.status # "OVER" /\ k.row.nextpageNum = AM_NULL_PAGE
        => NextEntry(k) = [k EXCEPT !.rc = "AME_EOF", !.row.status = "OVER"]
  BY DEF NextEntry
<1>3. [k EXCEPT !.rc = "AME_EOF", !.row.status = "OVER"] = SetAnswer(SetStatus(k, "OVER"), "AME_EOF")
  BY Zenon DEF SetAnswer, SetStatus
<1>4. k.row.status # "OVER" /\ k.row.nextpageNum # AM_NULL_PAGE
        => NextEntry(k) = IF t.rc = "" THEN Answered(t) ELSE t
  BY DEF NextEntry, Then, NextForm
<1>5. QED
  BY <1>1, <1>2, <1>3, <1>4

-----------------------------------------------------------------------------
(* An index of one leaf: AM_FindNextEntry. *)

\* The index is one leaf, and the call has fixed it, or is over.
OneLeaf == page[0].nextLeafPage = AM_NULL_PAGE
Inside(k) == IsCall(k) /\ k.rc = "" /\ k.row.nextpageNum = 0 /\ k.fixed = {0}
Over(k) ==
  /\ IsCall(k)
  /\ k.rc = "AME_PF" \/ (k.rc = "AME_EOF" /\ k.row.nextpageNum \in {0, AM_NULL_PAGE} /\ k.fixed = {})
Keeps(j, k) == IsCall(j) /\ (OneLeaf /\ Inside(k) => Inside(j) \/ Over(j))

\* A step that leaves the pages and stays at its leaf keeps the call inside or over,
LEMMA KeepsMoved ==
  ASSUME NEW k, NEW j, OnlyRow(j, k), j.row.nextpageNum = k.row.nextpageNum
  PROVE  Keeps(j, k)
  BY DEF OnlyRow, Keeps, Inside

\* and so does one that is answered AME_PF.
LEMMA KeepsBroken ==
  ASSUME NEW k, NEW j, Broken(j)
  PROVE  Keeps(j, k)
  BY DEF Broken, Keeps, Over

\* A step that is taken unless the call is over.
LEMMA KeepsIf ==
  ASSUME NEW k, NEW j, NEW h, IsCall(k), Keeps(j, k), h = (IF j.rc = "" THEN h ELSE j), j.rc = ""
         => Keeps(h, j)
  PROVE  Keeps(h, k)
<1>1. CASE j.rc = ""
  BY <1>1 DEF Keeps, Inside, Over
<1>2. CASE j.rc # ""
  BY <1>2 DEF Keeps, Inside, Over
<1>3. QED
  BY <1>1, <1>2

\* Nothing happens.
LEMMA KeepsSame ==
  ASSUME NEW k, IsCall(k)
  PROVE  Keeps(k, k)
  BY DEF Keeps

\* The steps of AM_FindNextEntry do so: a turn of the loop over empty leaves,
LEMMA SkipEmptyKeeps ==
  ASSUME NEW k, IsCall(k)
  PROVE  Keeps(SkipEmpty(k), k)
<1> DEFINE l == Leaf(k)
           u == PF_UnfixPage(k, k.row.nextpageNum)
           v == SetPage(u, l.nextLeafPage)
           g == PF_GetThisPage(v, l.nextLeafPage)
           o == SetStatus(k, "OVER")
           j == SkipEmpty(k)
<1>1. j = IF l.numKeys > 0 THEN k
          ELSE IF l.nextLeafPage = AM_NULL_PAGE THEN PF_UnfixPage(o, AM_NULL_PAGE)
          ELSE IF u.rc # "" THEN u
          ELSE IF g.rc # "" THEN g
          ELSE Anew(g, l.nextLeafPage)
  BY SkipEmptyForm
<1>2. Inside(k) /\ OneLeaf => l.nextLeafPage = AM_NULL_PAGE
  BY DEF Inside, OneLeaf, Leaf
<1>3. IsCall(o)
  <2> HIDE DEF o
  <2>1. OnlyRow(o, k)
    BY SetsIs DEF o
  <2>2. QED
    BY <2>1 DEF OnlyRow
<1>4. IsCall(u)
  BY UnfixIs
<1> HIDE DEF l, u, o, j
<1>5. Broken(PF_UnfixPage(o, AM_NULL_PAGE))
  BY <1>3, UnfixIs
<1>6. IsCall(v)
  <2>1. OnlyRow(v, u)
    BY <1>4, SetsIs
  <2>2. QED
    BY <2>1 DEF OnlyRow
<1> HIDE DEF v
<1>7. l.nextLeafPage # AM_NULL_PAGE => IsCall(g)
  BY <1>6, GetsIs
<1> HIDE DEF g
<1>8. IsCall(g) => IsCall(Anew(g, l.nextLeafPage))
  BY SetsIs DEF OnlyRow
<1>9. CASE l.numKeys > 0
  BY <1>1, <1>9, KeepsSame DEF j
<1>10. CASE ~ (l.numKeys > 0) /\ l.nextLeafPage = AM_NULL_PAGE
  BY <1>1, <1>5, <1>10, KeepsBroken DEF j
<1>11. CASE ~ (l.numKeys > 0) /\ l.nextLeafPage # AM_NULL_PAGE
  BY <1>1, <1>2, <1>4, <1>7, <1>8, <1>11 DEF j, Keeps
<1>12. QED
  BY <1>9, <1>10, <1>11

\* The loop over empty leaves: after each of its turns.
LEMMA SkipTurns ==
  ASSUME NEW k, IsCall(k), NEW n \in Nat, NEW f, Skips(f, n, k)
  PROVE  Keeps(f[n], k)
<1> DEFINE T == {i \in Nat : i <= n => Keeps(f[i], k)}
<1>1. \A i \in 0 .. n : f[i] = SkipTurn(f, i, k)
  BY DEF Skips
<1>2. 0 \in T
  <2>1. f[0] = k
    <3>1. 0 \in 0 .. n
      OBVIOUS
    <3>2. QED
      BY <1>1, <3>1 DEF SkipTurn
  <2>2. QED
    BY <2>1, KeepsSame
<1>3. ASSUME NEW h \in Nat, h \in T PROVE h + 1 \in T
  <2> SUFFICES ASSUME h + 1 <= n PROVE Keeps(f[h + 1], k)
    OBVIOUS
  <2> DEFINE j == f[h]
             t == SkipEmpty(j)
             s == f[h + 1]
  <2>1. s = IF j.rc = "" THEN t ELSE j
    <3>1. h + 1 \in 0 .. n /\ h + 1 # 0 /\ (h + 1) - 1 = h
      OBVIOUS
    <3>2. s = SkipTurn(f, h + 1, k)
      BY <1>1, <3>1
    <3>3. QED
      BY <3>1, <3>2 DEF SkipTurn
  <2>2. Keeps(j, k)
    BY <1>3
  <2>3. IsCall(j)
    BY <2>2 DEF Keeps
  <2> HIDE DEF j, s
  <2>4. Keeps(t, j)
    BY <2>3, SkipEmptyKeeps
  <2> HIDE DEF t
  <2>5. s = (IF j.rc = "" THEN s ELSE j) /\ (j.rc = "" => Keeps(s, j))
    BY <2>1, <2>4
  <2>6. QED
    BY <2>2, <2>5, KeepsIf DEF s
<1>4. Nat \subseteq T
  <2> HIDE DEF T
  <2>1. QED
    BY <1>2, <1>3, SetInduction
<1>5. QED
  BY <1>4

\* The whole loop,
LEMMA SkipKeeps ==
  ASSUME NEW k, IsCall(k), NumPages \in Nat
  PROVE  Keeps(SkipEmptyLeaves(k), k)
<1> DEFINE F == CHOOSE f : Skips(f, NumPages, k)
<1>1. SkipEmptyLeaves(k) = F[NumPages]
  BY SkipForm
<1>2. Skips(F, NumPages, k)
  BY SkipsExist
<1> HIDE DEF F
<1>3. Keeps(F[NumPages], k)
  BY <1>2, SkipTurns
<1>4. QED
  BY <1>1, <1>3

\* the end of < and <=,
LEMMA OvershotKeeps ==
  ASSUME NEW k, IsCall(k)
  PROVE  Keeps(Overshot(k), k)
<1> DEFINE l == Leaf(k)
           o == SetStatus(k, "OVER")
           u == PF_UnfixPage(o, l.nextLeafPage)
           j == Overshot(k)
<1>1. j = k \/ j = (IF u.rc # "" THEN u ELSE SetAnswer(u, "AME_EOF"))
  BY OvershotForm
<1>2. Inside(k) /\ OneLeaf => l.nextLeafPage = AM_NULL_PAGE
  BY DEF Inside, OneLeaf, Leaf
<1>3. IsCall(o)
  <2> HIDE DEF o
  <2>1. OnlyRow(o, k)
    BY SetsIs DEF o
  <2>2. QED
    BY <2>1 DEF OnlyRow
<1> HIDE DEF l, o, j
<1>4. IsCall(u) /\ (l.nextLeafPage = AM_NULL_PAGE => Broken(u))
  BY <1>3, UnfixIs
<1> HIDE DEF u
<1> DEFINE w == SetAnswer(u, "AME_EOF")
<1>5. IsCall(w)
  BY <1>4, SetsIs DEF OnlyRow
<1> HIDE DEF w
<1>6. CASE j = k
  BY <1>6, KeepsSame DEF j
<1>7. CASE j = (IF u.rc # "" THEN u ELSE w)
  BY <1>2, <1>4, <1>5, <1>7 DEF Keeps, Broken, Over, j
<1>8. QED
  BY <1>1, <1>6, <1>7 DEF w

\* the key that # excludes,
LEMMA SkipExcludedKeeps ==
  ASSUME NEW k, IsCall(k)
  PROVE  Keeps(SkipExcluded(k), k)
<1> DEFINE l == Leaf(k)
           u == PF_UnfixPage(k, k.row.nextpageNum)
           v == Goes(u, l.nextLeafPage, 1)
           g == PF_GetThisPage(v, l.nextLeafPage)
           w == SetAnswer(u, "AME_EOF")
           j == SkipExcluded(k)
<1>1. \/ j = k \/ j = Stepped(k)
      \/ l.nextLeafPage = AM_NULL_PAGE /\ j = w
      \/ l.nextLeafPage # AM_NULL_PAGE /\ j = (IF g.rc # "" THEN g ELSE Pointed(g))
  BY SkipExcludedForm
<1>2. Inside(k) /\ OneLeaf => l.nextLeafPage = AM_NULL_PAGE
  BY DEF Inside, OneLeaf, Leaf
<1>3. IsCall(u) /\ (Inside(k) => u.fixed = {} /\ u.row.nextpageNum = 0)
  <2>1. IsCall(u) /\ (k.row.nextpageNum \in k.fixed => u.fixed = k.fixed \ {k.row.nextpageNum})
    BY UnfixIs
  <2>2. Inside(k) => u.row.nextpageNum = 0
    <3>1. PICK b, st, np, ni, ax, nr, nv, fx, rc, po,
            rec : k = K(b, st, np, ni, ax, nr, nv, fx, rc, po, rec) /\ AM_NULL_PAGE \notin fx
      BY DEF IsCall
    <3>2. k.row.nextpageNum = np /\ k.fixed = fx
      BY <3>1, CallHas
    <3>3. np \in fx => u = K(b, st, np, ni, ax, nr, nv, fx \ {np}, rc, po, rec)
      BY <3>1, <3>2, CallUnfixes
    <3> HIDE DEF u
    <3> DEFINE f == fx \ {np}
    <3>4. u = K(b, st, np, ni, ax, nr, nv, f, rc, po, rec) => u.row.nextpageNum = np
      <4> HIDE DEF f
      <4> QED
        BY CallHas
    <3>5. QED
      BY <3>2, <3>3, <3>4 DEF Inside
  <2>3. QED
    BY <2>1, <2>2 DEF Inside
<1> HIDE DEF l, u, j
<1>4. IsCall(v)
  BY <1>3, SetsIs DEF OnlyRow
<1> HIDE DEF v
<1>5. l.nextLeafPage # AM_NULL_PAGE => IsCall(g)
  BY <1>4, GetsIs
<1> HIDE DEF g
<1>6. IsCall(g) => IsCall(Pointed(g))
  BY SetsIs DEF OnlyRow
<1>7. IsCall(w) /\ w.rc = "AME_EOF" /\ w.fixed = u.fixed /\ w.row.nextpageNum = u.row.nextpageNum
  <2> DEFINE e == "AME_EOF"
  <2>1. OnlyRow(SetAnswer(u, e), SetAnswer(u, e)) /\ SetAnswer(u, e).rc = e
          /\ SetAnswer(u, e).fixed = u.fixed
        /\ SetAnswer(u, e).row.nextpageNum = u.row.nextpageNum
    <3> HIDE DEF e
    <3> QED
      BY <1>3, SetsIs
  <2>2. QED
    BY <2>1 DEF OnlyRow
<1> HIDE DEF w
<1>8. Keeps(Stepped(k), k)
  <2> DEFINE t == Stepped(k)
  <2>1. OnlyRow(t, k) /\ t.row.nextpageNum = k.row.nextpageNum
    BY SetsIs
  <2> HIDE DEF t
  <2>2. Keeps(t, k)
    BY <2>1, KeepsMoved
  <2>3. QED
    BY <2>2 DEF t
<1>9. CASE j = k
  BY <1>9, KeepsSame DEF j
<1>10. CASE j = Stepped(k)
  BY <1>8, <1>10 DEF j
<1>11. CASE j = w
  BY <1>3, <1>7, <1>11 DEF j, Keeps, Over
<1>12. CASE l.nextLeafPage # AM_NULL_PAGE /\ j = (IF g.rc # "" THEN g ELSE Pointed(g))
  BY <1>2, <1>5, <1>6, <1>12 DEF j, Keeps
<1>13. QED
  BY <1>1, <1>9, <1>10, <1>11, <1>12

\* A further step that leaves the pages.
LEMMA KeepsStep ==
  ASSUME NEW k, NEW j, NEW h, Keeps(j, k), OnlyRow(h, j), h.row.nextpageNum = j.row.nextpageNum
  PROVE  Keeps(h, k)
  BY DEF OnlyRow, Keeps, Inside, Over

\* The row looks whether its key went,
LEMMA ResumedKeeps ==
  ASSUME NEW k, IsCall(k)
  PROVE  Keeps(Resumed(k), k)
<1> DEFINE b == SetStatus(k, "BUSY")
           j == Resumed(k)
<1>1. j = Noted(b) \/ j = k \/ j = Back(k)
  BY ResumedForm
<1>2. IsCall(b) /\ Keeps(b, k)
  <2> HIDE DEF b
  <2>1. OnlyRow(b, k) /\ b.row.nextpageNum = k.row.nextpageNum
    BY SetsIs DEF b
  <2>2. QED
    BY <2>1, KeepsMoved DEF OnlyRow
<1> HIDE DEF b, j
<1>3. Keeps(Noted(b), k)
  <2> DEFINE t == Noted(b)
  <2>1. OnlyRow(t, b) /\ t.row.nextpageNum = b.row.nextpageNum
    BY <1>2, SetsIs
  <2> HIDE DEF t
  <2>2. Keeps(t, k)
    BY <1>2, <2>1, KeepsStep
  <2>3. QED
    BY <2>2 DEF t
<1>4. Keeps(Back(k), k)
  <2> DEFINE t == Back(k)
  <2>1. OnlyRow(t, k) /\ t.row.nextpageNum = k.row.nextpageNum
    BY SetsIs
  <2> HIDE DEF t
  <2>2. Keeps(t, k)
    BY <2>1, KeepsMoved
  <2>3. QED
    BY <2>2 DEF t
<1>5. Keeps(k, k)
  BY KeepsSame
<1>6. QED
  BY <1>1, <1>3, <1>4, <1>5 DEF j

\* the record is taken,
LEMMA TakenKeeps ==
  ASSUME NEW k, IsCall(k)
  PROVE  Keeps(Taken(k), k)
<1> DEFINE l == Leaf(k)
           cell == Cell(k.row.nextpageNum, k.row.nextRecIdPtr)
           h == Read(k, cell)
           x == Goes(h, l.nextLeafPage, 1)
           u == PF_UnfixPage(x, l.nextLeafPage)
           g == PF_GetThisPage(u, l.nextLeafPage)
           o == SetStatus(h, "OVER")
           j == Taken(k)
<1>1. \/ j = h \/ j = Noted(Stepped(h)) \/ j = o
      \/ l.nextLeafPage # AM_NULL_PAGE /\ (j = u \/ j = g \/ j = Noted(Pointed(g)))
  BY TakenForm
<1>2. Inside(k) /\ OneLeaf => l.nextLeafPage = AM_NULL_PAGE
  BY DEF Inside, OneLeaf, Leaf
<1>3. IsCall(h) /\ Keeps(h, k)
  <2> HIDE DEF cell, h
  <2>1. OnlyRow(h, k) /\ h.row.nextpageNum = k.row.nextpageNum
    BY SetsIs DEF h
  <2>2. QED
    BY <2>1, KeepsMoved DEF OnlyRow
<1> HIDE DEF l, cell, h, j
<1>4. IsCall(x)
  BY <1>3, SetsIs DEF OnlyRow
<1> HIDE DEF x
<1>5. IsCall(u)
  BY <1>4, UnfixIs
<1> HIDE DEF u
<1>6. l.nextLeafPage # AM_NULL_PAGE => IsCall(g)
  BY <1>5, GetsIs
<1> HIDE DEF g
<1>7. IsCall(g) => IsCall(Noted(Pointed(g)))
  <2> SUFFICES ASSUME IsCall(g) PROVE IsCall(Noted(Pointed(g)))
    OBVIOUS
  <2> DEFINE t == Pointed(g)
  <2>1. IsCall(t)
    BY SetsIs DEF OnlyRow
  <2> HIDE DEF t
  <2>2. IsCall(Noted(t))
    BY <2>1, SetsIs DEF OnlyRow
  <2>3. QED
    BY <2>2 DEF t
<1>8. Keeps(o, k)
  <2> HIDE DEF o
  <2>1. OnlyRow(o, h) /\ o.row.nextpageNum = h.row.nextpageNum
    BY <1>3, SetsIs DEF o
  <2>2. QED
    BY <1>3, <2>1, KeepsStep
<1>9. Keeps(Noted(Stepped(h)), k)
  <2> DEFINE t == Stepped(h)
             w == Noted(t)
  <2>1. OnlyRow(t, h) /\ t.row.nextpageNum = h.row.nextpageNum
    BY <1>3, SetsIs
  <2> HIDE DEF t
  <2>2. Keeps(t, k) /\ IsCall(t)
    BY <1>3, <2>1, KeepsStep DEF OnlyRow
  <2>3. OnlyRow(w, t) /\ w.row.nextpageNum = t.row.nextpageNum
    BY <2>2, SetsIs
  <2> HIDE DEF w
  <2>4. Keeps(w, k)
    BY <2>2, <2>3, KeepsStep
  <2>5. QED
    BY <2>4 DEF w, t
<1> HIDE DEF o
<1>10. CASE j = h \/ j = Noted(Stepped(h)) \/ j = o
  BY <1>3, <1>8, <1>9, <1>10 DEF j
<1>11. CASE l.nextLeafPage # AM_NULL_PAGE /\ (j = u \/ j = g \/ j = Noted(Pointed(g)))
  BY <1>2, <1>5, <1>6, <1>7, <1>11 DEF Keeps, j
<1>12. QED
  BY <1>1, <1>10, <1>11

\* and the operator is looked at.
LEMMA BoundedKeeps ==
  ASSUME NEW k, IsCall(k)
  PROVE  Keeps(Bounded(k), k)
<1> DEFINE e == NewStatus(k.row)
           j == SetStatus(k, e)
<1>1. Bounded(k) = j
  BY BoundedForm
<1> HIDE DEF e
<1>2. OnlyRow(j, k) /\ j.row.nextpageNum = k.row.nextpageNum
  BY SetsIs
<1> HIDE DEF j
<1>3. Keeps(j, k)
  BY <1>2, KeepsMoved
<1>4. QED
  BY <1>1, <1>3

\* What the page of a call is, when that is not unfixed.
LEMMA UnfixStays ==
  ASSUME NEW k, IsCall(k), NEW p
  PROVE  PF_UnfixPage(k, p).row.nextpageNum = k.row.nextpageNum
<1> DEFINE u == PF_UnfixPage(k, p)
<1>1. PICK b, st, np, ni, ax, nr, nv, fx, rc, po, rec : k = K(b, st, np, ni, ax, nr, nv, fx, rc, po, rec)
        /\ AM_NULL_PAGE \notin fx
  BY DEF IsCall
<1>2. k.row.nextpageNum = np
  BY <1>1, CallHas
<1>3. u = K(b, st, np, ni, ax, nr, nv, fx \ {p}, rc, po, rec) \/ u = K(b, st, np, ni, ax, nr, nv, fx,
                                                                       "AME_PF", po, rec) \/ u = k
  BY <1>1, CallUnfixes
<1> HIDE DEF u
<1> DEFINE f == fx \ {p}
           e == "AME_PF"
<1>4. u = K(b, st, np, ni, ax, nr, nv, f, rc, po, rec) => u.row.nextpageNum = np
  <2> HIDE DEF f
  <2> QED
    BY CallHas
<1>5. u = K(b, st, np, ni, ax, nr, nv, fx, e, po, rec) => u.row.nextpageNum = np
  <2> HIDE DEF e
  <2> QED
    BY CallHas
<1>6. QED
  BY <1>2, <1>3, <1>4, <1>5 DEF u

\* The same when it is fixed.
LEMMA GetsStays ==
  ASSUME NEW k, IsCall(k), NEW p
  PROVE  PF_GetThisPage(k, p).row.nextpageNum = k.row.nextpageNum
<1> DEFINE u == PF_GetThisPage(k, p)
<1>1. PICK b, st, np, ni, ax, nr, nv, fx, rc, po, rec : k = K(b, st, np, ni, ax, nr, nv, fx, rc, po, rec)
        /\ AM_NULL_PAGE \notin fx
  BY DEF IsCall
<1>2. k.row.nextpageNum = np
  BY <1>1, CallHas
<1>3. u = K(b, st, np, ni, ax, nr, nv, fx \cup {p}, rc, po, rec) \/ u = K(b, st, np, ni, ax, nr, nv, fx,
                                                                          "AME_PF", po, rec)
  BY <1>1, CallGets
<1> HIDE DEF u
<1> DEFINE f == fx \cup {p}
           e == "AME_PF"
<1>4. u = K(b, st, np, ni, ax, nr, nv, f, rc, po, rec) => u.row.nextpageNum = np
  <2> HIDE DEF f
  <2> QED
    BY CallHas
<1>5. u = K(b, st, np, ni, ax, nr, nv, fx, e, po, rec) => u.row.nextpageNum = np
  <2> HIDE DEF e
  <2> QED
    BY CallHas
<1>6. QED
  BY <1>2, <1>3, <1>4, <1>5 DEF u

\* A call for the next entry of an index of one leaf fixes no page for good.
Settled(j) == j.rc # "AME_PF" => j.fixed = {} /\ j.row.nextpageNum \in {0, AM_NULL_PAGE}

\* The leaf is unfixed before the answer.
LEMMA AnsweredSettles ==
  ASSUME NEW k, IsCall(k)
  PROVE  IsCall(Answered(k)) /\ (Inside(k) => Settled(Answered(k)))
<1> DEFINE p == k.row.nextpageNum
           j == PF_UnfixPage(k, p)
<1>1. Answered(k) = j
  BY DEF Answered
<1>2. IsCall(j) /\ (p \in k.fixed => j.fixed = k.fixed \ {p}) /\ j.row.nextpageNum = p
  BY UnfixIs, UnfixStays
<1> HIDE DEF j
<1>3. Inside(k) => k.fixed = {0} /\ p = 0
  BY DEF Inside
<1>4. QED
  BY <1>1, <1>2, <1>3 DEF Settled

\* So AM_FindNextEntry leaves nothing fixed, and its row at the leaf or nowhere.
LEMMA NextSettles ==
  ASSUME NEW k, IsCall(k), k.rc = "", NumPages \in Nat
  PROVE  /\ IsCall(NextEntry(k))
         /\ OneLeaf /\ k.fixed = {} /\ k.row.nextpageNum \in {0, AM_NULL_PAGE} => Settled(NextEntry(k))
<1> DEFINE a == PF_GetThisPage(k, k.row.nextpageNum)
           b == IF a.rc = "" THEN SkipEmptyLeaves(a) ELSE a
           c == IF b.rc = "" THEN Overshot(b) ELSE b
           d == IF c.rc = "" THEN SkipExcluded(c) ELSE c
           e == IF d.rc = "" THEN Resumed(d) ELSE d
           f == IF e.rc = "" THEN Taken(e) ELSE e
           t == IF f.rc = "" THEN Bounded(f) ELSE f
           o == SetAnswer(k, "AME_EOF")
           q == SetStatus(k, "OVER")
           w == SetAnswer(q, "AME_EOF")
           j == NextEntry(k)
<1>1. NextForm(k, a, b, c, d, e, f, t)
  BY DEF NextForm
<1> HIDE DEF a, b, c, d, e, f, t
<1>2. j = IF k.row.status = "OVER" THEN o
          ELSE IF k.row.nextpageNum = AM_NULL_PAGE THEN w
          ELSE IF t.rc = "" THEN Answered(t) ELSE t
  BY <1>1, NextEntryForm
<1> HIDE DEF j
<1>3. IsCall(o) /\ o.fixed = k.fixed /\ o.row.nextpageNum = k.row.nextpageNum
  BY SetsIs DEF OnlyRow
<1>4. IsCall(q) /\ q.fixed = k.fixed /\ q.row.nextpageNum = k.row.nextpageNum
  <2> HIDE DEF q
  <2>1. OnlyRow(q, k) /\ q.row.nextpageNum = k.row.nextpageNum
    BY SetsIs DEF q
  <2>2. QED
    BY <2>1 DEF OnlyRow
<1> HIDE DEF q
<1>5. IsCall(w) /\ w.fixed = k.fixed /\ w.row.nextpageNum = k.row.nextpageNum
  <2> DEFINE x == "AME_EOF"
  <2>1. w = SetAnswer(q, x)
    OBVIOUS
  <2> HIDE DEF x, w
  <2>2. /\ OnlyRow(SetAnswer(q, x), SetAnswer(q, x)) /\ SetAnswer(q, x).fixed = q.fixed
        /\ SetAnswer(q, x).row.nextpageNum = q.row.nextpageNum
    BY <1>4, SetsIs
  <2>3. QED
    BY <1>4, <2>1, <2>2 DEF OnlyRow
<1> HIDE DEF o, w
<1>6. CASE k.row.status = "OVER" \/ k.row.nextpageNum = AM_NULL_PAGE
  BY <1>2, <1>3, <1>5, <1>6 DEF Settled, j
<1>7. CASE k.row.status # "OVER" /\ k.row.nextpageNum # AM_NULL_PAGE
  <2> DEFINE p == k.row.nextpageNum
  <2>1. IsCall(a) /\ (Broken(a) \/ (a.rc = k.rc /\ a.fixed = k.fixed \cup {p}))
    BY <1>1, <1>7, GetsIs DEF NextForm
  <2>2. a.row.nextpageNum = p
    BY <1>1, GetsStays DEF NextForm
  <2> DEFINE One == OneLeaf /\ k.fixed = {} /\ k.row.nextpageNum \in {0, AM_NULL_PAGE}
  <2>3. One => Inside(a) \/ Broken(a)
    BY <1>7, <2>1, <2>2 DEF Inside
  <2> HIDE DEF One, p
  <2>4. IsCall(b) /\ Keeps(b, a)
    <3>1. b = IF a.rc = "" THEN SkipEmptyLeaves(a) ELSE a
      BY <1>1 DEF NextForm
    <3>2. Keeps(SkipEmptyLeaves(a), a) /\ Keeps(a, a)
      BY <2>1, SkipKeeps, KeepsSame
    <3>3. QED
      BY <3>1, <3>2 DEF Keeps
  <2>5. IsCall(c) /\ Keeps(c, a)
    <3>1. c = IF b.rc = "" THEN Overshot(b) ELSE b
      BY <1>1 DEF NextForm
    <3>2. Keeps(Overshot(b), b)
      BY <2>4, OvershotKeeps
    <3>3. Keeps(c, a)
      BY <2>1, <2>4, <3>1, <3>2, KeepsIf
    <3>4. QED
      BY <3>3 DEF Keeps
  <2>6. IsCall(d) /\ Keeps(d, a)
    <3>1. d = IF c.rc = "" THEN SkipExcluded(c) ELSE c
      BY <1>1 DEF NextForm
    <3>2. Keeps(SkipExcluded(c), c)
      BY <2>5, SkipExcludedKeeps
    <3>3. Keeps(d, a)
      BY <2>1, <2>5, <3>1, <3>2, KeepsIf
    <3>4. QED
      BY <3>3 DEF Keeps
  <2>7. IsCall(e) /\ Keeps(e, a)
    <3>1. e = IF d.rc = "" THEN Resumed(d) ELSE d
      BY <1>1 DEF NextForm
    <3>2. Keeps(Resumed(d), d)
      BY <2>6, ResumedKeeps
    <3>3. Keeps(e, a)
      BY <2>1, <2>6, <3>1, <3>2, KeepsIf
    <3>4. QED
      BY <3>3 DEF Keeps
  <2>8. IsCall(f) /\ Keeps(f, a)
    <3>1. f = IF e.rc = "" THEN Taken(e) ELSE e
      BY <1>1 DEF NextForm
    <3>2. Keeps(Taken(e), e)
      BY <2>7, TakenKeeps
    <3>3. Keeps(f, a)
      BY <2>1, <2>7, <3>1, <3>2, KeepsIf
    <3>4. QED
      BY <3>3 DEF Keeps
  <2>9. IsCall(t) /\ Keeps(t, a)
    <3>1. t = IF f.rc = "" THEN Bounded(f) ELSE f
      BY <1>1 DEF NextForm
    <3>2. Keeps(Bounded(f), f)
      BY <2>8, BoundedKeeps
    <3>3. Keeps(t, a)
      BY <2>1, <2>8, <3>1, <3>2, KeepsIf
    <3>4. QED
      BY <3>3 DEF Keeps
  <2>10. j = IF t.rc = "" THEN Answered(t) ELSE t
    BY <1>2, <1>7
  <2>11. IsCall(Answered(t)) /\ (Inside(t) => Settled(Answered(t)))
    BY <2>9, AnsweredSettles
  <2>12. One => Inside(t) \/ Over(t)
    <3>1. a.rc # "" => t = a
      BY <1>1 DEF NextForm
    <3>2. Broken(a) => Over(t)
      BY <3>1 DEF Broken, Over
    <3>3. QED
      BY <2>3, <2>9, <3>2 DEF Keeps, One
  <2>13. Over(t) => t.rc # "" /\ Settled(t)
    BY DEF Over, Settled
  <2>14. Inside(t) => t.rc = ""
    BY DEF Inside
  <2>15. QED
    BY <2>9, <2>10, <2>11, <2>12, <2>13, <2>14 DEF One, j
<1>8. QED
  BY <1>6, <1>7

-----------------------------------------------------------------------------
(* The parts of a call that opens a scan. *)

\* A row, and a call that opens a scan, in progress.
RowOf(st, op, pn, ix, ax, np, nv, ni, nr, lp, li) ==
  [status |-> st, op |-> op, pageNum |-> pn, index |-> ix, actindex |-> ax,
   nextpageNum |-> np, nextvalue |-> nv, nextIndex |-> ni, nextRecIdPtr |-> nr,
   lastpageNum |-> lp, lastIndex |-> li]
Opens(row, fx, rc, po, buf) == [row |-> row, fixed |-> fx, rc |-> rc, pool |-> po, buf |-> buf]
Op(st, op, pn, ix, ax, np, nv, ni, nr, lp, li, fx, rc, po,
   buf) == Opens(RowOf(st, op, pn, ix, ax, np, nv, ni, nr, lp, li), fx, rc, po, buf)
IsRow(r) ==
  r = RowOf(r.status, r.op, r.pageNum, r.index, r.actindex, r.nextpageNum, r.nextvalue, r.nextIndex,
            r.nextRecIdPtr, r.lastpageNum, r.lastIndex)

\* What a call that opens a scan has.
LEMMA OpHas ==
  ASSUME NEW st, NEW op, NEW pn, NEW ix, NEW ax, NEW np, NEW nv, NEW ni, NEW nr, NEW lp, NEW li, NEW fx,
         NEW rc, NEW po, NEW buf, NEW k,
           k = Op(st, op, pn, ix, ax, np, nv, ni, nr, lp, li, fx, rc, po, buf)
  PROVE  /\ k.row = RowOf(st, op, pn, ix, ax, np, nv, ni, nr, lp, li) /\ IsRow(k.row)
         /\ k.row.status = st /\ k.row.op = op /\ k.row.pageNum = pn /\ k.row.index = ix
         /\ k.row.actindex = ax /\ k.row.nextpageNum = np /\ k.row.nextvalue = nv /\ k.row.nextIndex = ni
         /\ k.row.nextRecIdPtr = nr /\ k.row.lastpageNum = lp /\ k.row.lastIndex = li
         /\ k.fixed = fx /\ k.rc = rc /\ k.pool = po /\ k.buf = buf
  BY DEF Op, Opens, RowOf, IsRow

SetOp(k, e) == [k EXCEPT !.row.op = e]
SetPlace(k, p) == [k EXCEPT !.row.pageNum = p]
SetIndex(k, i) == [k EXCEPT !.row.index = i]
SetHead(k, h) == [k EXCEPT !.row.nextRecIdPtr = h]
SetBuf(k, p) == [k EXCEPT !.buf = p]
SetLastPage(k, p) == [k EXCEPT !.row.lastpageNum = p]
SetLastIndex(k, i) == [k EXCEPT !.row.lastIndex = i]
SetNextIndex(k, i) == [k EXCEPT !.row.nextIndex = i]
SetActIndex(k, i) == [k EXCEPT !.row.actindex = i]

\* What they do.
LEMMA OpOp ==
  ASSUME NEW st, NEW op, NEW pn, NEW ix, NEW ax, NEW np, NEW nv, NEW ni, NEW nr, NEW lp, NEW li, NEW fx,
         NEW rc, NEW po, NEW buf, NEW k,
           k = Op(st, op, pn, ix, ax, np, nv, ni, nr, lp, li, fx, rc, po, buf), NEW e
  PROVE  SetOp(k, e) = Op(st, e, pn, ix, ax, np, nv, ni, nr, lp, li, fx, rc, po, buf)
  BY DEF Op, Opens, RowOf, SetOp

\* The status is set,
LEMMA OpStatus ==
  ASSUME NEW st, NEW op, NEW pn, NEW ix, NEW ax, NEW np, NEW nv, NEW ni, NEW nr, NEW lp, NEW li, NEW fx,
         NEW rc, NEW po, NEW buf, NEW k,
           k = Op(st, op, pn, ix, ax, np, nv, ni, nr, lp, li, fx, rc, po, buf), NEW e
  PROVE  SetStatus(k, e) = Op(e, op, pn, ix, ax, np, nv, ni, nr, lp, li, fx, rc, po, buf)
  BY DEF Op, Opens, RowOf, SetStatus

\* the page of the value,
LEMMA OpPlace ==
  ASSUME NEW st, NEW op, NEW pn, NEW ix, NEW ax, NEW np, NEW nv, NEW ni, NEW nr, NEW lp, NEW li, NEW fx,
         NEW rc, NEW po, NEW buf, NEW k,
           k = Op(st, op, pn, ix, ax, np, nv, ni, nr, lp, li, fx, rc, po, buf), NEW e
  PROVE  SetPlace(k, e) = Op(st, op, e, ix, ax, np, nv, ni, nr, lp, li, fx, rc, po, buf)
  BY DEF Op, Opens, RowOf, SetPlace

\* its index,
LEMMA OpIndex ==
  ASSUME NEW st, NEW op, NEW pn, NEW ix, NEW ax, NEW np, NEW nv, NEW ni, NEW nr, NEW lp, NEW li, NEW fx,
         NEW rc, NEW po, NEW buf, NEW k,
           k = Op(st, op, pn, ix, ax, np, nv, ni, nr, lp, li, fx, rc, po, buf), NEW e
  PROVE  SetIndex(k, e) = Op(st, op, pn, e, ax, np, nv, ni, nr, lp, li, fx, rc, po, buf)
  BY DEF Op, Opens, RowOf, SetIndex

\* the record to come,
LEMMA OpHead ==
  ASSUME NEW st, NEW op, NEW pn, NEW ix, NEW ax, NEW np, NEW nv, NEW ni, NEW nr, NEW lp, NEW li, NEW fx,
         NEW rc, NEW po, NEW buf, NEW k,
           k = Op(st, op, pn, ix, ax, np, nv, ni, nr, lp, li, fx, rc, po, buf), NEW e
  PROVE  SetHead(k, e) = Op(st, op, pn, ix, ax, np, nv, ni, e, lp, li, fx, rc, po, buf)
  BY DEF Op, Opens, RowOf, SetHead

\* the page in pageBuf,
LEMMA OpBuf ==
  ASSUME NEW st, NEW op, NEW pn, NEW ix, NEW ax, NEW np, NEW nv, NEW ni, NEW nr, NEW lp, NEW li, NEW fx,
         NEW rc, NEW po, NEW buf, NEW k,
           k = Op(st, op, pn, ix, ax, np, nv, ni, nr, lp, li, fx, rc, po, buf), NEW e
  PROVE  SetBuf(k, e) = Op(st, op, pn, ix, ax, np, nv, ni, nr, lp, li, fx, rc, po, e)
  BY DEF Op, Opens, RowOf, SetBuf

\* the last page,
LEMMA OpLastPage ==
  ASSUME NEW st, NEW op, NEW pn, NEW ix, NEW ax, NEW np, NEW nv, NEW ni, NEW nr, NEW lp, NEW li, NEW fx,
         NEW rc, NEW po, NEW buf, NEW k,
           k = Op(st, op, pn, ix, ax, np, nv, ni, nr, lp, li, fx, rc, po, buf), NEW e
  PROVE  SetLastPage(k, e) = Op(st, op, pn, ix, ax, np, nv, ni, nr, e, li, fx, rc, po, buf)
  BY DEF Op, Opens, RowOf, SetLastPage

\* the last index,
LEMMA OpLastIndex ==
  ASSUME NEW st, NEW op, NEW pn, NEW ix, NEW ax, NEW np, NEW nv, NEW ni, NEW nr, NEW lp, NEW li, NEW fx,
         NEW rc, NEW po, NEW buf, NEW k,
           k = Op(st, op, pn, ix, ax, np, nv, ni, nr, lp, li, fx, rc, po, buf), NEW e
  PROVE  SetLastIndex(k, e) = Op(st, op, pn, ix, ax, np, nv, ni, nr, lp, e, fx, rc, po, buf)
  BY DEF Op, Opens, RowOf, SetLastIndex

\* the index to come,
LEMMA OpNextIndex ==
  ASSUME NEW st, NEW op, NEW pn, NEW ix, NEW ax, NEW np, NEW nv, NEW ni, NEW nr, NEW lp, NEW li, NEW fx,
         NEW rc, NEW po, NEW buf, NEW k,
           k = Op(st, op, pn, ix, ax, np, nv, ni, nr, lp, li, fx, rc, po, buf), NEW e
  PROVE  SetNextIndex(k, e) = Op(st, op, pn, ix, ax, np, nv, e, nr, lp, li, fx, rc, po, buf)
  BY DEF Op, Opens, RowOf, SetNextIndex

\* the index that the entry had when the scan came to it,
LEMMA OpActIndex ==
  ASSUME NEW st, NEW op, NEW pn, NEW ix, NEW ax, NEW np, NEW nv, NEW ni, NEW nr, NEW lp, NEW li, NEW fx,
         NEW rc, NEW po, NEW buf, NEW k,
           k = Op(st, op, pn, ix, ax, np, nv, ni, nr, lp, li, fx, rc, po, buf), NEW e
  PROVE  SetActIndex(k, e) = Op(st, op, pn, ix, e, np, nv, ni, nr, lp, li, fx, rc, po, buf)
  BY DEF Op, Opens, RowOf, SetActIndex

\* the page to come.
LEMMA OpPage ==
  ASSUME NEW st, NEW op, NEW pn, NEW ix, NEW ax, NEW np, NEW nv, NEW ni, NEW nr, NEW lp, NEW li, NEW fx,
         NEW rc, NEW po, NEW buf, NEW k,
           k = Op(st, op, pn, ix, ax, np, nv, ni, nr, lp, li, fx, rc, po, buf), NEW e
  PROVE  SetPage(k, e) = Op(st, op, pn, ix, ax, e, nv, ni, nr, lp, li, fx, rc, po, buf)
  BY DEF Op, Opens, RowOf, SetPage

\* The row goes to a slot.
LEMMA RowTo ==
  ASSUME NEW r, NEW p, NEW i
  PROVE  At(r, p, i) = [[[r EXCEPT !.nextpageNum = p] EXCEPT !.nextIndex = i] EXCEPT !.actindex = i]
  BY DEF At

\* A row goes to slot i of page p,
LEMMA RowGoesTo ==
  ASSUME NEW st, NEW op, NEW pn, NEW ix, NEW ax, NEW np, NEW nv, NEW ni, NEW nr, NEW lp, NEW li, NEW p,
         NEW i
  PROVE  At(RowOf(st, op, pn, ix, ax, np, nv, ni, nr, lp, li), p, i) = RowOf(st, op, pn, ix, i, p, nv, i,
                                                                             nr, lp, li)
<1> DEFINE r == RowOf(st, op, pn, ix, ax, np, nv, ni, nr, lp, li)
<1>1. At(r, p, i) = [[[r EXCEPT !.nextpageNum = p] EXCEPT !.nextIndex = i] EXCEPT !.actindex = i]
  BY RowTo
<1>2. [r EXCEPT !.nextpageNum = p] = RowOf(st, op, pn, ix, ax, p, nv, ni, nr, lp, li)
  BY DEF RowOf
<1>3. [RowOf(st, op, pn, ix, ax, p, nv, ni, nr, lp, li) EXCEPT !.nextIndex = i] = RowOf(st, op, pn, ix,
                                                                                        ax, p, nv, i, nr, lp, li)
  BY DEF RowOf
<1>4. [RowOf(st, op, pn, ix, ax, p, nv, i, nr, lp, li) EXCEPT !.actindex = i] = RowOf(st, op, pn, ix, i,
                                                                                      p, nv, i, nr, lp, li)
  BY DEF RowOf
<1>5. QED
  BY <1>1, <1>2, <1>3, <1>4, Zenon

\* and so the row of the call.
LEMMA OpGoes ==
  ASSUME NEW st, NEW op, NEW pn, NEW ix, NEW ax, NEW np, NEW nv, NEW ni, NEW nr, NEW lp, NEW li, NEW fx,
         NEW rc, NEW po, NEW buf, NEW p, NEW i, NEW k,
           k = Op(st, op, pn, ix, ax, np, nv, ni, nr, lp, li, fx, rc, po, buf)
  PROVE  Goes(k, p, i) = Op(st, op, pn, ix, i, p, nv, i, nr, lp, li, fx, rc, po, buf)
<1> DEFINE r == RowOf(st, op, pn, ix, ax, np, nv, ni, nr, lp, li)
           s == RowOf(st, op, pn, ix, i, p, nv, i, nr, lp, li)
<1>1. k.row = r
  BY OpHas
<1>2. At(r, p, i) = s
  BY RowGoesTo
<1>3. [k EXCEPT !.row = At(@, p, i)] = [k EXCEPT !.row = s]
  BY <1>1, <1>2, Zenon
<1>4. [k EXCEPT !.row = s] = Opens(s, fx, rc, po, buf)
  <2> HIDE DEF s, r
  <2> QED
    BY DEF Op, Opens
<1>5. QED
  BY <1>3, <1>4, Zenon DEF Goes, Op

\* A call that is answered.
LEMMA OpAnswer ==
  ASSUME NEW st, NEW op, NEW pn, NEW ix, NEW ax, NEW np, NEW nv, NEW ni, NEW nr, NEW lp, NEW li, NEW fx,
         NEW rc, NEW po, NEW buf, NEW k,
           k = Op(st, op, pn, ix, ax, np, nv, ni, nr, lp, li, fx, rc, po, buf), NEW e
  PROVE  SetAnswer(k, e) = Op(st, op, pn, ix, ax, np, nv, ni, nr, lp, li, fx, e, po, buf)
  BY DEF Op, Opens, RowOf, SetAnswer

\* A call that fails.
LEMMA OpFail ==
  ASSUME NEW st, NEW op, NEW pn, NEW ix, NEW ax, NEW np, NEW nv, NEW ni, NEW nr, NEW lp, NEW li, NEW fx,
         NEW rc, NEW po, NEW buf, NEW k,
           k = Op(st, op, pn, ix, ax, np, nv, ni, nr, lp, li, fx, rc, po, buf)
  PROVE  Fail(k) = Op(st, op, pn, ix, ax, np, nv, ni, nr, lp, li, fx, "AME_PF", po, buf)
<1> DEFINE e == "AME_PF"
<1>1. Fail(k) = [k EXCEPT !.rc = e]
  BY DEF Fail
<1> HIDE DEF e
<1>2. [k EXCEPT !.rc = e] = Op(st, op, pn, ix, ax, np, nv, ni, nr, lp, li, fx, e, po, buf)
  BY DEF Op, Opens, RowOf
<1>3. QED
  BY <1>1, <1>2 DEF e

\* What fixing a page does to it,
LEMMA OpGets ==
  ASSUME NEW st, NEW op, NEW pn, NEW ix, NEW ax, NEW np, NEW nv, NEW ni, NEW nr, NEW lp, NEW li, NEW fx,
         NEW rc, NEW po, NEW buf, NEW k,
           k = Op(st, op, pn, ix, ax, np, nv, ni, nr, lp, li, fx, rc, po, buf), NEW p, NEW j,
             j = PF_GetThisPage(k, p)
  PROVE  \/ j = Op(st, op, pn, ix, ax, np, nv, ni, nr, lp, li, fx, "AME_PF", po, buf)
         \/ /\ p \in DOMAIN page /\ p \notin fx
            /\ j = Op(st, op, pn, ix, ax, np, nv, ni, nr, lp, li, fx \cup {p}, rc, po, buf)
<1> DEFINE e == fx \cup {p}
           No == p \notin DOMAIN page \/ p \in k.fixed \/ k.pool[p] = "refused"
<1>1. k.fixed = fx
  BY OpHas
<1>2. No => j = Fail(k)
  BY DEF PF_GetThisPage
<1>3. ~ No => j = [k EXCEPT !.fixed = e] /\ p \notin fx /\ p \in DOMAIN page
  BY <1>1, Zenon DEF PF_GetThisPage
<1> HIDE DEF e, No
<1>4. [k EXCEPT !.fixed = e] = Op(st, op, pn, ix, ax, np, nv, ni, nr, lp, li, e, rc, po, buf)
  BY DEF Op, Opens, RowOf
<1>5. QED
  BY <1>2, <1>3, <1>4, OpFail DEF e

\* and unfixing one.
LEMMA OpUnfixes ==
  ASSUME NEW st, NEW op, NEW pn, NEW ix, NEW ax, NEW np, NEW nv, NEW ni, NEW nr, NEW lp, NEW li, NEW fx,
         NEW rc, NEW po, NEW buf, NEW k,
           k = Op(st, op, pn, ix, ax, np, nv, ni, nr, lp, li, fx, rc, po, buf), NEW p, NEW j,
             j = PF_UnfixPage(k, p)
  PROVE  /\ p \in fx => j = Op(st, op, pn, ix, ax, np, nv, ni, nr, lp, li, fx \ {p}, rc, po, buf)
         /\ p \notin fx /\ p = AM_NULL_PAGE
            => j = Op(st, op, pn, ix, ax, np, nv, ni, nr, lp, li, fx, "AME_PF", po, buf)
         /\ p \notin fx => j = Op(st, op, pn, ix, ax, np, nv, ni, nr, lp, li, fx, "AME_PF", po,
                                  buf) \/ j = k
<1> DEFINE e == fx \ {p}
<1>1. k.fixed = fx
  BY OpHas
<1>2. p \in fx => j = [k EXCEPT !.fixed = e]
  BY <1>1, Zenon DEF PF_UnfixPage
<1>3. p \notin fx /\ p = AM_NULL_PAGE => j = Fail(k)
  BY <1>1 DEF PF_UnfixPage
<1>4. p \notin fx => j = Fail(k) \/ j = k
  BY <1>1 DEF PF_UnfixPage
<1> HIDE DEF e
<1>5. [k EXCEPT !.fixed = e] = Op(st, op, pn, ix, ax, np, nv, ni, nr, lp, li, e, rc, po, buf)
  BY DEF Op, Opens, RowOf
<1>6. QED
  BY <1>2, <1>3, <1>4, <1>5, OpFail DEF e

-----------------------------------------------------------------------------
(* An index of one leaf: AM_OpenIndexScan. *)

\* A call that opens a scan of an index of one leaf: with the leaf fixed, and at its end.
Stay == {0, AM_NULL_PAGE}
OnLeaf(fx, rc, buf, pn, np) == fx = {0} /\ rc = "" /\ buf = 0 /\ pn \in Stay /\ np \in Stay
OffLeaf(fx, rc, np) == fx = {} /\ rc = "" /\ np \in Stay
Ready(k) == \E st, op, pn, ix, ax, np, nv, ni, nr, lp, li, fx, rc, po,
  buf : k = Op(st, op, pn, ix, ax, np, nv, ni, nr, lp, li, fx, rc, po, buf) /\ OnLeaf(fx, rc, buf, pn, np)
Ended(k) == \E st, op, pn, ix, ax, np, nv, ni, nr, lp, li, fx, rc, po,
  buf : k = Op(st, op, pn, ix, ax, np, nv, ni, nr, lp, li, fx, rc, po, buf) /\ OffLeaf(fx, rc, np)

\* So it is unless the call was answered already.
Onward(k) == k.rc = "" => Ready(k)
RestsAtEnd(k) == k.rc = "" => Ended(k)

\* A call with the leaf fixed, by its parts.
LEMMA ReadyOf ==
  ASSUME NEW st, NEW op, NEW pn, NEW ix, NEW ax, NEW np, NEW nv, NEW ni, NEW nr, NEW lp, NEW li, NEW fx,
         NEW rc, NEW po, NEW buf, NEW k,
           k = Op(st, op, pn, ix, ax, np, nv, ni, nr, lp, li, fx, rc, po, buf),
             OnLeaf(fx, rc, buf, pn, np)
  PROVE  Ready(k)
  BY Zenon DEF Ready

\* A call at its end, by its parts.
LEMMA EndedOf ==
  ASSUME NEW st, NEW op, NEW pn, NEW ix, NEW ax, NEW np, NEW nv, NEW ni, NEW nr, NEW lp, NEW li, NEW fx,
         NEW rc, NEW po, NEW buf, NEW k,
           k = Op(st, op, pn, ix, ax, np, nv, ni, nr, lp, li, fx, rc, po, buf), OffLeaf(fx, rc, np)
  PROVE  Ended(k)
  BY Zenon DEF Ended

\* What is known of the one,
LEMMA ReadyHas ==
  ASSUME NEW k, Ready(k)
  PROVE  k.row.pageNum \in Stay /\ k.row.nextpageNum \in Stay /\ k.fixed = {0} /\ k.rc = "" /\ k.buf = 0
<1>1. PICK st, op, pn, ix, ax, np, nv, ni, nr, lp, li, fx, rc, po,
        buf : k = Op(st, op, pn, ix, ax, np, nv, ni, nr, lp, li, fx, rc, po, buf)
          /\ OnLeaf(fx, rc, buf, pn, np)
  BY DEF Ready
<1>2. k.row.pageNum = pn /\ k.row.nextpageNum = np /\ k.fixed = fx /\ k.rc = rc /\ k.buf = buf
  BY <1>1, OpHas
<1>3. QED
  BY <1>1, <1>2 DEF OnLeaf

\* and of the other.
LEMMA EndedHas ==
  ASSUME NEW k, Ended(k)
  PROVE  IsRow(k.row) /\ k.row.nextpageNum \in Stay /\ k.fixed = {} /\ k.rc = ""
<1>1. PICK st, op, pn, ix, ax, np, nv, ni, nr, lp, li, fx, rc, po,
        buf : k = Op(st, op, pn, ix, ax, np, nv, ni, nr, lp, li, fx, rc, po, buf) /\ OffLeaf(fx, rc, np)
  BY DEF Ended
<1>2. IsRow(k.row) /\ k.row.nextpageNum = np /\ k.fixed = fx /\ k.rc = rc
  BY <1>1, OpHas
<1>3. QED
  BY <1>1, <1>2 DEF OffLeaf

\* What is set in the row leaves the leaf fixed.
LEMMA ReadySets ==
  ASSUME NEW k, Ready(k), NEW e
  PROVE  /\ Ready(SetStatus(k, e)) /\ Ready(SetHead(k, e)) /\ Ready(SetLastPage(k, e))
            /\ Ready(SetLastIndex(k, e))
         /\ e \in Stay => Ready(SetPlace(k, e))
<1>1. PICK st, op, pn, ix, ax, np, nv, ni, nr, lp, li, fx, rc, po,
        buf : k = Op(st, op, pn, ix, ax, np, nv, ni, nr, lp, li, fx, rc, po, buf)
          /\ OnLeaf(fx, rc, buf, pn, np)
  BY DEF Ready
<1>2. Ready(SetStatus(k, e))
  <2> DEFINE j == SetStatus(k, e)
  <2>1. j = Op(e, op, pn, ix, ax, np, nv, ni, nr, lp, li, fx, rc, po, buf)
    BY <1>1, OpStatus
  <2> HIDE DEF j
  <2>2. Ready(j)
    BY <1>1, <2>1, ReadyOf
  <2>3. QED
    BY <2>2 DEF j
<1>3. Ready(SetHead(k, e))
  <2> DEFINE j == SetHead(k, e)
  <2>1. j = Op(st, op, pn, ix, ax, np, nv, ni, e, lp, li, fx, rc, po, buf)
    BY <1>1, OpHead
  <2> HIDE DEF j
  <2>2. Ready(j)
    BY <1>1, <2>1, ReadyOf
  <2>3. QED
    BY <2>2 DEF j
<1>4. Ready(SetLastPage(k, e))
  <2> DEFINE j == SetLastPage(k, e)
  <2>1. j = Op(st, op, pn, ix, ax, np, nv, ni, nr, e, li, fx, rc, po, buf)
    BY <1>1, OpLastPage
  <2> HIDE DEF j
  <2>2. Ready(j)
    BY <1>1, <2>1, ReadyOf
  <2>3. QED
    BY <2>2 DEF j
<1>5. Ready(SetLastIndex(k, e))
  <2> DEFINE j == SetLastIndex(k, e)
  <2>1. j = Op(st, op, pn, ix, ax, np, nv, ni, nr, lp, e, fx, rc, po, buf)
    BY <1>1, OpLastIndex
  <2> HIDE DEF j
  <2>2. Ready(j)
    BY <1>1, <2>1, ReadyOf
  <2>3. QED
    BY <2>2 DEF j
<1>6. e \in Stay => Ready(SetPlace(k, e))
  <2> DEFINE j == SetPlace(k, e)
  <2>1. j = Op(st, op, e, ix, ax, np, nv, ni, nr, lp, li, fx, rc, po, buf)
    BY <1>1, OpPlace
  <2> HIDE DEF j
  <2>2. e \in Stay => OnLeaf(fx, rc, buf, e, np)
    BY <1>1 DEF OnLeaf
  <2>4. e \in Stay => Ready(j)
    BY <2>1, <2>2, ReadyOf
  <2>3. QED
    BY <2>4 DEF j
<1>7. QED
  BY <1>2, <1>3, <1>4, <1>5, <1>6

\* So when the row goes to the leaf, or nowhere.
LEMMA ReadyGoes ==
  ASSUME NEW k, Ready(k), NEW p \in Stay, NEW i, NEW h
  PROVE  Ready(SetHead(Goes(k, p, i), h))
<1>1. PICK st, op, pn, ix, ax, np, nv, ni, nr, lp, li, fx, rc, po,
        buf : k = Op(st, op, pn, ix, ax, np, nv, ni, nr, lp, li, fx, rc, po, buf)
          /\ OnLeaf(fx, rc, buf, pn, np)
  BY DEF Ready
<1> DEFINE j == Goes(k, p, i)
<1>2. j = Op(st, op, pn, ix, i, p, nv, i, nr, lp, li, fx, rc, po, buf)
  BY <1>1, OpGoes
<1> HIDE DEF j
<1>6. OnLeaf(fx, rc, buf, pn, p)
  BY <1>1 DEF OnLeaf
<1>3. Ready(j)
  BY <1>2, <1>6, ReadyOf
<1>4. Ready(SetHead(j, h))
  BY <1>3, ReadySets
<1>5. QED
  BY <1>4 DEF j

\* The steps of opening, on one leaf.
LEMMA LastForm ==
  ASSUME NEW k, NEW n
  PROVE  [k EXCEPT !.row.lastpageNum = k.row.pageNum,
          !.row.lastIndex = n] = SetLastIndex(SetLastPage(k, k.row.pageNum), n)
  BY Zenon DEF SetLastIndex, SetLastPage

\* Starting from the place of the value,
LEMMA HereForm ==
  ASSUME NEW k, NEW i
  PROVE  FromHere(k, i) = SetHead(Goes(k, k.row.pageNum, i), KeyHead(k.buf, i))
  BY DEF FromHere, SetHead, Goes

\* and from the leftmost leaf, the one that the search ended at.
LEMMA LeftForm ==
  ASSUME NEW k
  PROVE  FromLeft(k, 0, 0) = SetHead(Goes(k, 0, 1), KeyHead(k.buf, 1))
  BY DEF FromLeft, SetHead, Goes

\* A row is positioned without another page being touched.
LEMMA HereReady ==
  ASSUME NEW k, Ready(k), NEW i
  PROVE  Ready(FromHere(k, i))
<1> DEFINE h == KeyHead(k.buf, i)
           p == k.row.pageNum
<1>1. FromHere(k, i) = SetHead(Goes(k, p, i), h)
  BY HereForm
<1>2. p \in Stay
  BY ReadyHas
<1> HIDE DEF h, p
<1>3. Ready(SetHead(Goes(k, p, i), h))
  BY <1>2, ReadyGoes
<1>4. QED
  BY <1>1, <1>3

\* So from the leftmost leaf,
LEMMA LeftStays ==
  ASSUME NEW k, Ready(k)
  PROVE  Ready(FromLeft(k, 0, 0))
<1> DEFINE h == KeyHead(k.buf, 1)
           p == 0
           i == 1
<1>1. FromLeft(k, 0, 0) = SetHead(Goes(k, p, i), h)
  BY LeftForm
<1>2. p \in Stay
  BY DEF Stay
<1> HIDE DEF h, p, i
<1>3. Ready(SetHead(Goes(k, p, i), h))
  BY <1>2, ReadyGoes
<1>4. QED
  BY <1>1, <1>3

\* but not if the error that PF answered is taken for its number.
LEMMA LeftRefused ==
  ASSUME NEW k, Ready(k), AME_PF \notin DOMAIN page, AME_PF # 0
  PROVE  FromLeft(k, 0, AME_PF).rc # ""
<1>1. PICK st, op, pn, ix, ax, np, nv, ni, nr, lp, li, fx, rc, po,
        buf : k = Op(st, op, pn, ix, ax, np, nv, ni, nr, lp, li, fx, rc, po, buf)
  BY DEF Ready
<1> DEFINE left == AME_PF
           i == 1
           a == Goes(k, left, i)
           g == PF_GetThisPage(a, left)
           e == "AME_PF"
<1>2. a = Op(st, op, pn, ix, i, left, nv, i, nr, lp, li, fx, rc, po, buf)
  <2> HIDE DEF left, i
  <2> QED
    BY <1>1, OpGoes
<1>3. g.rc # "" => FromLeft(k, 0, left) = g
  BY DEF FromLeft, Then, Goes
<1>4. left \notin DOMAIN page
  OBVIOUS
<1> HIDE DEF left, i, a, g
<1>5. g = PF_GetThisPage(a, left)
  BY DEF g
<1> DEFINE y == fx \cup {left}
<1>6. g = Op(st, op, pn, ix, i, left, nv, i, nr, lp, li, fx, e, po, buf)
  <2>1. \/ g = Op(st, op, pn, ix, i, left, nv, i, nr, lp, li, fx, e, po, buf)
        \/ /\ left \in DOMAIN page /\ left \notin fx
           /\ g = Op(st, op, pn, ix, i, left, nv, i, nr, lp, li, y, rc, po, buf)
    BY ONLY <1>2, <1>5, OpGets
  <2> HIDE DEF y, e
  <2>2. QED
    BY <1>4, <2>1
<1>7. g.rc = e
  <2> HIDE DEF e
  <2> QED
    BY <1>6, OpHas
<1>8. QED
  BY <1>3, <1>7 DEF left

\* The two together.
LEMMA LeftReady ==
  ASSUME NEW k, Ready(k), AME_PF \notin DOMAIN page, NEW left \in {0, AME_PF}
  PROVE  Onward(FromLeft(k, 0, left))
<1>1. AME_PF # 0
  BY DEF AME_PF
<1>2. QED
  BY <1>1, LeftStays, LeftRefused DEF Onward

\* The place where < and <= end is set.
LEMMA LastReady ==
  ASSUME NEW k, Ready(k), NEW n
  PROVE  Ready([k EXCEPT !.row.lastpageNum = k.row.pageNum, !.row.lastIndex = n])
<1> DEFINE p == k.row.pageNum
           j == SetLastPage(k, p)
<1>1. Ready(j)
  <2> HIDE DEF p
  <2> QED
    BY ReadySets
<1> HIDE DEF j
<1>2. Ready(SetLastIndex(j, n))
  BY <1>1, ReadySets
<1>3. [k EXCEPT !.row.lastpageNum = k.row.pageNum, !.row.lastIndex = n] = SetLastIndex(j, n)
  BY LastForm DEF j
<1>4. QED
  BY <1>2, <1>3
LastAt(k, n) == [k EXCEPT !.row.lastpageNum = k.row.pageNum, !.row.lastIndex = n]

\* What Position does, on one leaf.
LEMMA PositionForm ==
  ASSUME NEW k, NEW found \in BOOLEAN, page[k.buf].nextLeafPage = AM_NULL_PAGE, NEW o, o = k.row.op,
         NEW i, i = k.row.index, NEW left,
         o \in {"EQUAL", "LESS_THAN", "GREATER_THAN", "LESS_THAN_EQUAL", "GREATER_THAN_EQUAL",
                "NOT_EQUAL"}
  PROVE  \/ Position(k, 0, found, left) = FromHere(LastAt(k, i), i)
         \/ Position(k, 0, found, left) = SetStatus(k, "OVER")
         \/ Position(k, 0, found, left) = FromLeft(LastAt(k, i - 1), 0, left)
         \/ Position(k, 0, found, left) = FromLeft(LastAt(k, i), 0, left)
         \/ Position(k, 0, found, left) = FromHere(k, i)
         \/ Position(k, 0, found, left) = FromHere(k, i + 1)
         \/ Position(k, 0, found, left) = FromLeft(k, 0, left)
         \/ Position(k, 0, found, left) = SetPlace(k, AM_NULL_PAGE)
<1>1. CASE o = "EQUAL"
  BY <1>1, Zenon DEF Position, LastAt, SetStatus
<1>2. CASE o = "LESS_THAN"
  BY <1>2, Zenon DEF Position, LastAt
<1>3. CASE o = "LESS_THAN_EQUAL"
  BY <1>3, Zenon DEF Position, LastAt
<1>4. CASE o = "GREATER_THAN_EQUAL" \/ (o = "GREATER_THAN" /\ ~ found)
  BY <1>4 DEF Position
<1>5. CASE o = "GREATER_THAN" /\ found
  BY <1>5 DEF Position, SetStatus
<1>6. CASE o = "NOT_EQUAL"
  BY <1>6 DEF Position, SetPlace
<1>7. QED
  BY <1>1, <1>2, <1>3, <1>4, <1>5, <1>6

\* An operator that is none ends the call, and gives its row back.
LEMMA PositionNone ==
  ASSUME NEW k, k.row.op = "INVALID", NEW p, NEW found, NEW left
  PROVE  Position(k, p, found, left) = SetAnswer(SetStatus(k, "FREE"), "AME_INVALID_OP_TO_SCAN")
<1>1. Position(k, p, found, left) = [k EXCEPT !.row.status = "FREE", !.rc = "AME_INVALID_OP_TO_SCAN"]
  BY DEF Position
<1>2. QED
  BY <1>1, Zenon DEF SetAnswer, SetStatus

Operators == {"ALL", "EQUAL", "LESS_THAN", "GREATER_THAN", "LESS_THAN_EQUAL", "GREATER_THAN_EQUAL",
              "NOT_EQUAL", "INVALID"}

\* Position keeps the leaf fixed or answers the call, for every operator.
LEMMA PositionReady ==
  ASSUME NEW k, Ready(k), NEW found \in BOOLEAN, page[0].nextLeafPage = AM_NULL_PAGE,
         AME_PF \notin DOMAIN page, NEW left \in {0, AME_PF}, k.row.op \in Operators \ {"ALL"}
  PROVE  Onward(Position(k, 0, found, left))
<1> DEFINE o == k.row.op
           i == k.row.index
           j == Position(k, 0, found, left)
           a == LastAt(k, i)
           n == i - 1
           b == LastAt(k, n)
           x == i + 1
           e == "OVER"
           c == AM_NULL_PAGE
<1>1. k.buf = 0
  BY ReadyHas
<1>2. o \in {"EQUAL", "LESS_THAN", "GREATER_THAN", "LESS_THAN_EQUAL", "GREATER_THAN_EQUAL", "NOT_EQUAL"}
        \/ o = "INVALID"
  BY DEF Operators
<1>11. CASE o = "INVALID"
  <2> DEFINE v == "AME_INVALID_OP_TO_SCAN"
             w == "FREE"
             y == SetStatus(k, w)
             z == SetAnswer(y, v)
  <2>1. j = z
    BY <1>11, PositionNone
  <2>2. v # ""
    OBVIOUS
  <2> HIDE DEF v, w, y, z, j
  <2>3. Ready(y)
    BY ReadySets DEF y
  <2>4. PICK st, op, pn, ix, ax, np, nv, ni, nr, lp, li, fx, rc, po,
          buf : y = Op(st, op, pn, ix, ax, np, nv, ni, nr, lp, li, fx, rc, po, buf)
    BY <2>3 DEF Ready
  <2>5. z = Op(st, op, pn, ix, ax, np, nv, ni, nr, lp, li, fx, v, po, buf)
    BY <2>4, OpAnswer DEF z
  <2>6. z.rc = v
    BY <2>5, OpHas
  <2>7. QED
    BY <2>1, <2>2, <2>6 DEF Onward, j
<1>12. CASE o # "INVALID"
  <2>1. \/ j = FromHere(a, i) \/ j = SetStatus(k, e) \/ j = FromLeft(b, 0, left)
        \/ j = FromLeft(a, 0, left) \/ j = FromHere(k, i) \/ j = FromHere(k, x)
        \/ j = FromLeft(k, 0, left) \/ j = SetPlace(k, c)
    BY <1>1, <1>2, <1>12, PositionForm
  <2>2. c \in Stay
    BY DEF Stay
  <2> HIDE DEF o, i, j, n, x, e, c
  <2>3. Ready(a) /\ Ready(b)
    BY LastReady DEF LastAt
  <2> HIDE DEF a, b
  <2>4. Ready(FromHere(a, i)) /\ Ready(FromHere(k, i)) /\ Ready(FromHere(k, x))
    BY <2>3, HereReady
  <2>5. Onward(FromLeft(b, 0, left)) /\ Onward(FromLeft(a, 0, left)) /\ Onward(FromLeft(k, 0, left))
    BY <2>3, LeftReady
  <2>6. Ready(SetStatus(k, e)) /\ Ready(SetPlace(k, c))
    BY <2>2, ReadySets
  <2>7. \A y : Ready(y) => Onward(y)
    BY DEF Onward
  <2>8. Onward(j)
    BY <2>1, <2>4, <2>5, <2>6, <2>7
  <2>9. QED
    BY <2>8 DEF j
<1>13. QED
  BY <1>11, <1>12

\* The leaf is unfixed at the end.
LEMMA ReadyEnds ==
  ASSUME NEW k, Ready(k)
  PROVE  Ended(PF_UnfixPage(k, 0))
<1>1. PICK st, op, pn, ix, ax, np, nv, ni, nr, lp, li, fx, rc, po,
        buf : k = Op(st, op, pn, ix, ax, np, nv, ni, nr, lp, li, fx, rc, po, buf)
          /\ OnLeaf(fx, rc, buf, pn, np)
  BY DEF Ready
<1> DEFINE j == PF_UnfixPage(k, 0)
           f == fx \ {0}
<1>2. 0 \in fx => j = Op(st, op, pn, ix, ax, np, nv, ni, nr, lp, li, f, rc, po, buf)
  <2> DEFINE p == 0
  <2>1. j = PF_UnfixPage(k, p)
    OBVIOUS
  <2> HIDE DEF p, j
  <2>2. p \in fx => j = Op(st, op, pn, ix, ax, np, nv, ni, nr, lp, li, fx \ {p}, rc, po, buf)
    BY <1>1, <2>1, OpUnfixes
  <2>3. QED
    BY <2>2 DEF p
<1>3. 0 \in fx /\ f = {} /\ OffLeaf(f, rc, np)
  BY <1>1 DEF OnLeaf, OffLeaf
<1> HIDE DEF f, j
<1>4. Ended(j)
  BY <1>2, <1>3, EndedOf
<1>5. QED
  BY <1>4 DEF j

\* A call that opens a scan begins, and finds its leaf.
Begun(row, fx, pool) == [row |-> [row EXCEPT !.status = "FIRST"], fixed |-> fx, rc |-> "",
                           pool |-> pool, buf |-> AM_RootPageNum]
Placed(k, p, op, i) ==
  [k EXCEPT !.fixed = @ \cup {p}, !.buf = p, !.row = [@ EXCEPT !.op = op, !.pageNum = p, !.index = i]]
AtStart(fx, rc, buf, np) == fx = {} /\ rc = "" /\ buf = 0 /\ np \in Stay
Start(k) == \E st, op, pn, ix, ax, np, nv, ni, nr, lp, li, fx, rc, po,
  buf : k = Op(st, op, pn, ix, ax, np, nv, ni, nr, lp, li, fx, rc, po, buf) /\ AtStart(fx, rc, buf, np)

\* A call that begins, by its parts.
LEMMA StartOf ==
  ASSUME NEW st, NEW op, NEW pn, NEW ix, NEW ax, NEW np, NEW nv, NEW ni, NEW nr, NEW lp, NEW li, NEW fx,
         NEW rc, NEW po, NEW buf, NEW k,
           k = Op(st, op, pn, ix, ax, np, nv, ni, nr, lp, li, fx, rc, po, buf), AtStart(fx, rc, buf, np)
  PROVE  Start(k)
  BY Zenon DEF Start

\* On one leaf with nothing fixed a call begins,
LEMMA BegunStarts ==
  ASSUME NEW row, IsRow(row), row.nextpageNum \in Stay, NEW pool
  PROVE  Start(Begun(row, {}, pool))
<1> DEFINE a == row.op
           b == row.pageNum
           c == row.index
           d == row.actindex
           e == row.nextpageNum
           f == row.nextvalue
           g == row.nextIndex
           h == row.nextRecIdPtr
           i == row.lastpageNum
           j == row.lastIndex
           s == row.status
           k == Begun(row, {}, pool)
<1>1. row = RowOf(s, a, b, c, d, e, f, g, h, i, j)
  BY DEF IsRow
<1>2. e \in Stay
  OBVIOUS
<1> HIDE DEF a, b, c, d, e, f, g, h, i, j, s
<1>3. [row EXCEPT !.status = "FIRST"] = RowOf("FIRST", a, b, c, d, e, f, g, h, i, j)
  BY <1>1 DEF RowOf
<1> DEFINE st == "FIRST"
           fx == {}
           rc == ""
           z == 0
<1>4. k = Op(st, a, b, c, d, e, f, g, h, i, j, fx, rc, pool, z)
  BY <1>3 DEF Begun, Op, Opens, AM_RootPageNum
<1>5. AtStart(fx, rc, z, e)
  BY <1>2 DEF AtStart
<1> HIDE DEF st, fx, rc, z, k
<1>6. Start(k)
  BY <1>4, <1>5, StartOf
<1>7. QED
  BY <1>6 DEF k, fx

\* and has the leaf fixed once the search is over.
LEMMA StartPlaced ==
  ASSUME NEW k, Start(k), NEW op, NEW i
  PROVE  Ready(Placed(k, 0, op, i)) /\ Placed(k, 0, op, i).row.op = op
<1>1. PICK st, o, pn, ix, ax, np, nv, ni, nr, lp, li, fx, rc, po, buf :
        /\ k = Op(st, o, pn, ix, ax, np, nv, ni, nr, lp, li, fx, rc, po, buf)
        /\ AtStart(fx, rc, buf, np)
  BY DEF Start
<1> DEFINE p == 0
           f == fx \cup {p}
           r == RowOf(st, o, pn, ix, ax, np, nv, ni, nr, lp, li)
           q == RowOf(st, op, p, i, ax, np, nv, ni, nr, lp, li)
           j == Placed(k, p, op, i)
<1>2. OnLeaf(f, rc, p, p, np)
  BY <1>1 DEF OnLeaf, AtStart, Stay
<1>3. k.row = r
  BY <1>1 DEF Op, Opens
<1>4. [r EXCEPT !.op = op, !.pageNum = p, !.index = i] = q
  <2> HIDE DEF p
  <2>1. [r EXCEPT !.op = op, !.pageNum = p,
         !.index = i] = [[[r EXCEPT !.op = op] EXCEPT !.pageNum = p] EXCEPT !.index = i]
    OBVIOUS
  <2>2. [r EXCEPT !.op = op] = RowOf(st, op, pn, ix, ax, np, nv, ni, nr, lp, li)
    BY DEF RowOf
  <2>3. [RowOf(st, op, pn, ix, ax, np, nv, ni, nr, lp, li) EXCEPT !.pageNum = p] = RowOf(st, op, p, ix,
                                                                                         ax, np, nv, ni, nr, lp, li)
    BY DEF RowOf
  <2>4. [RowOf(st, op, p, ix, ax, np, nv, ni, nr, lp, li) EXCEPT !.index = i] = q
    BY DEF RowOf
  <2>5. QED
    BY <2>1, <2>2, <2>3, <2>4, Zenon
<1>5. j = Op(st, op, p, i, ax, np, nv, ni, nr, lp, li, f, rc, po, p)
  <2>1. k.fixed = fx
    BY <1>1 DEF Op, Opens
  <2>2. j = [[[k EXCEPT !.fixed = f] EXCEPT !.buf = p] EXCEPT !.row = q]
    BY <1>3, <1>4, <2>1, Zenon DEF Placed
  <2>7. k = Opens(r, fx, rc, po, buf)
    BY <1>1 DEF Op
  <2> HIDE DEF f, p, q, r
  <2>3. [k EXCEPT !.fixed = f] = Opens(r, f, rc, po, buf)
    BY <2>7 DEF Opens
  <2>4. [Opens(r, f, rc, po, buf) EXCEPT !.buf = p] = Opens(r, f, rc, po, p)
    BY DEF Opens
  <2>5. [Opens(r, f, rc, po, p) EXCEPT !.row = q] = Opens(q, f, rc, po, p)
    BY DEF Opens
  <2>6. QED
    BY <2>2, <2>3, <2>4, <2>5, Zenon DEF Op, q
<1> HIDE DEF p, f, r, q, j
<1>6. Ready(j) /\ j.row.op = op
  BY <1>2, <1>5, ReadyOf, OpHas
<1>7. QED
  BY <1>6 DEF j, p

\* Opening a scan for all entries, on one leaf.
AllFrom(k, p) == [k EXCEPT !.row = At([@ EXCEPT !.op = "ALL"], p, 1)]

\* The form of OpenAll.
LEMMA AllForm ==
  ASSUME NEW k, NEW left, NEW a, a = AllFrom(k, left), NEW g, g = PF_GetThisPage(a, left)
  PROVE  OpenAll(k, left) = IF g.rc = "" THEN PF_UnfixPage(SetHead(g, KeyHead(left, 1)), left) ELSE g
  BY Zenon DEF OpenAll, Then, AllFrom, SetHead

\* The row of a scan of all entries.
LEMMA AllFromIs ==
  ASSUME NEW st, NEW op, NEW pn, NEW ix, NEW ax, NEW np, NEW nv, NEW ni, NEW nr, NEW lp, NEW li, NEW fx,
         NEW rc, NEW po, NEW buf, NEW k,
           k = Op(st, op, pn, ix, ax, np, nv, ni, nr, lp, li, fx, rc, po, buf), NEW p
  PROVE  AllFrom(k, p) = Op(st, "ALL", pn, ix, 1, p, nv, 1, nr, lp, li, fx, rc, po, buf)
<1> DEFINE r == RowOf(st, op, pn, ix, ax, np, nv, ni, nr, lp, li)
           q == RowOf(st, "ALL", pn, ix, ax, np, nv, ni, nr, lp, li)
           t == RowOf(st, "ALL", pn, ix, 1, p, nv, 1, nr, lp, li)
<1>1. k.row = r /\ k = Opens(r, fx, rc, po, buf)
  BY OpHas DEF Op
<1>2. [r EXCEPT !.op = "ALL"] = q
  BY DEF RowOf
<1>3. At(q, p, 1) = t
  <2> DEFINE a == "ALL"
             i == 1
  <2>1. q = RowOf(st, a, pn, ix, ax, np, nv, ni, nr, lp, li)
          /\ t = RowOf(st, a, pn, ix, i, p, nv, i, nr, lp, li)
    OBVIOUS
  <2> HIDE DEF a, i, q, t
  <2>2. At(q, p, i) = t
    BY <2>1, RowGoesTo
  <2>3. QED
    BY <2>2 DEF i
<1>4. AllFrom(k, p) = [k EXCEPT !.row = t]
  BY <1>1, <1>2, <1>3, Zenon DEF AllFrom
<1> HIDE DEF r, q, t
<1>5. [k EXCEPT !.row = t] = Opens(t, fx, rc, po, buf)
  BY <1>1 DEF Opens
<1>6. QED
  BY <1>4, <1>5 DEF t, Op

\* The call ends with nothing fixed, or fails.
LEMMA AllEnds ==
  ASSUME NEW k, Start(k), AME_PF \notin DOMAIN page, NEW left \in {0, AME_PF}
  PROVE  RestsAtEnd(OpenAll(k, left))
<1>1. PICK st, op, pn, ix, ax, np, nv, ni, nr, lp, li, fx, rc, po,
        buf : k = Op(st, op, pn, ix, ax, np, nv, ni, nr, lp, li, fx, rc, po, buf)
          /\ AtStart(fx, rc, buf, np)
  BY DEF Start
<1> DEFINE p == left
           i == 1
           e == "ALL"
           v == "AME_PF"
           a == AllFrom(k, p)
           g == PF_GetThisPage(a, p)
           f == fx \cup {p}
           h == KeyHead(p, i)
           s == SetHead(g, h)
           u == PF_UnfixPage(s, p)
           x == f \ {p}
           j == OpenAll(k, left)
<1>2. j = IF g.rc = "" THEN u ELSE g
  BY AllForm
<1>3. p \in f
  OBVIOUS
<1>4. p \in DOMAIN page => OffLeaf(x, rc, p)
  BY <1>1 DEF AtStart, OffLeaf, Stay
<1>5. v # ""
  OBVIOUS
<1>6. a = Op(st, e, pn, ix, i, p, nv, i, nr, lp, li, fx, rc, po, buf)
  <2> HIDE DEF a, p
  <2>1. AllFrom(k, p) = Op(st, "ALL", pn, ix, 1, p, nv, 1, nr, lp, li, fx, rc, po, buf)
    BY <1>1, AllFromIs
  <2>2. QED
    BY <2>1 DEF a
<1> HIDE DEF p, i, e, a, h, j
<1>7. \/ g = Op(st, e, pn, ix, i, p, nv, i, nr, lp, li, fx, v, po, buf)
      \/ p \in DOMAIN page /\ g = Op(st, e, pn, ix, i, p, nv, i, nr, lp, li, f, rc, po, buf)
  BY <1>6, OpGets
<1> HIDE DEF f, g, v
<1>8. CASE g = Op(st, e, pn, ix, i, p, nv, i, nr, lp, li, fx, v, po, buf)
  <2>1. g.rc = v
    BY <1>8, OpHas
  <2>2. QED
    BY <1>2, <1>5, <2>1 DEF RestsAtEnd, j
<1>9. CASE p \in DOMAIN page /\ g = Op(st, e, pn, ix, i, p, nv, i, nr, lp, li, f, rc, po, buf)
  <2>6. g = Op(st, e, pn, ix, i, p, nv, i, nr, lp, li, f, rc, po, buf)
    BY <1>9
  <2>7. g.rc = rc
    BY <2>6, OpHas
  <2>1. g.rc = rc /\ rc = ""
    BY <1>1, <2>7 DEF AtStart
  <2>2. s = Op(st, e, pn, ix, i, p, nv, i, h, lp, li, f, rc, po, buf)
    BY <1>9, OpHead
  <2> HIDE DEF s
  <2>3. u = Op(st, e, pn, ix, i, p, nv, i, h, lp, li, x, rc, po, buf)
    BY <2>2, <1>3, OpUnfixes
  <2> HIDE DEF x, u
  <2>4. Ended(u)
    BY <2>3, <1>4, <1>9, EndedOf
  <2>5. QED
    BY <1>2, <2>1, <2>4 DEF RestsAtEnd, j
<1>10. QED
  BY <1>7, <1>8, <1>9

\* What AM_OpenIndexScan does, apart from what it tells.
OpenedAt(b, p, found, left) ==
  IF b.rc # "" THEN b
  ELSE IF Position(b, p, found, left).rc # "" THEN Position(b, p, found, left)
  ELSE PF_UnfixPage(Position(b, p, found, left), p)
Leftmost(pool) ==
  IF AM_RootPageNum \in fixed \/ pool[AM_RootPageNum] = "refused" THEN AME_PF ELSE GetLeftPageNum
TellsFailed(t) == [t EXCEPT !.failed = TRUE]
TellsOpen(t, due, sure, refused) ==
  [t EXCEPT !.open = TRUE, !.due = due, !.sure = sure, !.refused = refused]
OpenEffect(s, op, value, at, d) ==
  /\ page' = page /\ acked' = acked
  /\ \/ fixed' = fixed /\ scan' = scan /\ told' = told
     \/ /\ fixed' = d.fixed /\ scan' = [scan EXCEPT ![s] = d.row]
        /\ told' = [told EXCEPT ![s] = IF d.rc # "" THEN TellsFailed(told[s])
                                       ELSE TellsOpen(told[s], Due(op, value), Sure(op, at), fixed # {})]

\* It does that after a search.
OpenBy(s, op, value, pool, sr) ==
  LET k == [row |-> [scan[s] EXCEPT !.status = "FIRST"], fixed |-> fixed, rc |-> "",
            pool |-> pool, buf |-> AM_RootPageNum]
      left == IF AM_RootPageNum \in fixed \/ pool[AM_RootPageNum] = "refused" THEN AME_PF
              ELSE GetLeftPageNum
      p == sr.pageNum
      at == AM_SearchLeaf(page[p], value)
      placed == [k EXCEPT !.fixed = @ \cup {p}, !.buf = p,
                          !.row = [@ EXCEPT !.op = op, !.pageNum = p, !.index = at.index]]
      beyond == IF at.index > page[p].numKeys THEN Beyond(placed, p) ELSE placed
      done == IF op = "ALL" THEN OpenAll(k, left)
              ELSE Then(Then(beyond, LAMBDA b : Position(b, p, at.found, left)),
                        LAMBDA r : PF_UnfixPage(r, p))
  IN  /\ page' = page /\ acked' = acked
      /\ IF op # "ALL" /\ sr.rc # "AME_OK"
         THEN UNCHANGED <<fixed, scan, told>>
         ELSE /\ fixed' = done.fixed
              /\ scan' = [scan EXCEPT ![s] = done.row]
              /\ told' = IF done.rc # "" THEN [told EXCEPT ![s].failed = TRUE]
                         ELSE [told EXCEPT ![s] = [@ EXCEPT !.open = TRUE, !.due = Due(op, value),
                                                            !.sure = Sure(op, at),
                                                            !.refused = fixed # {}]]
      /\ stack' = IF op = "ALL" THEN stack ELSE Pushed(sr)

\* With such a search,
LEMMA OpenSearches ==
  ASSUME NEW s, NEW op, NEW value, NEW pool, AM_OpenIndexScan(s, op, value, pool)
  PROVE  \E sr \in Searches(value) : OpenBy(s, op, value, pool, sr)
  BY DEF AM_OpenIndexScan, OpenBy

\* It does what was just said, or nothing but leave a way on the stack.
LEMMA OpenDoes ==
  ASSUME NEW s, NEW op, NEW value, NEW pool, NEW sr, OpenBy(s, op, value, pool, sr),
         NEW p, p = sr.pageNum, NEW at, at = AM_SearchLeaf(page[p], value),
         NEW k, k = Begun(scan[s], fixed, pool), NEW l, l = Placed(k, p, op, at.index),
         NEW b, b = (IF at.index > page[p].numKeys THEN Beyond(l, p) ELSE l),
         NEW left, left = Leftmost(pool),
         NEW d, d = (IF op = "ALL" THEN OpenAll(k, left) ELSE OpenedAt(b, p, at.found, left))
  PROVE  OpenEffect(s, op, value, at, d)
<1> DEFINE Refusal == op # "ALL" /\ sr.rc # "AME_OK"
           refused == fixed # {}
           due == Due(op, value)
           sure == Sure(op, at)
           t == IF d.rc # "" THEN [told EXCEPT ![s].failed = TRUE]
                ELSE [told EXCEPT ![s] = [@ EXCEPT !.open = TRUE, !.due = Due(op, value),
                                          !.sure = Sure(op, at), !.refused = fixed # {}]]
<1>1. page' = page /\ acked' = acked
  BY DEF OpenBy
<1>2. Refusal => fixed' = fixed /\ scan' = scan /\ told' = told
  BY DEF OpenBy
<1> DEFINE k0 == [row |-> [scan[s] EXCEPT !.status = "FIRST"], fixed |-> fixed, rc |-> "",
                  pool |-> pool,
                  buf |-> AM_RootPageNum]
           left0 == IF AM_RootPageNum \in fixed \/ pool[AM_RootPageNum] = "refused" THEN AME_PF
                    ELSE GetLeftPageNum
           p0 == sr.pageNum
           at0 == AM_SearchLeaf(page[p0], value)
           l0 == [k0 EXCEPT !.fixed = @ \cup {p0}, !.buf = p0,
                            !.row = [@ EXCEPT !.op = op, !.pageNum = p0, !.index = at0.index]]
           b0 == IF at0.index > page[p0].numKeys THEN Beyond(l0, p0) ELSE l0
           d0 == IF op = "ALL" THEN OpenAll(k0, left0)
                 ELSE Then(Then(b0, LAMBDA c : Position(c, p0, at0.found, left0)),
                           LAMBDA r : PF_UnfixPage(r, p0))
           t0 == IF d0.rc # "" THEN [told EXCEPT ![s].failed = TRUE]
                 ELSE [told EXCEPT ![s] = [@ EXCEPT !.open = TRUE, !.due = Due(op, value),
                                           !.sure = Sure(op, at0), !.refused = fixed # {}]]
<1>3. p0 = p /\ at0 = at /\ k0 = k /\ left0 = left
  BY DEF Begun, Leftmost
<1>4. l0 = l
  BY <1>3, Zenon DEF Placed
<1>5. b0 = b
  BY <1>3, <1>4, Zenon
<1>6. d0 = d
  <2> HIDE DEF b0, k0, p0, at0, left0
  <2>1. d0 = IF op = "ALL" THEN OpenAll(k0, left0) ELSE OpenedAt(b0, p0, at0.found, left0)
    BY DEF Then, OpenedAt
  <2>2. QED
    BY <1>3, <1>5, <2>1, Zenon
<1>7. t0 = t
  BY <1>3, <1>6, Zenon
<1>8. ~ Refusal => fixed' = d0.fixed /\ scan' = [scan EXCEPT ![s] = d0.row] /\ told' = t0
  BY <1>3, Zenon DEF OpenBy
<1>9. ~ Refusal => fixed' = d.fixed /\ scan' = [scan EXCEPT ![s] = d.row] /\ told' = t
  BY <1>6, <1>7, <1>8, Zenon
<1>10. t = [told EXCEPT ![s] = IF d.rc # "" THEN TellsFailed(told[s])
                               ELSE TellsOpen(told[s], due, sure, refused)]
  <2>1. d.rc # "" => t = [told EXCEPT ![s] = TellsFailed(told[s])]
    BY Zenon DEF TellsFailed
  <2>2. d.rc = "" => t = [told EXCEPT ![s] = TellsOpen(told[s], due, sure, refused)]
    BY Zenon DEF TellsOpen
  <2> HIDE DEF t, due, sure, refused
  <2>3. QED
    BY <2>1, <2>2, Zenon
<1>11. QED
  BY <1>1, <1>2, <1>9, <1>10, Zenon DEF OpenEffect

\* An index whose root is a leaf is that leaf.
Single(value, s, at) ==
  /\ s.pageNum = 0 /\ at.found \in BOOLEAN
  /\ at.found => \A r \in RecIds : RecCount(RecsAt(page[0], at.index), r) = acked[value][r]
  /\ ~ at.found => \A r \in RecIds : acked[value][r] = 0

\* No leaf is behind it, and it is page 0.
LEMMA OneLeafIs ==
  ASSUME TreeInv, IsLeaf(AM_RootPageNum)
  PROVE  /\ page[0].nextLeafPage = AM_NULL_PAGE /\ DOMAIN page = {0} /\ GetLeftPageNum = 0 /\ OneLeaf
         /\ NumPages = 1
<1>1. PICK m, E, rk : Tree(page, m, E, E, rk, acked, -1, 0) /\ Linked(page, m, E)
  BY DEF TreeInv, HoldsAcked
<1>2. DOMAIN page = 0 .. m - 1 /\ m \in Nat \ {0} /\ NumPages = m
  BY <1>1, TreePages DEF NumPages
<1>3. page[0].type = "l" /\ 0 \in 0 .. m - 1
  BY <1>2 DEF IsLeaf, AM_RootPageNum
<1>4. m = 1
  BY <1>1, <1>3 DEF Linked, FirstOK
<1>5. DOMAIN page = {0}
  BY <1>2, <1>4
<1>6. LinkOK(page[0].nextLeafPage, E[0], page, E, m)
  BY <1>1, <1>3 DEF Linked
<1> DEFINE n == page[0].nextLeafPage
           S == E[0]
<1>7. Run(S) /\ (n = AM_NULL_PAGE \/ (n \in 0 .. m - 1 /\ Above(S) = From(E[n])))
  BY <1>6 DEF LinkOK
<1>8. n \in 0 .. m - 1 => n = 0
  BY <1>4
<1>9. Above(S) # From(S)
  <2> HIDE DEF S
  <2>1. PICK v : v \in S /\ v \in Values
    BY <1>7 DEF Run
  <2>2. v \in Int
    BY <2>1, ValueOrder
  <2>3. v \in From(S)
    BY <2>1, <2>2 DEF From
  <2>4. v \notin Above(S)
    BY <2>1, <2>2 DEF Above
  <2>5. QED
    BY <2>3, <2>4
<1>10. n = AM_NULL_PAGE
  BY <1>7, <1>8, <1>9
<1>11. GetLeftPageNum = 0
  BY DEF GetLeftPageNum, AM_RootPageNum
<1>12. QED
  BY <1>2, <1>4, <1>5, <1>10, <1>11 DEF OneLeaf

\* A search in it ends there, and finds what was acknowledged.
LEMMA SearchSingle ==
  ASSUME TreeInv, IsLeaf(AM_RootPageNum), NEW value \in Values, NEW s \in Searches(value),
         NEW at, at = AM_SearchLeaf(page[s.pageNum], value)
  PROVE  Single(value, s, at)
<1>0. DOMAIN page = {0}
  BY OneLeafIs
<1>1. PICK m, E, rk : Tree(page, m, E, E, rk, acked, -1, 0) /\ Linked(page, m, E)
  BY DEF TreeInv, HoldsAcked
<1>2. DOMAIN page = 0 .. m - 1 /\ m \in Nat \ {0} /\ E[0] = Values
  BY <1>1, TreePages DEF Tree
<1>3. SearchOK(s, m, E, value)
  BY <1>1, SearchesDown
<1>4. s.pageNum = 0
  BY <1>0, <1>2, <1>3 DEF SearchOK, Answers
<1>5. page[0].type = "l" /\ 0 \in 0 .. m - 1
  BY <1>2 DEF IsLeaf, AM_RootPageNum
<1>7. LeafOK(page[0], On(acked, E[0]))
  BY <1>1, <1>5, TreeLeaf
<1>8. acked \in Counts
  BY DEF TreeInv
<1> DEFINE N == On(acked, Values)
           l == page[0]
<1>9. N[value] = acked[value]
  BY <1>8, OnIs
<1>10. LeafOK(l, N) /\ at = AM_SearchLeaf(l, value)
  BY <1>2, <1>4, <1>7
<1> HIDE DEF N, l
<1>11. SearchFacts(l, N, value, at)
  BY <1>10, SearchIs
<1>12. at.found \in BOOLEAN
  BY <1>11 DEF SearchFacts, Spot
<1>13. QED
  BY <1>4, <1>9, <1>11, <1>12 DEF SearchFacts, Single, l

\* Nothing stays fixed when a scan of it is opened.
LEMMA OpenEnds ==
  ASSUME TreeInv, IsLeaf(AM_RootPageNum), fixed = {}, NEW row, IsRow(row), row.nextpageNum \in Stay,
         NEW op \in Operators, NEW value \in Values, NEW pool,
         NEW sr \in Searches(value), NEW p, p = sr.pageNum, NEW at, at = AM_SearchLeaf(page[p], value),
         NEW k, k = Begun(row, fixed, pool), NEW l, l = Placed(k, p, op, at.index),
         NEW b, b = (IF at.index > page[p].numKeys THEN Beyond(l, p) ELSE l),
         NEW left, left = Leftmost(pool)
  PROVE  RestsAtEnd(IF op = "ALL" THEN OpenAll(k, left) ELSE OpenedAt(b, p, at.found, left))
<1>1. /\ page[0].nextLeafPage = AM_NULL_PAGE
      /\ AME_PF \notin DOMAIN page /\ left \in {0, AME_PF}
  BY OneLeafIs DEF Leftmost, AME_PF
<1>2. p = 0 /\ at.found \in BOOLEAN
  <2>1. Single(value, sr, at)
    BY SearchSingle
  <2>2. QED
    BY <2>1 DEF Single
<1>3. Start(k)
  BY BegunStarts
<1>4. RestsAtEnd(OpenAll(k, left))
  BY <1>1, <1>3, AllEnds
<1> DEFINE i == at.index
           found == at.found
<1>5. Ready(l) /\ l.row.op = op
  <2>1. l = Placed(k, 0, op, i)
    BY <1>2
  <2> HIDE DEF i
  <2>2. QED
    BY <1>3, <2>1, StartPlaced
<1>6. Ready(b) /\ b.row.op = op
  <2> DEFINE c == AM_NULL_PAGE
             j == SetPlace(l, c)
  <2>1. Beyond(l, p) = j
    BY <1>1, <1>2 DEF Beyond, SetPlace
  <2>2. c \in Stay
    BY DEF Stay
  <2>4. b = l \/ b = j
    BY <2>1
  <2> HIDE DEF c
  <2>3. Ready(j)
    BY <1>5, <2>2, ReadySets
  <2>5. j.row.op = op
    <3>1. PICK st, o, pn, ix, ax, np, nv, ni, nr, lp, li, fx, rc, po, buf :
            l = Op(st, o, pn, ix, ax, np, nv, ni, nr, lp, li, fx, rc, po, buf)
      BY <1>5 DEF Ready
    <3>2. l.row.op = o
      BY <3>1, OpHas
    <3>3. j = Op(st, o, c, ix, ax, np, nv, ni, nr, lp, li, fx, rc, po, buf)
      BY <3>1, OpPlace
    <3> HIDE DEF j
    <3>4. j.row.op = o
      BY <3>3, OpHas
    <3>5. QED
      BY <1>5, <3>2, <3>4
  <2>6. QED
    BY <1>5, <2>3, <2>4, <2>5
<1> DEFINE q == Position(b, 0, found, left)
<1>7. op # "ALL" => Onward(q)
  BY <1>1, <1>2, <1>6, PositionReady
<1>8. op # "ALL" => q.rc # "" \/ (q.rc = "" /\ Ended(PF_UnfixPage(q, 0)))
  <2> HIDE DEF q
  <2>1. Ready(q) => Ended(PF_UnfixPage(q, 0))
    BY ReadyEnds
  <2>2. QED
    BY <1>7, <2>1 DEF Onward
<1>9. b.rc = ""
  BY <1>6, ReadyHas
<1>10. op # "ALL" => RestsAtEnd(OpenedAt(b, p, found, left))
  <2>1. OpenedAt(b, 0, found, left) = IF q.rc # "" THEN q ELSE PF_UnfixPage(q, 0)
    BY <1>9 DEF OpenedAt
  <2> HIDE DEF q
  <2>2. QED
    BY <1>2, <1>8, <2>1 DEF RestsAtEnd
<1>11. QED
  BY <1>4, <1>10

-----------------------------------------------------------------------------
(* The inductive invariant. *)

\* What callers are told has its parts, and as long as none was answered AME_PF and the
\* index is one leaf, nothing is fixed and every row is at that leaf, or nowhere.
IsTold(t) ==
  /\ t = [open |-> t.open, due |-> t.due, got |-> t.got, rc |-> t.rc, sure |-> t.sure,
          failed |-> t.failed, refused |-> t.refused]
  /\ t.failed \in BOOLEAN
NoneFailed(td) == \A s \in Scans : ~ td[s].failed
AtRest(sc, fx) == fx = {} /\ \A s \in Scans : IsRow(sc[s]) /\ sc[s].nextpageNum \in Stay
Tables(sc, td) ==
  /\ sc = [s \in Scans |-> sc[s]] /\ td = [s \in Scans |-> td[s]]
  /\ \A s \in Scans : IsTold(td[s])
Quiet == "absent" \notin Callers /\ MaxFixed = 0
IntactInv ==
  /\ TreeInv /\ Tables(scan, told)
  /\ Quiet /\ IsLeaf(AM_RootPageNum) /\ NoneFailed(told) => AtRest(scan, fixed)
\* Of an index that was damaged, nothing is claimed.
ScanInv == damaged \in BOOLEAN /\ (~ damaged => IntactInv)

\* At first the caller was told nothing,
LEMMA NothingIs == IsTold(NothingTold) /\ NothingTold.failed = FALSE
  BY DEF IsTold, NothingTold

\* and the rows are zeros.
LEMMA RowIs == IsRow(Row) /\ Row.nextpageNum \in Stay
  BY DEF IsRow, RowOf, Row, Stay

\* What a step tells a caller.
TellsEntry(t, rec) == [t EXCEPT !.got = Append(@, rec)]
TellsClosed(t) == [NothingTold EXCEPT !.failed = t.failed]

\* A step tells a caller AME_PF,
LEMMA TellsFailedIs ==
  ASSUME NEW t, IsTold(t)
  PROVE  IsTold(TellsFailed(t)) /\ TellsFailed(t).failed = TRUE
<1> DEFINE u == TellsFailed(t)
           e == TRUE
<1>1. u = [t EXCEPT !.failed = e]
  BY DEF TellsFailed
<1>2. e \in BOOLEAN /\ e = TRUE
  OBVIOUS
<1> HIDE DEF u, e
<1>3. u = [open |-> t.open, due |-> t.due, got |-> t.got, rc |-> t.rc, sure |-> t.sure, failed |-> e,
           refused |-> t.refused]
  BY <1>1 DEF IsTold
<1>4. IsTold(u) /\ u.failed = e
  BY <1>2, <1>3 DEF IsTold
<1>5. QED
  BY <1>2, <1>4 DEF u

\* that its scan is open,
LEMMA TellsOpenIs ==
  ASSUME NEW t, IsTold(t), NEW due, NEW sure, NEW refused
  PROVE  IsTold(TellsOpen(t, due, sure, refused)) /\ TellsOpen(t, due, sure, refused).failed = t.failed
<1> DEFINE u == TellsOpen(t, due, sure, refused)
           e == TRUE
           a == [t EXCEPT !.open = e]
           b == [a EXCEPT !.due = due]
           c == [b EXCEPT !.sure = sure]
<1>1. u = [c EXCEPT !.refused = refused]
  BY Zenon DEF TellsOpen
<1> HIDE DEF u, e
<1>2. a = [open |-> e, due |-> t.due, got |-> t.got, rc |-> t.rc, sure |-> t.sure, failed |-> t.failed,
           refused |-> t.refused]
  BY DEF IsTold
<1> HIDE DEF a
<1>3. b = [open |-> e, due |-> due, got |-> t.got, rc |-> t.rc, sure |-> t.sure, failed |-> t.failed,
           refused |-> t.refused]
  BY <1>2
<1> HIDE DEF b
<1>4. c = [open |-> e, due |-> due, got |-> t.got, rc |-> t.rc, sure |-> sure, failed |-> t.failed,
           refused |-> t.refused]
  BY <1>3
<1> HIDE DEF c
<1>5. u = [open |-> e, due |-> due, got |-> t.got, rc |-> t.rc, sure |-> sure, failed |-> t.failed,
           refused |-> refused]
  BY <1>1, <1>4
<1>6. IsTold(u) /\ u.failed = t.failed
  BY <1>5 DEF IsTold
<1>7. QED
  BY <1>6 DEF u

\* an entry,
LEMMA TellsEntryIs ==
  ASSUME NEW t, IsTold(t), NEW rec
  PROVE  IsTold(TellsEntry(t, rec)) /\ TellsEntry(t, rec).failed = t.failed
<1> DEFINE u == TellsEntry(t, rec)
           g == Append(t.got, rec)
<1>1. u = [t EXCEPT !.got = g]
  BY Zenon DEF TellsEntry
<1> HIDE DEF u, g
<1>2. u = [open |-> t.open, due |-> t.due, got |-> g, rc |-> t.rc, sure |-> t.sure, failed |-> t.failed,
           refused |-> t.refused]
  BY <1>1 DEF IsTold
<1>3. QED
  BY <1>2 DEF IsTold, u

\* the end,
LEMMA TellsEndIs ==
  ASSUME NEW t, IsTold(t), NEW rc, NEW refuses
  PROVE  /\ IsTold(TellsEnd(t, rc, refuses))
         /\ ~ TellsEnd(t, rc, refuses).failed => ~ t.failed /\ rc # "AME_PF"
<1> DEFINE u == TellsEnd(t, rc, refuses)
           f == t.failed \/ rc = "AME_PF"
           h == t.refused \/ (rc = "AME_PF" /\ refuses)
           a == [t EXCEPT !.rc = rc]
           b == [a EXCEPT !.failed = f]
<1>1. u = [b EXCEPT !.refused = h]
  BY Zenon DEF TellsEnd
<1>2. f \in BOOLEAN
  OBVIOUS
<1> HIDE DEF u, f, h
<1>3. a = [open |-> t.open, due |-> t.due, got |-> t.got, rc |-> rc, sure |-> t.sure,
           failed |-> t.failed, refused |-> t.refused]
  BY DEF IsTold
<1> HIDE DEF a
<1>4. b = [open |-> t.open, due |-> t.due, got |-> t.got, rc |-> rc, sure |-> t.sure, failed |-> f,
           refused |-> t.refused]
  BY <1>3
<1> HIDE DEF b
<1>5. u = [open |-> t.open, due |-> t.due, got |-> t.got, rc |-> rc, sure |-> t.sure, failed |-> f,
           refused |-> h]
  BY <1>1, <1>4
<1>6. IsTold(u) /\ u.failed = f
  BY <1>2, <1>5 DEF IsTold
<1> DEFINE g == t.failed
<1>7. g \in BOOLEAN
  BY DEF IsTold
<1>8. f = (g \/ rc = "AME_PF")
  BY DEF f
<1>9. ~ f => ~ g /\ rc # "AME_PF"
  <2> HIDE DEF g
  <2> QED
    BY <1>7, <1>8
<1>10. QED
  BY <1>6, <1>9 DEF u

\* or that its scan is closed; a failure stays told.
LEMMA TellsClosedIs ==
  ASSUME NEW t, IsTold(t)
  PROVE  IsTold(TellsClosed(t)) /\ TellsClosed(t).failed = t.failed
<1> DEFINE u == TellsClosed(t)
           f == t.failed
<1>1. f \in BOOLEAN
  BY DEF IsTold
<1>2. u = [NothingTold EXCEPT !.failed = f]
  BY DEF TellsClosed
<1> HIDE DEF u, f
<1>3. IsTold(u) /\ u.failed = f
  BY <1>1, <1>2 DEF IsTold, NothingTold
<1>4. QED
  BY <1>3 DEF u, f

\* One row of the tables changes.
LEMMA TablesChange ==
  ASSUME NEW sc, NEW td, Tables(sc, td), NEW s \in Scans, NEW row, NEW t, IsTold(t),
         NEW sc2, sc2 = [sc EXCEPT ![s] = row], NEW td2, td2 = [td EXCEPT ![s] = t]
  PROVE  /\ Tables(sc2, td2)
         /\ NoneFailed(td2) => ~ t.failed
         /\ NoneFailed(td2) /\ ~ td[s].failed => NoneFailed(td)
         /\ \A f, g : AtRest(sc, f) /\ IsRow(row) /\ row.nextpageNum \in Stay /\ g = {} => AtRest(sc2, g)
  BY DEF Tables, NoneFailed, AtRest

-----------------------------------------------------------------------------
(* The steps keep it. *)

\* A step that changes no page keeps the tree.
LEMMA SamePages ==
  ASSUME TreeInv, page' = page, acked' = acked
  PROVE  TreeInv' /\ (IsLeaf(AM_RootPageNum))' = IsLeaf(AM_RootPageNum)
<1>1. TreeInv'
  BY InvOfIs
<1>2. QED
  BY <1>1 DEF IsLeaf, AM_RootPageNum

\* The invariant holds at first.
LEMMA ScanBegins == ScanInit => ScanInv
<1> SUFFICES ASSUME ScanInit PROVE ScanInv
  OBVIOUS
<1>1. TreeInv /\ fixed = {} /\ damaged = FALSE
  BY InitHolds DEF ScanInit, AMInv, WholeInv, Init
<1>2. scan = [s \in Scans |-> Row] /\ told = [s \in Scans |-> NothingTold]
  BY DEF ScanInit
<1>3. \A s \in Scans : scan[s] = Row /\ told[s] = NothingTold
  BY <1>2
<1>4. scan = [s \in Scans |-> scan[s]] /\ told = [s \in Scans |-> told[s]]
  BY <1>2
<1>5. Tables(scan, told)
  BY <1>3, <1>4, NothingIs DEF Tables
<1>6. AtRest(scan, fixed)
  BY <1>1, <1>3, RowIs DEF AtRest
<1>7. QED
  BY <1>1, <1>5, <1>6 DEF ScanInv, IntactInv

\* AM_OpenIndexScan keeps it,
LEMMA OpenHolds ==
  ASSUME IntactInv, NEW s \in Scans, NEW op \in Ops, NEW value \in Sought, NEW pool,
         AM_OpenIndexScan(s, op, value, pool)
  PROVE  IntactInv'
<1>0. PICK sr \in Searches(value) : OpenBy(s, op, value, pool, sr)
  BY OpenSearches
<1> DEFINE p == sr.pageNum
           at == AM_SearchLeaf(page[p], value)
           k == Begun(scan[s], fixed, pool)
           l == Placed(k, p, op, at.index)
           b == IF at.index > page[p].numKeys THEN Beyond(l, p) ELSE l
           left == Leftmost(pool)
           d == IF op = "ALL" THEN OpenAll(k, left) ELSE OpenedAt(b, p, at.found, left)
           due == Due(op, value)
           sure == Sure(op, at)
           refused == fixed # {}
           t == IF d.rc # "" THEN TellsFailed(told[s]) ELSE TellsOpen(told[s], due, sure, refused)
<1>1. op \in Operators /\ value \in Values
  BY ScanAssumption DEF Operators
<1>2. OpenEffect(s, op, value, at, d)
  <2>1. /\ p = sr.pageNum /\ at = AM_SearchLeaf(page[p], value)
        /\ k = Begun(scan[s], fixed, pool) /\ left = Leftmost(pool)
        /\ l = Placed(k, p, op, at.index) /\ b = (IF at.index > page[p].numKeys THEN Beyond(l, p) ELSE l)
        /\ d = (IF op = "ALL" THEN OpenAll(k, left) ELSE OpenedAt(b, p, at.found, left))
    OBVIOUS
  <2> HIDE DEF p, at, k, l, b, left, d
  <2>2. QED
    BY <1>0, <2>1, OpenDoes
<1>3. TreeInv' /\ (IsLeaf(AM_RootPageNum))' = IsLeaf(AM_RootPageNum)
  BY <1>2, SamePages DEF IntactInv, OpenEffect
<1>4. AtRest(scan, fixed) /\ IsLeaf(AM_RootPageNum) => RestsAtEnd(d)
  <2> SUFFICES ASSUME AtRest(scan, fixed), IsLeaf(AM_RootPageNum) PROVE RestsAtEnd(d)
    OBVIOUS
  <2> DEFINE row == scan[s]
  <2>1. IsRow(row) /\ row.nextpageNum \in Stay /\ fixed = {} /\ TreeInv
    BY DEF AtRest, IntactInv
  <2>2. /\ p = sr.pageNum /\ at = AM_SearchLeaf(page[p], value)
        /\ k = Begun(row, fixed, pool) /\ left = Leftmost(pool)
        /\ l = Placed(k, p, op, at.index) /\ b = (IF at.index > page[p].numKeys THEN Beyond(l, p) ELSE l)
        /\ d = (IF op = "ALL" THEN OpenAll(k, left) ELSE OpenedAt(b, p, at.found, left))
    OBVIOUS
  <2> HIDE DEF p, at, k, l, b, left, d, row
  <2>3. RestsAtEnd(IF op = "ALL" THEN OpenAll(k, left) ELSE OpenedAt(b, p, at.found, left))
    BY <1>0, <1>1, <2>1, <2>2, OpenEnds
  <2>4. QED
    BY <2>2, <2>3
<1> HIDE DEF p, at, k, l, b, left, d, due, sure, refused
<1>5. CASE fixed' = fixed /\ scan' = scan /\ told' = told
  BY <1>3, <1>5 DEF IntactInv
<1>6. CASE ~ (fixed' = fixed /\ scan' = scan /\ told' = told)
  <2>1. fixed' = d.fixed /\ scan' = [scan EXCEPT ![s] = d.row] /\ told' = [told EXCEPT ![s] = t]
    BY <1>2, <1>6, Zenon DEF due, sure, refused, OpenEffect
  <2>3. Tables(scan, told) /\ IsTold(told[s])
    BY DEF IntactInv, Tables
  <2>4. /\ IsTold(t) /\ (t.failed = told[s].failed \/ t.failed = TRUE)
        /\ d.rc # "" => t.failed = TRUE
    <3> DEFINE w == told[s]
    <3> HIDE DEF w
    <3>1. IsTold(w)
      BY <2>3 DEF w
    <3>2. IsTold(TellsFailed(w)) /\ TellsFailed(w).failed = TRUE
      BY <3>1, TellsFailedIs
    <3>3. IsTold(TellsOpen(w, due, sure, refused)) /\ TellsOpen(w, due, sure, refused).failed = w.failed
      BY <3>1, TellsOpenIs
    <3>4. QED
      BY <3>2, <3>3 DEF w
  <2> DEFINE row == d.row
             sc == scan
             td == told
             sc2 == scan'
             td2 == told'
             g == fixed'
             f == fixed
             none == d.rc = ""
  <2>5. Tables(sc, td) /\ IsTold(t) /\ sc2 = [sc EXCEPT ![s] = row] /\ td2 = [td EXCEPT ![s] = t]
    BY <2>1, <2>3, <2>4
  <2>6. (t.failed = td[s].failed \/ t.failed = TRUE) /\ g = d.fixed /\ (t.failed = TRUE \/ none)
    BY <2>1, <2>4
  <2>7. IntactInv' = (TreeInv' /\ Tables(sc2, td2)
                      /\ (Quiet /\ (IsLeaf(AM_RootPageNum))' /\ NoneFailed(td2) => AtRest(sc2, g)))
    BY DEF IntactInv, Quiet
  <2>8. Quiet /\ IsLeaf(AM_RootPageNum) /\ NoneFailed(td) => AtRest(sc, f) /\ RestsAtEnd(d)
    BY <1>4 DEF IntactInv
  <2>10. RestsAtEnd(d) /\ none => IsRow(row) /\ row.nextpageNum \in Stay /\ g = {}
    <3>1. RestsAtEnd(d) /\ none => Ended(d)
      BY DEF RestsAtEnd
    <3> HIDE DEF g
    <3>2. QED
      BY <2>6, <3>1, EndedHas
  <2> HIDE DEF t, sc, td, sc2, td2, f, g, row, none
  <2>9. /\ Tables(sc2, td2)
        /\ NoneFailed(td2) => ~ t.failed
        /\ NoneFailed(td2) /\ ~ td[s].failed => NoneFailed(td)
        /\ AtRest(sc, f) /\ IsRow(row) /\ row.nextpageNum \in Stay /\ g = {} => AtRest(sc2, g)
    BY <2>5, TablesChange
  <2>11. QED
    BY <1>3, <2>6, <2>7, <2>8, <2>9, <2>10
<1>7. QED
  BY <1>5, <1>6

Asked(row, fx, pool) == [row |-> row, fixed |-> fx, rc |-> "", pool |-> pool, rec |-> Junk]
Asks(k, row, fx) == IsCall(k) /\ k.rc = "" /\ k.fixed = fx /\ k.row = row

\* A row as that of a call in progress.
LEMMA RowCalls ==
  ASSUME NEW row, IsRow(row), NEW pool, NEW fx, AM_NULL_PAGE \notin fx,
         NEW k, k = Asked(row, fx, pool)
  PROVE  Asks(k, row, fx)
<1> DEFINE a == row.status
           c == row.nextpageNum
           d == row.nextIndex
           e == row.actindex
           f == row.nextRecIdPtr
           g == row.nextvalue
           rc == ""
           rec == Junk
<1>1. row = RowAt(row, a, c, d, e, f, g)
  BY DEF IsRow, RowOf, RowAt
<1>2. k = Call(row, fx, rc, pool, rec)
  BY DEF Call, Asked
<1> HIDE DEF a, c, d, e, f, g, rc, rec
<1>3. k = K(row, a, c, d, e, f, g, fx, rc, pool, rec)
  BY <1>1, <1>2 DEF K
<1>4. IsCall(k)
  BY <1>3, IsCallOf
<1>5. k.rc = rc /\ k.fixed = fx /\ k.row = row
  BY <1>1, <1>3, CallHas
<1>6. QED
  BY <1>4, <1>5 DEF rc, Asks

\* The row of a call in progress is a row.
LEMMA CallRows ==
  ASSUME NEW k, IsCall(k)
  PROVE  IsRow(k.row)
<1>1. PICK b, st, np, ni, ax, nr, nv, fx, rc, po, rec : k = K(b, st, np, ni, ax, nr, nv, fx, rc, po, rec)
        /\ AM_NULL_PAGE \notin fx
  BY DEF IsCall
<1>2. k.row = RowAt(b, st, np, ni, ax, nr, nv)
  BY <1>1, CallHas
<1>3. QED
  BY <1>2 DEF RowAt, IsRow, RowOf

\* What AM_FindNextEntry does.
FindEffect(s, j, t) ==
  /\ page' = page /\ acked' = acked /\ stack' = stack /\ opens' = opens /\ fixed' = j.fixed
  /\ scan' = [scan EXCEPT ![s] = j.row] /\ told' = [told EXCEPT ![s] = t] /\ told[s].open

\* What a call for the next entry does.
LEMMA FindDoes ==
  ASSUME NEW s \in Scans, NEW pool, AM_FindNextEntry(s, pool),
         NEW k, k = Asked(scan[s], fixed, pool), NEW j, j = NextEntry(k),
         NEW t, t = IF j.rc = "" THEN TellsEntry(told[s], j.rec)
                    ELSE TellsEnd(told[s], j.rc, Refuses(pool))
  PROVE  FindEffect(s, j, t)
<1>0. k = [row |-> scan[s], fixed |-> fixed, rc |-> "", pool |-> pool, rec |-> Junk]
  BY DEF Asked
<1>1. page' = page /\ acked' = acked /\ stack' = stack /\ opens' = opens /\ fixed' = j.fixed
      /\ scan' = [scan EXCEPT ![s] = j.row] /\ told[s].open
  BY <1>0 DEF AM_FindNextEntry
<1>2. told' = [told EXCEPT ![s] = t]
  <2> DEFINE a == NextEntry([row |-> scan[s], fixed |-> fixed, rc |-> "", pool |-> pool,
                             rec |-> Junk])
             refuses == Refuses(pool)
             rc == a.rc
  <2>1. told' = IF rc = "" THEN [told EXCEPT ![s].got = Append(@, a.rec)]
                ELSE [told EXCEPT ![s] = TellsEnd(told[s], rc, refuses)]
    BY DEF AM_FindNextEntry
  <2>2. a = j
    BY <1>0
  <2> HIDE DEF a, refuses, rc
  <2>3. CASE rc = ""
    BY <2>1, <2>2, <2>3, Zenon DEF TellsEntry, rc
  <2>4. CASE rc # ""
    <3>1. t = TellsEnd(told[s], rc, refuses)
      BY <2>2, <2>4 DEF rc, refuses
    <3>2. told' = [told EXCEPT ![s] = TellsEnd(told[s], rc, refuses)]
      BY <2>1, <2>4
    <3>3. QED
      BY <3>1, <3>2, Zenon
  <2>5. QED
    BY <2>3, <2>4
<1>3. QED
  BY <1>1, <1>2 DEF FindEffect

\* AM_FindNextEntry keeps the invariant,
LEMMA FindHolds ==
  ASSUME IntactInv, NEW s \in Scans, NEW pool, AM_FindNextEntry(s, pool)
  PROVE  IntactInv'
<1> DEFINE k == [row |-> scan[s], fixed |-> fixed, rc |-> "", pool |-> pool, rec |-> Junk]
           j == NextEntry(k)
           refuses == Refuses(pool)
           t == IF j.rc = "" THEN TellsEntry(told[s], j.rec) ELSE TellsEnd(told[s], j.rc, refuses)
<1>1. page' = page /\ acked' = acked /\ fixed' = j.fixed /\ scan' = [scan EXCEPT ![s] = j.row]
      /\ told' = [told EXCEPT ![s] = t]
  <2>1. k = Asked(scan[s], fixed, pool) /\ j = NextEntry(k)
        /\ t = IF j.rc = "" THEN TellsEntry(told[s], j.rec)
               ELSE TellsEnd(told[s], j.rc, Refuses(pool))
    BY DEF Asked
  <2> HIDE DEF k, j, t
  <2>3. FindEffect(s, j, t)
    BY <2>1, FindDoes
  <2>4. QED
    BY <2>3 DEF FindEffect
<1>2. told' = [told EXCEPT ![s] = t]
  BY <1>1
<1>3. TreeInv' /\ (IsLeaf(AM_RootPageNum))' = IsLeaf(AM_RootPageNum)
  BY <1>1, SamePages DEF IntactInv
<1>4. AtRest(scan, fixed) /\ IsLeaf(AM_RootPageNum) => IsRow(j.row) /\ Settled(j)
  <2> SUFFICES ASSUME AtRest(scan, fixed), IsLeaf(AM_RootPageNum) PROVE IsRow(j.row) /\ Settled(j)
    OBVIOUS
  <2> DEFINE row == scan[s]
             fx == fixed
  <2>1. IsRow(row) /\ row.nextpageNum \in Stay /\ AM_NULL_PAGE \notin fx /\ TreeInv
    BY DEF AtRest, IntactInv
  <2>7. fx = {}
    BY DEF AtRest
  <2>2. k = Asked(row, fx, pool)
    BY DEF Asked
  <2>3. OneLeaf /\ NumPages \in Nat
    BY <2>1, OneLeafIs
  <2> HIDE DEF k, row, fx
  <2>8. IsRow(row) /\ AM_NULL_PAGE \notin fx
    BY <2>1
  <2>9. Asks(k, row, fx)
    BY <2>8, <2>2, RowCalls
  <2>4. IsCall(k) /\ k.rc = "" /\ k.fixed = fx /\ k.row = row
    BY <2>9 DEF Asks
  <2>5. IsCall(j) /\ Settled(j)
    <3>1. k.fixed = {} /\ k.row.nextpageNum \in {0, AM_NULL_PAGE}
      BY <2>1, <2>4, <2>7 DEF Stay
    <3>2. QED
      BY <2>3, <2>4, <3>1, NextSettles
  <2> HIDE DEF j
  <2>6. QED
    BY <2>5, CallRows
<1> HIDE DEF k, j, refuses
<1>5. Tables(scan, told) /\ IsTold(told[s])
  BY DEF IntactInv, Tables
<1>6. IsTold(t) /\ (~ t.failed => ~ told[s].failed /\ j.rc # "AME_PF")
  <2> DEFINE w == told[s]
             rec == j.rec
             rc == j.rc
  <2>0. IsTold(w)
    BY <1>5
  <2>3. t = IF rc = "" THEN TellsEntry(w, rec) ELSE TellsEnd(w, rc, refuses)
    OBVIOUS
  <2> HIDE DEF w, rec, rc, t
  <2>1. /\ IsTold(TellsEntry(w, rec)) /\ TellsEntry(w, rec).failed = w.failed
        /\ IsTold(TellsEnd(w, rc, refuses))
        /\ ~ TellsEnd(w, rc, refuses).failed => ~ w.failed /\ rc # "AME_PF"
    BY <2>0, TellsEntryIs, TellsEndIs
  <2>2. QED
    BY <2>1, <2>3 DEF w, rc
<1> DEFINE row == j.row
           sc == scan
           td == told
           sc2 == scan'
           td2 == told'
           g == fixed'
           f == fixed
<1>7. Tables(sc, td) /\ IsTold(t) /\ sc2 = [sc EXCEPT ![s] = row] /\ td2 = [td EXCEPT ![s] = t]
  BY <1>1, <1>2, <1>5, <1>6
<1>8. (~ t.failed => ~ td[s].failed /\ j.rc # "AME_PF") /\ g = j.fixed
  BY <1>1, <1>6
<1>9. IntactInv' = (TreeInv' /\ Tables(sc2, td2)
                  /\ (Quiet /\ (IsLeaf(AM_RootPageNum))' /\ NoneFailed(td2)
                      => AtRest(sc2, g)))
  BY DEF IntactInv, Quiet
<1>10. Quiet /\ IsLeaf(AM_RootPageNum) /\ NoneFailed(td) => AtRest(sc, f) /\ IsRow(row)
         /\ Settled(j)
  BY <1>4 DEF IntactInv
<1> HIDE DEF t, sc, td, sc2, td2, f, g, row
<1>11. /\ Tables(sc2, td2)
       /\ NoneFailed(td2) => ~ t.failed
       /\ NoneFailed(td2) /\ ~ td[s].failed => NoneFailed(td)
       /\ AtRest(sc, f) /\ IsRow(row) /\ row.nextpageNum \in Stay /\ g = {} => AtRest(sc2, g)
  BY <1>7, TablesChange
<1>12. Settled(j) /\ j.rc # "AME_PF" => row.nextpageNum \in Stay /\ g = {}
  BY <1>8 DEF Settled, Stay, row
<1>13. QED
  BY <1>3, <1>8, <1>9, <1>10, <1>11, <1>12

\* AM_CloseIndexScan keeps it,
LEMMA CloseHolds ==
  ASSUME IntactInv, NEW s \in Scans, AM_CloseIndexScan(s)
  PROVE  IntactInv'
<1> DEFINE row == [scan[s] EXCEPT !.status = "FREE"]
           t == TellsClosed(told[s])
<1>1. /\ page' = page /\ acked' = acked /\ fixed' = fixed
      /\ scan' = [scan EXCEPT ![s].status = "FREE"]
      /\ told' = [told EXCEPT ![s] = [NothingTold EXCEPT !.failed = told[s].failed]]
  BY DEF AM_CloseIndexScan
<1>2. scan' = [scan EXCEPT ![s] = row] /\ told' = [told EXCEPT ![s] = t]
  BY <1>1, Zenon DEF TellsClosed
<1>3. TreeInv' /\ (IsLeaf(AM_RootPageNum))' = IsLeaf(AM_RootPageNum)
  BY <1>1, SamePages DEF IntactInv
<1>4. IsRow(scan[s]) => IsRow(row) /\ row.nextpageNum = scan[s].nextpageNum
  <2> DEFINE r == scan[s]
             a == r.op
             b == r.pageNum
             c == r.index
             d == r.actindex
             e == r.nextpageNum
             f == r.nextvalue
             g == r.nextIndex
             h == r.nextRecIdPtr
             i == r.lastpageNum
             j == r.lastIndex
             st == r.status
             free == "FREE"
  <2> SUFFICES ASSUME IsRow(r) PROVE IsRow(row) /\ row.nextpageNum = e
    OBVIOUS
  <2>1. r = RowOf(st, a, b, c, d, e, f, g, h, i, j)
    BY DEF IsRow
  <2>2. row = [r EXCEPT !.status = free]
    OBVIOUS
  <2> HIDE DEF r, a, b, c, d, e, f, g, h, i, j, st, free, row
  <2>3. row = RowOf(free, a, b, c, d, e, f, g, h, i, j)
    BY <2>1, <2>2 DEF RowOf
  <2>4. QED
    BY <2>3 DEF IsRow, RowOf
<1>5. Tables(scan, told) /\ IsTold(told[s])
  BY DEF IntactInv, Tables
<1>6. IsTold(t) /\ t.failed = told[s].failed
  <2> DEFINE w == told[s]
  <2>0. IsTold(w)
    BY <1>5
  <2> HIDE DEF w
  <2>1. IsTold(TellsClosed(w)) /\ TellsClosed(w).failed = w.failed
    BY <2>0, TellsClosedIs
  <2>2. QED
    BY <2>1 DEF w
<1> DEFINE sc == scan
           td == told
           sc2 == scan'
           td2 == told'
           g == fixed'
           f == fixed
<1>7. Tables(sc, td) /\ IsTold(t) /\ sc2 = [sc EXCEPT ![s] = row] /\ td2 = [td EXCEPT ![s] = t]
  BY <1>2, <1>5, <1>6
<1>8. t.failed = td[s].failed /\ g = f
  BY <1>1, <1>6
<1>9. IntactInv' = (TreeInv' /\ Tables(sc2, td2)
                  /\ (Quiet /\ (IsLeaf(AM_RootPageNum))' /\ NoneFailed(td2)
                      => AtRest(sc2, g)))
  BY DEF IntactInv, Quiet
<1>10. Quiet /\ IsLeaf(AM_RootPageNum) /\ NoneFailed(td) => AtRest(sc, f)
  BY DEF IntactInv
<1>14. AtRest(sc, f) => f = {} /\ IsRow(row) /\ row.nextpageNum \in Stay
  BY <1>4 DEF AtRest
<1> HIDE DEF t, sc, td, sc2, td2, f, g, row
<1>11. /\ Tables(sc2, td2)
       /\ NoneFailed(td2) => ~ t.failed
       /\ NoneFailed(td2) /\ ~ td[s].failed => NoneFailed(td)
       /\ AtRest(sc, f) /\ IsRow(row) /\ row.nextpageNum \in Stay /\ g = {} => AtRest(sc2, g)
  BY <1>7, TablesChange
<1>13. QED
  BY <1>3, <1>8, <1>9, <1>10, <1>11, <1>14

\* An index that is one leaf after a call was so before.
LEMMA StillLeaf ==
  ASSUME TreeInv, TreeInv', DOMAIN page \subseteq DOMAIN page', (IsLeaf(AM_RootPageNum))'
  PROVE  IsLeaf(AM_RootPageNum)
<1>1. PICK m, E, rk : Tree(page, m, E, E, rk, acked, -1, 0) /\ Linked(page, m, E)
  BY DEF TreeInv, HoldsAcked
<1>2. DOMAIN page = 0 .. m - 1 /\ m \in Nat \ {0}
  BY <1>1, TreePages
<1> DEFINE pg == page'
           ac == acked'
<1>3. PICK m2, E2, rk2 : Tree(pg, m2, E2, E2, rk2, ac, -1, 0) /\ Linked(pg, m2, E2)
  <2>1. InvOf(pg, ac)
    BY InvOfIs
  <2> HIDE DEF pg, ac
  <2>2. QED
    BY <2>1 DEF InvOf
<1>4. pg[0].type = "l"
  BY DEF IsLeaf, AM_RootPageNum
<1>5. DOMAIN page \subseteq DOMAIN pg
  OBVIOUS
<1> HIDE DEF pg, ac
<1>6. DOMAIN pg = 0 .. m2 - 1 /\ m2 \in Nat \ {0}
  BY <1>3, TreePages
<1>7. m2 = 1
  BY <1>3, <1>4 DEF Linked, FirstOK
<1>8. DOMAIN page \subseteq {0}
  BY <1>5, <1>6, <1>7
<1>9. FirstOK(page, E, m)
  BY <1>1 DEF Linked
<1>10. 2 \notin 0 .. m - 1
  BY <1>2, <1>8
<1>11. QED
  BY <1>9, <1>10 DEF FirstOK, IsLeaf, AM_RootPageNum

\* AM_DeleteEntry leaves a page fixed only if the entry is not there.
LEMMA DeleteRests ==
  ASSUME NEW v, NEW r, AM_DeleteEntry(v, r)
  PROVE  \E s \in Searches(v) :
           \/ fixed' = fixed
           \/ LET at == AM_SearchLeaf(page[s.pageNum], v)
              IN  ~ (at.found /\ r \in ToSet(RecsAt(page[s.pageNum], at.index)))
  BY DEF AM_DeleteEntry

\* An acknowledged entry of a single leaf is found, and its removal leaves nothing.
LEMMA DeleteLeaves ==
  ASSUME TreeInv, IsLeaf(AM_RootPageNum), fixed = {}, "absent" \notin Callers, NEW v \in Values,
         NEW r \in RecIds,
         AM_DeleteEntry(v, r)
  PROVE  fixed' = {}
<1>0. PICK s \in Searches(v) :
        \/ fixed' = fixed
        \/ LET at == AM_SearchLeaf(page[s.pageNum], v)
           IN  ~ (at.found /\ r \in ToSet(RecsAt(page[s.pageNum], at.index)))
  BY DeleteRests
<1> DEFINE at == AM_SearchLeaf(page[s.pageNum], v)
           recs == RecsAt(page[s.pageNum], at.index)
           n == acked[v][r]
<1>1. Single(v, s, at)
  <2> HIDE DEF at
  <2>1. at = AM_SearchLeaf(page[s.pageNum], v)
    BY DEF at
  <2>2. QED
    BY <2>1, SearchSingle
<1>2. n # 0
  BY DEF AM_DeleteEntry
<1>3. s.pageNum = 0
  BY <1>1 DEF Single
<1>4. at.found
  BY <1>1, <1>2 DEF Single
<1>5. RecCount(recs, r) = n
  BY <1>1, <1>3, <1>4 DEF Single
<1>6. r \in ToSet(recs)
  <2> HIDE DEF recs, n
  <2>1. CASE \A j \in DOMAIN recs : recs[j] # r
    <3>1. {j \in DOMAIN recs : recs[j] = r} = {}
      BY <2>1
    <3>2. RecCount(recs, r) = 0
      BY <3>1, FS_EmptySet DEF RecCount
    <3>3. QED
      BY <1>2, <1>5, <3>2
  <2>2. CASE \E j \in DOMAIN recs : recs[j] = r
    BY <2>2 DEF ToSet
  <2>3. QED
    BY <2>1, <2>2
<1>7. fixed' = fixed
  BY <1>0, <1>4, <1>6
<1>8. QED
  BY <1>7

\* An insertion leaves nothing if it may not leave a page.
LEMMA InsertLeaves ==
  ASSUME fixed = {}, MaxFixed = 0, NEW v, NEW r, AM_InsertEntry(v, r), ~ damaged'
  PROVE  fixed' = {}
<1>1. ~ (Cardinality(fixed) < MaxFixed)
  BY FS_EmptySet
<1>2. fixed' = fixed
  BY <1>1 DEF AM_InsertEntry
<1>3. QED
  BY <1>2

\* A call of AM keeps the invariant.
LEMMA CallKeeps ==
  ASSUME IntactInv, UNCHANGED scanVars, NEW pair \in Pairs, ~ damaged',
         AM_InsertEntry(pair[1], pair[2]) \/ AM_DeleteEntry(pair[1], pair[2])
  PROVE  IntactInv'
<1> DEFINE v == pair[1]
           r == pair[2]
<1>1. v \in Values /\ r \in RecsOf(v) /\ r \in RecIds
  BY PairIs
<1>2. AM_InsertEntry(v, r) \/ AM_DeleteEntry(v, r)
  OBVIOUS
<1>3. scan' = scan /\ told' = told
  BY DEF scanVars
<1>4. TreeInv
  BY DEF IntactInv
<1> HIDE DEF v, r
<1>5. TreeInv' /\ DOMAIN page \subseteq DOMAIN page'
  BY <1>1, <1>2, <1>4, InsertHolds, DeleteHolds
<1>6. (IsLeaf(AM_RootPageNum))' => IsLeaf(AM_RootPageNum)
  BY <1>4, <1>5, StillLeaf
<1>7. Quiet /\ (IsLeaf(AM_RootPageNum))' /\ fixed = {} => fixed' = {}
  <2>1. CASE AM_InsertEntry(v, r)
    BY <2>1, InsertLeaves DEF Quiet
  <2>2. CASE AM_DeleteEntry(v, r)
    BY <1>1, <1>4, <1>6, <2>2, DeleteLeaves DEF Quiet
  <2>3. QED
    BY <1>2, <2>1, <2>2
<1>8. QED
  BY <1>3, <1>5, <1>6, <1>7 DEF IntactInv, AtRest, Quiet

\* No step mends an index, and each tells whether it is damaged.
LEMMA StepDamages ==
  ASSUME damaged \in BOOLEAN, [ScanNext]_allVars
  PROVE  damaged' \in BOOLEAN /\ (damaged => damaged')
<1>1. CASE damaged' = damaged
  BY <1>1
<1>2. CASE damaged' # damaged
  <2>1. ScanNext /\ ~ UNCHANGED allVars
    BY <1>2 DEF allVars
  <2>2. ~ \E s \in Scans : \/ \E op \in Ops, value \in Sought, pool \in Pools :
                                 AM_OpenIndexScan(s, op, value, pool)
                           \/ \E pool \in Pools : AM_FindNextEntry(s, pool)
                           \/ AM_CloseIndexScan(s)
    <3>1. ASSUME NEW s, NEW op, NEW value, NEW pool, AM_OpenIndexScan(s, op, value, pool)
          PROVE  damaged' = damaged
      BY <3>1 DEF AM_OpenIndexScan
    <3>2. ASSUME NEW s, NEW pool, AM_FindNextEntry(s, pool) PROVE damaged' = damaged
      BY <3>2 DEF AM_FindNextEntry
    <3>3. ASSUME NEW s, AM_CloseIndexScan(s) PROVE damaged' = damaged
      BY <3>3 DEF AM_CloseIndexScan
    <3>4. QED
      BY <1>2, <3>1, <3>2, <3>3
  <2>3. \E pair \in Pairs : AM_InsertEntry(pair[1], pair[2]) \/ AM_DeleteEntry(pair[1], pair[2])
    BY <2>1, <2>2 DEF ScanNext
  <2>4. PICK pair \in Pairs : AM_InsertEntry(pair[1], pair[2]) \/ AM_DeleteEntry(pair[1], pair[2])
    BY <2>3
  <2> DEFINE v == pair[1]
             r == pair[2]
  <2>5. AM_InsertEntry(v, r) \/ AM_DeleteEntry(v, r)
    BY <2>4
  <2> HIDE DEF v, r
  <2>6. QED
    BY <2>5, CallDamages
<1>3. QED
  BY <1>1, <1>2

\* Every step keeps it.
LEMMA ScanHolds == ScanInv /\ [ScanNext]_allVars => ScanInv'
<1> SUFFICES ASSUME ScanInv, [ScanNext]_allVars PROVE ScanInv'
  OBVIOUS
<1>0. damaged' \in BOOLEAN /\ (~ damaged' => ~ damaged)
  BY StepDamages DEF ScanInv
<1> SUFFICES ASSUME ~ damaged' PROVE IntactInv'
  BY <1>0 DEF ScanInv
<1>00. IntactInv
  BY <1>0 DEF ScanInv
<1>1. CASE UNCHANGED allVars
  <2>1. page' = page /\ fixed' = fixed /\ acked' = acked /\ scan' = scan /\ told' = told
    BY <1>1 DEF allVars
  <2>2. TreeInv' /\ (IsLeaf(AM_RootPageNum))' = IsLeaf(AM_RootPageNum)
    BY <1>00, <2>1, SamePages DEF IntactInv
  <2>3. QED
    BY <1>00, <2>1, <2>2 DEF IntactInv, Quiet
<1>2. ASSUME NEW pair \in Pairs, UNCHANGED scanVars,
             AM_InsertEntry(pair[1], pair[2]) \/ AM_DeleteEntry(pair[1], pair[2])
      PROVE  IntactInv'
  BY <1>00, <1>2, CallKeeps
<1>3. ASSUME NEW s \in Scans, NEW op \in Ops, NEW value \in Sought, NEW pool,
             AM_OpenIndexScan(s, op, value, pool)
      PROVE  IntactInv'
  BY <1>00, <1>3, OpenHolds
<1>4. ASSUME NEW s \in Scans, NEW pool, AM_FindNextEntry(s, pool)
      PROVE  IntactInv'
  BY <1>00, <1>4, FindHolds
<1>5. ASSUME NEW s \in Scans, AM_CloseIndexScan(s)
      PROVE  IntactInv'
  BY <1>00, <1>5, CloseHolds
<1>6. QED
  BY <1>1, <1>2, <1>3, <1>4, <1>5 DEF ScanNext

\* ScanInv is inductive.
THEOREM ScanAlways == ScanSpec => []ScanInv
<1>1. QED
  BY ScanBegins, ScanHolds, PTL DEF ScanSpec

\* The tree is as it is without scans.
LEMMA ScanTreeInv == ScanInv /\ ~ damaged => TreeInv
  BY DEF ScanInv, IntactInv

\* With scans open between the calls the leaves stay sound (amscan.c, aminsert.c), unless an
\* insertion damaged the index,
THEOREM ScannedLeavesSound == ScanSpec => []LeavesSound
<1>1. ScanInv => LeavesSound
  BY ScanTreeInv, InvSound DEF LeavesSound
<1>2. QED
  BY <1>1, ScanAlways, PTL

\* the pages are a search tree (am.c),
THEOREM ScannedTreeSound == ScanSpec => []TreeSound
<1>1. ScanInv => TreeSound
  BY ScanTreeInv, InvSearchTree DEF TreeSound
<1>2. QED
  BY <1>1, ScanAlways, PTL

\* and the leaves that a scan goes through are chained in order (amscan.c:500).
THEOREM ScannedChainInOrder == ScanSpec => []ChainInOrder
<1>1. ScanInv => ChainInOrder
  BY ScanTreeInv, InvChain DEF ChainInOrder
<1>2. QED
  BY <1>1, ScanAlways, PTL

\* It says that nothing is fixed between the calls.
LEMMA ScanLeaves == Quiet /\ ScanInv => OneLeafLeavesNothing
  BY DEF ScanInv, IntactInv, OneLeafLeavesNothing, NoneFailed, AtRest

\* As long as the index is one leaf and no call of a scan failed, no call leaves its page fixed,
\* whatever scans are open, whatever entries are deleted under them and whatever page PF refuses,
\* if no entry is deleted that is not there and no insertion leaves a page (amscan.c:427,
\* amfns.c:139).
THEOREM OneLeafAlwaysLeavesNothing ==
  ASSUME "absent" \notin Callers, MaxFixed = 0
  PROVE  ScanSpec => []OneLeafLeavesNothing
<1>1. ScanInv => OneLeafLeavesNothing
  BY ScanLeaves DEF Quiet
<1>2. QED
  BY <1>1, ScanAlways, PTL

-----------------------------------------------------------------------------
(* The types of a call for the next entry. *)

\* Leaves are followed by leaves, and a cell holds a record identifier.
LeafAt(p) == p \in DOMAIN page /\ IsLeaf(p)
LeavesTyped ==
  \A p : LeafAt(p) =>
    /\ page[p].nextLeafPage = AM_NULL_PAGE \/ LeafAt(page[p].nextLeafPage)
    /\ page[p].cell \in [DOMAIN page[p].cell -> CellRec]
    /\ page[p].numKeys \in Nat
PagesAreOfType == LeavesTyped /\ AM_NULL_PAGE \notin DOMAIN page /\ NumPages \in Nat
  /\ DOMAIN page = 0 .. NumPages - 1

\* The pages are so in every state of the invariant.
LEMMA PagesAreTyped == TreeInv => PagesAreOfType
<1> SUFFICES ASSUME TreeInv PROVE PagesAreOfType
  OBVIOUS
<1>1. PICK m, E, rk : Tree(page, m, E, E, rk, acked, -1, 0) /\ Linked(page, m, E)
  BY DEF TreeInv, HoldsAcked
<1>2. m \in Nat /\ DOMAIN page = 0 .. m - 1 /\ NumPages = m
  BY <1>1, TreePages DEF NumPages
<1>3. ASSUME NEW p, LeafAt(p)
      PROVE  /\ page[p].nextLeafPage = AM_NULL_PAGE \/ LeafAt(page[p].nextLeafPage)
             /\ page[p].cell \in [DOMAIN page[p].cell -> CellRec]
             /\ page[p].numKeys \in Nat
  <2>1. p \in 0 .. m - 1 /\ page[p].type = "l"
    BY <1>2, <1>3 DEF LeafAt, IsLeaf
  <2>2. LinkOK(page[p].nextLeafPage, E[p], page, E, m)
    BY <1>1, <2>1 DEF Linked
  <2>3. page[p].nextLeafPage = AM_NULL_PAGE \/ LeafAt(page[p].nextLeafPage)
    BY <2>2, <1>2 DEF LinkOK, LeafAt, IsLeaf
  <2>4. LeafOK(page[p], On(acked, E[p]))
    BY <1>1, <2>1, TreeLeaf
  <2>5. PICK Q, c : Woven(page[p], Q, c)
    BY <2>4 DEF LeafOK
  <2>6. page[p].cell \in [DOMAIN page[p].cell -> CellRec] /\ page[p].numKeys \in Nat
    BY <2>5 DEF Woven
  <2>7. QED
    BY <2>3, <2>6
<1>4. AM_NULL_PAGE \notin 0 .. m - 1
  BY <1>2 DEF AM_NULL_PAGE
<1>5. QED
  BY <1>2, <1>3, <1>4 DEF PagesAreOfType, LeavesTyped

Going == {"FIRST", "BUSY", "LAST", "OVER"}
Codes == {"", "AME_EOF", "AME_PF"}
CallTypes(st, np, ni, ax, fx, rc, rec) ==
  /\ st \in Going /\ LeafAt(np) /\ ni \in Int /\ ax \in Nat
  /\ fx \subseteq DOMAIN page /\ rc \in Codes /\ rec \in RecIds \cup {Junk}
\* A call for the next entry, at a leaf, whose row was b when it began.
CallOf(k, b) == \E st, np, ni, ax, nr, nv, fx, rc, po,
  rec : k = K(b, st, np, ni, ax, nr, nv, fx, rc, po, rec) /\ CallTypes(st, np, ni, ax, fx, rc, rec)

\* A call given by its parts is one,
LEMMA CallOfIs ==
  ASSUME NEW b, NEW st, NEW np, NEW ni, NEW ax, NEW nr, NEW nv, NEW fx, NEW rc, NEW po, NEW rec, NEW k,
         k = K(b, st, np, ni, ax, nr, nv, fx, rc, po, rec), CallTypes(st, np, ni, ax, fx, rc, rec)
  PROVE  CallOf(k, b)
BY DEF CallOf

\* and what such a call has.
LEMMA CallOfHas ==
  ASSUME NEW b, NEW k, CallOf(k, b)
  PROVE  k.row.status \in Going /\ LeafAt(k.row.nextpageNum) /\ k.rc \in Codes
<1>1. PICK st, np, ni, ax, nr, nv, fx, rc, po, rec : k = K(b, st, np, ni, ax, nr, nv, fx, rc, po, rec)
        /\ CallTypes(st, np, ni, ax, fx, rc, rec)
  BY DEF CallOf
<1>2. k.row.status = st /\ k.row.nextpageNum = np /\ k.rc = rc
  BY <1>1, CallHas
<1>3. QED
  BY <1>1, <1>2 DEF CallTypes

\* Its row moves within the leaf,
LEMMA CallOfMoves ==
  ASSUME NEW b, NEW k, CallOf(k, b)
  PROVE  CallOf(Pointed(k), b) /\ CallOf(Noted(k), b) /\ CallOf(Stepped(k), b) /\ CallOf(Back(k), b)
<1>1. PICK st, np, ni, ax, nr, nv, fx, rc, po, rec : k = K(b, st, np, ni, ax, nr, nv, fx, rc, po, rec)
        /\ CallTypes(st, np, ni, ax, fx, rc, rec)
  BY DEF CallOf
<1>2. CallOf(Pointed(k), b)
  <2> DEFINE x == KeyHead(np, ni)
             j == Pointed(k)
  <2>1. j = K(b, st, np, ni, ax, x, nv, fx, rc, po, rec)
    BY <1>1, CallPoints
  <2> HIDE DEF x, j
  <2>2. CallOf(j, b)
    BY <1>1, <2>1, CallOfIs
  <2>3. QED
    BY <2>2 DEF j
<1>3. CallOf(Noted(k), b)
  <2> DEFINE x == Slot(np, ni).val
             j == Noted(k)
  <2>1. j = K(b, st, np, ni, ax, nr, x, fx, rc, po, rec)
    BY <1>1, CallNotes
  <2> HIDE DEF x, j
  <2>2. CallOf(j, b)
    BY <1>1, <2>1, CallOfIs
  <2>3. QED
    BY <2>2 DEF j
<1>4. CallOf(Stepped(k), b)
  <2> DEFINE x == ni + 1
             y == ax + 1
             z == KeyHead(np, x)
             j == Stepped(k)
  <2>1. j = K(b, st, np, x, y, z, nv, fx, rc, po, rec)
    BY <1>1, CallSteps
  <2>2. CallTypes(st, np, x, y, fx, rc, rec)
    BY <1>1 DEF CallTypes
  <2> HIDE DEF x, y, z, j
  <2>3. CallOf(j, b)
    BY <2>1, <2>2, CallOfIs
  <2>4. QED
    BY <2>3 DEF j
<1>5. CallOf(Back(k), b)
  <2> DEFINE x == ni - 1
             z == KeyHead(np, x)
             j == Back(k)
  <2>1. j = K(b, st, np, x, ax, z, nv, fx, rc, po, rec)
    BY <1>1, CallBack
  <2>2. CallTypes(st, np, x, ax, fx, rc, rec)
    BY <1>1 DEF CallTypes
  <2> HIDE DEF x, z, j
  <2>3. CallOf(j, b)
    BY <2>1, <2>2, CallOfIs
  <2>4. QED
    BY <2>3 DEF j
<1>6. QED
  BY <1>2, <1>3, <1>4, <1>5

\* its status is set,
LEMMA CallOfStatus ==
  ASSUME NEW b, NEW k, CallOf(k, b), NEW e \in Going
  PROVE  CallOf(SetStatus(k, e), b)
<1>1. PICK st, np, ni, ax, nr, nv, fx, rc, po, rec : k = K(b, st, np, ni, ax, nr, nv, fx, rc, po, rec)
        /\ CallTypes(st, np, ni, ax, fx, rc, rec)
  BY DEF CallOf
<1> DEFINE j == SetStatus(k, e)
<1>2. j = K(b, e, np, ni, ax, nr, nv, fx, rc, po, rec)
  BY <1>1, CallStatus
<1>3. CallTypes(e, np, ni, ax, fx, rc, rec)
  BY <1>1 DEF CallTypes
<1> HIDE DEF j
<1>4. CallOf(j, b)
  BY <1>2, <1>3, CallOfIs
<1>5. QED
  BY <1>4 DEF j

\* it is answered,
LEMMA CallOfAnswer ==
  ASSUME NEW b, NEW k, CallOf(k, b), NEW e \in Codes
  PROVE  CallOf(SetAnswer(k, e), b)
<1>1. PICK st, np, ni, ax, nr, nv, fx, rc, po, rec : k = K(b, st, np, ni, ax, nr, nv, fx, rc, po, rec)
        /\ CallTypes(st, np, ni, ax, fx, rc, rec)
  BY DEF CallOf
<1> DEFINE j == SetAnswer(k, e)
<1>2. j = K(b, st, np, ni, ax, nr, nv, fx, e, po, rec)
  BY <1>1, CallAnswer
<1>3. CallTypes(st, np, ni, ax, fx, e, rec)
  BY <1>1 DEF CallTypes
<1> HIDE DEF j
<1>4. CallOf(j, b)
  BY <1>2, <1>3, CallOfIs
<1>5. QED
  BY <1>4 DEF j

\* the row goes to a leaf,
LEMMA CallOfGoes ==
  ASSUME NEW b, NEW k, CallOf(k, b), NEW p, LeafAt(p)
  PROVE  CallOf(Goes(k, p, 1), b) /\ CallOf(SetPage(k, p), b) /\ CallOf(Anew(k, p), b)
<1>1. PICK st, np, ni, ax, nr, nv, fx, rc, po, rec : k = K(b, st, np, ni, ax, nr, nv, fx, rc, po, rec)
        /\ CallTypes(st, np, ni, ax, fx, rc, rec)
  BY DEF CallOf
<1> DEFINE one == 1
           first == "FIRST"
<1>2. CallTypes(st, p, one, one, fx, rc, rec) /\ CallTypes(st, p, ni, ax, fx, rc, rec)
      /\ CallTypes(first, p, one, one, fx, rc, rec)
  BY <1>1 DEF CallTypes, Going
<1>3. CallOf(Goes(k, p, 1), b)
  <2> DEFINE j == Goes(k, p, one)
  <2>1. j = K(b, st, p, one, one, nr, nv, fx, rc, po, rec)
    BY <1>1, CallGoes
  <2> HIDE DEF j, one
  <2>2. CallOf(j, b)
    BY <2>1, <1>2, CallOfIs
  <2>3. QED
    BY <2>2 DEF j, one
<1>4. CallOf(SetPage(k, p), b)
  <2> DEFINE j == SetPage(k, p)
  <2>1. j = K(b, st, p, ni, ax, nr, nv, fx, rc, po, rec)
    BY <1>1, CallPage
  <2> HIDE DEF j
  <2>2. CallOf(j, b)
    BY <2>1, <1>2, CallOfIs
  <2>3. QED
    BY <2>2 DEF j
<1>5. CallOf(Anew(k, p), b)
  <2> DEFINE j == Anew(k, p)
             x == KeyHead(p, 1)
  <2>1. j = K(b, first, p, one, one, x, nv, fx, rc, po, rec)
    BY <1>1, CallAnew
  <2> HIDE DEF j, one, first, x
  <2>2. CallOf(j, b)
    BY <2>1, <1>2, CallOfIs
  <2>3. QED
    BY <2>2 DEF j
<1>6. QED
  BY <1>3, <1>4, <1>5

\* a cell is read,
LEMMA CallOfReads ==
  ASSUME NEW b, NEW k, CallOf(k, b), NEW cell, cell.recId \in RecIds \cup {Junk}
  PROVE  CallOf(Read(k, cell), b)
<1>1. PICK st, np, ni, ax, nr, nv, fx, rc, po, rec : k = K(b, st, np, ni, ax, nr, nv, fx, rc, po, rec)
        /\ CallTypes(st, np, ni, ax, fx, rc, rec)
  BY DEF CallOf
<1> DEFINE j == Read(k, cell)
           x == cell.next
           y == cell.recId
<1>2. j = K(b, st, np, ni, ax, x, nv, fx, rc, po, y)
  BY <1>1, CallReads
<1>3. CallTypes(st, np, ni, ax, fx, rc, y)
  BY <1>1 DEF CallTypes
<1> HIDE DEF j, x, y
<1>4. CallOf(j, b)
  BY <1>2, <1>3, CallOfIs
<1>5. QED
  BY <1>4 DEF j

\* a page is fixed,
LEMMA CallOfGets ==
  ASSUME NEW b, NEW k, CallOf(k, b), NEW p \in DOMAIN page
  PROVE  CallOf(PF_GetThisPage(k, p), b)
<1>1. PICK st, np, ni, ax, nr, nv, fx, rc, po, rec : k = K(b, st, np, ni, ax, nr, nv, fx, rc, po, rec)
        /\ CallTypes(st, np, ni, ax, fx, rc, rec)
  BY DEF CallOf
<1> DEFINE j == PF_GetThisPage(k, p)
           f == fx \cup {p}
           e == "AME_PF"
<1>2. j = K(b, st, np, ni, ax, nr, nv, f, rc, po, rec) \/ j = K(b, st, np, ni, ax, nr, nv, fx, e, po, rec)
  BY <1>1, CallGets
<1>3. CallTypes(st, np, ni, ax, f, rc, rec) /\ CallTypes(st, np, ni, ax, fx, e, rec)
  BY <1>1 DEF CallTypes, Codes
<1> HIDE DEF j, f, e
<1>4. CASE j = K(b, st, np, ni, ax, nr, nv, f, rc, po, rec)
  BY <1>4, <1>3, CallOfIs DEF j
<1>5. CASE j = K(b, st, np, ni, ax, nr, nv, fx, e, po, rec)
  BY <1>5, <1>3, CallOfIs DEF j
<1>6. QED
  BY <1>2, <1>4, <1>5

\* and one unfixed.
LEMMA CallOfUnfixes ==
  ASSUME NEW b, NEW k, CallOf(k, b), NEW p
  PROVE  CallOf(PF_UnfixPage(k, p), b)
<1>1. PICK st, np, ni, ax, nr, nv, fx, rc, po, rec : k = K(b, st, np, ni, ax, nr, nv, fx, rc, po, rec)
        /\ CallTypes(st, np, ni, ax, fx, rc, rec)
  BY DEF CallOf
<1> DEFINE j == PF_UnfixPage(k, p)
           f == fx \ {p}
           e == "AME_PF"
<1>2. j = K(b, st, np, ni, ax, nr, nv, f, rc, po, rec) \/ j = K(b, st, np, ni, ax, nr, nv, fx, e, po,
                                                                rec) \/ j = k
  BY <1>1, CallUnfixes
<1>3. CallTypes(st, np, ni, ax, f, rc, rec) /\ CallTypes(st, np, ni, ax, fx, e, rec)
  BY <1>1 DEF CallTypes, Codes
<1> HIDE DEF j, f, e
<1>4. CASE j = K(b, st, np, ni, ax, nr, nv, f, rc, po, rec)
  BY <1>4, <1>3, CallOfIs DEF j
<1>5. CASE j = K(b, st, np, ni, ax, nr, nv, fx, e, po, rec)
  BY <1>5, <1>3, CallOfIs DEF j
<1>6. QED
  BY <1>2, <1>4, <1>5 DEF j

\* A turn of the loop over empty leaves keeps the types of a call,
LEMMA SkipEmptyTyped ==
  ASSUME PagesAreOfType, NEW b, NEW k, CallOf(k, b)
  PROVE  CallOf(SkipEmpty(k), b)
<1> DEFINE l == Leaf(k)
           p == l.nextLeafPage
           u == PF_UnfixPage(k, k.row.nextpageNum)
           v == SetPage(u, p)
           g == PF_GetThisPage(v, p)
           o == SetStatus(k, "OVER")
           w == PF_UnfixPage(o, AM_NULL_PAGE)
           j == SkipEmpty(k)
<1>1. j = k \/ (p = AM_NULL_PAGE /\ j = w) \/ (p # AM_NULL_PAGE /\ (j = u \/ j = g \/ j = Anew(g, p)))
  BY SkipEmptyForm
<1>2. p = AM_NULL_PAGE \/ LeafAt(p)
  BY CallOfHas DEF PagesAreOfType, LeavesTyped, Leaf
<1>3. CallOf(u, b)
  BY CallOfUnfixes
<1>4. CallOf(o, b)
  BY CallOfStatus DEF Going
<1> HIDE DEF p, u, o, j
<1>5. CallOf(w, b)
  BY <1>4, CallOfUnfixes
<1>6. LeafAt(p) => CallOf(v, b)
  BY <1>3, CallOfGoes
<1> HIDE DEF v, w
<1>7. LeafAt(p) => CallOf(g, b)
  BY <1>6, CallOfGets DEF LeafAt
<1> HIDE DEF g
<1>8. LeafAt(p) => CallOf(Anew(g, p), b)
  BY <1>7, CallOfGoes
<1>9. QED
  BY <1>1, <1>2, <1>3, <1>5, <1>7, <1>8 DEF j

\* so its turns do,
LEMMA SkipTurnsTyped ==
  ASSUME PagesAreOfType, NEW b, NEW k, CallOf(k, b), NEW n \in Nat, NEW f, Skips(f, n, k)
  PROVE  CallOf(f[n], b)
<1> DEFINE T == {i \in Nat : i <= n => CallOf(f[i], b)}
<1>1. \A i \in 0 .. n : f[i] = SkipTurn(f, i, k)
  BY DEF Skips
<1>2. 0 \in T
  <2>1. 0 \in 0 .. n
    OBVIOUS
  <2>2. f[0] = k
    BY <1>1, <2>1 DEF SkipTurn
  <2>3. QED
    BY <2>2
<1>3. ASSUME NEW h \in Nat, h \in T PROVE h + 1 \in T
  <2> SUFFICES ASSUME h + 1 <= n PROVE CallOf(f[h + 1], b)
    OBVIOUS
  <2> DEFINE j == f[h]
             t == SkipEmpty(j)
  <2>1. f[h + 1] = t \/ f[h + 1] = j
    <3>1. h + 1 \in 0 .. n /\ h + 1 # 0 /\ (h + 1) - 1 = h
      OBVIOUS
    <3>2. QED
      BY <1>1, <3>1 DEF SkipTurn
  <2>2. CallOf(j, b)
    BY <1>3
  <2> HIDE DEF j
  <2>3. CallOf(t, b)
    BY <2>2, SkipEmptyTyped
  <2>4. QED
    BY <2>1, <2>2, <2>3
<1>4. Nat \subseteq T
  <2> HIDE DEF T
  <2>1. QED
    BY <1>2, <1>3, SetInduction
<1>5. QED
  BY <1>4

\* and the loop.
LEMMA SkipTyped ==
  ASSUME PagesAreOfType, NEW b, NEW k, CallOf(k, b)
  PROVE  CallOf(SkipEmptyLeaves(k), b)
<1> DEFINE F == CHOOSE f : Skips(f, NumPages, k)
<1>0. NumPages \in Nat
  BY DEF PagesAreOfType
<1>1. SkipEmptyLeaves(k) = F[NumPages]
  BY SkipForm
<1>2. Skips(F, NumPages, k)
  BY <1>0, SkipsExist
<1> HIDE DEF F
<1>3. CallOf(F[NumPages], b)
  BY <1>0, <1>2, SkipTurnsTyped
<1>4. QED
  BY <1>1, <1>3

\* The end of < and <= does,
LEMMA OvershotTyped ==
  ASSUME PagesAreOfType, NEW b, NEW k, CallOf(k, b)
  PROVE  CallOf(Overshot(k), b)
<1> DEFINE l == Leaf(k)
           o == SetStatus(k, "OVER")
           u == PF_UnfixPage(o, l.nextLeafPage)
           w == SetAnswer(u, "AME_EOF")
           j == Overshot(k)
<1>1. j = k \/ j = u \/ j = w
  BY OvershotForm
<1>2. CallOf(o, b)
  BY CallOfStatus DEF Going
<1> HIDE DEF l, o, j
<1>3. CallOf(u, b)
  BY <1>2, CallOfUnfixes
<1> HIDE DEF u
<1>4. CallOf(w, b)
  BY <1>3, CallOfAnswer DEF Codes
<1>5. QED
  BY <1>1, <1>3, <1>4 DEF j

\* the key that # excludes,
LEMMA SkipExcludedTyped ==
  ASSUME PagesAreOfType, NEW b, NEW k, CallOf(k, b)
  PROVE  CallOf(SkipExcluded(k), b)
<1> DEFINE l == Leaf(k)
           p == l.nextLeafPage
           u == PF_UnfixPage(k, k.row.nextpageNum)
           v == Goes(u, p, 1)
           g == PF_GetThisPage(v, p)
           w == SetAnswer(u, "AME_EOF")
           j == SkipExcluded(k)
<1>1. j = k \/ j = Stepped(k) \/ j = w \/ (p # AM_NULL_PAGE /\ (j = g \/ j = Pointed(g)))
  BY SkipExcludedForm
<1>2. p = AM_NULL_PAGE \/ LeafAt(p)
  BY CallOfHas DEF PagesAreOfType, LeavesTyped, Leaf
<1>3. CallOf(u, b)
  BY CallOfUnfixes
<1> HIDE DEF p, u, j
<1>4. CallOf(w, b)
  BY <1>3, CallOfAnswer DEF Codes
<1>5. LeafAt(p) => CallOf(v, b)
  BY <1>3, CallOfGoes
<1> HIDE DEF v, w
<1>6. LeafAt(p) => CallOf(g, b)
  BY <1>5, CallOfGets DEF LeafAt
<1> HIDE DEF g
<1>7. LeafAt(p) => CallOf(Pointed(g), b)
  BY <1>6, CallOfMoves
<1>8. CallOf(Stepped(k), b)
  BY CallOfMoves
<1>9. QED
  BY <1>1, <1>2, <1>4, <1>6, <1>7, <1>8 DEF j

\* the row that looks whether its key went,
LEMMA ResumedTyped ==
  ASSUME NEW b, NEW k, CallOf(k, b)
  PROVE  CallOf(Resumed(k), b)
<1> DEFINE o == SetStatus(k, "BUSY")
           j == Resumed(k)
<1>1. j = k \/ j = Noted(o) \/ j = Back(k)
  BY ResumedForm
<1>2. CallOf(o, b)
  BY CallOfStatus DEF Going
<1> HIDE DEF o, j
<1>3. CallOf(Noted(o), b) /\ CallOf(Back(k), b)
  BY <1>2, CallOfMoves
<1>4. QED
  BY <1>1, <1>3 DEF j

\* (a cell gives a record identifier or what is no record)
LEMMA CellTyped ==
  ASSUME PagesAreOfType, NEW p, LeafAt(p), NEW o
  PROVE  Cell(p, o).recId \in RecIds \cup {Junk}
<1>1. page[p].cell \in [DOMAIN page[p].cell -> CellRec]
  BY DEF PagesAreOfType, LeavesTyped
<1>2. CASE o \in DOMAIN page[p].cell
  BY <1>1, <1>2 DEF Cell, CellRec
<1>3. CASE o \notin DOMAIN page[p].cell
  BY <1>3 DEF Cell
<1>4. QED
  BY <1>2, <1>3

\* the record that is taken,
LEMMA TakenTyped ==
  ASSUME PagesAreOfType, NEW b, NEW k, CallOf(k, b)
  PROVE  CallOf(Taken(k), b)
<1> DEFINE l == Leaf(k)
           p == l.nextLeafPage
           cell == Cell(k.row.nextpageNum, k.row.nextRecIdPtr)
           h == Read(k, cell)
           v == Goes(h, p, 1)
           u == PF_UnfixPage(v, p)
           g == PF_GetThisPage(u, p)
           o == SetStatus(h, "OVER")
           j == Taken(k)
<1>1. j = h \/ j = Noted(Stepped(h)) \/ j = o \/ (p # AM_NULL_PAGE
                                                  /\ (j = u \/ j = g \/ j = Noted(Pointed(g))))
  BY TakenForm
<1>2. p = AM_NULL_PAGE \/ LeafAt(p)
  BY CallOfHas DEF PagesAreOfType, LeavesTyped, Leaf
<1>3. CallOf(h, b)
  <2>1. cell.recId \in RecIds \cup {Junk}
    BY CallOfHas, CellTyped
  <2> HIDE DEF cell
  <2>2. QED
    BY <2>1, CallOfReads
<1> HIDE DEF p, h, j
<1>4. CallOf(o, b)
  BY <1>3, CallOfStatus DEF Going
<1>5. LeafAt(p) => CallOf(v, b)
  BY <1>3, CallOfGoes
<1> HIDE DEF v, o
<1>6. LeafAt(p) => CallOf(u, b)
  BY <1>5, CallOfUnfixes
<1> HIDE DEF u
<1>7. LeafAt(p) => CallOf(g, b)
  BY <1>6, CallOfGets DEF LeafAt
<1> HIDE DEF g
<1>8. LeafAt(p) => CallOf(Noted(Pointed(g)), b)
  BY <1>7, CallOfMoves
<1>9. CallOf(Noted(Stepped(h)), b)
  BY <1>3, CallOfMoves
<1>10. QED
  BY <1>1, <1>2, <1>3, <1>4, <1>6, <1>7, <1>8, <1>9 DEF j

\* and the operator that is looked at.
LEMMA BoundedTyped ==
  ASSUME NEW b, NEW k, CallOf(k, b)
  PROVE  CallOf(Bounded(k), b)
<1> DEFINE e == NewStatus(k.row)
<1>1. Bounded(k) = SetStatus(k, e)
  BY BoundedForm
<1>2. e \in Going
  BY CallOfHas DEF NewStatus, Going
<1> HIDE DEF e
<1>3. CallOf(SetStatus(k, e), b)
  BY <1>2, CallOfStatus
<1>4. QED
  BY <1>1, <1>3

\* A call for the next entry of a row that is over, at no page, or at a leaf.
LEMMA NextTyped ==
  ASSUME PagesAreOfType, NEW b, NEW k, CallOf(k, b)
  PROVE  CallOf(NextEntry(k), b)
<1> DEFINE a == PF_GetThisPage(k, k.row.nextpageNum)
           B == IF a.rc = "" THEN SkipEmptyLeaves(a) ELSE a
           c == IF B.rc = "" THEN Overshot(B) ELSE B
           d == IF c.rc = "" THEN SkipExcluded(c) ELSE c
           e == IF d.rc = "" THEN Resumed(d) ELSE d
           f == IF e.rc = "" THEN Taken(e) ELSE e
           t == IF f.rc = "" THEN Bounded(f) ELSE f
           o == SetAnswer(k, "AME_EOF")
           q == SetStatus(k, "OVER")
           w == SetAnswer(q, "AME_EOF")
           j == NextEntry(k)
<1>1. NextForm(k, a, B, c, d, e, f, t)
  BY DEF NextForm
<1>2. CallOf(a, b)
  BY CallOfHas, CallOfGets DEF LeafAt
<1>3. CallOf(o, b)
  BY CallOfAnswer DEF Codes
<1>4. CallOf(q, b)
  BY CallOfStatus DEF Going
<1> HIDE DEF a, q
<1>5. CallOf(w, b)
  BY <1>4, CallOfAnswer DEF Codes
<1>6. CallOf(B, b)
  BY <1>2, SkipTyped
<1> HIDE DEF B
<1>7. CallOf(c, b)
  BY <1>6, OvershotTyped
<1> HIDE DEF c
<1>8. CallOf(d, b)
  BY <1>7, SkipExcludedTyped
<1> HIDE DEF d
<1>9. CallOf(e, b)
  BY <1>8, ResumedTyped
<1> HIDE DEF e
<1>10. CallOf(f, b)
  BY <1>9, TakenTyped
<1> HIDE DEF f
<1>11. CallOf(t, b)
  BY <1>10, BoundedTyped
<1> HIDE DEF t, o, w
<1>12. CallOf(Answered(t), b)
  BY <1>11, CallOfUnfixes DEF Answered
<1>13. j = (IF k.row.status = "OVER" THEN o
            ELSE IF k.row.nextpageNum = AM_NULL_PAGE THEN w
            ELSE IF t.rc = "" THEN Answered(t) ELSE t)
  BY <1>1, NextEntryForm DEF o, w, q
<1>14. QED
  BY <1>3, <1>5, <1>11, <1>12, <1>13

-----------------------------------------------------------------------------
(* The types of a row. *)

\* The types of a row, and where the row of an open scan stands.
Anywhere == PageNums \cup {AME_PF}
RowTyped(r) ==
  /\ IsRow(r) /\ r.status \in {"FREE"} \cup Going /\ r.op \in {"ALL"} \cup Ops
  /\ r.pageNum \in PageNums /\ r.lastpageNum \in PageNums /\ r.nextpageNum \in Anywhere
  /\ r.index \in Nat /\ r.actindex \in Nat /\ r.lastIndex \in Nat /\ r.nextIndex \in Int
Stands(r) == r.status = "OVER" \/ r.nextpageNum \in Stops

\* What a row by its parts has.
LEMMA RowAtHas ==
  ASSUME NEW b, NEW st, NEW np, NEW ni, NEW ax, NEW nr, NEW nv, NEW r,
         r = RowAt(b, st, np, ni, ax, nr, nv)
  PROVE  /\ IsRow(r) /\ r.status = st /\ r.op = b.op /\ r.pageNum = b.pageNum /\ r.index = b.index
         /\ r.actindex = ax /\ r.nextpageNum = np /\ r.nextvalue = nv /\ r.nextIndex = ni
         /\ r.nextRecIdPtr = nr /\ r.lastpageNum = b.lastpageNum /\ r.lastIndex = b.lastIndex
BY DEF RowAt, IsRow, RowOf

\* The row of a call is a row of its type at a leaf.
LEMMA CallRowTyped ==
  ASSUME NEW b, RowTyped(b), NEW k, CallOf(k, b)
  PROVE  /\ RowTyped(k.row) /\ Stands(k.row) /\ k.row.status # "FREE" /\ k.fixed \subseteq DOMAIN page
         /\ k.rc \in Codes /\ k.rec \in RecIds \cup {Junk}
<1>1. PICK st, np, ni, ax, nr, nv, fx, rc, po, rec : k = K(b, st, np, ni, ax, nr, nv, fx, rc, po, rec)
        /\ CallTypes(st, np, ni, ax, fx, rc, rec)
  BY DEF CallOf
<1>2. k.row = RowAt(b, st, np, ni, ax, nr, nv) /\ k.fixed = fx /\ k.rc = rc /\ k.rec = rec
  BY <1>1, CallHas
<1> DEFINE r == k.row
<1> HIDE DEF r
<1>3. /\ IsRow(r) /\ r.status = st /\ r.op = b.op /\ r.pageNum = b.pageNum /\ r.index = b.index
      /\ r.actindex = ax /\ r.nextpageNum = np /\ r.nextIndex = ni
      /\ r.lastpageNum = b.lastpageNum /\ r.lastIndex = b.lastIndex
  BY <1>2, RowAtHas DEF r
<1>4. RowTyped(r) /\ Stands(r) /\ r.status # "FREE"
  BY <1>1, <1>3 DEF RowTyped, Stands, CallTypes, Going, Stops, Anywhere, PageNums, Leaves, LeafAt
<1>5. QED
  BY <1>1, <1>2, <1>4 DEF CallTypes, r

\* Every row is one by its parts.
LEMMA RowIsAt ==
  ASSUME NEW r, IsRow(r)
  PROVE  r = RowAt(r, r.status, r.nextpageNum, r.nextIndex, r.actindex, r.nextRecIdPtr, r.nextvalue)
BY DEF IsRow, RowOf, RowAt

\* A row at a leaf begins a call.
LEMMA AskedCalls ==
  ASSUME NEW row, RowTyped(row), row.status # "FREE", LeafAt(row.nextpageNum), NEW fx,
         fx \subseteq DOMAIN page,
         NEW pool
  PROVE  CallOf(Asked(row, fx, pool), row)
<1> DEFINE st == row.status
           np == row.nextpageNum
           ni == row.nextIndex
           ax == row.actindex
           nr == row.nextRecIdPtr
           nv == row.nextvalue
           k == Asked(row, fx, pool)
           rc == ""
           x == RowAt(row, st, np, ni, ax, nr, nv)
<1>1. row = x
  BY RowIsAt DEF RowTyped
<1>2. k = Call(row, fx, rc, pool, Junk)
  BY DEF Asked, Call
<1>3. k = K(row, st, np, ni, ax, nr, nv, fx, rc, pool, Junk)
  <2> HIDE DEF k, st, np, ni, ax, nr, nv, rc
  <2>1. QED
    BY <1>1, <1>2 DEF K
<1>4. CallTypes(st, np, ni, ax, fx, rc, Junk)
  BY DEF CallTypes, RowTyped, Codes
<1> HIDE DEF k, st, np, ni, ax, nr, nv, rc
<1>5. CallOf(k, row)
  BY <1>3, <1>4, CallOfIs
<1>6. QED
  BY <1>5 DEF k

\* What a call for the next entry leaves.
Outcome(k) ==
  /\ RowTyped(k.row) /\ Stands(k.row) /\ k.row.status # "FREE" /\ k.fixed \subseteq DOMAIN page
  /\ k.rc \in Codes /\ k.rec \in RecIds \cup {Junk}

\* A row that is over,
LEMMA OverRow ==
  ASSUME NEW row, RowTyped(row)
  PROVE  LET r == [row EXCEPT !.status = "OVER"] IN RowTyped(r) /\ Stands(r) /\ r.status # "FREE"
<1> DEFINE r == [row EXCEPT !.status = "OVER"]
<1>1. IsRow(row)
  BY DEF RowTyped
<1>2. r = RowOf("OVER", row.op, row.pageNum, row.index, row.actindex, row.nextpageNum, row.nextvalue,
                row.nextIndex,
            row.nextRecIdPtr, row.lastpageNum, row.lastIndex)
  BY <1>1 DEF IsRow, RowOf
<1> HIDE DEF r
<1>3. /\ r.status = "OVER" /\ r.op = row.op /\ r.pageNum = row.pageNum /\ r.index = row.index
      /\ r.actindex = row.actindex /\ r.nextpageNum = row.nextpageNum /\ r.nextIndex = row.nextIndex
      /\ r.lastpageNum = row.lastpageNum /\ r.lastIndex = row.lastIndex /\ IsRow(r)
  BY <1>2 DEF RowOf, IsRow
<1>4. RowTyped(r) /\ Stands(r) /\ r.status # "FREE"
  BY <1>3 DEF RowTyped, Stands, Going
<1>5. QED
  BY <1>4 DEF r

\* or given back.
LEMMA FreeRow ==
  ASSUME NEW row, RowTyped(row)
  PROVE  RowTyped([row EXCEPT !.status = "FREE"])
<1> DEFINE r == [row EXCEPT !.status = "FREE"]
<1>1. IsRow(row)
  BY DEF RowTyped
<1>2. r = RowOf("FREE", row.op, row.pageNum, row.index, row.actindex, row.nextpageNum, row.nextvalue,
                row.nextIndex,
            row.nextRecIdPtr, row.lastpageNum, row.lastIndex)
  BY <1>1 DEF IsRow, RowOf
<1> HIDE DEF r
<1>3. /\ r.status = "FREE" /\ r.op = row.op /\ r.pageNum = row.pageNum /\ r.index = row.index
      /\ r.actindex = row.actindex /\ r.nextpageNum = row.nextpageNum /\ r.nextIndex = row.nextIndex
      /\ r.lastpageNum = row.lastpageNum /\ r.lastIndex = row.lastIndex /\ IsRow(r)
  BY <1>2 DEF RowOf, IsRow
<1>4. RowTyped(r)
  BY <1>3 DEF RowTyped
<1>5. QED
  BY <1>4 DEF r

\* So AM_FindNextEntry leaves a row of its type, at a leaf, at none or over.
LEMMA NextOutcome ==
  ASSUME PagesAreOfType, NEW row, RowTyped(row), row.status # "FREE", Stands(row), NEW fx,
         fx \subseteq DOMAIN page,
         NEW pool, NEW k, k = Asked(row, fx, pool)
  PROVE  Outcome(NextEntry(k))
<1>1. k.row = row /\ k.fixed = fx /\ k.rec = Junk /\ k.rc = ""
  BY DEF Asked
<1>2. CASE row.status = "OVER"
  <2> DEFINE j == [k EXCEPT !.rc = "AME_EOF"]
  <2>1. NextEntry(k) = j
    BY <1>1, <1>2, Zenon DEF NextEntry
  <2>2. j.row = row /\ j.fixed = fx /\ j.rec = Junk /\ j.rc = "AME_EOF"
    BY DEF Asked
  <2>3. QED
    BY <2>1, <2>2, <1>2 DEF Outcome, Codes
<1>3. CASE row.status # "OVER" /\ row.nextpageNum = AM_NULL_PAGE
  <2> DEFINE r == [row EXCEPT !.status = "OVER"]
             j == [k EXCEPT !.rc = "AME_EOF", !.row.status = "OVER"]
  <2>1. NextEntry(k) = j
    BY <1>1, <1>3, Zenon DEF NextEntry
  <2>2. j.row = r /\ j.fixed = fx /\ j.rec = Junk /\ j.rc = "AME_EOF"
    BY DEF Asked
  <2>3. RowTyped(r) /\ Stands(r) /\ r.status # "FREE"
    BY OverRow
  <2> HIDE DEF r, j
  <2>4. QED
    BY <2>1, <2>2, <2>3 DEF Outcome, Codes
<1>4. CASE row.status # "OVER" /\ row.nextpageNum # AM_NULL_PAGE
  <2>1. LeafAt(row.nextpageNum)
    BY <1>4 DEF Stands, Stops, Leaves, LeafAt
  <2>2. CallOf(k, row)
    BY <2>1, AskedCalls
  <2> DEFINE j == NextEntry(k)
  <2>3. CallOf(j, row)
    BY <2>2, NextTyped
  <2> HIDE DEF j
  <2>4. Outcome(j)
    BY <2>3, CallRowTyped DEF Outcome
  <2>5. QED
    BY <2>4 DEF j
<1>5. QED
  BY <1>2, <1>3, <1>4

-----------------------------------------------------------------------------
(* The types of a call that opens a scan. *)

Pos == Nat \ {0}
OpTypes(A, P, N, I, U, st, op, pn, ix, ax, np, ni, lp, li, fx, rc, buf) ==
  /\ st \in Going /\ op \in A /\ pn \in P /\ ix \in I /\ ax \in Nat /\ np \in N /\ ni \in Int
  /\ lp \in PageNums /\ li \in Nat /\ fx \subseteq DOMAIN page /\ rc \in Codes /\ buf \in U
\* A call that opens a scan, with its operator, its place, its next page, its index
\* and its buffer among those given.
OpenOf(k, A, P, N, I, U) ==
  \E st, op, pn, ix, ax, np, nv, ni, nr, lp, li, fx, rc, po,
    buf : k = Op(st, op, pn, ix, ax, np, nv, ni, nr, lp, li, fx, rc, po, buf)
      /\ OpTypes(A, P, N, I, U, st, op, pn, ix, ax, np, ni, lp, li, fx, rc, buf)

\* A call given by its parts is one,
LEMMA OpenOfIs ==
  ASSUME NEW st, NEW op, NEW pn, NEW ix, NEW ax, NEW np, NEW nv, NEW ni, NEW nr, NEW lp, NEW li, NEW fx,
         NEW rc, NEW po, NEW buf, NEW k,
           k = Op(st, op, pn, ix, ax, np, nv, ni, nr, lp, li, fx, rc, po, buf), NEW A, NEW P, NEW N,
             NEW I, NEW U,
         OpTypes(A, P, N, I, U, st, op, pn, ix, ax, np, ni, lp, li, fx, rc, buf)
  PROVE  OpenOf(k, A, P, N, I, U)
BY DEF OpenOf

\* what such a call has,
LEMMA OpenOfHas ==
  ASSUME NEW k, NEW A, NEW P, NEW N, NEW I, NEW U, OpenOf(k, A, P, N, I, U)
  PROVE  /\ k.row.op \in A /\ k.row.pageNum \in P /\ k.row.nextpageNum \in N /\ k.row.index \in I
            /\ k.buf \in U
         /\ k.rc \in Codes /\ k.fixed \subseteq DOMAIN page /\ IsRow(k.row) /\ k.row.status \in Going
         /\ k.row.lastpageNum \in PageNums /\ k.row.lastIndex \in Nat /\ k.row.actindex \in Nat
            /\ k.row.nextIndex \in Int
<1>1. PICK st, op, pn, ix, ax, np, nv, ni, nr, lp, li, fx, rc, po,
        buf : k = Op(st, op, pn, ix, ax, np, nv, ni, nr, lp, li, fx, rc, po, buf)
          /\ OpTypes(A, P, N, I, U, st, op, pn, ix, ax, np, ni, lp, li, fx, rc, buf)
  BY DEF OpenOf
<1>2. /\ k.row.op = op /\ k.row.pageNum = pn /\ k.row.nextpageNum = np /\ k.row.index = ix /\ k.buf = buf
      /\ k.rc = rc /\ k.fixed = fx /\ IsRow(k.row) /\ k.row.status = st
      /\ k.row.lastpageNum = lp /\ k.row.lastIndex = li /\ k.row.actindex = ax /\ k.row.nextIndex = ni
  BY <1>1, OpHas
<1>3. QED
  BY <1>1, <1>2 DEF OpTypes

\* and that it is one among more.
LEMMA OpenOfMore ==
  ASSUME NEW k, NEW A, NEW P, NEW N, NEW I, NEW U, OpenOf(k, A, P, N, I, U),
         NEW A2, NEW P2, NEW N2, NEW I2, NEW U2, A \subseteq A2, P \subseteq P2, N \subseteq N2,
           I \subseteq I2, U \subseteq U2
  PROVE  OpenOf(k, A2, P2, N2, I2, U2)
<1>1. PICK st, op, pn, ix, ax, np, nv, ni, nr, lp, li, fx, rc, po,
        buf : k = Op(st, op, pn, ix, ax, np, nv, ni, nr, lp, li, fx, rc, po, buf)
          /\ OpTypes(A, P, N, I, U, st, op, pn, ix, ax, np, ni, lp, li, fx, rc, buf)
  BY DEF OpenOf
<1>2. OpTypes(A2, P2, N2, I2, U2, st, op, pn, ix, ax, np, ni, lp, li, fx, rc, buf)
  BY <1>1 DEF OpTypes
<1>3. QED
  BY <1>1, <1>2, OpenOfIs

\* Each part that is set is among those given.
LEMMA OpenOfSets ==
  ASSUME NEW k, NEW A, NEW P, NEW N, NEW I, NEW U, OpenOf(k, A, P, N, I, U), NEW e
  PROVE  /\ e \in Going => OpenOf(SetStatus(k, e), A, P, N, I, U) /\ SetStatus(k, e).row.status = e
         /\ OpenOf(SetHead(k, e), A, P, N, I, U)
         /\ \A P2 : e \in P2 => OpenOf(SetPlace(k, e), A, P2, N, I, U)
         /\ \A I2 : e \in I2 => OpenOf(SetIndex(k, e), A, P, N, I2, U)
         /\ \A U2 : e \in U2 => OpenOf(SetBuf(k, e), A, P, N, I, U2)
         /\ e \in PageNums => OpenOf(SetLastPage(k, e), A, P, N, I, U)
         /\ e \in Nat => OpenOf(SetLastIndex(k, e), A, P, N, I, U)
<1>1. PICK st, op, pn, ix, ax, np, nv, ni, nr, lp, li, fx, rc, po,
        buf : k = Op(st, op, pn, ix, ax, np, nv, ni, nr, lp, li, fx, rc, po, buf)
          /\ OpTypes(A, P, N, I, U, st, op, pn, ix, ax, np, ni, lp, li, fx, rc, buf)
  BY DEF OpenOf
<1>2. ASSUME e \in Going PROVE OpenOf(SetStatus(k, e), A, P, N, I, U) /\ SetStatus(k, e).row.status = e
  <2> DEFINE j == SetStatus(k, e)
  <2>1. j = Op(e, op, pn, ix, ax, np, nv, ni, nr, lp, li, fx, rc, po, buf)
    BY <1>1, OpStatus
  <2>2. OpTypes(A, P, N, I, U, e, op, pn, ix, ax, np, ni, lp, li, fx, rc, buf)
    BY <1>1, <1>2 DEF OpTypes
  <2> HIDE DEF j
  <2>3. OpenOf(j, A, P, N, I, U)
    BY <2>1, <2>2, OpenOfIs
  <2>4. j.row.status = e
    BY <2>1, OpHas
  <2>5. QED
    BY <2>3, <2>4 DEF j
<1>3. OpenOf(SetHead(k, e), A, P, N, I, U)
  <2> DEFINE j == SetHead(k, e)
  <2>1. j = Op(st, op, pn, ix, ax, np, nv, ni, e, lp, li, fx, rc, po, buf)
    BY <1>1, OpHead
  <2> HIDE DEF j
  <2>2. OpenOf(j, A, P, N, I, U)
    BY <1>1, <2>1, OpenOfIs
  <2>3. QED
    BY <2>2 DEF j
<1>4. ASSUME NEW P2, e \in P2 PROVE OpenOf(SetPlace(k, e), A, P2, N, I, U)
  <2> DEFINE j == SetPlace(k, e)
  <2>1. j = Op(st, op, e, ix, ax, np, nv, ni, nr, lp, li, fx, rc, po, buf)
    BY <1>1, OpPlace
  <2>2. OpTypes(A, P2, N, I, U, st, op, e, ix, ax, np, ni, lp, li, fx, rc, buf)
    BY <1>1, <1>4 DEF OpTypes
  <2> HIDE DEF j
  <2>3. OpenOf(j, A, P2, N, I, U)
    BY <2>1, <2>2, OpenOfIs
  <2>4. QED
    BY <2>3 DEF j
<1>5. ASSUME NEW I2, e \in I2 PROVE OpenOf(SetIndex(k, e), A, P, N, I2, U)
  <2> DEFINE j == SetIndex(k, e)
  <2>1. j = Op(st, op, pn, e, ax, np, nv, ni, nr, lp, li, fx, rc, po, buf)
    BY <1>1, OpIndex
  <2>2. OpTypes(A, P, N, I2, U, st, op, pn, e, ax, np, ni, lp, li, fx, rc, buf)
    BY <1>1, <1>5 DEF OpTypes
  <2> HIDE DEF j
  <2>3. OpenOf(j, A, P, N, I2, U)
    BY <2>1, <2>2, OpenOfIs
  <2>4. QED
    BY <2>3 DEF j
<1>6. ASSUME NEW U2, e \in U2 PROVE OpenOf(SetBuf(k, e), A, P, N, I, U2)
  <2> DEFINE j == SetBuf(k, e)
  <2>1. j = Op(st, op, pn, ix, ax, np, nv, ni, nr, lp, li, fx, rc, po, e)
    BY <1>1, OpBuf
  <2>2. OpTypes(A, P, N, I, U2, st, op, pn, ix, ax, np, ni, lp, li, fx, rc, e)
    BY <1>1, <1>6 DEF OpTypes
  <2> HIDE DEF j
  <2>3. OpenOf(j, A, P, N, I, U2)
    BY <2>1, <2>2, OpenOfIs
  <2>4. QED
    BY <2>3 DEF j
<1>7. ASSUME e \in PageNums PROVE OpenOf(SetLastPage(k, e), A, P, N, I, U)
  <2> DEFINE j == SetLastPage(k, e)
  <2>1. j = Op(st, op, pn, ix, ax, np, nv, ni, nr, e, li, fx, rc, po, buf)
    BY <1>1, OpLastPage
  <2>2. OpTypes(A, P, N, I, U, st, op, pn, ix, ax, np, ni, e, li, fx, rc, buf)
    BY <1>1, <1>7 DEF OpTypes
  <2> HIDE DEF j
  <2>3. OpenOf(j, A, P, N, I, U)
    BY <2>1, <2>2, OpenOfIs
  <2>4. QED
    BY <2>3 DEF j
<1>8. ASSUME e \in Nat PROVE OpenOf(SetLastIndex(k, e), A, P, N, I, U)
  <2> DEFINE j == SetLastIndex(k, e)
  <2>1. j = Op(st, op, pn, ix, ax, np, nv, ni, nr, lp, e, fx, rc, po, buf)
    BY <1>1, OpLastIndex
  <2>2. OpTypes(A, P, N, I, U, st, op, pn, ix, ax, np, ni, lp, e, fx, rc, buf)
    BY <1>1, <1>8 DEF OpTypes
  <2> HIDE DEF j
  <2>3. OpenOf(j, A, P, N, I, U)
    BY <2>1, <2>2, OpenOfIs
  <2>4. QED
    BY <2>3 DEF j
<1>9. QED
  BY <1>2, <1>3, <1>4, <1>5, <1>6, <1>7, <1>8

\* Its row goes to a page,
LEMMA OpenOfGoes ==
  ASSUME NEW k, NEW A, NEW P, NEW N, NEW I, NEW U, OpenOf(k, A, P, N, I, U), NEW N2, NEW p \in N2,
         NEW i \in Nat
  PROVE  OpenOf(Goes(k, p, i), A, P, N2, I, U)
<1>1. PICK st, op, pn, ix, ax, np, nv, ni, nr, lp, li, fx, rc, po,
        buf : k = Op(st, op, pn, ix, ax, np, nv, ni, nr, lp, li, fx, rc, po, buf)
          /\ OpTypes(A, P, N, I, U, st, op, pn, ix, ax, np, ni, lp, li, fx, rc, buf)
  BY DEF OpenOf
<1> DEFINE j == Goes(k, p, i)
<1>2. j = Op(st, op, pn, ix, i, p, nv, i, nr, lp, li, fx, rc, po, buf)
  BY <1>1, OpGoes
<1>3. OpTypes(A, P, N2, I, U, st, op, pn, ix, i, p, i, lp, li, fx, rc, buf)
  BY <1>1 DEF OpTypes
<1> HIDE DEF j
<1>4. OpenOf(j, A, P, N2, I, U)
  BY <1>2, <1>3, OpenOfIs
<1>5. QED
  BY <1>4 DEF j

\* or is that of a scan of all entries,
LEMMA OpenOfAll ==
  ASSUME NEW k, NEW A, NEW P, NEW N, NEW I, NEW U, OpenOf(k, A, P, N, I, U), "ALL" \in A, NEW N2,
         NEW p \in N2
  PROVE  OpenOf(AllFrom(k, p), A, P, N2, I, U)
<1>1. PICK st, op, pn, ix, ax, np, nv, ni, nr, lp, li, fx, rc, po,
        buf : k = Op(st, op, pn, ix, ax, np, nv, ni, nr, lp, li, fx, rc, po, buf)
          /\ OpTypes(A, P, N, I, U, st, op, pn, ix, ax, np, ni, lp, li, fx, rc, buf)
  BY DEF OpenOf
<1> DEFINE j == AllFrom(k, p)
           one == 1
           all == "ALL"
<1>2. j = Op(st, all, pn, ix, one, p, nv, one, nr, lp, li, fx, rc, po, buf)
  BY <1>1, AllFromIs
<1>3. OpTypes(A, P, N2, I, U, st, all, pn, ix, one, p, one, lp, li, fx, rc, buf)
  BY <1>1 DEF OpTypes
<1> HIDE DEF j, one, all
<1>4. OpenOf(j, A, P, N2, I, U)
  BY <1>2, <1>3, OpenOfIs
<1>5. QED
  BY <1>4 DEF j

\* it fails,
LEMMA OpenOfFails ==
  ASSUME NEW k, NEW A, NEW P, NEW N, NEW I, NEW U, OpenOf(k, A, P, N, I, U)
  PROVE  OpenOf(Fail(k), A, P, N, I, U) /\ Fail(k).rc = "AME_PF"
<1>1. PICK st, op, pn, ix, ax, np, nv, ni, nr, lp, li, fx, rc, po,
        buf : k = Op(st, op, pn, ix, ax, np, nv, ni, nr, lp, li, fx, rc, po, buf)
          /\ OpTypes(A, P, N, I, U, st, op, pn, ix, ax, np, ni, lp, li, fx, rc, buf)
  BY DEF OpenOf
<1> DEFINE j == Fail(k)
           e == "AME_PF"
<1>2. j = Op(st, op, pn, ix, ax, np, nv, ni, nr, lp, li, fx, e, po, buf)
  BY <1>1, OpFail
<1>3. OpTypes(A, P, N, I, U, st, op, pn, ix, ax, np, ni, lp, li, fx, e, buf)
  BY <1>1 DEF OpTypes, Codes
<1> HIDE DEF j, e
<1>4. OpenOf(j, A, P, N, I, U) /\ j.rc = e
  BY <1>2, <1>3, OpenOfIs, OpHas
<1>5. QED
  BY <1>4 DEF j, e

\* a page is fixed,
LEMMA OpenOfGets ==
  ASSUME NEW k, NEW A, NEW P, NEW N, NEW I, NEW U, OpenOf(k, A, P, N, I, U), NEW p
  PROVE  /\ OpenOf(PF_GetThisPage(k, p), A, P, N, I, U)
         /\ p \notin DOMAIN page => PF_GetThisPage(k, p).rc = "AME_PF"
<1>1. PICK st, op, pn, ix, ax, np, nv, ni, nr, lp, li, fx, rc, po,
        buf : k = Op(st, op, pn, ix, ax, np, nv, ni, nr, lp, li, fx, rc, po, buf)
          /\ OpTypes(A, P, N, I, U, st, op, pn, ix, ax, np, ni, lp, li, fx, rc, buf)
  BY DEF OpenOf
<1> DEFINE j == PF_GetThisPage(k, p)
           f == fx \cup {p}
           e == "AME_PF"
<1>2. \/ p \in DOMAIN page /\ j = Op(st, op, pn, ix, ax, np, nv, ni, nr, lp, li, f, rc, po, buf)
      \/ j = Op(st, op, pn, ix, ax, np, nv, ni, nr, lp, li, fx, e, po, buf)
  BY <1>1, OpGets
<1>3. OpTypes(A, P, N, I, U, st, op, pn, ix, ax, np, ni, lp, li, fx, e, buf)
  BY <1>1 DEF OpTypes, Codes
<1>4. p \in DOMAIN page => OpTypes(A, P, N, I, U, st, op, pn, ix, ax, np, ni, lp, li, f, rc, buf)
  BY <1>1 DEF OpTypes, Codes
<1> HIDE DEF j, f, e
<1>5. CASE p \in DOMAIN page /\ j = Op(st, op, pn, ix, ax, np, nv, ni, nr, lp, li, f, rc, po, buf)
  <2>1. OpenOf(j, A, P, N, I, U)
    BY <1>4, <1>5, OpenOfIs
  <2>2. QED
    BY <1>5, <2>1 DEF j
<1>6. CASE j = Op(st, op, pn, ix, ax, np, nv, ni, nr, lp, li, fx, e, po, buf)
  <2>1. OpenOf(j, A, P, N, I, U)
    BY <1>3, <1>6, OpenOfIs
  <2>2. j.rc = e
    BY <1>6, OpHas
  <2>3. QED
    BY <2>1, <2>2 DEF j, e
<1>7. QED
  BY <1>2, <1>5, <1>6

\* and one unfixed.
LEMMA OpenOfUnfixes ==
  ASSUME NEW k, NEW A, NEW P, NEW N, NEW I, NEW U, OpenOf(k, A, P, N, I, U), NEW p
  PROVE  OpenOf(PF_UnfixPage(k, p), A, P, N, I, U) /\ PF_UnfixPage(k, p).row = k.row
<1>1. PICK st, op, pn, ix, ax, np, nv, ni, nr, lp, li, fx, rc, po,
        buf : k = Op(st, op, pn, ix, ax, np, nv, ni, nr, lp, li, fx, rc, po, buf)
          /\ OpTypes(A, P, N, I, U, st, op, pn, ix, ax, np, ni, lp, li, fx, rc, buf)
  BY DEF OpenOf
<1> DEFINE j == PF_UnfixPage(k, p)
           f == fx \ {p}
           e == "AME_PF"
<1>2. j = Op(st, op, pn, ix, ax, np, nv, ni, nr, lp, li, f, rc, po, buf) \/ j = Op(st, op, pn, ix, ax, np,
                                                                                   nv, ni, nr, lp, li, fx, e, po, buf) \/ j = k
  BY <1>1, OpUnfixes
<1>3. OpTypes(A, P, N, I, U, st, op, pn, ix, ax, np, ni, lp, li, f, rc, buf)
      /\ OpTypes(A, P, N, I, U, st, op, pn, ix, ax, np, ni, lp, li, fx, e, buf)
  BY <1>1 DEF OpTypes, Codes
<1> HIDE DEF j, f, e
<1>4. OpenOf(j, A, P, N, I, U)
  BY <1>1, <1>2, <1>3, OpenOfIs
<1> DEFINE r == RowOf(st, op, pn, ix, ax, np, nv, ni, nr, lp, li)
<1>5. k.row = r
  BY <1>1, OpHas
<1>6. j = Op(st, op, pn, ix, ax, np, nv, ni, nr, lp, li, f, rc, po, buf) => j.row = r
  BY OpHas
<1>7. j = Op(st, op, pn, ix, ax, np, nv, ni, nr, lp, li, fx, e, po, buf) => j.row = r
  BY OpHas
<1>8. QED
  BY <1>2, <1>4, <1>5, <1>6, <1>7 DEF j

\* The leftmost page is a leaf.
LEMMA LeftLeaf == TreeInv => GetLeftPageNum \in Leaves
<1> SUFFICES ASSUME TreeInv PROVE GetLeftPageNum \in Leaves
  OBVIOUS
<1>1. PICK m, E, rk : Tree(page, m, E, E, rk, acked, -1, 0) /\ Linked(page, m, E)
  BY DEF TreeInv, HoldsAcked
<1>2. m \in Nat \ {0} /\ DOMAIN page = 0 .. m - 1
  BY <1>1, TreePages
<1>3. FirstOK(page, E, m)
  BY <1>1 DEF Linked
<1>4. QED
  BY <1>2, <1>3 DEF FirstOK, GetLeftPageNum, IsLeaf, Leaves, AM_RootPageNum

\* The root is a page.
LEMMA RootIn == TreeInv => AM_RootPageNum \in DOMAIN page
<1> SUFFICES ASSUME TreeInv PROVE AM_RootPageNum \in DOMAIN page
  OBVIOUS
<1>1. PICK m, E, rk : Tree(page, m, E, E, rk, acked, -1, 0)
  BY DEF TreeInv, HoldsAcked
<1>2. m \in Nat \ {0} /\ DOMAIN page = 0 .. m - 1
  BY <1>1, TreePages
<1>3. QED
  BY <1>2 DEF AM_RootPageNum

\* The form of Beyond.
BeyondIs(k, p, q, x, g, u) ==
  Beyond(k, p) = IF q = AM_NULL_PAGE THEN SetPlace(k, AM_NULL_PAGE)
                 ELSE IF g.rc # "" THEN g
                 ELSE IF u.rc # "" THEN u
                 ELSE SetIndex(SetPlace(SetBuf(u, q), x), 1)

\* That is it,
LEMMA BeyondForm ==
  ASSUME NEW k, NEW p, NEW q, q = page[p].nextLeafPage, NEW x, x = page[q].nextLeafPage,
         NEW g, g = PF_GetThisPage(k, q), NEW u, u = PF_UnfixPage(g, x)
  PROVE  BeyondIs(k, p, q, x, g, u)
<1> DEFINE w == [u EXCEPT !.buf = q, !.row.pageNum = x, !.row.index = 1]
<1>1. Beyond(k, p) = IF q = AM_NULL_PAGE THEN [k EXCEPT !.row.pageNum = AM_NULL_PAGE]
                     ELSE IF g.rc = "" THEN IF u.rc = "" THEN w ELSE u ELSE g
  BY Zenon DEF Beyond, Then
<1>2. w = SetIndex(SetPlace(SetBuf(u, q), x), 1)
  BY Zenon DEF SetIndex, SetPlace, SetBuf
<1>3. QED
  BY <1>1, <1>2, Zenon DEF SetPlace, BeyondIs
LeftwardIs(k, p, q, a, g) ==
  FromLeft(k, p, q) = IF p = q THEN SetHead(a, KeyHead(k.buf, 1))
                      ELSE IF g.rc = "" THEN PF_UnfixPage(SetHead(g, KeyHead(q, 1)), q) ELSE g

\* and of FromLeft,
LEMMA LeftwardForm ==
  ASSUME NEW k, NEW p, NEW q, NEW a, a = Goes(k, q, 1), NEW g, g = PF_GetThisPage(a, q)
  PROVE  LeftwardIs(k, p, q, a, g)
BY Zenon DEF FromLeft, Then, Goes, SetHead, LeftwardIs
Onwards(k, q) ==
  LET g == PF_GetThisPage(Goes(k, q, 1), q)
  IN  IF g.rc = "" THEN PF_UnfixPage(SetHead(g, KeyHead(q, 1)), q) ELSE g
\* What Position does, but for #.
Named == {"EQUAL", "LESS_THAN", "GREATER_THAN", "LESS_THAN_EQUAL", "GREATER_THAN_EQUAL"}

\* and of Position: what it may do.
LEMMA PositionCases ==
  ASSUME NEW k, NEW p, NEW left, NEW found \in BOOLEAN, NEW q, q = page[k.buf].nextLeafPage, NEW o, o = k.row.op,
         NEW i, i = k.row.index,
         o \in {"EQUAL", "LESS_THAN", "GREATER_THAN", "LESS_THAN_EQUAL", "GREATER_THAN_EQUAL"}
  PROVE  \/ Position(k, p, found, left) = FromHere(LastAt(k, i), i)
         \/ Position(k, p, found, left) = SetStatus(k, "OVER")
         \/ Position(k, p, found, left) = FromLeft(LastAt(k, i - 1), p, left)
         \/ Position(k, p, found, left) = FromLeft(LastAt(k, i), p, left)
         \/ Position(k, p, found, left) = FromHere(k, i)
         \/ Position(k, p, found, left) = FromHere(k, i + 1)
         \/ q # AM_NULL_PAGE /\ Position(k, p, found, left) = Onwards(k, q)
<1>1. CASE o = "EQUAL"
  BY <1>1, Zenon DEF Position, LastAt, SetStatus
<1>2. CASE o = "LESS_THAN"
  BY <1>2, Zenon DEF Position, LastAt
<1>3. CASE o = "LESS_THAN_EQUAL"
  BY <1>3, Zenon DEF Position, LastAt
<1>4. CASE o = "GREATER_THAN_EQUAL" \/ (o = "GREATER_THAN" /\ ~ found)
  BY <1>4 DEF Position
<1>5. CASE o = "GREATER_THAN" /\ found
  <2>1. Position(k, p, found, left) =
          IF i + 1 <= page[k.buf].numKeys THEN FromHere(k, i + 1)
          ELSE IF q = AM_NULL_PAGE THEN SetStatus(k, "OVER")
          ELSE Then(PF_GetThisPage([k EXCEPT !.row = At(@, q, 1)], q), LAMBDA g :
                    PF_UnfixPage([g EXCEPT !.row.nextRecIdPtr = KeyHead(q, 1)], q))
    BY <1>5 DEF Position, SetStatus
  <2>2. Onwards(k, q) = Then(PF_GetThisPage([k EXCEPT !.row = At(@, q, 1)], q), LAMBDA g :
                    PF_UnfixPage([g EXCEPT !.row.nextRecIdPtr = KeyHead(q, 1)], q))
    BY Zenon DEF Onwards, Then, Goes, SetHead
  <2>3. QED
    BY <2>1, <2>2, Zenon
<1>7. QED
  BY <1>1, <1>2, <1>3, <1>4, <1>5

AllOps == {"ALL"} \cup Ops
Opening(k, A, P, N, I) == OpenOf(k, A, P, N, I, DOMAIN page)
\* The answer of a call that opens a scan.
Opens2(k) == Opening(k, AllOps, PageNums, Anywhere, Nat) /\ (k.rc = "" => Stands(k.row))

\* Where a row may stand.
LEMMA PlacesAre == Leaves \subseteq Stops /\ Leaves \subseteq DOMAIN page /\ Stops \subseteq PageNums
  /\ PageNums \subseteq Anywhere
                   /\ Pos \subseteq Nat /\ AM_NULL_PAGE \in Stops /\ AM_NULL_PAGE \in PageNums
BY DEF Leaves, Stops, PageNums, Anywhere, Pos

\* What follows a leaf is a leaf or nothing.
LEMMA NextPlace ==
  ASSUME PagesAreOfType, NEW p \in Leaves
  PROVE  page[p].nextLeafPage \in Stops
         /\ (page[p].nextLeafPage # AM_NULL_PAGE => page[p].nextLeafPage \in Leaves)
BY DEF PagesAreOfType, LeavesTyped, LeafAt, Leaves, Stops

\* A call among those given that ends well.
LEMMA OpensIn ==
  ASSUME NEW k, NEW A, NEW P, NEW N, NEW I, NEW U, OpenOf(k, A, P, N, I, U), A \subseteq AllOps,
         P \subseteq PageNums,
         N \subseteq Anywhere, I \subseteq Nat, U \subseteq DOMAIN page,
           k.rc # "" \/ N \subseteq Stops \/ Stands(k.row)
  PROVE  Opens2(k)
<1>1. PICK st, op, pn, ix, ax, np, nv, ni, nr, lp, li, fx, rc, po,
        buf : k = Op(st, op, pn, ix, ax, np, nv, ni, nr, lp, li, fx, rc, po, buf)
          /\ OpTypes(A, P, N, I, U, st, op, pn, ix, ax, np, ni, lp, li, fx, rc, buf)
  BY DEF OpenOf
<1>2. OpTypes(AllOps, PageNums, Anywhere, Nat, DOMAIN page, st, op, pn, ix, ax, np, ni, lp, li, fx, rc,
              buf)
  BY <1>1 DEF OpTypes
<1>3. Opening(k, AllOps, PageNums, Anywhere, Nat)
  BY <1>1, <1>2 DEF Opening, OpenOf
<1>4. k.rc = "" => Stands(k.row)
  BY OpenOfHas DEF Stands
<1>5. QED
  BY <1>3, <1>4 DEF Opens2

\* Opening a scan for all entries.
LEMMA AllOpens ==
  ASSUME PagesAreOfType, TreeInv, NEW k, NEW P, P \subseteq PageNums, Opening(k, AllOps, P, Anywhere, Nat),
         NEW left \in {AME_PF, GetLeftPageNum}
  PROVE  Opens2(OpenAll(k, left))
<1> DEFINE q == left
           a == AllFrom(k, q)
           g == PF_GetThisPage(a, q)
           h == KeyHead(q, 1)
           s == SetHead(g, h)
           u == PF_UnfixPage(s, q)
           A == AllOps
           U == DOMAIN page
           J == Nat
           N == Anywhere
           L == Stops
<1>0. "ALL" \in A /\ P \subseteq PageNums /\ A \subseteq AllOps /\ L \subseteq Stops /\ J \subseteq Nat
  BY DEF AllOps
<1>1. OpenAll(k, left) = IF g.rc = "" THEN u ELSE g
  BY AllForm
<1>2. q \in N /\ (q # AME_PF => q \in L /\ q \in U)
  BY LeftLeaf, PlacesAre DEF Anywhere
<1>9. AME_PF \notin DOMAIN page
  BY DEF PagesAreOfType, AME_PF
<1>3. OpenOf(k, A, P, N, J, U)
  BY DEF Opening
<1> HIDE DEF q, A, U, J, N, L, h
<1>4. OpenOf(a, A, P, N, J, U)
  BY <1>0, <1>2, <1>3, OpenOfAll
<1>5. q \in L => OpenOf(a, A, P, L, J, U)
  BY <1>0, <1>3, OpenOfAll
<1> HIDE DEF a
<1>6. CASE q = AME_PF
  <2>1. q \notin DOMAIN page
    BY <1>6, <1>9
  <2>2. OpenOf(g, A, P, N, J, U) /\ g.rc = "AME_PF"
    BY <1>4, <2>1, OpenOfGets
  <2> HIDE DEF g
  <2>3. N \subseteq Anywhere /\ U \subseteq DOMAIN page /\ g.rc # ""
    BY <2>2 DEF N, U
  <2>4. Opens2(g)
    BY <1>0, <2>2, <2>3, OpensIn
  <2>5. QED
    BY <1>1, <2>3, <2>4
<1>7. CASE q # AME_PF
  <2>1. q \in L /\ q \in U
    BY <1>2, <1>7
  <2>2. OpenOf(a, A, P, L, J, U)
    BY <1>5, <2>1
  <2>3. OpenOf(g, A, P, L, J, U)
    BY <2>2, OpenOfGets
  <2> HIDE DEF g
  <2>4. OpenOf(s, A, P, L, J, U)
    BY <2>3, OpenOfSets
  <2> HIDE DEF s
  <2>5. OpenOf(u, A, P, L, J, U)
    BY <2>4, OpenOfUnfixes
  <2> HIDE DEF u
  <2>6. Opens2(u) /\ Opens2(g)
    <3>1. L \subseteq Anywhere /\ U \subseteq DOMAIN page /\ J \subseteq Nat
      BY <1>0, PlacesAre DEF U
    <3>2. QED
      BY <1>0, <2>3, <2>5, <3>1, OpensIn
  <2>7. QED
    BY <1>1, <1>7, <2>6
<1>8. QED
  BY <1>6, <1>7

\* A call that begins to open a scan,
LEMMA BegunOpens ==
  ASSUME PagesAreOfType, AM_RootPageNum \in DOMAIN page, NEW row, RowTyped(row), NEW fx,
         fx \subseteq DOMAIN page, NEW pool
  PROVE  Opening(Begun(row, fx, pool), AllOps, PageNums, Anywhere, Nat)
<1> DEFINE a == row.op
           b == row.pageNum
           c == row.index
           d == row.actindex
           e == row.nextpageNum
           f == row.nextvalue
           g == row.nextIndex
           h == row.nextRecIdPtr
           i == row.lastpageNum
           j == row.lastIndex
           s == row.status
           first == "FIRST"
           none == ""
           root == AM_RootPageNum
           k == Begun(row, fx, pool)
<1>1. row = RowOf(s, a, b, c, d, e, f, g, h, i, j)
  BY DEF RowTyped, IsRow
<1>2. OpTypes(AllOps, PageNums, Anywhere, Nat, DOMAIN page, first, a, b, c, d, e, g, i, j, fx, none, root)
  BY DEF RowTyped, OpTypes, AllOps, Going, Codes
<1>3. k = [row |-> [row EXCEPT !.status = first], fixed |-> fx, rc |-> none, pool |-> pool,
           buf |-> root]
  BY DEF Begun
<1> HIDE DEF a, b, c, d, e, f, g, h, i, j, s, first, none, root, k
<1>4. [row EXCEPT !.status = first] = RowOf(first, a, b, c, d, e, f, g, h, i, j)
  BY <1>1 DEF RowOf
<1>5. k = Op(first, a, b, c, d, e, f, g, h, i, j, fx, none, pool, root)
  BY <1>3, <1>4 DEF Op, Opens
<1>6. OpenOf(k, AllOps, PageNums, Anywhere, Nat, DOMAIN page)
  BY <1>2, <1>5, OpenOfIs
<1>7. QED
  BY <1>6 DEF Opening, k

\* whose search ends at leaf p and index i.
LEMMA PlacedOpens ==
  ASSUME NEW k, Opening(k, AllOps, PageNums, Anywhere, Nat), NEW A, NEW op \in A, NEW p \in Leaves,
         NEW i \in Pos
  PROVE  OpenOf(Placed(k, p, op, i), A, Leaves, Anywhere, Pos, Leaves)
<1>1. PICK st, o, pn, ix, ax, np, nv, ni, nr, lp, li, fx, rc, po, buf :
        /\ k = Op(st, o, pn, ix, ax, np, nv, ni, nr, lp, li, fx, rc, po, buf)
        /\ OpTypes(AllOps, PageNums, Anywhere, Nat, DOMAIN page, st, o, pn, ix, ax, np, ni, lp, li, fx,
                   rc, buf)
  BY DEF Opening, OpenOf
<1> DEFINE f == fx \cup {p}
           r == RowOf(st, o, pn, ix, ax, np, nv, ni, nr, lp, li)
           q == RowOf(st, op, p, i, ax, np, nv, ni, nr, lp, li)
           j == Placed(k, p, op, i)
<1>2. OpTypes(A, Leaves, Anywhere, Pos, Leaves, st, op, p, i, ax, np, ni, lp, li, f, rc, p)
  BY <1>1, PlacesAre DEF OpTypes
<1>3. k.row = r /\ k.fixed = fx /\ k = Opens(r, fx, rc, po, buf)
  BY <1>1, OpHas DEF Op
<1>4. [r EXCEPT !.op = op, !.pageNum = p, !.index = i] = q
  <2>1. [r EXCEPT !.op = op, !.pageNum = p,
         !.index = i] = [[[r EXCEPT !.op = op] EXCEPT !.pageNum = p] EXCEPT !.index = i]
    OBVIOUS
  <2>2. [r EXCEPT !.op = op] = RowOf(st, op, pn, ix, ax, np, nv, ni, nr, lp, li)
    BY DEF RowOf
  <2>3. [RowOf(st, op, pn, ix, ax, np, nv, ni, nr, lp, li) EXCEPT !.pageNum = p] = RowOf(st, op, p, ix,
                                                                                         ax, np, nv, ni, nr, lp, li)
    BY DEF RowOf
  <2>4. [RowOf(st, op, p, ix, ax, np, nv, ni, nr, lp, li) EXCEPT !.index = i] = q
    BY DEF RowOf
  <2>5. QED
    BY <2>1, <2>2, <2>3, <2>4, Zenon
<1>5. j = Op(st, op, p, i, ax, np, nv, ni, nr, lp, li, f, rc, po, p)
  <2>1. j = [[[k EXCEPT !.fixed = f] EXCEPT !.buf = p] EXCEPT !.row = q]
    BY <1>3, <1>4, Zenon DEF Placed
  <2> HIDE DEF f, q, r
  <2>2. [k EXCEPT !.fixed = f] = Opens(r, f, rc, po, buf)
    BY <1>3 DEF Opens
  <2>3. [Opens(r, f, rc, po, buf) EXCEPT !.buf = p] = Opens(r, f, rc, po, p)
    BY DEF Opens
  <2>4. [Opens(r, f, rc, po, p) EXCEPT !.row = q] = Opens(q, f, rc, po, p)
    BY DEF Opens
  <2>5. QED
    BY <2>1, <2>2, <2>3, <2>4, Zenon DEF Op, q
<1> HIDE DEF f, j
<1>6. OpenOf(j, A, Leaves, Anywhere, Pos, Leaves)
  BY <1>2, <1>5, OpenOfIs
<1>7. QED
  BY <1>6 DEF j

\* A value behind its leaf's last key.
LEMMA BeyondOpens ==
  ASSUME PagesAreOfType, NEW k, NEW A, NEW p \in Leaves, OpenOf(k, A, Leaves, Anywhere, Pos, Leaves)
  PROVE  OpenOf(Beyond(k, p), A, Stops, Anywhere, Pos, Leaves)
<1> DEFINE q == page[p].nextLeafPage
           x == page[q].nextLeafPage
           g == PF_GetThisPage(k, q)
           u == PF_UnfixPage(g, x)
           s1 == SetBuf(u, q)
           s2 == SetPlace(s1, x)
           one == 1
           s3 == SetIndex(s2, one)
           null == AM_NULL_PAGE
           s4 == SetPlace(k, null)
           b == Beyond(k, p)
           L == Leaves
           N == Anywhere
           I == Pos
           P == Stops
<1>1. b = IF q = null THEN s4 ELSE IF g.rc # "" THEN g ELSE IF u.rc # "" THEN u ELSE s3
  <2>1. q = page[p].nextLeafPage /\ x = page[q].nextLeafPage /\ g = PF_GetThisPage(k, q)
          /\ u = PF_UnfixPage(g, x)
    OBVIOUS
  <2>2. s3 = SetIndex(SetPlace(SetBuf(u, q), x), 1)
    OBVIOUS
  <2> HIDE DEF q, x, g, u, s1, s2, s3, b
  <2>3. BeyondIs(k, p, q, x, g, u)
    BY <2>1, BeyondForm
  <2>4. QED
    BY <2>2, <2>3, Zenon DEF b, BeyondIs
<1>2. q \in P /\ (q # null => q \in L)
  BY NextPlace
<1>3. q # null => x \in P
  BY <1>2, NextPlace
<1>4. L \subseteq P /\ L \subseteq DOMAIN page /\ null \in P /\ one \in I
  BY PlacesAre DEF Pos
<1>5. OpenOf(k, A, L, N, I, L)
  OBVIOUS
<1> HIDE DEF q, x, one, null, L, N, I, P, b
<1>6. OpenOf(s4, A, P, N, I, L)
  BY <1>4, <1>5, OpenOfSets
<1>7. OpenOf(k, A, P, N, I, L)
  <2> DEFINE A2 == A
             N2 == N
             I2 == I
             L2 == L
  <2>1. A \subseteq A2 /\ N \subseteq N2 /\ I \subseteq I2 /\ L \subseteq L2
    OBVIOUS
  <2> HIDE DEF A2, N2, I2, L2
  <2>2. OpenOf(k, A2, P, N2, I2, L2)
    BY <1>4, <1>5, <2>1, OpenOfMore
  <2>3. QED
    BY <2>2 DEF A2, N2, I2, L2
<1>8. CASE q # null
  <2>1. q \in DOMAIN page /\ q \in L /\ x \in P
    BY <1>2, <1>3, <1>4, <1>8
  <2>2. OpenOf(g, A, P, N, I, L)
    BY <1>7, <2>1, OpenOfGets
  <2> HIDE DEF g
  <2>3. OpenOf(u, A, P, N, I, L)
    BY <2>2, OpenOfUnfixes
  <2> HIDE DEF u
  <2>4. OpenOf(s1, A, P, N, I, L)
    BY <2>1, <2>3, OpenOfSets
  <2> HIDE DEF s1
  <2>5. OpenOf(s2, A, P, N, I, L)
    BY <2>1, <2>4, OpenOfSets
  <2> HIDE DEF s2
  <2>6. OpenOf(s3, A, P, N, I, L)
    BY <1>4, <2>5, OpenOfSets
  <2> HIDE DEF s3
  <2>7. b = g \/ b = u \/ b = s3
    BY <1>1, <1>8
  <2>8. OpenOf(b, A, P, N, I, L)
    BY <2>2, <2>3, <2>6, <2>7
  <2>9. QED
    BY <2>8 DEF b, P, N, I, L
<1>9. CASE q = null
  <2> HIDE DEF s4
  <2>1. b = s4
    BY <1>1, <1>9
  <2>2. OpenOf(b, A, P, N, I, L)
    BY <1>6, <2>1
  <2>3. QED
    BY <2>2 DEF b, P, N, I, L
<1>10. QED
  BY <1>8, <1>9

\* A call whose scan is for op, with its value's place found.
FoundFor(k, op) == OpenOf(k, {op}, Stops, Anywhere, Pos, Leaves)

\* Such a call, if it ends well.
LEMMA FoundOpens ==
  ASSUME NEW op \in AllOps, NEW k, NEW P, P \subseteq PageNums, NEW N, N \subseteq Anywhere, NEW I,
         I \subseteq Nat,
         OpenOf(k, {op}, P, N, I, Leaves), k.rc # "" \/ N \subseteq Stops \/ Stands(k.row)
  PROVE  Opens2(k)
<1> DEFINE A == {op}
           L == Leaves
<1>1. A \subseteq AllOps /\ L \subseteq DOMAIN page
  BY PlacesAre
<1>2. OpenOf(k, A, P, N, I, L)
  OBVIOUS
<1> HIDE DEF A, L
<1>3. QED
  BY <1>1, <1>2, OpensIn

\* The place where < and <= end is set,
LEMMA LastOpens ==
  ASSUME NEW op, NEW k, FoundFor(k, op), NEW n \in Nat
  PROVE  FoundFor(LastAt(k, n), op)
<1> DEFINE q == k.row.pageNum
           j == SetLastPage(k, q)
           A == {op}
           P == Stops
           N == Anywhere
           I == Pos
           L == Leaves
<1>1. LastAt(k, n) = SetLastIndex(j, n)
  BY LastForm DEF LastAt
<1>2. OpenOf(k, A, P, N, I, L)
  BY DEF FoundFor
<1>3. q \in P
  BY <1>2, OpenOfHas
<1>4. q \in PageNums
  BY <1>3, PlacesAre
<1> HIDE DEF q, A, P, N, I, L
<1>5. OpenOf(j, A, P, N, I, L)
  BY <1>2, <1>4, OpenOfSets
<1> HIDE DEF j
<1> DEFINE y == SetLastIndex(j, n)
<1>6. OpenOf(y, A, P, N, I, L)
  BY <1>5, OpenOfSets
<1> HIDE DEF y
<1>7. OpenOf(LastAt(k, n), A, P, N, I, L)
  BY <1>1, <1>6 DEF y
<1>8. QED
  BY <1>7 DEF FoundFor, A, P, N, I, L

\* and the row starts from the value's place,
LEMMA HereOpens ==
  ASSUME NEW op \in AllOps, NEW k, FoundFor(k, op), NEW i \in Nat
  PROVE  Opens2(FromHere(k, i))
<1> DEFINE q == k.row.pageNum
           h == KeyHead(k.buf, i)
           j == Goes(k, q, i)
           y == SetHead(j, h)
           A == {op}
           P == Stops
           N == Anywhere
           I == Pos
           L == Leaves
<1>1. FromHere(k, i) = y
  BY HereForm
<1>2. OpenOf(k, A, P, N, I, L)
  BY DEF FoundFor
<1>3. q \in P
  BY <1>2, OpenOfHas
<1>4. P \subseteq PageNums /\ P \subseteq N /\ I \subseteq Nat /\ P \subseteq Stops
  BY PlacesAre
<1> HIDE DEF q, h, A, P, N, I, L
<1>5. OpenOf(j, A, P, P, I, L)
  BY <1>2, <1>3, OpenOfGoes
<1> HIDE DEF j
<1>6. OpenOf(y, A, P, P, I, L)
  BY <1>5, OpenOfSets
<1> HIDE DEF y
<1>7. Opens2(y)
  <2>1. OpenOf(y, {op}, P, P, I, Leaves) /\ P \subseteq Anywhere
    BY <1>4, <1>6 DEF A, L, N
  <2>2. QED
    BY <1>4, <2>1, FoundOpens
<1>8. QED
  BY <1>1, <1>7

\* or from the leftmost leaf,
LEMMA LeftOpens ==
  ASSUME PagesAreOfType, TreeInv, NEW op \in AllOps, NEW k, FoundFor(k, op), NEW p \in Leaves,
         NEW left \in {AME_PF, GetLeftPageNum}
  PROVE  Opens2(FromLeft(k, p, left))
<1> DEFINE q == left
           one == 1
           a == Goes(k, q, one)
           h == KeyHead(k.buf, 1)
           sh == SetHead(a, h)
           g == PF_GetThisPage(a, q)
           h2 == KeyHead(q, 1)
           s == SetHead(g, h2)
           u == PF_UnfixPage(s, q)
           A == {op}
           P == Stops
           N == Anywhere
           I == Pos
           L == Leaves
           y == FromLeft(k, p, q)
<1>1. y = IF p = q THEN sh ELSE IF g.rc = "" THEN u ELSE g
  <2>1. a = Goes(k, q, 1) /\ g = PF_GetThisPage(a, q)
    OBVIOUS
  <2>2. sh = SetHead(a, KeyHead(k.buf, 1)) /\ u = PF_UnfixPage(SetHead(g, KeyHead(q, 1)), q)
    OBVIOUS
  <2> HIDE DEF q, a, g, sh, u, y, h, h2, s, one
  <2>3. LeftwardIs(k, p, q, a, g)
    BY <2>1, LeftwardForm
  <2>4. QED
    BY <2>2, <2>3, Zenon DEF LeftwardIs, y
<1>2. q \in N /\ (q # AME_PF => q \in L)
  BY LeftLeaf, PlacesAre DEF Anywhere
<1>3. L \subseteq Stops /\ P \subseteq PageNums /\ I \subseteq Nat /\ L \subseteq N
        /\ L \subseteq DOMAIN page /\ N \subseteq Anywhere
  BY PlacesAre
<1>4. OpenOf(k, A, P, N, I, L) /\ one \in Nat
  BY DEF FoundFor
<1>12. AME_PF \notin DOMAIN page
  BY DEF PagesAreOfType, AME_PF
<1>13. p \in L
  OBVIOUS
<1> HIDE DEF q, one, h, h2, A, P, N, I, L, y
<1>5. CASE q = AME_PF
  <2>1. q \notin DOMAIN page /\ p # q
    BY <1>3, <1>5, <1>12, <1>13
  <2>2. OpenOf(a, A, P, N, I, L)
    BY <1>2, <1>4, OpenOfGoes
  <2> HIDE DEF a
  <2>3. OpenOf(g, A, P, N, I, L) /\ g.rc = "AME_PF"
    BY <2>1, <2>2, OpenOfGets
  <2> HIDE DEF g
  <2>4. y = g /\ g.rc # ""
    BY <1>1, <2>1, <2>3
  <2>5. OpenOf(g, {op}, P, N, I, Leaves)
    BY <2>3 DEF A, L
  <2>6. Opens2(g)
    BY <1>3, <2>4, <2>5, FoundOpens
  <2>7. Opens2(y)
    BY <2>4, <2>6
  <2>8. QED
    BY <2>7 DEF y, q
<1>6. CASE q # AME_PF
  <2>1. q \in L
    BY <1>2, <1>6
  <2>2. OpenOf(a, A, P, L, I, L)
    BY <1>4, <2>1, OpenOfGoes
  <2> HIDE DEF a
  <2>3. OpenOf(sh, A, P, L, I, L)
    BY <2>2, OpenOfSets
  <2>4. OpenOf(g, A, P, L, I, L)
    BY <2>2, OpenOfGets
  <2> HIDE DEF g
  <2>5. OpenOf(s, A, P, L, I, L)
    BY <2>4, OpenOfSets
  <2> HIDE DEF s
  <2>6. OpenOf(u, A, P, L, I, L)
    BY <2>5, OpenOfUnfixes
  <2> HIDE DEF u, sh
  <2>7. OpenOf(y, A, P, L, I, L)
    BY <1>1, <2>3, <2>4, <2>6
  <2>8. OpenOf(y, {op}, P, L, I, Leaves) /\ L \subseteq Anywhere
    BY <1>3, <2>7 DEF A, L, N
  <2>9. Opens2(y)
    BY <1>3, <2>8, FoundOpens
  <2>10. QED
    BY <2>9 DEF y, q
<1>7. QED
  BY <1>5, <1>6

\* or from the first slot of the next leaf.
LEMMA OnwardsOpens ==
  ASSUME NEW op \in AllOps, NEW k, FoundFor(k, op), NEW q \in Leaves
  PROVE  Opens2(Onwards(k, q))
<1> DEFINE one == 1
           a == Goes(k, q, one)
           g == PF_GetThisPage(a, q)
           h2 == KeyHead(q, 1)
           s == SetHead(g, h2)
           u == PF_UnfixPage(s, q)
           A == {op}
           P == Stops
           N == Anywhere
           I == Pos
           L == Leaves
           y == Onwards(k, q)
<1>1. y = IF g.rc = "" THEN u ELSE g
  BY DEF Onwards
<1>3. L \subseteq Stops /\ P \subseteq PageNums /\ I \subseteq Nat /\ L \subseteq N
        /\ L \subseteq DOMAIN page
  BY PlacesAre
<1>2. q \in L /\ q \in DOMAIN page
  BY <1>3
<1>4. OpenOf(k, A, P, N, I, L) /\ one \in Nat
  BY DEF FoundFor
<1> HIDE DEF one, h2, A, P, N, I, L, y
<1>5. OpenOf(a, A, P, L, I, L)
  BY <1>2, <1>4, OpenOfGoes
<1> HIDE DEF a
<1>7. OpenOf(g, A, P, L, I, L)
  BY <1>2, <1>5, OpenOfGets
<1> HIDE DEF g
<1>8. OpenOf(s, A, P, L, I, L)
  BY <1>7, OpenOfSets
<1> HIDE DEF s
<1>9. OpenOf(u, A, P, L, I, L)
  BY <1>8, OpenOfUnfixes
<1> HIDE DEF u
<1>10. OpenOf(y, A, P, L, I, L)
  BY <1>1, <1>7, <1>9
<1>11. Opens2(y)
  <2>1. OpenOf(y, {op}, P, L, I, Leaves) /\ L \subseteq Anywhere
    BY <1>3, <1>10 DEF A, L, N
  <2>2. QED
    BY <1>3, <2>1, FoundOpens
<1>12. QED
  BY <1>11 DEF y

\* That is all that Position does, but for #.
LEMMA PositionOpens ==
  ASSUME PagesAreOfType, TreeInv, NEW op \in AllOps, op \in Named, NEW k, FoundFor(k, op), NEW p \in Leaves,
         NEW found \in BOOLEAN, NEW left \in {AME_PF, GetLeftPageNum}
  PROVE  Opens2(Position(k, p, found, left))
<1> DEFINE o == k.row.op
           i == k.row.index
           q == page[k.buf].nextLeafPage
           y == Position(k, p, found, left)
           n == i - 1
           x == i + 1
           a == LastAt(k, i)
           b == LastAt(k, n)
           e == "OVER"
           c == SetStatus(k, e)
           A == {op}
           P == Stops
           N == Anywhere
           I == Pos
           L == Leaves
<1>1. OpenOf(k, A, P, N, I, L)
  BY DEF FoundFor
<1>2. o = op /\ i \in Pos /\ k.buf \in Leaves
  <2>1. o \in A /\ i \in I /\ k.buf \in L
    BY <1>1, OpenOfHas
  <2>2. QED
    BY <2>1
<1>3. i \in Nat /\ n \in Nat /\ x \in Nat
  BY <1>2 DEF Pos
<1>4. q # AM_NULL_PAGE => q \in Leaves
  BY <1>2, NextPlace
<1>5. \/ y = FromHere(a, i) \/ y = c \/ y = FromLeft(b, p, left) \/ y = FromLeft(a, p, left)
      \/ y = FromHere(k, i) \/ y = FromHere(k, x) \/ (q # AM_NULL_PAGE /\ y = Onwards(k, q))
  <2>1. o \in {"EQUAL", "LESS_THAN", "GREATER_THAN", "LESS_THAN_EQUAL", "GREATER_THAN_EQUAL"}
    BY <1>2 DEF Named
  <2>2. QED
    BY <2>1, PositionCases
<1> HIDE DEF o, i, q, y, n, x
<1>6. FoundFor(a, op) /\ FoundFor(b, op)
  BY <1>3, LastOpens
<1> HIDE DEF a, b
<1>7. Opens2(FromHere(a, i)) /\ Opens2(FromHere(k, i)) /\ Opens2(FromHere(k, x))
  BY <1>3, <1>6, HereOpens
<1>8. Opens2(FromLeft(b, p, left)) /\ Opens2(FromLeft(a, p, left))
  BY <1>6, LeftOpens
<1>9. q # AM_NULL_PAGE => Opens2(Onwards(k, q))
  BY <1>4, OnwardsOpens
<1>10. Opens2(c)
  <2>1. P \subseteq PageNums /\ N \subseteq Anywhere /\ I \subseteq Nat
    BY PlacesAre
  <2>2. e \in Going
    BY DEF Going
  <2> HIDE DEF A, P, N, I, L, c
  <2>3. OpenOf(c, A, P, N, I, L) /\ c.row.status = e
    BY <1>1, <2>2, OpenOfSets DEF c
  <2>4. Stands(c.row)
    BY <2>3 DEF Stands, e
  <2>5. OpenOf(c, {op}, P, N, I, Leaves)
    BY <2>3 DEF A, L
  <2>6. QED
    BY <2>1, <2>4, <2>5, FoundOpens
<1> HIDE DEF c
<1>11. Opens2(y)
  BY <1>5, <1>7, <1>8, <1>9, <1>10
<1>12. QED
  BY <1>11 DEF y

\* The leaf is unfixed at the end.
LEMMA UnfixOpens ==
  ASSUME NEW k, Opens2(k), k.rc = "", NEW p
  PROVE  Opens2(PF_UnfixPage(k, p))
<1> DEFINE y == PF_UnfixPage(k, p)
           A == AllOps
           P == PageNums
           N == Anywhere
           I == Nat
           U == DOMAIN page
<1>1. OpenOf(k, A, P, N, I, U) /\ Stands(k.row)
  BY DEF Opens2, Opening
<1> HIDE DEF A, P, N, I, U
<1>2. OpenOf(y, A, P, N, I, U) /\ y.row = k.row
  BY <1>1, OpenOfUnfixes
<1> HIDE DEF y
<1>3. Opens2(y)
  BY <1>1, <1>2 DEF Opens2, Opening, A, P, N, I, U
<1>4. QED
  BY <1>3 DEF y

\* So the call for a value leaves its row in the table.
LEMMA OpenedOpens ==
  ASSUME PagesAreOfType, TreeInv, NEW op \in AllOps, op \in Named, NEW b, FoundFor(b, op), NEW p \in Leaves,
         NEW found \in BOOLEAN, NEW left \in {AME_PF, GetLeftPageNum}
  PROVE  Opens2(OpenedAt(b, p, found, left))
<1> DEFINE y == Position(b, p, found, left)
           u == PF_UnfixPage(y, p)
           d == OpenedAt(b, p, found, left)
<1>1. d = IF b.rc # "" THEN b ELSE IF y.rc # "" THEN y ELSE u
  BY DEF OpenedAt
<1>2. Opens2(y)
  BY PositionOpens
<1> HIDE DEF y, d
<1>3. y.rc = "" => Opens2(u)
  BY <1>2, UnfixOpens
<1>4. b.rc # "" => Opens2(b)
  <2> DEFINE P == Stops
             N == Anywhere
             I == Pos
  <2>1. P \subseteq PageNums /\ N \subseteq Anywhere /\ I \subseteq Nat
    BY PlacesAre
  <2>2. OpenOf(b, {op}, P, N, I, Leaves)
    BY DEF FoundFor
  <2> HIDE DEF P, N, I
  <2>3. QED
    BY <2>1, <2>2, FoundOpens
<1> HIDE DEF u
<1>5. Opens2(d)
  BY <1>1, <1>2, <1>3, <1>4
<1>6. QED
  BY <1>5 DEF d

\* What the call leaves: a row of its type, which stands where it may if the scan is open.
Rests(d) ==
  /\ RowTyped(d.row) /\ d.fixed \subseteq DOMAIN page
  /\ d.rc = "" => d.row.status # "FREE" /\ Stands(d.row)

\* A call among those given has such a row,
LEMMA OpenOfRow ==
  ASSUME NEW k, NEW A, NEW P, NEW N, NEW I, NEW U, OpenOf(k, A, P, N, I, U), A \subseteq AllOps,
         P \subseteq PageNums, N \subseteq Anywhere, I \subseteq Nat
  PROVE  RowTyped(k.row) /\ k.row.status # "FREE" /\ k.fixed \subseteq DOMAIN page
<1> DEFINE r == k.row
<1>1. /\ r.op \in A /\ r.pageNum \in P /\ r.nextpageNum \in N /\ r.index \in I
      /\ k.fixed \subseteq DOMAIN page /\ IsRow(r) /\ r.status \in Going
      /\ r.lastpageNum \in PageNums /\ r.lastIndex \in Nat /\ r.actindex \in Nat /\ r.nextIndex \in Int
  BY OpenOfHas
<1> HIDE DEF r
<1>2. RowTyped(r) /\ r.status # "FREE"
  BY <1>1 DEF RowTyped, AllOps, Going
<1>3. QED
  BY <1>1, <1>2 DEF r

\* one that ends well stands,
LEMMA OpensRest ==
  ASSUME NEW d, Opens2(d)
  PROVE  Rests(d)
<1> DEFINE A == AllOps
           P == PageNums
           N == Anywhere
           I == Nat
           U == DOMAIN page
<1>1. OpenOf(d, A, P, N, I, U) /\ (d.rc = "" => Stands(d.row))
  BY DEF Opens2, Opening
<1>2. A \subseteq AllOps /\ P \subseteq PageNums /\ N \subseteq Anywhere /\ I \subseteq Nat
  OBVIOUS
<1> HIDE DEF A, P, N, I, U
<1>3. RowTyped(d.row) /\ d.row.status # "FREE" /\ d.fixed \subseteq DOMAIN page
  BY <1>1, <1>2, OpenOfRow
<1>4. QED
  BY <1>1, <1>3 DEF Rests

\* and one for an operator that is none gives its row back.
LEMMA InvalidRests ==
  ASSUME NEW b, FoundFor(b, "INVALID"), "INVALID" \in AllOps, NEW p, NEW found, NEW left
  PROVE  Rests(OpenedAt(b, p, found, left))
<1> DEFINE y == Position(b, p, found, left)
           d == OpenedAt(b, p, found, left)
           none == "INVALID"
           A == {none}
           P == Stops
           N == Anywhere
           I == Pos
           U == Leaves
           v == "AME_INVALID_OP_TO_SCAN"
           e == "FREE"
           q == [b.row EXCEPT !.status = e]
<1>1. OpenOf(b, A, P, N, I, U)
  BY DEF FoundFor
<1>2. A \subseteq AllOps /\ P \subseteq PageNums /\ N \subseteq Anywhere /\ I \subseteq Nat
  BY PlacesAre
<1>3. b.row.op = none
  <2> HIDE DEF none, P, N, I, U
  <2>1. b.row.op \in A
    BY <1>1, OpenOfHas
  <2>2. QED
    BY <2>1
<1>4. y = [b EXCEPT !.row.status = e, !.rc = v]
  BY <1>3 DEF Position
<1>5. PICK st, op, pn, ix, ax, np, nv, ni, nr, lp, li, fx, rc, po,
        buf : b = Op(st, op, pn, ix, ax, np, nv, ni, nr, lp, li, fx, rc, po, buf)
  BY <1>1 DEF OpenOf
<1>6. y.row = q /\ y.rc = v /\ y.fixed = b.fixed
  <2> DEFINE r == b.row
  <2>1. b = Opens(r, fx, rc, po, buf) /\ r = b.row
    BY <1>5, OpHas DEF Op
  <2>2. y = [[b EXCEPT !.row = [r EXCEPT !.status = e]] EXCEPT !.rc = v]
    BY <1>4, Zenon
  <2> HIDE DEF r, v, e, y
  <2>3. y = Opens([r EXCEPT !.status = e], fx, v, po, buf)
    BY <2>1, <2>2 DEF Opens
  <2>4. b.fixed = fx
    BY <1>5, OpHas
  <2>5. QED
    BY <2>3, <2>4 DEF Opens, r
<1>7. v # ""
  OBVIOUS
<1>8. d = IF b.rc # "" THEN b ELSE IF y.rc # "" THEN y ELSE PF_UnfixPage(y, p)
  BY DEF OpenedAt
<1> HIDE DEF A, P, N, I, U, y, v, e
<1>9. RowTyped(b.row) /\ b.fixed \subseteq DOMAIN page
  BY <1>1, <1>2, OpenOfRow
<1> DEFINE r == b.row
<1>10. RowTyped(q)
  <2>1. RowTyped(r)
    BY <1>9
  <2> HIDE DEF r
  <2>2. RowTyped([r EXCEPT !.status = "FREE"])
    BY <2>1, FreeRow
  <2>3. QED
    BY <2>2 DEF r, e
<1> HIDE DEF q, d
<1>11. CASE b.rc # ""
  <2>1. d = b
    BY <1>8, <1>11
  <2>2. Rests(b)
    BY <1>9, <1>11 DEF Rests
  <2>3. QED
    BY <2>1, <2>2 DEF d
<1>12. CASE b.rc = ""
  <2>1. d = y
    BY <1>6, <1>7, <1>8, <1>12
  <2>2. Rests(y)
    BY <1>6, <1>7, <1>9, <1>10 DEF Rests
  <2>3. QED
    BY <2>1, <2>2 DEF d
<1>13. QED
  BY <1>11, <1>12

-----------------------------------------------------------------------------
(* The types of the tables. *)

\* What a caller was told is of its type.
Answered3 == {"AME_OK", "AME_EOF", "AME_PF"}
ToldTyped(t) ==
  /\ IsTold(t) /\ t.open \in BOOLEAN /\ t.sure \in BOOLEAN /\ t.refused \in BOOLEAN
  /\ t.due \subseteq Pairs /\ t.got \in Seq(RecIds \cup {Junk}) /\ t.rc \in Answered3
ToldOf(o, d, g, rc, u, f, v) ==
  [open |-> o, due |-> d, got |-> g, rc |-> rc, sure |-> u, failed |-> f, refused |-> v]
Recs == RecIds \cup {Junk}
\* The types of its parts.
ToldTypes(o, d, g, rc, u, f, v) ==
  /\ {o, u, f, v} \subseteq BOOLEAN /\ d \subseteq Pairs /\ g \in Seq(Recs) /\ rc \in Answered3

\* What was told, by its parts.
LEMMA ToldOfIs ==
  ASSUME NEW o, NEW d, NEW g, NEW rc, NEW u, NEW f, NEW v, ToldTypes(o, d, g, rc, u, f, v),
         NEW t, t = ToldOf(o, d, g, rc, u, f, v)
  PROVE  ToldTyped(t) /\ t.open = o
<1>1. t.open = o /\ t.due = d /\ t.got = g /\ t.rc = rc /\ t.sure = u /\ t.failed = f /\ t.refused = v
  BY DEF ToldOf
<1>2. t = [open |-> t.open, due |-> t.due, got |-> t.got, rc |-> t.rc, sure |-> t.sure,
           failed |-> t.failed, refused |-> t.refused]
  BY <1>1 DEF ToldOf
<1>3. QED
  BY <1>1, <1>2 DEF ToldTyped, IsTold, ToldTypes, Recs

\* All that was told has these parts.
LEMMA ToldIs ==
  ASSUME NEW t, ToldTyped(t)
  PROVE  /\ t = ToldOf(t.open, t.due, t.got, t.rc, t.sure, t.failed, t.refused)
         /\ ToldTypes(t.open, t.due, t.got, t.rc, t.sure, t.failed, t.refused)
BY DEF ToldTyped, IsTold, ToldOf, ToldTypes, Recs

\* At first it is nothing.
LEMMA NothingTyped == ToldTyped(NothingTold) /\ NothingTold.open = FALSE
BY DEF ToldTyped, IsTold, NothingTold, Answered3

\* A caller is told AME_PF,
LEMMA TellsFailedTyped ==
  ASSUME NEW t, ToldTyped(t)
  PROVE  ToldTyped(TellsFailed(t)) /\ TellsFailed(t).open = t.open
<1> DEFINE o == t.open
           d == t.due
           g == t.got
           rc == t.rc
           u == t.sure
           f == t.failed
           v == t.refused
           e == TRUE
           w == TellsFailed(t)
<1>1. t = ToldOf(o, d, g, rc, u, f, v) /\ w = [t EXCEPT !.failed = e]
  BY ToldIs DEF TellsFailed
<1>2. ToldTypes(o, d, g, rc, u, f, v)
  BY ToldIs
<1>3. ToldTypes(o, d, g, rc, u, e, v)
  BY <1>2 DEF ToldTypes
<1> HIDE DEF o, d, g, rc, u, f, v, e, w
<1>4. w = ToldOf(o, d, g, rc, u, e, v)
  BY <1>1 DEF ToldOf
<1>5. ToldTyped(w) /\ w.open = o
  BY <1>3, <1>4, ToldOfIs
<1>6. QED
  BY <1>5 DEF w, o

\* that its scan is open,
LEMMA TellsOpenTyped ==
  ASSUME NEW t, ToldTyped(t), NEW due, due \subseteq Pairs, NEW sure \in BOOLEAN,
         NEW refused \in BOOLEAN
  PROVE  ToldTyped(TellsOpen(t, due, sure, refused))
<1> DEFINE o == t.open
           d == t.due
           g == t.got
           rc == t.rc
           u == t.sure
           f == t.failed
           v == t.refused
           e == TRUE
           w == TellsOpen(t, due, sure, refused)
<1>1. t = ToldOf(o, d, g, rc, u, f, v)
  BY ToldIs
<1>9. w = [[[[t EXCEPT !.open = e] EXCEPT !.due = due] EXCEPT !.sure = sure] EXCEPT !.refused = refused]
  BY Zenon DEF TellsOpen
<1>8. ToldTypes(o, d, g, rc, u, f, v)
  BY ToldIs
<1>2. ToldTypes(e, due, g, rc, sure, f, refused)
  BY <1>8 DEF ToldTypes
<1> HIDE DEF o, d, g, rc, u, f, v, e, w
<1>3. [t EXCEPT !.open = e] = ToldOf(e, d, g, rc, u, f, v)
  BY <1>1 DEF ToldOf
<1>4. [ToldOf(e, d, g, rc, u, f, v) EXCEPT !.due = due] = ToldOf(e, due, g, rc, u, f, v)
  BY DEF ToldOf
<1>5. [ToldOf(e, due, g, rc, u, f, v) EXCEPT !.sure = sure] = ToldOf(e, due, g, rc, sure, f, v)
  BY DEF ToldOf
<1>10. [ToldOf(e, due, g, rc, sure, f, v) EXCEPT !.refused = refused]
         = ToldOf(e, due, g, rc, sure, f, refused)
  BY DEF ToldOf
<1>6. w = ToldOf(e, due, g, rc, sure, f, refused)
  BY <1>3, <1>4, <1>5, <1>9, <1>10, Zenon
<1>7. ToldTyped(w)
  BY <1>2, <1>6, ToldOfIs
<1>11. QED
  BY <1>7 DEF w

\* an entry,
LEMMA TellsEntryTyped ==
  ASSUME NEW t, ToldTyped(t), NEW rec \in RecIds \cup {Junk}
  PROVE  ToldTyped(TellsEntry(t, rec)) /\ TellsEntry(t, rec).open = t.open
<1> DEFINE o == t.open
           d == t.due
           g == t.got
           rc == t.rc
           u == t.sure
           f == t.failed
           v == t.refused
           e == Append(g, rec)
           w == TellsEntry(t, rec)
<1>1. t = ToldOf(o, d, g, rc, u, f, v) /\ w = [t EXCEPT !.got = e]
  BY ToldIs, Zenon DEF TellsEntry
<1>2. ToldTypes(o, d, g, rc, u, f, v)
  BY ToldIs
<1>3. ToldTypes(o, d, e, rc, u, f, v)
  <2>1. g \in Seq(Recs) /\ rec \in Recs
    BY <1>2 DEF ToldTypes, Recs
  <2> HIDE DEF g
  <2>2. Append(g, rec) \in Seq(Recs)
    BY <2>1
  <2>3. QED
    BY <1>2, <2>2 DEF ToldTypes
<1> HIDE DEF o, d, g, rc, u, f, v, e, w
<1>4. w = ToldOf(o, d, e, rc, u, f, v)
  BY <1>1 DEF ToldOf
<1>5. ToldTyped(w) /\ w.open = o
  BY <1>3, <1>4, ToldOfIs
<1>6. QED
  BY <1>5 DEF w, o

\* the end,
LEMMA TellsEndTyped ==
  ASSUME NEW t, ToldTyped(t), NEW e \in Answered3, NEW refuses
  PROVE  ToldTyped(TellsEnd(t, e, refuses)) /\ TellsEnd(t, e, refuses).open = t.open
<1> DEFINE o == t.open
           d == t.due
           g == t.got
           rc == t.rc
           u == t.sure
           f == t.failed
           v == t.refused
           h == f \/ e = "AME_PF"
           x == v \/ (e = "AME_PF" /\ refuses)
           w == TellsEnd(t, e, refuses)
<1>1. t = ToldOf(o, d, g, rc, u, f, v) /\ ToldTypes(o, d, g, rc, u, f, v)
  BY ToldIs
<1>2. w = [[[t EXCEPT !.rc = e] EXCEPT !.failed = h] EXCEPT !.refused = x]
  <2>1. t = [open |-> t.open, due |-> t.due, got |-> t.got, rc |-> t.rc, sure |-> t.sure,
             failed |-> t.failed, refused |-> t.refused]
    BY DEF ToldTyped, IsTold
  <2>2. w = [t EXCEPT !.rc = e, !.failed = h, !.refused = x]
    BY Zenon DEF TellsEnd
  <2> HIDE DEF h, x, w
  <2>3. QED
    BY <2>2, Zenon
<1>3. ToldTypes(o, d, g, e, u, h, x)
  BY <1>1 DEF ToldTypes
<1> HIDE DEF o, d, g, rc, u, f, v, h, x, w
<1>4. [t EXCEPT !.rc = e] = ToldOf(o, d, g, e, u, f, v)
  BY <1>1 DEF ToldOf
<1>5. [ToldOf(o, d, g, e, u, f, v) EXCEPT !.failed = h] = ToldOf(o, d, g, e, u, h, v)
  BY DEF ToldOf
<1>9. [ToldOf(o, d, g, e, u, h, v) EXCEPT !.refused = x] = ToldOf(o, d, g, e, u, h, x)
  BY DEF ToldOf
<1>6. w = ToldOf(o, d, g, e, u, h, x)
  BY <1>2, <1>4, <1>5, <1>9, Zenon
<1>7. ToldTyped(w) /\ w.open = o
  BY <1>3, <1>6, ToldOfIs
<1>8. QED
  BY <1>7 DEF w, o

\* or that its scan is closed.
LEMMA TellsClosedTyped ==
  ASSUME NEW t, ToldTyped(t)
  PROVE  ToldTyped(TellsClosed(t)) /\ TellsClosed(t).open = FALSE
<1> DEFINE f == t.failed
           w == TellsClosed(t)
           no == FALSE
           none == {}
           g == <<>>
           ok == "AME_OK"
<1>1. f \in BOOLEAN
  BY ToldIs DEF ToldTypes
<1>2. w = [NothingTold EXCEPT !.failed = f]
  BY DEF TellsClosed
<1>3. NothingTold = ToldOf(no, none, g, ok, no, no, no)
  BY DEF NothingTold, ToldOf
<1> HIDE DEF f, w
<1>4. ToldTypes(no, none, g, ok, no, f, no)
  BY <1>1 DEF Answered3, ToldTypes
<1> HIDE DEF no, none, g, ok
<1>5. w = ToldOf(no, none, g, ok, no, f, no)
  BY <1>2, <1>3 DEF ToldOf
<1>6. ToldTyped(w) /\ w.open = no
  BY <1>4, <1>5, ToldOfIs
<1>7. QED
  BY <1>6 DEF w, no

\* Whether the code gets a scan right is a truth value.
LEMMA SureTyped ==
  ASSUME NEW op \in Operators, NEW at
  PROVE  Sure(op, at) \in BOOLEAN
<1>1. CASE op = "NOT_EQUAL"
  BY <1>1 DEF Sure
<1>2. CASE op = "LESS_THAN"
  BY <1>2 DEF Sure, IsLeaf
<1>3. CASE op = "LESS_THAN_EQUAL"
  BY <1>3 DEF Sure, IsLeaf
<1>4. CASE op \notin {"NOT_EQUAL", "LESS_THAN", "LESS_THAN_EQUAL"}
  BY <1>4 DEF Sure, IsLeaf
<1>5. QED
  BY <1>1, <1>2, <1>3, <1>4

\* The entries that a scan is due are entries.
LEMMA DueTyped ==
  ASSUME NEW op, NEW value
  PROVE  Due(op, value) \subseteq Pairs
BY DEF Due

\* A row and what its caller was told, over the pages D and the leaves L: the row of an
\* open scan stands at a leaf, or its scan is over.
PagesOf(D) == {AM_NULL_PAGE} \cup D
RowIn(r, D) ==
  /\ IsRow(r) /\ r.status \in {"FREE"} \cup Going /\ r.op \in AllOps
  /\ r.pageNum \in PagesOf(D) /\ r.lastpageNum \in PagesOf(D)
     /\ r.nextpageNum \in PagesOf(D) \cup {AME_PF}
  /\ r.index \in Nat /\ r.actindex \in Nat /\ r.lastIndex \in Nat /\ r.nextIndex \in Int
StandsIn(r, L) == r.status # "FREE" /\ (r.status = "OVER" \/ r.nextpageNum \in PagesOf(L))
EntryIn(r, t, D, L) == RowIn(r, D) /\ ToldTyped(t) /\ (t.open => StandsIn(r, L))
AllIn(sc, td, D, L) == Tables(sc, td) /\ \A s \in Scans : EntryIn(sc[s], td[s], D, L)
IntactTyped ==
  WholeInv /\ opens \in 0 .. MaxOpens /\ AllIn(scan, told, DOMAIN page, Leaves)
\* Of an index that was damaged, nothing is claimed.
ScanTyped == damaged \in BOOLEAN /\ (~ damaged => IntactTyped)

\* On the pages as they are it is what was said before.
LEMMA EntryIs ==
  ASSUME NEW r, NEW t
  PROVE  EntryIn(r, t, DOMAIN page, Leaves) <=>
           RowTyped(r) /\ ToldTyped(t) /\ (t.open => r.status # "FREE" /\ Stands(r))
<1>1. RowIn(r, DOMAIN page) <=> RowTyped(r)
  BY DEF RowIn, RowTyped, PagesOf, PageNums, Anywhere, AllOps
<1>2. StandsIn(r, Leaves) <=> r.status # "FREE" /\ Stands(r)
  BY DEF StandsIn, Stands, PagesOf, Stops
<1>3. QED
  BY <1>1, <1>2, Zenon DEF EntryIn

\* It stays so with more pages and more leaves,
LEMMA EntryMore ==
  ASSUME NEW r, NEW t, NEW D, NEW L, EntryIn(r, t, D, L), NEW D2, D \subseteq D2, NEW L2,
         ~ t.open \/ L \subseteq L2
  PROVE  EntryIn(r, t, D2, L2)
<1>1. RowIn(r, D2)
  BY DEF EntryIn, RowIn, PagesOf
<1>2. t.open => StandsIn(r, L2)
  BY DEF EntryIn, StandsIn, PagesOf
<1>3. QED
  BY <1>1, <1>2 DEF EntryIn

\* and for all rows,
LEMMA AllMore ==
  ASSUME NEW sc, NEW td, NEW D, NEW L, AllIn(sc, td, D, L), NEW D2, D \subseteq D2, NEW L2,
         (\A s \in Scans : ~ td[s].open) \/ L \subseteq L2
  PROVE  AllIn(sc, td, D2, L2)
<1>1. ASSUME NEW s \in Scans PROVE EntryIn(sc[s], td[s], D2, L2)
  <2> DEFINE r == sc[s]
             t == td[s]
  <2>1. EntryIn(r, t, D, L) /\ (~ t.open \/ L \subseteq L2)
    BY DEF AllIn
  <2> HIDE DEF r, t
  <2>2. EntryIn(r, t, D2, L2)
    BY <2>1, EntryMore
  <2>3. QED
    BY <2>2 DEF r, t
<1>2. QED
  BY <1>1 DEF AllIn

\* one of which may change.
LEMMA AllChange ==
  ASSUME NEW sc, NEW td, NEW D, NEW L, AllIn(sc, td, D, L), NEW s \in Scans, NEW r, NEW t,
         EntryIn(r, t, D, L),
         NEW sc2, sc2 = [sc EXCEPT ![s] = r], NEW td2, td2 = [td EXCEPT ![s] = t]
  PROVE  AllIn(sc2, td2, D, L)
<1>1. IsTold(t) /\ Tables(sc, td)
  BY DEF EntryIn, ToldTyped, AllIn
<1>2. Tables(sc2, td2)
  BY <1>1, TablesChange
<1>3. ASSUME NEW x \in Scans PROVE EntryIn(sc2[x], td2[x], D, L)
  <2>1. CASE x = s
    <3>1. sc2[x] = r /\ td2[x] = t
      BY <1>1, <2>1 DEF Tables
    <3>2. QED
      BY <3>1
  <2>2. CASE x # s
    <3>1. sc2[x] = sc[x] /\ td2[x] = td[x]
      BY <1>1, <2>2 DEF Tables
    <3>2. QED
      BY <3>1 DEF AllIn
  <2>3. QED
    BY <2>1, <2>2
<1>4. QED
  BY <1>2, <1>3 DEF AllIn
\* A step that changes no page and one entry.
Settles(row, t) == RowTyped(row) /\ ToldTyped(t) /\ (t.open => row.status # "FREE" /\ Stands(row))
StepTypes ==
  /\ page' = page /\ acked' = acked /\ fixed' \subseteq DOMAIN page
  /\ stack' \in Seq([pageNumber : DOMAIN page, offset : Nat]) /\ opens' \in 0 .. MaxOpens

\* The tables are typed after a step that leaves the pages,
LEMMA TypedAfter ==
  ASSUME WholeInv, StepTypes, NEW sc2, scan' = sc2, NEW td2, told' = td2,
         AllIn(sc2, td2, DOMAIN page, Leaves)
  PROVE  IntactTyped'
<1>1. TreeInv'
  BY SamePages DEF WholeInv, StepTypes
<1>2. WholeInv' /\ opens' \in 0 .. MaxOpens
  BY <1>1 DEF WholeInv, StepTypes
<1>3. (DOMAIN page)' = DOMAIN page /\ Leaves' = Leaves
  BY DEF StepTypes, Leaves, IsLeaf
<1>4. IntactTyped' = (WholeInv' /\ opens' \in 0 .. MaxOpens /\ AllIn(scan', told', (DOMAIN page)', Leaves'))
  BY DEF IntactTyped
<1>5. QED
  BY <1>2, <1>3, <1>4

\* as it is if one row settles.
LEMMA OneEntry ==
  ASSUME IntactTyped, StepTypes, NEW s \in Scans, NEW row, NEW t, Settles(row, t),
         scan' = [scan EXCEPT ![s] = row], told' = [told EXCEPT ![s] = t]
  PROVE  IntactTyped'
<1> DEFINE sc2 == scan'
           td2 == told'
           D == DOMAIN page
           L == Leaves
           sc == scan
           td == told
<1>1. EntryIn(row, t, D, L)
  BY EntryIs DEF Settles
<1>2. AllIn(sc, td, D, L) /\ sc2 = [sc EXCEPT ![s] = row] /\ td2 = [td EXCEPT ![s] = t]
  BY DEF IntactTyped
<1> HIDE DEF sc2, td2, D, L, sc, td
<1>3. AllIn(sc2, td2, D, L)
  BY <1>1, <1>2, AllChange
<1>4. scan' = sc2 /\ told' = td2 /\ AllIn(sc2, td2, DOMAIN page, Leaves)
  BY <1>3 DEF sc2, td2, D, L
<1>5. QED
  BY <1>4, TypedAfter DEF IntactTyped

\* What is known of a row.
LEMMA EntryOf ==
  ASSUME IntactTyped, NEW s \in Scans
  PROVE  /\ RowTyped(scan[s]) /\ ToldTyped(told[s]) /\ Tables(scan, told)
         /\ told[s].open => scan[s].status # "FREE" /\ Stands(scan[s])
<1>1. EntryIn(scan[s], told[s], DOMAIN page, Leaves) /\ Tables(scan, told)
  BY DEF IntactTyped, AllIn
<1>2. QED
  BY <1>1, EntryIs

\* AM_CloseIndexScan,
LEMMA CloseTyped ==
  ASSUME IntactTyped, NEW s \in Scans, AM_CloseIndexScan(s)
  PROVE  IntactTyped'
<1> DEFINE row == [scan[s] EXCEPT !.status = "FREE"]
           t == TellsClosed(told[s])
<1>1. /\ page' = page /\ acked' = acked /\ fixed' = fixed /\ stack' = stack /\ opens' = opens
      /\ scan' = [scan EXCEPT ![s].status = "FREE"]
      /\ told' = [told EXCEPT ![s] = [NothingTold EXCEPT !.failed = told[s].failed]]
  BY DEF AM_CloseIndexScan
<1>2. scan' = [scan EXCEPT ![s] = row] /\ told' = [told EXCEPT ![s] = t]
  BY <1>1, Zenon DEF TellsClosed
<1>3. StepTypes
  BY <1>1 DEF StepTypes, IntactTyped, WholeInv
<1>4. ToldTyped(t) /\ t.open = FALSE
  <2> DEFINE w == told[s]
  <2>1. ToldTyped(w)
    BY EntryOf
  <2> HIDE DEF w
  <2>2. ToldTyped(TellsClosed(w)) /\ TellsClosed(w).open = FALSE
    BY <2>1, TellsClosedTyped
  <2>3. QED
    BY <2>2 DEF w
<1>5. RowTyped(row)
  <2> DEFINE r == scan[s]
  <2>1. RowTyped(r)
    BY EntryOf
  <2> HIDE DEF r
  <2>2. RowTyped([r EXCEPT !.status = "FREE"])
    BY <2>1, FreeRow
  <2>3. QED
    BY <2>2 DEF r
<1> HIDE DEF row, t
<1>6. Settles(row, t)
  BY <1>4, <1>5 DEF Settles
<1>7. QED
  BY <1>2, <1>3, <1>6, OneEntry

\* AM_FindNextEntry,
LEMMA FindTyped ==
  ASSUME IntactTyped, NEW s \in Scans, NEW pool, AM_FindNextEntry(s, pool)
  PROVE  IntactTyped'
<1> DEFINE row == scan[s]
           fx == fixed
           k == Asked(row, fx, pool)
           j == NextEntry(k)
           w == told[s]
           rec == j.rec
           rc == j.rc
           refuses == Refuses(pool)
           t == IF rc = "" THEN TellsEntry(w, rec) ELSE TellsEnd(w, rc, refuses)
           r2 == j.row
<1>1. RowTyped(row) /\ ToldTyped(w) /\ Tables(scan, told)
        /\ (w.open => row.status # "FREE" /\ Stands(row))
  BY EntryOf
<1>2. FindEffect(s, j, t)
  <2>1. k = Asked(scan[s], fixed, pool) /\ j = NextEntry(k)
        /\ t = (IF j.rc = "" THEN TellsEntry(told[s], j.rec) ELSE TellsEnd(told[s], j.rc, Refuses(pool)))
    OBVIOUS
  <2> HIDE DEF k, j, t, w, rec, rc, r2, row, fx, refuses
  <2>2. QED
    BY <2>1, FindDoes
<1>3. row.status # "FREE" /\ Stands(row)
  BY <1>1, <1>2 DEF FindEffect
<1>4. PagesAreOfType /\ fx \subseteq DOMAIN page
  BY PagesAreTyped DEF IntactTyped, WholeInv
<1>5. k = Asked(row, fx, pool)
  OBVIOUS
<1> HIDE DEF row, fx, k, w
<1>6. Outcome(j)
  BY <1>1, <1>3, <1>4, <1>5, NextOutcome
<1> HIDE DEF j
<1>7. RowTyped(r2) /\ Stands(r2) /\ r2.status # "FREE" /\ rc \in Codes /\ rec \in RecIds \cup {Junk}
      /\ j.fixed \subseteq DOMAIN page
  BY <1>6 DEF Outcome
<1>8. r2 = j.row
  OBVIOUS
<1> HIDE DEF rec, rc, r2, refuses
<1>9. ToldTyped(t)
  <2>1. ToldTyped(TellsEntry(w, rec))
    BY <1>1, <1>7, TellsEntryTyped
  <2>2. rc # "" => rc \in Answered3
    BY <1>7 DEF Codes, Answered3
  <2>3. rc # "" => ToldTyped(TellsEnd(w, rc, refuses))
    BY <1>1, <2>2, TellsEndTyped
  <2>4. QED
    BY <2>1, <2>3
<1> HIDE DEF t
<1>10. Settles(r2, t)
  BY <1>7, <1>9 DEF Settles
<1>11. StepTypes /\ scan' = [scan EXCEPT ![s] = r2] /\ told' = [told EXCEPT ![s] = t]
  BY <1>2, <1>7, <1>8 DEF FindEffect, StepTypes, IntactTyped, WholeInv
<1>12. QED
  BY <1>10, <1>11, OneEntry

-----------------------------------------------------------------------------
(* A scan is opened in a tree of any height. *)

\* The search ends at a page; if it is not refused, at a leaf, and an index of it.
LEMMA SearchLands ==
  ASSUME WholeInv, NEW value \in Values, NEW sr \in Searches(value), NEW p, p = sr.pageNum,
         NEW at, at = AM_SearchLeaf(page[p], value)
  PROVE  /\ Pushed(sr) \in Seq([pageNumber : DOMAIN page, offset : Nat])
         /\ sr.rc = "AME_OK" => p \in Leaves /\ at.index \in Pos /\ at.found \in BOOLEAN
<1>1. PICK m, E, rk : Tree(page, m, E, E, rk, acked, -1, 0) /\ Linked(page, m, E)
  BY DEF WholeInv, TreeInv, HoldsAcked
<1>2. m \in Nat \ {0} /\ DOMAIN page = 0 .. m - 1
  BY <1>1, TreePages
<1>3. Pushed(sr) \in Seq(StepAt(m)) /\ sr.pageNum \in 0 .. m - 1
  <2> DEFINE st == stack
             N == acked
  <2>1. st = stack /\ st \in Seq(StepAt(m)) /\ Tree(page, m, E, E, rk, N, -1, 0)
    BY <1>1, <1>2 DEF WholeInv, StepAt
  <2> HIDE DEF st, N
  <2>2. QED
    BY <2>1, SearchAnswers
<1>4. ASSUME sr.rc = "AME_OK" PROVE p \in Leaves /\ at.index \in Pos /\ at.found \in BOOLEAN
  <2>1. SearchOK(sr, m, E, value)
    BY <1>1, SearchesDown
  <2>2. page[p].type = "l" /\ p \in 0 .. m - 1
    BY <1>3, <1>4, <2>1 DEF SearchOK
  <2>3. LeafOK(page[p], On(acked, E[p]))
    BY <1>1, <2>2, TreeLeaf
  <2>4. SearchFacts(page[p], On(acked, E[p]), value, AM_SearchLeaf(page[p], value))
    BY <2>3, SearchIs
  <2>5. Spot(page[p], value, at.index, at.found)
    BY <2>4 DEF SearchFacts
  <2>6. PICK Q, c : Woven(page[p], Q, c)
    BY <2>3 DEF LeafOK
  <2>7. page[p].numKeys \in Nat
    BY <2>6 DEF Woven
  <2>8. at.index \in Pos /\ at.found \in BOOLEAN
    <3> DEFINE i == at.index
               f == at.found
    <3>1. Spot(page[p], value, i, f)
      BY <2>5
    <3> HIDE DEF i, f
    <3>2. i \in Pos
      BY <2>7, <3>1 DEF Spot, Pos
    <3>3. f \in BOOLEAN
      BY <3>1 DEF Spot
    <3>4. QED
      BY <3>2, <3>3 DEF i, f
  <2>9. QED
    BY <1>2, <2>2, <2>8 DEF Leaves, IsLeaf
<1>5. QED
  BY <1>2, <1>3, <1>4 DEF StepAt

\* What AM_OpenIndexScan leaves on the stack, and when it does nothing else.
LEMMA OpenLeaves ==
  ASSUME NEW s, NEW op, NEW value, NEW pool, AM_OpenIndexScan(s, op, value, pool), NEW sr,
         OpenBy(s, op, value, pool, sr)
  PROVE  /\ stack' = stack \/ stack' = Pushed(sr)
         /\ opens < MaxOpens /\ opens' = opens + 1 /\ scan[s].status = "FREE"
         /\ op # "ALL" /\ sr.rc # "AME_OK" => fixed' = fixed /\ scan' = scan /\ told' = told
<1>1. opens < MaxOpens /\ opens' = opens + 1 /\ scan[s].status = "FREE"
  BY DEF AM_OpenIndexScan
<1>2. stack' = stack \/ stack' = Pushed(sr)
  BY DEF OpenBy
<1>3. op # "ALL" /\ sr.rc # "AME_OK" => UNCHANGED <<fixed, scan, told>>
  BY DEF OpenBy
<1>4. QED
  BY <1>1, <1>2, <1>3

\* The call that opens a scan leaves a row of its type.
LEMMA OpenOpens ==
  ASSUME WholeInv, PagesAreOfType, "NOT_EQUAL" \notin Ops, NEW row, RowTyped(row), NEW op \in Ops,
         NEW value \in Values,
         NEW pool, NEW sr \in Searches(value), NEW p, p = sr.pageNum, NEW at,
           at = AM_SearchLeaf(page[p], value),
         NEW fx, fx = fixed,
         NEW k, k = Begun(row, fx, pool), NEW l, l = Placed(k, p, op, at.index),
         NEW b, b = (IF at.index > page[p].numKeys THEN Beyond(l, p) ELSE l), NEW f, f = at.found,
         NEW left \in {AME_PF, GetLeftPageNum}, op = "ALL" \/ sr.rc = "AME_OK"
  PROVE  Rests(IF op = "ALL" THEN OpenAll(k, left) ELSE OpenedAt(b, p, f, left))
<1>1. TreeInv /\ fx \subseteq DOMAIN page /\ op \in AllOps
  BY DEF WholeInv, AllOps
<1>2. AM_RootPageNum \in DOMAIN page
  BY <1>1, RootIn
<1>3. Opening(k, AllOps, PageNums, Anywhere, Nat)
  BY <1>1, <1>2, BegunOpens
<1>4. CASE op = "ALL"
  <2> DEFINE P == PageNums
             y == OpenAll(k, left)
  <2>1. P \subseteq PageNums /\ Opening(k, AllOps, P, Anywhere, Nat)
    BY <1>3
  <2> HIDE DEF P
  <2>2. Opens2(y)
    BY <1>1, <2>1, AllOpens
  <2> HIDE DEF y
  <2>4. Rests(y)
    BY <2>2, OpensRest
  <2>3. QED
    BY <1>4, <2>4 DEF y
<1>5. CASE op # "ALL"
  <2> DEFINE i == at.index
             y == OpenedAt(b, p, f, left)
             A == {op}
  <2>1. p \in Leaves /\ i \in Pos /\ f \in BOOLEAN
    BY <1>5, SearchLands
  <2>2. op \in Named \/ op = "INVALID"
    BY <1>5, ScanAssumption DEF Named
  <2>3. op \in A /\ l = Placed(k, p, op, i)
    OBVIOUS
  <2>4. b = Beyond(l, p) \/ b = l
    OBVIOUS
  <2> HIDE DEF i, A
  <2>5. OpenOf(l, A, Leaves, Anywhere, Pos, Leaves)
    BY <1>3, <2>1, <2>3, PlacedOpens
  <2>6. OpenOf(Beyond(l, p), A, Stops, Anywhere, Pos, Leaves)
    BY <2>1, <2>5, BeyondOpens
  <2>7. OpenOf(l, A, Stops, Anywhere, Pos, Leaves)
    <3> DEFINE L == Leaves
               N == Anywhere
               I == Pos
               P == Stops
               A2 == A
               N2 == N
               I2 == I
               L2 == L
    <3>1. A \subseteq A2 /\ N \subseteq N2 /\ I \subseteq I2 /\ L \subseteq L2 /\ L \subseteq P
      BY PlacesAre
    <3>2. OpenOf(l, A, L, N, I, L)
      BY <2>5
    <3> HIDE DEF L, N, I, P, A2, N2, I2, L2
    <3>3. OpenOf(l, A2, P, N2, I2, L2)
      BY <3>1, <3>2, OpenOfMore
    <3>4. QED
      BY <3>3 DEF L, N, I, P, A2, N2, I2, L2
  <2>8. OpenOf(b, A, Stops, Anywhere, Pos, Leaves)
    BY <2>4, <2>6, <2>7
  <2>9. FoundFor(b, op)
    BY <2>8 DEF FoundFor, A
  <2>10. CASE op = "INVALID"
    <3> DEFINE z == "INVALID"
    <3>1. FoundFor(b, z) /\ z \in AllOps
      BY <1>1, <2>9, <2>10
    <3> HIDE DEF y
    <3>2. Rests(y)
      BY <3>1, InvalidRests DEF y
    <3>3. QED
      BY <1>5, <3>2 DEF y
  <2>11. CASE op \in Named
    <3>1. Opens2(y)
      BY <1>1, <2>1, <2>9, <2>11, OpenedOpens
    <3> HIDE DEF y
    <3>2. Rests(y)
      BY <3>1, OpensRest
    <3>3. QED
      BY <1>5, <3>2 DEF y
  <2>12. QED
    BY <2>2, <2>10, <2>11
<1>6. QED
  BY <1>4, <1>5

\* AM_OpenIndexScan,
LEMMA OpenTyped ==
  ASSUME "NOT_EQUAL" \notin Ops, IntactTyped, NEW s \in Scans, NEW op \in Ops, NEW value \in Sought,
         NEW pool,
         AM_OpenIndexScan(s, op, value, pool)
  PROVE  IntactTyped'
<1>0. PICK sr \in Searches(value) : OpenBy(s, op, value, pool, sr)
  BY OpenSearches
<1> DEFINE p == sr.pageNum
           at == AM_SearchLeaf(page[p], value)
           row == scan[s]
           fx == fixed
           k == Begun(row, fx, pool)
           l == Placed(k, p, op, at.index)
           b == IF at.index > page[p].numKeys THEN Beyond(l, p) ELSE l
           f == at.found
           left == Leftmost(pool)
           d == IF op = "ALL" THEN OpenAll(k, left) ELSE OpenedAt(b, p, f, left)
           due == Due(op, value)
           sure == Sure(op, at)
           refused == fixed # {}
           w == told[s]
           t == IF d.rc # "" THEN TellsFailed(w) ELSE TellsOpen(w, due, sure, refused)
           r2 == d.row
<1>1. op \in Operators /\ value \in Values
  BY ScanAssumption DEF Operators
<1>2. RowTyped(row) /\ ToldTyped(w) /\ Tables(scan, told) /\ (w.open => row.status # "FREE")
  BY EntryOf
<1>3. WholeInv /\ PagesAreOfType /\ opens \in 0 .. MaxOpens
  BY PagesAreTyped DEF IntactTyped, WholeInv
<1>4. due \subseteq Pairs /\ sure \in BOOLEAN /\ refused \in BOOLEAN
  BY <1>1, DueTyped, SureTyped
<1>14. left \in {AME_PF, GetLeftPageNum}
  BY DEF Leftmost
<1>5. p = sr.pageNum /\ at = AM_SearchLeaf(page[p], value) /\ k = Begun(row, fx, pool)
      /\ l = Placed(k, p, op, at.index) /\ b = (IF at.index > page[p].numKeys THEN Beyond(l, p) ELSE l)
      /\ d = (IF op = "ALL" THEN OpenAll(k, left) ELSE OpenedAt(b, p, f, left)) /\ fx = fixed
         /\ f = at.found /\ row = scan[s] /\ left = Leftmost(pool)
  OBVIOUS
<1>6. OpenEffect(s, op, value, at, d)
  <2>1. k = Begun(scan[s], fixed, pool)
          /\ d = (IF op = "ALL" THEN OpenAll(k, left) ELSE OpenedAt(b, p, at.found, left))
    OBVIOUS
  <2> HIDE DEF p, at, row, fx, k, l, b, f, d, due, sure, w, t, r2, left, refused
  <2>2. QED
    BY <1>0, <1>5, <2>1, OpenDoes
<1>7. /\ page' = page /\ acked' = acked
      /\ \/ fixed' = fixed /\ scan' = scan /\ told' = told
         \/ /\ fixed' = d.fixed /\ scan' = [scan EXCEPT ![s] = r2] /\ told' = [told EXCEPT ![s] = t]
  <2> HIDE DEF p, at, k, l, b, f, d
  <2>1. QED
    BY <1>6, Zenon DEF OpenEffect
<1>8. /\ stack' = stack \/ stack' = Pushed(sr)
      /\ opens < MaxOpens /\ opens' = opens + 1 /\ row.status = "FREE"
      /\ op # "ALL" /\ sr.rc # "AME_OK" => fixed' = fixed /\ scan' = scan /\ told' = told
  <2>1. row = scan[s]
    OBVIOUS
  <2> HIDE DEF row
  <2>2. QED
    BY <1>0, <2>1, OpenLeaves
<1>9. Pushed(sr) \in Seq([pageNumber : DOMAIN page, offset : Nat])
  <2> HIDE DEF p, at
  <2>1. QED
    BY <1>0, <1>1, <1>3, <1>5, SearchLands
<1>10. stack' \in Seq([pageNumber : DOMAIN page, offset : Nat]) /\ opens' \in 0 .. MaxOpens
  BY <1>3, <1>8, <1>9, ScanAssumption DEF WholeInv
<1>11. op = "ALL" \/ sr.rc = "AME_OK" => Rests(d)
  <2> HIDE DEF p, at, row, fx, k, l, b, f, d, left
  <2>1. op = "ALL" \/ sr.rc = "AME_OK"
          => Rests(IF op = "ALL" THEN OpenAll(k, left) ELSE OpenedAt(b, p, f, left))
    BY <1>0, <1>1, <1>2, <1>3, <1>5, <1>14, OpenOpens
  <2>2. QED
    BY <1>5, <2>1, Zenon
<1> HIDE DEF p, at, row, fx, k, l, b, f, d, due, sure, w, left, refused
<1>12. CASE fixed' = fixed /\ scan' = scan /\ told' = told
  <2>1. StepTypes
    BY <1>3, <1>7, <1>10, <1>12 DEF StepTypes, WholeInv
  <2> DEFINE sc == scan
             td == told
  <2>2. scan' = sc /\ told' = td /\ AllIn(sc, td, DOMAIN page, Leaves)
    BY <1>12 DEF IntactTyped
  <2> HIDE DEF sc, td
  <2>3. QED
    BY <1>3, <2>1, <2>2, TypedAfter
<1>13. CASE ~ (fixed' = fixed /\ scan' = scan /\ told' = told)
  <2>1. Rests(d)
    BY <1>8, <1>11, <1>13
  <2>2. fixed' = d.fixed /\ scan' = [scan EXCEPT ![s] = r2] /\ told' = [told EXCEPT ![s] = t]
    BY <1>7, <1>13
  <2>6. RowTyped(r2) /\ d.fixed \subseteq DOMAIN page
        /\ (d.rc = "" => r2.status # "FREE" /\ Stands(r2))
    BY <2>1 DEF Rests
  <2> HIDE DEF r2
  <2>7. ToldTyped(t) /\ (t.open => d.rc = "")
    <3>1. ToldTyped(TellsFailed(w)) /\ TellsFailed(w).open = w.open
      BY <1>2, TellsFailedTyped
    <3>4. ToldTyped(TellsOpen(w, due, sure, refused))
      BY <1>2, <1>4, TellsOpenTyped
    <3>2. ~ w.open
      BY <1>2, <1>8
    <3>3. QED
      BY <3>1, <3>2, <3>4
  <2> HIDE DEF t
  <2>8. Settles(r2, t)
    BY <2>6, <2>7 DEF Settles
  <2>9. StepTypes
    BY <1>7, <1>10, <2>2, <2>6 DEF StepTypes
  <2>10. QED
    BY <2>2, <2>8, <2>9, OneEntry
<1>15. QED
  BY <1>12, <1>13

-----------------------------------------------------------------------------
(* The types always hold. *)

\* A leaf stays a leaf when an entry of it goes.
LEMMA RemovalKeeps ==
  ASSUME NEW l, NEW N \in Counts, LeafOK(l, N), NEW index \in 1 .. l.numKeys, NEW recId \in RecIds,
         recId \in ToSet(RecsAt(l, index))
  PROVE  Removed(l, index, recId).type = "l"
<1> DEFINE k == Removed(l, index, recId)
           M == Minus(N, l.key[index].val, recId)
<1>1. RemovedFacts(k, l, N, index, recId)
  BY RemovedIs
<1> HIDE DEF k
<1>2. LeafOK(k, M)
  BY <1>1 DEF RemovedFacts
<1>3. PICK Q, c : Woven(k, Q, c)
  BY <1>2 DEF LeafOK
<1>4. k.type = "l"
  BY <1>3 DEF Woven, IsLeafRec, LeafOf
<1>5. QED
  BY <1>4 DEF k

\* So no leaf goes when an entry is deleted; a leaf becomes an internal page only by an insertion,
LEMMA DeleteKinds ==
  ASSUME TreeInv, NEW v \in Values, NEW r \in RecIds, AM_DeleteEntry(v, r)
  PROVE  Leaves \subseteq Leaves'
<1>0. PICK s \in Searches(v) : DeleteBy(s, v, r)
  BY DeleteDoes
<1> DEFINE p == s.pageNum
           at == AM_SearchLeaf(page[p], v)
           index == at.index
           found == at.found
<1>1. PICK m, E, rk : Tree(page, m, E, E, rk, acked, -1, 0) /\ Linked(page, m, E)
  BY DEF TreeInv, HoldsAcked
<1>2. m \in Nat \ {0} /\ DOMAIN page = 0 .. m - 1
  BY <1>1, TreePages
<1>3. SearchOK(s, m, E, v)
  BY <1>1, SearchesDown
<1>4. acked \in Counts
  BY DEF TreeInv
<1>5. p \in 0 .. m - 1
  BY <1>3 DEF SearchOK, Answers
<1>6. Refused(s) \/ Removal(s, v, r, index, found)
  BY <1>0 DEF DeleteBy
<1>7. CASE Refused(s)
  BY <1>7 DEF Refused, Leaves, IsLeaf
<1>8. CASE Removal(s, v, r, index, found)
  <2>1. page[p].type = "l"
    BY <1>3, <1>8 DEF SearchOK, Removal
  <2>2. LeafOK(page[p], On(acked, E[p])) /\ On(acked, E[p]) \in Counts
    BY <1>1, <1>4, <1>5, <2>1, TreeLeaf, OnIs
  <2>3. Spot(page[p], v, index, found)
    <3>1. SearchFacts(page[p], On(acked, E[p]), v, AM_SearchLeaf(page[p], v))
      BY <2>2, SearchIs
    <3>2. QED
      BY <3>1 DEF SearchFacts
  <2>4. index \in 1 .. page[p].numKeys
    BY <1>8, <2>3 DEF Spot, Removal
  <2>5. r \in ToSet(RecsAt(page[p], index)) /\ page' = [page EXCEPT ![p] = Removed(page[p], index, r)]
    BY <1>8 DEF Removal
  <2> DEFINE l == page[p]
             N == On(acked, E[p])
  <2>6. LeafOK(l, N) /\ N \in Counts /\ index \in 1 .. l.numKeys /\ r \in ToSet(RecsAt(l, index))
    BY <2>2, <2>4, <2>5
  <2> HIDE DEF p, index, l, N
  <2>7. Removed(l, index, r).type = "l"
    BY <2>6, RemovalKeeps
  <2> DEFINE k == Removed(l, index, r)
  <2>8. page' = [page EXCEPT ![p] = k] /\ k.type = "l"
    BY <2>5, <2>7 DEF l
  <2> HIDE DEF k
  <2>9. QED
    BY <2>8 DEF Leaves, IsLeaf
<1>9. QED
  BY <1>6, <1>7, <1>8

\* a call of AM between the calls of the scans: no leaf ceases to be one but by an insertion,
\* and then no scan is open.
LEMMA CallTyped ==
  ASSUME IntactTyped, ~ damaged', damaged = FALSE, UNCHANGED scanVars, NEW pair \in Pairs,
         \/ NoneOpen /\ AM_InsertEntry(pair[1], pair[2])
         \/ AM_DeleteEntry(pair[1], pair[2])
  PROVE  IntactTyped'
<1> DEFINE v == pair[1]
           r == pair[2]
<1>1. v \in Values /\ r \in RecsOf(v) /\ r \in RecIds
  BY PairIs
<1>2. scan' = scan /\ told' = told /\ opens' = opens
  BY DEF scanVars
<1>3. WholeInv /\ TreeInv
  BY DEF IntactTyped, WholeInv
<1>4. WholeInv'
  <2>1. AM_InsertEntry(pair[1], pair[2]) \/ AM_DeleteEntry(pair[1], pair[2])
    OBVIOUS
  <2>2. AMInv
    BY <1>3 DEF AMInv
  <2>3. AMInv'
    BY <2>1, <2>2, CallKeepsInv
  <2>4. QED
    BY <2>3 DEF AMInv
<1>5. (NoneOpen /\ AM_InsertEntry(v, r)) \/ AM_DeleteEntry(v, r)
  OBVIOUS
<1> HIDE DEF v, r
<1> DEFINE D == DOMAIN page
           L == Leaves
           D2 == DOMAIN page'
           L2 == Leaves'
           sc == scan
           td == told
<1>6. D \subseteq D2 /\ ((\A s \in Scans : ~ td[s].open) \/ L \subseteq L2)
  <2>1. CASE NoneOpen /\ AM_InsertEntry(v, r)
    BY <1>1, <1>3, <2>1, InsertHolds DEF NoneOpen
  <2>2. CASE AM_DeleteEntry(v, r)
    BY <1>1, <1>3, <2>2, DeleteHolds, DeleteKinds
  <2>3. QED
    BY <1>5, <2>1, <2>2
<1>7. AllIn(sc, td, D, L)
  BY DEF IntactTyped
<1>8. IntactTyped' = (WholeInv' /\ opens' \in 0 .. MaxOpens /\ AllIn(scan', told', D2, L2))
  BY DEF IntactTyped
<1>10. opens' \in 0 .. MaxOpens /\ scan' = sc /\ told' = td
  BY <1>2 DEF IntactTyped
<1> HIDE DEF D, L, D2, L2, sc, td
<1>9. AllIn(sc, td, D2, L2)
  BY <1>6, <1>7, AllMore
<1>11. QED
  BY <1>4, <1>8, <1>9, <1>10

\* It holds at first,
LEMMA TypedBegins == ScanInit => ScanTyped
<1> SUFFICES ASSUME ScanInit PROVE ScanTyped
  OBVIOUS
<1>8. AMInv
  BY InitHolds DEF ScanInit
<1>9. damaged = FALSE
  BY DEF ScanInit, Init
<1>1. WholeInv /\ damaged = FALSE
  BY <1>8, <1>9 DEF AMInv
<1>2. scan = [s \in Scans |-> Row] /\ told = [s \in Scans |-> NothingTold] /\ opens = 0
  BY DEF ScanInit
<1>3. RowTyped(Row)
  <2>1. 0 \in PageNums
    BY <1>1, RootIn DEF WholeInv, AM_RootPageNum, PageNums
  <2>2. IsRow(Row)
    BY RowIs
  <2>3. QED
    BY <2>1, <2>2 DEF RowTyped, Row, Anywhere
<1>4. EntryIn(Row, NothingTold, DOMAIN page, Leaves)
  BY <1>3, NothingTyped, EntryIs
<1>5. Tables(scan, told)
  <2>1. \A s \in Scans : scan[s] = Row /\ told[s] = NothingTold
    BY <1>2
  <2>2. scan = [s \in Scans |-> scan[s]] /\ told = [s \in Scans |-> told[s]]
    BY <1>2
  <2>3. QED
    BY <2>1, <2>2, NothingIs DEF Tables
<1>6. \A s \in Scans : EntryIn(scan[s], told[s], DOMAIN page, Leaves)
  BY <1>2, <1>4
<1>10. opens \in 0 .. MaxOpens
  BY <1>2, ScanAssumption
<1>11. AllIn(scan, told, DOMAIN page, Leaves)
  BY <1>5, <1>6 DEF AllIn
<1>7. QED
  BY <1>1, <1>10, <1>11 DEF ScanTyped, IntactTyped

\* and every step keeps it.
LEMMA TypedHolds ==
  ASSUME "NOT_EQUAL" \notin Ops
  PROVE  ScanTyped /\ [ScanNext]_allVars => ScanTyped'
<1> SUFFICES ASSUME ScanTyped, [ScanNext]_allVars PROVE ScanTyped'
  OBVIOUS
<1>7. damaged' \in BOOLEAN /\ (damaged => damaged')
  BY StepDamages DEF ScanTyped
<1>8. SUFFICES ASSUME ~ damaged' PROVE IntactTyped'
  BY <1>7 DEF ScanTyped
<1>9. IntactTyped /\ damaged = FALSE
  BY <1>7, <1>8 DEF ScanTyped
<1>1. CASE UNCHANGED allVars
  <2>1. page' = page /\ fixed' = fixed /\ acked' = acked /\ scan' = scan /\ told' = told
          /\ stack' = stack /\ opens' = opens
    BY <1>1 DEF allVars
  <2>2. WholeInv /\ opens \in 0 .. MaxOpens /\ AllIn(scan, told, DOMAIN page, Leaves)
    BY <1>9 DEF IntactTyped
  <2>3. StepTypes
    BY <2>1, <2>2 DEF StepTypes, WholeInv
  <2> DEFINE sc == scan
             td == told
  <2>4. scan' = sc /\ told' = td /\ AllIn(sc, td, DOMAIN page, Leaves)
    BY <2>1, <2>2
  <2> HIDE DEF sc, td
  <2>5. QED
    BY <2>2, <2>3, <2>4, TypedAfter
<1>2. ASSUME NEW pair \in Pairs, UNCHANGED scanVars,
             \/ NoneOpen /\ AM_InsertEntry(pair[1], pair[2])
             \/ AM_DeleteEntry(pair[1], pair[2])
      PROVE  IntactTyped'
  BY <1>2, <1>8, <1>9, CallTyped
<1>3. ASSUME NEW s \in Scans, NEW op \in Ops, NEW value \in Sought, NEW pool,
             AM_OpenIndexScan(s, op, value, pool)
      PROVE  IntactTyped'
  BY <1>3, <1>9, OpenTyped
<1>4. ASSUME NEW s \in Scans, NEW pool, AM_FindNextEntry(s, pool)
      PROVE  IntactTyped'
  BY <1>4, <1>9, FindTyped
<1>5. ASSUME NEW s \in Scans, AM_CloseIndexScan(s)
      PROVE  IntactTyped'
  BY <1>5, <1>9, CloseTyped
<1>6. QED
  BY <1>1, <1>2, <1>3, <1>4, <1>5, <1>9 DEF ScanNext

\* The invariant implies the types.
LEMMA ScanTypedIs == ScanTyped => ScanTypeOK
<1> SUFFICES ASSUME ScanTyped PROVE ScanTypeOK
  OBVIOUS
<1>4. damaged \in BOOLEAN /\ (~ damaged => IntactTyped)
  BY DEF ScanTyped
<1>5. TypeOK
  BY <1>4, InvTyped DEF IntactTyped, TypeOK
<1>6. SUFFICES ASSUME ~ damaged PROVE TablesTyped
  BY <1>5 DEF ScanTypeOK
<1>7. IntactTyped
  BY <1>4, <1>6
<1>1. opens \in 0 .. MaxOpens
  BY <1>7 DEF IntactTyped
<1>2. ASSUME NEW s \in Scans
      PROVE  /\ scan[s].status \in {"FREE", "FIRST", "BUSY", "LAST", "OVER"}
             /\ scan[s].op \in {"ALL"} \cup Ops
             /\ {scan[s].pageNum, scan[s].lastpageNum} \subseteq PageNums
             /\ scan[s].nextpageNum \in PageNums \cup {AME_PF}
             /\ {scan[s].index, scan[s].actindex, scan[s].lastIndex} \subseteq Nat
                /\ scan[s].nextIndex \in Int
             /\ told[s].open => scan[s].status # "FREE"
                /\ (scan[s].status = "OVER" \/ scan[s].nextpageNum \in Stops)
             /\ told[s].due \subseteq Pairs /\ told[s].got \in Seq(RecIds \cup {Junk})
             /\ told[s].rc \in {"AME_OK", "AME_EOF", "AME_PF"}
             /\ {told[s].open, told[s].sure, told[s].failed, told[s].refused} \subseteq BOOLEAN
  <2>1. RowTyped(scan[s]) /\ ToldTyped(told[s])
    BY <1>7, EntryOf
  <2>2. told[s].open => scan[s].status # "FREE"
          /\ (scan[s].status = "OVER" \/ scan[s].nextpageNum \in Stops)
    BY <1>7, EntryOf DEF Stands
  <2>3. /\ scan[s].status \in {"FREE", "FIRST", "BUSY", "LAST", "OVER"}
        /\ scan[s].op \in {"ALL"} \cup Ops
        /\ {scan[s].pageNum, scan[s].lastpageNum} \subseteq PageNums
        /\ scan[s].nextpageNum \in PageNums \cup {AME_PF}
        /\ {scan[s].index, scan[s].actindex, scan[s].lastIndex} \subseteq Nat /\ scan[s].nextIndex \in Int
    BY <2>1 DEF RowTyped, Going, Anywhere
  <2>4. /\ told[s].due \subseteq Pairs /\ told[s].got \in Seq(RecIds \cup {Junk})
        /\ told[s].rc \in {"AME_OK", "AME_EOF", "AME_PF"}
    BY <2>1 DEF ToldTyped, Answered3
  <2>5. {told[s].open, told[s].sure, told[s].failed, told[s].refused} \subseteq BOOLEAN
    BY <2>1 DEF ToldTyped, IsTold
  <2>6. QED
    BY <2>2, <2>3, <2>4, <2>5
<1>3. QED
  BY <1>1, <1>2 DEF TablesTyped
\* So it always holds, if no scan is for #.
TypedUnless == "NOT_EQUAL" \notin Ops => ScanTyped

\* So it always holds.
THEOREM TypedAlways == ScanSpec => []TypedUnless
<1>1. TypedUnless /\ [ScanNext]_allVars => TypedUnless'
  BY TypedHolds DEF TypedUnless
<1>2. ScanInit => TypedUnless
  BY TypedBegins DEF TypedUnless
<1>3. QED
  BY <1>1, <1>2, PTL DEF ScanSpec

\* Without a scan for # the types hold.
LEMMA UnlessIs ==
  ASSUME "NOT_EQUAL" \notin Ops
  PROVE  TypedUnless => ScanTypeOK
BY ScanTypedIs, Zenon DEF TypedUnless

\* The rows of the scan table, what callers were told and the pages are of their
\* types, and the row of an open scan stands at a leaf, behind the last or is over
\* (amscan.c:267), of an index that was not damaged, for every operator but # and any
\* splits between scans.
THEOREM ScanAlwaysTyped ==
  ASSUME "NOT_EQUAL" \notin Ops
  PROVE  ScanSpec => []ScanTypeOK
<1>1. TypedUnless => ScanTypeOK
  BY UnlessIs
<1>2. QED
  BY <1>1, TypedAlways, PTL
=============================================================================
