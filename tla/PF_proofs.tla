------------------------------ MODULE PF_proofs ------------------------------
(***************************************************************************)
(* The paged-file layer keeps its promises for every number of files, fds, *)
(* pages and buffers and under every failure.  BufOps_proofs says what a   *)
(* call of buf.c shows its callers; a call of pf.c adds the header of one  *)
(* file to that, and the free list that runs from it through the pages.    *)
(***************************************************************************)
EXTENDS PF, BufOps_proofs, FiniteSetTheorems, FunctionTheorems

-----------------------------------------------------------------------------
(* Free lists.  nf[p] is the nextfree of page p, first the firstfree of the *)
(* header and n its numpages.                                               *)

\* order, of length m, is the list: it runs from first through exactly the pages
\* below n that are not used, each once, and ends.
Chained(first, n, nf, m, order) ==
  /\ order \in [1 .. m -> Pages]
  /\ first = IF m = 0 THEN LIST_END ELSE order[1]
  /\ \A i \in 1 .. m :
       order[i] < n /\ nf[order[i]] = IF i = m THEN LIST_END ELSE order[i + 1]
  /\ \A i, j \in 1 .. m : order[i] = order[j] => i = j
  /\ \A p \in Pages : p < n /\ nf[p] # USED => \E i \in 1 .. m : order[i] = p
FreeList(first, n, nf) ==
  \E m \in Nat : \E order \in [1 .. m -> Pages] : Chained(first, n, nf, m, order)

\* Only the pages of the file matter to its free list.
LEMMA SameFreeList ==
  ASSUME NEW first, NEW n \in Nat, NEW f, NEW g,
         \A p \in Pages : p < n => g[p] = f[p],
         FreeList(first, n, f)
  PROVE  FreeList(first, n, g)
<1>0. PICK m \in Nat : \E order \in [1 .. m -> Pages] : Chained(first, n, f, m, order)
  BY DEF FreeList
<1>1. PICK order \in [1 .. m -> Pages] : Chained(first, n, f, m, order)
  BY <1>0
<1>2. \A i \in 1 .. m : order[i] \in Pages /\ order[i] < n
  BY <1>1 DEF Chained
<1>3. Chained(first, n, g, m, order)
  BY <1>1, <1>2 DEF Chained
<1>4. QED
  BY <1>3 DEF FreeList

\* The head of the list is a free page of the file.
LEMMA HeadIsFree ==
  ASSUME NEW first, NEW n \in Nat, NEW nf, FreeList(first, n, nf)
  PROVE  /\ first = LIST_END \/ first \in Pages
         /\ first \in Pages => first < n /\ nf[first] # USED
         /\ first = LIST_END => \A p \in Pages : p < n => nf[p] = USED
<1>0. PICK m \in Nat : \E order \in [1 .. m -> Pages] : Chained(first, n, nf, m, order)
  BY DEF FreeList
<1>1. PICK order \in [1 .. m -> Pages] : Chained(first, n, nf, m, order)
  BY <1>0
<1>2. \A p \in Pages : p # LIST_END /\ p # USED
  BY PoolAssumption DEF LIST_END, USED
<1>3. CASE m = 0
  BY <1>1, <1>2, <1>3 DEF Chained
<1>4. CASE m # 0
  <2>1. 1 \in 1 .. m /\ first = order[1] /\ order[1] \in Pages
    BY <1>1, <1>4 DEF Chained
  <2>2. order[1] < n /\ nf[order[1]] # USED
    <3>1. 1 # m => order[1 + 1] \in Pages
      BY <1>4
    <3>2. QED
      BY <1>1, <1>2, <2>1, <3>1 DEF Chained, LIST_END, USED
  <2>3. QED
    BY <1>2, <2>1, <2>2
<1>5. QED
  BY <1>3, <1>4

\* Taking the head off the list: the page is used, the next one is the head
\* (pf.c:439-447).
LEMMA TakeHead ==
  ASSUME NEW first \in Pages, NEW n \in Nat, NEW f, NEW g,
         FreeList(first, n, f),
         g[first] = USED, \A p \in Pages \ {first} : p < n => g[p] = f[p]
  PROVE  FreeList(f[first], n, g)
<1>0. PICK m \in Nat : \E order \in [1 .. m -> Pages] : Chained(first, n, f, m, order)
  BY DEF FreeList
<1>1. PICK order \in [1 .. m -> Pages] : Chained(first, n, f, m, order)
  BY <1>0
<1>2. m # 0
  BY <1>1, PoolAssumption DEF Chained, LIST_END
<1>3. m - 1 \in Nat /\ 1 \in 1 .. m /\ first = order[1]
  BY <1>1, <1>2 DEF Chained
<1> DEFINE rest == [i \in 1 .. (m - 1) |-> order[i + 1]]
<1>4. /\ rest \in [1 .. (m - 1) -> Pages]
      /\ \A i \in 1 .. (m - 1) : i + 1 \in 1 .. m /\ rest[i] = order[i + 1]
  BY <1>3
<1> HIDE DEF rest
<1>5. f[first] = IF m - 1 = 0 THEN LIST_END ELSE rest[1]
  BY <1>1, <1>2, <1>3, <1>4 DEF Chained
<1>6. ASSUME NEW i \in 1 .. (m - 1)
      PROVE  rest[i] < n /\ g[rest[i]] = IF i = m - 1 THEN LIST_END ELSE rest[i + 1]
  <2>1. /\ order[i + 1] < n /\ order[i + 1] # first /\ order[i + 1] \in Pages
        /\ f[order[i + 1]] = IF i + 1 = m THEN LIST_END ELSE order[i + 1 + 1]
    BY <1>1, <1>3, <1>4 DEF Chained
  <2>2. i # m - 1 => rest[i + 1] = order[i + 1 + 1]
    BY <1>4
  <2>3. QED
    BY <1>4, <2>1, <2>2
<1>7. \A i, j \in 1 .. (m - 1) : rest[i] = rest[j] => i = j
  BY <1>1, <1>4 DEF Chained
<1>8. ASSUME NEW p \in Pages, p < n, g[p] # USED
      PROVE  \E i \in 1 .. (m - 1) : rest[i] = p
  <2>1. PICK j \in 1 .. m : order[j] = p
    BY <1>1, <1>8 DEF Chained
  <2>2. j # 1
    BY <1>3, <1>8, <2>1
  <2>3. j - 1 \in 1 .. (m - 1) /\ (j - 1) + 1 = j
    BY <2>2
  <2>4. QED
    BY <1>4, <2>1, <2>3
<1>9. Chained(f[first], n, g, m - 1, rest)
  BY <1>4, <1>5, <1>6, <1>7, <1>8 DEF Chained
<1>10. QED
  BY <1>3, <1>4, <1>9 DEF FreeList

\* Putting a used page of the file before the head (pf.c:523-526).
LEMMA PutHead ==
  ASSUME NEW first, NEW n \in Nat, NEW f, NEW g, FreeList(first, n, f),
         NEW p \in Pages, p < n, f[p] = USED, g[p] = first,
         \A q \in Pages \ {p} : q < n => g[q] = f[q]
  PROVE  FreeList(p, n, g)
<1>0. PICK m \in Nat : \E order \in [1 .. m -> Pages] : Chained(first, n, f, m, order)
  BY DEF FreeList
<1>1. PICK order \in [1 .. m -> Pages] : Chained(first, n, f, m, order)
  BY <1>0
<1> DEFINE longer == [i \in 1 .. (m + 1) |-> IF i = 1 THEN p ELSE order[i - 1]]
<1>2. /\ longer \in [1 .. (m + 1) -> Pages] /\ longer[1] = p
      /\ \A i \in 1 .. m : longer[i + 1] = order[i]
      /\ \A i \in 1 .. (m + 1) : i # 1 => i - 1 \in 1 .. m /\ longer[i] = order[i - 1]
  <2>1. \A i \in 1 .. (m + 1) : i # 1 => i - 1 \in 1 .. m
    OBVIOUS
  <2>2. \A i \in 1 .. m : i + 1 \in 1 .. (m + 1) /\ i + 1 # 1 /\ (i + 1) - 1 = i
    OBVIOUS
  <2>3. 1 \in 1 .. (m + 1)
    OBVIOUS
  <2>4. QED
    BY <2>1, <2>2, <2>3
<1> HIDE DEF longer
<1>3. \A i \in 1 .. m : order[i] \in Pages /\ order[i] < n /\ order[i] # p
  <2>1. ASSUME NEW i \in 1 .. m
        PROVE  f[order[i]] # USED
    <3>1. i # m => order[i + 1] \in Pages
      OBVIOUS
    <3>2. QED
      BY <1>1, <3>1, PoolAssumption DEF Chained, LIST_END, USED
  <2>2. QED
    BY <1>1, <2>1 DEF Chained
<1>4. ASSUME NEW i \in 1 .. (m + 1)
      PROVE  /\ longer[i] < n
             /\ g[longer[i]] = IF i = m + 1 THEN LIST_END ELSE longer[i + 1]
  <2>1. CASE i = 1
    <3>1. first = IF m = 0 THEN LIST_END ELSE order[1]
      BY <1>1 DEF Chained
    <3>2. QED
      BY <1>2, <2>1, <3>1
  <2>2. CASE i # 1
    <3>1. i - 1 \in 1 .. m /\ longer[i] = order[i - 1]
      BY <1>2, <2>2
    <3>2. f[order[i - 1]] = IF i - 1 = m THEN LIST_END ELSE order[(i - 1) + 1]
      BY <1>1, <3>1 DEF Chained
    <3>3. i # m + 1 => longer[i + 1] = order[i] /\ (i - 1) + 1 = i
      BY <1>2, <2>2
    <3>4. g[order[i - 1]] = f[order[i - 1]]
      BY <1>3, <3>1
    <3>5. QED
      BY <1>3, <3>1, <3>2, <3>3, <3>4
  <2>3. QED
    BY <2>1, <2>2
<1>5. ASSUME NEW i \in 1 .. (m + 1), NEW j \in 1 .. (m + 1), longer[i] = longer[j]
      PROVE  i = j
  <2>1. \A k, l \in 1 .. m : order[k] = order[l] => k = l
    BY <1>1 DEF Chained
  <2>2. \A k \in 1 .. (m + 1) : k # 1 => longer[k] # p
    BY <1>2, <1>3
  <2>3. i # 1 /\ j # 1 => i - 1 = j - 1
    BY <1>2, <1>5, <2>1
  <2>4. QED
    BY <1>2, <1>5, <2>2, <2>3
<1>6. ASSUME NEW q \in Pages, q < n, g[q] # USED
      PROVE  \E i \in 1 .. (m + 1) : longer[i] = q
  <2>1. CASE q = p
    BY <1>2, <2>1
  <2>2. CASE q # p
    <3>1. PICK i \in 1 .. m : order[i] = q
      BY <1>1, <1>6, <2>2 DEF Chained
    <3>2. i + 1 \in 1 .. (m + 1) /\ longer[i + 1] = q
      BY <1>2, <3>1
    <3>3. QED
      BY <3>2
  <2>3. QED
    BY <2>1, <2>2
<1>7. Chained(p, n, g, m + 1, longer)
  <2>1. m + 1 # 0
    OBVIOUS
  <2>2. QED
    BY <1>2, <1>4, <1>5, <1>6, <2>1 DEF Chained
<1>8. QED
  BY <1>2, <1>7 DEF FreeList

\* A file with no free page stays so when a used page is added to it
\* (pf.c:449-464).
LEMMA AddUsed ==
  ASSUME NEW n \in Nat, NEW f, NEW g, FreeList(LIST_END, n, f),
         \A p \in Pages : p < n => g[p] = f[p], n \in Pages => g[n] = USED
  PROVE  FreeList(LIST_END, n + 1, g)
<1>1. \A p \in Pages : p < n + 1 => g[p] = USED
  <2>1. \A p \in Pages : p < n => f[p] = USED
    BY HeadIsFree
  <2>2. \A p \in Pages : p < n + 1 => p < n \/ p = n
    BY PoolAssumption
  <2>3. QED
    BY <2>1, <2>2
<1> DEFINE none == [i \in 1 .. 0 |-> 0]
<1>2. none \in [1 .. 0 -> Pages]
  OBVIOUS
<1>3. Chained(LIST_END, n + 1, g, 0, none)
  BY <1>1, <1>2 DEF Chained
<1>4. QED
  BY <1>2, <1>3 DEF FreeList

-----------------------------------------------------------------------------
(* The calls of buf.c as pf.c makes them. *)

\* PFbufGet never answers what GetUsed answers for a free page.
LEMMA GetNotFree ==
  ASSUME NEW s, NEW k, NEW o \in PFbufGet(s, k)
  PROVE  o.rc # "FREE"
<1>1. CASE Resident(s, k)
  BY <1>1 DEF PFbufGet, Hit, Outcome
<1>2. ASSUME NEW x, NEW f, NEW c, NEW y \in Install(x, k, f, c)
      PROVE  y.rc # "FREE"
  <2> DEFINE u == [x EXCEPT !.frame[f] = [fd |-> k[1], page |-> k[2], fixed |-> TRUE,
                                          dirty |-> FALSE, fpage |-> c]]
  <2>1. PICK h \in PFhashInsert(u, k, f) :
          y = IF h.rc = "OK" THEN h ELSE Outcome(h.rc, FreeFrame(h.s, f))
    BY DEF Install
  <2> HIDE DEF u
  <2>2. h.rc # "FREE"
    BY FaultOutcome DEF PFhashInsert, Outcome
  <2>3. QED
    BY <2>1, <2>2 DEF Outcome
<1>3. ASSUME NEW x, NEW f, NEW w \in WriteBack(x, f)
      PROVE  w.rc # "FREE"
  BY FaultOutcome DEF WriteBack, PFwritefcn, Outcome
<1>4. ASSUME NEW a \in PFbufInternalAlloc(s)
      PROVE  a.rc # "FREE"
  <2>1. CASE s.numbpage < MaxBufs
    BY <2>1, FaultOutcome DEF PFbufInternalAlloc, MallocFrame
  <2>2. CASE ~ (s.numbpage < MaxBufs) /\ Unfixed(s) = {}
    BY <2>2 DEF PFbufInternalAlloc
  <2>3. CASE ~ (s.numbpage < MaxBufs) /\ Unfixed(s) # {}
    BY <1>3, <2>3 DEF PFbufInternalAlloc, Evict
  <2>4. QED
    BY <2>1, <2>2, <2>3
<1>5. CASE ~ Resident(s, k)
  <2>1. PICK a \in PFbufInternalAlloc(s) :
          o \in IF a.rc # "OK" THEN {Outcome(a.rc, a.s)} ELSE ReadInto(a.s, k, a.b)
    BY <1>5 DEF PFbufGet
  <2>2. CASE a.rc # "OK"
    BY <1>4, <2>1, <2>2 DEF Outcome
  <2>3. CASE a.rc = "OK"
    <3>1. PICK r \in PFreadfcn(a.s, k) :
            o \in IF r.rc = "OK" THEN Install(a.s, k, a.b, a.s.disk[Place(a.s, k)])
                  ELSE {Outcome(r.rc, FreeFrame(a.s, a.b))}
      BY <2>1, <2>3 DEF ReadInto
    <3>2. r.rc # "FREE"
      BY FaultOutcome DEF PFreadfcn
    <3>3. QED
      BY <1>2, <3>1, <3>2 DEF Outcome
  <2>4. QED
    BY <2>2, <2>3
<1>6. QED
  BY <1>1, <1>5

\* What the callers of GetUsed see: no page changes, and only a used page that was
\* not fixed gets fixed.
GotUsed(s, o, B, O, k) ==
  /\ Sound(o.s) /\ Faithful(o.s, B, O) /\ SameFiles(s, o.s)
  /\ \A j \in Keys \ {k} : SameSeen(s, o.s, B, j)
  /\ Content(o.s, k) = Content(s, k)
  /\ o.rc = "OK" => /\ Content(s, k).nextfree = USED
                    /\ ~ Fixed(s, k) /\ Fixed(o.s, k)
  /\ o.rc = "FREE" => Content(s, k).nextfree # USED
  /\ o.rc # "OK" => (Fixed(o.s, k) <=> Fixed(s, k))

\* PF_GetThisPage, PF_GetNextPage and PF_DisposePage come by a page this way
\* (pf.c:363-377, 414-421, 500-516).
LEMMA GetUsedSeen ==
  ASSUME NEW s, Sound(s), NEW B, NEW O, Faithful(s, B, O),
         NEW k \in B, NEW o \in GetUsed(s, k)
  PROVE  GotUsed(s, o, B, O, k)
<1>1. k \in Keys /\ s.file[k[1]] \in Files
  BY DEF Faithful
<1>2. PICK g \in PFbufGet(s, k) :
        o = IF g.rc = "OK" /\ NextFreeOf(g.s, k) # USED
            THEN Outcome("FREE", PFbufUnfix(g.s, k, FALSE).s)
            ELSE g
  BY DEF GetUsed
<1>3. Got(s, g, B, O, k) /\ Sound(g.s) /\ g.rc # "FREE"
  BY <1>1, GetSeen, GetSound, GetNotFree
<1>4. CASE g.rc = "OK" /\ NextFreeOf(g.s, k) # USED
  <2> DEFINE u == PFbufUnfix(g.s, k, FALSE).s
  <2>1. o.rc = "FREE" /\ o.s = u
    BY <1>2, <1>4 DEF Outcome
  <2>2. k \notin O /\ O \ {k} = O
    BY <1>3, <1>4 DEF Got, Faithful
  <2>3. /\ Faithful(u, B, O) /\ SameFiles(g.s, u)
        /\ ~ Fixed(u, k) /\ Content(u, k) = Content(g.s, k)
        /\ \A j \in Keys \ {k} : SameSeen(g.s, u, B, j)
    <3>1. Faithful(g.s, B, O) /\ (k \in O => FALSE = TRUE) /\ FALSE \in BOOLEAN
      BY <1>3, <2>2 DEF Got
    <3>2. /\ Faithful(u, B, O \ {k}) /\ SameFiles(g.s, u)
          /\ ~ Fixed(u, k) /\ Content(u, k) = Content(g.s, k)
          /\ \A j \in Keys \ {k} : SameSeen(g.s, u, B, j)
      BY ONLY <1>1, <1>3, <3>1, UnfixSeen
    <3>3. QED
      BY <2>2, <3>2
  <2>4. Sound(u)
    BY <1>1, <1>3, UnfixSound
  <2> HIDE DEF u
  <2>5. SameFiles(s, u) /\ \A j \in Keys \ {k} : SameSeen(s, u, B, j)
    BY <1>3, <2>3 DEF Got, SameFiles, SameSeen
  <2>6. QED
    BY <1>3, <1>4, <2>1, <2>3, <2>4, <2>5 DEF Got, GotUsed, NextFreeOf
<1>5. CASE ~ (g.rc = "OK" /\ NextFreeOf(g.s, k) # USED)
  BY <1>2, <1>3, <1>5 DEF Got, GotUsed, NextFreeOf
<1>6. QED
  BY <1>4, <1>5

\* Taking a free page: it is fixed and used, and owed a dirty mark; the header
\* goes on to the next one.  A failure shows nobody anything (pf.c:439-447).
LEMMA TakeFreeSeen ==
  ASSUME NEW s, Sound(s), NEW B, NEW O, Faithful(s, B, O), NEW hdr, NEW fd,
         <<fd, hdr.firstfree>> \in B, NEW o \in TakeFree(s, hdr, fd)
  PROVE  LET k == <<fd, hdr.firstfree>>
         IN  /\ o.key = k /\ Sound(o.s)
             /\ o.rc = "OK" =>
                  /\ Faithful(o.s, B, O \cup {k}) /\ SameFiles(s, o.s)
                  /\ Fixed(o.s, k) /\ ~ Fixed(s, k)
                  /\ Content(o.s, k) = [Content(s, k) EXCEPT !.nextfree = USED]
                  /\ \A j \in Keys \ {k} : SameSeen(s, o.s, B, j)
                  /\ o.hdr = [hdr EXCEPT !.firstfree = Content(s, k).nextfree]
             /\ o.rc # "OK" => /\ Faithful(o.s, B, O) /\ Unseen(s, o.s, B)
                               /\ o.hdr = hdr
<1> DEFINE k == <<fd, hdr.firstfree>>
<1>1. k \in B /\ k \in Keys /\ s.file[k[1]] \in Files
  BY DEF Faithful
<1>2. PICK g \in PFbufGet(s, k) :
        o = [rc |-> g.rc, key |-> k,
             s |-> IF g.rc = "OK" THEN PFbufUsed(g.s, k).s ELSE g.s,
             hdr |-> IF g.rc = "OK" THEN [hdr EXCEPT !.firstfree = NextFreeOf(g.s, k)]
                     ELSE hdr]
  BY DEF TakeFree
<1> HIDE DEF k
<1>3. Got(s, g, B, O, k) /\ Sound(g.s)
  BY <1>1, GetSeen, GetSound
<1>4. CASE g.rc # "OK"
  <2>1. o.rc # "OK" /\ o.key = k /\ o.s = g.s /\ o.hdr = hdr
    BY <1>2, <1>4
  <2>2. Unseen(s, g.s, B)
    BY <1>3, <1>4 DEF Got, Unseen, SameSeen
  <2>3. QED
    BY <1>3, <2>1, <2>2 DEF Got, k
<1>5. CASE g.rc = "OK"
  <2> DEFINE t == PFbufUsed(g.s, k).s
  <2>1. /\ o.rc = "OK" /\ o.key = k /\ o.s = t
        /\ o.hdr = [hdr EXCEPT !.firstfree = Content(g.s, k).nextfree]
    BY <1>2, <1>5 DEF NextFreeOf
  <2>2. Sound(t)
    BY <1>1, <1>3, UsedSound
  <2>3. /\ Faithful(t, B, O \cup {k}) /\ SameFiles(g.s, t) /\ Fixed(t, k)
        /\ Content(t, k) = [Content(g.s, k) EXCEPT !.nextfree = USED]
        /\ \A j \in Keys \ {k} : SameSeen(g.s, t, B, j)
    BY <1>1, <1>3, <1>5, UsedSeen DEF Got
  <2> HIDE DEF t
  <2>4. SameFiles(s, t) /\ \A j \in Keys \ {k} : SameSeen(s, t, B, j)
    BY <1>3, <2>3 DEF Got, SameFiles, SameSeen
  <2>5. QED
    BY <1>3, <1>5, <2>1, <2>2, <2>3, <2>4 DEF Got, k
<1>6. QED
  BY <1>4, <1>5

\* Making a file longer: the new page is fixed and used, and owed a dirty mark.  A
\* failure shows nobody anything (pf.c:449-464).
Lengthened(s, o, B, O, hdr, k) ==
  /\ o.key = k /\ Sound(o.s)
  /\ o.rc = "OK" =>
       /\ Faithful(o.s, B \cup {k}, O \cup {k}) /\ SameFiles(s, o.s)
       /\ Fixed(o.s, k) /\ Content(o.s, k).nextfree = USED
       /\ \A j \in Keys \ {k} : SameSeen(s, o.s, B, j)
       /\ o.hdr = [hdr EXCEPT !.numpages = @ + 1]
  /\ o.rc # "OK" => /\ Faithful(o.s, B, O) /\ Unseen(s, o.s, B)
                    /\ o.hdr = hdr

LEMMA ExtendSeen ==
  ASSUME NEW s, Sound(s), NEW B, NEW O, Faithful(s, B, O), NEW hdr, NEW fd,
         <<fd, hdr.numpages>> \in Keys, <<fd, hdr.numpages>> \notin B,
         s.file[fd] \in Files, NEW o \in Extend(s, hdr, fd)
  PROVE  Lengthened(s, o, B, O, hdr, <<fd, hdr.numpages>>)
<1> DEFINE k == <<fd, hdr.numpages>>
<1>1. k \in Keys /\ k \notin B /\ k[1] = fd
  OBVIOUS
<1>2. PICK a \in PFbufAlloc(s, k) :
        o = [rc |-> a.rc, key |-> k,
             s |-> IF a.rc = "OK" THEN PFbufUsed(a.s, k).s ELSE a.s,
             hdr |-> IF a.rc = "OK" THEN [hdr EXCEPT !.numpages = @ + 1] ELSE hdr]
  BY DEF Extend
<1> HIDE DEF k
<1>3. /\ Sound(a.s)
      /\ a.rc = "OK" => /\ Faithful(a.s, B \cup {k}, O \cup {k})
                        /\ SameFiles(s, a.s)
                        /\ \A j \in Keys \ {k} : SameSeen(s, a.s, B, j)
      /\ a.rc # "OK" => Faithful(a.s, B, O) /\ Unseen(s, a.s, B)
  BY <1>1, AllocSeen, AllocSound
<1>4. CASE a.rc # "OK"
  <2>1. o.rc # "OK" /\ o.key = k /\ o.s = a.s /\ o.hdr = hdr
    BY <1>2, <1>4
  <2>2. QED
    BY <1>3, <1>4, <2>1 DEF k, Lengthened
<1>5. CASE a.rc = "OK"
  <2> DEFINE t == PFbufUsed(a.s, k).s
  <2>1. /\ o.rc = "OK" /\ o.key = k /\ o.s = t
        /\ o.hdr = [hdr EXCEPT !.numpages = @ + 1]
    BY <1>2, <1>5
  <2>2. Sound(t)
    BY <1>1, <1>3, UsedSound
  <2>3. Fixed(a.s, k)
    BY <1>3, <1>5 DEF Faithful
  <2>4. /\ Faithful(t, B \cup {k}, (O \cup {k}) \cup {k}) /\ SameFiles(a.s, t)
        /\ Fixed(t, k)
        /\ Content(t, k) = [Content(a.s, k) EXCEPT !.nextfree = USED]
        /\ \A j \in Keys \ {k} : SameSeen(a.s, t, B \cup {k}, j)
    BY <1>1, <1>3, <1>5, <2>3, UsedSeen
  <2>5. (O \cup {k}) \cup {k} = O \cup {k}
    OBVIOUS
  <2>6. Content(a.s, k) \in FPage
    BY <1>3, <1>5, BornContent
  <2> HIDE DEF t
  <2>7. Content(t, k).nextfree = USED
    BY <2>4, <2>6 DEF FPage
  <2>8. SameFiles(s, t) /\ \A j \in Keys \ {k} : SameSeen(s, t, B, j)
    BY <1>3, <1>5, <2>4 DEF SameFiles, SameSeen
  <2>9. QED
    BY <2>1, <2>2, <2>4, <2>5, <2>7, <2>8 DEF k, Lengthened
<1>6. QED
  BY <1>4, <1>5

\* Chaining a held page and unfixing it dirty: it is nobody's any more, and the
\* others look as before (pf.c:523-529).
LEMMA FreedSeen ==
  ASSUME NEW s, Sound(s), NEW B, NEW O, Faithful(s, B, O),
         NEW k \in Keys, Fixed(s, k), k \notin O, NEW firstfree \in NextFree
  PROVE  LET t == Freed(s, k, firstfree)
         IN  /\ Sound(t) /\ Faithful(t, B, O) /\ SameFiles(s, t) /\ ~ Fixed(t, k)
             /\ Content(t, k).nextfree = firstfree
             /\ \A j \in Keys \ {k} : SameSeen(s, t, B, j)
<1> DEFINE c == [s.frame[s.hash[k]].fpage EXCEPT !.nextfree = firstfree]
           u == [s EXCEPT !.frame[s.hash[k]].fpage = c]
           t == PFbufUnfix(u, k, TRUE).s
<1>1. Resident(s, k) /\ s.hash[k] \in Frames /\ s \in Pool
  BY ResidentFrame DEF Fixed, Sound
<1>2. c \in FPage /\ c.nextfree = firstfree
  <2>1. s.frame[s.hash[k]].fpage \in FPage
    BY <1>1, PageTypes
  <2>2. QED
    BY <2>1 DEF FPage
<1>3. Freed(s, k, firstfree) = t
  BY <1>1 DEF Freed, Pool
<1> HIDE DEF c
<1>4. /\ Faithful(u, B, O \cup {k}) /\ SameFiles(s, u) /\ Fixed(u, k)
      /\ Content(u, k) = c /\ \A j \in Keys \ {k} : SameSeen(s, u, B, j)
  BY ONLY k \in Keys, Sound(s), Faithful(s, B, O), Fixed(s, k), <1>2, WriteSeen
<1>5. Sound(u)
  BY <1>1, <1>2, FpageUpdateSound
<1> HIDE DEF u
<1>6. /\ Faithful(t, B, (O \cup {k}) \ {k}) /\ SameFiles(u, t) /\ ~ Fixed(t, k)
      /\ Content(t, k) = Content(u, k)
      /\ \A j \in Keys \ {k} : SameSeen(u, t, B, j)
  BY <1>4, <1>5, UnfixSeen
<1>7. (O \cup {k}) \ {k} = O
  OBVIOUS
<1>8. Sound(t)
  BY <1>5, UnfixSound
<1> HIDE DEF t
<1>9. SameFiles(s, t) /\ \A j \in Keys \ {k} : SameSeen(s, t, B, j)
  BY <1>4, <1>6 DEF SameFiles, SameSeen
<1>10. QED
  BY <1>2, <1>3, <1>4, <1>6, <1>7, <1>8, <1>9

-----------------------------------------------------------------------------
(* The inductive invariant. *)

NextFrees(s, fd) == [p \in Pages |-> NextFreeOf(s, <<fd, p>>)]
StoredNextFrees(name) == [p \in Pages |-> pool.disk[<<name, p>>].nextfree]
\* A header fits the pages it is the header of.
FileGood(hdr, nf) ==
  /\ \A p \in Nat : p < hdr.numpages => p \in Pages
  /\ FreeList(hdr.firstfree, hdr.numpages, nf)
\* The open files exist; their headers fit the pages as callers see them, and a
\* header that has not changed is the one in the file.
OpenGood ==
  \A fd \in Open :
    /\ FileGood(ftab[fd].hdr, NextFrees(pool, fd))
    /\ dhdr[pool.file[fd]] # Absent
    /\ ~ ftab[fd].hdrchanged => dhdr[pool.file[fd]] = ftab[fd].hdr
\* The closed files have every page their header counts, and the header fits.
ClosedGood ==
  \A name \in Existing : ~ IsOpen(name) =>
    /\ FileGood(dhdr[name], StoredNextFrees(name))
    /\ \A p \in Pages : p < dhdr[name].numpages => pool.disk[<<name, p>>] # Absent
HeldUsed == \A k \in Held : NextFreeOf(pool, k) = USED
\* The looping calls are at work on open files, and PF_GetNextPage has passed only
\* free pages.
CallGood ==
  /\ call.op = "Close" => call.fd \in Open
  /\ call.op = "Next" =>
       /\ call.fd \in Open
       /\ \A p \in Pages : call.from < p /\ p < call.at =>
            NextFreeOf(pool, <<call.fd, p>>) # USED
PFTypes ==
  /\ ftab \in [Fds -> FtabEntry]
  /\ dhdr \in [Files -> Hdr \cup {Absent}]
  /\ owed \subseteq Keys
  /\ call \in {NoCall} \cup [op : {"Close"}, fd : Fds]
              \cup [op : {"Next"}, fd : Fds, from : Pages \cup {-1}, at : Nat]
PFInv ==
  /\ Sound(pool) /\ Faithful(pool, ValidKeys, owed)
  /\ PFTypes /\ OpenGood /\ ClosedGood /\ HeldUsed /\ CallGood

\* Nothing exists at the start.
LEMMA PFInvInit == Init => PFInv
<1> SUFFICES ASSUME Init
             PROVE  PFInv
  OBVIOUS
<1> DEFINE file == [fd \in Fds |-> NULL]
           disk == [q \in Files \X Pages |-> Absent]
<1>1. /\ file \in [Fds -> Files \cup {NULL}]
      /\ disk \in [Files \X Pages -> FPage \cup {Absent}]
      /\ pool = EmptyPool(file, disk) /\ \A fd \in Fds : file[fd] = NULL
  BY DEF Init
<1> HIDE DEF file, disk
<1>2. /\ Sound(pool) /\ pool.file = file /\ \A k \in Keys : pool.hash[k] = NULL
  BY <1>1, EmptyPoolSound DEF EmptyPool
<1>3. Open = {} /\ ValidKeys = {} /\ Held = {} /\ Existing = {}
  <2>1. Open = {}
    BY <1>1, <1>2 DEF Open
  <2>2. Held = {}
    BY <1>2 DEF Held, Fixed, Resident
  <2>3. QED
    BY <2>1, <2>2 DEF ValidKeys, Existing, Init
<1>4. Faithful(pool, ValidKeys, owed)
  <2>1. Distinct(pool)
    BY <1>1, <1>2, PFAssumption DEF Distinct
  <2>2. QED
    BY <1>2, <1>3, <2>1 DEF Faithful, Resident, Init
<1>5. PFTypes
  <2>1. EmptyHdr \in Hdr
    BY DEF EmptyHdr, Hdr, NextFree, LIST_END
  <2>2. ClosedEntry \in FtabEntry
    BY <2>1 DEF ClosedEntry, FtabEntry
  <2>3. QED
    BY <2>2 DEF Init, PFTypes
<1>6. CallGood
  BY DEF CallGood, Init, NoCall
<1>7. QED
  BY <1>2, <1>3, <1>4, <1>5, <1>6 DEF PFInv, OpenGood, ClosedGood, HeldUsed

\* What the invariant says of one page.
LEMMA PageFacts ==
  ASSUME PFInv, NEW k \in Keys
  PROVE  /\ k \in ValidKeys => /\ pool.file[k[1]] \in Files /\ k[1] \in Open
                               /\ k[2] < ftab[k[1]].hdr.numpages
                               /\ Content(pool, k) \in FPage
         /\ Resident(pool, k) => k \in ValidKeys
         /\ Fixed(pool, k) => k \in ValidKeys /\ Content(pool, k).nextfree = USED
         /\ k \in owed => Fixed(pool, k)
<1>1. Faithful(pool, ValidKeys, owed) /\ Sound(pool)
  BY DEF PFInv
<1>2. k \in ValidKeys => Content(pool, k) \in FPage
  BY <1>1, BornContent
<1>3. Fixed(pool, k) => Content(pool, k).nextfree = USED
  BY DEF PFInv, HeldUsed, Held, NextFreeOf
<1>4. QED
  BY <1>1, <1>2, <1>3 DEF Faithful, ValidKeys, ValidPages, Fixed

\* A call that neither opens nor closes a file leaves the closed ones good; what it
\* has to leave good are the open files, the held pages and the looping call.
LEMMA SeenKeeps ==
  ASSUME PFInv, Sound(pool'), Faithful(pool', ValidKeys', owed'),
         SameFiles(pool, pool'), dhdr' = dhdr, PFTypes',
         \A fd \in Open :
           /\ FileGood(ftab'[fd].hdr, NextFrees(pool', fd))
           /\ ~ ftab'[fd].hdrchanged =>
                ~ ftab[fd].hdrchanged /\ ftab'[fd].hdr = ftab[fd].hdr,
         HeldUsed', CallGood'
  PROVE  PFInv'
<1>1. pool'.file = pool.file /\ Open' = Open /\ Existing' = Existing
  BY DEF SameFiles, Open, Existing
<1>2. \A fd \in Open : pool.file[fd] \in Files
  BY DEF PFInv, Sound, Pool, Open
<1>3. OpenGood'
  BY <1>1, <1>2 DEF OpenGood, PFInv
<1>4. ASSUME NEW name \in Existing, ~ IsOpen(name)'
      PROVE  /\ FileGood(dhdr'[name], StoredNextFrees(name)')
             /\ \A p \in Pages :
                  p < dhdr'[name].numpages => pool'.disk[<<name, p>>] # Absent
  <2>1. ~ IsOpen(name) /\ name \in Files
    BY <1>1, <1>4 DEF IsOpen, Existing
  <2>2. \A p \in Pages : pool'.disk[<<name, p>>] = pool.disk[<<name, p>>]
    BY <2>1 DEF IsOpen, SameFiles
  <2>3. StoredNextFrees(name)' = StoredNextFrees(name)
    BY <2>2 DEF StoredNextFrees
  <2>4. QED
    BY <2>1, <2>2, <2>3 DEF PFInv, ClosedGood
<1>5. ClosedGood'
  BY <1>1, <1>4 DEF ClosedGood
<1>6. QED
  BY <1>3, <1>5 DEF PFInv

\* A file whose pages are chained as before keeps its free list.
LEMMA SameFileGood ==
  ASSUME PFInv, NEW fd \in Open, NEW t,
         \A k \in ValidKeys : k[1] = fd => NextFreeOf(t, k) = NextFreeOf(pool, k)
  PROVE  FileGood(ftab[fd].hdr, NextFrees(t, fd))
<1> DEFINE hdr == ftab[fd].hdr
           f == NextFrees(pool, fd)
           g == NextFrees(t, fd)
<1>1. fd \in Fds /\ hdr.numpages \in Nat
  BY DEF Open, PFInv, PFTypes, FtabEntry, Hdr
<1>2. ASSUME NEW p \in Pages, p < hdr.numpages
      PROVE  g[p] = f[p]
  <2>1. <<fd, p>> \in ValidKeys
    BY <1>1, <1>2 DEF ValidKeys, ValidPages, Keys
  <2>2. QED
    BY <2>1 DEF NextFrees
<1>3. FileGood(hdr, f)
  BY DEF PFInv, OpenGood
<1> HIDE DEF hdr, f, g
<1>4. FreeList(hdr.firstfree, hdr.numpages, g)
  BY <1>1, <1>2, <1>3, SameFreeList DEF FileGood
<1>5. FileGood(hdr, g)
  BY <1>3, <1>4 DEF FileGood
<1>6. QED
  BY <1>5 DEF hdr, g

\* A call that chains no page differently, and fixes no page that is free, keeps the
\* invariant.
LEMMA SameChainsKeep ==
  ASSUME PFInv, Sound(pool'), Faithful(pool', ValidKeys, owed'),
         SameFiles(pool, pool'), ftab' = ftab, dhdr' = dhdr, PFTypes', CallGood',
         \A k \in ValidKeys : NextFreeOf(pool', k) = NextFreeOf(pool, k),
         \A k \in Keys : Fixed(pool', k) =>
           Fixed(pool, k) \/ NextFreeOf(pool', k) = USED
  PROVE  PFInv'
<1>1. Open' = Open /\ ValidKeys' = ValidKeys
  <2>1. pool'.file = pool.file
    BY DEF SameFiles
  <2>2. QED
    BY <2>1 DEF Open, ValidKeys, ValidPages
<1>2. \A fd \in Open : FileGood(ftab'[fd].hdr, NextFrees(pool', fd))
  BY SameFileGood
<1>3. HeldUsed'
  <2> SUFFICES ASSUME NEW k \in Keys, Fixed(pool', k)
               PROVE  NextFreeOf(pool', k) = USED
    BY DEF HeldUsed, Held
  <2>1. Fixed(pool, k) => k \in ValidKeys /\ NextFreeOf(pool, k) = USED
    BY PageFacts DEF NextFreeOf
  <2>2. QED
    BY <2>1
<1>4. QED
  BY <1>1, <1>2, <1>3, SeenKeeps

\* What nobody sees keeps the invariant.
LEMMA UnseenKeeps ==
  ASSUME PFInv, Sound(pool'), Faithful(pool', ValidKeys, owed),
         Unseen(pool, pool', ValidKeys),
         UNCHANGED <<ftab, dhdr, owed>>, PFTypes', CallGood'
  PROVE  PFInv'
<1>1. \A k \in ValidKeys : NextFreeOf(pool', k) = NextFreeOf(pool, k)
  BY DEF Unseen, SameSeen, NextFreeOf, ValidKeys
<1>2. \A k \in Keys : Fixed(pool', k) => Fixed(pool, k)
  BY DEF Unseen, SameSeen
<1>3. SameFiles(pool, pool')
  BY DEF Unseen
<1>4. QED
  BY <1>1, <1>2, <1>3, SameChainsKeep

\* While no call is looping there is nothing to say of it.
LEMMA IdleGood == Idle /\ call' = call => CallGood'
BY DEF Idle, NoCall, CallGood

-----------------------------------------------------------------------------
(* The calls on pages keep the invariant. *)

\* Coming by a page, whatever comes of it.
LEMMA GetUsedKeeps ==
  ASSUME PFInv, NEW k \in ValidKeys, NEW o \in GetUsed(pool, k), pool' = o.s,
         UNCHANGED <<ftab, dhdr, owed>>, PFTypes', CallGood'
  PROVE  PFInv'
<1>1. GotUsed(pool, o, ValidKeys, owed, k)
  BY GetUsedSeen DEF PFInv
<1>2. Sound(pool') /\ Faithful(pool', ValidKeys, owed') /\ SameFiles(pool, pool')
  BY <1>1 DEF GotUsed
<1>3. \A j \in ValidKeys : NextFreeOf(pool', j) = NextFreeOf(pool, j)
  BY <1>1 DEF GotUsed, SameSeen, NextFreeOf, ValidKeys
<1>4. \A j \in Keys : Fixed(pool', j) => Fixed(pool, j) \/ NextFreeOf(pool', j) = USED
  BY <1>1 DEF GotUsed, SameSeen, NextFreeOf
<1>5. QED
  BY <1>2, <1>3, <1>4, SameChainsKeep

LEMMA GetThisKeeps ==
  ASSUME PFInv, NEW k \in Keys, PF_GetThisPage(k)
  PROVE  PFInv'
<1>1. PICK o \in GetUsed(pool, k) : pool' = o.s
  BY DEF PF_GetThisPage
<1>2. k \in ValidKeys /\ UNCHANGED <<ftab, dhdr, owed, call>> /\ CallGood'
  BY IdleGood DEF PF_GetThisPage
<1>3. PFTypes'
  BY <1>2 DEF PFInv, PFTypes
<1>4. QED
  BY <1>1, <1>2, <1>3, GetUsedKeeps

\* A round of PF_GetNextPage comes by a used page and ends, or passes a free one
\* (pf.c:363-377).
LEMMA NextStepKeeps ==
  ASSUME PFInv, NextStep
  PROVE  PFInv'
<1>1. call.op = "Next" /\ UNCHANGED <<ftab, dhdr, owed>>
  BY DEF NextStep
<1>2. /\ call.fd \in Open /\ call.fd \in Fds /\ call.at \in Nat
      /\ call \in [op : {"Next"}, fd : Fds, from : Pages \cup {-1}, at : Nat]
  BY <1>1 DEF PFInv, CallGood, PFTypes, NoCall
<1>3. CASE ~ (call.at < ftab[call.fd].hdr.numpages)
  <2>1. call' = NoCall /\ pool' = pool
    BY <1>3 DEF NextStep
  <2>2. PFTypes' /\ CallGood'
    BY <1>1, <2>1 DEF PFInv, PFTypes, CallGood, NoCall
  <2>3. Unseen(pool, pool', ValidKeys)
    BY <2>1 DEF Unseen, SameSeen, SameFiles
  <2>4. QED
    BY <1>1, <2>1, <2>2, <2>3, UnseenKeeps DEF PFInv
<1>4. CASE call.at < ftab[call.fd].hdr.numpages
  <2> DEFINE k == <<call.fd, call.at>>
  <2>1. PICK o \in GetUsed(pool, k) :
          /\ pool' = o.s
          /\ call' = IF o.rc = "FREE" THEN [call EXCEPT !.at = @ + 1] ELSE NoCall
    BY <1>4 DEF NextStep
  <2>2. k \in ValidKeys /\ k \in Keys
    BY <1>2, <1>4 DEF PFInv, OpenGood, FileGood, ValidKeys, ValidPages, Keys
  <2>3. GotUsed(pool, o, ValidKeys, owed, k)
    BY <2>2, GetUsedSeen DEF PFInv
  <2>4. /\ Sound(pool') /\ Faithful(pool', ValidKeys, owed')
        /\ SameFiles(pool, pool') /\ Open' = Open
    BY <1>1, <2>1, <2>3 DEF GotUsed, SameFiles, Open
  <2>5. \A j \in ValidKeys : NextFreeOf(pool', j) = NextFreeOf(pool, j)
    BY <2>1, <2>3 DEF GotUsed, SameSeen, NextFreeOf, ValidKeys
  <2>6. \A j \in Keys : Fixed(pool', j) => Fixed(pool, j) \/ NextFreeOf(pool', j) = USED
    BY <2>1, <2>3 DEF GotUsed, SameSeen, NextFreeOf
  <2>7. PFTypes'
    <3>1. call' \in {NoCall} \cup [op : {"Next"}, fd : Fds, from : Pages \cup {-1},
                                   at : Nat]
      BY <1>2, <2>1
    <3>2. QED
      BY <1>1, <3>1 DEF PFInv, PFTypes
  <2>8. CallGood'
    <3>1. CASE o.rc # "FREE"
      BY <2>1, <3>1 DEF CallGood, NoCall
    <3>2. CASE o.rc = "FREE"
      <4>1. /\ call'.op = "Next" /\ call'.fd = call.fd /\ call'.from = call.from
            /\ call'.at = call.at + 1
        BY <1>1, <1>2, <2>1, <3>2
      <4>2. ASSUME NEW p \in Pages, call.from < p, p < call.at + 1
            PROVE  NextFreeOf(pool', <<call.fd, p>>) # USED
        <5>1. p \in Nat /\ (p < call.at \/ p = call.at)
          BY <1>2, <4>2, PoolAssumption
        <5>2. <<call.fd, p>> \in ValidKeys
          <6>1. ftab[call.fd].hdr.numpages \in Nat
            BY <1>2 DEF PFInv, PFTypes, FtabEntry, Hdr
          <6>2. p < ftab[call.fd].hdr.numpages
            BY <1>2, <1>4, <5>1, <6>1
          <6>3. QED
            BY <1>2, <6>2 DEF ValidKeys, ValidPages, Keys
        <5>3. NextFreeOf(pool, <<call.fd, p>>) # USED
          <6>1. CASE p = call.at
            BY <2>3, <3>2, <6>1 DEF GotUsed, NextFreeOf
          <6>2. CASE p < call.at
            BY <1>1, <4>2, <6>2 DEF PFInv, CallGood
          <6>3. QED
            BY <5>1, <6>1, <6>2
        <5>4. QED
          BY <2>5, <5>2, <5>3
      <4>3. QED
        BY <1>2, <2>4, <4>1, <4>2 DEF CallGood
    <3>3. QED
      BY <3>1, <3>2
  <2>9. QED
    BY <1>1, <2>4, <2>5, <2>6, <2>7, <2>8, SameChainsKeep
<1>5. QED
  BY <1>3, <1>4

LEMMA UnfixKeeps ==
  ASSUME PFInv, NEW k \in Keys, NEW dirty \in BOOLEAN, PF_UnfixPage(k, dirty)
  PROVE  PFInv'
<1>1. /\ k \in ValidKeys /\ (k \in owed => dirty = TRUE)
      /\ UNCHANGED <<ftab, dhdr, call>> /\ owed' = owed \ {k} /\ CallGood'
      /\ pool' = UnfixOutcome(pool, k, dirty).s
  BY IdleGood DEF PF_UnfixPage
<1>2. pool' = PFbufUnfix(pool, k, dirty).s
  BY <1>1 DEF UnfixOutcome, PFbufUnfix, Outcome
<1>3. Sound(pool) /\ Faithful(pool, ValidKeys, owed)
  BY DEF PFInv
<1> DEFINE t == PFbufUnfix(pool, k, dirty).s
<1>4. /\ Faithful(t, ValidKeys, owed \ {k}) /\ SameFiles(pool, t)
      /\ ~ Fixed(t, k) /\ Content(t, k) = Content(pool, k)
      /\ \A j \in Keys \ {k} : SameSeen(pool, t, ValidKeys, j)
  BY <1>1, <1>3, UnfixSeen
<1>5. Sound(t) /\ t = pool'
  BY <1>2, <1>3, UnfixSound
<1> HIDE DEF t
<1>6. \A j \in ValidKeys : NextFreeOf(pool', j) = NextFreeOf(pool, j)
  BY <1>4, <1>5 DEF SameSeen, NextFreeOf, ValidKeys
<1>7. \A j \in Keys : Fixed(pool', j) => Fixed(pool, j)
  BY <1>4, <1>5 DEF SameSeen
<1>8. PFTypes'
  BY <1>1 DEF PFInv, PFTypes
<1>9. QED
  BY <1>1, <1>4, <1>5, <1>6, <1>7, <1>8, SameChainsKeep

LEMMA WriteKeeps ==
  ASSUME PFInv, NEW k \in Keys, NEW data \in Data, WritePage(k, data)
  PROVE  PFInv'
<1> DEFINE c == [Content(pool, k) EXCEPT !.data = data]
           t == [pool EXCEPT !.frame[pool.hash[k]].fpage = c]
<1>1. /\ Fixed(pool, k) /\ UNCHANGED <<ftab, dhdr, call>> /\ CallGood'
      /\ owed' = owed \cup {k}
      /\ pool' = [pool EXCEPT !.frame[pool.hash[k]].fpage.data = data]
  BY IdleGood DEF WritePage, Held
<1>2. Sound(pool) /\ Faithful(pool, ValidKeys, owed) /\ k \in ValidKeys
  BY <1>1, PageFacts DEF PFInv
<1>3. /\ Resident(pool, k) /\ pool.hash[k] \in Frames /\ pool \in Pool
      /\ Content(pool, k) = pool.frame[pool.hash[k]].fpage
      /\ Content(pool, k) \in FPage
  BY <1>1, <1>2, ResidentFrame, BornContent DEF Fixed, Sound, Content
<1>4. c \in FPage /\ c.nextfree = Content(pool, k).nextfree
  BY <1>3 DEF FPage
<1>5. pool' = t
  BY <1>1, <1>3 DEF Pool
<1> HIDE DEF c
<1>6. /\ Faithful(t, ValidKeys, owed \cup {k}) /\ SameFiles(pool, t)
      /\ Fixed(t, k) /\ Content(t, k) = c
      /\ \A j \in Keys \ {k} : SameSeen(pool, t, ValidKeys, j)
  BY ONLY k \in Keys, <1>1, <1>2, <1>4, WriteSeen
<1>7. Sound(t)
  BY <1>2, <1>3, <1>4, FpageUpdateSound
<1> HIDE DEF t
<1>8. \A j \in ValidKeys : NextFreeOf(pool', j) = NextFreeOf(pool, j)
  BY <1>4, <1>5, <1>6 DEF SameSeen, NextFreeOf, ValidKeys
<1>9. \A j \in Keys : Fixed(pool', j) => Fixed(pool, j)
  BY <1>1, <1>5, <1>6 DEF SameSeen
<1>10. PFTypes'
  BY <1>1 DEF PFInv, PFTypes
<1>11. QED
  BY <1>1, <1>5, <1>6, <1>7, <1>8, <1>9, <1>10, SameChainsKeep

LEMMA StrategyKeeps ==
  ASSUME PFInv, NEW strategy \in Strategies, PF_SetStrategy(strategy)
  PROVE  PFInv'
<1>1. /\ UNCHANGED <<ftab, dhdr, owed, call>> /\ CallGood'
      /\ pool' = PFbufSetStrategy(pool, strategy) /\ pool \in Pool
  BY IdleGood DEF PF_SetStrategy, PFInv, Sound
<1>2. /\ pool'.hash = pool.hash /\ pool'.frame = pool.frame
      /\ pool'.disk = pool.disk /\ pool'.file = pool.file
  BY <1>1 DEF PFbufSetStrategy, Pool
<1>3. Sound(pool')
  BY <1>1, StrategySound DEF PFInv
<1>4. Faithful(pool', ValidKeys, owed)
  BY <1>2 DEF PFInv, Faithful, Distinct, Safe, Fixed, Resident, Content, Place
<1>5. Unseen(pool, pool', ValidKeys)
  BY <1>2, SameDisk DEF Unseen, SameSeen, Fixed, Resident, Content, Place
<1>6. PFTypes'
  BY <1>1 DEF PFInv, PFTypes
<1>7. QED
  BY <1>1, <1>3, <1>4, <1>5, <1>6, UnseenKeeps

\* Setting both fields of an entry of the file table makes a new entry.
LEMMA EntryReplaced ==
  ASSUME NEW S, NEW T, NEW e \in [hdr : S, hdrchanged : T], NEW a, NEW c
  PROVE  [[e EXCEPT !.hdr = a] EXCEPT !.hdrchanged = c]
           = [hdr |-> a, hdrchanged |-> c]
<1>1. e = [hdr |-> e.hdr, hdrchanged |-> e.hdrchanged]
  OBVIOUS
<1>2. [e EXCEPT !.hdr = a] = [hdr |-> a, hdrchanged |-> e.hdrchanged]
  BY <1>1
<1>3. [[hdr |-> a, hdrchanged |-> e.hdrchanged] EXCEPT !.hdrchanged = c]
        = [hdr |-> a, hdrchanged |-> c]
  OBVIOUS
<1>4. QED
  BY <1>2, <1>3

\* What PF_AllocPage does to the pool and to the header of fd, in outcome o.
Allocated(fd, o) ==
  LET hdr == ftab[fd].hdr
      k == o.key
  IN  /\ Sound(o.s)
      /\ o.rc # "OK" => /\ Faithful(o.s, ValidKeys, owed)
                        /\ Unseen(pool, o.s, ValidKeys) /\ o.hdr = hdr
      /\ o.rc = "OK" =>
           /\ Faithful(o.s, ValidKeys \cup {k}, owed \cup {k})
           /\ SameFiles(pool, o.s)
           /\ \A j \in Keys \ {k} : SameSeen(pool, o.s, ValidKeys, j)
           /\ k \in Keys /\ k[1] = fd /\ ~ Fixed(pool, k) /\ Fixed(o.s, k)
           /\ k \in ValidKeys => NextFreeOf(pool, k) # USED
           /\ NextFreeOf(o.s, k) = USED
           /\ o.hdr \in Hdr /\ FileGood(o.hdr, NextFrees(o.s, fd))
           /\ \A p \in Pages :
                p < o.hdr.numpages <=> p < hdr.numpages \/ p = k[2]

LEMMA AllocPageSeen ==
  ASSUME PFInv, NEW fd \in Open,
         ftab[fd].hdr.firstfree # LIST_END \/ ftab[fd].hdr.numpages \in Pages,
         NEW o \in AllocOutcomes(pool, ftab[fd].hdr, fd)
  PROVE  Allocated(fd, o)
<1> DEFINE hdr == ftab[fd].hdr
           f == NextFrees(pool, fd)
           g == NextFrees(o.s, fd)
<1>1. /\ fd \in Fds /\ hdr \in Hdr /\ pool.file[fd] \in Files
      /\ hdr.numpages \in Nat /\ FileGood(hdr, f)
      /\ Sound(pool) /\ Faithful(pool, ValidKeys, owed)
  BY DEF Open, PFInv, PFTypes, FtabEntry, Hdr, Sound, Pool, OpenGood
<1>2. \A p \in Pages : /\ <<fd, p>> \in Keys /\ p \in Nat
                       /\ <<fd, p>> \in ValidKeys <=> p < hdr.numpages
  BY <1>1, PoolAssumption DEF Keys, ValidKeys, ValidPages
<1>3. ASSUME NEW p \in Pages, \A j \in Keys \ {<<fd, p>>} : SameSeen(pool, o.s, ValidKeys, j)
      PROVE  \A q \in Pages \ {p} : q < hdr.numpages => g[q] = f[q]
  <2>1. ASSUME NEW q \in Pages, q # p, q < hdr.numpages
        PROVE  g[q] = f[q]
    <3>1. <<fd, q>> \in ValidKeys /\ <<fd, q>> \in Keys \ {<<fd, p>>}
      BY <1>2, <2>1
    <3>2. QED
      BY <1>3, <3>1 DEF SameSeen, NextFrees, NextFreeOf
  <2>2. QED
    BY <2>1
<1>4. CASE hdr.firstfree # LIST_END
  <2> DEFINE p == hdr.firstfree
             k == <<fd, p>>
  <2>1. p \in Pages /\ p < hdr.numpages /\ f[p] # USED
    BY <1>1, <1>4, HeadIsFree DEF FileGood
  <2>2. k \in ValidKeys /\ k \in Keys
    BY <1>2, <2>1
  <2>3. o \in TakeFree(pool, hdr, fd)
    BY <1>4 DEF AllocOutcomes
  <2> HIDE DEF hdr
  <2>4. /\ o.key = k /\ Sound(o.s)
        /\ o.rc = "OK" =>
             /\ Faithful(o.s, ValidKeys, owed \cup {k}) /\ SameFiles(pool, o.s)
             /\ Fixed(o.s, k) /\ ~ Fixed(pool, k)
             /\ Content(o.s, k) = [Content(pool, k) EXCEPT !.nextfree = USED]
             /\ \A j \in Keys \ {k} : SameSeen(pool, o.s, ValidKeys, j)
             /\ o.hdr = [hdr EXCEPT !.firstfree = Content(pool, k).nextfree]
        /\ o.rc # "OK" => /\ Faithful(o.s, ValidKeys, owed)
                          /\ Unseen(pool, o.s, ValidKeys) /\ o.hdr = hdr
    BY <1>1, <2>2, <2>3, TakeFreeSeen
  <2>5. CASE o.rc # "OK"
    BY <2>4, <2>5 DEF Allocated, hdr
  <2>6. CASE o.rc = "OK"
    <3>1. Content(pool, k) \in FPage
      BY <1>1, <2>2, BornContent
    <3>2. NextFreeOf(o.s, k) = USED
      BY <2>4, <2>6, <3>1 DEF NextFreeOf, FPage
    <3>3. f[p] = Content(pool, k).nextfree /\ g[p] = USED
      BY <2>1, <3>2 DEF NextFrees, NextFreeOf
    <3>4. /\ o.hdr \in Hdr /\ o.hdr.firstfree = f[p]
          /\ o.hdr.numpages = hdr.numpages
      BY <1>1, <2>4, <2>6, <3>1, <3>3 DEF Hdr, FPage
    <3>5. \A q \in Pages \ {p} : q < hdr.numpages => g[q] = f[q]
      BY <1>3, <2>1, <2>4, <2>6
    <3> HIDE DEF f, g, p
    <3>6. FreeList(p, hdr.numpages, f)
      BY <1>1 DEF FileGood, p
    <3>7. FreeList(f[p], hdr.numpages, g)
      BY <1>1, <2>1, <3>3, <3>5, <3>6, TakeHead
    <3>8. FileGood(o.hdr, g)
      BY <1>1, <3>4, <3>7 DEF FileGood
    <3>9. NextFreeOf(pool, k) # USED
      BY <2>1, <3>3 DEF NextFreeOf
    <3>10. ValidKeys \cup {k} = ValidKeys
      BY <2>2
    <3>11. \A q \in Pages : q < o.hdr.numpages <=> q < hdr.numpages \/ q = k[2]
      BY <2>1, <3>4
    <3>12. /\ Faithful(o.s, ValidKeys \cup {o.key}, owed \cup {o.key})
           /\ \A j \in Keys \ {o.key} : SameSeen(pool, o.s, ValidKeys, j)
      BY <2>4, <2>6, <3>10
    <3>13. /\ o.key \in Keys /\ o.key[1] = fd
           /\ ~ Fixed(pool, o.key) /\ Fixed(o.s, o.key)
           /\ NextFreeOf(pool, o.key) # USED /\ NextFreeOf(o.s, o.key) = USED
      BY <2>2, <2>4, <2>6, <3>2, <3>9
    <3>14. QED
      BY <2>4, <2>6, <3>4, <3>8, <3>11, <3>12, <3>13 DEF Allocated, hdr, g
  <2>7. QED
    BY <2>5, <2>6
<1>5. CASE hdr.firstfree = LIST_END
  <2> DEFINE n == hdr.numpages
             k == <<fd, n>>
  <2>1. n \in Pages /\ k \in Keys /\ k \notin ValidKeys /\ pool.file[fd] \in Files
    BY <1>1, <1>2, <1>5
  <2>2. o \in Extend(pool, hdr, fd)
    BY <1>5 DEF AllocOutcomes
  <2> HIDE DEF hdr
  <2>3. /\ o.key = k /\ Sound(o.s)
        /\ o.rc = "OK" =>
             /\ Faithful(o.s, ValidKeys \cup {k}, owed \cup {k})
             /\ SameFiles(pool, o.s)
             /\ Fixed(o.s, k) /\ Content(o.s, k).nextfree = USED
             /\ \A j \in Keys \ {k} : SameSeen(pool, o.s, ValidKeys, j)
             /\ o.hdr = [hdr EXCEPT !.numpages = @ + 1]
        /\ o.rc # "OK" => /\ Faithful(o.s, ValidKeys, owed)
                          /\ Unseen(pool, o.s, ValidKeys) /\ o.hdr = hdr
    <3>1. /\ Sound(pool) /\ Faithful(pool, ValidKeys, owed)
          /\ <<fd, hdr.numpages>> \in Keys /\ <<fd, hdr.numpages>> \notin ValidKeys
          /\ pool.file[fd] \in Files
      BY <1>1, <2>1
    <3>2. Lengthened(pool, o, ValidKeys, owed, hdr, <<fd, hdr.numpages>>)
      BY ONLY <3>1, <2>2, ExtendSeen
    <3>3. QED
      BY <3>2 DEF Lengthened
  <2>4. CASE o.rc # "OK"
    BY <2>3, <2>4 DEF Allocated, hdr
  <2>5. CASE o.rc = "OK"
    <3>1. ~ Fixed(pool, k)
      BY <2>1, PageFacts
    <3>2. /\ o.hdr \in Hdr /\ o.hdr.firstfree = LIST_END
          /\ o.hdr.numpages = n + 1
      BY <1>1, <1>5, <2>3, <2>5 DEF Hdr
    <3>3. g[n] = USED
      BY <2>1, <2>3, <2>5 DEF NextFrees, NextFreeOf
    <3>4. \A q \in Pages \ {n} : q < n => g[q] = f[q]
      BY <1>3, <2>1, <2>3, <2>5
    <3>5. \A q \in Pages : q < n => q # n
      BY <1>1
    <3> HIDE DEF f, g, n
    <3>6. FreeList(LIST_END, n, f) /\ n \in Nat
      BY <1>1, <1>5 DEF FileGood, n
    <3>7. FreeList(LIST_END, n + 1, g)
      BY <3>3, <3>4, <3>5, <3>6, AddUsed
    <3>8. \A q \in Nat : q < n + 1 <=> q < n \/ q = n
      BY <3>6
    <3>9. FileGood(o.hdr, g)
      BY <1>1, <2>1, <3>2, <3>7, <3>8 DEF FileGood, n
    <3>10. \A q \in Pages : q < o.hdr.numpages <=> q < hdr.numpages \/ q = k[2]
      BY <3>2, <3>8, PoolAssumption DEF n
    <3>11. /\ o.key \in Keys /\ o.key[1] = fd /\ o.key \notin ValidKeys
           /\ ~ Fixed(pool, o.key) /\ Fixed(o.s, o.key)
           /\ NextFreeOf(o.s, o.key) = USED
      BY <2>1, <2>3, <2>5, <3>1 DEF NextFreeOf
    <3>12. /\ Faithful(o.s, ValidKeys \cup {o.key}, owed \cup {o.key})
           /\ SameFiles(pool, o.s)
           /\ \A j \in Keys \ {o.key} : SameSeen(pool, o.s, ValidKeys, j)
      BY <2>3, <2>5
    <3>13. \A q \in Pages : q < o.hdr.numpages <=> q < hdr.numpages \/ q = o.key[2]
      BY <2>3, <3>10
    <3>14. QED
      BY <2>3, <2>5, <3>2, <3>9, <3>11, <3>12, <3>13 DEF Allocated, hdr, g
  <2>6. QED
    BY <2>4, <2>5
<1>6. QED
  BY <1>4, <1>5

\* The step of PF_AllocPage with outcome o.
AllocStep(fd, o) ==
  /\ Allocated(fd, o) /\ fd \in Open /\ pool' = o.s /\ UNCHANGED <<dhdr, call>>
  /\ o.rc # "OK" => UNCHANGED <<ftab, owed>>
  /\ o.rc = "OK" =>
       /\ owed' = owed \cup {o.key}
       /\ ftab' \in [Fds -> FtabEntry]
       /\ ftab'[fd].hdr = o.hdr /\ ftab'[fd].hdrchanged = TRUE
       /\ \A i \in Fds \ {fd} : ftab'[i] = ftab[i]

LEMMA AllocPageStep ==
  ASSUME PFInv, NEW fd \in Fds, PF_AllocPage(fd)
  PROVE  \E o : AllocStep(fd, o)
<1>1. /\ fd \in Open /\ UNCHANGED <<dhdr, call>>
      /\ ftab[fd].hdr.firstfree # LIST_END \/ ftab[fd].hdr.numpages \in Pages
  BY DEF PF_AllocPage
<1>2. PICK o \in AllocOutcomes(pool, ftab[fd].hdr, fd) :
        /\ pool' = o.s
        /\ ftab' = [ftab EXCEPT ![fd].hdr = o.hdr,
                                ![fd].hdrchanged = @ \/ o.rc = "OK"]
        /\ owed' = IF o.rc = "OK" THEN owed \cup {o.key} ELSE owed
  BY DEF PF_AllocPage
<1>3. Allocated(fd, o)
  BY <1>1, AllocPageSeen
<1>4. /\ ftab \in [Fds -> FtabEntry] /\ ftab[fd] \in FtabEntry
  BY DEF PFInv, PFTypes
<1>5. CASE o.rc # "OK"
  <2>1. /\ ftab[fd].hdr = o.hdr
        /\ ftab[fd].hdrchanged = (ftab[fd].hdrchanged \/ o.rc = "OK")
    BY <1>3, <1>4, <1>5 DEF Allocated, FtabEntry
  <2>2. ftab' = ftab
    BY <1>2, <1>4, <1>5, <2>1 DEF FtabEntry
  <2>3. QED
    BY <1>1, <1>2, <1>3, <1>5, <2>2 DEF AllocStep
<1>6. CASE o.rc = "OK"
  <2> DEFINE changed == ftab[fd].hdrchanged \/ o.rc = "OK"
  <2>1. /\ ftab' = [ftab EXCEPT ![fd].hdr = o.hdr, ![fd].hdrchanged = changed]
        /\ changed \in BOOLEAN
    BY <1>2, <1>4 DEF FtabEntry
  <2>2. changed = TRUE
    BY <1>6
  <2> HIDE DEF changed
  <2>3. [[ftab[fd] EXCEPT !.hdr = o.hdr] EXCEPT !.hdrchanged = changed]
          = [hdr |-> o.hdr, hdrchanged |-> changed]
    BY <1>4, EntryReplaced DEF FtabEntry
  <2>4. ftab' = [ftab EXCEPT ![fd] = [[ftab[fd] EXCEPT !.hdr = o.hdr]
                                        EXCEPT !.hdrchanged = changed]]
    BY <1>4, <2>1
  <2>5. ftab' = [ftab EXCEPT ![fd] = [hdr |-> o.hdr, hdrchanged |-> TRUE]]
    BY <2>2, <2>3, <2>4
  <2>6. [hdr |-> o.hdr, hdrchanged |-> TRUE] \in FtabEntry
    BY <1>3, <1>6 DEF Allocated, FtabEntry
  <2>7. /\ ftab' \in [Fds -> FtabEntry]
        /\ ftab'[fd].hdr = o.hdr /\ ftab'[fd].hdrchanged = TRUE
        /\ \A i \in Fds \ {fd} : ftab'[i] = ftab[i]
    BY <1>4, <2>5, <2>6
  <2>8. QED
    BY <1>1, <1>2, <1>3, <1>6, <2>7 DEF AllocStep
<1>7. QED
  BY <1>5, <1>6

LEMMA AllocPageKeeps ==
  ASSUME PFInv, NEW fd \in Fds, PF_AllocPage(fd)
  PROVE  PFInv'
<1>1. PICK o : AllocStep(fd, o)
  BY AllocPageStep
<1>2. fd \in Open /\ UNCHANGED <<dhdr, call>> /\ CallGood' /\ pool' = o.s
  BY <1>1, IdleGood DEF AllocStep, PF_AllocPage
<1>3. Allocated(fd, o)
  BY <1>1 DEF AllocStep
<1> DEFINE hdr == ftab[fd].hdr
           k == o.key
<1>4. /\ ftab \in [Fds -> FtabEntry] /\ hdr.numpages \in Nat
  BY DEF PFInv, PFTypes, FtabEntry, Hdr
<1>5. CASE o.rc # "OK"
  <2>1. ftab' = ftab /\ owed' = owed
    BY <1>1, <1>5 DEF AllocStep
  <2>2. PFTypes'
    BY <1>2, <2>1 DEF PFInv, PFTypes
  <2>3. /\ Sound(pool') /\ Faithful(pool', ValidKeys, owed)
        /\ Unseen(pool, pool', ValidKeys)
    BY <1>2, <1>3, <1>5 DEF Allocated
  <2>4. QED
    BY <1>2, <2>1, <2>2, <2>3, UnseenKeeps
<1>6. CASE o.rc = "OK"
  <2>1. /\ Sound(pool') /\ SameFiles(pool, pool')
        /\ Faithful(pool', ValidKeys \cup {k}, owed \cup {k})
        /\ \A j \in Keys \ {k} : SameSeen(pool, pool', ValidKeys, j)
        /\ k \in Keys /\ k[1] = fd /\ NextFreeOf(pool', k) = USED
        /\ o.hdr \in Hdr /\ FileGood(o.hdr, NextFrees(pool', fd))
        /\ \A p \in Pages : p < o.hdr.numpages <=> p < hdr.numpages \/ p = k[2]
    BY <1>2, <1>3, <1>6 DEF Allocated
  <2>2. /\ ftab' \in [Fds -> FtabEntry] /\ owed' = owed \cup {k}
        /\ ftab'[fd].hdr = o.hdr /\ ftab'[fd].hdrchanged = TRUE
        /\ \A i \in Fds \ {fd} : ftab'[i] = ftab[i]
    BY <1>1, <1>6 DEF AllocStep
  <2>3. PFTypes'
    BY <1>2, <2>1, <2>2 DEF PFInv, PFTypes
  <2>4. Open' = Open
    BY <2>1 DEF Open, SameFiles
  <2>5. ValidKeys' = ValidKeys \cup {k}
    <3>1. ASSUME NEW j \in Keys
          PROVE  j \in ValidKeys' <=> j \in ValidKeys \/ j = k
      <4>1. j[1] \in Fds /\ j[2] \in Pages /\ j = <<j[1], j[2]>> /\ k = <<k[1], k[2]>>
        BY <2>1 DEF Keys
      <4>2. CASE j[1] # fd
        <5>1. ftab'[j[1]] = ftab[j[1]] /\ j # k
          BY <2>1, <2>2, <4>1, <4>2
        <5>2. QED
          BY <2>4, <4>1, <5>1 DEF ValidKeys, ValidPages
      <4>3. CASE j[1] = fd
        <5>1. j = k <=> j[2] = k[2]
          BY <2>1, <4>1, <4>3
        <5>2. QED
          BY <1>2, <2>1, <2>2, <2>4, <4>1, <4>3, <5>1 DEF ValidKeys, ValidPages
      <4>4. QED
        BY <4>2, <4>3
    <3>2. QED
      BY <2>1, <3>1 DEF ValidKeys
  <2>6. ASSUME NEW i \in Open
        PROVE  /\ FileGood(ftab'[i].hdr, NextFrees(pool', i))
               /\ ~ ftab'[i].hdrchanged =>
                    ~ ftab[i].hdrchanged /\ ftab'[i].hdr = ftab[i].hdr
    <3>1. CASE i = fd
      BY <2>1, <2>2, <3>1
    <3>2. CASE i # fd
      <4>1. ftab'[i] = ftab[i]
        BY <2>2, <3>2 DEF Open
      <4>2. \A j \in ValidKeys : j[1] = i => NextFreeOf(pool', j) = NextFreeOf(pool, j)
        BY <2>1, <3>2 DEF SameSeen, NextFreeOf, ValidKeys
      <4>3. QED
        BY <4>1, <4>2, SameFileGood
    <3>3. QED
      BY <3>1, <3>2
  <2>7. HeldUsed'
    <3> SUFFICES ASSUME NEW j \in Keys, Fixed(pool', j), j # k
                 PROVE  NextFreeOf(pool', j) = USED
      BY <2>1 DEF HeldUsed, Held
    <3>1. Fixed(pool, j)
      BY <2>1 DEF SameSeen
    <3>2. j \in ValidKeys /\ NextFreeOf(pool, j) = USED
      BY <3>1, PageFacts DEF NextFreeOf
    <3>3. QED
      BY <2>1, <3>2 DEF SameSeen, NextFreeOf
  <2>8. Faithful(pool', ValidKeys', owed')
    BY <2>1, <2>2, <2>5
  <2>9. QED
    BY <1>2, <2>1, <2>3, <2>6, <2>7, <2>8, SeenKeeps
<1>7. QED
  BY <1>5, <1>6

\* What PF_DisposePage does when it comes by the page k.
DisposedPage(k) ==
  LET hdr == ftab[k[1]].hdr
  IN  /\ Sound(pool') /\ Faithful(pool', ValidKeys, owed) /\ SameFiles(pool, pool')
      /\ ~ Fixed(pool, k) /\ ~ Fixed(pool', k)
      /\ NextFreeOf(pool, k) = USED /\ NextFreeOf(pool', k) = hdr.firstfree
      /\ \A j \in Keys \ {k} : SameSeen(pool, pool', ValidKeys, j)
      /\ ftab' \in [Fds -> FtabEntry]
      /\ ftab'[k[1]].hdr.firstfree = k[2]
      /\ ftab'[k[1]].hdr.numpages = hdr.numpages
      /\ ftab'[k[1]].hdrchanged = TRUE
      /\ \A i \in Fds \ {k[1]} : ftab'[i] = ftab[i]

LEMMA DisposeStep ==
  ASSUME PFInv, NEW k \in Keys, PF_DisposePage(k)
  PROVE  \/ DisposedPage(k)
         \/ UNCHANGED ftab /\ \E o \in GetUsed(pool, k) : pool' = o.s
<1> DEFINE fd == k[1]
           p == k[2]
           hdr == ftab[fd].hdr
<1>1. k \in ValidKeys
  BY DEF PF_DisposePage
<1>2. PICK o \in GetUsed(pool, k) :
        IF o.rc = "OK"
        THEN /\ pool' = Freed(o.s, k, hdr.firstfree)
             /\ ftab' = [ftab EXCEPT ![fd].hdr.firstfree = p,
                                     ![fd].hdrchanged = TRUE]
        ELSE pool' = o.s /\ UNCHANGED ftab
  BY DEF PF_DisposePage
<1>3. CASE o.rc # "OK"
  BY <1>2, <1>3
<1>4. CASE o.rc = "OK"
  <2>1. /\ fd \in Fds /\ fd \in Open /\ p \in Pages /\ k = <<fd, p>>
        /\ ftab \in [Fds -> FtabEntry] /\ ftab[fd] \in FtabEntry /\ hdr \in Hdr
        /\ hdr.numpages \in Nat /\ hdr.firstfree \in NextFree
        /\ p < hdr.numpages
    BY <1>1, PageFacts DEF PFInv, PFTypes, FtabEntry, Hdr, Keys
  <2>2. GotUsed(pool, o, ValidKeys, owed, k)
    BY <1>1, GetUsedSeen DEF PFInv
  <2>3. k \notin owed /\ Fixed(o.s, k) /\ Content(pool, k).nextfree = USED
    BY <1>4, <2>2, PageFacts DEF GotUsed
  <2> DEFINE t == Freed(o.s, k, hdr.firstfree)
  <2>4. /\ Sound(t) /\ Faithful(t, ValidKeys, owed) /\ SameFiles(o.s, t)
        /\ ~ Fixed(t, k) /\ Content(t, k).nextfree = hdr.firstfree
        /\ \A j \in Keys \ {k} : SameSeen(o.s, t, ValidKeys, j)
    <3>1. Sound(o.s) /\ Faithful(o.s, ValidKeys, owed) /\ hdr.firstfree \in NextFree
      BY <2>1, <2>2 DEF GotUsed
    <3> HIDE DEF hdr
    <3>2. QED
      BY ONLY k \in Keys, <2>3, <3>1, FreedSeen
  <2>5. pool' = t
    BY <1>2, <1>4
  <2> HIDE DEF t
  <2>6. /\ SameFiles(pool, pool') /\ ~ Fixed(pool', k)
        /\ NextFreeOf(pool', k) = hdr.firstfree
        /\ \A j \in Keys \ {k} : SameSeen(pool, pool', ValidKeys, j)
    BY <2>2, <2>4, <2>5 DEF GotUsed, SameFiles, SameSeen, NextFreeOf
  <2>7. /\ ftab' \in [Fds -> FtabEntry]
        /\ ftab'[fd].hdr.firstfree = p /\ ftab'[fd].hdr.numpages = hdr.numpages
        /\ ftab'[fd].hdrchanged = TRUE
        /\ \A i \in Fds \ {fd} : ftab'[i] = ftab[i]
    <3> DEFINE new == [hdr EXCEPT !.firstfree = p]
    <3>1. /\ new \in Hdr /\ new.firstfree = p /\ new.numpages = hdr.numpages
      BY <2>1 DEF Hdr, NextFree
    <3>2. ftab' = [ftab EXCEPT ![fd] = [[ftab[fd] EXCEPT !.hdr = new]
                                          EXCEPT !.hdrchanged = TRUE]]
      BY <1>2, <1>4, <2>1 DEF FtabEntry
    <3> HIDE DEF new, hdr
    <3>3. ftab' = [ftab EXCEPT ![fd] = [hdr |-> new, hdrchanged |-> TRUE]]
      <4>1. [[ftab[fd] EXCEPT !.hdr = new] EXCEPT !.hdrchanged = TRUE]
              = [hdr |-> new, hdrchanged |-> TRUE]
        BY <2>1, EntryReplaced DEF FtabEntry
      <4>2. QED
        BY <3>2, <4>1
    <3>4. [hdr |-> new, hdrchanged |-> TRUE] \in FtabEntry
      BY <3>1 DEF FtabEntry
    <3>5. QED
      BY <2>1, <3>1, <3>3, <3>4 DEF new
  <2>8. ~ Fixed(pool, k) /\ NextFreeOf(pool, k) = USED
    BY <1>4, <2>2, <2>3 DEF GotUsed, NextFreeOf
  <2>9. DisposedPage(k)
    BY <2>4, <2>5, <2>6, <2>7, <2>8 DEF DisposedPage
  <2>10. QED
    BY <2>9
<1>5. QED
  BY <1>3, <1>4

\* Freeing a page puts it at the head of its file's free list (pf.c:500-529).
LEMMA DisposeKeeps ==
  ASSUME PFInv, NEW k \in Keys, PF_DisposePage(k)
  PROVE  PFInv'
<1> DEFINE fd == k[1]
           p == k[2]
           hdr == ftab[fd].hdr
<1>1. k \in ValidKeys /\ UNCHANGED <<dhdr, owed, call>> /\ CallGood'
  BY IdleGood DEF PF_DisposePage
<1>2. CASE UNCHANGED ftab /\ \E o \in GetUsed(pool, k) : pool' = o.s
  <2>1. PFTypes'
    BY <1>1, <1>2 DEF PFInv, PFTypes
  <2>2. QED
    BY <1>1, <1>2, <2>1, GetUsedKeeps
<1>3. CASE DisposedPage(k)
  <2>1. /\ fd \in Fds /\ fd \in Open /\ p \in Pages /\ k = <<fd, p>>
        /\ hdr.numpages \in Nat /\ p < hdr.numpages
    BY <1>1, PageFacts DEF PFInv, PFTypes, FtabEntry, Hdr, Keys
  <2>2. NextFreeOf(pool, k) = USED
    BY <1>3 DEF DisposedPage
  <2>3. /\ Sound(pool') /\ Faithful(pool', ValidKeys, owed)
        /\ SameFiles(pool, pool') /\ ~ Fixed(pool', k)
        /\ NextFreeOf(pool', k) = hdr.firstfree
        /\ \A j \in Keys \ {k} : SameSeen(pool, pool', ValidKeys, j)
    BY <1>3 DEF DisposedPage
  <2>4. /\ ftab' \in [Fds -> FtabEntry]
        /\ ftab'[fd].hdr.firstfree = p /\ ftab'[fd].hdr.numpages = hdr.numpages
        /\ ftab'[fd].hdrchanged = TRUE
        /\ \A i \in Fds \ {fd} : ftab'[i] = ftab[i]
    BY <1>3 DEF DisposedPage
  <2>5. PFTypes'
    BY <1>1, <2>4 DEF PFInv, PFTypes
  <2>6. Open' = Open /\ ValidKeys' = ValidKeys
    <3>1. Open' = Open
      BY <2>3 DEF Open, SameFiles
    <3>2. \A i \in Fds : ftab'[i].hdr.numpages = ftab[i].hdr.numpages
      BY <2>4
    <3>3. \A i \in Open : ValidPages(i)' = ValidPages(i)
      BY <3>2 DEF ValidPages, Open
    <3>4. QED
      BY <3>1, <3>3 DEF ValidKeys
  <2>7. ASSUME NEW i \in Open
         PROVE  /\ FileGood(ftab'[i].hdr, NextFrees(pool', i))
                /\ ~ ftab'[i].hdrchanged =>
                     ~ ftab[i].hdrchanged /\ ftab'[i].hdr = ftab[i].hdr
    <3>1. CASE i = fd
      <4> DEFINE f == NextFrees(pool, fd)
                 g == NextFrees(pool', fd)
      <4>1. f[p] = USED /\ g[p] = hdr.firstfree
        BY <2>1, <2>2, <2>3 DEF NextFrees
      <4>2. ASSUME NEW q \in Pages \ {p}, q < hdr.numpages
            PROVE  g[q] = f[q]
        <5>1. <<fd, q>> \in ValidKeys /\ <<fd, q>> \in Keys \ {k}
          BY <2>1, <4>2 DEF ValidKeys, ValidPages, Keys
        <5>2. QED
          BY <2>3, <5>1 DEF SameSeen, NextFrees, NextFreeOf
      <4>3. FileGood(hdr, f)
        BY <2>1 DEF PFInv, OpenGood
      <4> HIDE DEF f, g, hdr, p, fd
      <4>4. FreeList(p, hdr.numpages, g)
        BY <2>1, <4>1, <4>2, <4>3, PutHead DEF FileGood
      <4>5. FileGood(ftab'[fd].hdr, g)
        BY <2>4, <4>3, <4>4 DEF FileGood
      <4>6. QED
        BY <2>4, <3>1, <4>5 DEF g
    <3>2. CASE i # fd
      <4>1. ftab'[i] = ftab[i]
        BY <2>4, <3>2 DEF Open
      <4>2. \A j \in ValidKeys : j[1] = i => NextFreeOf(pool', j) = NextFreeOf(pool, j)
        BY <2>3, <3>2 DEF SameSeen, NextFreeOf, ValidKeys
      <4>3. QED
        BY <4>1, <4>2, SameFileGood
    <3>3. QED
      BY <3>1, <3>2
  <2>8. HeldUsed'
    <3> SUFFICES ASSUME NEW j \in Keys, Fixed(pool', j)
                 PROVE  NextFreeOf(pool', j) = USED
      BY DEF HeldUsed, Held
    <3>1. j # k
      BY <2>3
    <3>2. Fixed(pool, j)
      BY <2>3, <3>1 DEF SameSeen
    <3>3. j \in ValidKeys /\ NextFreeOf(pool, j) = USED
      BY <3>2, PageFacts DEF NextFreeOf
    <3>4. QED
      BY <2>3, <3>1, <3>3 DEF SameSeen, NextFreeOf
  <2>9. Sound(pool') /\ Faithful(pool', ValidKeys', owed')
    BY <1>1, <2>3, <2>6
  <2>10. QED
    BY <1>1, <2>3, <2>5, <2>7, <2>8, <2>9, SeenKeeps
<1>4. QED
  BY <1>2, <1>3, DisposeStep

-----------------------------------------------------------------------------
(* The calls on files keep the invariant. *)

\* A file just created has no page, and none is free.
LEMMA EmptyFileGood == ASSUME NEW nf PROVE FileGood(EmptyHdr, nf)
<1> DEFINE none == [i \in 1 .. 0 |-> 0]
<1>1. none \in [1 .. 0 -> Pages]
  OBVIOUS
<1>2. \A p \in Nat : ~ (p < 0)
  OBVIOUS
<1>3. Chained(LIST_END, 0, nf, 0, none)
  BY <1>1, <1>2, PoolAssumption DEF Chained
<1>4. FreeList(LIST_END, 0, nf)
  BY <1>1, <1>3 DEF FreeList
<1>5. QED
  BY <1>2, <1>4 DEF FileGood, EmptyHdr

LEMMA CreateKeeps ==
  ASSUME PFInv, NEW name \in Files, PF_CreateFile(name)
  PROVE  PFInv'
<1>1. /\ dhdr[name] = Absent /\ dhdr' = [dhdr EXCEPT ![name] = EmptyHdr]
      /\ UNCHANGED <<pool, ftab, owed, call>> /\ CallGood'
  BY IdleGood DEF PF_CreateFile
<1>2. Open' = Open /\ ValidKeys' = ValidKeys /\ Held' = Held
  BY <1>1 DEF Open, ValidKeys, ValidPages, Held
<1>3. EmptyHdr \in Hdr /\ dhdr \in [Files -> Hdr \cup {Absent}]
  BY DEF EmptyHdr, Hdr, NextFree, LIST_END, PFInv, PFTypes
<1>4. PFTypes'
  BY <1>1, <1>3 DEF PFInv, PFTypes
<1>5. \A fd \in Open : pool.file[fd] \in Files /\ pool.file[fd] # name
  BY <1>1 DEF PFInv, OpenGood, Sound, Pool, Open
<1>6. OpenGood'
  BY <1>1, <1>2, <1>3, <1>5 DEF PFInv, OpenGood, NextFrees
<1>7. ASSUME NEW nm \in Existing', ~ IsOpen(nm)'
      PROVE  /\ FileGood(dhdr'[nm], StoredNextFrees(nm)')
             /\ \A p \in Pages : p < dhdr'[nm].numpages => pool'.disk[<<nm, p>>] # Absent
  <2>1. CASE nm = name
    <3>1. dhdr'[nm] = EmptyHdr /\ \A p \in Pages : ~ (p < EmptyHdr.numpages)
      BY <1>1, <1>3, <2>1, PoolAssumption DEF EmptyHdr
    <3>2. QED
      BY <3>1, EmptyFileGood
  <2>2. CASE nm # name
    <3>1. nm \in Existing /\ dhdr'[nm] = dhdr[nm] /\ ~ IsOpen(nm)
      BY <1>1, <1>3, <1>7, <2>2 DEF Existing, IsOpen
    <3>2. QED
      BY <1>1, <3>1 DEF PFInv, ClosedGood, StoredNextFrees
  <2>3. QED
    BY <2>1, <2>2
<1>8. ClosedGood'
  BY <1>7 DEF ClosedGood
<1>9. QED
  BY <1>1, <1>2, <1>4, <1>6, <1>8 DEF PFInv, HeldUsed

\* Only a file that is not open is destroyed, so no page anybody knows is in it
\* (pf.c:185-201).
LEMMA DestroyKeeps ==
  ASSUME PFInv, NEW name \in Files, PF_DestroyFile(name)
  PROVE  PFInv'
<1> DEFINE disk == [q \in DOMAIN pool.disk |->
                      IF q[1] = name THEN Absent ELSE pool.disk[q]]
<1>1. /\ ~ IsOpen(name) /\ dhdr' = [dhdr EXCEPT ![name] = Absent]
      /\ pool' = [pool EXCEPT !.disk = disk]
      /\ UNCHANGED <<ftab, owed, call>> /\ CallGood'
  BY IdleGood DEF PF_DestroyFile
<1>2. /\ pool \in Pool /\ dhdr \in [Files -> Hdr \cup {Absent}]
      /\ pool.disk \in [Files \X Pages -> FPage \cup {Absent}]
  BY DEF PFInv, PFTypes, Sound, Pool
<1>3. /\ disk \in [Files \X Pages -> FPage \cup {Absent}]
      /\ \A nm \in Files, p \in Pages :
           nm # name => disk[<<nm, p>>] = pool.disk[<<nm, p>>]
  BY <1>2
<1> HIDE DEF disk
<1>4. /\ pool'.list = pool.list /\ pool'.frame = pool.frame
      /\ pool'.hash = pool.hash /\ pool'.numbpage = pool.numbpage
      /\ pool'.file = pool.file /\ pool'.disk = disk /\ pool' \in Pool
  BY <1>1, <1>2, <1>3 DEF Pool
<1>5. Sound(pool')
  BY <1>4 DEF PFInv, Sound, Consistent, ListSound, ListHashed, HashLinked, KeyOf,
              Resident
<1>6. Open' = Open /\ ValidKeys' = ValidKeys /\ Held' = Held
  BY <1>1, <1>4 DEF Open, ValidKeys, ValidPages, Held, Fixed, Resident
<1>7. ASSUME NEW fd \in Open, NEW p \in Pages
      PROVE  LET k == <<fd, p>>
             IN  /\ pool'.disk[Place(pool', k)] = pool.disk[Place(pool, k)]
                 /\ Content(pool', k) = Content(pool, k)
                 /\ NextFreeOf(pool', k) = NextFreeOf(pool, k)
  <2>1. pool.file[fd] \in Files /\ pool.file[fd] # name
    BY <1>1 DEF PFInv, Sound, Pool, Open, IsOpen
  <2>2. QED
    BY <1>3, <1>4, <2>1 DEF Content, Place, Resident, NextFreeOf
<1>8. \A k \in ValidKeys : k[1] \in Open /\ k[2] \in Pages /\ k = <<k[1], k[2]>>
  BY DEF ValidKeys, Keys
<1>9. Faithful(pool', ValidKeys', owed')
  <2>1. \A k \in ValidKeys : Safe(pool, k, owed) => Safe(pool', k, owed)
    BY <1>4, <1>7, <1>8 DEF Safe, Resident
  <2>2. QED
    BY <1>1, <1>4, <1>6, <2>1 DEF PFInv, Faithful, Distinct, Resident, Fixed
<1>10. PFTypes'
  BY <1>1, <1>2 DEF PFInv, PFTypes
<1>11. OpenGood'
  <2>1. \A fd \in Open : NextFrees(pool', fd) = NextFrees(pool, fd)
    BY <1>7 DEF NextFrees
  <2>2. \A fd \in Open : pool.file[fd] \in Files /\ pool.file[fd] # name
    BY <1>1 DEF PFInv, Sound, Pool, Open, IsOpen
  <2>3. QED
    BY <1>1, <1>2, <1>4, <1>6, <2>1, <2>2 DEF PFInv, OpenGood
<1>12. ASSUME NEW nm \in Existing', ~ IsOpen(nm)'
       PROVE  /\ FileGood(dhdr'[nm], StoredNextFrees(nm)')
              /\ \A p \in Pages : p < dhdr'[nm].numpages => pool'.disk[<<nm, p>>] # Absent
  <2>1. /\ nm \in Files /\ nm # name /\ dhdr'[nm] = dhdr[nm] /\ nm \in Existing
        /\ ~ IsOpen(nm)
    BY <1>1, <1>2, <1>4, <1>12 DEF Existing, IsOpen
  <2>2. StoredNextFrees(nm)' = StoredNextFrees(nm)
    BY <1>3, <1>4, <2>1 DEF StoredNextFrees
  <2>3. QED
    BY <1>3, <1>4, <2>1, <2>2 DEF PFInv, ClosedGood
<1>13. ClosedGood'
  BY <1>12 DEF ClosedGood
<1>14. HeldUsed'
  <2>1. \A k \in Held : k \in ValidKeys
    BY PageFacts DEF Held
  <2>2. QED
    BY <1>6, <1>7, <1>8, <2>1 DEF PFInv, HeldUsed
<1>15. QED
  BY <1>1, <1>5, <1>9, <1>10, <1>11, <1>13, <1>14 DEF PFInv

\* The file opened at a free fd is one that was closed, none of whose pages is
\* buffered: it is what its file says (pf.c:203-257).
LEMMA OpenKeeps ==
  ASSUME PFInv, NEW name \in Files, ~ IsOpen(name), PF_OpenFile(name)
  PROVE  PFInv'
<1> DEFINE fd == Min(Fds \ Open)
           hdr == dhdr[name]
           file == [pool.file EXCEPT ![fd] = name]
<1>1. /\ hdr # Absent /\ ~ IsOpen(name) /\ Fds \ Open # {}
      /\ ftab' = [ftab EXCEPT ![fd] = [hdr |-> hdr, hdrchanged |-> FALSE]]
      /\ pool' = [pool EXCEPT !.file[fd] = name]
      /\ UNCHANGED <<dhdr, owed, call>> /\ CallGood'
  BY IdleGood DEF PF_OpenFile
<1>2. fd \in Fds /\ fd \notin Open
  <2>1. Fds \ Open \in SUBSET Nat
    BY PoolAssumption
  <2>2. fd \in Fds \ Open
    BY <1>1, <2>1, LeastExists
  <2>3. QED
    BY <2>2
<1> HIDE DEF fd
<1>3. /\ pool \in Pool /\ hdr \in Hdr /\ ftab \in [Fds -> FtabEntry]
      /\ pool.file \in [Fds -> Files \cup {NULL}] /\ NULL \notin Files
  BY <1>1, PFAssumption DEF PFInv, PFTypes, Sound, Pool
<1>4. /\ pool'.list = pool.list /\ pool'.frame = pool.frame
      /\ pool'.hash = pool.hash /\ pool'.numbpage = pool.numbpage
      /\ pool'.disk = pool.disk /\ pool'.file = file /\ pool' \in Pool
  BY <1>1, <1>2, <1>3 DEF Pool
<1>5. Sound(pool')
  BY <1>4 DEF PFInv, Sound, Consistent, ListSound, ListHashed, HashLinked, KeyOf,
              Resident
<1>6. /\ file[fd] = name /\ \A i \in Fds \ {fd} : file[i] = pool.file[i]
      /\ file \in [Fds -> Files \cup {NULL}]
  BY <1>2, <1>3
<1> HIDE DEF file
<1>7. Open' = Open \cup {fd}
  BY <1>2, <1>3, <1>4, <1>6 DEF Open
<1>8. ftab' \in [Fds -> FtabEntry] /\ ftab'[fd].hdr = hdr /\ ftab'[fd].hdrchanged = FALSE
      /\ \A i \in Fds \ {fd} : ftab'[i] = ftab[i]
  <2>1. [hdr |-> hdr, hdrchanged |-> FALSE] \in FtabEntry
    BY <1>3 DEF FtabEntry
  <2>2. QED
    BY <1>1, <1>2, <1>3, <2>1
<1>9. PFTypes'
  BY <1>1, <1>8 DEF PFInv, PFTypes
<1>10. ASSUME NEW k \in Keys
       PROVE  /\ k[1] \in Fds /\ k[2] \in Pages /\ k = <<k[1], k[2]>>
              /\ k \in ValidKeys' <=>
                   IF k[1] = fd THEN k[2] < hdr.numpages ELSE k \in ValidKeys
  BY <1>7, <1>8 DEF Keys, ValidKeys, ValidPages
<1>11. ASSUME NEW k \in Keys
       PROVE  /\ Resident(pool', k) <=> Resident(pool, k)
              /\ Fixed(pool', k) <=> Fixed(pool, k)
              /\ k[1] # fd => /\ Content(pool', k) = Content(pool, k)
                              /\ Place(pool', k) = Place(pool, k)
              /\ k[1] = fd => /\ ~ Resident(pool, k)
                              /\ Content(pool', k) = pool.disk[<<name, k[2]>>]
                              /\ Place(pool', k) = <<name, k[2]>>
  <2>1. /\ Resident(pool', k) <=> Resident(pool, k)
        /\ Fixed(pool', k) <=> Fixed(pool, k)
    BY <1>4 DEF Resident, Fixed
  <2>2. CASE k[1] # fd
    BY <1>4, <1>6, <1>10, <2>1, <2>2 DEF Content, Place, Resident
  <2>3. CASE k[1] = fd
    <3>1. ~ Resident(pool, k)
      BY <1>2, <2>3, PageFacts
    <3>2. QED
      BY <1>4, <1>6, <2>1, <2>3, <3>1 DEF Content, Place
  <2>4. QED
    BY <2>1, <2>2, <2>3
<1>12. name \in Existing /\ name \in Files
       /\ FileGood(hdr, StoredNextFrees(name))
       /\ \A p \in Pages : p < hdr.numpages => pool.disk[<<name, p>>] # Absent
  BY <1>1 DEF PFInv, ClosedGood, Existing
<1>13. Faithful(pool', ValidKeys', owed')
  <2>1. Faithful(pool, ValidKeys, owed)
    BY DEF PFInv
  <2>2. Distinct(pool')
    BY <1>1, <1>2, <1>4, <1>6, <2>1 DEF Faithful, Distinct, IsOpen
  <2>3. ValidKeys' \subseteq Keys /\ owed' \subseteq Keys
    BY <1>1, <2>1 DEF Faithful, ValidKeys
  <2>4. ASSUME NEW k \in ValidKeys'
        PROVE  pool'.file[k[1]] \in Files /\ Safe(pool', k, owed')
    <3>1. k \in Keys
      BY <2>3
    <3>2. CASE k[1] = fd
      <4>1. ~ Resident(pool', k) /\ Place(pool', k) = <<name, k[2]>>
            /\ k[2] < hdr.numpages /\ k[2] \in Pages
        BY <1>10, <1>11, <2>4, <3>1, <3>2
      <4>2. pool'.disk[Place(pool', k)] # Absent
        BY <1>4, <1>12, <4>1
      <4>3. QED
        BY <1>4, <1>6, <3>2, <4>1, <4>2 DEF Safe
    <3>3. CASE k[1] # fd
      <4>1. k \in ValidKeys
        BY <1>10, <2>4, <3>1, <3>3
      <4>2. pool.file[k[1]] \in Files /\ Safe(pool, k, owed)
        BY <2>1, <4>1 DEF Faithful
      <4>3. pool'.file[k[1]] = pool.file[k[1]]
        BY <1>4, <1>6, <1>10, <3>1, <3>3
      <4>4. QED
        BY <1>1, <1>4, <1>11, <3>1, <3>3, <4>2, <4>3 DEF Safe, Resident
    <3>4. QED
      BY <3>2, <3>3
  <2>5. \A k \in Keys : Resident(pool', k) => k \in ValidKeys'
    BY <1>10, <1>11, <2>1 DEF Faithful
  <2>6. \A k \in owed' : Fixed(pool', k)
    BY <1>1, <1>11, <2>1, <2>3 DEF Faithful
  <2>7. QED
    BY <2>2, <2>3, <2>4, <2>5, <2>6 DEF Faithful
<1>14. OpenGood'
  <2> SUFFICES ASSUME NEW i \in Open'
               PROVE  /\ FileGood(ftab'[i].hdr, NextFrees(pool', i))
                      /\ dhdr[pool'.file[i]] # Absent
                      /\ ~ ftab'[i].hdrchanged => dhdr[pool'.file[i]] = ftab'[i].hdr
    BY <1>1 DEF OpenGood
  <2>1. CASE i = fd
    <3>1. NextFrees(pool', i) = StoredNextFrees(name)
      <4>1. \A p \in Pages : <<fd, p>> \in Keys /\ <<fd, p>>[1] = fd /\ <<fd, p>>[2] = p
        BY <1>2 DEF Keys
      <4>2. \A p \in Pages : NextFreeOf(pool', <<fd, p>>) = pool.disk[<<name, p>>].nextfree
        BY <1>11, <4>1 DEF NextFreeOf
      <4>3. QED
        BY <2>1, <4>2 DEF NextFrees, StoredNextFrees
    <3>2. QED
      BY <1>1, <1>4, <1>6, <1>8, <1>12, <2>1, <3>1
  <2>2. CASE i # fd
    <3>1. i \in Open /\ i \in Fds /\ ftab'[i] = ftab[i] /\ pool'.file[i] = pool.file[i]
      BY <1>4, <1>6, <1>7, <1>8, <2>2 DEF Open
    <3>2. NextFrees(pool', i) = NextFrees(pool, i)
      <4>1. \A p \in Pages : <<i, p>> \in Keys /\ <<i, p>>[1] # fd
        BY <2>2, <3>1 DEF Keys
      <4>2. \A p \in Pages : NextFreeOf(pool', <<i, p>>) = NextFreeOf(pool, <<i, p>>)
        BY <1>11, <4>1 DEF NextFreeOf
      <4>3. QED
        BY <4>2 DEF NextFrees
    <3>3. QED
      BY <3>1, <3>2 DEF PFInv, OpenGood
  <2>3. QED
    BY <2>1, <2>2
<1>15. ClosedGood'
  <2> SUFFICES ASSUME NEW nm \in Existing', ~ IsOpen(nm)'
               PROVE  /\ FileGood(dhdr'[nm], StoredNextFrees(nm)')
                      /\ \A p \in Pages :
                           p < dhdr'[nm].numpages => pool'.disk[<<nm, p>>] # Absent
    BY DEF ClosedGood
  <2>1. nm \in Existing /\ nm \in Files /\ StoredNextFrees(nm)' = StoredNextFrees(nm)
    BY <1>1, <1>4 DEF Existing, StoredNextFrees
  <2>2. ~ IsOpen(nm)
    <3>1. \A i \in Fds : file[i] # nm
      BY <1>4 DEF IsOpen
    <3>2. pool.file[fd] \notin Files
      BY <1>2, <1>3 DEF Open
    <3>3. QED
      BY <1>6, <2>1, <3>1, <3>2 DEF IsOpen
  <2>3. QED
    BY <1>1, <1>4, <2>1, <2>2 DEF PFInv, ClosedGood
<1>16. HeldUsed'
  <2> SUFFICES ASSUME NEW k \in Keys, Fixed(pool', k)
               PROVE  NextFreeOf(pool', k) = USED
    BY DEF HeldUsed, Held
  <2>1. Fixed(pool, k) /\ k[1] # fd
    BY <1>11 DEF Fixed
  <2>2. NextFreeOf(pool, k) = USED
    BY <2>1, PageFacts DEF NextFreeOf
  <2>3. QED
    BY <1>11, <2>1, <2>2 DEF NextFreeOf
<1>17. QED
  BY <1>1, <1>5, <1>9, <1>13, <1>14, <1>15, <1>16 DEF PFInv

\* The two looping calls start with nothing done (pf.c:273-295, 357-362).
LEMMA StartsKeep ==
  ASSUME PFInv, NEW fd \in Fds,
         \/ PF_CloseFile(fd)
         \/ \E from \in Pages \cup {-1} : PF_GetNextPage(fd, from)
  PROVE  PFInv'
<1>1. UNCHANGED <<pool, ftab, dhdr, owed>> /\ fd \in Open
  BY DEF PF_CloseFile, PF_GetNextPage
<1>2. PFTypes' /\ CallGood'
  <2>1. CASE PF_CloseFile(fd)
    <3>1. call' = [op |-> "Close", fd |-> fd]
      BY <2>1 DEF PF_CloseFile
    <3>2. QED
      BY <1>1, <3>1 DEF PFInv, PFTypes, CallGood, Open
  <2>2. CASE \E from \in Pages \cup {-1} : PF_GetNextPage(fd, from)
    <3>1. PICK from \in Pages \cup {-1} : PF_GetNextPage(fd, from)
      BY <2>2
    <3>2. call' = [op |-> "Next", fd |-> fd, from |-> from, at |-> from + 1]
      BY <3>1 DEF PF_GetNextPage
    <3>3. from + 1 \in Nat /\ from \in Int /\ \A p \in Pages : ~ (from < p /\ p < from + 1)
      BY PoolAssumption
    <3>4. PFTypes'
      BY <1>1, <3>2, <3>3 DEF PFInv, PFTypes
    <3>5. CallGood'
      BY <1>1, <3>2, <3>3 DEF CallGood, Open
    <3>6. QED
      BY <3>4, <3>5
  <2>3. QED
    BY <2>1, <2>2
<1>3. Unseen(pool, pool', ValidKeys)
  BY <1>1 DEF Unseen, SameSeen, SameFiles
<1>4. QED
  BY <1>1, <1>2, <1>3, UnseenKeeps DEF PFInv

\* PFbufReleaseFile answers PFE_OK only when no page of the file is buffered
\* (buf.c:357-394).
LEMMA ReleasedMeansGone ==
  ASSUME NEW s, Sound(s), NEW fd \in Fds, NEW o \in PFbufReleaseStep(s, fd),
         o.rc = "OK"
  PROVE  \A k \in Keys : k[1] = fd => ~ Resident(s, k)
<1>1. FramesOf(s, fd) = {}
  <2> SUFFICES ASSUME FramesOf(s, fd) # {}
               PROVE  FALSE
    OBVIOUS
  <2> DEFINE f == s.list[Min(FramesOf(s, fd))]
  <2>1. o \in ReleaseFrame(s, f)
    BY DEF PFbufReleaseStep
  <2> HIDE DEF f
  <2>2. CASE s.frame[f].fixed
    BY <2>1, <2>2 DEF ReleaseFrame, Outcome
  <2>3. CASE ~ s.frame[f].fixed
    <3>1. PICK w \in WriteBack(s, f) :
            o = IF w.rc = "OK"
                THEN Outcome("MORE", FreeFrame(PFhashDelete(w.s, KeyOf(s, f)), f))
                ELSE w
      BY <2>1, <2>3 DEF ReleaseFrame
    <3>2. QED
      BY <3>1 DEF Outcome
  <2>4. QED
    BY <2>2, <2>3
<1>2. ASSUME NEW k \in Keys, k[1] = fd, Resident(s, k)
      PROVE  FALSE
  <2>1. s.hash[k] \in Range(s.list) /\ KeyOf(s, s.hash[k]) = k
    BY <1>2, ResidentFrame
  <2>2. PICK i \in DOMAIN s.list : s.list[i] = s.hash[k]
    BY <2>1 DEF Range
  <2>3. s.frame[s.list[i]].fd = fd
    BY <1>2, <2>1, <2>2 DEF KeyOf
  <2>4. QED
    BY <1>1, <2>3 DEF FramesOf
<1>3. QED
  BY <1>2

\* A header that cannot be written is still the changed one of an open file; a torn
\* one in the file is not looked at (pf.c:297-316).
LEMMA CloseFailedKeeps ==
  ASSUME PFInv, NEW fd \in Open, ftab[fd].hdrchanged,
         UNCHANGED <<pool, ftab, owed>>, call' = NoCall,
         \/ dhdr' = dhdr
         \/ dhdr' = [dhdr EXCEPT ![pool.file[fd]].firstfree = ftab[fd].hdr.firstfree]
  PROVE  PFInv'
<1> DEFINE name == pool.file[fd]
<1>1. /\ name \in Files /\ dhdr[name] \in Hdr /\ dhdr \in [Files -> Hdr \cup {Absent}]
      /\ ftab[fd].hdr.firstfree \in NextFree /\ fd \in Fds
  BY DEF PFInv, OpenGood, PFTypes, Sound, Pool, Open, FtabEntry, Hdr
<1>2. /\ dhdr' \in [Files -> Hdr \cup {Absent}] /\ dhdr'[name] \in Hdr
      /\ \A nm \in Files : nm # name => dhdr'[nm] = dhdr[nm]
  <2>1. CASE dhdr' = dhdr
    BY <1>1, <2>1
  <2>2. CASE dhdr' = [dhdr EXCEPT ![name].firstfree = ftab[fd].hdr.firstfree]
    <3> DEFINE torn == [dhdr[name] EXCEPT !.firstfree = ftab[fd].hdr.firstfree]
    <3>1. torn \in Hdr
      BY <1>1 DEF Hdr
    <3>2. dhdr' = [dhdr EXCEPT ![name] = torn]
      BY <1>1, <2>2
    <3> HIDE DEF torn, name
    <3>3. QED
      BY <1>1, <3>1, <3>2
  <2>3. QED
    BY <2>1, <2>2
<1>3. PFTypes' /\ CallGood'
  BY <1>2 DEF PFInv, PFTypes, CallGood, NoCall
<1>4. Open' = Open /\ ValidKeys' = ValidKeys /\ Held' = Held
  BY DEF Open, ValidKeys, ValidPages, Held
<1>5. Distinct(pool) /\ pool.file \in [Fds -> Files \cup {NULL}]
  BY DEF PFInv, Faithful, Sound, Pool
<1>6. OpenGood'
  <2> SUFFICES ASSUME NEW i \in Open
               PROVE  /\ FileGood(ftab[i].hdr, NextFrees(pool, i))
                      /\ dhdr'[pool.file[i]] # Absent
                      /\ ~ ftab[i].hdrchanged => dhdr'[pool.file[i]] = ftab[i].hdr
    BY <1>4 DEF OpenGood, NextFrees
  <2>1. CASE i = fd
    BY <1>2, <2>1, PFAssumption DEF PFInv, OpenGood
  <2>2. CASE i # fd
    <3>1. pool.file[i] \in Files /\ pool.file[i] # name
      BY <1>1, <1>5, <2>2 DEF Open, Distinct
    <3>2. QED
      BY <1>2, <3>1 DEF PFInv, OpenGood
  <2>3. QED
    BY <2>1, <2>2
<1>7. ClosedGood'
  <2> SUFFICES ASSUME NEW nm \in Existing', ~ IsOpen(nm)'
               PROVE  /\ FileGood(dhdr'[nm], StoredNextFrees(nm)')
                      /\ \A p \in Pages :
                           p < dhdr'[nm].numpages => pool'.disk[<<nm, p>>] # Absent
    BY DEF ClosedGood
  <2>1. nm \in Files /\ nm # name /\ ~ IsOpen(nm)
    BY <1>1 DEF Existing, IsOpen
  <2>2. dhdr'[nm] = dhdr[nm] /\ nm \in Existing
    BY <1>2, <2>1 DEF Existing
  <2>3. QED
    BY <2>1, <2>2 DEF PFInv, ClosedGood, StoredNextFrees
<1>8. QED
  BY <1>3, <1>4, <1>6, <1>7 DEF PFInv, HeldUsed

\* A header that was written while the file could not be closed is that of an open
\* file, in the file and in memory (pf.c:316-322).
LEMMA CloseRefusedKeeps ==
  ASSUME PFInv, NEW fd \in Open, UNCHANGED <<pool, owed>>, call' = NoCall,
         dhdr' = IF ftab[fd].hdrchanged
                 THEN [dhdr EXCEPT ![pool.file[fd]] = ftab[fd].hdr] ELSE dhdr,
         ftab' = [ftab EXCEPT ![fd].hdrchanged = FALSE]
  PROVE  PFInv'
<1> DEFINE name == pool.file[fd]
           hdr == ftab[fd].hdr
<1>1. /\ name \in Files /\ dhdr[name] \in Hdr /\ dhdr \in [Files -> Hdr \cup {Absent}]
      /\ hdr \in Hdr /\ fd \in Fds /\ ftab \in [Fds -> FtabEntry]
      /\ ~ ftab[fd].hdrchanged => dhdr[name] = hdr
  BY DEF PFInv, OpenGood, PFTypes, Sound, Pool, Open, FtabEntry
<1>2. /\ dhdr' \in [Files -> Hdr \cup {Absent}] /\ dhdr'[name] = hdr
      /\ \A nm \in Files : nm # name => dhdr'[nm] = dhdr[nm]
  <2> HIDE DEF hdr, name
  <2>1. CASE ftab[fd].hdrchanged
    <3>1. dhdr' = [dhdr EXCEPT ![name] = hdr]
      BY <2>1 DEF hdr, name
    <3>2. QED
      BY <1>1, <3>1
  <2>2. CASE ~ ftab[fd].hdrchanged
    <3>1. dhdr' = dhdr
      BY <2>2
    <3>2. QED
      BY <1>1, <2>2, <3>1
  <2>3. QED
    BY <2>1, <2>2
<1>3. /\ ftab' \in [Fds -> FtabEntry] /\ ftab'[fd].hdrchanged = FALSE
      /\ \A i \in Fds : ftab'[i].hdr = ftab[i].hdr
      /\ \A i \in Fds \ {fd} : ftab'[i] = ftab[i]
  <2>1. [ftab[fd] EXCEPT !.hdrchanged = FALSE] \in FtabEntry
    BY <1>1 DEF FtabEntry
  <2>2. QED
    BY <1>1, <2>1 DEF FtabEntry
<1>4. PFTypes' /\ CallGood'
  BY <1>2, <1>3 DEF PFInv, PFTypes, CallGood, NoCall
<1>5. Open' = Open /\ ValidKeys' = ValidKeys /\ Held' = Held
  <2>1. Open' = Open /\ Held' = Held
    BY DEF Open, Held
  <2>2. \A i \in Fds : ValidPages(i)' = ValidPages(i)
    BY <1>3 DEF ValidPages
  <2>3. QED
    BY <2>1, <2>2 DEF ValidKeys, Keys
<1>6. Distinct(pool) /\ pool.file \in [Fds -> Files \cup {NULL}]
  BY DEF PFInv, Faithful, Sound, Pool
<1>7. OpenGood'
  <2> SUFFICES ASSUME NEW i \in Open
               PROVE  /\ FileGood(ftab'[i].hdr, NextFrees(pool, i))
                      /\ dhdr'[pool.file[i]] # Absent
                      /\ ~ ftab'[i].hdrchanged => dhdr'[pool.file[i]] = ftab'[i].hdr
    BY <1>5 DEF OpenGood, NextFrees
  <2>1. ftab'[i].hdr = ftab[i].hdr /\ i \in Fds
    BY <1>3 DEF Open
  <2>2. FileGood(ftab'[i].hdr, NextFrees(pool, i))
    BY <2>1 DEF PFInv, OpenGood
  <2>3. CASE i = fd
    BY <1>1, <1>2, <2>1, <2>2, <2>3, PFAssumption
  <2>4. CASE i # fd
    <3>1. pool.file[i] \in Files /\ pool.file[i] # name
      BY <1>1, <1>6, <2>4 DEF Open, Distinct
    <3>2. ftab'[i] = ftab[i] /\ dhdr'[pool.file[i]] = dhdr[pool.file[i]]
      BY <1>2, <1>3, <2>1, <2>4, <3>1
    <3>3. QED
      BY <2>2, <3>2 DEF PFInv, OpenGood
  <2>5. QED
    BY <2>3, <2>4
<1>8. ClosedGood'
  <2> SUFFICES ASSUME NEW nm \in Existing', ~ IsOpen(nm)'
               PROVE  /\ FileGood(dhdr'[nm], StoredNextFrees(nm)')
                      /\ \A p \in Pages :
                           p < dhdr'[nm].numpages => pool'.disk[<<nm, p>>] # Absent
    BY DEF ClosedGood
  <2>1. nm \in Files /\ nm # name /\ ~ IsOpen(nm)
    BY <1>1 DEF Existing, IsOpen
  <2>2. dhdr'[nm] = dhdr[nm] /\ nm \in Existing
    BY <1>2, <2>1 DEF Existing
  <2>3. QED
    BY <2>1, <2>2 DEF PFInv, ClosedGood, StoredNextFrees
<1>9. Sound(pool)' /\ Faithful(pool, ValidKeys, owed)' /\ HeldUsed'
  BY <1>5 DEF PFInv, HeldUsed, NextFreeOf
<1>10. QED
  BY <1>4, <1>7, <1>8, <1>9 DEF PFInv

\* A file closed with none of its pages buffered is in its file: pages and header
\* (pf.c:294-327).
LEMMA CloseDoneKeeps ==
  ASSUME PFInv, NEW fd \in Open, \A k \in Keys : k[1] = fd => ~ Resident(pool, k),
         dhdr' = IF ftab[fd].hdrchanged
                 THEN [dhdr EXCEPT ![pool.file[fd]] = ftab[fd].hdr] ELSE dhdr,
         ftab' = [ftab EXCEPT ![fd] = ClosedEntry],
         pool' = [pool EXCEPT !.file[fd] = NULL],
         owed' = owed, call' = NoCall
  PROVE  PFInv'
<1> DEFINE name == pool.file[fd]
           hdr == ftab[fd].hdr
           file == [pool.file EXCEPT ![fd] = NULL]
<1>1. /\ name \in Files /\ fd \in Fds /\ hdr \in Hdr /\ dhdr[name] \in Hdr
      /\ dhdr \in [Files -> Hdr \cup {Absent}] /\ ftab \in [Fds -> FtabEntry]
      /\ pool \in Pool /\ pool.file \in [Fds -> Files \cup {NULL}]
      /\ Faithful(pool, ValidKeys, owed)
  BY DEF PFInv, OpenGood, PFTypes, Sound, Pool, Open, FtabEntry
<1>2. /\ dhdr' \in [Files -> Hdr \cup {Absent}] /\ dhdr'[name] = hdr
      /\ \A nm \in Files : nm # name => dhdr'[nm] = dhdr[nm]
  <2>1. ~ ftab[fd].hdrchanged => dhdr[name] = hdr
    BY DEF PFInv, OpenGood
  <2> HIDE DEF name, hdr
  <2>2. dhdr' = IF ftab[fd].hdrchanged THEN [dhdr EXCEPT ![name] = hdr] ELSE dhdr
    BY DEF name, hdr
  <2>3. QED
    BY <1>1, <2>1, <2>2
<1>3. /\ pool'.list = pool.list /\ pool'.frame = pool.frame
      /\ pool'.hash = pool.hash /\ pool'.numbpage = pool.numbpage
      /\ pool'.disk = pool.disk /\ pool'.file = file /\ pool' \in Pool
  BY <1>1 DEF Pool
<1>4. Sound(pool')
  BY <1>3 DEF PFInv, Sound, Consistent, ListSound, ListHashed, HashLinked, KeyOf,
              Resident
<1>5. /\ file[fd] = NULL /\ \A i \in Fds \ {fd} : file[i] = pool.file[i]
      /\ file \in [Fds -> Files \cup {NULL}]
  BY <1>1
<1> HIDE DEF file
<1>6. Open' = Open \ {fd}
  BY <1>3, <1>5 DEF Open
<1>7. /\ ftab' \in [Fds -> FtabEntry] /\ \A i \in Fds \ {fd} : ftab'[i] = ftab[i]
  <2>1. ClosedEntry \in FtabEntry
    BY DEF ClosedEntry, EmptyHdr, FtabEntry, Hdr, NextFree, LIST_END
  <2>2. QED
    BY <1>1, <2>1
<1>8. PFTypes' /\ CallGood'
  BY <1>1, <1>2, <1>7 DEF PFInv, PFTypes, CallGood, NoCall
<1>9. ASSUME NEW k \in Keys
      PROVE  /\ k[1] \in Fds /\ k[2] \in Pages /\ k = <<k[1], k[2]>>
             /\ k \in ValidKeys' <=> k[1] # fd /\ k \in ValidKeys
             /\ Resident(pool', k) <=> Resident(pool, k)
             /\ Fixed(pool', k) <=> Fixed(pool, k)
             /\ k[1] # fd => /\ Content(pool', k) = Content(pool, k)
                             /\ Place(pool', k) = Place(pool, k)
  <2>1. k[1] \in Fds /\ k[2] \in Pages /\ k = <<k[1], k[2]>>
    BY DEF Keys
  <2>2. k \in ValidKeys' <=> k[1] # fd /\ k \in ValidKeys
    BY <1>6, <1>7, <2>1 DEF ValidKeys, ValidPages
  <2>3. /\ Resident(pool', k) <=> Resident(pool, k)
        /\ Fixed(pool', k) <=> Fixed(pool, k)
    BY <1>3 DEF Resident, Fixed
  <2>4. k[1] # fd => Content(pool', k) = Content(pool, k) /\ Place(pool', k) = Place(pool, k)
    BY <1>3, <1>5, <2>1 DEF Content, Place, Resident
  <2>5. QED
    BY <2>1, <2>2, <2>3, <2>4
<1>10. Faithful(pool', ValidKeys', owed')
  <2>1. Distinct(pool')
    BY <1>1, <1>3, <1>5, PFAssumption DEF Faithful, Distinct
  <2>2. ValidKeys' \subseteq Keys
    BY DEF ValidKeys
  <2>3. ASSUME NEW k \in ValidKeys'
        PROVE  pool'.file[k[1]] \in Files /\ Safe(pool', k, owed')
    <3>1. k \in Keys /\ k \in ValidKeys /\ k[1] # fd /\ k[1] \in Fds
      BY <1>9, <2>2, <2>3
    <3>2. pool.file[k[1]] \in Files /\ Safe(pool, k, owed)
      BY <1>1, <3>1 DEF Faithful
    <3>3. QED
      BY <1>3, <1>5, <1>9, <3>1, <3>2 DEF Safe, Resident
  <2>4. \A k \in Keys : Resident(pool', k) => k \in ValidKeys'
    BY <1>1, <1>9 DEF Faithful
  <2>5. \A k \in owed' : Fixed(pool', k)
    BY <1>1, <1>9 DEF Faithful
  <2>6. QED
    BY <1>1, <2>1, <2>2, <2>3, <2>4, <2>5 DEF Faithful
<1>11. OpenGood'
  <2> SUFFICES ASSUME NEW i \in Open, i # fd
               PROVE  /\ FileGood(ftab'[i].hdr, NextFrees(pool', i))
                      /\ dhdr'[pool'.file[i]] # Absent
                      /\ ~ ftab'[i].hdrchanged => dhdr'[pool'.file[i]] = ftab'[i].hdr
    BY <1>6 DEF OpenGood
  <2>1. /\ i \in Fds /\ ftab'[i] = ftab[i] /\ pool'.file[i] = pool.file[i]
        /\ pool.file[i] \in Files
    BY <1>1, <1>3, <1>5, <1>7 DEF Open
  <2>2. pool.file[i] # name
    BY <1>1, <2>1 DEF Faithful, Distinct
  <2>3. NextFrees(pool', i) = NextFrees(pool, i)
    <3>1. \A p \in Pages : <<i, p>> \in Keys /\ <<i, p>>[1] # fd
      BY <2>1 DEF Keys
    <3>2. \A p \in Pages : NextFreeOf(pool', <<i, p>>) = NextFreeOf(pool, <<i, p>>)
      BY <1>9, <3>1 DEF NextFreeOf
    <3>3. QED
      BY <3>2 DEF NextFrees
  <2>4. dhdr'[pool.file[i]] = dhdr[pool.file[i]]
    BY <1>2, <2>1, <2>2
  <2>5. QED
    BY <2>1, <2>3, <2>4 DEF PFInv, OpenGood
<1>12. ASSUME NEW p \in Pages
       PROVE  /\ NextFreeOf(pool, <<fd, p>>) = pool.disk[<<name, p>>].nextfree
              /\ p < hdr.numpages => pool.disk[<<name, p>>] # Absent
  <2> DEFINE k == <<fd, p>>
  <2>1. k \in Keys /\ k[1] = fd /\ ~ Resident(pool, k) /\ Place(pool, k) = <<name, p>>
    BY <1>1 DEF Keys, Place
  <2>2. p < hdr.numpages => k \in ValidKeys
    BY <2>1 DEF ValidKeys, ValidPages
  <2>3. p < hdr.numpages => Safe(pool, k, owed)
    BY <1>1, <2>2 DEF Faithful
  <2> HIDE DEF k, name, hdr
  <2>4. NextFreeOf(pool, k) = pool.disk[<<name, p>>].nextfree
    BY <2>1 DEF NextFreeOf, Content
  <2>5. p < hdr.numpages => pool.disk[<<name, p>>] # Absent
    BY <2>1, <2>3 DEF Safe
  <2>6. QED
    BY <2>4, <2>5 DEF k
<1>13. ClosedGood'
  <2> SUFFICES ASSUME NEW nm \in Existing', ~ IsOpen(nm)'
               PROVE  /\ FileGood(dhdr'[nm], StoredNextFrees(nm)')
                      /\ \A p \in Pages :
                           p < dhdr'[nm].numpages => pool'.disk[<<nm, p>>] # Absent
    BY DEF ClosedGood
  <2>1. nm \in Files /\ StoredNextFrees(nm)' = StoredNextFrees(nm)
    BY <1>3 DEF Existing, StoredNextFrees
  <2>2. CASE nm = name
    <3>1. StoredNextFrees(nm) = NextFrees(pool, fd)
      BY <1>12, <2>2 DEF StoredNextFrees, NextFrees
    <3>2. FileGood(hdr, NextFrees(pool, fd))
      BY DEF PFInv, OpenGood
    <3>3. QED
      BY <1>2, <1>3, <1>12, <2>1, <2>2, <3>1, <3>2
  <2>3. CASE nm # name
    <3>1. ~ IsOpen(nm)
      BY <1>3, <1>5, <2>1, <2>3 DEF IsOpen
    <3>2. dhdr'[nm] = dhdr[nm] /\ nm \in Existing
      BY <1>2, <2>1, <2>3 DEF Existing
    <3>3. QED
      BY <1>3, <2>1, <3>1, <3>2 DEF PFInv, ClosedGood
  <2>4. QED
    BY <2>2, <2>3
<1>14. HeldUsed'
  <2> SUFFICES ASSUME NEW k \in Keys, Fixed(pool', k)
               PROVE  NextFreeOf(pool', k) = USED
    BY DEF HeldUsed, Held
  <2>1. Fixed(pool, k) /\ k[1] # fd
    BY <1>9 DEF Fixed
  <2>2. NextFreeOf(pool, k) = USED
    BY <2>1, PageFacts DEF NextFreeOf
  <2>3. QED
    BY <1>9, <2>1, <2>2 DEF NextFreeOf
<1>15. QED
  BY <1>4, <1>8, <1>10, <1>11, <1>13, <1>14 DEF PFInv

\* A round of PF_CloseFile's loop, or its end (pf.c:294-327).
LEMMA CloseStepKeeps ==
  ASSUME PFInv, CloseStep
  PROVE  PFInv'
<1> DEFINE fd == call.fd
<1>1. fd \in Open /\ fd \in Fds /\ owed' = owed /\ call \in [op : {"Close"}, fd : Fds]
  BY DEF CloseStep, PFInv, CallGood, Open, PFTypes, NoCall
<1>2. PICK o \in PFbufReleaseStep(pool, fd) :
        IF o.rc = "OK"
        THEN CloseHeader(fd) /\ call' = NoCall
        ELSE /\ pool' = o.s
             /\ call' = IF o.rc = "MORE" THEN call ELSE NoCall
             /\ UNCHANGED <<ftab, dhdr>>
  BY DEF CloseStep
<1> HIDE DEF fd
<1>3. CASE o.rc # "OK"
  <2>1. Sound(pool) /\ Faithful(pool, ValidKeys, owed)
    BY DEF PFInv
  <2>2. Sound(pool') /\ Faithful(pool', ValidKeys, owed) /\ Unseen(pool, pool', ValidKeys)
    BY <1>1, <1>2, <1>3, <2>1, ReleaseStepSound, ReleaseStepUnseen
  <2>3. PFTypes'
    BY <1>1, <1>2, <1>3 DEF PFInv, PFTypes
  <2>4. Open' = Open
    BY <2>2 DEF Unseen, SameFiles, Open
  <2>5. CallGood'
    <3>1. CASE call' = call
      BY <1>1, <2>4, <3>1 DEF CallGood, fd
    <3>2. CASE call' = NoCall
      BY <3>2 DEF CallGood, NoCall
    <3>3. QED
      BY <1>2, <1>3, <3>1, <3>2
  <2>6. QED
    BY <1>1, <1>2, <1>3, <2>2, <2>3, <2>5, UnseenKeeps
<1>4. CASE o.rc = "OK"
  <2>1. CloseHeader(fd) /\ call' = NoCall
    BY <1>2, <1>4
  <2>2. \A k \in Keys : k[1] = fd => ~ Resident(pool, k)
    BY <1>1, <1>2, <1>4, ReleasedMeansGone DEF PFInv
  <2>3. CASE pool' = [pool EXCEPT !.file[fd] = NULL]
             /\ ftab' = [ftab EXCEPT ![fd] = ClosedEntry]
             /\ dhdr' = IF ftab[fd].hdrchanged
                        THEN [dhdr EXCEPT ![pool.file[fd]] = ftab[fd].hdr] ELSE dhdr
    BY ONLY PFInv, <1>1, <2>1, <2>2, <2>3, CloseDoneKeeps
  <2>4. CASE ftab[fd].hdrchanged /\ UNCHANGED <<pool, ftab>>
             /\ \/ dhdr' = dhdr
                \/ dhdr' = [dhdr EXCEPT ![pool.file[fd]].firstfree = ftab[fd].hdr.firstfree]
    BY <1>1, <2>1, <2>4, CloseFailedKeeps
  <2>5. CASE /\ dhdr' = IF ftab[fd].hdrchanged
                        THEN [dhdr EXCEPT ![pool.file[fd]] = ftab[fd].hdr] ELSE dhdr
             /\ ftab' = [ftab EXCEPT ![fd].hdrchanged = FALSE]
             /\ UNCHANGED pool
    BY ONLY PFInv, <1>1, <2>1, <2>5, CloseRefusedKeeps
  <2>6. QED
    BY <2>1, <2>3, <2>4, <2>5 DEF CloseHeader
<1>5. QED
  BY <1>3, <1>4

LEMMA PFInvNext == PFInv /\ [Next]_vars => PFInv'
<1> SUFFICES ASSUME PFInv, [Next]_vars
             PROVE  PFInv'
  OBVIOUS
<1>1. ASSUME NEW name \in Files,
             \/ PF_CreateFile(name) \/ PF_DestroyFile(name)
             \/ ~ IsOpen(name) /\ PF_OpenFile(name)
      PROVE  PFInv'
  BY <1>1, CreateKeeps, DestroyKeeps, OpenKeeps
<1>2. ASSUME NEW fd \in Fds,
             \/ PF_CloseFile(fd)
             \/ PF_AllocPage(fd)
             \/ \E from \in Pages \cup {-1} : PF_GetNextPage(fd, from)
      PROVE  PFInv'
  BY <1>2, StartsKeep, AllocPageKeeps
<1>3. ASSUME NEW k \in Keys,
             \/ PF_GetThisPage(k)
             \/ PF_DisposePage(k)
             \/ \E dirty \in BOOLEAN : PF_UnfixPage(k, dirty)
             \/ \E data \in Data : WritePage(k, data)
      PROVE  PFInv'
  BY <1>3, GetThisKeeps, DisposeKeeps, UnfixKeeps, WriteKeeps
<1>4. ASSUME NEW strategy \in Strategies, PF_SetStrategy(strategy)
      PROVE  PFInv'
  BY <1>4, StrategyKeeps
<1>5. CASE CloseStep
  BY <1>5, CloseStepKeeps
<1>6. CASE NextStep
  BY <1>6, NextStepKeeps
<1>7. CASE UNCHANGED vars
  <2>1. PFTypes' /\ CallGood' /\ OpenGood' /\ ClosedGood' /\ HeldUsed'
    BY <1>7 DEF vars, PFInv, PFTypes, CallGood, Open, OpenGood, ClosedGood, HeldUsed,
                Held, NextFrees, StoredNextFrees, Existing, IsOpen
  <2>2. ValidKeys' = ValidKeys
    BY <1>7 DEF vars, ValidKeys, ValidPages, Open
  <2>3. QED
    BY <1>7, <2>1, <2>2 DEF vars, PFInv
<1>8. QED
  BY <1>1, <1>2, <1>3, <1>4, <1>5, <1>6, <1>7 DEF Next

-----------------------------------------------------------------------------
(* What the invariant gives. *)

LEMMA PFInvariant == Spec => []PFInv
BY PFInvInit, PFInvNext, PTL DEF Spec

\* The order of a free list is one of the orders of the free pages.
LEMMA ChainedOrder ==
  ASSUME NEW first, NEW n \in Nat, NEW nf, NEW m \in Nat, NEW order,
         Chained(first, n, nf, m, order)
  PROVE  order \in SetToSeqs({p \in Pages : p < n /\ nf[p] # USED})
<1> DEFINE F == {p \in Pages : p < n /\ nf[p] # USED}
<1>1. /\ order \in [1 .. m -> Pages]
      /\ \A i, j \in 1 .. m : order[i] = order[j] => i = j
      /\ \A p \in F : \E i \in 1 .. m : order[i] = p
  BY DEF Chained
<1>2. ASSUME NEW i \in 1 .. m
      PROVE  order[i] \in F
  <2>1. i # m => order[i + 1] \in Pages
    BY <1>1
  <2>2. QED
    BY <1>1, <2>1, PoolAssumption DEF Chained, LIST_END, USED
<1> HIDE DEF F
<1>3. order \in [1 .. m -> F]
  BY <1>1, <1>2
<1>4. order \in Bijection(1 .. m, F)
  BY <1>1, <1>3, Fun_IsBij
<1>5. ExistsBijection(1 .. m, F)
  BY <1>4 DEF ExistsBijection
<1>6. IsFiniteSet(1 .. m) /\ Cardinality(1 .. m) = m
  <2>1. /\ IsFiniteSet(1 .. m)
        /\ Cardinality(1 .. m) = IF 1 > m THEN 0 ELSE m - 1 + 1
    BY FS_Interval
  <2>2. QED
    BY <2>1
<1>7. Cardinality(F) = m
  BY <1>5, <1>6, FS_Bijection
<1>8. order \in SetToSeqs(F)
  BY <1>1, <1>3, <1>7 DEF SetToSeqs
<1>9. QED
  BY <1>8 DEF F

\* A file seen from outside, open or closed: its header fits its pages, and the
\* pages its header counts have contents.
LEMMA FileFacts ==
  ASSUME PFInv, NEW name \in Existing
  PROVE  /\ FileHdr(name) \in Hdr
         /\ FileGood(FileHdr(name), [p \in Pages |-> FilePage(name, p).nextfree])
         /\ \A p \in Pages : p < FileHdr(name).numpages => FilePage(name, p) \in FPage
<1> DEFINE nf == [p \in Pages |-> FilePage(name, p).nextfree]
<1>1. CASE IsOpen(name)
  <2> DEFINE fd == FdOf(name)
  <2>1. fd \in Fds /\ pool.file[fd] = name
    BY <1>1 DEF FdOf, IsOpen
  <2> HIDE DEF fd
  <2>2. fd \in Open
    BY <2>1, PFAssumption DEF Open, Existing
  <2>3. FileHdr(name) = ftab[fd].hdr /\ \A p \in Pages : FilePage(name, p) = Content(pool, <<fd, p>>)
    BY <1>1 DEF FileHdr, FilePage, fd
  <2>4. nf = NextFrees(pool, fd)
    BY <2>3 DEF NextFrees, NextFreeOf
  <2>5. ftab[fd].hdr \in Hdr /\ FileGood(ftab[fd].hdr, NextFrees(pool, fd))
    BY <2>1, <2>2 DEF PFInv, PFTypes, OpenGood, FtabEntry
  <2>6. ASSUME NEW p \in Pages, p < ftab[fd].hdr.numpages
        PROVE  Content(pool, <<fd, p>>) \in FPage
    <3>1. <<fd, p>> \in ValidKeys /\ <<fd, p>> \in Keys
      BY <2>1, <2>2, <2>6 DEF ValidKeys, ValidPages, Keys
    <3>2. QED
      BY <3>1, PageFacts
  <2> HIDE DEF nf
  <2>7. QED
    BY <2>3, <2>4, <2>5, <2>6 DEF nf
<1>2. CASE ~ IsOpen(name)
  <2>1. FileHdr(name) = dhdr[name] /\ \A p \in Pages : FilePage(name, p) = pool.disk[<<name, p>>]
    BY <1>2 DEF FileHdr, FilePage
  <2>2. nf = StoredNextFrees(name)
    BY <2>1 DEF StoredNextFrees
  <2>3. name \in Files /\ dhdr[name] \in Hdr
    BY DEF Existing, PFInv, PFTypes
  <2>4. /\ FileGood(dhdr[name], StoredNextFrees(name))
        /\ \A p \in Pages : p < dhdr[name].numpages => pool.disk[<<name, p>>] # Absent
    BY <1>2 DEF PFInv, ClosedGood
  <2>5. \A p \in Pages : p < dhdr[name].numpages => pool.disk[<<name, p>>] \in FPage
    BY <2>3, <2>4 DEF PFInv, Sound, Pool
  <2> HIDE DEF nf
  <2>6. QED
    BY <2>1, <2>2, <2>3, <2>4, <2>5 DEF nf
<1>3. QED
  BY <1>1, <1>2

\* A page of a file is live exactly when its header counts it and it is used.
LEMMA LivePage ==
  ASSUME PFInv, NEW name \in Existing, NEW p \in Pages
  PROVE  LET live == p < FileHdr(name).numpages /\ FilePage(name, p).nextfree = USED
         IN  /\ FileData(name)[p] = IF live THEN FilePage(name, p).data ELSE Absent
             /\ FileData(name)[p] = Absent <=> ~ live
<1>1. dhdr[name] # Absent
  BY DEF Existing
<1>2. FileData(name)[p] = UsedData(FileHdr(name), p, FilePage(name, p))
  BY <1>1 DEF FileData
<1>3. p < FileHdr(name).numpages => FilePage(name, p).data # Absent
  BY FileFacts, PFAssumption DEF FPage
<1>4. QED
  BY <1>2, <1>3 DEF UsedData

LEMMA FreeListNow == PFInv => FreeListExact
<1> SUFFICES ASSUME PFInv, NEW name \in Existing
             PROVE  \E order \in SetToSeqs({p \in FilePages(name) :
                                              FileData(name)[p] = Absent}) :
                      LET at(i) == IF i \in DOMAIN order THEN order[i] ELSE LIST_END
                      IN  /\ FileHdr(name).firstfree = at(1)
                          /\ \A i \in DOMAIN order :
                               FilePage(name, order[i]).nextfree = at(i + 1)
  BY DEF FreeListExact
<1> DEFINE hdr == FileHdr(name)
           nf == [p \in Pages |-> FilePage(name, p).nextfree]
           F == {p \in Pages : p < hdr.numpages /\ nf[p] # USED}
<1>1. hdr.numpages \in Nat /\ FreeList(hdr.firstfree, hdr.numpages, nf)
  BY FileFacts DEF Hdr, FileGood
<1>2. {p \in FilePages(name) : FileData(name)[p] = Absent} = F
  <2>1. \A p \in Pages : FileData(name)[p] = Absent <=> ~ (p < hdr.numpages /\ nf[p] = USED)
    BY LivePage
  <2>2. QED
    BY <2>1 DEF FilePages
<1>3. \A p \in Pages : nf[p] = FilePage(name, p).nextfree
  OBVIOUS
<1> HIDE DEF nf
<1>4. PICK m \in Nat : \E order \in [1 .. m -> Pages] :
                         Chained(hdr.firstfree, hdr.numpages, nf, m, order)
  BY <1>1 DEF FreeList
<1>5. PICK order \in [1 .. m -> Pages] : Chained(hdr.firstfree, hdr.numpages, nf, m, order)
  BY <1>4
<1>6. order \in SetToSeqs(F)
  BY <1>1, <1>5, ChainedOrder
<1>7. DOMAIN order = 1 .. m
  OBVIOUS
<1>8. hdr.firstfree = IF 1 \in DOMAIN order THEN order[1] ELSE LIST_END
  BY <1>5, <1>7 DEF Chained
<1>9. \A i \in DOMAIN order : FilePage(name, order[i]).nextfree
        = IF i + 1 \in DOMAIN order THEN order[i + 1] ELSE LIST_END
  <2> SUFFICES ASSUME NEW i \in 1 .. m
               PROVE  nf[order[i]] = IF i + 1 \in 1 .. m THEN order[i + 1] ELSE LIST_END
    BY <1>3, <1>7
  <2>1. nf[order[i]] = IF i = m THEN LIST_END ELSE order[i + 1]
    BY <1>5 DEF Chained
  <2>2. QED
    BY <2>1
<1> HIDE DEF F, hdr
<1>10. QED
  BY <1>2, <1>6, <1>8, <1>9 DEF hdr

\* The pool, the headers in memory and in the files, the debts of the callers and
\* the loop in progress always have their types: no call reads a header or a page
\* that is not there (pf.c, whole file).
THEOREM TypeCorrect == Spec => []TypeOK
<1>1. PFInv => TypeOK
  BY DEF PFInv, PFTypes, Sound, TypeOK
<1>2. QED
  BY <1>1, PFInvariant, PTL

\* The calls of pf.c never bring the buffer list, the hash table and the frame
\* count apart, whatever fails inside them and whatever buf.c is called with
\* (pf.c, whole file; buf.c:61-190).
THEOREM PoolStaysSound == Spec => []PoolConsistent
<1>1. PFInv => PoolConsistent
  BY DEF PFInv, Sound, PoolConsistent
<1>2. QED
  BY <1>1, PFInvariant, PTL

\* Header and pages of every file, open, closed, or half closed after a failed
\* write of its header, agree on the free list: exactly the unused pages, each
\* once, none lost to allocation (pf.c:294-316, 439-447, 523-526).
THEOREM FreeListsExact == Spec => []FreeListExact
BY FreeListNow, PFInvariant, PTL

\* Nobody is ever left holding a free page, or a page of a closed file
\* (pf.c:374-376, 414-421, 513-529).
THEOREM HeldPagesAreUsed == Spec => []HeldAreUsed
<1>1. PFInv => HeldAreUsed
  BY PageFacts DEF HeldAreUsed, Held, NextFreeOf
<1>2. QED
  BY <1>1, PFInvariant, PTL

\* What is buffered is a page of an open file that its header counts: a file opened
\* at an fd used before is never served pages of the one closed there
\* (pf.c:293-295, 326).
THEOREM BuffersAreOfOpenFiles == Spec => []BufferedPagesOpen
<1>1. PFInv => BufferedPagesOpen
  BY PageFacts DEF BufferedPagesOpen
<1>2. QED
  BY <1>1, PFInvariant, PTL

\* PF_GetNextPage passes over no used page, though its reads evict the frames of
\* the pages it has passed (pf.c:363-377).
THEOREM ScansSkipOnlyFree == Spec => []SkipsOnlyFree
<1>1. PFInv => SkipsOnlyFree
  BY DEF PFInv, CallGood, SkipsOnlyFree
<1>2. QED
  BY <1>1, PFInvariant, PTL

-----------------------------------------------------------------------------
(* The refinement: PF implements PagedFile.  Behind headers, free lists,    *)
(* buffers and file descriptors the callers find named files of live pages. *)
(* So far no call loses a page or a link of a free list; now the calls of   *)
(* pf.c are matched with the actions of PagedFile.                          *)

(* The files as PagedFile has them. *)

Shown == [name \in Files |-> FileData(name)]
Pinned == {<<pool.file[k[1]], k[2]>> : k \in Held}
\* What a file shows at page p while it is open at fd.
DataOf(fd, p) == UsedData(ftab[fd].hdr, p, Content(pool, <<fd, p>>))
\* It shows data exactly at the used pages that the header counts.
DataFits ==
  \A fd \in Open, p \in Pages :
    IF <<fd, p>> \in ValidKeys /\ NextFreeOf(pool, <<fd, p>>) = USED
    THEN DataOf(fd, p) \in Data ELSE DataOf(fd, p) = Absent

\* Shown and Pinned, file by file and page by page.
View ==
  /\ \A fd \in Open :
       /\ pool.file[fd] \in Existing
       /\ \A p \in Pages : Shown[pool.file[fd]][p] = DataOf(fd, p)
  /\ \A name \in Files, p \in Pages :
       ~ IsOpen(name) =>
         Shown[name][p] = IF dhdr[name] = Absent THEN Absent
                          ELSE UsedData(dhdr[name], p, pool.disk[<<name, p>>])
  /\ \A name \in Files : Shown[name] = [p \in Pages |-> Shown[name][p]]
  /\ DataFits
  /\ \A fd \in Open, p \in Pages :
       <<pool.file[fd], p>> \in Pinned <=> Fixed(pool, <<fd, p>>)
  /\ \A x \in Pinned : \E fd \in Open, p \in Pages : x = <<pool.file[fd], p>>

LEMMA ViewNow == PFInv => View
<1> SUFFICES ASSUME PFInv
             PROVE  View
  OBVIOUS
<1>1. ASSUME NEW fd \in Open
      PROVE  /\ fd \in Fds /\ pool.file[fd] \in Files /\ pool.file[fd] \in Existing
             /\ FdOf(pool.file[fd]) = fd /\ IsOpen(pool.file[fd])
  <2>1. fd \in Fds /\ pool.file[fd] \in Files /\ dhdr[pool.file[fd]] # Absent
    BY DEF PFInv, OpenGood, Open, Sound, Pool
  <2>2. \A i \in Fds : pool.file[i] = pool.file[fd] => i = fd
    BY <2>1 DEF PFInv, Faithful, Distinct
  <2>3. QED
    BY <2>1, <2>2 DEF Existing, FdOf, IsOpen
<1>2. ASSUME NEW fd \in Open, NEW p \in Pages
      PROVE  Shown[pool.file[fd]][p] = DataOf(fd, p)
  <2>1. FileData(pool.file[fd])[p] = DataOf(fd, p)
    BY <1>1 DEF FileData, Existing, FileHdr, FilePage, DataOf
  <2>2. QED
    BY <1>1, <2>1 DEF Shown
<1>3. ASSUME NEW name \in Files, NEW p \in Pages, ~ IsOpen(name)
      PROVE  Shown[name][p] = IF dhdr[name] = Absent THEN Absent
                              ELSE UsedData(dhdr[name], p, pool.disk[<<name, p>>])
  BY <1>3 DEF Shown, FileData, FileHdr, FilePage
<1>4. ASSUME NEW name \in Files
      PROVE  Shown[name] = [p \in Pages |-> Shown[name][p]]
  BY DEF Shown, FileData
<1>5. ASSUME NEW fd \in Open, NEW p \in Pages
      PROVE  /\ IF <<fd, p>> \in ValidKeys /\ NextFreeOf(pool, <<fd, p>>) = USED
                THEN DataOf(fd, p) \in Data ELSE DataOf(fd, p) = Absent
             /\ <<pool.file[fd], p>> \in Pinned <=> Fixed(pool, <<fd, p>>)
  <2> DEFINE k == <<fd, p>>
  <2>1. k \in Keys /\ k[1] = fd /\ k[2] = p
    BY <1>1 DEF Keys
  <2>2. k \in ValidKeys <=> p < ftab[fd].hdr.numpages
    BY <2>1 DEF ValidKeys, ValidPages
  <2>3. k \in ValidKeys => Content(pool, k) \in FPage
    BY <2>1, PageFacts
  <2>4. IF k \in ValidKeys /\ NextFreeOf(pool, k) = USED
        THEN DataOf(fd, p) \in Data ELSE DataOf(fd, p) = Absent
    BY <2>2, <2>3 DEF DataOf, UsedData, NextFreeOf, FPage
  <2>5. ASSUME NEW j \in Held, <<pool.file[j[1]], j[2]>> = <<pool.file[fd], p>>
        PROVE  j = k
    <3>1. j \in Keys /\ j = <<j[1], j[2]>> /\ j[1] \in Open /\ j[2] = p
      BY <2>5, PageFacts DEF Held, Keys
    <3>2. FdOf(pool.file[j[1]]) = j[1] /\ FdOf(pool.file[fd]) = fd
      BY <1>1, <3>1
    <3>3. QED
      BY <2>5, <3>1, <3>2
  <2>6. <<pool.file[fd], p>> \in Pinned <=> k \in Held
    BY <2>1, <2>5 DEF Pinned
  <2>7. QED
    BY <2>1, <2>4, <2>6 DEF Held
<1>6. ASSUME NEW x \in Pinned
      PROVE  \E fd \in Open, p \in Pages : x = <<pool.file[fd], p>>
  <2>1. PICK k \in Held : x = <<pool.file[k[1]], k[2]>>
    BY DEF Pinned
  <2>2. k[1] \in Open /\ k[2] \in Pages
    BY PageFacts DEF Held, Keys
  <2>3. QED
    BY <2>1, <2>2
<1>7. DataFits
  BY <1>5 DEF DataFits
<1>8. QED
  BY <1>1, <1>2, <1>3, <1>4, <1>5, <1>6, <1>7 DEF View

LEMMA ViewNext == PFInv' => View'
BY ViewNow, PTL

\* A is a function of two arguments, from I and from P.
TwoArguments(A, I, P) ==
  A = [n \in I |-> A[n]] /\ \A n \in I : A[n] = [q \in P |-> A[n][q]]
\* B differs from it at one place at most.
OneDiffers(A, B, I, P, f, p) ==
  \A n \in I, q \in P : n # f \/ q # p => B[n][q] = A[n][q]
LEMMA OnePlace ==
  ASSUME NEW I, NEW P, NEW A, NEW B, NEW f \in I, NEW p \in P,
         TwoArguments(A, I, P), TwoArguments(B, I, P), OneDiffers(A, B, I, P, f, p)
  PROVE  /\ B = [A EXCEPT ![f][p] = B[f][p]]
         /\ B[f][p] = A[f][p] => B = A
<1>0. /\ A = [n \in I |-> A[n]] /\ \A n \in I : A[n] = [q \in P |-> A[n][q]]
      /\ B = [n \in I |-> B[n]] /\ \A n \in I : B[n] = [q \in P |-> B[n][q]]
      /\ \A n \in I, q \in P : n # f \/ q # p => B[n][q] = A[n][q]
  BY DEF TwoArguments, OneDiffers
<1>1. \A n \in I : n # f => B[n] = A[n]
  <2>1. ASSUME NEW n \in I, n # f
        PROVE  B[n] = A[n]
    <3>1. \A q \in P : B[n][q] = A[n][q]
      BY <1>0, <2>1
    <3>2. [q \in P |-> B[n][q]] = [q \in P |-> A[n][q]]
      BY <3>1
    <3>3. QED
      BY <1>0, <3>2
  <2>2. QED
    BY <2>1
<1>2. B[f] = [A[f] EXCEPT ![p] = B[f][p]]
  <2>1. \A q \in P : q # p => B[f][q] = A[f][q]
    BY <1>0
  <2>2. [q \in P |-> B[f][q]] = [[q \in P |-> A[f][q]] EXCEPT ![p] = B[f][p]]
    BY <2>1
  <2>3. QED
    BY <1>0, <2>2
<1>3. B = [A EXCEPT ![f] = B[f]]
  BY <1>0, <1>1
<1>4. B = [A EXCEPT ![f][p] = B[f][p]]
  BY <1>2, <1>3
<1>5. ASSUME B[f][p] = A[f][p]
      PROVE  B = A
  <2>1. [A[f] EXCEPT ![p] = A[f][p]] = A[f] /\ [A EXCEPT ![f] = A[f]] = A
    BY <1>0
  <2>2. QED
    BY <1>2, <1>3, <1>5, <2>1
<1>6. QED
  BY <1>4, <1>5

-----------------------------------------------------------------------------
(* Calls that open and close no file: what they change of Shown and Pinned. *)

\* Pages of the open files are all that such a call can show differently.
LEMMA ChangedPage ==
  ASSUME PFInv, PFInv', SameFiles(pool, pool'), dhdr' = dhdr,
         NEW name \in Files, NEW p \in Pages,
         ~ \E fd \in Open : /\ pool.file[fd] = name
                            /\ \/ DataOf(fd, p)' # DataOf(fd, p)
                               \/ ~ (Fixed(pool', <<fd, p>>) <=> Fixed(pool, <<fd, p>>))
  PROVE  /\ Shown'[name][p] = Shown[name][p]
         /\ <<name, p>> \in Pinned' <=> <<name, p>> \in Pinned
<1>1. View /\ View'
  BY ViewNow, ViewNext
<1>2. pool'.file = pool.file /\ Open' = Open
  BY DEF SameFiles, Open
<1>3. CASE IsOpen(name)
  <2>1. PICK fd \in Fds : pool.file[fd] = name
    BY <1>3 DEF IsOpen
  <2>2. fd \in Open
    BY <2>1, PFAssumption DEF Open
  <2>3. Shown[name][p] = DataOf(fd, p) /\ (<<name, p>> \in Pinned <=> Fixed(pool, <<fd, p>>))
    BY <1>1, <2>1, <2>2 DEF View
  <2>4. /\ Shown'[name][p] = DataOf(fd, p)'
        /\ <<name, p>> \in Pinned' <=> Fixed(pool', <<fd, p>>)
    BY <1>1, <1>2, <2>1, <2>2 DEF View
  <2>5. QED
    BY <2>1, <2>2, <2>3, <2>4
<1>4. CASE ~ IsOpen(name)
  <2>1. ~ IsOpen(name)' /\ pool'.disk[<<name, p>>] = pool.disk[<<name, p>>]
    BY <1>2, <1>4 DEF IsOpen, SameFiles
  <2>2. Shown'[name][p] = Shown[name][p]
    BY <1>1, <1>4, <2>1 DEF View
  <2>3. \A fd \in Open : fd \in Fds /\ pool.file[fd] # name
    BY <1>4 DEF IsOpen, Open
  <2>4. <<name, p>> \notin Pinned
    BY <1>1, <2>3 DEF View
  <2>5. <<name, p>> \notin Pinned'
    BY <1>1, <1>2, <2>3 DEF View
  <2>6. QED
    BY <2>2, <2>4, <2>5
<1>5. QED
  BY <1>3, <1>4

\* Both views are functions of file and page, and name only pages of files.
ViewShaped == TwoArguments(Shown, Files, Pages) /\ Pinned \subseteq Files \X Pages
LEMMA ViewShapeNow == PFInv => ViewShaped
<1> SUFFICES ASSUME PFInv
             PROVE  ViewShaped
  OBVIOUS
<1>1. View
  BY ViewNow
<1>2. \A fd \in Open : pool.file[fd] \in Files
  BY DEF PFInv, Sound, Pool, Open
<1>3. Pinned \subseteq Files \X Pages
  BY <1>1, <1>2 DEF View
<1>4. TwoArguments(Shown, Files, Pages)
  BY <1>1 DEF View, Shown, TwoArguments
<1>5. QED
  BY <1>3, <1>4 DEF ViewShaped
LEMMA ViewShapeNext == PFInv' => ViewShaped'
BY ViewShapeNow, PTL

\* A call that shows no page differently.
LEMMA NothingShown ==
  ASSUME PFInv, PFInv', SameFiles(pool, pool'), dhdr' = dhdr,
         \A fd \in Open, p \in Pages :
           /\ DataOf(fd, p)' = DataOf(fd, p)
           /\ Fixed(pool', <<fd, p>>) <=> Fixed(pool, <<fd, p>>)
  PROVE  UNCHANGED <<Existing, Shown, Pinned>>
<1>1. ViewShaped /\ ViewShaped'
  BY ViewShapeNow, ViewShapeNext
<1>2. ASSUME NEW n \in Files, NEW q \in Pages
      PROVE  Shown'[n][q] = Shown[n][q] /\ (<<n, q>> \in Pinned' <=> <<n, q>> \in Pinned)
  BY ChangedPage
<1>3. \A x \in Files \X Pages : x \in Pinned' <=> x \in Pinned
  BY <1>2
<1>4. Pinned' = Pinned
  BY <1>1, <1>3 DEF ViewShaped
<1>5. Shown' = Shown
  <2> DEFINE A == Shown
             B == Shown'
  <2>1. TwoArguments(A, Files, Pages) /\ TwoArguments(B, Files, Pages)
    BY <1>1 DEF ViewShaped
  <2>2. \A n \in Files, q \in Pages : B[n][q] = A[n][q]
    BY <1>2
  <2> HIDE DEF A, B
  <2>3. \A n \in Files : [q \in Pages |-> B[n][q]] = [q \in Pages |-> A[n][q]]
    BY <2>2
  <2>4. \A n \in Files : B[n] = A[n]
    BY <2>1, <2>3 DEF TwoArguments
  <2>5. [n \in Files |-> B[n]] = [n \in Files |-> A[n]]
    BY <2>4
  <2>6. B = A
    BY <2>1, <2>5 DEF TwoArguments
  <2>7. QED
    BY <2>6 DEF A, B
<1>6. QED
  BY <1>4, <1>5 DEF Existing

\* What a call does that shows one page differently, page p of the file open at fd.
PageShown(fd, p) ==
  LET f == pool.file[fd]
  IN  /\ f \in Files /\ f \in Existing /\ Existing' = Existing
      /\ Shown[f][p] = DataOf(fd, p)
      /\ Shown' = [Shown EXCEPT ![f][p] = DataOf(fd, p)']
      /\ DataOf(fd, p)' = DataOf(fd, p) => Shown' = Shown
      /\ <<f, p>> \in Pinned <=> Fixed(pool, <<fd, p>>)
      /\ <<f, p>> \in Pinned' <=> Fixed(pool', <<fd, p>>)
      /\ \A x : x # <<f, p>> => (x \in Pinned' <=> x \in Pinned)

LEMMA OnePageShown ==
  ASSUME PFInv, PFInv', SameFiles(pool, pool'), dhdr' = dhdr,
         NEW fd \in Open, NEW p \in Pages,
         \A i \in Open, q \in Pages : <<i, q>> # <<fd, p>> =>
           /\ DataOf(i, q)' = DataOf(i, q)
           /\ Fixed(pool', <<i, q>>) <=> Fixed(pool, <<i, q>>)
  PROVE  PageShown(fd, p)
<1> DEFINE f == pool.file[fd]
<1>1. View /\ View' /\ ViewShaped /\ ViewShaped'
  BY ViewNow, ViewNext, ViewShapeNow, ViewShapeNext
<1>2. pool'.file = pool.file /\ Open' = Open /\ Existing' = Existing
  BY DEF SameFiles, Open, Existing
<1>3. f \in Files /\ f \in Existing /\ Shown[f][p] = DataOf(fd, p)
      /\ (<<f, p>> \in Pinned <=> Fixed(pool, <<fd, p>>))
  BY <1>1 DEF View, PFInv, Sound, Pool, Open
<1>4. Shown'[f][p] = DataOf(fd, p)' /\ (<<f, p>> \in Pinned' <=> Fixed(pool', <<fd, p>>))
  BY <1>1, <1>2 DEF View
<1>5. ASSUME NEW n \in Files, NEW q \in Pages, n # f \/ q # p
      PROVE  Shown'[n][q] = Shown[n][q] /\ (<<n, q>> \in Pinned' <=> <<n, q>> \in Pinned)
  <2>1. \A i \in Open : pool.file[i] = n => <<i, q>> # <<fd, p>>
    BY <1>5
  <2>2. QED
    BY <2>1, ChangedPage
<1>6. /\ Shown' = [Shown EXCEPT ![f][p] = Shown'[f][p]]
      /\ Shown'[f][p] = Shown[f][p] => Shown' = Shown
  <2> DEFINE A == Shown
             B == Shown'
  <2>1. TwoArguments(A, Files, Pages) /\ TwoArguments(B, Files, Pages)
    BY <1>1 DEF ViewShaped
  <2>2. OneDiffers(A, B, Files, Pages, f, p)
    BY <1>5 DEF OneDiffers
  <2> HIDE DEF A, B
  <2>3. B = [A EXCEPT ![f][p] = B[f][p]] /\ (B[f][p] = A[f][p] => B = A)
    BY ONLY <1>3, p \in Pages, <2>1, <2>2, OnePlace
  <2>4. QED
    BY <2>3 DEF A, B
<1>7. DataOf(fd, p)' = DataOf(fd, p) => Shown' = Shown
  BY <1>3, <1>4, <1>6
<1>8. ASSUME NEW x, x # <<f, p>>
      PROVE  x \in Pinned' <=> x \in Pinned
  <2>1. CASE x \in Files \X Pages
    <3>1. PICK n \in Files, q \in Pages : x = <<n, q>>
      BY <2>1
    <3>2. QED
      BY <1>5, <1>8, <3>1
  <2>2. CASE x \notin Files \X Pages
    BY <1>1, <2>2 DEF ViewShaped
  <2>3. QED
    BY <2>1, <2>2
<1>9. QED
  BY <1>2, <1>3, <1>4, <1>6, <1>7, <1>8 DEF PageShown

\* A page that no caller sees changed, of a file whose header is the same, shows what
\* it showed.
LEMMA DataKept ==
  ASSUME NEW fd \in Open, NEW p \in Pages, ftab'[fd].hdr = ftab[fd].hdr,
         SameSeen(pool, pool', ValidKeys, <<fd, p>>)
  PROVE  /\ DataOf(fd, p)' = DataOf(fd, p)
         /\ Fixed(pool', <<fd, p>>) <=> Fixed(pool, <<fd, p>>)
<1>1. fd \in Fds /\ (<<fd, p>> \in ValidKeys <=> p < ftab[fd].hdr.numpages)
  BY DEF ValidKeys, ValidPages, Keys, Open
<1>2. QED
  BY <1>1 DEF SameSeen, DataOf, UsedData

-----------------------------------------------------------------------------
(* The calls of pf.c as steps of PagedFile. *)

\* What a call does to one live or free page of a file there is.
PageAction(f, p) ==
  \/ /\ Existing' = Existing /\ Shown[f][p] = Absent
     /\ \E d \in Data : Shown' = [Shown EXCEPT ![f][p] = d]
     /\ <<f, p>> \notin Pinned /\ Pinned' = Pinned \cup {<<f, p>>}
  \/ /\ Existing' = Existing /\ Shown[f][p] # Absent /\ Shown'[f][p] = Absent
     /\ Shown' = [Shown EXCEPT ![f][p] = Absent]
     /\ <<f, p>> \notin Pinned /\ Pinned' = Pinned
  \/ /\ UNCHANGED <<Existing, Shown>> /\ Shown[f][p] # Absent
     /\ <<f, p>> \notin Pinned /\ Pinned' = Pinned \cup {<<f, p>>}
  \/ /\ UNCHANGED <<Existing, Shown>>
     /\ <<f, p>> \in Pinned /\ Pinned' = Pinned \ {<<f, p>>}
  \/ /\ Existing' = Existing /\ <<f, p>> \in Pinned /\ Pinned' = Pinned
     /\ \E d \in Data : Shown' = [Shown EXCEPT ![f][p] = d]

\* What any step of pf.c does, in terms of Existing, Shown and Pinned.
FileStep ==
  \/ UNCHANGED <<Existing, Shown, Pinned>>
  \/ \E f \in Files :
       /\ f \notin Existing /\ Existing' = Existing \cup {f}
       /\ UNCHANGED <<Shown, Pinned>>
  \/ \E f \in Existing :
       /\ Existing' = Existing \ {f}
       /\ \A p \in Pages : <<f, p>> \notin Pinned
       /\ Shown' = [Shown EXCEPT ![f] = [p \in Pages |-> Absent]]
       /\ Pinned' = Pinned
  \/ \E f \in Existing, p \in Pages : PageAction(f, p)

\* What nobody sees is a stutter.
LEMMA UnseenStep ==
  ASSUME PFInv, PFInv', Unseen(pool, pool', ValidKeys), UNCHANGED <<ftab, dhdr>>
  PROVE  FileStep
<1>1. ASSUME NEW fd \in Open, NEW p \in Pages
      PROVE  /\ DataOf(fd, p)' = DataOf(fd, p)
             /\ Fixed(pool', <<fd, p>>) <=> Fixed(pool, <<fd, p>>)
  <2>1. <<fd, p>> \in Keys
    BY DEF Open, Keys
  <2>2. QED
    BY <2>1, DataKept DEF Unseen
<1>2. SameFiles(pool, pool')
  BY DEF Unseen
<1>3. QED
  BY <1>1, <1>2, NothingShown DEF FileStep

\* Only page k looks different: its data, whether it is fixed, or both.
LEMMA PageStep ==
  ASSUME PFInv, PFInv', SameFiles(pool, pool'), dhdr' = dhdr,
         NEW k \in Keys, k[1] \in Open,
         \A i \in Open : i # k[1] => ftab'[i].hdr = ftab[i].hdr,
         \A p \in Pages : p # k[2] =>
           (p < ftab'[k[1]].hdr.numpages <=> p < ftab[k[1]].hdr.numpages),
         \A j \in Keys \ {k} : SameSeen(pool, pool', ValidKeys, j)
  PROVE  PageShown(k[1], k[2])
<1> DEFINE fd == k[1]
           p == k[2]
<1>1. fd \in Fds /\ fd \in Open /\ p \in Pages /\ k = <<fd, p>>
  BY DEF Keys
<1>2. ASSUME NEW i \in Open, NEW q \in Pages, <<i, q>> # <<fd, p>>
      PROVE  /\ DataOf(i, q)' = DataOf(i, q)
             /\ Fixed(pool', <<i, q>>) <=> Fixed(pool, <<i, q>>)
  <2>1. <<i, q>> \in Keys \ {k} /\ SameSeen(pool, pool', ValidKeys, <<i, q>>)
    BY <1>1, <1>2 DEF Open, Keys
  <2>2. CASE i # fd
    BY <2>1, <2>2, DataKept
  <2>3. CASE i = fd
    <3>1. q < ftab'[i].hdr.numpages <=> q < ftab[i].hdr.numpages
      BY <1>2, <2>3
    <3>2. <<i, q>> \in ValidKeys <=> q < ftab[i].hdr.numpages
      BY <2>1 DEF ValidKeys, ValidPages
    <3>3. QED
      BY <2>1, <3>1, <3>2 DEF SameSeen, DataOf, UsedData
  <2>4. QED
    BY <2>2, <2>3
<1> HIDE DEF fd, p
<1>3. PageShown(fd, p)
  BY <1>1, <1>2, OnePageShown
<1>4. QED
  BY <1>3 DEF fd, p

LEMMA DataFitsNow == PFInv => DataFits
BY ViewNow DEF View
LEMMA DataFitsNext == PFInv' => DataFits'
BY DataFitsNow, PTL

\* Coming by a page is a pin, or nothing.
LEMMA GetUsedStep ==
  ASSUME PFInv, PFInv', NEW k \in ValidKeys, NEW o \in GetUsed(pool, k), pool' = o.s,
         UNCHANGED <<ftab, dhdr>>
  PROVE  FileStep
<1> DEFINE fd == k[1]
           p == k[2]
           x == <<pool.file[fd], p>>
<1>1. GotUsed(pool, o, ValidKeys, owed, k)
  BY GetUsedSeen DEF PFInv
<1>2. k \in Keys /\ fd \in Open /\ p \in Pages /\ k = <<fd, p>>
  BY DEF ValidKeys, Keys
<1>3. PageShown(fd, p)
  <2>1. /\ SameFiles(pool, pool')
        /\ \A j \in Keys \ {k} : SameSeen(pool, pool', ValidKeys, j)
    BY <1>1 DEF GotUsed
  <2>2. QED
    BY <1>2, <2>1, PageStep
<1>4. Content(pool', k) = Content(pool, k)
  BY <1>1 DEF GotUsed
<1>5. DataOf(fd, p)' = DataOf(fd, p)
  BY <1>2, <1>4 DEF DataOf
<1>6. Existing' = Existing /\ Shown' = Shown /\ pool.file[fd] \in Existing
  BY <1>3, <1>5 DEF PageShown
<1>7. CASE o.rc # "OK"
  <2>1. Fixed(pool', k) <=> Fixed(pool, k)
    BY <1>1, <1>7 DEF GotUsed
  <2>2. \A y : y \in Pinned' <=> y \in Pinned
    BY <1>2, <1>3, <2>1 DEF PageShown
  <2>3. Pinned' = Pinned
    BY <2>2
  <2>4. QED
    BY <1>6, <2>3 DEF FileStep
<1>8. CASE o.rc = "OK"
  <2>1. /\ ~ Fixed(pool, k) /\ Fixed(pool', k)
        /\ Content(pool, k).nextfree = USED
    BY <1>1, <1>8 DEF GotUsed
  <2>2. DataOf(fd, p) # Absent
    BY <1>2, <2>1, DataFitsNow, PFAssumption DEF DataFits, NextFreeOf
  <2>3. x \notin Pinned /\ x \in Pinned' /\ \A y : y # x => (y \in Pinned' <=> y \in Pinned)
    BY <1>2, <1>3, <2>1 DEF PageShown
  <2>4. Pinned' = Pinned \cup {x}
    BY <2>3
  <2>5. Shown[pool.file[fd]][p] # Absent
    BY <1>3, <2>2 DEF PageShown
  <2>6. QED
    BY <1>2, <1>6, <2>3, <2>4, <2>5 DEF FileStep, PageAction
<1>9. QED
  BY <1>7, <1>8

\* Which pages are pinned follows which are fixed.
LEMMA PinsFollow ==
  ASSUME NEW k \in Keys, PageShown(k[1], k[2])
  PROVE  LET x == <<pool.file[k[1]], k[2]>>
         IN  /\ x \in Pinned <=> Fixed(pool, k)
             /\ (Fixed(pool', k) <=> Fixed(pool, k)) => Pinned' = Pinned
             /\ Fixed(pool', k) => Pinned' = Pinned \cup {x}
             /\ ~ Fixed(pool', k) => Pinned' = Pinned \ {x}
<1> DEFINE x == <<pool.file[k[1]], k[2]>>
<1>1. /\ x \in Pinned <=> Fixed(pool, k)
      /\ x \in Pinned' <=> Fixed(pool', k)
      /\ \A y : y # x => (y \in Pinned' <=> y \in Pinned)
  <2>1. k = <<k[1], k[2]>>
    BY DEF Keys
  <2>2. QED
    BY <2>1 DEF PageShown
<1> HIDE DEF x
<1>2. (Fixed(pool', k) <=> Fixed(pool, k)) => Pinned' = Pinned
  <2>1. (Fixed(pool', k) <=> Fixed(pool, k)) => \A y : y \in Pinned' <=> y \in Pinned
    BY <1>1
  <2>2. QED
    BY <2>1
<1>3. Fixed(pool', k) => Pinned' = Pinned \cup {x}
  BY <1>1
<1>4. ~ Fixed(pool', k) => Pinned' = Pinned \ {x}
  BY <1>1
<1>5. QED
  BY <1>1, <1>2, <1>3, <1>4 DEF x

\* Unfixing lets go of a page that was pinned, and else of nothing.
LEMMA UnfixFileStep ==
  ASSUME PFInv, PFInv', NEW k \in Keys, NEW dirty \in BOOLEAN, PF_UnfixPage(k, dirty)
  PROVE  FileStep
<1> DEFINE fd == k[1]
           p == k[2]
           t == PFbufUnfix(pool, k, dirty).s
<1>1. /\ k \in ValidKeys /\ (k \in owed => dirty = TRUE)
      /\ UNCHANGED <<ftab, dhdr>> /\ pool' = UnfixOutcome(pool, k, dirty).s
  BY DEF PF_UnfixPage
<1>2. pool' = t
  BY <1>1 DEF UnfixOutcome, PFbufUnfix, Outcome
<1>3. /\ SameFiles(pool, t)
      /\ ~ Fixed(t, k) /\ Content(t, k) = Content(pool, k)
      /\ \A j \in Keys \ {k} : SameSeen(pool, t, ValidKeys, j)
  BY <1>1, UnfixSeen DEF PFInv
<1> HIDE DEF t
<1>4. fd \in Open /\ p \in Pages /\ k = <<fd, p>>
  BY <1>1 DEF ValidKeys, Keys
<1>5. PageShown(fd, p)
  BY <1>1, <1>2, <1>3, <1>4, PageStep
<1>6. DataOf(fd, p)' = DataOf(fd, p)
  BY <1>1, <1>2, <1>3, <1>4 DEF DataOf
<1>7. Existing' = Existing /\ Shown' = Shown /\ pool.file[fd] \in Existing
  BY <1>5, <1>6 DEF PageShown
<1>8. CASE ~ Fixed(pool, k)
  BY <1>2, <1>3, <1>5, <1>7, <1>8, PinsFollow DEF FileStep
<1>9. CASE Fixed(pool, k)
  <2>1. /\ <<pool.file[fd], p>> \in Pinned
        /\ Pinned' = Pinned \ {<<pool.file[fd], p>>}
    BY <1>2, <1>3, <1>5, <1>9, PinsFollow
  <2>2. QED
    BY <1>4, <1>7, <2>1 DEF FileStep, PageAction
<1>10. QED
  BY <1>8, <1>9

\* A holder writes a pinned page.
LEMMA WriteFileStep ==
  ASSUME PFInv, PFInv', NEW k \in Keys, NEW data \in Data, WritePage(k, data)
  PROVE  FileStep
<1> DEFINE fd == k[1]
           p == k[2]
           c == [Content(pool, k) EXCEPT !.data = data]
           t == [pool EXCEPT !.frame[pool.hash[k]].fpage = c]
<1>1. /\ Fixed(pool, k) /\ UNCHANGED <<ftab, dhdr>>
      /\ pool' = [pool EXCEPT !.frame[pool.hash[k]].fpage.data = data]
  BY DEF WritePage, Held
<1>2. /\ Sound(pool) /\ Faithful(pool, ValidKeys, owed) /\ k \in ValidKeys
      /\ Content(pool, k).nextfree = USED /\ Content(pool, k) \in FPage
  BY <1>1, PageFacts DEF PFInv
<1>3. /\ Resident(pool, k) /\ pool.hash[k] \in Frames /\ pool \in Pool
      /\ Content(pool, k) = pool.frame[pool.hash[k]].fpage
  BY <1>1, <1>2, ResidentFrame DEF Fixed, Sound, Content
<1>4. c \in FPage /\ c.nextfree = USED /\ c.data = data
  BY <1>2 DEF FPage
<1>5. pool' = t
  BY <1>1, <1>3 DEF Pool
<1> HIDE DEF c
<1>6. /\ Faithful(t, ValidKeys, owed \cup {k}) /\ SameFiles(pool, t)
      /\ Fixed(t, k) /\ Content(t, k) = c
      /\ \A j \in Keys \ {k} : SameSeen(pool, t, ValidKeys, j)
  <2>1. Fixed(pool, k) /\ Sound(pool) /\ Faithful(pool, ValidKeys, owed) /\ c \in FPage
    BY <1>1, <1>2, <1>4
  <2>2. QED
    BY ONLY k \in Keys, <2>1, WriteSeen
<1> HIDE DEF t
<1>7. fd \in Open /\ p \in Pages /\ k = <<fd, p>> /\ p < ftab[fd].hdr.numpages
  BY <1>2 DEF ValidKeys, ValidPages, Keys
<1>8. PageShown(fd, p)
  BY <1>1, <1>5, <1>6, <1>7, PageStep
<1>9. DataOf(fd, p)' = data
  BY <1>1, <1>4, <1>5, <1>6, <1>7 DEF DataOf, UsedData
<1>10. /\ pool.file[fd] \in Existing /\ Existing' = Existing
       /\ Shown' = [Shown EXCEPT ![pool.file[fd]][p] = data]
  BY <1>8, <1>9 DEF PageShown
<1>11. <<pool.file[fd], p>> \in Pinned /\ Pinned' = Pinned
  BY <1>1, <1>5, <1>6, <1>8, PinsFollow
<1>12. QED
  BY <1>7, <1>10, <1>11 DEF FileStep, PageAction

\* Allocating makes a page live that was not, pinned; failing to shows nothing.
LEMMA AllocFileStep ==
  ASSUME PFInv, PFInv', NEW fd \in Fds, PF_AllocPage(fd)
  PROVE  FileStep
<1>1. PICK o : AllocStep(fd, o)
  BY AllocPageStep
<1>2. fd \in Open /\ pool' = o.s /\ dhdr' = dhdr /\ Allocated(fd, o)
  BY <1>1 DEF AllocStep
<1>3. CASE o.rc # "OK"
  <2>1. ftab' = ftab /\ Unseen(pool, pool', ValidKeys)
    BY <1>1, <1>2, <1>3 DEF AllocStep, Allocated
  <2>2. QED
    BY <1>2, <2>1, UnseenStep
<1>4. CASE o.rc = "OK"
  <2> DEFINE k == o.key
             p == k[2]
  <2>1. /\ SameFiles(pool, pool')
        /\ \A j \in Keys \ {k} : SameSeen(pool, pool', ValidKeys, j)
        /\ k \in Keys /\ k[1] = fd /\ ~ Fixed(pool, k) /\ Fixed(pool', k)
        /\ k \in ValidKeys => NextFreeOf(pool, k) # USED
        /\ NextFreeOf(pool', k) = USED
        /\ \A q \in Pages : q < o.hdr.numpages <=> q < ftab[fd].hdr.numpages \/ q = k[2]
    BY <1>2, <1>4 DEF Allocated
  <2>2. ftab'[fd].hdr = o.hdr /\ \A i \in Fds \ {fd} : ftab'[i] = ftab[i]
    BY <1>1, <1>4 DEF AllocStep
  <2>3. p \in Pages /\ k = <<fd, p>>
    BY <2>1 DEF Keys
  <2> HIDE DEF k
  <2>4. PageShown(k[1], k[2])
    <3>1. \A i \in Open : i # k[1] => ftab'[i].hdr = ftab[i].hdr
      BY <2>1, <2>2 DEF Open
    <3>2. \A q \in Pages : q # k[2] =>
            (q < ftab'[k[1]].hdr.numpages <=> q < ftab[k[1]].hdr.numpages)
      BY <2>1, <2>2
    <3>3. k[1] \in Open
      BY <1>2, <2>1
    <3>4. QED
      BY ONLY PFInv, PFInv', <1>2, <2>1, <3>1, <3>2, <3>3, PageStep
  <2>5. DataOf(fd, p) = Absent
    BY <1>2, <2>1, <2>3, DataFitsNow DEF DataFits
  <2>6. DataOf(fd, p)' \in Data
    <3>1. Open' = Open
      BY <2>1 DEF SameFiles, Open
    <3>2. k \in ValidKeys'
      BY <1>2, <2>1, <2>2, <2>3, <3>1 DEF ValidKeys, ValidPages
    <3>3. QED
      BY <1>2, <2>1, <2>3, <3>1, <3>2, DataFitsNext DEF DataFits
  <2>7. /\ pool.file[fd] \in Existing /\ Existing' = Existing
        /\ Shown[pool.file[fd]][p] = Absent
        /\ Shown' = [Shown EXCEPT ![pool.file[fd]][p] = DataOf(fd, p)']
    BY <2>1, <2>4, <2>5 DEF PageShown
  <2>8. /\ <<pool.file[fd], p>> \notin Pinned
        /\ Pinned' = Pinned \cup {<<pool.file[fd], p>>}
    BY <2>1, <2>4, PinsFollow
  <2>9. QED
    BY <2>3, <2>6, <2>7, <2>8 DEF FileStep, PageAction
<1>5. QED
  BY <1>3, <1>4

\* Disposing of a page makes it not live, when it is used and nobody has it pinned.
LEMMA DisposeFileStep ==
  ASSUME PFInv, PFInv', NEW k \in Keys, PF_DisposePage(k)
  PROVE  FileStep
<1> DEFINE fd == k[1]
           p == k[2]
           hdr == ftab[fd].hdr
<1>1. k \in ValidKeys /\ dhdr' = dhdr
  BY DEF PF_DisposePage
<1>2. CASE UNCHANGED ftab /\ \E o \in GetUsed(pool, k) : pool' = o.s
  BY <1>1, <1>2, GetUsedStep
<1>3. CASE DisposedPage(k)
  <2>1. /\ SameFiles(pool, pool') /\ ~ Fixed(pool, k) /\ ~ Fixed(pool', k)
        /\ NextFreeOf(pool, k) = USED /\ NextFreeOf(pool', k) = hdr.firstfree
        /\ \A j \in Keys \ {k} : SameSeen(pool, pool', ValidKeys, j)
        /\ ftab'[fd].hdr.numpages = hdr.numpages
        /\ \A i \in Fds \ {fd} : ftab'[i] = ftab[i]
    BY <1>3 DEF DisposedPage
  <2>2. fd \in Open /\ p \in Pages /\ k = <<fd, p>>
    BY <1>1 DEF ValidKeys, Keys
  <2>3. hdr.firstfree # USED
    <3>1. FreeList(hdr.firstfree, hdr.numpages, NextFrees(pool, fd)) /\ hdr.numpages \in Nat
      BY <2>2 DEF PFInv, OpenGood, FileGood, PFTypes, FtabEntry, Hdr, Open
    <3> HIDE DEF hdr
    <3>2. hdr.firstfree = LIST_END \/ hdr.firstfree \in Pages
      BY <3>1, HeadIsFree
    <3>3. QED
      BY <3>2, PoolAssumption DEF LIST_END, USED
  <2>4. PageShown(fd, p)
    <3>1. /\ \A i \in Open : i # k[1] => ftab'[i].hdr = ftab[i].hdr
          /\ \A q \in Pages : q # k[2] =>
               (q < ftab'[k[1]].hdr.numpages <=> q < ftab[k[1]].hdr.numpages)
      BY <2>1 DEF Open
    <3>2. QED
      BY <1>1, <2>1, <2>2, <3>1, PageStep
  <2>5. DataOf(fd, p) # Absent
    BY <1>1, <2>1, <2>2, DataFitsNow, PFAssumption DEF DataFits
  <2>6. DataOf(fd, p)' = Absent
    <3>1. fd \in Open'
      BY <2>1, <2>2 DEF SameFiles, Open
    <3>2. QED
      BY <2>1, <2>2, <2>3, <3>1, DataFitsNext DEF DataFits
  <2>7. /\ pool.file[fd] \in Existing /\ Existing' = Existing
        /\ Shown[pool.file[fd]][p] # Absent
        /\ Shown' = [Shown EXCEPT ![pool.file[fd]][p] = Absent]
    BY <2>4, <2>5, <2>6 DEF PageShown
  <2>8. <<pool.file[fd], p>> \notin Pinned /\ Pinned' = Pinned
    BY <2>1, <2>4, PinsFollow
  <2>9. Shown'[pool.file[fd]][p] = Absent
    <3>1. pool.file[fd] \in Files /\ TwoArguments(Shown, Files, Pages)
      BY <2>4, ViewShapeNow DEF PageShown, ViewShaped
    <3>2. QED
      BY <2>2, <2>7, <3>1 DEF TwoArguments
  <2>10. QED
    BY <2>2, <2>7, <2>8, <2>9 DEF FileStep, PageAction
<1>4. QED
  BY <1>2, <1>3, DisposeStep

\* A round of PF_GetNextPage comes by a page, passes one or ends.
LEMMA NextFileStep ==
  ASSUME PFInv, PFInv', NextStep
  PROVE  FileStep
<1>1. call.op = "Next" /\ UNCHANGED <<ftab, dhdr>>
  BY DEF NextStep
<1>2. call.fd \in Open /\ call.fd \in Fds /\ call.at \in Nat
  <2>1. call \in [op : {"Next"}, fd : Fds, from : Pages \cup {-1}, at : Nat]
    BY <1>1 DEF PFInv, PFTypes, NoCall
  <2>2. QED
    BY <1>1, <2>1 DEF PFInv, CallGood
<1>3. CASE ~ (call.at < ftab[call.fd].hdr.numpages)
  <2>1. pool' = pool
    BY <1>3 DEF NextStep
  <2>2. Unseen(pool, pool', ValidKeys)
    BY <2>1 DEF Unseen, SameSeen, SameFiles
  <2>3. QED
    BY <1>1, <2>2, UnseenStep
<1>4. CASE call.at < ftab[call.fd].hdr.numpages
  <2>1. PICK o \in GetUsed(pool, <<call.fd, call.at>>) : pool' = o.s
    BY <1>4 DEF NextStep
  <2>2. <<call.fd, call.at>> \in ValidKeys
    BY <1>2, <1>4 DEF PFInv, OpenGood, FileGood, ValidKeys, ValidPages, Keys
  <2>3. QED
    BY <1>1, <2>1, <2>2, GetUsedStep
<1>5. QED
  BY <1>3, <1>4

\* The strategy, and the start of a loop, are nothing to a file.
LEMMA StrategyFileStep ==
  ASSUME PFInv, PFInv', NEW strategy \in Strategies, PF_SetStrategy(strategy)
  PROVE  FileStep
<1>1. /\ UNCHANGED <<ftab, dhdr>>
      /\ pool' = PFbufSetStrategy(pool, strategy) /\ pool \in Pool
  BY DEF PF_SetStrategy, PFInv, Sound
<1>2. /\ pool'.hash = pool.hash /\ pool'.frame = pool.frame
      /\ pool'.disk = pool.disk /\ pool'.file = pool.file
  BY <1>1 DEF PFbufSetStrategy, Pool
<1>3. Unseen(pool, pool', ValidKeys)
  BY <1>2, SameDisk DEF Unseen, SameSeen, Fixed, Resident, Content, Place
<1>4. QED
  BY <1>1, <1>3, UnseenStep

-----------------------------------------------------------------------------
(* The calls on files as steps of PagedFile. *)

\* Two views that agree on every page of some files agree on those files.
AgreeOn(A, B, S, P) == \A n \in S, q \in P : B[n][q] = A[n][q]
LEMMA FilesAgree ==
  ASSUME NEW I, NEW P, NEW A, NEW B, NEW S, S \subseteq I,
         TwoArguments(A, I, P), TwoArguments(B, I, P), AgreeOn(A, B, S, P)
  PROVE  \A n \in S : B[n] = A[n]
<1>1. \A n \in S : [q \in P |-> B[n][q]] = [q \in P |-> A[n][q]]
  BY DEF AgreeOn
<1>2. QED
  BY <1>1 DEF TwoArguments
LEMMA ShownSame ==
  ASSUME PFInv, PFInv', \A n \in Files, q \in Pages : Shown'[n][q] = Shown[n][q]
  PROVE  Shown' = Shown
<1> DEFINE A == Shown
           B == Shown'
<1>1. TwoArguments(A, Files, Pages) /\ TwoArguments(B, Files, Pages)
  BY ViewShapeNow, ViewShapeNext DEF ViewShaped
<1>2. AgreeOn(A, B, Files, Pages) /\ Files \subseteq Files
  BY DEF AgreeOn
<1> HIDE DEF A, B
<1>3. \A n \in Files : B[n] = A[n]
  BY ONLY <1>1, <1>2, FilesAgree
<1>4. [n \in Files |-> B[n]] = [n \in Files |-> A[n]]
  BY <1>3
<1>5. B = A
  BY <1>1, <1>4 DEF TwoArguments
<1>6. QED
  BY <1>5 DEF A, B

\* A file open before and after, with the same header and contents, shows the same.
LEMMA StillOpenShows ==
  ASSUME PFInv, PFInv', NEW fd \in Open, fd \in Open', NEW q \in Pages,
         pool'.file[fd] = pool.file[fd], ftab'[fd].hdr = ftab[fd].hdr,
         Content(pool', <<fd, q>>) = Content(pool, <<fd, q>>)
  PROVE  Shown'[pool.file[fd]][q] = Shown[pool.file[fd]][q]
<1>1. View /\ View'
  BY ViewNow, ViewNext
<1>2. DataOf(fd, q)' = DataOf(fd, q)
  BY DEF DataOf
<1>3. QED
  BY <1>1, <1>2 DEF View
\* A file closed before and after, the same in its header and pages, shows the same.
LEMMA StillClosedShows ==
  ASSUME PFInv, PFInv', NEW n \in Files, ~ IsOpen(n), ~ IsOpen(n)', NEW q \in Pages,
         dhdr'[n] = dhdr[n], pool'.disk[<<n, q>>] = pool.disk[<<n, q>>]
  PROVE  Shown'[n][q] = Shown[n][q]
<1>1. View /\ View'
  BY ViewNow, ViewNext
<1>2. QED
  BY <1>1 DEF View

LEMMA CreateFileStep ==
  ASSUME PFInv, PFInv', NEW name \in Files, PF_CreateFile(name)
  PROVE  FileStep
<1>1. /\ dhdr[name] = Absent /\ dhdr' = [dhdr EXCEPT ![name] = EmptyHdr]
      /\ UNCHANGED <<pool, ftab>>
  BY DEF PF_CreateFile
<1>2. dhdr \in [Files -> Hdr \cup {Absent}] /\ EmptyHdr # Absent
  <2>1. EmptyHdr \in Hdr
    BY DEF EmptyHdr, Hdr, NextFree, LIST_END
  <2>2. QED
    BY <2>1, PFAssumption DEF PFInv, PFTypes
<1>3. name \notin Existing /\ Existing' = Existing \cup {name}
  BY <1>1, <1>2 DEF Existing
<1>4. /\ Pinned' = Pinned /\ Open' = Open
      /\ \A n : IsOpen(n)' <=> IsOpen(n)
  BY <1>1 DEF Pinned, Held, Open, IsOpen
<1>5. View /\ View'
  BY ViewNow, ViewNext
<1>6. ASSUME NEW n \in Files, NEW q \in Pages
      PROVE  Shown'[n][q] = Shown[n][q]
  <2>1. CASE IsOpen(n)
    <3>1. PICK fd \in Fds : pool.file[fd] = n
      BY <2>1 DEF IsOpen
    <3>2. fd \in Open
      BY <3>1, PFAssumption DEF Open
    <3>3. QED
      BY <1>1, <1>4, <3>1, <3>2, StillOpenShows
  <2>2. CASE ~ IsOpen(n) /\ n # name
    BY <1>1, <1>2, <1>4, <2>2, StillClosedShows
  <2>3. CASE ~ IsOpen(n) /\ n = name
    <3>1. Shown[n][q] = Absent
      BY <1>1, <1>5, <2>3 DEF View
    <3>2. dhdr'[n] = EmptyHdr
      BY <1>1, <1>2, <2>3
    <3>3. Shown'[n][q] = UsedData(EmptyHdr, q, pool'.disk[<<n, q>>])
      BY <1>2, <1>4, <1>5, <2>3, <3>2 DEF View
    <3>4. QED
      BY <3>1, <3>3, PoolAssumption DEF UsedData, EmptyHdr
  <2>4. QED
    BY <2>1, <2>2, <2>3
<1>7. Shown' = Shown
  BY <1>6, ShownSame
<1>8. QED
  BY <1>3, <1>4, <1>7 DEF FileStep

LEMMA DestroyFileStep ==
  ASSUME PFInv, PFInv', NEW name \in Files, PF_DestroyFile(name)
  PROVE  FileStep
<1> DEFINE disk == [q \in DOMAIN pool.disk |->
                      IF q[1] = name THEN Absent ELSE pool.disk[q]]
<1>1. /\ ~ IsOpen(name) /\ dhdr[name] # Absent
      /\ dhdr' = [dhdr EXCEPT ![name] = Absent]
      /\ pool' = [pool EXCEPT !.disk = disk] /\ ftab' = ftab
  BY DEF PF_DestroyFile
<1>2. /\ pool \in Pool /\ dhdr \in [Files -> Hdr \cup {Absent}]
      /\ pool.disk \in [Files \X Pages -> FPage \cup {Absent}]
  BY DEF PFInv, PFTypes, Sound, Pool
<1>3. \A n \in Files, p \in Pages : n # name => disk[<<n, p>>] = pool.disk[<<n, p>>]
  BY <1>2
<1> HIDE DEF disk
<1>4. /\ pool'.frame = pool.frame /\ pool'.hash = pool.hash
      /\ pool'.file = pool.file /\ pool'.disk = disk
  BY <1>1, <1>2 DEF Pool
<1>5. name \in Existing /\ Existing' = Existing \ {name}
  BY <1>1, <1>2 DEF Existing
<1>6. /\ Pinned' = Pinned /\ Open' = Open
      /\ \A n : IsOpen(n)' <=> IsOpen(n)
  <2>1. Held' = Held
    BY <1>4 DEF Held, Fixed, Resident
  <2>2. QED
    BY <1>4, <2>1 DEF Pinned, Open, IsOpen
<1>7. View /\ View'
  BY ViewNow, ViewNext
<1>8. ASSUME NEW n \in Files \ {name}, NEW q \in Pages
      PROVE  Shown'[n][q] = Shown[n][q]
  <2>1. CASE IsOpen(n)
    <3>1. PICK fd \in Fds : pool.file[fd] = n
      BY <2>1 DEF IsOpen
    <3>2. fd \in Open
      BY <3>1, PFAssumption DEF Open
    <3>3. Content(pool', <<fd, q>>) = Content(pool, <<fd, q>>)
      BY <1>3, <1>4, <3>1 DEF Content, Place, Resident
    <3>4. QED
      BY <1>1, <1>4, <1>6, <3>1, <3>2, <3>3, StillOpenShows
  <2>2. CASE ~ IsOpen(n)
    BY <1>1, <1>2, <1>3, <1>4, <1>6, <2>2, StillClosedShows
  <2>3. QED
    BY <2>1, <2>2
<1>9. ASSUME NEW q \in Pages
      PROVE  Shown'[name][q] = Absent
  <2>1. dhdr'[name] = Absent /\ ~ IsOpen(name)'
    BY <1>1, <1>2, <1>6
  <2>2. QED
    BY <1>7, <2>1 DEF View
<1>10. Shown' = [Shown EXCEPT ![name] = [p \in Pages |-> Absent]]
  <2> DEFINE A == Shown
             B == Shown'
  <2>1. TwoArguments(A, Files, Pages) /\ TwoArguments(B, Files, Pages)
    BY ViewShapeNow, ViewShapeNext DEF ViewShaped
  <2>2. AgreeOn(A, B, Files \ {name}, Pages) /\ \A q \in Pages : B[name][q] = Absent
    BY <1>8, <1>9 DEF AgreeOn
  <2> HIDE DEF A, B
  <2>3. \A n \in Files \ {name} : B[n] = A[n]
    <3>1. Files \ {name} \subseteq Files
      OBVIOUS
    <3>2. QED
      BY ONLY <2>1, <2>2, <3>1, FilesAgree
  <2>4. B[name] = [p \in Pages |-> Absent]
    <3>1. [q \in Pages |-> B[name][q]] = [q \in Pages |-> Absent]
      BY <2>2
    <3>2. QED
      BY <2>1, <3>1 DEF TwoArguments
  <2>5. B = [A EXCEPT ![name] = [p \in Pages |-> Absent]]
    BY <2>1, <2>3, <2>4 DEF TwoArguments
  <2>6. QED
    BY <2>5 DEF A, B
<1>11. \A p \in Pages : <<name, p>> \notin Pinned
  BY <1>1, <1>7 DEF View, Open, IsOpen
<1>12. QED
  BY <1>5, <1>6, <1>10, <1>11 DEF FileStep

\* Opening a closed file shows what the file says: nobody sees a difference.
LEMMA OpenFileStep ==
  ASSUME PFInv, PFInv', NEW name \in Files, ~ IsOpen(name), PF_OpenFile(name)
  PROVE  FileStep
<1>0. PICK fd \in Fds : fd = Min(Fds \ Open)
  <2>1. Fds \ Open \in SUBSET Nat /\ Fds \ Open # {}
    BY PoolAssumption DEF PF_OpenFile
  <2>2. QED
    BY <2>1, LeastExists
<1> DEFINE hdr == dhdr[name]
           file == [pool.file EXCEPT ![fd] = name]
<1>1. /\ hdr # Absent /\ ~ IsOpen(name) /\ Fds \ Open # {} /\ dhdr' = dhdr
      /\ ftab' = [ftab EXCEPT ![fd] = [hdr |-> hdr, hdrchanged |-> FALSE]]
      /\ pool' = [pool EXCEPT !.file[fd] = name]
  BY <1>0 DEF PF_OpenFile
<1>2. fd \in Fds /\ fd \notin Open
  <2>1. Fds \ Open \in SUBSET Nat
    BY PoolAssumption
  <2>2. fd \in Fds \ Open
    BY <1>0, <1>1, <2>1, LeastExists
  <2>3. QED
    BY <2>2
<1>3. pool \in Pool /\ ftab \in [Fds -> FtabEntry] /\ pool.file \in [Fds -> Files \cup {NULL}]
  BY DEF PFInv, PFTypes, Sound, Pool
<1>4. /\ pool'.frame = pool.frame /\ pool'.hash = pool.hash
      /\ pool'.disk = pool.disk /\ pool'.file = file
  BY <1>1, <1>3 DEF Pool
<1>5. /\ file[fd] = name /\ \A i \in Fds \ {fd} : file[i] = pool.file[i]
      /\ pool.file[fd] = NULL
      /\ ftab'[fd].hdr = hdr /\ \A i \in Fds \ {fd} : ftab'[i] = ftab[i]
  BY <1>1, <1>2, <1>3 DEF Open
<1> HIDE DEF file
<1>6. Open' = Open \cup {fd}
  BY <1>2, <1>3, <1>4, <1>5, PFAssumption DEF Open
<1>7. View /\ View'
  BY ViewNow, ViewNext
<1>8. ASSUME NEW n \in Files, NEW q \in Pages
      PROVE  Shown'[n][q] = Shown[n][q]
  <2>1. CASE IsOpen(n)
    <3>1. PICK i \in Fds : pool.file[i] = n
      BY <2>1 DEF IsOpen
    <3>2. i \in Open /\ i # fd /\ i \in Open'
      BY <1>2, <1>6, <3>1, PFAssumption DEF Open
    <3>3. pool'.file[i] = pool.file[i]
      BY <1>4, <1>5, <3>1, <3>2
    <3>4. Content(pool', <<i, q>>) = Content(pool, <<i, q>>)
      BY <1>4, <3>3 DEF Content, Place, Resident
    <3>5. QED
      BY <1>5, <3>1, <3>2, <3>3, <3>4, StillOpenShows
  <2>2. CASE ~ IsOpen(n) /\ n # name
    <3>1. ~ IsOpen(n)'
      BY <1>4, <1>5, <2>2 DEF IsOpen
    <3>2. QED
      BY <1>1, <1>4, <2>2, <3>1, StillClosedShows
  <2>3. CASE n = name
    <3>1. Shown[n][q] = UsedData(hdr, q, pool.disk[<<name, q>>])
      BY <1>1, <1>7, <2>3 DEF View
    <3>2. fd \in Open' /\ pool'.file[fd] = n
      BY <1>4, <1>5, <1>6, <2>3
    <3>3. Shown'[n][q] = DataOf(fd, q)'
      BY <1>7, <3>2 DEF View
    <3>4. Content(pool', <<fd, q>>) = pool.disk[<<name, q>>]
      <4>1. <<fd, q>> \in Keys /\ <<fd, q>>[1] = fd
        BY <1>2 DEF Keys
      <4>2. ~ Resident(pool, <<fd, q>>)
        BY <1>2, <4>1, PageFacts
      <4>3. QED
        BY <1>4, <1>5, <4>2 DEF Content, Place, Resident
    <3>5. DataOf(fd, q)' = UsedData(hdr, q, pool.disk[<<name, q>>])
      BY <1>5, <3>4 DEF DataOf, UsedData
    <3>6. QED
      BY <3>1, <3>3, <3>5
  <2>4. QED
    BY <2>1, <2>2, <2>3
<1>9. Shown' = Shown
  BY <1>8, ShownSame
<1>10. Pinned' = Pinned
  <2>1. Held' = Held
    BY <1>4 DEF Held, Fixed, Resident
  <2>2. \A k \in Held : pool'.file[k[1]] = pool.file[k[1]]
    <3>1. \A k \in Held : k[1] \in Open /\ k[1] \in Fds
      BY PageFacts DEF Held, Open
    <3>2. QED
      BY <1>2, <1>4, <1>5, <3>1
  <2>3. QED
    BY <2>1, <2>2 DEF Pinned
<1>11. QED
  BY <1>1, <1>9, <1>10 DEF FileStep, Existing

\* Nor does closing one: what it showed is in the file.
LEMMA CloseDoneStep ==
  ASSUME PFInv, PFInv', NEW fd \in Open,
         \A k \in Keys : k[1] = fd => ~ Resident(pool, k),
         dhdr' = IF ftab[fd].hdrchanged
                 THEN [dhdr EXCEPT ![pool.file[fd]] = ftab[fd].hdr] ELSE dhdr,
         ftab' = [ftab EXCEPT ![fd] = ClosedEntry],
         pool' = [pool EXCEPT !.file[fd] = NULL]
  PROVE  FileStep
<1> DEFINE name == pool.file[fd]
           hdr == ftab[fd].hdr
           file == [pool.file EXCEPT ![fd] = NULL]
<1>1. /\ name \in Files /\ fd \in Fds /\ hdr \in Hdr /\ dhdr[name] \in Hdr
      /\ dhdr \in [Files -> Hdr \cup {Absent}] /\ ftab \in [Fds -> FtabEntry]
      /\ pool \in Pool /\ pool.file \in [Fds -> Files \cup {NULL}]
      /\ Distinct(pool)
  BY DEF PFInv, OpenGood, PFTypes, Sound, Pool, Open, FtabEntry, Faithful
<1>2. /\ dhdr'[name] = hdr /\ \A n \in Files : n # name => dhdr'[n] = dhdr[n]
  <2>1. ~ ftab[fd].hdrchanged => dhdr[name] = hdr
    BY DEF PFInv, OpenGood
  <2> HIDE DEF name, hdr
  <2>2. dhdr' = IF ftab[fd].hdrchanged THEN [dhdr EXCEPT ![name] = hdr] ELSE dhdr
    BY DEF name, hdr
  <2>3. QED
    BY <1>1, <2>1, <2>2
<1>3. /\ pool'.frame = pool.frame /\ pool'.hash = pool.hash
      /\ pool'.disk = pool.disk /\ pool'.file = file
  BY <1>1 DEF Pool
<1>4. /\ file[fd] = NULL /\ \A i \in Fds \ {fd} : file[i] = pool.file[i]
      /\ \A i \in Fds \ {fd} : ftab'[i] = ftab[i]
  BY <1>1
<1> HIDE DEF file
<1>5. Open' = Open \ {fd}
  BY <1>3, <1>4 DEF Open
<1>6. View /\ View'
  BY ViewNow, ViewNext
<1>7. Existing' = Existing
  <2>1. \A n \in Files : dhdr'[n] # Absent <=> dhdr[n] # Absent
    BY <1>1, <1>2, PFAssumption
  <2>2. QED
    BY <2>1 DEF Existing
<1>8. ASSUME NEW n \in Files, NEW q \in Pages
      PROVE  Shown'[n][q] = Shown[n][q]
  <2>1. CASE IsOpen(n) /\ n # name
    <3>1. PICK i \in Fds : pool.file[i] = n
      BY <2>1 DEF IsOpen
    <3>2. i \in Open /\ i # fd /\ i \in Open'
      BY <1>5, <2>1, <3>1, PFAssumption DEF Open
    <3>3. pool'.file[i] = pool.file[i]
      BY <1>3, <1>4, <3>1, <3>2
    <3>4. Content(pool', <<i, q>>) = Content(pool, <<i, q>>)
      BY <1>3, <3>3 DEF Content, Place, Resident
    <3>5. QED
      BY <1>4, <3>1, <3>2, <3>3, <3>4, StillOpenShows
  <2>2. CASE ~ IsOpen(n)
    <3>1. ~ IsOpen(n)'
      BY <1>1, <1>3, <1>4, <2>2, PFAssumption DEF IsOpen
    <3>2. n # name
      BY <1>1, <2>2 DEF IsOpen
    <3>3. QED
      BY <1>2, <1>3, <2>2, <3>1, <3>2, StillClosedShows
  <2>3. CASE n = name
    <3>1. ~ IsOpen(n)' /\ dhdr'[n] # Absent
      BY <1>1, <1>2, <1>3, <1>4, <2>3, PFAssumption DEF IsOpen, Distinct
    <3>2. Shown'[n][q] = UsedData(hdr, q, pool.disk[<<n, q>>])
      BY <1>2, <1>3, <1>6, <2>3, <3>1 DEF View
    <3>3. Shown[n][q] = DataOf(fd, q)
      BY <1>6, <2>3 DEF View
    <3>4. Content(pool, <<fd, q>>) = pool.disk[<<n, q>>]
      <4>1. <<fd, q>> \in Keys /\ <<fd, q>>[1] = fd
        BY <1>1 DEF Keys
      <4>2. QED
        BY <2>3, <4>1 DEF Content, Place
    <3>5. QED
      BY <3>2, <3>3, <3>4 DEF DataOf
  <2>4. QED
    BY <2>1, <2>2, <2>3
<1>9. Shown' = Shown
  BY <1>8, ShownSame
<1>10. Pinned' = Pinned
  <2>1. Held' = Held
    BY <1>3 DEF Held, Fixed, Resident
  <2>2. \A k \in Held : pool'.file[k[1]] = pool.file[k[1]]
    <3>1. \A k \in Held : k[1] # fd /\ k[1] \in Fds
      BY DEF Held, Fixed, Keys
    <3>2. QED
      BY <1>3, <1>4, <3>1
  <2>3. QED
    BY <2>1, <2>2 DEF Pinned
<1>11. QED
  BY <1>7, <1>9, <1>10 DEF FileStep

\* Nor does failing to: the header that counts is the one in memory.
LEMMA CloseFailedStep ==
  ASSUME PFInv, PFInv', NEW fd \in Open, UNCHANGED <<pool, ftab>>,
         \/ dhdr' = dhdr
         \/ dhdr' = [dhdr EXCEPT ![pool.file[fd]].firstfree = ftab[fd].hdr.firstfree]
  PROVE  FileStep
<1> DEFINE name == pool.file[fd]
<1>1. /\ name \in Files /\ dhdr[name] \in Hdr /\ dhdr \in [Files -> Hdr \cup {Absent}]
      /\ fd \in Fds
  BY DEF PFInv, OpenGood, PFTypes, Sound, Pool, Open
<1>2. /\ \A n \in Files : n # name => dhdr'[n] = dhdr[n]
      /\ dhdr'[name] # Absent
  <2>1. name = pool.file[fd] /\ pool'.file[fd] = pool.file[fd] /\ fd \in Open'
    BY DEF Open
  <2>2. dhdr'[name] # Absent
    BY <2>1 DEF PFInv, OpenGood
  <2> HIDE DEF name
  <2>3. \A n \in Files : n # name => dhdr'[n] = dhdr[n]
    BY <1>1, <2>1
  <2>4. QED
    BY <2>2, <2>3
<1>3. /\ Pinned' = Pinned /\ Open' = Open
      /\ \A n : IsOpen(n)' <=> IsOpen(n)
  BY DEF Pinned, Held, Open, IsOpen
<1>4. Existing' = Existing
  BY <1>1, <1>2, PFAssumption DEF Existing
<1>5. ASSUME NEW n \in Files, NEW q \in Pages
      PROVE  Shown'[n][q] = Shown[n][q]
  <2>1. CASE IsOpen(n)
    <3>1. PICK i \in Fds : pool.file[i] = n
      BY <2>1 DEF IsOpen
    <3>2. i \in Open
      BY <3>1, PFAssumption DEF Open
    <3>3. QED
      BY <1>3, <3>1, <3>2, StillOpenShows
  <2>2. CASE ~ IsOpen(n)
    <3>1. n # name
      BY <1>1, <2>2 DEF IsOpen
    <3>2. QED
      BY <1>2, <1>3, <2>2, <3>1, StillClosedShows
  <2>3. QED
    BY <2>1, <2>2
<1>6. Shown' = Shown
  BY <1>5, ShownSame
<1>7. QED
  BY <1>3, <1>4, <1>6 DEF FileStep

\* Nor does a close that fails after the header was written.
LEMMA CloseRefusedStep ==
  ASSUME PFInv, PFInv', NEW fd \in Open, UNCHANGED pool,
         dhdr' = IF ftab[fd].hdrchanged
                 THEN [dhdr EXCEPT ![pool.file[fd]] = ftab[fd].hdr] ELSE dhdr,
         ftab' = [ftab EXCEPT ![fd].hdrchanged = FALSE]
  PROVE  FileStep
<1> DEFINE name == pool.file[fd]
<1>1. /\ name \in Files /\ dhdr[name] \in Hdr /\ dhdr \in [Files -> Hdr \cup {Absent}]
      /\ fd \in Fds /\ ftab \in [Fds -> FtabEntry]
  BY DEF PFInv, OpenGood, PFTypes, Sound, Pool, Open
<1>2. /\ \A n \in Files : n # name => dhdr'[n] = dhdr[n]
      /\ dhdr'[name] # Absent
      /\ \A i \in Fds : ftab'[i].hdr = ftab[i].hdr
  <2>1. name = pool.file[fd] /\ pool'.file[fd] = pool.file[fd] /\ fd \in Open'
    BY DEF Open
  <2>2. dhdr'[name] # Absent
    BY <2>1 DEF PFInv, OpenGood
  <2>3. \A i \in Fds : ftab'[i].hdr = ftab[i].hdr
    BY <1>1 DEF FtabEntry
  <2> HIDE DEF name
  <2>4. \A n \in Files : n # name => dhdr'[n] = dhdr[n]
    BY <1>1, <2>1
  <2>5. QED
    BY <2>2, <2>3, <2>4
<1>3. /\ Pinned' = Pinned /\ Open' = Open
      /\ \A n : IsOpen(n)' <=> IsOpen(n)
  BY DEF Pinned, Held, Open, IsOpen
<1>4. Existing' = Existing
  BY <1>1, <1>2, PFAssumption DEF Existing
<1>5. ASSUME NEW n \in Files, NEW q \in Pages
      PROVE  Shown'[n][q] = Shown[n][q]
  <2>1. CASE IsOpen(n)
    <3>1. PICK i \in Fds : pool.file[i] = n
      BY <2>1 DEF IsOpen
    <3>2. i \in Open /\ ftab'[i].hdr = ftab[i].hdr
      BY <1>2, <3>1, PFAssumption DEF Open
    <3>3. QED
      BY <1>3, <3>1, <3>2, StillOpenShows
  <2>2. CASE ~ IsOpen(n)
    <3>1. n # name
      BY <1>1, <2>2 DEF IsOpen
    <3>2. QED
      BY <1>2, <1>3, <2>2, <3>1, StillClosedShows
  <2>3. QED
    BY <2>1, <2>2
<1>6. Shown' = Shown
  BY <1>5, ShownSame
<1>7. QED
  BY <1>3, <1>4, <1>6 DEF FileStep

LEMMA CloseFileStep ==
  ASSUME PFInv, PFInv', CloseStep
  PROVE  FileStep
<1> DEFINE fd == call.fd
<1>1. fd \in Open /\ fd \in Fds
  BY DEF CloseStep, PFInv, CallGood, Open
<1>2. PICK o \in PFbufReleaseStep(pool, fd) :
        IF o.rc = "OK" THEN CloseHeader(fd) ELSE pool' = o.s /\ UNCHANGED <<ftab, dhdr>>
  BY DEF CloseStep
<1> HIDE DEF fd
<1>3. CASE o.rc # "OK"
  <2>1. Unseen(pool, pool', ValidKeys)
    BY <1>1, <1>2, <1>3, ReleaseStepUnseen DEF PFInv
  <2>2. QED
    BY <1>2, <1>3, <2>1, UnseenStep
<1>4. CASE o.rc = "OK"
  <2>1. CloseHeader(fd)
    BY <1>2, <1>4
  <2>2. \A k \in Keys : k[1] = fd => ~ Resident(pool, k)
    BY <1>1, <1>2, <1>4, ReleasedMeansGone DEF PFInv
  <2>3. CASE pool' = [pool EXCEPT !.file[fd] = NULL]
             /\ ftab' = [ftab EXCEPT ![fd] = ClosedEntry]
             /\ dhdr' = IF ftab[fd].hdrchanged
                        THEN [dhdr EXCEPT ![pool.file[fd]] = ftab[fd].hdr] ELSE dhdr
    BY ONLY PFInv, PFInv', <1>1, <2>2, <2>3, CloseDoneStep
  <2>4. CASE UNCHANGED <<pool, ftab>>
             /\ \/ dhdr' = dhdr
                \/ dhdr' = [dhdr EXCEPT ![pool.file[fd]].firstfree = ftab[fd].hdr.firstfree]
    BY <1>1, <2>4, CloseFailedStep
  <2>5. CASE /\ dhdr' = IF ftab[fd].hdrchanged
                        THEN [dhdr EXCEPT ![pool.file[fd]] = ftab[fd].hdr] ELSE dhdr
             /\ ftab' = [ftab EXCEPT ![fd].hdrchanged = FALSE]
             /\ UNCHANGED pool
    BY ONLY PFInv, PFInv', <1>1, <2>5, CloseRefusedStep
  <2>6. QED
    BY <2>1, <2>3, <2>4, <2>5 DEF CloseHeader
<1>5. QED
  BY <1>3, <1>4

-----------------------------------------------------------------------------
(* The refinement. *)

LEMMA EveryStep == PFInv /\ PFInv' /\ [Next]_vars => FileStep
<1> SUFFICES ASSUME PFInv, PFInv', [Next]_vars
             PROVE  FileStep
  OBVIOUS
<1>1. ASSUME NEW name \in Files,
             \/ PF_CreateFile(name) \/ PF_DestroyFile(name)
             \/ ~ IsOpen(name) /\ PF_OpenFile(name)
      PROVE  FileStep
  BY <1>1, CreateFileStep, DestroyFileStep, OpenFileStep
<1>2. ASSUME UNCHANGED <<pool, ftab, dhdr>>
      PROVE  FileStep
  <2>1. Unseen(pool, pool', ValidKeys)
    BY <1>2 DEF Unseen, SameSeen, SameFiles
  <2>2. QED
    BY <1>2, <2>1, UnseenStep
<1>3. ASSUME NEW fd \in Fds,
             \/ PF_CloseFile(fd)
             \/ PF_AllocPage(fd)
             \/ \E from \in Pages \cup {-1} : PF_GetNextPage(fd, from)
      PROVE  FileStep
  <2>1. CASE PF_AllocPage(fd)
    BY <2>1, AllocFileStep
  <2>2. CASE ~ PF_AllocPage(fd)
    BY <1>2, <1>3, <2>2 DEF PF_CloseFile, PF_GetNextPage
  <2>3. QED
    BY <2>1, <2>2
<1>4. ASSUME NEW k \in Keys,
             \/ PF_GetThisPage(k)
             \/ PF_DisposePage(k)
             \/ \E dirty \in BOOLEAN : PF_UnfixPage(k, dirty)
             \/ \E data \in Data : WritePage(k, data)
      PROVE  FileStep
  <2>1. CASE PF_GetThisPage(k)
    <3>1. k \in ValidKeys /\ UNCHANGED <<ftab, dhdr>>
      BY <2>1 DEF PF_GetThisPage
    <3>2. PICK o \in GetUsed(pool, k) : pool' = o.s
      BY <2>1 DEF PF_GetThisPage
    <3>3. QED
      BY <3>1, <3>2, GetUsedStep
  <2>2. CASE PF_DisposePage(k)
    BY <2>2, DisposeFileStep
  <2>3. CASE \E dirty \in BOOLEAN : PF_UnfixPage(k, dirty)
    BY <2>3, UnfixFileStep
  <2>4. CASE \E data \in Data : WritePage(k, data)
    BY <2>4, WriteFileStep
  <2>5. QED
    BY <1>4, <2>1, <2>2, <2>3, <2>4
<1>5. ASSUME NEW strategy \in Strategies, PF_SetStrategy(strategy)
      PROVE  FileStep
  BY <1>5, StrategyFileStep
<1>6. CASE CloseStep
  BY <1>6, CloseFileStep
<1>7. CASE NextStep
  BY <1>7, NextFileStep
<1>8. CASE UNCHANGED vars
  BY <1>2, <1>8 DEF vars
<1>9. QED
  BY <1>1, <1>3, <1>4, <1>5, <1>6, <1>7, <1>8 DEF Next

\* The paged-file layer implements PagedFile: under every order of calls and every
\* failure of malloc, read and write, a page keeps its data and stays live until it is
\* disposed of, unpinned, or goes with its file, and a page disposed of stays gone until
\* it is allocated; evictions, scans, opening, closing, and closes that failed half way
\* change nothing (pf.c, whole file).
THEOREM PFImplementsPagedFile == Spec => FileSpec
<1>1. Init => File!Init
  <2> SUFFICES ASSUME Init
               PROVE  File!Init
    OBVIOUS
  <2>1. Existing = {} /\ Held = {}
    <3>1. Existing = {}
      BY DEF Init, Existing
    <3>2. \A k \in Held : k \in ValidKeys
      BY PFInvInit, PageFacts DEF Held
    <3>3. ValidKeys = {}
      <4>1. \A fd \in Open : pool.file[fd] \in Existing
        BY PFInvInit, ViewNow DEF View
      <4>2. QED
        BY <3>1, <4>1 DEF ValidKeys
    <3>4. QED
      BY <3>1, <3>2, <3>3
  <2>2. \A name \in Files : FileData(name) = [p \in Pages |-> Absent]
    BY DEF Init, FileData
  <2>3. QED
    BY <2>1, <2>2 DEF File!Init
<1>2. FileStep => [File!Next]_<<Existing, Shown, Pinned>>
  <2> SUFFICES ASSUME FileStep
               PROVE  [File!Next]_<<Existing, Shown, Pinned>>
    OBVIOUS
  <2>1. Existing \subseteq Files
    BY DEF Existing
  <2>2. ASSUME NEW f \in Existing, NEW p \in Pages, PageAction(f, p)
        PROVE  \/ File!Alloc(f, p) \/ File!Dispose(f, p) \/ File!Pin(f, p)
               \/ File!Write(f, p) \/ File!Unpin(f, p)
    BY <2>2 DEF PageAction, File!Alloc, File!Dispose, File!Pin, File!Write,
                File!Unpin, File!Live, Shown, Pinned
  <2>3. ASSUME NEW f \in Files, f \notin Existing, Existing' = Existing \cup {f},
               UNCHANGED <<Shown, Pinned>>
        PROVE  File!CreateFile(f)
    BY <2>3 DEF File!CreateFile, Shown, Pinned
  <2>4. ASSUME NEW f \in Existing, Existing' = Existing \ {f},
               \A p \in Pages : <<f, p>> \notin Pinned,
               Shown' = [Shown EXCEPT ![f] = [p \in Pages |-> Absent]],
               Pinned' = Pinned
        PROVE  File!DestroyFile(f)
    BY <2>4 DEF File!DestroyFile, Shown, Pinned
  <2>5. QED
    BY <2>1, <2>2, <2>3, <2>4 DEF FileStep, File!Next
<1>3. PFInv /\ [Next]_vars /\ PFInv' => [File!Next]_<<Existing, Shown, Pinned>>
  BY <1>2, EveryStep
<1>4. [File!Next]_<<Existing, Shown, Pinned>> => [File!Next]_File!vars
  BY DEF File!vars, Shown, Pinned
<1>5. QED
  BY <1>1, <1>3, <1>4, PFInvInit, PFInvNext, PTL DEF Spec, FileSpec, File!Spec
=============================================================================
