----------------------------- MODULE BufOps_proofs -----------------------------
(***************************************************************************)
(* Each call of buf.c takes a sound pool - well typed and consistent - to  *)
(* sound pools, for every outcome of its mallocs, reads and writes.  The   *)
(* first part is about lists without repeats, the second names the state   *)
(* in the middle of a call, a frame linked but not hashed (HalfMade), the  *)
(* third has one lemma per call.  What callers see of the calls, that held *)
(* pages stay and none is lost, is the rest.                               *)
(***************************************************************************)
EXTENDS BufOps, SequenceTheorems, WellFoundedInduction, TLAPS

\* Unlinking a frame closes the gap it leaves, and moves nothing else
\* (PFbufUnlink).
LEMMA UnlinkElements ==
  ASSUME NEW S, NEW l \in Seq(S), NEW f \in Range(l)
  PROVE  /\ PFbufUnlink(l, f) \in Seq(S)
         /\ Len(PFbufUnlink(l, f)) = Len(l) - 1
         /\ \E p \in 1 .. Len(l) :
              /\ l[p] = f
              /\ \A i \in 1 .. Len(l) - 1 :
                   PFbufUnlink(l, f)[i] = IF i < p THEN l[i] ELSE l[i + 1]
<1> DEFINE p == Position(l, f)
           m == PFbufUnlink(l, f)
           a == SubSeq(l, 1, p - 1)
           b == SubSeq(l, p + 1, Len(l))
<1>0. Len(l) \in Nat /\ DOMAIN l = 1 .. Len(l)
  BY LenProperties
<1>1. p \in 1 .. Len(l) /\ l[p] = f
  <2>1. \E i \in DOMAIN l : l[i] = f
    BY DEF Range
  <2>2. QED
    BY <1>0, <2>1 DEF Position
<1>2. m = a \o b
  BY DEF PFbufUnlink, RemoveAt
<1>3. /\ a \in Seq(S) /\ Len(a) = p - 1
      /\ \A i \in 1 .. p - 1 : a[i] = l[i]
  <2>1. \A i \in 1 .. p - 1 : l[i] \in S
    BY <1>0, <1>1, ElementOfSeq
  <2> HIDE DEF p
  <2>2. QED
    BY <1>0, <1>1, <2>1, SubSeqProperties
<1>4. /\ b \in Seq(S) /\ Len(b) = Len(l) - p
      /\ \A i \in 1 .. Len(l) - p : b[i] = l[p + i]
  <2>1. \A i \in p + 1 .. Len(l) : l[i] \in S
    BY <1>0, <1>1, ElementOfSeq
  <2> HIDE DEF p
  <2>2. p + 1 \in Int /\ Len(l) \in Int
    BY <1>0, <1>1
  <2>3. /\ b \in Seq(S)
        /\ Len(b) = IF p + 1 <= Len(l) THEN Len(l) - (p + 1) + 1 ELSE 0
        /\ \A i \in 1 .. Len(l) - (p + 1) + 1 : b[i] = l[(p + 1) + i - 1]
    BY <2>1, <2>2, SubSeqProperties
  <2> HIDE DEF b
  <2>4. ASSUME NEW i \in 1 .. Len(l) - p
        PROVE  b[i] = l[p + i]
    <3>1. i \in 1 .. Len(l) - (p + 1) + 1 /\ (p + 1) + i - 1 = p + i
      BY <1>0, <1>1
    <3>2. b[i] = l[(p + 1) + i - 1]
      BY <2>3, <3>1
    <3>3. QED
      BY <3>1, <3>2
  <2>5. QED
    <3> DEFINE n == Len(l)
    <3>0. p \in Int /\ n \in Int /\ p <= n
      BY <1>0, <1>1
    <3>1. Len(b) = IF p + 1 <= n THEN n - (p + 1) + 1 ELSE 0
      BY <2>3
    <3> HIDE DEF n
    <3>3. Len(b) = n - p
      BY <3>0, <3>1
    <3>2. QED
      BY <2>3, <2>4, <3>3 DEF n
<1>5. /\ m \in Seq(S)
      /\ Len(m) = Len(l) - 1
      /\ \A i \in 1 .. Len(l) - 1 : m[i] = IF i < p THEN l[i] ELSE l[i + 1]
  <2> HIDE DEF p, a, b, m
  <2>1. /\ m \in Seq(S) /\ Len(m) = Len(a) + Len(b)
        /\ \A i \in 1 .. Len(a) + Len(b) :
             m[i] = IF i <= Len(a) THEN a[i] ELSE b[i - Len(a)]
    BY <1>2, <1>3, <1>4, ConcatProperties
  <2>2. Len(a) + Len(b) = Len(l) - 1
    BY <1>0, <1>1, <1>3, <1>4
  <2>3. ASSUME NEW i \in 1 .. Len(l) - 1, i < p
        PROVE  m[i] = l[i]
    <3>1. i \in 1 .. p - 1 /\ i <= Len(a) /\ i \in 1 .. Len(a) + Len(b)
      BY <1>0, <1>1, <1>3, <2>2, <2>3
    <3>2. QED
      BY <1>3, <2>1, <3>1
  <2>4. ASSUME NEW i \in 1 .. Len(l) - 1, ~ (i < p)
        PROVE  m[i] = l[i + 1]
    <3>1. /\ i \in 1 .. Len(a) + Len(b) /\ ~ (i <= Len(a))
          /\ i - Len(a) \in 1 .. Len(l) - p
          /\ p + (i - Len(a)) = i + 1
      BY <1>0, <1>1, <1>3, <2>2, <2>4
    <3>2. QED
      BY <1>4, <2>1, <3>1
  <2>5. QED
    BY <2>1, <2>2, <2>3, <2>4
<1>6. QED
  BY <1>1, <1>5

\* Unlinking a frame from a list without repeats removes that frame and nothing
\* else (PFbufUnlink).
LEMMA UnlinkProperties ==
  ASSUME NEW S, NEW l \in Seq(S), IsInjective(l), NEW f \in Range(l)
  PROVE  /\ PFbufUnlink(l, f) \in Seq(S)
         /\ Len(PFbufUnlink(l, f)) = Len(l) - 1
         /\ Range(PFbufUnlink(l, f)) = Range(l) \ {f}
         /\ IsInjective(PFbufUnlink(l, f))
<1> DEFINE m == PFbufUnlink(l, f)
<1>0. Len(l) \in Nat /\ DOMAIN l = 1 .. Len(l)
  BY LenProperties
<1>1. m \in Seq(S) /\ Len(m) = Len(l) - 1
  BY UnlinkElements
<1>2. PICK p \in 1 .. Len(l) :
        /\ l[p] = f
        /\ \A i \in 1 .. Len(l) - 1 : m[i] = IF i < p THEN l[i] ELSE l[i + 1]
  BY UnlinkElements
<1> HIDE DEF m
<1>3. /\ m \in Seq(S) /\ Len(m) = Len(l) - 1
      /\ \A i \in 1 .. Len(l) - 1 : m[i] = IF i < p THEN l[i] ELSE l[i + 1]
  BY <1>1, <1>2
<1>4. DOMAIN m = 1 .. Len(l) - 1
  BY <1>3, LenProperties
<1>5. IsInjective(m)
  <2> DEFINE up(i) == IF i < p THEN i ELSE i + 1
  <2>1. \A i \in 1 .. Len(l) - 1 : up(i) \in 1 .. Len(l) /\ m[i] = l[up(i)]
    BY <1>0, <1>2, <1>3
  <2>2. \A i, j \in 1 .. Len(l) - 1 : up(i) = up(j) => i = j
    BY <1>0, <1>1
  <2>3. \A i, j \in 1 .. Len(l) : l[i] = l[j] => i = j
    BY <1>0 DEF IsInjective
  <2> HIDE DEF up
  <2>4. \A i, j \in 1 .. Len(l) - 1 : m[i] = m[j] => i = j
    BY <2>1, <2>2, <2>3
  <2>5. QED
    BY <1>4, <2>4 DEF IsInjective
<1>6. ASSUME NEW i \in DOMAIN m
      PROVE  m[i] \in Range(l) \ {f}
  <2>1. PICK j \in 1 .. Len(l) : j # p /\ m[i] = l[j]
    <3>1. CASE i < p
      BY <1>0, <1>2, <1>3, <1>4, <3>1
    <3>2. CASE ~ (i < p)
      <4>1. i + 1 \in 1 .. Len(l) /\ i + 1 # p
        BY <1>0, <1>2, <1>4, <3>2
      <4>2. QED
        BY <1>3, <1>4, <3>2, <4>1
    <3>3. QED
      BY <3>1, <3>2
  <2>2. l[j] # f
    BY <1>0, <1>2, <2>1 DEF IsInjective
  <2>3. QED
    BY <1>0, <2>1, <2>2 DEF Range
<1>7. ASSUME NEW g \in Range(l), g # f
      PROVE  g \in Range(m)
  <2>1. PICK j \in 1 .. Len(l) : l[j] = g
    BY <1>0 DEF Range
  <2>2. CASE j < p
    <3>1. j \in 1 .. Len(l) - 1 /\ m[j] = g
      BY <1>0, <1>2, <1>3, <2>1, <2>2
    <3>2. QED
      BY <1>4, <3>1 DEF Range
  <2>3. CASE j > p
    <3>1. j - 1 \in 1 .. Len(l) - 1 /\ m[j - 1] = g
      BY <1>0, <1>2, <1>3, <2>1, <2>3
    <3>2. QED
      BY <1>4, <3>1 DEF Range
  <2>4. QED
    BY <1>0, <1>2, <1>7, <2>1, <2>2, <2>3
<1>8. QED
  BY <1>3, <1>5, <1>6, <1>7 DEF m, Range

\* Linking a new frame at the head adds that frame and nothing else
\* (PFbufLinkHead).
LEMMA LinkProperties ==
  ASSUME NEW S, NEW l \in Seq(S), IsInjective(l), NEW f \in S, f \notin Range(l)
  PROVE  /\ PFbufLinkHead(l, f) \in Seq(S)
         /\ Len(PFbufLinkHead(l, f)) = Len(l) + 1
         /\ Range(PFbufLinkHead(l, f)) = Range(l) \cup {f}
         /\ IsInjective(PFbufLinkHead(l, f))
<1> DEFINE m == PFbufLinkHead(l, f)
<1>0. Len(l) \in Nat /\ DOMAIN l = 1 .. Len(l)
  BY LenProperties
<1>1. m = <<f>> \o l
  BY DEF PFbufLinkHead, Cons
<1>2. /\ m \in Seq(S) /\ Len(m) = Len(l) + 1
      /\ \A i \in 1 .. Len(l) + 1 : m[i] = IF i = 1 THEN f ELSE l[i - 1]
  BY <1>0, <1>1
<1>3. DOMAIN m = 1 .. Len(l) + 1
  BY <1>2, LenProperties
<1> HIDE DEF m
<1>4. IsInjective(m)
  <2>1. \A i \in 2 .. Len(l) + 1 : i - 1 \in DOMAIN l /\ l[i - 1] # f
    BY <1>0 DEF Range
  <2>2. ASSUME NEW i \in DOMAIN m, NEW j \in DOMAIN m, m[i] = m[j]
        PROVE  i = j
    <3>1. CASE i = 1 \/ j = 1
      BY <1>0, <1>2, <1>3, <2>1, <2>2, <3>1
    <3>2. CASE i # 1 /\ j # 1
      <4>1. i - 1 \in DOMAIN l /\ j - 1 \in DOMAIN l /\ l[i - 1] = l[j - 1]
        BY <1>0, <1>2, <1>3, <2>2, <3>2
      <4>2. i - 1 = j - 1
        BY <4>1 DEF IsInjective
      <4>3. QED
        BY <1>0, <1>3, <4>2
    <3>3. QED
      BY <3>1, <3>2
  <2>3. QED
    BY <2>2 DEF IsInjective
<1>5. Range(m) \subseteq Range(l) \cup {f}
  BY <1>0, <1>2, <1>3 DEF Range
<1>6. f \in Range(m)
  BY <1>0, <1>2, <1>3 DEF Range
<1>7. ASSUME NEW j \in DOMAIN l
      PROVE  l[j] \in Range(m)
  <2>1. j + 1 \in DOMAIN m /\ m[j + 1] = l[j]
    BY <1>0, <1>2, <1>3
  <2>2. QED
    BY <2>1 DEF Range
<1>8. QED
  BY <1>2, <1>4, <1>5, <1>6, <1>7 DEF m, Range

\* Moving a frame to the head keeps the list's frames, each once (the unlink and
\* link pairs of PFbufGet and PFbufInternalAlloc).
LEMMA MoveProperties ==
  ASSUME NEW S, NEW l \in Seq(S), IsInjective(l), NEW f \in Range(l)
  PROVE  /\ MoveToHead(l, f) \in Seq(S)
         /\ Len(MoveToHead(l, f)) = Len(l)
         /\ Range(MoveToHead(l, f)) = Range(l)
         /\ IsInjective(MoveToHead(l, f))
<1> DEFINE u == PFbufUnlink(l, f)
<1>1. /\ u \in Seq(S) /\ Len(u) = Len(l) - 1
      /\ Range(u) = Range(l) \ {f} /\ IsInjective(u)
  BY UnlinkProperties
<1>2. f \in S /\ Len(l) \in Nat
  BY LenProperties, ElementOfSeq DEF Range
<1>3. MoveToHead(l, f) = PFbufLinkHead(u, f)
  BY DEF MoveToHead
<1> HIDE DEF u
<1>4. f \notin Range(u)
  BY <1>1
<1>5. /\ MoveToHead(l, f) \in Seq(S)
      /\ Len(MoveToHead(l, f)) = Len(u) + 1
      /\ Range(MoveToHead(l, f)) = Range(u) \cup {f}
      /\ IsInjective(MoveToHead(l, f))
  BY <1>1, <1>2, <1>3, <1>4, LinkProperties
<1>6. QED
  BY <1>1, <1>2, <1>5

\* A non-empty set of naturals has its Min: the walk from the head finds a frame,
\* the first.
LEMMA LeastExists ==
  ASSUME NEW T \in SUBSET Nat, T # {}
  PROVE  Min(T) \in T /\ \A y \in T : Min(T) <= y
<1>1. \E x \in T : \A y \in T : ~ (<<y, x>> \in OpToRel(<, Nat))
  BY NatLessThanWellFounded, WFMin
<1>2. \E x \in T : \A y \in T : x =< y
  <2>1. PICK x \in T : \A y \in T : ~ (<<y, x>> \in OpToRel(<, Nat))
    BY <1>1
  <2>2. ASSUME NEW y \in T
        PROVE  x =< y
    <3>1. x \in Nat /\ y \in Nat /\ <<y, x>> \in Nat \X Nat
      OBVIOUS
    <3>2. ~ (y < x)
      BY <2>1, <3>1 DEF OpToRel
    <3>3. QED
      BY <3>1, <3>2
  <2>3. QED
    BY <2>2
<1>3. QED
  BY <1>2 DEF Min

\* A non-empty set of list positions has its Max: the walk from the tail finds one,
\* the last.
LEMMA GreatestExists ==
  ASSUME NEW n \in Nat, NEW T \in SUBSET (1 .. n), T # {}
  PROVE  Max(T) \in T /\ \A y \in T : Max(T) >= y
<1> DEFINE D == {n - i : i \in T}
<1>1. D \in SUBSET Nat /\ D # {}
  <2>1. ASSUME NEW i \in T
        PROVE  n - i \in Nat
    BY i \in 1 .. n
  <2>2. QED
    BY <2>1
<1>2. PICK d \in D : \A y \in D : ~ (<<y, d>> \in OpToRel(<, Nat))
  BY <1>1, NatLessThanWellFounded, WFMin
<1>3. \A y \in D : ~ (y < d)
  <2>1. ASSUME NEW y \in D, y < d
        PROVE  FALSE
    <3>1. y \in Nat /\ d \in Nat /\ <<y, d>> \in Nat \X Nat
      BY <1>1
    <3>2. QED
      BY <1>2, <2>1, <3>1 DEF OpToRel
  <2>2. QED
    BY <2>1
<1>4. PICK x \in T : d = n - x
  OBVIOUS
<1>5. ASSUME NEW y \in T
      PROVE  x >= y
  <2>1. n - y \in D /\ ~ (n - y < n - x)
    BY <1>3, <1>4
  <2>2. x \in 1 .. n /\ y \in 1 .. n
    OBVIOUS
  <2>3. QED
    BY <2>1, <2>2
<1>6. QED
  BY <1>5 DEF Max
-----------------------------------------------------------------------------

Sound(s) == s \in Pool /\ Consistent(s)
\* The pool while a call is filling frame b: linked, but not yet hashed.
HalfMade(s, b) ==
  /\ s \in Pool
  /\ ListSound(s)
  /\ b \in Range(s.list)
  /\ \A f \in Range(s.list) \ {b} :
       KeyOf(s, f) \in Keys /\ s.hash[KeyOf(s, f)] = f
  /\ \A k \in Keys : Resident(s, k) =>
       s.hash[k] \in Range(s.list) \ {b} /\ KeyOf(s, s.hash[k]) = k
\* A write to a file is the only difference.
OnlyDisk(s, t) ==
  /\ t \in Pool
  /\ t.list = s.list /\ t.frame = s.frame /\ t.hash = s.hash
  /\ t.numbpage = s.numbpage /\ t.strategy = s.strategy /\ t.file = s.file
NoNewEntry(s, t) == \A k \in Keys : s.hash[k] = NULL => t.hash[k] = NULL

\* A linked frame is allocated and well typed (PFbpage).
LEMMA ListedFrame ==
  ASSUME NEW s \in Pool, NEW f \in Range(s.list)
  PROVE  f \in Frames /\ f # NULL /\ s.frame[f] \in Frame
<1>1. s.list \in Seq(Frames) /\ s.frame \in [Frames -> Frame]
  BY DEF Pool
<1>2. f \in Frames
  BY <1>1, ElementOfSeq, LenProperties DEF Range
<1>3. QED
  BY <1>1, <1>2, PoolAssumption

\* A frame just allocated or reused is well typed (buf.c:111-118, 170-175).
LEMMA FreedFrameType == FreedFrame \in Frame
  BY PoolAssumption DEF FreedFrame, Frame, FPage, NextFree

\* A fault has the one outcome it is declared with.
LEMMA FaultOutcome ==
  ASSUME NEW kind, NEW o, NEW x \in OnFault(kind, o)
  PROVE  x = o
BY DEF OnFault

\* PFwritefcn, whether it succeeds or fails, changes the file and nothing of the
\* pool.
LEMMA WriteOnlyDisk ==
  ASSUME NEW s \in Pool, NEW k \in Keys, NEW c \in FPage,
         NEW w \in PFwritefcn(s, k, c)
  PROVE  OnlyDisk(s, w.s)
<1> DEFINE Disks == [Files \X Pages -> FPage \cup {Absent}]
           place == Place(s, k)
<1>1. Hole \in FPage
  BY PoolAssumption DEF Hole, FPage, NextFree
<1>2. s.disk \in Disks
  BY DEF Pool
<1> HIDE DEF place
<1>3. Extended(s.disk, place) \in Disks
  BY <1>1, <1>2 DEF Extended
<1>4. Stored(s.disk, place, c) \in Disks
  BY <1>3 DEF Stored
<1>5. [c EXCEPT !.data = Junk] \in FPage
  BY PoolAssumption DEF FPage
<1>6. Torn(s.disk, place, c) \in Disks
  BY <1>3, <1>5 DEF Torn
<1>7. \A d \in Disks : OnlyDisk(s, [s EXCEPT !.disk = d])
  BY DEF OnlyDisk, Pool
<1>8. OnlyDisk(s, s)
  BY DEF OnlyDisk
<1>9. w.s = s \/ (\E d \in Disks : w.s = [s EXCEPT !.disk = d])
  <2> DEFINE whole == [s EXCEPT !.disk = Stored(@, place, c)]
             part == [s EXCEPT !.disk = Torn(@, place, c)]
  <2>1. \/ w \in {Outcome("OK", whole)}
        \/ w \in OnFault("write", Outcome("UNIX", s))
        \/ w \in OnFault("write", Outcome("INCOMPLETEWRITE", part))
    BY DEF PFwritefcn, place
  <2>2. \/ w = Outcome("OK", whole)
        \/ w = Outcome("UNIX", s)
        \/ w = Outcome("INCOMPLETEWRITE", part)
    BY <2>1, FaultOutcome
  <2> HIDE DEF whole, part
  <2>3. w.s = whole \/ w.s = s \/ w.s = part
    BY <2>2 DEF Outcome
  <2>4. QED
    BY <2>3, <1>4, <1>6 DEF whole, part
<1>10. QED
  BY <1>7, <1>8, <1>9

\* Writing a victim back changes the file and nothing of the pool (buf.c:154-162).
LEMMA WriteBackOnlyDisk ==
  ASSUME NEW s \in Pool, NEW f \in Frames, KeyOf(s, f) \in Keys,
         NEW w \in WriteBack(s, f)
  PROVE  OnlyDisk(s, w.s)
<1>1. CASE s.frame[f].dirty
  <2>1. s.frame[f].fpage \in FPage
    BY DEF Pool, Frame
  <2>2. w \in PFwritefcn(s, KeyOf(s, f), s.frame[f].fpage)
    BY <1>1 DEF WriteBack
  <2>3. QED
    BY <2>1, <2>2, WriteOnlyDisk
<1>2. CASE ~ s.frame[f].dirty
  BY <1>2 DEF WriteBack, Outcome, OnlyDisk
<1>3. QED
  BY <1>1, <1>2

\* What changes only the file keeps a sound pool sound.
LEMMA OnlyDiskSound ==
  ASSUME NEW s, NEW t, Sound(s), OnlyDisk(s, t)
  PROVE  Sound(t)
BY DEF Sound, OnlyDisk, Consistent, ListSound, ListHashed, HashLinked, KeyOf,
       Resident

\* What allocating a frame changes, field by field (buf.c:106-128).
LEMMA NewFrameFields ==
  ASSUME NEW s \in Pool, NEW f \in Frames, PFbufLinkHead(s.list, f) \in Seq(Frames)
  PROVE  LET t == NewFrame(s, f)
         IN  /\ t \in Pool
             /\ t.list = PFbufLinkHead(s.list, f)
             /\ t.numbpage = s.numbpage + 1
             /\ t.frame = [s.frame EXCEPT ![f] = FreedFrame]
             /\ t.hash = s.hash /\ t.file = s.file
             /\ t.disk = s.disk /\ t.strategy = s.strategy
<1> DEFINE list == PFbufLinkHead(s.list, f)
           n == s.numbpage + 1
           frame == [s.frame EXCEPT ![f] = FreedFrame]
           t == [s EXCEPT !.list = list, !.numbpage = n, !.frame = frame]
<1>1. list \in Seq(Frames) /\ n \in Nat /\ frame \in [Frames -> Frame]
  BY FreedFrameType DEF Pool
<1>2. NewFrame(s, f) = t
  BY DEF NewFrame
<1> HIDE DEF list, n, frame
<1>3. t \in Pool
  BY <1>1 DEF Pool
<1>4. /\ t.list = list /\ t.numbpage = n /\ t.frame = frame /\ t.hash = s.hash
      /\ t.file = s.file /\ t.disk = s.disk /\ t.strategy = s.strategy
  BY DEF Pool
<1>5. QED
  BY <1>2, <1>3, <1>4 DEF list, n, frame

\* What freeing a frame changes, field by field (buf.c:324-327).
LEMMA FreeFrameFields ==
  ASSUME NEW s \in Pool, NEW f \in Frames, PFbufUnlink(s.list, f) \in Seq(Frames),
         s.numbpage > 0
  PROVE  LET t == FreeFrame(s, f)
         IN  /\ t \in Pool
             /\ t.list = PFbufUnlink(s.list, f)
             /\ t.numbpage = s.numbpage - 1
             /\ t.frame = [s.frame EXCEPT ![f] = FreedFrame]
             /\ t.hash = s.hash /\ t.file = s.file
             /\ t.disk = s.disk /\ t.strategy = s.strategy
<1> DEFINE list == PFbufUnlink(s.list, f)
           n == s.numbpage - 1
           frame == [s.frame EXCEPT ![f] = FreedFrame]
           t == [s EXCEPT !.list = list, !.numbpage = n, !.frame = frame]
<1>1. list \in Seq(Frames) /\ n \in Nat /\ frame \in [Frames -> Frame]
  BY FreedFrameType DEF Pool
<1>2. FreeFrame(s, f) = t
  BY DEF FreeFrame
<1> HIDE DEF list, n, frame
<1>3. t \in Pool
  BY <1>1 DEF Pool
<1>4. /\ t.list = list /\ t.numbpage = n /\ t.frame = frame /\ t.hash = s.hash
      /\ t.file = s.file /\ t.disk = s.disk /\ t.strategy = s.strategy
  BY DEF Pool
<1>5. QED
  BY <1>2, <1>3, <1>4 DEF list, n, frame

\* What reusing a victim changes, field by field (buf.c:164-178).
LEMMA ReuseFields ==
  ASSUME NEW s \in Pool, NEW f \in Frames, MoveToHead(s.list, f) \in Seq(Frames)
  PROVE  LET t == Reuse(s, f)
         IN  /\ t \in Pool
             /\ t.list = MoveToHead(s.list, f)
             /\ t.numbpage = s.numbpage
             /\ \A g \in Frames \ {f} : t.frame[g] = s.frame[g]
             /\ t.hash = [s.hash EXCEPT ![KeyOf(s, f)] = NULL]
             /\ t.file = s.file /\ t.disk = s.disk
             /\ t.strategy = s.strategy
<1> DEFINE list == MoveToHead(s.list, f)
           hash == [s.hash EXCEPT ![KeyOf(s, f)] = NULL]
           blank == [FreedFrame EXCEPT !.fpage.data = s.frame[f].fpage.data]
           frame == [s.frame EXCEPT ![f] = blank]
           t == [s EXCEPT !.hash = hash, !.list = list, !.frame = frame]
<1>1. blank \in Frame
  <2>1. s.frame[f].fpage.data \in Data
    BY DEF Pool, Frame, FPage
  <2>2. QED
    BY <2>1 DEF FreedFrame, Frame, FPage, NextFree
<1> HIDE DEF blank
<1>2. /\ list \in Seq(Frames) /\ hash \in [Keys -> Frames \cup {NULL}]
      /\ frame \in [Frames -> Frame]
  BY <1>1 DEF Pool
<1>3. Reuse(s, f) = t
  BY DEF Reuse, PFhashDelete, blank
<1>4. \A g \in Frames \ {f} : frame[g] = s.frame[g]
  BY DEF Pool
<1> HIDE DEF list, hash, frame
<1>5. t \in Pool
  BY <1>2 DEF Pool
<1>6. /\ t.list = list /\ t.numbpage = s.numbpage /\ t.frame = frame
      /\ t.hash = hash /\ t.file = s.file /\ t.disk = s.disk
      /\ t.strategy = s.strategy
  BY DEF Pool
<1>7. QED
  BY <1>3, <1>4, <1>5, <1>6 DEF list, hash

\* A frame from malloc is linked and counted but not hashed yet; when malloc fails
\* nothing has changed (buf.c:105-130).
LEMMA MallocHalfMade ==
  ASSUME NEW s, Sound(s), s.numbpage < MaxBufs, NEW a \in MallocFrame(s)
  PROVE  /\ a.rc = "OK" => HalfMade(a.s, a.b)
         /\ a.rc # "OK" => a.s = s
         /\ NoNewEntry(s, a.s) /\ a.s.file = s.file
<1>0. \/ \E f \in Frames \ Range(s.list) :
           a = [rc |-> "OK", b |-> f, s |-> NewFrame(s, f)]
      \/ a = [rc |-> "NOMEM", b |-> NULL, s |-> s]
  BY FaultOutcome DEF MallocFrame
<1>1. CASE a = [rc |-> "NOMEM", b |-> NULL, s |-> s]
  BY <1>1 DEF NoNewEntry
<1>2. CASE \E f \in Frames \ Range(s.list) :
             a = [rc |-> "OK", b |-> f, s |-> NewFrame(s, f)]
  <2>1. PICK f \in Frames \ Range(s.list) :
          a.b = f /\ a.s = NewFrame(s, f) /\ a.rc = "OK"
    BY <1>2
  <2> DEFINE t == a.s
  <2>2. /\ s.list \in Seq(Frames) /\ IsInjective(s.list)
        /\ s.numbpage = Len(s.list) /\ s.numbpage \in Nat
    BY DEF Sound, Pool, Consistent, ListSound
  <2>3. /\ PFbufLinkHead(s.list, f) \in Seq(Frames)
        /\ Len(PFbufLinkHead(s.list, f)) = Len(s.list) + 1
        /\ Range(PFbufLinkHead(s.list, f)) = Range(s.list) \cup {f}
        /\ IsInjective(PFbufLinkHead(s.list, f))
    BY <2>1, <2>2, LinkProperties
  <2>4. /\ t \in Pool
        /\ t.list = PFbufLinkHead(s.list, f) /\ t.hash = s.hash
        /\ t.numbpage = s.numbpage + 1 /\ t.file = s.file
        /\ \A g \in Frames \ {f} : t.frame[g] = s.frame[g]
    <3>1. s \in Pool /\ s.frame \in [Frames -> Frame]
      BY DEF Sound, Pool
    <3>2. /\ t \in Pool
          /\ t.list = PFbufLinkHead(s.list, f) /\ t.hash = s.hash
          /\ t.numbpage = s.numbpage + 1 /\ t.file = s.file
          /\ t.frame = [s.frame EXCEPT ![f] = FreedFrame]
      BY <2>1, <2>3, <3>1, NewFrameFields
    <3>3. QED
      BY <3>1, <3>2
  <2> HIDE DEF t
  <2>5. ListSound(t)
    BY <2>2, <2>3, <2>4, PoolAssumption DEF ListSound
  <2>6. \A g \in Range(t.list) \ {f} :
          KeyOf(t, g) \in Keys /\ t.hash[KeyOf(t, g)] = g
    BY <2>3, <2>4, ListedFrame
       DEF Sound, Consistent, ListHashed, KeyOf
  <2>7. \A k \in Keys : Resident(t, k) =>
          t.hash[k] \in Range(t.list) \ {f} /\ KeyOf(t, t.hash[k]) = k
    BY <2>1, <2>3, <2>4, ListedFrame
       DEF Sound, Consistent, HashLinked, KeyOf, Resident
  <2>8. QED
    BY <1>2, <2>1, <2>3, <2>4, <2>5, <2>6, <2>7 DEF HalfMade, NoNewEntry, t
<1>3. QED
  BY <1>0, <1>1, <1>2

\* Undoing a half-made frame - unlink, count out, free - gives a sound pool back
\* (buf.c:322-339).
LEMMA FreeHalfMade ==
  ASSUME NEW s, NEW b, HalfMade(s, b)
  PROVE  Sound(FreeFrame(s, b)) /\ FreeFrame(s, b).file = s.file
<1> DEFINE t == FreeFrame(s, b)
<1>1. /\ s \in Pool /\ b \in Range(s.list)
      /\ s.list \in Seq(Frames) /\ IsInjective(s.list)
      /\ s.numbpage = Len(s.list) /\ s.numbpage \in Nat
      /\ s.numbpage <= MaxBufs
      /\ s.frame \in [Frames -> Frame]
  BY DEF HalfMade, ListSound, Pool
<1>2. /\ PFbufUnlink(s.list, b) \in Seq(Frames)
      /\ Len(PFbufUnlink(s.list, b)) = Len(s.list) - 1
      /\ Range(PFbufUnlink(s.list, b)) = Range(s.list) \ {b}
      /\ IsInjective(PFbufUnlink(s.list, b))
  BY <1>1, UnlinkProperties
<1>3. b \in Frames /\ s.numbpage > 0
  <2>1. Len(PFbufUnlink(s.list, b)) \in Nat
    BY <1>2, LenProperties
  <2>2. QED
    BY <1>1, <1>2, <2>1, ListedFrame
<1>4. /\ t \in Pool /\ t.list = PFbufUnlink(s.list, b)
      /\ t.numbpage = s.numbpage - 1 /\ t.hash = s.hash /\ t.file = s.file
      /\ t.frame = [s.frame EXCEPT ![b] = FreedFrame]
  BY <1>1, <1>2, <1>3, FreeFrameFields
<1>5. \A g \in Range(s.list) \ {b} : KeyOf(t, g) = KeyOf(s, g)
  BY <1>1, <1>4, ListedFrame DEF KeyOf
<1> HIDE DEF t
<1>6. ListSound(t)
  BY <1>1, <1>2, <1>4, PoolAssumption DEF ListSound
<1>7. ListHashed(t)
  BY <1>2, <1>4, <1>5 DEF ListHashed, HalfMade
<1>8. HashLinked(t)
  BY <1>2, <1>4, <1>5 DEF HashLinked, HalfMade, Resident
<1>9. QED
  BY <1>4, <1>6, <1>7, <1>8 DEF Sound, Consistent, t

\* A victim taken over is half made: linked, but no longer hashed (buf.c:164-179).
LEMMA ReuseHalfMade ==
  ASSUME NEW s, Sound(s), NEW f \in Range(s.list)
  PROVE  /\ HalfMade(Reuse(s, f), f) /\ NoNewEntry(s, Reuse(s, f))
         /\ Reuse(s, f).file = s.file
<1> DEFINE t == Reuse(s, f)
<1>1. /\ s \in Pool /\ Consistent(s)
      /\ s.list \in Seq(Frames) /\ IsInjective(s.list)
      /\ s.frame \in [Frames -> Frame]
      /\ s.hash \in [Keys -> Frames \cup {NULL}]
  BY DEF Sound, Consistent, ListSound, Pool
<1>2. /\ MoveToHead(s.list, f) \in Seq(Frames)
      /\ Len(MoveToHead(s.list, f)) = Len(s.list)
      /\ Range(MoveToHead(s.list, f)) = Range(s.list)
      /\ IsInjective(MoveToHead(s.list, f))
  BY <1>1, MoveProperties
<1>3. f \in Frames
  BY <1>1, ListedFrame
<1>4. /\ t \in Pool /\ t.list = MoveToHead(s.list, f)
      /\ t.numbpage = s.numbpage
      /\ \A g \in Frames \ {f} : t.frame[g] = s.frame[g]
      /\ t.hash = [s.hash EXCEPT ![KeyOf(s, f)] = NULL] /\ t.file = s.file
  BY <1>1, <1>2, <1>3, ReuseFields
<1>5. \A g \in Range(s.list) \ {f} : KeyOf(t, g) = KeyOf(s, g)
  BY <1>1, <1>4, ListedFrame DEF KeyOf
<1>6. \A k \in Keys : t.hash[k] = IF k = KeyOf(s, f) THEN NULL ELSE s.hash[k]
  BY <1>1, <1>4
<1> HIDE DEF t
<1>7. ListSound(t)
  BY <1>1, <1>2, <1>4 DEF ListSound, Consistent
<1>8. ASSUME NEW g \in Range(t.list) \ {f}
      PROVE  KeyOf(t, g) \in Keys /\ t.hash[KeyOf(t, g)] = g
  <2>1. g \in Range(s.list) /\ g # f /\ KeyOf(t, g) = KeyOf(s, g)
    BY <1>2, <1>4, <1>5
  <2>2. /\ KeyOf(s, g) \in Keys /\ s.hash[KeyOf(s, g)] = g
        /\ s.hash[KeyOf(s, f)] = f
    BY <1>1, <2>1 DEF Consistent, ListHashed
  <2>3. QED
    BY <1>6, <2>1, <2>2
<1>9. ASSUME NEW k \in Keys, Resident(t, k)
      PROVE  /\ t.hash[k] \in Range(t.list) \ {f}
             /\ KeyOf(t, t.hash[k]) = k
  <2>1. k # KeyOf(s, f) /\ t.hash[k] = s.hash[k] /\ Resident(s, k)
    BY <1>6, <1>9 DEF Resident
  <2>2. s.hash[k] \in Range(s.list) /\ KeyOf(s, s.hash[k]) = k
    BY <1>1, <2>1 DEF Consistent, HashLinked
  <2>3. QED
    BY <1>2, <1>4, <1>5, <2>1, <2>2
<1>10. NoNewEntry(s, t)
  BY <1>6 DEF NoNewEntry
<1>11. QED
  BY <1>2, <1>4, <1>7, <1>8, <1>9, <1>10 DEF HalfMade, t

\* Naming a half-made frame and entering it in the hash table makes the pool sound
\* again, and so does the undo when PFhashInsert fails (buf.c:332-343).
LEMMA InstallSound ==
  ASSUME NEW s, NEW f, HalfMade(s, f), NEW k \in Keys, s.hash[k] = NULL,
         NEW c \in FPage, NEW o \in Install(s, k, f, c)
  PROVE  Sound(o.s) /\ o.s.file = s.file
<1> DEFINE r == [fd |-> k[1], page |-> k[2], fixed |-> TRUE, dirty |-> FALSE,
                 fpage |-> c]
           frame == [s.frame EXCEPT ![f] = r]
           u == [s EXCEPT !.frame = frame]
           hash == [s.hash EXCEPT ![k] = f]
           t == [u EXCEPT !.hash = hash]
<1>1. /\ s \in Pool /\ f \in Range(s.list) /\ f \in Frames
      /\ s.frame \in [Frames -> Frame]
      /\ s.hash \in [Keys -> Frames \cup {NULL}]
  BY ListedFrame DEF HalfMade, Pool
<1>2. r \in Frame
  BY DEF Frame, Keys
<1>3. frame \in [Frames -> Frame] /\ hash \in [Keys -> Frames \cup {NULL}]
  <2> HIDE DEF r
  <2>1. QED
    BY <1>1, <1>2
<1>4. /\ frame[f] = r
      /\ \A g \in Frames \ {f} : frame[g] = s.frame[g]
      /\ hash[k] = f
      /\ \A j \in Keys \ {k} : hash[j] = s.hash[j]
  <2> HIDE DEF r
  <2>1. QED
    BY <1>1
<1>5. r.fd = k[1] /\ r.page = k[2] /\ <<k[1], k[2]>> = k
  BY DEF Keys
<1> HIDE DEF frame, hash, r
<1>6. /\ u \in Pool /\ u.list = s.list /\ u.numbpage = s.numbpage
      /\ u.hash = s.hash /\ u.frame = frame /\ u.file = s.file
  BY <1>1, <1>3 DEF Pool
<1> HIDE DEF u
<1>7. /\ t \in Pool /\ t.list = s.list /\ t.numbpage = s.numbpage
      /\ t.hash = hash /\ t.frame = frame /\ t.file = s.file
  BY <1>3, <1>6 DEF Pool
<1> HIDE DEF t
<1>8. \A g \in Range(s.list) \ {f} :
        KeyOf(u, g) = KeyOf(s, g) /\ KeyOf(t, g) = KeyOf(s, g)
  BY <1>1, <1>4, <1>6, <1>7, ListedFrame DEF KeyOf
<1>9. HalfMade(u, f)
  <2>1. ListSound(u) /\ f \in Range(u.list)
    BY <1>1, <1>6 DEF HalfMade, ListSound
  <2>2. \A g \in Range(u.list) \ {f} :
          KeyOf(u, g) \in Keys /\ u.hash[KeyOf(u, g)] = g
    BY <1>6, <1>8 DEF HalfMade
  <2>3. \A j \in Keys : Resident(u, j) =>
          u.hash[j] \in Range(u.list) \ {f} /\ KeyOf(u, u.hash[j]) = j
    BY <1>6, <1>8 DEF HalfMade, Resident
  <2>4. QED
    BY <1>6, <2>1, <2>2, <2>3 DEF HalfMade
<1>10. Sound(t)
  <2>1. ListSound(t)
    BY <1>7 DEF HalfMade, ListSound
  <2>2. KeyOf(t, f) = k
    BY <1>4, <1>5, <1>7 DEF KeyOf
  <2>3. ASSUME NEW g \in Range(t.list)
        PROVE  KeyOf(t, g) \in Keys /\ t.hash[KeyOf(t, g)] = g
    <3>1. CASE g = f
      BY <1>4, <1>7, <2>2, <3>1
    <3>2. CASE g # f
      <4>1. /\ g \in Range(s.list) \ {f} /\ KeyOf(t, g) = KeyOf(s, g)
            /\ KeyOf(s, g) \in Keys /\ s.hash[KeyOf(s, g)] = g
        BY <1>7, <1>8, <3>2 DEF HalfMade
      <4>2. g # NULL
        BY <1>1, <4>1, ListedFrame
      <4>3. QED
        BY <1>4, <1>7, <4>1, <4>2
    <3>3. QED
      BY <3>1, <3>2
  <2>4. ASSUME NEW j \in Keys, Resident(t, j)
        PROVE  t.hash[j] \in Range(t.list) /\ KeyOf(t, t.hash[j]) = j
    <3>1. CASE j = k
      BY <1>1, <1>4, <1>7, <2>2, <3>1
    <3>2. CASE j # k
      <4>1. t.hash[j] = s.hash[j] /\ Resident(s, j)
        BY <1>4, <1>7, <2>4, <3>2 DEF Resident
      <4>2. s.hash[j] \in Range(s.list) \ {f} /\ KeyOf(s, s.hash[j]) = j
        BY <4>1 DEF HalfMade
      <4>3. QED
        BY <1>7, <1>8, <4>1, <4>2
    <3>3. QED
      BY <3>1, <3>2
  <2>5. QED
    BY <1>7, <2>1, <2>3, <2>4 DEF Sound, Consistent, ListHashed, HashLinked
<1>11. \/ o = Outcome("OK", t)
       \/ o = Outcome("NOMEM", FreeFrame(u, f))
  <2>1. PICK h \in PFhashInsert(u, k, f) :
          o = IF h.rc = "OK" THEN h ELSE Outcome(h.rc, FreeFrame(h.s, f))
    BY DEF Install, u, frame, r
  <2>2. h = Outcome("OK", t) \/ h = Outcome("NOMEM", u)
    <3>1. u.hash[k] = NULL /\ [u EXCEPT !.hash[k] = f] = t
      BY <1>6 DEF t, hash
    <3>2. \/ h \in {Outcome("OK", [u EXCEPT !.hash[k] = f])}
          \/ h \in OnFault("malloc", Outcome("NOMEM", u))
      BY <3>1 DEF PFhashInsert
    <3>3. QED
      BY <3>1, <3>2, FaultOutcome
  <2>3. QED
    BY <2>1, <2>2 DEF Outcome
<1>12. QED
  BY <1>6, <1>7, <1>9, <1>10, <1>11, FreeHalfMade DEF Outcome

\* The victim, under either strategy, is a linked frame (buf.c:133-145).
LEMMA VictimListed ==
  ASSUME NEW s \in Pool, Unfixed(s) # {}
  PROVE  Victim(s) \in Range(s.list)
<1>1. Len(s.list) \in Nat /\ DOMAIN s.list = 1 .. Len(s.list)
  BY LenProperties DEF Pool
<1>2. Unfixed(s) \in SUBSET (1 .. Len(s.list)) /\ Unfixed(s) \in SUBSET Nat
  BY <1>1 DEF Unfixed
<1>3. Max(Unfixed(s)) \in Unfixed(s) /\ Min(Unfixed(s)) \in Unfixed(s)
  BY <1>1, <1>2, GreatestExists, LeastExists
<1>4. QED
  BY <1>1, <1>2, <1>3 DEF Victim, Range

\* PFbufInternalAlloc gives a half-made frame, or fails and leaves a sound pool
\* (buf.c:100-180).
LEMMA InternalAllocHalfMade ==
  ASSUME NEW s, Sound(s), NEW a \in PFbufInternalAlloc(s)
  PROVE  /\ a.rc = "OK" => HalfMade(a.s, a.b)
         /\ a.rc # "OK" => Sound(a.s)
         /\ NoNewEntry(s, a.s) /\ a.s.file = s.file
<1>1. CASE s.numbpage < MaxBufs
  BY <1>1, MallocHalfMade DEF PFbufInternalAlloc
<1>2. CASE ~ (s.numbpage < MaxBufs) /\ Unfixed(s) = {}
  BY <1>2 DEF PFbufInternalAlloc, NoNewEntry
<1>3. CASE ~ (s.numbpage < MaxBufs) /\ Unfixed(s) # {}
  <2> DEFINE f == Victim(s)
  <2>1. s \in Pool /\ f \in Range(s.list)
    BY <1>3, VictimListed DEF Sound
  <2>2. f \in Frames /\ KeyOf(s, f) \in Keys
    BY <2>1, ListedFrame DEF Sound, Consistent, ListHashed
  <2> HIDE DEF f
  <2>3. PICK w \in WriteBack(s, f) :
          a = IF w.rc = "OK"
              THEN [rc |-> "OK", b |-> f, s |-> Reuse(w.s, f)]
              ELSE [rc |-> w.rc, b |-> NULL, s |-> w.s]
    BY <1>3 DEF PFbufInternalAlloc, Evict, f
  <2>4. OnlyDisk(s, w.s)
    BY <2>1, <2>2, WriteBackOnlyDisk
  <2>5. Sound(w.s) /\ w.s.list = s.list /\ w.s.hash = s.hash /\ w.s.file = s.file
    BY <2>4, OnlyDiskSound DEF OnlyDisk
  <2>6. CASE w.rc = "OK"
    <3>1. a.rc = "OK" /\ a.b = f /\ a.s = Reuse(w.s, f)
      BY <2>3, <2>6
    <3>2. /\ HalfMade(Reuse(w.s, f), f) /\ NoNewEntry(w.s, Reuse(w.s, f))
          /\ Reuse(w.s, f).file = w.s.file
      BY <2>1, <2>5, ReuseHalfMade
    <3>3. QED
      BY <2>5, <3>1, <3>2 DEF NoNewEntry
  <2>7. CASE w.rc # "OK"
    <3>1. a.rc # "OK" /\ a.s = w.s
      BY <2>3, <2>7
    <3>2. QED
      BY <2>5, <3>1 DEF NoNewEntry
  <2>8. QED
    BY <2>6, <2>7
<1>4. QED
  BY <1>1, <1>2, <1>3

\* The pages in frames and files are well typed.
LEMMA PageTypes ==
  ASSUME NEW s \in Pool
  PROVE  /\ \A f \in Frames : s.frame[f].fpage \in FPage
         /\ \A c \in FPage : [c EXCEPT !.nextfree = USED] \in FPage
         /\ \A q \in DOMAIN s.disk : s.disk[q] # Absent => s.disk[q] \in FPage
BY DEF Pool, Frame, FPage, NextFree

\* A call that changes neither list nor hash table, and no frame's page.
LEMMA SameShapeSound ==
  ASSUME NEW s, Sound(s), NEW t \in Pool,
         t.list = s.list, t.numbpage = s.numbpage, t.hash = s.hash,
         \A g \in Frames : KeyOf(t, g) = KeyOf(s, g)
  PROVE  Sound(t)
<1>1. Range(s.list) \subseteq Frames
  BY ListedFrame DEF Sound
<1>2. QED
  BY <1>1 DEF Sound, Consistent, ListSound, ListHashed, HashLinked, Resident

\* A hash entry leads to a linked frame that holds the page (PFhashFind).
LEMMA ResidentFrame ==
  ASSUME NEW s, Sound(s), NEW k \in Keys, Resident(s, k)
  PROVE  /\ s.hash[k] \in Range(s.list) /\ s.hash[k] \in Frames
         /\ KeyOf(s, s.hash[k]) = k
BY ListedFrame DEF Sound, Consistent, HashLinked

\* Replacing what a frame holds, but not which page it holds.
LEMMA FrameUpdateSound ==
  ASSUME NEW s, Sound(s), NEW f \in Frames, NEW r \in Frame,
         r.fd = s.frame[f].fd, r.page = s.frame[f].page
  PROVE  /\ Sound([s EXCEPT !.frame = [@ EXCEPT ![f] = r]])
         /\ [s EXCEPT !.frame = [@ EXCEPT ![f] = r]].file = s.file
<1> DEFINE frame == [s.frame EXCEPT ![f] = r]
           t == [s EXCEPT !.frame = frame]
<1>1. s \in Pool /\ s.frame \in [Frames -> Frame]
  BY DEF Sound, Pool
<1>2. /\ frame \in [Frames -> Frame] /\ frame[f] = r
      /\ \A g \in Frames \ {f} : frame[g] = s.frame[g]
  BY <1>1
<1> HIDE DEF frame
<1>3. /\ t \in Pool /\ t.list = s.list /\ t.numbpage = s.numbpage
      /\ t.hash = s.hash /\ t.frame = frame /\ t.file = s.file
  BY <1>1, <1>2 DEF Pool
<1>4. \A g \in Frames : KeyOf(t, g) = KeyOf(s, g)
  BY <1>2, <1>3 DEF KeyOf
<1> HIDE DEF t
<1>5. Sound(t)
  BY <1>3, <1>4, SameShapeSound
<1>6. QED
  BY <1>3, <1>5 DEF t, frame

\* A hit, on a fixed page or not, keeps the pool sound (buf.c:275-305).
LEMMA HitSound ==
  ASSUME NEW s, Sound(s), NEW k \in Keys, Resident(s, k)
  PROVE  Sound(Hit(s, k).s) /\ Hit(s, k).s.file = s.file
<1> DEFINE f == s.hash[k]
           r == [s.frame[f] EXCEPT !.fixed = TRUE]
           frame == [s.frame EXCEPT ![f] = r]
           list == MoveToHead(s.list, f)
           u == [s EXCEPT !.list = list]
           t == [u EXCEPT !.frame = [@ EXCEPT ![f] = r]]
<1>1. f \in Range(s.list) /\ f \in Frames
  BY ResidentFrame
<1>2. /\ s \in Pool /\ s.list \in Seq(Frames) /\ IsInjective(s.list)
      /\ s.frame[f] \in Frame
  BY <1>1 DEF Sound, Consistent, ListSound, Pool
<1> HIDE DEF f
<1>3. /\ list \in Seq(Frames) /\ Len(list) = Len(s.list)
      /\ Range(list) = Range(s.list) /\ IsInjective(list)
  BY <1>1, <1>2, MoveProperties
<1> HIDE DEF list
<1>4. /\ u \in Pool /\ u.list = list /\ u.numbpage = s.numbpage
      /\ u.hash = s.hash /\ u.frame = s.frame /\ u.file = s.file
  BY <1>2, <1>3 DEF Pool
<1>5. Hit(s, k).s = t
  BY DEF Hit, Outcome, f, list
<1> HIDE DEF u
<1>6. Sound(u)
  BY <1>3, <1>4
     DEF Sound, Consistent, ListSound, ListHashed, HashLinked, KeyOf, Resident
<1>7. r \in Frame /\ r.fd = u.frame[f].fd /\ r.page = u.frame[f].page
  BY <1>2, <1>4 DEF Frame
<1> HIDE DEF r
<1>8. Sound(t) /\ t.file = u.file
  BY <1>1, <1>6, <1>7, FrameUpdateSound
<1>9. QED
  BY <1>4, <1>5, <1>8

\* PFbufGet keeps the pool sound, whichever malloc, read or write fails in it
\* (buf.c:268-344).
LEMMA GetSound ==
  ASSUME NEW s, Sound(s), NEW k \in Keys, s.file[k[1]] \in Files,
         NEW o \in PFbufGet(s, k)
  PROVE  Sound(o.s) /\ o.s.file = s.file
<1>1. CASE Resident(s, k)
  BY <1>1, HitSound DEF PFbufGet
<1>2. CASE ~ Resident(s, k)
  <2>1. PICK a \in PFbufInternalAlloc(s) :
          o \in IF a.rc # "OK" THEN {Outcome(a.rc, a.s)} ELSE ReadInto(a.s, k, a.b)
    BY <1>2 DEF PFbufGet
  <2>2. a.s.file = s.file
    BY InternalAllocHalfMade
  <2>3. CASE a.rc # "OK"
    BY <2>1, <2>2, <2>3, InternalAllocHalfMade DEF Outcome
  <2>4. CASE a.rc = "OK"
    <3>1. HalfMade(a.s, a.b) /\ a.s.hash[k] = NULL
      BY <1>2, <2>4, InternalAllocHalfMade DEF NoNewEntry, Resident
    <3>2. PICK r \in PFreadfcn(a.s, k) :
            o \in IF r.rc = "OK" THEN Install(a.s, k, a.b, a.s.disk[Place(a.s, k)])
                  ELSE {Outcome(r.rc, FreeFrame(a.s, a.b))}
      BY <2>1, <2>4 DEF ReadInto
    <3>3. CASE r.rc # "OK"
      BY <2>2, <3>1, <3>2, <3>3, FreeHalfMade DEF Outcome
    <3>4. CASE r.rc = "OK"
      <4>1. a.s.disk[Place(a.s, k)] # Absent
        BY <3>2, <3>4, FaultOutcome DEF PFreadfcn
      <4>2. Place(a.s, k) \in Files \X Pages
        BY <2>2 DEF Place, Keys
      <4>3. a.s.disk[Place(a.s, k)] \in FPage
        BY <3>1, <4>1, <4>2 DEF HalfMade, Pool
      <4>4. QED
        BY <2>2, <3>1, <3>2, <3>4, <4>3, InstallSound
    <3>5. QED
      BY <3>3, <3>4
  <2>5. QED
    BY <2>3, <2>4
<1>3. QED
  BY <1>1, <1>2

\* PFbufAlloc keeps the pool sound, whichever malloc or write fails in it
\* (buf.c:206-260).
LEMMA AllocSound ==
  ASSUME NEW s, Sound(s), NEW k \in Keys, NEW o \in PFbufAlloc(s, k)
  PROVE  Sound(o.s) /\ o.s.file = s.file
<1>1. CASE Resident(s, k)
  BY <1>1 DEF PFbufAlloc, Outcome
<1>2. CASE ~ Resident(s, k)
  <2>1. PICK a \in PFbufInternalAlloc(s) :
          o \in IF a.rc # "OK" THEN {Outcome(a.rc, a.s)}
                ELSE Install(a.s, k, a.b,
                             [a.s.frame[a.b].fpage EXCEPT !.nextfree = USED])
    BY <1>2 DEF PFbufAlloc
  <2>2. a.s.file = s.file
    BY InternalAllocHalfMade
  <2>3. CASE a.rc # "OK"
    BY <2>1, <2>2, <2>3, InternalAllocHalfMade DEF Outcome
  <2>4. CASE a.rc = "OK"
    <3>1. HalfMade(a.s, a.b) /\ a.s.hash[k] = NULL
      BY <1>2, <2>4, InternalAllocHalfMade DEF NoNewEntry, Resident
    <3>2. [a.s.frame[a.b].fpage EXCEPT !.nextfree = USED] \in FPage
      <4>1. a.s \in Pool /\ a.b \in Frames
        BY <3>1, ListedFrame DEF HalfMade
      <4>2. QED
        BY <4>1, PageTypes
    <3>3. QED
      BY <2>1, <2>2, <2>4, <3>1, <3>2, InstallSound
  <2>5. QED
    BY <2>3, <2>4
<1>3. QED
  BY <1>1, <1>2

\* PFbufUnfix keeps the pool sound (buf.c:351-402).
LEMMA UnfixSound ==
  ASSUME NEW s, Sound(s), NEW k \in Keys, NEW dirty \in BOOLEAN
  PROVE  Sound(PFbufUnfix(s, k, dirty).s) /\ PFbufUnfix(s, k, dirty).s.file = s.file
<1>1. CASE ~ Fixed(s, k)
  BY <1>1 DEF PFbufUnfix, Outcome
<1>2. CASE Fixed(s, k)
  <2> DEFINE f == s.hash[k]
             r == Released(s.frame[f], dirty)
  <2>1. f \in Frames /\ s.frame \in [Frames -> Frame]
    BY <1>2, ResidentFrame DEF Fixed, Sound, Pool
  <2>2. r \in Frame /\ r.fd = s.frame[f].fd /\ r.page = s.frame[f].page
    <3>1. \A x \in Frame : /\ Released(x, dirty) \in Frame
                           /\ Released(x, dirty).fd = x.fd
                           /\ Released(x, dirty).page = x.page
      BY DEF Released, Frame
    <3>2. QED
      BY <2>1, <3>1
  <2>3. PFbufUnfix(s, k, dirty).s = [s EXCEPT !.frame = [@ EXCEPT ![f] = r]]
    <3>1. Resident(s, k)
      BY <1>2 DEF Fixed
    <3>2. PFbufUnfix(s, k, dirty) = Outcome("OK", [s EXCEPT !.frame[f] = r])
      BY <1>2, <3>1 DEF PFbufUnfix
    <3> HIDE DEF r, f
    <3>3. QED
      BY <3>2 DEF Outcome
  <2> HIDE DEF r, f
  <2>4. QED
    BY <2>1, <2>2, <2>3, FrameUpdateSound
<1>3. QED
  BY <1>1, <1>2

\* A holder's write through the pointer, and PFbufUsed, which writes nextfree.
LEMMA FpageUpdateSound ==
  ASSUME NEW s, Sound(s), NEW f \in Frames, NEW c \in FPage
  PROVE  /\ Sound([s EXCEPT !.frame[f].fpage = c])
         /\ [s EXCEPT !.frame[f].fpage = c].file = s.file
<1> DEFINE r == [s.frame[f] EXCEPT !.fpage = c]
<1>1. s.frame \in [Frames -> Frame]
  BY DEF Sound, Pool
<1>2. r \in Frame /\ r.fd = s.frame[f].fd /\ r.page = s.frame[f].page
  BY <1>1 DEF Frame
<1>3. [s EXCEPT !.frame[f].fpage = c] = [s EXCEPT !.frame = [@ EXCEPT ![f] = r]]
  BY DEF Sound, Pool
<1> HIDE DEF r
<1>4. QED
  BY <1>2, <1>3, FrameUpdateSound

\* PFbufUsed keeps the pool sound (buf.c:408-420).
LEMMA UsedSound ==
  ASSUME NEW s, Sound(s), NEW k \in Keys
  PROVE  Sound(PFbufUsed(s, k).s) /\ PFbufUsed(s, k).s.file = s.file
<1>1. CASE ~ Resident(s, k)
  BY <1>1 DEF PFbufUsed, Outcome
<1>2. CASE Resident(s, k)
  <2> DEFINE f == s.hash[k]
             c == [s.frame[f].fpage EXCEPT !.nextfree = USED]
  <2>1. f \in Frames /\ c \in FPage
    BY <1>2, ResidentFrame, PageTypes DEF Sound
  <2>2. PFbufUsed(s, k).s = [s EXCEPT !.frame[f].fpage = c]
    BY <1>2, <2>1 DEF PFbufUsed, Outcome, Sound, Pool
  <2> HIDE DEF c, f
  <2>3. QED
    BY <2>1, <2>2, FpageUpdateSound
<1>3. QED
  BY <1>1, <1>2

\* PFbufSetStrategy keeps the pool sound (buf.c:50-53).
LEMMA StrategySound ==
  ASSUME NEW s, Sound(s), NEW strategy \in Strategies
  PROVE  /\ Sound(PFbufSetStrategy(s, strategy))
         /\ PFbufSetStrategy(s, strategy).file = s.file
<1> DEFINE t == PFbufSetStrategy(s, strategy)
<1>1. /\ t \in Pool /\ t.list = s.list /\ t.numbpage = s.numbpage
      /\ t.hash = s.hash /\ t.frame = s.frame /\ t.file = s.file
  BY DEF PFbufSetStrategy, Sound, Pool
<1>2. \A g \in Frames : KeyOf(t, g) = KeyOf(s, g)
  BY <1>1 DEF KeyOf
<1> HIDE DEF t
<1>3. QED
  BY <1>1, <1>2, SameShapeSound DEF t

\* A frame whose hash entry is deleted is half made: it can be freed
\* (buf.c:436-446).
LEMMA UnhashHalfMade ==
  ASSUME NEW s, Sound(s), NEW f \in Range(s.list)
  PROVE  LET t == PFhashDelete(s, KeyOf(s, f))
         IN  HalfMade(t, f) /\ t.file = s.file
<1> DEFINE hash == [s.hash EXCEPT ![KeyOf(s, f)] = NULL]
           t == PFhashDelete(s, KeyOf(s, f))
<1>1. s \in Pool /\ s.hash \in [Keys -> Frames \cup {NULL}] /\ Consistent(s)
  BY DEF Sound, Pool
<1>2. /\ hash \in [Keys -> Frames \cup {NULL}]
      /\ \A k \in Keys : hash[k] = IF k = KeyOf(s, f) THEN NULL ELSE s.hash[k]
  BY <1>1
<1>3. t = [s EXCEPT !.hash = hash]
  BY DEF PFhashDelete
<1> HIDE DEF hash, t
<1>4. /\ t \in Pool /\ t.list = s.list /\ t.numbpage = s.numbpage
      /\ t.hash = hash /\ t.frame = s.frame /\ t.file = s.file
  BY <1>1, <1>2, <1>3 DEF Pool
<1>5. ListSound(t)
  BY <1>1, <1>4 DEF Consistent, ListSound
<1>6. ASSUME NEW g \in Range(t.list) \ {f}
      PROVE  KeyOf(t, g) \in Keys /\ t.hash[KeyOf(t, g)] = g
  <2>1. /\ KeyOf(t, g) = KeyOf(s, g) /\ KeyOf(s, g) \in Keys
        /\ s.hash[KeyOf(s, g)] = g /\ s.hash[KeyOf(s, f)] = f
    BY <1>1, <1>4 DEF Consistent, ListHashed, KeyOf
  <2>2. QED
    BY <1>2, <1>4, <2>1
<1>7. ASSUME NEW k \in Keys, Resident(t, k)
      PROVE  /\ t.hash[k] \in Range(t.list) \ {f}
             /\ KeyOf(t, t.hash[k]) = k
  <2>1. k # KeyOf(s, f) /\ t.hash[k] = s.hash[k] /\ Resident(s, k)
    BY <1>2, <1>4, <1>7 DEF Resident
  <2>2. s.hash[k] \in Range(s.list) /\ KeyOf(s, s.hash[k]) = k
    BY <1>1, <2>1 DEF Consistent, HashLinked
  <2>3. QED
    BY <1>4, <2>1, <2>2 DEF KeyOf
<1>8. QED
  BY <1>4, <1>5, <1>6, <1>7 DEF HalfMade, t

\* Each round of PFbufReleaseFile keeps the pool sound, also the one that stops at
\* a fixed frame or a failed write (buf.c:426-453).
LEMMA ReleaseStepSound ==
  ASSUME NEW s, Sound(s), NEW fd \in Fds, NEW o \in PFbufReleaseStep(s, fd)
  PROVE  Sound(o.s) /\ o.s.file = s.file
<1>1. CASE FramesOf(s, fd) = {}
  BY <1>1 DEF PFbufReleaseStep, Outcome
<1>2. CASE FramesOf(s, fd) # {}
  <2> DEFINE f == s.list[Min(FramesOf(s, fd))]
  <2>1. f \in Range(s.list)
    <3>1. DOMAIN s.list = 1 .. Len(s.list) /\ Len(s.list) \in Nat
      BY LenProperties DEF Sound, Pool
    <3>2. FramesOf(s, fd) \in SUBSET Nat /\ FramesOf(s, fd) \subseteq DOMAIN s.list
      BY <3>1 DEF FramesOf
    <3>3. Min(FramesOf(s, fd)) \in DOMAIN s.list
      BY <1>2, <3>2, LeastExists
    <3>4. QED
      BY <3>3 DEF Range
  <2> HIDE DEF f
  <2>2. f \in Frames /\ KeyOf(s, f) \in Keys /\ s \in Pool
    BY <2>1, ListedFrame DEF Sound, Consistent, ListHashed
  <2>3. o \in ReleaseFrame(s, f)
    BY <1>2 DEF PFbufReleaseStep, f
  <2>4. CASE s.frame[f].fixed
    BY <2>3, <2>4 DEF ReleaseFrame, Outcome
  <2>5. CASE ~ s.frame[f].fixed
    <3>1. PICK w \in WriteBack(s, f) :
            o = IF w.rc = "OK"
                THEN Outcome("MORE", FreeFrame(PFhashDelete(w.s, KeyOf(s, f)), f))
                ELSE w
      BY <2>3, <2>5 DEF ReleaseFrame
    <3>2. OnlyDisk(s, w.s)
      BY <2>2, WriteBackOnlyDisk
    <3>3. /\ Sound(w.s) /\ w.s.file = s.file
          /\ f \in Range(w.s.list) /\ KeyOf(w.s, f) = KeyOf(s, f)
      BY <2>1, <3>2, OnlyDiskSound DEF OnlyDisk, KeyOf
    <3>4. LET t == PFhashDelete(w.s, KeyOf(w.s, f))
          IN  HalfMade(t, f) /\ t.file = w.s.file
      BY <3>3, UnhashHalfMade
    <3>5. LET t == PFhashDelete(w.s, KeyOf(s, f))
          IN  Sound(FreeFrame(t, f)) /\ FreeFrame(t, f).file = s.file
      BY <3>3, <3>4, FreeHalfMade
    <3>6. QED
      BY <3>1, <3>3, <3>5 DEF Outcome
  <2>6. QED
    BY <2>4, <2>5
<1>3. QED
  BY <1>1, <1>2
-----------------------------------------------------------------------------
(* The outcomes of the two calls the others are made of, one by one. *)

\* The frame PFbufInternalAlloc gives is one malloc gave it or the victim, and
\* the victim only once its write-back, if it needed one, succeeded
\* (buf.c:105-180).
LEMMA InternalAllocOutcomes ==
  ASSUME NEW s, NEW a \in PFbufInternalAlloc(s)
  PROVE  \/ a.rc # "OK" /\ a.s = s
         \/ \E f \in Frames \ Range(s.list) :
              a.rc = "OK" /\ a.b = f /\ a.s = NewFrame(s, f)
         \/ /\ Unfixed(s) # {}
            /\ \E w \in WriteBack(s, Victim(s)) :
                 \/ /\ w.rc = "OK" /\ a.rc = "OK" /\ a.b = Victim(s)
                    /\ a.s = Reuse(w.s, Victim(s))
                 \/ w.rc # "OK" /\ a.rc # "OK" /\ a.s = w.s
<1>1. CASE s.numbpage < MaxBufs
  <2>1. \/ \E f \in Frames \ Range(s.list) :
             a = [rc |-> "OK", b |-> f, s |-> NewFrame(s, f)]
        \/ a = [rc |-> "NOMEM", b |-> NULL, s |-> s]
    BY <1>1, FaultOutcome DEF PFbufInternalAlloc, MallocFrame
  <2>2. QED
    BY <2>1
<1>2. CASE ~ (s.numbpage < MaxBufs) /\ Unfixed(s) = {}
  <2>1. a = [rc |-> "NOBUF", b |-> NULL, s |-> s]
    BY <1>2 DEF PFbufInternalAlloc
  <2>2. QED
    BY <2>1
<1>3. CASE ~ (s.numbpage < MaxBufs) /\ Unfixed(s) # {}
  <2>1. PICK w \in WriteBack(s, Victim(s)) :
          a = IF w.rc = "OK"
              THEN [rc |-> "OK", b |-> Victim(s), s |-> Reuse(w.s, Victim(s))]
              ELSE [rc |-> w.rc, b |-> NULL, s |-> w.s]
    BY <1>3 DEF PFbufInternalAlloc, Evict
  <2>2. CASE w.rc = "OK"
    <3>1. a.rc = "OK" /\ a.b = Victim(s) /\ a.s = Reuse(w.s, Victim(s))
      BY <2>1, <2>2
    <3>2. QED
      BY <1>3, <2>2, <3>1
  <2>3. CASE w.rc # "OK"
    <3>1. a.rc # "OK" /\ a.s = w.s
      BY <2>1, <2>3
    <3>2. QED
      BY <1>3, <2>3, <3>1
  <2>4. QED
    BY <2>2, <2>3
<1>4. QED
  BY <1>1, <1>2, <1>3

\* Filling a half-made frame ends with the page hashed to it, t, or, when
\* PFhashInsert fails, with that frame freed from u (buf.c:313-343).
LEMMA InstallOutcomes ==
  ASSUME NEW s, NEW f, HalfMade(s, f), NEW k \in Keys, s.hash[k] = NULL,
         NEW c \in FPage, NEW o \in Install(s, k, f, c)
  PROVE  \E u, t \in Pool :
           /\ u.list = s.list /\ u.hash = s.hash /\ u.disk = s.disk
           /\ u.file = s.file /\ u.strategy = s.strategy
           /\ HalfMade(u, f)
           /\ \A g \in Frames \ {f} : u.frame[g] = s.frame[g]
           /\ t.list = s.list /\ t.hash = [s.hash EXCEPT ![k] = f]
           /\ t.disk = s.disk /\ t.file = s.file /\ t.strategy = s.strategy
           /\ \A g \in Frames \ {f} : t.frame[g] = s.frame[g]
           /\ t.frame[f] = [fd |-> k[1], page |-> k[2], fixed |-> TRUE,
                            dirty |-> FALSE, fpage |-> c]
           /\ \/ o.rc = "OK" /\ o.s = t
              \/ o.rc # "OK" /\ o.s = FreeFrame(u, f)
<1> DEFINE r == [fd |-> k[1], page |-> k[2], fixed |-> TRUE, dirty |-> FALSE,
                 fpage |-> c]
           frame == [s.frame EXCEPT ![f] = r]
           u == [s EXCEPT !.frame = frame]
           hash == [s.hash EXCEPT ![k] = f]
           t == [u EXCEPT !.hash = hash]
<1>1. /\ s \in Pool /\ f \in Range(s.list) /\ f \in Frames
      /\ s.frame \in [Frames -> Frame]
      /\ s.hash \in [Keys -> Frames \cup {NULL}]
  BY ListedFrame DEF HalfMade, Pool
<1>2. r \in Frame
  BY DEF Frame, Keys
<1>3. /\ frame \in [Frames -> Frame] /\ hash \in [Keys -> Frames \cup {NULL}]
      /\ frame[f] = r /\ \A g \in Frames \ {f} : frame[g] = s.frame[g]
  <2> HIDE DEF r
  <2>1. QED
    BY <1>1, <1>2
<1> HIDE DEF frame, hash, r
<1>4. /\ u \in Pool /\ u.list = s.list /\ u.numbpage = s.numbpage
      /\ u.hash = s.hash /\ u.frame = frame /\ u.file = s.file
      /\ u.disk = s.disk /\ u.strategy = s.strategy
  BY <1>1, <1>3 DEF Pool
<1> HIDE DEF u
<1>5. /\ t \in Pool /\ t.list = s.list /\ t.hash = hash /\ t.frame = frame
      /\ t.file = s.file /\ t.disk = s.disk /\ t.strategy = s.strategy
  BY <1>3, <1>4 DEF Pool
<1> HIDE DEF t
<1>6. HalfMade(u, f)
  <2>1. ListSound(u) /\ f \in Range(u.list)
    BY <1>1, <1>4 DEF HalfMade, ListSound
  <2>2. \A g \in Range(s.list) \ {f} : KeyOf(u, g) = KeyOf(s, g)
    BY <1>1, <1>3, <1>4, ListedFrame DEF KeyOf
  <2>3. \A g \in Range(u.list) \ {f} :
          KeyOf(u, g) \in Keys /\ u.hash[KeyOf(u, g)] = g
    BY <1>4, <2>2 DEF HalfMade
  <2>4. \A j \in Keys : Resident(u, j) =>
          u.hash[j] \in Range(u.list) \ {f} /\ KeyOf(u, u.hash[j]) = j
    BY <1>4, <2>2 DEF HalfMade, Resident
  <2>5. QED
    BY <1>4, <2>1, <2>3, <2>4 DEF HalfMade
<1>7. \/ o = Outcome("OK", t)
      \/ o = Outcome("NOMEM", FreeFrame(u, f))
  <2>1. PICK h \in PFhashInsert(u, k, f) :
          o = IF h.rc = "OK" THEN h ELSE Outcome(h.rc, FreeFrame(h.s, f))
    BY DEF Install, u, frame, r
  <2>2. h = Outcome("OK", t) \/ h = Outcome("NOMEM", u)
    <3>1. u.hash[k] = NULL /\ [u EXCEPT !.hash[k] = f] = t
      BY <1>4 DEF t, hash
    <3>2. \/ h \in {Outcome("OK", [u EXCEPT !.hash[k] = f])}
          \/ h \in OnFault("malloc", Outcome("NOMEM", u))
      BY <3>1 DEF PFhashInsert
    <3>3. QED
      BY <3>1, <3>2, FaultOutcome
  <2>3. QED
    BY <2>1, <2>2 DEF Outcome
<1>8. \/ o.rc = "OK" /\ o.s = t
      \/ o.rc # "OK" /\ o.s = FreeFrame(u, f)
  BY <1>7 DEF Outcome
<1>9. /\ t.hash = [s.hash EXCEPT ![k] = f]
      /\ t.frame[f] = [fd |-> k[1], page |-> k[2], fixed |-> TRUE,
                       dirty |-> FALSE, fpage |-> c]
  BY <1>3, <1>5 DEF hash, r
<1>10. QED
  BY <1>3, <1>4, <1>5, <1>6, <1>8, <1>9

\* The empty pool the program starts with is sound (buf.c:34-37).
LEMMA EmptyPoolSound ==
  ASSUME NEW file \in [Fds -> Files \cup {NULL}],
         NEW disk \in [Files \X Pages -> FPage \cup {Absent}]
  PROVE  Sound(EmptyPool(file, disk)) /\ EmptyPool(file, disk).file = file
<1> DEFINE s == EmptyPool(file, disk)
           frame == [f \in Frames |-> FreedFrame]
           hash == [k \in Keys |-> NULL]
<1>1. frame \in [Frames -> Frame] /\ hash \in [Keys -> Frames \cup {NULL}]
  BY FreedFrameType
<1>2. << >> \in Seq(Frames) /\ Len(<< >>) = 0 /\ Range(<< >>) = {}
  BY DEF Range
<1>3. \A k \in Keys : hash[k] = NULL
  OBVIOUS
<1>4. s = [list |-> << >>, frame |-> frame, hash |-> hash, numbpage |-> 0,
           strategy |-> "LRU", file |-> file, disk |-> disk]
  BY DEF EmptyPool
<1> HIDE DEF frame, hash, s
<1>5. /\ s \in Pool /\ s.list = << >> /\ s.numbpage = 0 /\ s.hash = hash
      /\ s.file = file
  BY <1>1, <1>2, <1>4 DEF Pool, Strategies
<1>6. ListSound(s)
  BY <1>2, <1>5, PoolAssumption DEF ListSound, IsInjective
<1>7. ListHashed(s) /\ HashLinked(s)
  BY <1>2, <1>3, <1>5 DEF ListHashed, HashLinked, Resident
<1>8. QED
  BY <1>5, <1>6, <1>7 DEF Sound, Consistent, s

-----------------------------------------------------------------------------
(* What the callers of buf.c see of a call.  A call is a few small steps: a *)
(* write back, a frame given up, an unhashed frame changed, a page entered  *)
(* in the hash table.  First, held pages stay in their frames: a call takes *)
(* only frames that are not fixed, and only an unfix releases a fixed one.  *)
(* Then no page is lost: each step shows callers nothing, or one page       *)
(* fixed.  Last, the steps are put together, call by call.                  *)

(* Held pages stay where they are. *)

\* From s to t every fixed page stays fixed, in the same frame.
Keeps(s, t) ==
  \A k \in Keys : Fixed(s, k) => Fixed(t, k) /\ t.hash[k] = s.hash[k]

Unhashed(s, f) == \A k \in Keys : Resident(s, k) => s.hash[k] # f
OtherFramesSame(s, t, f) == \A g \in Frames \ {f} : t.frame[g] = s.frame[g]

\* Steps that keep the held pages compose.
LEMMA KeepsTrans ==
  ASSUME NEW s, NEW t, NEW u, Keeps(s, t), Keeps(t, u)
  PROVE  Keeps(s, u)
BY DEF Keeps

\* What leaves hash table and fixed bits alone keeps the held pages.
LEMMA SameFramesKeep ==
  ASSUME NEW s, NEW t, t.hash = s.hash, t.frame = s.frame
  PROVE  Keeps(s, t)
BY DEF Keeps, Fixed, Resident

\* What changes one frame, which no hash entry leads to, keeps the held pages:
\* frames from malloc, and half-made frames being filled or freed.
LEMMA UnhashedFrameKeeps ==
  ASSUME NEW s \in Pool, NEW t, NEW f,
         Unhashed(s, f), t.hash = s.hash, OtherFramesSame(s, t, f)
  PROVE  Keeps(s, t)
<1> SUFFICES ASSUME NEW k \in Keys, Fixed(s, k)
             PROVE  Fixed(t, k) /\ t.hash[k] = s.hash[k]
  BY DEF Keeps
<1>1. s.hash[k] \in Frames \ {f}
  BY DEF Pool, Fixed, Resident, Unhashed
<1>2. QED
  BY <1>1 DEF Fixed, Resident, OtherFramesSame

\* Taking over an unfixed frame, its hash entry with it, keeps the held pages
\* (buf.c:133-145, 164-179, 433-446).
LEMMA TakenFrameKeeps ==
  ASSUME NEW s, Sound(s), NEW t, NEW f \in Range(s.list), ~ s.frame[f].fixed,
         t.hash = [s.hash EXCEPT ![KeyOf(s, f)] = NULL],
         OtherFramesSame(s, t, f)
  PROVE  Keeps(s, t)
<1> SUFFICES ASSUME NEW k \in Keys, Fixed(s, k)
             PROVE  Fixed(t, k) /\ t.hash[k] = s.hash[k]
  BY DEF Keeps
<1>1. s.hash \in [Keys -> Frames \cup {NULL}]
  BY DEF Sound, Pool
<1>2. s.hash[k] \in Frames /\ s.hash[k] # f /\ s.hash[k] # NULL
  BY <1>1 DEF Fixed, Resident
<1>3. KeyOf(s, f) \in Keys /\ s.hash[KeyOf(s, f)] = f
  BY DEF Sound, Consistent, ListHashed
<1>4. t.hash[k] = s.hash[k] /\ t.frame[s.hash[k]] = s.frame[s.hash[k]]
  BY <1>1, <1>2, <1>3 DEF OtherFramesSame
<1>5. QED
  BY <1>2, <1>4 DEF Fixed, Resident

\* The victim is never a fixed frame (buf.c:136, 142).
LEMMA VictimUnfixed ==
  ASSUME NEW s \in Pool, Unfixed(s) # {}
  PROVE  ~ s.frame[Victim(s)].fixed
<1>1. Len(s.list) \in Nat /\ DOMAIN s.list = 1 .. Len(s.list)
  BY LenProperties DEF Pool
<1>2. Unfixed(s) \in SUBSET (1 .. Len(s.list)) /\ Unfixed(s) \in SUBSET Nat
  BY <1>1 DEF Unfixed
<1>3. Max(Unfixed(s)) \in Unfixed(s) /\ Min(Unfixed(s)) \in Unfixed(s)
  BY <1>1, <1>2, GreatestExists, LeastExists
<1>4. QED
  BY <1>3 DEF Victim, Unfixed

\* No hash entry leads to a half-made frame.
LEMMA HalfMadeUnhashed ==
  ASSUME NEW s, NEW b, HalfMade(s, b)
  PROVE  Unhashed(s, b)
BY DEF HalfMade, Unhashed

\* Undoing a half-made frame keeps the held pages (buf.c:322-339).
LEMMA FreeKeeps ==
  ASSUME NEW s, NEW b, HalfMade(s, b)
  PROVE  Keeps(s, FreeFrame(s, b))
<1>1. /\ s \in Pool /\ b \in Range(s.list)
      /\ s.list \in Seq(Frames) /\ IsInjective(s.list)
      /\ s.numbpage = Len(s.list) /\ s.frame \in [Frames -> Frame]
  BY DEF HalfMade, ListSound, Pool
<1>2. /\ PFbufUnlink(s.list, b) \in Seq(Frames)
      /\ Len(PFbufUnlink(s.list, b)) = Len(s.list) - 1
  BY <1>1, UnlinkProperties
<1>3. b \in Frames /\ s.numbpage > 0
  <2>1. Len(PFbufUnlink(s.list, b)) \in Nat /\ Len(s.list) \in Nat
    BY <1>1, <1>2, LenProperties
  <2>2. QED
    BY <1>1, <1>2, <2>1, ListedFrame
<1>4. /\ FreeFrame(s, b).hash = s.hash
      /\ FreeFrame(s, b).frame = [s.frame EXCEPT ![b] = FreedFrame]
  BY <1>1, <1>2, <1>3, FreeFrameFields
<1>5. \A g \in Frames \ {b} : FreeFrame(s, b).frame[g] = s.frame[g]
  BY <1>1, <1>4
<1> DEFINE t == FreeFrame(s, b)
<1>6. t.hash = s.hash /\ OtherFramesSame(s, t, b)
  BY <1>4, <1>5 DEF OtherFramesSame
<1>7. Unhashed(s, b)
  BY HalfMadeUnhashed
<1> HIDE DEF t
<1>8. Keeps(s, t)
  BY <1>1, <1>6, <1>7, UnhashedFrameKeeps
<1>9. QED
  BY <1>8 DEF t

\* PFbufInternalAlloc keeps the held pages, whether the frame is new, taken from
\* an unfixed page, or not to be had (buf.c:100-180).
LEMMA InternalAllocKeeps ==
  ASSUME NEW s, Sound(s), NEW a \in PFbufInternalAlloc(s)
  PROVE  Keeps(s, a.s)
<1>1. CASE s.numbpage < MaxBufs
  <2>1. \/ \E f \in Frames \ Range(s.list) : a.s = NewFrame(s, f)
        \/ a.s = s
    BY <1>1, FaultOutcome DEF PFbufInternalAlloc, MallocFrame
  <2>2. ASSUME NEW f \in Frames \ Range(s.list)
        PROVE  Keeps(s, NewFrame(s, f))
    <3>1. /\ s \in Pool /\ s.list \in Seq(Frames) /\ IsInjective(s.list)
          /\ s.frame \in [Frames -> Frame]
      BY DEF Sound, Pool, Consistent, ListSound
    <3>2. PFbufLinkHead(s.list, f) \in Seq(Frames)
      BY <3>1, LinkProperties
    <3>3. /\ NewFrame(s, f).hash = s.hash
          /\ NewFrame(s, f).frame = [s.frame EXCEPT ![f] = FreedFrame]
      BY <3>1, <3>2, NewFrameFields
    <3>4. \A g \in Frames \ {f} : NewFrame(s, f).frame[g] = s.frame[g]
      BY <3>1, <3>3
    <3>5. Unhashed(s, f)
      BY DEF Sound, Consistent, HashLinked, Unhashed
    <3> DEFINE t == NewFrame(s, f)
    <3>6. t.hash = s.hash /\ OtherFramesSame(s, t, f)
      BY <3>3, <3>4 DEF OtherFramesSame
    <3> HIDE DEF t
    <3>7. Keeps(s, t)
      BY <3>1, <3>5, <3>6, UnhashedFrameKeeps
    <3>8. QED
      BY <3>7 DEF t
  <2>3. Keeps(s, s)
    BY DEF Keeps
  <2>4. QED
    BY <2>1, <2>2, <2>3
<1>2. CASE ~ (s.numbpage < MaxBufs) /\ Unfixed(s) = {}
  BY <1>2 DEF PFbufInternalAlloc, Keeps
<1>3. CASE ~ (s.numbpage < MaxBufs) /\ Unfixed(s) # {}
  <2> DEFINE f == Victim(s)
  <2>1. s \in Pool /\ f \in Range(s.list) /\ ~ s.frame[f].fixed
    BY <1>3, VictimListed, VictimUnfixed DEF Sound
  <2>2. f \in Frames /\ KeyOf(s, f) \in Keys
    BY <2>1, ListedFrame DEF Sound, Consistent, ListHashed
  <2> HIDE DEF f
  <2>3. PICK w \in WriteBack(s, f) : a.s = Reuse(w.s, f) \/ a.s = w.s
    BY <1>3 DEF PFbufInternalAlloc, Evict, f
  <2>4. OnlyDisk(s, w.s)
    BY <2>1, <2>2, WriteBackOnlyDisk
  <2>5. /\ Sound(w.s) /\ w.s.list = s.list /\ w.s.hash = s.hash
        /\ w.s.frame = s.frame
    BY <2>4, OnlyDiskSound DEF OnlyDisk
  <2>6. Keeps(s, w.s)
    BY <2>5, SameFramesKeep
  <2>7. Keeps(w.s, Reuse(w.s, f))
    <3>1. w.s \in Pool /\ w.s.list \in Seq(Frames) /\ IsInjective(w.s.list)
      BY <2>5 DEF Sound, Pool, Consistent, ListSound
    <3>2. MoveToHead(w.s.list, f) \in Seq(Frames)
      BY <2>1, <2>5, <3>1, MoveProperties
    <3>3. /\ OtherFramesSame(w.s, Reuse(w.s, f), f)
          /\ Reuse(w.s, f).hash = [w.s.hash EXCEPT ![KeyOf(w.s, f)] = NULL]
      BY <2>2, <3>1, <3>2, ReuseFields DEF OtherFramesSame
    <3>4. f \in Range(w.s.list) /\ ~ w.s.frame[f].fixed
      BY <2>1, <2>5
    <3>5. QED
      BY <2>5, <3>3, <3>4, TakenFrameKeeps
  <2>8. QED
    BY <2>3, <2>6, <2>7, KeepsTrans
<1>4. QED
  BY <1>1, <1>2, <1>3

\* Replacing what a frame holds, without unfixing it, keeps the held pages.
LEMMA FrameUpdateKeeps ==
  ASSUME NEW s \in Pool, NEW f \in Frames, NEW r \in Frame,
         s.frame[f].fixed => r.fixed
  PROVE  Keeps(s, [s EXCEPT !.frame = [@ EXCEPT ![f] = r]])
<1> DEFINE frame == [s.frame EXCEPT ![f] = r]
           t == [s EXCEPT !.frame = frame]
<1>1. /\ s.frame \in [Frames -> Frame]
      /\ s.hash \in [Keys -> Frames \cup {NULL}]
  BY DEF Pool
<1>2. frame[f] = r /\ \A g \in Frames \ {f} : frame[g] = s.frame[g]
  BY <1>1
<1> HIDE DEF frame
<1>3. t.frame = frame /\ t.hash = s.hash
  BY DEF Pool
<1> HIDE DEF t
<1>4. ASSUME NEW k \in Keys, Fixed(s, k)
      PROVE  Fixed(t, k) /\ t.hash[k] = s.hash[k]
  <2>1. s.hash[k] \in Frames /\ s.frame[s.hash[k]].fixed
    BY <1>1, <1>4 DEF Fixed, Resident
  <2>2. t.frame[s.hash[k]].fixed
    BY <1>2, <1>3, <2>1
  <2>3. QED
    BY <1>3, <1>4, <2>2 DEF Fixed, Resident
<1>5. Keeps(s, t)
  BY <1>4 DEF Keeps
<1>6. QED
  BY <1>5 DEF t, frame

\* Filling a half-made frame keeps the held pages, also when it has to be undone
\* (buf.c:313-343).
LEMMA InstallKeeps ==
  ASSUME NEW s, NEW f, HalfMade(s, f), NEW k \in Keys, s.hash[k] = NULL,
         NEW c \in FPage, NEW o \in Install(s, k, f, c)
  PROVE  Keeps(s, o.s)
<1> DEFINE r == [fd |-> k[1], page |-> k[2], fixed |-> TRUE, dirty |-> FALSE,
                 fpage |-> c]
           frame == [s.frame EXCEPT ![f] = r]
           u == [s EXCEPT !.frame = frame]
           hash == [s.hash EXCEPT ![k] = f]
           t == [u EXCEPT !.hash = hash]
<1>1. /\ s \in Pool /\ f \in Range(s.list) /\ f \in Frames
      /\ s.frame \in [Frames -> Frame]
      /\ s.hash \in [Keys -> Frames \cup {NULL}]
      /\ IsInjective(s.list) /\ s.list \in Seq(Frames)
  BY ListedFrame DEF HalfMade, ListSound, Pool
<1>2. r \in Frame
  BY DEF Frame, Keys
<1>3. /\ frame \in [Frames -> Frame] /\ hash \in [Keys -> Frames \cup {NULL}]
      /\ \A g \in Frames \ {f} : frame[g] = s.frame[g]
      /\ \A j \in Keys \ {k} : hash[j] = s.hash[j]
  <2> HIDE DEF r
  <2>1. QED
    BY <1>1, <1>2
<1> HIDE DEF frame, hash, r
<1>5. /\ u \in Pool /\ u.list = s.list /\ u.numbpage = s.numbpage
      /\ u.hash = s.hash /\ u.frame = frame
  BY <1>1, <1>3 DEF Pool
<1> HIDE DEF u
<1>6. t.hash = hash /\ t.frame = frame
  BY <1>5 DEF Pool
<1> HIDE DEF t
<1>7. OtherFramesSame(s, u, f)
  BY <1>3, <1>5 DEF OtherFramesSame
<1>8. Keeps(s, u)
  BY <1>1, <1>5, <1>7, HalfMadeUnhashed, UnhashedFrameKeeps
<1>9. Keeps(s, t)
  <2> SUFFICES ASSUME NEW j \in Keys, Fixed(s, j)
               PROVE  Fixed(t, j) /\ t.hash[j] = s.hash[j]
    BY DEF Keeps
  <2>1. j # k
    BY DEF Fixed, Resident
  <2>2. s.hash[j] \in Frames \ {f}
    BY <1>1, HalfMadeUnhashed DEF Fixed, Resident, Unhashed
  <2>3. QED
    BY <1>3, <1>6, <2>1, <2>2 DEF Fixed, Resident
<1>10. HalfMade(u, f)
  <2>1. ListSound(u) /\ f \in Range(u.list)
    BY <1>1, <1>5 DEF HalfMade, ListSound
  <2>2. \A g \in Range(s.list) \ {f} : KeyOf(u, g) = KeyOf(s, g)
    BY <1>1, <1>3, <1>5, ListedFrame DEF KeyOf
  <2>3. \A g \in Range(u.list) \ {f} :
          KeyOf(u, g) \in Keys /\ u.hash[KeyOf(u, g)] = g
    BY <1>5, <2>2 DEF HalfMade
  <2>4. \A j \in Keys : Resident(u, j) =>
          u.hash[j] \in Range(u.list) \ {f} /\ KeyOf(u, u.hash[j]) = j
    BY <1>5, <2>2 DEF HalfMade, Resident
  <2>5. QED
    BY <1>5, <2>1, <2>3, <2>4 DEF HalfMade
<1>11. Keeps(u, FreeFrame(u, f))
  BY <1>10, FreeKeeps
<1>12. o.s = t \/ o.s = FreeFrame(u, f)
  <2>1. PICK h \in PFhashInsert(u, k, f) :
          o = IF h.rc = "OK" THEN h ELSE Outcome(h.rc, FreeFrame(h.s, f))
    BY DEF Install, u, frame, r
  <2>2. h = Outcome("OK", t) \/ h = Outcome("NOMEM", u)
    <3>1. u.hash[k] = NULL /\ [u EXCEPT !.hash[k] = f] = t
      BY <1>5 DEF t, hash
    <3>2. \/ h \in {Outcome("OK", [u EXCEPT !.hash[k] = f])}
          \/ h \in OnFault("malloc", Outcome("NOMEM", u))
      BY <3>1 DEF PFhashInsert
    <3>3. QED
      BY <3>1, <3>2, FaultOutcome
  <2>3. QED
    BY <2>1, <2>2 DEF Outcome
<1>13. Keeps(s, FreeFrame(u, f))
  BY <1>8, <1>11, KeepsTrans
<1>14. QED
  BY <1>9, <1>12, <1>13

\* A hit keeps the held pages, the one asked for among them (buf.c:275-305).
LEMMA HitKeeps ==
  ASSUME NEW s, Sound(s), NEW k \in Keys, Resident(s, k)
  PROVE  Keeps(s, Hit(s, k).s)
<1> DEFINE f == s.hash[k]
           r == [s.frame[f] EXCEPT !.fixed = TRUE]
           list == MoveToHead(s.list, f)
           u == [s EXCEPT !.list = list]
           t == [u EXCEPT !.frame = [@ EXCEPT ![f] = r]]
<1>1. f \in Range(s.list) /\ f \in Frames
  BY ResidentFrame
<1>2. /\ s \in Pool /\ s.list \in Seq(Frames) /\ IsInjective(s.list)
      /\ s.frame[f] \in Frame
  BY <1>1 DEF Sound, Consistent, ListSound, Pool
<1> HIDE DEF f
<1>3. list \in Seq(Frames)
  BY <1>1, <1>2, MoveProperties
<1> HIDE DEF list
<1>4. u \in Pool /\ u.hash = s.hash /\ u.frame = s.frame
  BY <1>2, <1>3 DEF Pool
<1>5. Hit(s, k).s = t
  BY DEF Hit, Outcome, f, list
<1> HIDE DEF u
<1>6. r \in Frame /\ r.fixed
  BY <1>2 DEF Frame
<1> HIDE DEF r
<1>7. Keeps(u, t)
  BY <1>1, <1>4, <1>6, FrameUpdateKeeps
<1>8. Keeps(s, u)
  BY <1>4, SameFramesKeep
<1> HIDE DEF t
<1>9. Keeps(s, t)
  BY <1>7, <1>8, KeepsTrans
<1>10. QED
  BY <1>5, <1>9

\* PFbufGet keeps the held pages, whatever it evicts or fails at (buf.c:268-344).
LEMMA GetKeeps ==
  ASSUME NEW s, Sound(s), NEW k \in Keys, s.file[k[1]] \in Files,
         NEW o \in PFbufGet(s, k)
  PROVE  Keeps(s, o.s)
<1>1. CASE Resident(s, k)
  BY <1>1, HitKeeps DEF PFbufGet
<1>2. CASE ~ Resident(s, k)
  <2>1. PICK a \in PFbufInternalAlloc(s) :
          o \in IF a.rc # "OK" THEN {Outcome(a.rc, a.s)} ELSE ReadInto(a.s, k, a.b)
    BY <1>2 DEF PFbufGet
  <2>2. a.s.file = s.file /\ Keeps(s, a.s)
    BY InternalAllocHalfMade, InternalAllocKeeps
  <2>3. CASE a.rc # "OK"
    BY <2>1, <2>2, <2>3 DEF Outcome
  <2>4. CASE a.rc = "OK"
    <3>1. HalfMade(a.s, a.b) /\ a.s.hash[k] = NULL
      BY <1>2, <2>4, InternalAllocHalfMade DEF NoNewEntry, Resident
    <3>2. PICK r \in PFreadfcn(a.s, k) :
            o \in IF r.rc = "OK" THEN Install(a.s, k, a.b, a.s.disk[Place(a.s, k)])
                  ELSE {Outcome(r.rc, FreeFrame(a.s, a.b))}
      BY <2>1, <2>4 DEF ReadInto
    <3>3. CASE r.rc # "OK"
      <4>1. o.s = FreeFrame(a.s, a.b)
        BY <3>2, <3>3 DEF Outcome
      <4>2. QED
        BY <2>2, <3>1, <4>1, FreeKeeps, KeepsTrans
    <3>4. CASE r.rc = "OK"
      <4>1. a.s.disk[Place(a.s, k)] # Absent
        BY <3>2, <3>4, FaultOutcome DEF PFreadfcn
      <4>2. Place(a.s, k) \in Files \X Pages
        BY <2>2 DEF Place, Keys
      <4>3. a.s.disk[Place(a.s, k)] \in FPage
        BY <3>1, <4>1, <4>2 DEF HalfMade, Pool
      <4>4. Keeps(a.s, o.s)
        BY <3>1, <3>2, <3>4, <4>3, InstallKeeps
      <4>5. QED
        BY <2>2, <4>4, KeepsTrans
    <3>5. QED
      BY <3>3, <3>4
  <2>5. QED
    BY <2>3, <2>4
<1>3. QED
  BY <1>1, <1>2

\* PFbufAlloc keeps the held pages, whatever it evicts or fails at (buf.c:206-260).
LEMMA AllocKeeps ==
  ASSUME NEW s, Sound(s), NEW k \in Keys, NEW o \in PFbufAlloc(s, k)
  PROVE  Keeps(s, o.s)
<1>1. CASE Resident(s, k)
  BY <1>1 DEF PFbufAlloc, Outcome, Keeps
<1>2. CASE ~ Resident(s, k)
  <2>1. PICK a \in PFbufInternalAlloc(s) :
          o \in IF a.rc # "OK" THEN {Outcome(a.rc, a.s)}
                ELSE Install(a.s, k, a.b,
                             [a.s.frame[a.b].fpage EXCEPT !.nextfree = USED])
    BY <1>2 DEF PFbufAlloc
  <2>2. Keeps(s, a.s)
    BY InternalAllocKeeps
  <2>3. CASE a.rc # "OK"
    BY <2>1, <2>2, <2>3 DEF Outcome
  <2>4. CASE a.rc = "OK"
    <3>1. HalfMade(a.s, a.b) /\ a.s.hash[k] = NULL
      BY <1>2, <2>4, InternalAllocHalfMade DEF NoNewEntry, Resident
    <3>2. [a.s.frame[a.b].fpage EXCEPT !.nextfree = USED] \in FPage
      <4>1. a.s \in Pool /\ a.b \in Frames
        BY <3>1, ListedFrame DEF HalfMade
      <4>2. QED
        BY <4>1, PageTypes
    <3>3. Keeps(a.s, o.s)
      BY <2>1, <2>4, <3>1, <3>2, InstallKeeps
    <3>4. QED
      BY <2>2, <3>3, KeepsTrans
  <2>5. QED
    BY <2>3, <2>4
<1>3. QED
  BY <1>1, <1>2

\* A holder's write through its pointer keeps the held pages.
LEMMA FpageUpdateKeeps ==
  ASSUME NEW s \in Pool, NEW f \in Frames, NEW c \in FPage
  PROVE  Keeps(s, [s EXCEPT !.frame[f].fpage = c])
<1> DEFINE r == [s.frame[f] EXCEPT !.fpage = c]
<1>1. s.frame[f] \in Frame
  BY DEF Pool
<1>2. r \in Frame /\ r.fixed = s.frame[f].fixed
  BY <1>1 DEF Frame
<1>3. [s EXCEPT !.frame[f].fpage = c] = [s EXCEPT !.frame = [@ EXCEPT ![f] = r]]
  BY DEF Pool
<1> HIDE DEF r
<1>4. QED
  BY <1>2, <1>3, FrameUpdateKeeps

\* PFbufUsed keeps the held pages (buf.c:408-420).
LEMMA UsedKeeps ==
  ASSUME NEW s, Sound(s), NEW k \in Keys
  PROVE  Keeps(s, PFbufUsed(s, k).s)
<1>1. CASE ~ Resident(s, k)
  BY <1>1 DEF PFbufUsed, Outcome, Keeps
<1>2. CASE Resident(s, k)
  <2> DEFINE f == s.hash[k]
             c == [s.frame[f].fpage EXCEPT !.nextfree = USED]
  <2>1. f \in Frames /\ c \in FPage /\ s \in Pool
    BY <1>2, ResidentFrame, PageTypes DEF Sound
  <2>2. PFbufUsed(s, k).s = [s EXCEPT !.frame[f].fpage = c]
    BY <1>2, <2>1 DEF PFbufUsed, Outcome, Sound, Pool
  <2> HIDE DEF c, f
  <2>3. QED
    BY <2>1, <2>2, FpageUpdateKeeps
<1>3. QED
  BY <1>1, <1>2

\* A round of PFbufReleaseFile frees an unfixed frame, stops at a fixed one, or
\* fails to write; each keeps the held pages (buf.c:430-449).
LEMMA ReleaseStepKeeps ==
  ASSUME NEW s, Sound(s), NEW fd \in Fds, NEW o \in PFbufReleaseStep(s, fd)
  PROVE  Keeps(s, o.s)
<1>1. CASE FramesOf(s, fd) = {}
  BY <1>1 DEF PFbufReleaseStep, Outcome, Keeps
<1>2. CASE FramesOf(s, fd) # {}
  <2> DEFINE f == s.list[Min(FramesOf(s, fd))]
  <2>1. f \in Range(s.list)
    <3>1. DOMAIN s.list = 1 .. Len(s.list) /\ Len(s.list) \in Nat
      BY LenProperties DEF Sound, Pool
    <3>2. FramesOf(s, fd) \in SUBSET Nat /\ FramesOf(s, fd) \subseteq DOMAIN s.list
      BY <3>1 DEF FramesOf
    <3>3. Min(FramesOf(s, fd)) \in DOMAIN s.list
      BY <1>2, <3>2, LeastExists
    <3>4. QED
      BY <3>3 DEF Range
  <2> HIDE DEF f
  <2>2. f \in Frames /\ KeyOf(s, f) \in Keys /\ s \in Pool
    BY <2>1, ListedFrame DEF Sound, Consistent, ListHashed
  <2>3. o \in ReleaseFrame(s, f)
    BY <1>2 DEF PFbufReleaseStep, f
  <2>4. CASE s.frame[f].fixed
    BY <2>3, <2>4 DEF ReleaseFrame, Outcome, Keeps
  <2>5. CASE ~ s.frame[f].fixed
    <3>1. PICK w \in WriteBack(s, f) :
            o = IF w.rc = "OK"
                THEN Outcome("MORE", FreeFrame(PFhashDelete(w.s, KeyOf(s, f)), f))
                ELSE w
      BY <2>3, <2>5 DEF ReleaseFrame
    <3>2. OnlyDisk(s, w.s)
      BY <2>2, WriteBackOnlyDisk
    <3>3. /\ Sound(w.s) /\ w.s.hash = s.hash /\ w.s.frame = s.frame
          /\ f \in Range(w.s.list) /\ KeyOf(w.s, f) = KeyOf(s, f)
          /\ ~ w.s.frame[f].fixed
      BY <2>1, <2>5, <3>2, OnlyDiskSound DEF OnlyDisk, KeyOf
    <3>4. Keeps(s, w.s)
      BY <3>3, SameFramesKeep
    <3> DEFINE t == PFhashDelete(w.s, KeyOf(w.s, f))
    <3>5. HalfMade(t, f)
      BY <3>3, UnhashHalfMade
    <3>6. /\ t.hash = [w.s.hash EXCEPT ![KeyOf(w.s, f)] = NULL]
          /\ t.frame = w.s.frame
      BY <3>3 DEF PFhashDelete, Sound, Pool
    <3>7. OtherFramesSame(w.s, t, f)
      BY <3>6 DEF OtherFramesSame
    <3>8. o.s = w.s \/ o.s = FreeFrame(t, f)
      BY <3>1, <3>3 DEF Outcome
    <3> HIDE DEF t
    <3>9. Keeps(w.s, t)
      BY <3>3, <3>6, <3>7, TakenFrameKeeps
    <3>10. Keeps(t, FreeFrame(t, f))
      BY <3>5, FreeKeeps
    <3>11. QED
      BY <3>4, <3>8, <3>9, <3>10, KeepsTrans
  <2>6. QED
    BY <2>4, <2>5
<1>3. QED
  BY <1>1, <1>2

\* An unfix releases the page it is called for and no other, and moves nothing
\* (buf.c:351-402).
LEMMA UnfixKeepsOthers ==
  ASSUME NEW s, Sound(s), NEW k \in Keys, NEW dirty \in BOOLEAN
  PROVE  LET t == PFbufUnfix(s, k, dirty).s
         IN  /\ t.list = s.list /\ t.hash = s.hash
             /\ \A j \in Keys \ {k} : Fixed(s, j) => Fixed(t, j)
<1>1. CASE ~ Fixed(s, k)
  BY <1>1 DEF PFbufUnfix, Outcome
<1>2. CASE Fixed(s, k)
  <2> DEFINE f == s.hash[k]
             r == Released(s.frame[f], dirty)
             frame == [s.frame EXCEPT ![f] = r]
             t == [s EXCEPT !.frame = frame]
  <2>1. Resident(s, k) /\ f \in Frames /\ KeyOf(s, f) = k
    BY <1>2, ResidentFrame DEF Fixed
  <2>2. PFbufUnfix(s, k, dirty).s = t
    BY <1>2, <2>1 DEF PFbufUnfix, Outcome
  <2>3. s \in Pool /\ s.frame \in [Frames -> Frame]
    BY DEF Sound, Pool
  <2> HIDE DEF r
  <2>4. \A g \in Frames \ {f} : frame[g] = s.frame[g]
    BY <2>3
  <2> HIDE DEF frame
  <2>5. t.list = s.list /\ t.hash = s.hash /\ t.frame = frame
    BY <2>3 DEF Pool
  <2> HIDE DEF t
  <2>6. ASSUME NEW j \in Keys \ {k}, Fixed(s, j)
        PROVE  Fixed(t, j)
    <3>1. Resident(s, j) /\ s.hash[j] \in Frames /\ KeyOf(s, s.hash[j]) = j
      BY <2>6, ResidentFrame DEF Fixed
    <3>2. s.hash[j] # f
      BY <2>1, <2>6, <3>1
    <3>3. QED
      BY <2>4, <2>5, <2>6, <3>1, <3>2 DEF Fixed, Resident
  <2>7. QED
    BY <2>2, <2>5, <2>6
<1>3. QED
  BY <1>1, <1>2

-----------------------------------------------------------------------------
(* No page is lost. *)

\* Page k, allocated before, is not lost: it is in the file, or in a frame that
\* is dirty or, its holder being among those O who owe a dirty mark, will be.
Safe(s, k, O) ==
  IF Resident(s, k)
  THEN \/ k \in O
       \/ s.frame[s.hash[k]].dirty
       \/ s.disk[Place(s, k)] = Content(s, k)
  ELSE s.disk[Place(s, k)] # Absent
\* Distinct fds are open on distinct files, or one page would be written over
\* another.
Distinct(s) ==
  /\ s.file \in [Fds -> Files \cup {NULL}]
  /\ \A i, j \in Fds : s.file[i] \in Files /\ s.file[i] = s.file[j] => i = j
\* None of the pages B allocated so far, all in open files, is lost.  Only they
\* are buffered, and those in O are fixed.
Faithful(s, B, O) ==
  /\ B \subseteq Keys /\ O \subseteq Keys
  /\ Distinct(s)
  /\ \A k \in B : s.file[k[1]] \in Files
  /\ \A k \in Keys : Resident(s, k) => k \in B
  /\ \A k \in O : Fixed(s, k)
  /\ \A k \in B : Safe(s, k, O)

\* A caller sees no difference at page k, one of B or not.
SameSeen(s, t, B, k) ==
  /\ Fixed(t, k) <=> Fixed(s, k)
  /\ k \in B => Content(t, k) = Content(s, k)
\* The same files are open, and those that are not are left alone.
SameFiles(s, t) ==
  /\ t.file = s.file
  /\ \A q \in Files \X Pages :
       (\A fd \in Fds : s.file[fd] # q[1]) => t.disk[q] = s.disk[q]
\* From s to t a caller sees nothing change.
Unseen(s, t, B) ==
  /\ SameFiles(s, t)
  /\ \A k \in Keys : SameSeen(s, t, B, k)

\* Page k is entered in the hash table under frame f, which f now holds fixed.
Entered(s, t, k, f) ==
  /\ s.hash[k] = NULL /\ t.hash = [s.hash EXCEPT ![k] = f]
  /\ OtherFramesSame(s, t, f) /\ t.frame[f].fixed
  /\ t.disk = s.disk /\ t.file = s.file
\* Of what callers see, only the frame f that page k is in may differ.
Updated(s, t, k, f) ==
  /\ s.hash[k] = f /\ f # NULL /\ t.hash = s.hash
  /\ OtherFramesSame(s, t, f)
  /\ t.disk = s.disk /\ t.file = s.file
\* Only whether k is owed may differ between O and P.
SameOwed(O, P, k) == P \subseteq Keys /\ \A j \in Keys \ {k} : j \in P <=> j \in O

\* Steps nobody sees compose.
LEMMA UnseenTrans ==
  ASSUME NEW s, NEW t, NEW u, NEW B, Unseen(s, t, B), Unseen(t, u, B)
  PROVE  Unseen(s, u, B)
BY DEF Unseen, SameSeen, SameFiles

\* What leaves the disk alone leaves closed files alone.
LEMMA SameDisk ==
  ASSUME NEW s, NEW t, t.file = s.file, t.disk = s.disk
  PROVE  SameFiles(s, t)
BY DEF SameFiles

\* A page allocated has contents: it is never the Absent of a place past end of
\* file.
LEMMA BornContent ==
  ASSUME NEW s, Sound(s), NEW B, NEW O, Faithful(s, B, O), NEW k \in B
  PROVE  Content(s, k) \in FPage /\ Content(s, k) # Absent
<1>1. k \in Keys /\ Safe(s, k, O) /\ s \in Pool
  BY DEF Faithful, Sound
<1>2. CASE Resident(s, k)
  <2>1. s.hash[k] \in Frames
    BY <1>1, <1>2, ResidentFrame
  <2>2. QED
    BY <1>1, <1>2, <2>1, PageTypes, PoolAssumption DEF Content
<1>3. CASE ~ Resident(s, k)
  <2>1. Place(s, k) \in DOMAIN s.disk
    BY <1>1 DEF Faithful, Place, Keys, Pool
  <2>2. QED
    BY <1>1, <1>3, <2>1, PageTypes DEF Safe, Content
<1>4. QED
  BY <1>2, <1>3

\* Two pages never share a place in a file.
LEMMA PlacesDiffer ==
  ASSUME NEW s, Distinct(s), NEW j \in Keys, NEW k \in Keys, j # k,
         s.file[j[1]] \in Files
  PROVE  Place(s, j) \in Files \X Pages /\ Place(s, j) # Place(s, k)
<1>1. /\ j[1] \in Fds /\ j[2] \in Pages /\ j = <<j[1], j[2]>>
      /\ k[1] \in Fds /\ k[2] \in Pages /\ k = <<k[1], k[2]>>
  BY DEF Keys
<1>2. s.file[j[1]] = s.file[k[1]] => j[1] = k[1]
  BY <1>1 DEF Distinct
<1>3. QED
  BY <1>1, <1>2 DEF Place

\* A write that succeeds stores the page; one that does not may spoil the page's
\* own place and no other.  The hole it leaves is where no page was.
LEMMA WrittenPlaces ==
  ASSUME NEW s \in Pool, NEW k \in Keys, Place(s, k) \in Files \X Pages,
         NEW c \in FPage, NEW w \in PFwritefcn(s, k, c)
  PROVE  /\ \A q \in Files \X Pages : s.disk[q] # Absent =>
              /\ w.s.disk[q] # Absent
              /\ q # Place(s, k) => w.s.disk[q] = s.disk[q]
         /\ \A q \in Files \X Pages :
              q[1] # s.file[k[1]] => w.s.disk[q] = s.disk[q]
         /\ w.rc = "OK" => w.s.disk[Place(s, k)] = c
<1> DEFINE place == Place(s, k)
           ext == Extended(s.disk, place)
           whole == [ext EXCEPT ![place] = c]
           torn == [c EXCEPT !.data = Junk]
           part == [ext EXCEPT ![place] = IF @ = Absent THEN Absent ELSE torn]
<1>1. DOMAIN s.disk = Files \X Pages /\ Absent \notin FPage
  BY PoolAssumption DEF Pool
<1>2. torn \in FPage
  BY PoolAssumption DEF FPage
<1> HIDE DEF place, torn
<1>3. /\ DOMAIN ext = Files \X Pages
      /\ \A q \in Files \X Pages : s.disk[q] # Absent => ext[q] = s.disk[q]
      /\ \A q \in Files \X Pages : q[1] # place[1] => ext[q] = s.disk[q]
  BY <1>1 DEF Extended
<1> HIDE DEF ext
<1>4. place \in Files \X Pages /\ place[1] = s.file[k[1]]
  BY DEF place, Place
<1>5. /\ whole[place] = c
      /\ \A q \in Files \X Pages : q # place => whole[q] = ext[q]
      /\ part[place] = IF ext[place] = Absent THEN Absent ELSE torn
      /\ \A q \in Files \X Pages : q # place => part[q] = ext[q]
  BY <1>3, <1>4
<1>6. \/ w = Outcome("OK", [s EXCEPT !.disk = whole])
      \/ w = Outcome("UNIX", s)
      \/ w = Outcome("INCOMPLETEWRITE", [s EXCEPT !.disk = part])
  <2> HIDE DEF whole, part
  <2>1. whole = Stored(s.disk, place, c) /\ part = Torn(s.disk, place, c)
    BY DEF whole, part, Stored, Torn, ext, torn
  <2>2. \/ w \in {Outcome("OK", [s EXCEPT !.disk = whole])}
        \/ w \in OnFault("write", Outcome("UNIX", s))
        \/ w \in OnFault("write",
                         Outcome("INCOMPLETEWRITE", [s EXCEPT !.disk = part]))
    BY <2>1 DEF PFwritefcn, place
  <2>3. QED
    BY <2>2, FaultOutcome
<1> HIDE DEF whole, part
<1>7. \/ w.rc = "OK" /\ w.s.disk = whole
      \/ w.rc # "OK" /\ w.s.disk = s.disk
      \/ w.rc # "OK" /\ w.s.disk = part
  BY <1>6 DEF Outcome, Pool
<1>8. QED
  BY <1>1, <1>2, <1>3, <1>4, <1>5, <1>7 DEF place
-----------------------------------------------------------------------------
(* The small steps. *)

\* Writing a frame back shows nobody anything, however it ends; once it has
\* succeeded, the page of an unfixed frame is in the file (buf.c:154-162).
LEMMA WriteBackUnseen ==
  ASSUME NEW s, Sound(s), NEW B, NEW O,
         Faithful(s, B, O), NEW f \in Range(s.list), NEW w \in WriteBack(s, f)
  PROVE  /\ Faithful(w.s, B, O) /\ Unseen(s, w.s, B)
         /\ w.rc = "OK" /\ ~ s.frame[f].fixed =>
              w.s.disk[Place(s, KeyOf(s, f))] = s.frame[f].fpage
<1> DEFINE key == KeyOf(s, f)
           t == w.s
<1>1. /\ s \in Pool /\ f \in Frames /\ s.frame[f].fpage \in FPage
      /\ key \in Keys /\ s.hash[key] = f /\ Resident(s, key)
  BY ListedFrame, PageTypes, PoolAssumption
     DEF Sound, Consistent, ListHashed, Resident
<1>2. Distinct(s) /\ key \in B /\ s.file[key[1]] \in Files
  BY <1>1 DEF Faithful
<1> HIDE DEF key
<1>3. CASE ~ s.frame[f].dirty
  <2>1. t = s
    BY <1>3 DEF WriteBack, Outcome
  <2>2. ~ s.frame[f].fixed => s.disk[Place(s, key)] = s.frame[f].fpage
    BY <1>1, <1>3 DEF Faithful, Safe, Fixed, Content
  <2>3. Unseen(s, s, B)
    BY DEF Unseen, SameSeen, SameFiles
  <2>4. QED
    BY <2>1, <2>2, <2>3 DEF key
<1>4. CASE s.frame[f].dirty
  <2>1. w \in PFwritefcn(s, key, s.frame[f].fpage)
    BY <1>4 DEF WriteBack, key
  <2>2. Place(s, key) \in Files \X Pages
    BY <1>1, <1>2 DEF Place, Keys
  <2>3. /\ \A q \in Files \X Pages : s.disk[q] # Absent =>
             /\ t.disk[q] # Absent
             /\ q # Place(s, key) => t.disk[q] = s.disk[q]
        /\ \A q \in Files \X Pages :
             q[1] # s.file[key[1]] => t.disk[q] = s.disk[q]
        /\ w.rc = "OK" => t.disk[Place(s, key)] = s.frame[f].fpage
    BY <1>1, <2>1, <2>2, WrittenPlaces
  <2>4. /\ t.hash = s.hash /\ t.frame = s.frame /\ t.file = s.file
    BY <1>1, <2>1, WriteOnlyDisk DEF OnlyDisk
  <2> HIDE DEF t
  <2>5. /\ \A k \in Keys : Resident(t, k) <=> Resident(s, k)
        /\ \A k \in Keys : Fixed(t, k) <=> Fixed(s, k)
        /\ \A k \in Keys : Place(t, k) = Place(s, k)
    BY <2>4 DEF Resident, Fixed, Place
  <2>6. ASSUME NEW k \in B
        PROVE  /\ Content(t, k) = Content(s, k)
               /\ Safe(t, k, O)
    <3>0. k \in Keys /\ s.file[k[1]] \in Files
      BY DEF Faithful
    <3>1. CASE k = key
      BY <1>1, <1>4, <2>4, <2>5, <3>1 DEF Content, Safe
    <3>2. CASE k # key
      <4>1. Place(s, k) \in Files \X Pages /\ Place(s, k) # Place(s, key)
        BY <1>1, <1>2, <3>0, <3>2, PlacesDiffer
      <4>2. Resident(s, k) => s.frame[s.hash[k]].fpage \in FPage
        BY <1>1, <3>0, ResidentFrame, PageTypes
      <4>3. Resident(s, k) => Content(s, k) # Absent
        BY <4>2, PoolAssumption DEF Content
      <4>4. IF Resident(s, k)
            THEN \/ k \in O
                 \/ s.frame[s.hash[k]].dirty
                 \/ s.disk[Place(s, k)] = Content(s, k)
            ELSE s.disk[Place(s, k)] # Absent
        BY DEF Faithful, Safe
      <4>5. s.disk[Place(s, k)] # Absent => t.disk[Place(s, k)] = s.disk[Place(s, k)]
        BY <2>3, <4>1
      <4>6. Content(t, k) = Content(s, k)
        BY <2>4, <2>5, <3>0, <4>4, <4>5 DEF Content
      <4>7. QED
        BY <2>4, <2>5, <3>0, <4>3, <4>4, <4>5, <4>6 DEF Safe
    <3>3. QED
      BY <3>1, <3>2
  <2>7. Faithful(t, B, O)
    BY <2>4, <2>5, <2>6 DEF Faithful, Distinct
  <2>8. Unseen(s, t, B)
    <3>1. SameFiles(s, t)
      BY <1>1, <2>3, <2>4 DEF SameFiles, Keys
    <3>2. QED
      BY <2>5, <2>6, <3>1 DEF Unseen, SameSeen
  <2>9. QED
    BY <2>3, <2>7, <2>8 DEF key, t
<1>5. QED
  BY <1>3, <1>4

\* If page k is not lost and nothing happened to the others, none is lost.
LEMMA FaithfulBut ==
  ASSUME NEW s, NEW B, NEW O, Faithful(s, B, O),
         NEW k \in Keys, s.file[k[1]] \in Files,
         NEW t, t.file = s.file, t.disk = s.disk,
         \A j \in Keys \ {k} :
           /\ Resident(t, j) <=> Resident(s, j)
           /\ Resident(s, j) => t.frame[t.hash[j]] = s.frame[s.hash[j]]
           /\ Content(t, j) = Content(s, j)
           /\ Fixed(t, j) <=> Fixed(s, j),
         NEW P, SameOwed(O, P, k), Safe(t, k, P), k \in P => Fixed(t, k)
  PROVE  Faithful(t, B \cup {k}, P)
<1>1. \A j \in Keys : Resident(t, j) => j \in B \cup {k}
  BY DEF Faithful
<1>2. \A j \in P : Fixed(t, j)
  BY DEF Faithful, SameOwed
<1>3. ASSUME NEW j \in B \ {k}
      PROVE  Safe(t, j, P)
  <2>1. j \in Keys /\ Safe(s, j, O) /\ Place(t, j) = Place(s, j)
    BY DEF Faithful, Place
  <2>2. QED
    BY <2>1 DEF Safe, SameOwed
<1>4. QED
  BY <1>1, <1>2, <1>3 DEF Faithful, SameOwed, Distinct

\* Giving up an unfixed frame whose page is in the file shows nobody anything:
\* the page is read from the file from then on (buf.c:164-179, 436-446).
LEMMA DropUnseen ==
  ASSUME NEW s, Sound(s), NEW B, NEW O,
         Faithful(s, B, O), NEW f \in Range(s.list), ~ s.frame[f].fixed,
         s.disk[Place(s, KeyOf(s, f))] = s.frame[f].fpage,
         NEW t, t.hash = [s.hash EXCEPT ![KeyOf(s, f)] = NULL],
         OtherFramesSame(s, t, f), t.disk = s.disk, t.file = s.file
  PROVE  Faithful(t, B, O) /\ Unseen(s, t, B)
<1> DEFINE key == KeyOf(s, f)
<1>1. /\ s \in Pool /\ f \in Frames /\ s.frame[f].fpage \in FPage
      /\ key \in Keys /\ s.hash[key] = f /\ f # NULL
      /\ s.hash \in [Keys -> Frames \cup {NULL}]
  BY ListedFrame, PageTypes DEF Sound, Consistent, ListHashed, Pool
<1>2. s.disk[Place(s, key)] = s.frame[f].fpage /\ s.frame[f].fpage # Absent
  BY <1>1, PoolAssumption
<1>3. t.hash[key] = NULL /\ \A k \in Keys \ {key} : t.hash[k] = s.hash[k]
  BY <1>1
<1> HIDE DEF key
<1>4. \A k \in Keys : Place(t, k) = Place(s, k)
  BY DEF Place
<1>5. ~ Fixed(s, key) /\ ~ Fixed(t, key) /\ ~ Resident(t, key)
  BY <1>1, <1>3 DEF Fixed, Resident
<1>6. Content(t, key) = Content(s, key)
  BY <1>1, <1>2, <1>4, <1>5 DEF Content, Resident
<1>7. ASSUME NEW k \in Keys, k # key
      PROVE  /\ Resident(t, k) <=> Resident(s, k)
             /\ Resident(s, k) => t.frame[t.hash[k]] = s.frame[s.hash[k]]
             /\ Content(t, k) = Content(s, k)
             /\ Fixed(t, k) <=> Fixed(s, k)
  <2>1. t.hash[k] = s.hash[k]
    BY <1>3, <1>7
  <2>2. Resident(s, k) => s.hash[k] \in Frames \ {f}
    BY <1>7, ResidentFrame DEF key
  <2>3. Resident(s, k) => t.frame[t.hash[k]] = s.frame[s.hash[k]]
    BY <2>1, <2>2 DEF OtherFramesSame
  <2>4. QED
    BY <1>4, <2>1, <2>3 DEF Resident, Content, Fixed
<1>8. Unseen(s, t, B)
  BY <1>5, <1>6, <1>7, SameDisk DEF Unseen, SameSeen
<1>9. Faithful(t, B, O)
  <2>1. Safe(t, key, O)
    BY <1>1, <1>2, <1>4, <1>5 DEF Safe
  <2>2. SameOwed(O, O, key) /\ key \notin O
    BY <1>5 DEF Faithful, SameOwed
  <2>3. key \in B /\ B \cup {key} = B /\ s.file[key[1]] \in Files
    BY <1>1 DEF Faithful, Resident
  <2>4. QED
    BY <1>1, <1>7, <2>1, <2>2, <2>3, FaithfulBut
<1>10. QED
  BY <1>8, <1>9

\* What is done to a frame no hash entry leads to - one from malloc, one being
\* filled, one being freed - nobody sees.
LEMMA UnhashedUnseen ==
  ASSUME NEW s \in Pool, NEW B, NEW O,
         Faithful(s, B, O), NEW f, Unhashed(s, f),
         NEW t, t.hash = s.hash, OtherFramesSame(s, t, f),
         t.disk = s.disk, t.file = s.file
  PROVE  Faithful(t, B, O) /\ Unseen(s, t, B)
<1>1. ASSUME NEW k \in Keys
      PROVE  /\ Resident(t, k) <=> Resident(s, k)
             /\ Resident(s, k) => t.frame[t.hash[k]] = s.frame[s.hash[k]]
             /\ Content(t, k) = Content(s, k)
             /\ Fixed(t, k) <=> Fixed(s, k)
             /\ Place(t, k) = Place(s, k)
  <2>1. Resident(s, k) => s.hash[k] \in Frames \ {f}
    BY DEF Pool, Resident, Unhashed
  <2>2. Resident(s, k) => t.frame[t.hash[k]] = s.frame[s.hash[k]]
    BY <2>1 DEF OtherFramesSame
  <2>3. Place(t, k) = Place(s, k)
    BY DEF Place
  <2>4. QED
    BY <2>2, <2>3 DEF Resident, Content, Fixed
<1>2. Unseen(s, t, B)
  BY <1>1, SameDisk DEF Unseen, SameSeen
<1>3. Faithful(t, B, O)
  <2>1. \A k \in B : Safe(t, k, O)
    BY <1>1 DEF Faithful, Safe
  <2>2. QED
    BY <1>1, <2>1 DEF Faithful, Distinct
<1>4. QED
  BY <1>2, <1>3

\* Entering page k in the hash table, fixed: every other page looks as before,
\* and no page is lost if k is not (buf.c:332-343).
LEMMA EnterSeen ==
  ASSUME NEW s \in Pool, NEW B, NEW O, Faithful(s, B, O),
         NEW f \in Frames, Unhashed(s, f),
         NEW k \in Keys, s.file[k[1]] \in Files,
         NEW t, Entered(s, t, k, f),
         NEW P, SameOwed(O, P, k), Safe(t, k, P)
  PROVE  /\ Faithful(t, B \cup {k}, P)
         /\ Fixed(t, k) /\ Content(t, k) = t.frame[f].fpage
         /\ \A j \in Keys \ {k} : SameSeen(s, t, B, j)
<1>1. /\ t.hash[k] = f /\ \A j \in Keys \ {k} : t.hash[j] = s.hash[j]
      /\ OtherFramesSame(s, t, f) /\ t.frame[f].fixed
      /\ t.disk = s.disk /\ t.file = s.file /\ s.hash[k] = NULL
  BY DEF Pool, Entered
<1>2. \A j \in Keys : Place(t, j) = Place(s, j)
  BY <1>1 DEF Place
<1>3. Resident(t, k) /\ Fixed(t, k) /\ Content(t, k) = t.frame[f].fpage
  BY <1>1, PoolAssumption DEF Resident, Fixed, Content
<1>4. ASSUME NEW j \in Keys, j # k
      PROVE  /\ Resident(t, j) <=> Resident(s, j)
             /\ Resident(s, j) => t.frame[t.hash[j]] = s.frame[s.hash[j]]
             /\ Content(t, j) = Content(s, j)
             /\ Fixed(t, j) <=> Fixed(s, j)
  <2>1. t.hash[j] = s.hash[j]
    BY <1>1, <1>4
  <2>2. Resident(s, j) => s.hash[j] \in Frames \ {f}
    BY DEF Pool, Resident, Unhashed
  <2>3. Resident(s, j) => t.frame[t.hash[j]] = s.frame[s.hash[j]]
    BY <1>1, <2>1, <2>2 DEF OtherFramesSame
  <2>4. QED
    BY <1>1, <1>2, <2>1, <2>3 DEF Resident, Content, Fixed
<1>5. Faithful(t, B \cup {k}, P)
  BY <1>1, <1>2, <1>3, <1>4, FaithfulBut
<1>6. QED
  BY <1>3, <1>4, <1>5 DEF SameSeen

\* Changing what the frame of a buffered page k holds: every other page looks as
\* before, and no page is lost if k is not.
LEMMA UpdateSeen ==
  ASSUME NEW s, Sound(s), NEW B, NEW O, Faithful(s, B, O),
         NEW k \in Keys, NEW f, NEW t, Updated(s, t, k, f),
         NEW P, SameOwed(O, P, k), Safe(t, k, P), k \in P => Fixed(t, k)
  PROVE  /\ Faithful(t, B, P)
         /\ Fixed(t, k) <=> t.frame[f].fixed
         /\ Content(t, k) = t.frame[f].fpage
         /\ \A j \in Keys \ {k} : SameSeen(s, t, B, j)
<1>1. /\ s.hash[k] = f /\ t.hash = s.hash /\ OtherFramesSame(s, t, f)
      /\ t.disk = s.disk /\ t.file = s.file /\ Resident(s, k)
  BY DEF Updated, Resident
<1>2. \A j \in Keys : Place(t, j) = Place(s, j)
  BY <1>1 DEF Place
<1>3. /\ Resident(t, k) /\ (Fixed(t, k) <=> t.frame[f].fixed)
      /\ Content(t, k) = t.frame[f].fpage
  BY <1>1 DEF Resident, Fixed, Content
<1>4. ASSUME NEW j \in Keys, j # k
      PROVE  /\ Resident(t, j) <=> Resident(s, j)
             /\ Resident(s, j) => t.frame[t.hash[j]] = s.frame[s.hash[j]]
             /\ Content(t, j) = Content(s, j)
             /\ Fixed(t, j) <=> Fixed(s, j)
  <2>1. Resident(s, j) => s.hash[j] \in Frames \ {f}
    BY <1>1, <1>4, ResidentFrame
  <2>2. Resident(s, j) => t.frame[t.hash[j]] = s.frame[s.hash[j]]
    BY <1>1, <2>1 DEF OtherFramesSame
  <2>3. QED
    BY <1>1, <1>2, <2>2 DEF Resident, Content, Fixed
<1>5. k \in B /\ B \cup {k} = B /\ s.file[k[1]] \in Files
  BY <1>1 DEF Faithful
<1>6. Faithful(t, B, P)
  BY <1>1, <1>2, <1>4, <1>5, FaithfulBut
<1>7. QED
  BY <1>3, <1>4, <1>6 DEF SameSeen
-----------------------------------------------------------------------------
(* The calls. *)

\* What freeing a half-made frame leaves alone (buf.c:322-339).
LEMMA FreeShape ==
  ASSUME NEW s, NEW b, HalfMade(s, b)
  PROVE  LET t == FreeFrame(s, b)
         IN  /\ t.list = PFbufUnlink(s.list, b) /\ t.hash = s.hash
             /\ OtherFramesSame(s, t, b)
             /\ t.disk = s.disk /\ t.file = s.file /\ t.strategy = s.strategy
<1>1. /\ s \in Pool /\ b \in Range(s.list)
      /\ s.list \in Seq(Frames) /\ IsInjective(s.list)
      /\ s.numbpage = Len(s.list) /\ s.frame \in [Frames -> Frame]
  BY DEF HalfMade, ListSound, Pool
<1>2. /\ PFbufUnlink(s.list, b) \in Seq(Frames)
      /\ Len(PFbufUnlink(s.list, b)) = Len(s.list) - 1
  BY <1>1, UnlinkProperties
<1>3. b \in Frames /\ s.numbpage > 0
  <2>1. Len(PFbufUnlink(s.list, b)) \in Nat /\ Len(s.list) \in Nat
    BY <1>1, <1>2, LenProperties
  <2>2. QED
    BY <1>1, <1>2, <2>1, ListedFrame
<1> DEFINE t == FreeFrame(s, b)
<1>4. /\ t.list = PFbufUnlink(s.list, b) /\ t.hash = s.hash
      /\ t.frame = [s.frame EXCEPT ![b] = FreedFrame]
      /\ t.disk = s.disk /\ t.file = s.file /\ t.strategy = s.strategy
  BY <1>1, <1>2, <1>3, FreeFrameFields
<1> HIDE DEF t
<1>5. OtherFramesSame(s, t, b)
  BY <1>1, <1>4 DEF OtherFramesSame
<1>6. QED
  BY <1>4, <1>5 DEF t

\* Undoing a half-made frame shows nobody anything.
LEMMA FreeUnseen ==
  ASSUME NEW s, NEW B, NEW O,
         Faithful(s, B, O), NEW b, HalfMade(s, b)
  PROVE  Faithful(FreeFrame(s, b), B, O) /\ Unseen(s, FreeFrame(s, b), B)
<1>1. s \in Pool /\ Unhashed(s, b)
  BY HalfMadeUnhashed DEF HalfMade
<1> DEFINE t == FreeFrame(s, b)
<1>2. /\ t.hash = s.hash /\ OtherFramesSame(s, t, b)
      /\ t.disk = s.disk /\ t.file = s.file
  BY FreeShape
<1> HIDE DEF t
<1>3. Faithful(t, B, O) /\ Unseen(s, t, B)
  BY <1>1, <1>2, UnhashedUnseen
<1>4. QED
  BY <1>3 DEF t

\* Getting a frame shows nobody anything, even if it takes the frame of a page,
\* or spoils the file in a write back that fails (buf.c:100-180).
LEMMA InternalAllocUnseen ==
  ASSUME NEW s, Sound(s), NEW B, NEW O,
         Faithful(s, B, O), NEW a \in PFbufInternalAlloc(s)
  PROVE  Faithful(a.s, B, O) /\ Unseen(s, a.s, B)
<1>0. /\ s \in Pool /\ s.list \in Seq(Frames) /\ IsInjective(s.list)
      /\ s.frame \in [Frames -> Frame]
  BY DEF Sound, Pool, Consistent, ListSound
<1>1. CASE a.s = s
  BY <1>1 DEF Unseen, SameSeen, SameFiles
<1>2. ASSUME NEW f \in Frames \ Range(s.list), a.s = NewFrame(s, f)
      PROVE  Faithful(a.s, B, O) /\ Unseen(s, a.s, B)
  <2> DEFINE t == NewFrame(s, f)
  <2>1. PFbufLinkHead(s.list, f) \in Seq(Frames)
    BY <1>0, LinkProperties
  <2>2. /\ t.hash = s.hash /\ t.frame = [s.frame EXCEPT ![f] = FreedFrame]
        /\ t.disk = s.disk /\ t.file = s.file
    BY <1>0, <2>1, NewFrameFields
  <2> HIDE DEF t
  <2>3. OtherFramesSame(s, t, f)
    BY <1>0, <2>2 DEF OtherFramesSame
  <2>4. Unhashed(s, f)
    BY DEF Sound, Consistent, HashLinked, Unhashed
  <2>5. QED
    BY <1>0, <1>2, <2>2, <2>3, <2>4, UnhashedUnseen DEF t
<1>3. ASSUME Unfixed(s) # {}, NEW w \in WriteBack(s, Victim(s)),
             \/ w.rc = "OK" /\ a.s = Reuse(w.s, Victim(s))
             \/ a.s = w.s
      PROVE  Faithful(a.s, B, O) /\ Unseen(s, a.s, B)
  <2> DEFINE f == Victim(s)
  <2>1. f \in Range(s.list) /\ f \in Frames /\ ~ s.frame[f].fixed /\ KeyOf(s, f) \in Keys
    BY <1>0, <1>3, VictimListed, VictimUnfixed, ListedFrame
       DEF Sound, Consistent, ListHashed
  <2> HIDE DEF f
  <2>2. /\ Faithful(w.s, B, O) /\ Unseen(s, w.s, B)
        /\ w.rc = "OK" => w.s.disk[Place(s, KeyOf(s, f))] = s.frame[f].fpage
    BY <1>3, <2>1, WriteBackUnseen DEF f
  <2>3. OnlyDisk(s, w.s)
    BY <1>0, <1>3, <2>1, WriteBackOnlyDisk DEF f
  <2>4. /\ Sound(w.s) /\ w.s.list = s.list /\ w.s.frame = s.frame
        /\ w.s.file = s.file /\ w.s \in Pool
    BY <2>3, OnlyDiskSound DEF OnlyDisk
  <2>5. CASE w.rc = "OK" /\ a.s = Reuse(w.s, f)
    <3> DEFINE t == Reuse(w.s, f)
    <3>1. MoveToHead(w.s.list, f) \in Seq(Frames)
      BY <1>0, <2>1, <2>4, MoveProperties
    <3>2. /\ \A g \in Frames \ {f} : t.frame[g] = w.s.frame[g]
          /\ t.hash = [w.s.hash EXCEPT ![KeyOf(w.s, f)] = NULL]
          /\ t.disk = w.s.disk /\ t.file = w.s.file
      BY <2>1, <2>4, <3>1, ReuseFields
    <3> HIDE DEF t
    <3>3. OtherFramesSame(w.s, t, f)
      BY <3>2 DEF OtherFramesSame
    <3>4. w.s.disk[Place(w.s, KeyOf(w.s, f))] = w.s.frame[f].fpage
      BY <2>2, <2>4, <2>5 DEF Place, KeyOf
    <3>5. f \in Range(w.s.list) /\ ~ w.s.frame[f].fixed
      BY <2>1, <2>4
    <3>6. Faithful(t, B, O) /\ Unseen(w.s, t, B)
      BY <2>2, <2>4, <3>2, <3>3, <3>4, <3>5, DropUnseen
    <3>7. QED
      BY <2>2, <2>5, <3>6, UnseenTrans DEF t
  <2>6. QED
    BY <1>3, <2>2, <2>5 DEF f
<1>4. QED
  BY <1>1, <1>2, <1>3, InternalAllocOutcomes

\* Filling a half-made frame for page k shows the others nothing: k fixed and as
\* given if it succeeds, nothing if it does not (buf.c:313-343).
LEMMA InstallSeen ==
  ASSUME NEW s, NEW B, NEW O,
         Faithful(s, B, O), NEW f, HalfMade(s, f),
         NEW k \in Keys, s.hash[k] = NULL, s.file[k[1]] \in Files,
         NEW c \in FPage,
         NEW P, SameOwed(O, P, k), k \in P \/ s.disk[Place(s, k)] = c,
         NEW o \in Install(s, k, f, c)
  PROVE  /\ SameFiles(s, o.s)
         /\ \A j \in Keys \ {k} : SameSeen(s, o.s, B, j)
         /\ o.rc = "OK" => /\ Faithful(o.s, B \cup {k}, P)
                           /\ Fixed(o.s, k) /\ Content(o.s, k) = c
         /\ o.rc # "OK" => Faithful(o.s, B, O) /\ Unseen(s, o.s, B)
<1>1. s \in Pool /\ f \in Frames /\ Unhashed(s, f)
  BY ListedFrame, HalfMadeUnhashed DEF HalfMade
<1>2. PICK u \in Pool, t \in Pool :
        /\ u.hash = s.hash /\ u.disk = s.disk /\ u.file = s.file
        /\ HalfMade(u, f)
        /\ \A g \in Frames \ {f} : u.frame[g] = s.frame[g]
        /\ t.hash = [s.hash EXCEPT ![k] = f]
        /\ t.disk = s.disk /\ t.file = s.file
        /\ \A g \in Frames \ {f} : t.frame[g] = s.frame[g]
        /\ t.frame[f] = [fd |-> k[1], page |-> k[2], fixed |-> TRUE,
                         dirty |-> FALSE, fpage |-> c]
        /\ \/ o.rc = "OK" /\ o.s = t
           \/ o.rc # "OK" /\ o.s = FreeFrame(u, f)
  BY InstallOutcomes
<1>3. OtherFramesSame(s, u, f) /\ OtherFramesSame(s, t, f)
  BY <1>2 DEF OtherFramesSame
<1>4. /\ Faithful(t, B \cup {k}, P) /\ Fixed(t, k) /\ Content(t, k) = c
      /\ \A j \in Keys \ {k} : SameSeen(s, t, B, j)
  <2>1. Entered(s, t, k, f) /\ t.frame[f].fpage = c
    BY <1>2, <1>3 DEF Entered
  <2>2. Safe(t, k, P)
    <3>1. t.hash[k] = f /\ f # NULL
      BY <1>1, <1>2, PoolAssumption DEF Pool
    <3>2. QED
      BY <1>2, <2>1, <3>1 DEF Safe, Resident, Content, Place
  <2>3. /\ Faithful(t, B \cup {k}, P)
        /\ Fixed(t, k) /\ Content(t, k) = t.frame[f].fpage
        /\ \A j \in Keys \ {k} : SameSeen(s, t, B, j)
    BY <1>1, <2>1, <2>2, EnterSeen
  <2>4. QED
    BY <2>1, <2>3
<1>5. Faithful(u, B, O) /\ Unseen(s, u, B)
  BY <1>1, <1>2, <1>3, UnhashedUnseen
<1>6. /\ Faithful(FreeFrame(u, f), B, O)
      /\ Unseen(s, FreeFrame(u, f), B)
  BY <1>2, <1>5, FreeUnseen, UnseenTrans
<1>7. CASE o.rc = "OK" /\ o.s = t
  BY <1>2, <1>4, <1>7, SameDisk
<1>8. CASE o.rc # "OK" /\ o.s = FreeFrame(u, f)
  BY <1>6, <1>8 DEF Unseen
<1>9. QED
  BY <1>2, <1>7, <1>8

\* What replacing the contents of one frame leaves alone.
LEMMA FrameUpdateShape ==
  ASSUME NEW s \in Pool, NEW f \in Frames, NEW r
  PROVE  LET t == [s EXCEPT !.frame = [@ EXCEPT ![f] = r]]
         IN  /\ t.list = s.list /\ t.hash = s.hash /\ t.disk = s.disk
             /\ t.file = s.file /\ t.strategy = s.strategy
             /\ OtherFramesSame(s, t, f) /\ t.frame[f] = r
<1> DEFINE frame == [s.frame EXCEPT ![f] = r]
           t == [s EXCEPT !.frame = frame]
<1>1. frame[f] = r /\ \A g \in Frames \ {f} : frame[g] = s.frame[g]
  BY DEF Pool
<1> HIDE DEF frame
<1>2. /\ t.list = s.list /\ t.hash = s.hash /\ t.disk = s.disk
      /\ t.file = s.file /\ t.strategy = s.strategy /\ t.frame = frame
  BY DEF Pool
<1> HIDE DEF t
<1>3. OtherFramesSame(s, t, f) /\ t.frame[f] = r
  BY <1>1, <1>2 DEF OtherFramesSame
<1>4. QED
  BY <1>2, <1>3 DEF t, frame

\* What a hit changes: the frame goes to the head of the list and is fixed.
LEMMA HitShape ==
  ASSUME NEW s, Sound(s), NEW k \in Keys, Resident(s, k)
  PROVE  LET t == Hit(s, k).s
             f == s.hash[k]
         IN  /\ t.list = MoveToHead(s.list, f) /\ t.hash = s.hash
             /\ t.disk = s.disk /\ t.file = s.file /\ t.strategy = s.strategy
             /\ OtherFramesSame(s, t, f)
             /\ t.frame[f] = [s.frame[f] EXCEPT !.fixed = TRUE]
<1> DEFINE f == s.hash[k]
           r == [s.frame[f] EXCEPT !.fixed = TRUE]
           list == MoveToHead(s.list, f)
           u == [s EXCEPT !.list = list]
           t == [u EXCEPT !.frame = [@ EXCEPT ![f] = r]]
<1>1. f \in Range(s.list) /\ f \in Frames
  BY ResidentFrame
<1>2. s \in Pool /\ s.list \in Seq(Frames) /\ IsInjective(s.list)
  BY DEF Sound, Consistent, ListSound, Pool
<1>3. Hit(s, k).s = t
  BY DEF Hit, Outcome
<1> HIDE DEF f
<1>4. list \in Seq(Frames)
  BY <1>1, <1>2, MoveProperties
<1> HIDE DEF list
<1>5. /\ u \in Pool /\ u.list = list /\ u.hash = s.hash /\ u.frame = s.frame
      /\ u.disk = s.disk /\ u.file = s.file /\ u.strategy = s.strategy
  BY <1>2, <1>4 DEF Pool
<1> HIDE DEF u, r
<1>6. /\ t.list = u.list /\ t.hash = u.hash /\ t.disk = u.disk
      /\ t.file = u.file /\ t.strategy = u.strategy
      /\ OtherFramesSame(u, t, f) /\ t.frame[f] = r
  BY <1>1, <1>5, FrameUpdateShape
<1> HIDE DEF t
<1>7. OtherFramesSame(s, t, f)
  BY <1>5, <1>6 DEF OtherFramesSame
<1>8. QED
  BY <1>3, <1>5, <1>6, <1>7 DEF f, r, list

\* A hit shows its caller the page as it is and fixed, the others nothing.
LEMMA HitSeen ==
  ASSUME NEW s, Sound(s), NEW B, NEW O, Faithful(s, B, O),
         NEW k \in Keys, Resident(s, k)
  PROVE  LET t == Hit(s, k).s
         IN  /\ Faithful(t, B, O) /\ SameFiles(s, t)
             /\ Fixed(t, k) /\ Content(t, k) = Content(s, k)
             /\ \A j \in Keys \ {k} : SameSeen(s, t, B, j)
<1> DEFINE t == Hit(s, k).s
           f == s.hash[k]
<1>1. /\ t.hash = s.hash /\ t.disk = s.disk /\ t.file = s.file
      /\ OtherFramesSame(s, t, f)
      /\ t.frame[f] = [s.frame[f] EXCEPT !.fixed = TRUE]
  BY HitShape
<1>2. f \in Frames /\ f # NULL /\ s.frame[f] \in Frame
  <2>1. f \in Frames /\ s.frame \in [Frames -> Frame]
    BY ResidentFrame DEF Sound, Pool
  <2>2. QED
    BY <2>1, PoolAssumption
<1> HIDE DEF t, f
<1>3. /\ t.frame[f].fixed /\ t.frame[f].dirty = s.frame[f].dirty
      /\ t.frame[f].fpage = s.frame[f].fpage
  BY <1>1, <1>2 DEF Frame
<1>4. Updated(s, t, k, f)
  BY <1>1, <1>2 DEF Updated, f
<1>5. Fixed(t, k) /\ Content(t, k) = Content(s, k) /\ SameOwed(O, O, k)
  BY <1>1, <1>2, <1>3 DEF Fixed, Resident, Content, f, Faithful, SameOwed
<1>6. Safe(t, k, O)
  <2>1. Safe(s, k, O)
    BY DEF Faithful
  <2>2. QED
    BY <1>1, <1>3, <1>5, <2>1 DEF Safe, Resident, Place, f
<1>7. Faithful(t, B, O) /\ \A j \in Keys \ {k} : SameSeen(s, t, B, j)
  BY <1>4, <1>5, <1>6, UpdateSeen
<1>8. QED
  BY <1>1, <1>5, <1>7, SameDisk DEF t

\* What the caller of PFbufGet sees: the page as it was, and fixed now if it was
\* not and the call succeeds.
Got(s, o, B, O, k) ==
  /\ Faithful(o.s, B, O) /\ SameFiles(s, o.s)
  /\ o.rc = "OK" => ~ Fixed(s, k) /\ Fixed(o.s, k)
  /\ o.rc # "OK" => (Fixed(o.s, k) <=> Fixed(s, k))
  /\ Content(o.s, k) = Content(s, k)
  /\ \A j \in Keys \ {k} : SameSeen(s, o.s, B, j)

\* PFbufGet, hit or miss, shows its caller the page as it was last written, and
\* nobody else anything; also if it fails after taking a frame (buf.c:268-344).
LEMMA GetSeen ==
  ASSUME NEW s, Sound(s), NEW B, NEW O, Faithful(s, B, O),
         NEW k \in B, NEW o \in PFbufGet(s, k)
  PROVE  Got(s, o, B, O, k)
<1>0. k \in Keys
  BY DEF Faithful
<1>1. CASE Resident(s, k)
  <2>1. o.s = Hit(s, k).s /\ o = Hit(s, k)
    BY <1>1 DEF PFbufGet
  <2>2. o.rc = IF Fixed(s, k) THEN "PAGEFIXED" ELSE "OK"
    BY <1>1, <2>1 DEF Hit, Outcome, Fixed
  <2>3. /\ Faithful(o.s, B, O) /\ SameFiles(s, o.s)
        /\ Fixed(o.s, k) /\ Content(o.s, k) = Content(s, k)
        /\ \A j \in Keys \ {k} : SameSeen(s, o.s, B, j)
    BY <1>0, <1>1, <2>1, HitSeen
  <2>4. QED
    BY <2>2, <2>3 DEF Got
<1>2. CASE ~ Resident(s, k)
  <2>1. PICK a \in PFbufInternalAlloc(s) :
          o \in IF a.rc # "OK" THEN {Outcome(a.rc, a.s)} ELSE ReadInto(a.s, k, a.b)
    BY <1>2 DEF PFbufGet
  <2>2. Faithful(a.s, B, O) /\ Unseen(s, a.s, B)
    BY InternalAllocUnseen
  <2>3. ASSUME Faithful(o.s, B, O), Unseen(s, o.s, B), o.rc # "OK"
        PROVE  Got(s, o, B, O, k)
    BY <1>0, <2>3 DEF Unseen, SameSeen, Got
  <2>4. CASE a.rc # "OK"
    <3>1. o.rc = a.rc /\ o.s = a.s
      BY <2>1, <2>4 DEF Outcome
    <3>2. QED
      BY <2>2, <2>3, <2>4, <3>1
  <2>5. CASE a.rc = "OK"
    <3>1. HalfMade(a.s, a.b) /\ a.s.hash[k] = NULL
      BY <1>0, <1>2, <2>5, InternalAllocHalfMade DEF NoNewEntry, Resident
    <3>2. PICK r \in PFreadfcn(a.s, k) :
            o \in IF r.rc = "OK" THEN Install(a.s, k, a.b, a.s.disk[Place(a.s, k)])
                  ELSE {Outcome(r.rc, FreeFrame(a.s, a.b))}
      BY <2>1, <2>5 DEF ReadInto
    <3>3. CASE r.rc # "OK"
      <4>1. o.s = FreeFrame(a.s, a.b) /\ o.rc # "OK"
        BY <3>2, <3>3 DEF Outcome
      <4>2. Faithful(o.s, B, O) /\ Unseen(a.s, o.s, B)
        BY <2>2, <3>1, <4>1, FreeUnseen
      <4>3. QED
        BY <2>2, <2>3, <4>1, <4>2, UnseenTrans
    <3>4. CASE r.rc = "OK"
      <4> DEFINE c == a.s.disk[Place(a.s, k)]
      <4>1. o \in Install(a.s, k, a.b, c)
        BY <3>2, <3>4
      <4>2. c \in FPage
        <5>1. c # Absent
          BY <3>2, <3>4, FaultOutcome DEF PFreadfcn
        <5>2. Place(a.s, k) \in Files \X Pages
          BY <1>0, <2>2 DEF Place, Keys, Faithful
        <5>3. QED
          BY <3>1, <5>1, <5>2 DEF HalfMade, Pool
      <4>3. ~ Resident(a.s, k) /\ Content(a.s, k) = c
        BY <3>1 DEF Resident, Content
      <4> HIDE DEF c
      <4>4. /\ SameOwed(O, O, k) /\ B \cup {k} = B
            /\ k \in O \/ a.s.disk[Place(a.s, k)] = c
            /\ a.s.file[k[1]] \in Files
        BY <2>2 DEF SameOwed, Faithful, c
      <4>5. /\ SameFiles(a.s, o.s)
            /\ \A j \in Keys \ {k} : SameSeen(a.s, o.s, B, j)
            /\ o.rc = "OK" => /\ Faithful(o.s, B \cup {k}, O)
                              /\ Fixed(o.s, k) /\ Content(o.s, k) = c
            /\ o.rc # "OK" => Faithful(o.s, B, O) /\ Unseen(a.s, o.s, B)
        BY <1>0, <2>2, <3>1, <4>1, <4>2, <4>4, InstallSeen
      <4>6. CASE o.rc = "OK"
        <5>1. \A j \in Keys \ {k} : SameSeen(s, o.s, B, j)
          BY <2>2, <4>5 DEF Unseen, SameSeen
        <5>2. Content(o.s, k) = Content(s, k)
          BY <1>0, <2>2, <4>3, <4>5, <4>6 DEF Unseen, SameSeen
        <5>3. SameFiles(s, o.s)
          BY <2>2, <4>5 DEF Unseen, SameFiles
        <5>4. ~ Fixed(s, k)
          BY <1>2 DEF Fixed
        <5>5. QED
          BY <4>4, <4>5, <4>6, <5>1, <5>2, <5>3, <5>4 DEF Got
      <4>7. CASE o.rc # "OK"
        BY <2>2, <2>3, <4>5, <4>7, UnseenTrans
      <4>8. QED
        BY <4>6, <4>7
    <3>5. QED
      BY <3>3, <3>4
  <2>6. QED
    BY <2>4, <2>5
<1>3. QED
  BY <1>1, <1>2

\* PFbufAlloc brings a page that was not there into being, fixed and owed a dirty
\* mark, or shows nobody anything (buf.c:206-260).
LEMMA AllocSeen ==
  ASSUME NEW s, Sound(s), NEW B, NEW O, Faithful(s, B, O),
         NEW k \in Keys, k \notin B, s.file[k[1]] \in Files,
         NEW o \in PFbufAlloc(s, k)
  PROVE  /\ o.rc = "OK" => /\ Faithful(o.s, B \cup {k}, O \cup {k})
                           /\ SameFiles(s, o.s)
                           /\ \A j \in Keys \ {k} : SameSeen(s, o.s, B, j)
         /\ o.rc # "OK" => Faithful(o.s, B, O) /\ Unseen(s, o.s, B)
<1>1. ~ Resident(s, k)
  BY DEF Faithful
<1>2. PICK a \in PFbufInternalAlloc(s) :
        o \in IF a.rc # "OK" THEN {Outcome(a.rc, a.s)}
              ELSE Install(a.s, k, a.b,
                           [a.s.frame[a.b].fpage EXCEPT !.nextfree = USED])
  BY <1>1 DEF PFbufAlloc
<1>3. Faithful(a.s, B, O) /\ Unseen(s, a.s, B)
  BY InternalAllocUnseen
<1>4. CASE a.rc # "OK"
  <2>1. o.rc # "OK" /\ o.s = a.s
    BY <1>2, <1>4 DEF Outcome
  <2>2. QED
    BY <1>3, <2>1
<1>5. CASE a.rc = "OK"
  <2> DEFINE c == [a.s.frame[a.b].fpage EXCEPT !.nextfree = USED]
  <2>1. HalfMade(a.s, a.b) /\ a.s.hash[k] = NULL
    BY <1>1, <1>5, InternalAllocHalfMade DEF NoNewEntry, Resident
  <2>2. c \in FPage
    <3>1. a.s \in Pool /\ a.b \in Frames
      BY <2>1, ListedFrame DEF HalfMade
    <3>2. QED
      BY <3>1, PageTypes
  <2>3. o \in Install(a.s, k, a.b, c)
    BY <1>2, <1>5
  <2> HIDE DEF c
  <2>4. SameOwed(O, O \cup {k}, k) /\ k \in O \cup {k} /\ a.s.file = s.file
    BY <1>3 DEF SameOwed, Faithful, Unseen, SameFiles
  <2>5. /\ SameFiles(a.s, o.s)
        /\ \A j \in Keys \ {k} : SameSeen(a.s, o.s, B, j)
        /\ o.rc = "OK" => Faithful(o.s, B \cup {k}, O \cup {k})
        /\ o.rc # "OK" => Faithful(o.s, B, O) /\ Unseen(a.s, o.s, B)
    BY <1>3, <2>1, <2>2, <2>3, <2>4, InstallSeen
  <2>6. SameFiles(s, o.s) /\ \A j \in Keys \ {k} : SameSeen(s, o.s, B, j)
    BY <1>3, <2>5 DEF Unseen, SameSeen, SameFiles
  <2>7. o.rc # "OK" => Unseen(s, o.s, B)
    BY <1>3, <2>5, UnseenTrans
  <2>8. QED
    BY <2>5, <2>6, <2>7
<1>6. QED
  BY <1>4, <1>5

\* PFbufUnfix releases the page, as it is, if whoever owes a dirty mark gives it;
\* the others see nothing (buf.c:351-402).
LEMMA UnfixSeen ==
  ASSUME NEW s, Sound(s), NEW B, NEW O, Faithful(s, B, O),
         NEW k \in Keys, NEW dirty \in BOOLEAN, k \in O => dirty = TRUE
  PROVE  LET t == PFbufUnfix(s, k, dirty).s
         IN  /\ Faithful(t, B, O \ {k}) /\ SameFiles(s, t)
             /\ ~ Fixed(t, k) /\ Content(t, k) = Content(s, k)
             /\ \A j \in Keys \ {k} : SameSeen(s, t, B, j)
<1>1. CASE ~ Fixed(s, k)
  <2>1. PFbufUnfix(s, k, dirty).s = s
    BY <1>1 DEF PFbufUnfix, Outcome
  <2>2. O \ {k} = O
    BY <1>1 DEF Faithful
  <2>3. QED
    BY <1>1, <2>1, <2>2, SameDisk DEF SameSeen
<1>2. CASE Fixed(s, k)
  <2> DEFINE f == s.hash[k]
             r == Released(s.frame[f], dirty)
             t == [s EXCEPT !.frame = [@ EXCEPT ![f] = r]]
  <2>1. Resident(s, k) /\ f \in Frames /\ f # NULL /\ s \in Pool
    BY <1>2, ResidentFrame DEF Fixed, Resident, Sound
  <2>2. PFbufUnfix(s, k, dirty).s = t
    <3>1. PFbufUnfix(s, k, dirty) = Outcome("OK", [s EXCEPT !.frame[f] = r])
      BY <1>2, <2>1 DEF PFbufUnfix
    <3> HIDE DEF r, f
    <3>2. QED
      BY <3>1 DEF Outcome
  <2>3. /\ ~ r.fixed /\ r.fpage = s.frame[f].fpage
        /\ r.dirty <=> s.frame[f].dirty \/ dirty
    <3>1. \A x \in Frame : /\ ~ Released(x, dirty).fixed
                           /\ Released(x, dirty).fpage = x.fpage
                           /\ Released(x, dirty).dirty <=> x.dirty \/ dirty
      BY DEF Released, Frame
    <3>2. s.frame[f] \in Frame
      BY <2>1 DEF Pool
    <3>3. QED
      BY <3>1, <3>2
  <2> HIDE DEF f, r
  <2>4. /\ t.hash = s.hash /\ t.disk = s.disk /\ t.file = s.file
        /\ OtherFramesSame(s, t, f) /\ t.frame[f] = r
    BY <2>1, FrameUpdateShape
  <2> HIDE DEF t
  <2>5. Updated(s, t, k, f)
    BY <2>1, <2>4 DEF Updated, f
  <2>6. ~ Fixed(t, k) /\ Content(t, k) = Content(s, k)
    BY <2>1, <2>3, <2>4 DEF Fixed, Resident, Content, f
  <2>7. SameOwed(O, O \ {k}, k) /\ k \notin O \ {k}
    BY DEF Faithful, SameOwed
  <2>8. Safe(t, k, O \ {k})
    <3>1. Safe(s, k, O)
      BY <2>1 DEF Faithful
    <3>2. QED
      BY <2>1, <2>3, <2>4, <2>6, <3>1 DEF Safe, Resident, Place, f
  <2>9. Faithful(t, B, O \ {k}) /\ \A j \in Keys \ {k} : SameSeen(s, t, B, j)
    BY <2>5, <2>7, <2>8, UpdateSeen
  <2>10. QED
    BY <2>2, <2>4, <2>6, <2>9, SameDisk
<1>3. QED
  BY <1>1, <1>2

\* A write through the pointer shows in the page written and in no other; its
\* writer owes a dirty mark from then on.
LEMMA WriteSeen ==
  ASSUME NEW s, Sound(s), NEW B, NEW O, Faithful(s, B, O),
         NEW k \in Keys, Fixed(s, k), NEW c \in FPage
  PROVE  LET t == [s EXCEPT !.frame[s.hash[k]].fpage = c]
         IN  /\ Faithful(t, B, O \cup {k}) /\ SameFiles(s, t)
             /\ Fixed(t, k) /\ Content(t, k) = c
             /\ \A j \in Keys \ {k} : SameSeen(s, t, B, j)
<1> DEFINE f == s.hash[k]
           r == [s.frame[f] EXCEPT !.fpage = c]
           t == [s EXCEPT !.frame = [@ EXCEPT ![f] = r]]
<1>1. Resident(s, k) /\ f \in Frames /\ f # NULL /\ s \in Pool
  BY ResidentFrame DEF Fixed, Resident, Sound
<1>2. [s EXCEPT !.frame[f].fpage = c] = t
  BY <1>1 DEF Pool
<1>3. r.fixed /\ r.fpage = c
  <2>1. s.frame[f] \in Frame /\ s.frame[f].fixed
    BY <1>1 DEF Fixed, Pool
  <2>2. QED
    BY <2>1 DEF Frame
<1> HIDE DEF f, r
<1>4. /\ t.hash = s.hash /\ t.disk = s.disk /\ t.file = s.file
      /\ OtherFramesSame(s, t, f) /\ t.frame[f] = r
  BY <1>1, FrameUpdateShape
<1> HIDE DEF t
<1>5. Updated(s, t, k, f)
  BY <1>1, <1>4 DEF Updated, f
<1>6. Fixed(t, k) /\ Content(t, k) = c
  BY <1>1, <1>3, <1>4 DEF Fixed, Resident, Content, f
<1>7. SameOwed(O, O \cup {k}, k) /\ Safe(t, k, O \cup {k})
  BY <1>1, <1>4 DEF Faithful, SameOwed, Safe, Resident
<1>8. Faithful(t, B, O \cup {k}) /\ \A j \in Keys \ {k} : SameSeen(s, t, B, j)
  BY <1>5, <1>6, <1>7, UpdateSeen
<1>9. QED
  BY <1>2, <1>4, <1>6, <1>8, SameDisk DEF f

\* PFbufUsed marks a fixed page, which is owed a dirty mark from then on, and
\* touches no other (buf.c:408-420).
LEMMA UsedSeen ==
  ASSUME NEW s, Sound(s), NEW B, NEW O, Faithful(s, B, O),
         NEW k \in Keys, Fixed(s, k)
  PROVE  LET t == PFbufUsed(s, k).s
         IN  /\ Faithful(t, B, O \cup {k}) /\ SameFiles(s, t) /\ Fixed(t, k)
             /\ Content(t, k) = [Content(s, k) EXCEPT !.nextfree = USED]
             /\ \A j \in Keys \ {k} : SameSeen(s, t, B, j)
<1> DEFINE c == [s.frame[s.hash[k]].fpage EXCEPT !.nextfree = USED]
<1>1. Resident(s, k) /\ c = [Content(s, k) EXCEPT !.nextfree = USED]
  BY DEF Fixed, Content
<1>2. s.hash[k] \in Frames /\ c \in FPage /\ s \in Pool
  BY <1>1, ResidentFrame, PageTypes DEF Sound
<1>3. PFbufUsed(s, k).s = [s EXCEPT !.frame[s.hash[k]].fpage = c]
  BY <1>1, <1>2 DEF PFbufUsed, Outcome, Pool
<1> HIDE DEF c
<1>4. QED
  BY <1>1, <1>2, <1>3, WriteSeen

\* A round of PFbufReleaseFile shows nobody anything: what it frees is unfixed and
\* in the file by then (buf.c:430-449).
LEMMA ReleaseStepUnseen ==
  ASSUME NEW s, Sound(s), NEW B, NEW O, Faithful(s, B, O),
         NEW fd \in Fds, NEW o \in PFbufReleaseStep(s, fd)
  PROVE  Faithful(o.s, B, O) /\ Unseen(s, o.s, B)
<1>0. ASSUME o.s = s
      PROVE  Faithful(o.s, B, O) /\ Unseen(s, o.s, B)
  BY <1>0 DEF Unseen, SameSeen, SameFiles
<1>1. CASE FramesOf(s, fd) = {}
  BY <1>0, <1>1 DEF PFbufReleaseStep, Outcome
<1>2. CASE FramesOf(s, fd) # {}
  <2> DEFINE f == s.list[Min(FramesOf(s, fd))]
  <2>1. f \in Range(s.list)
    <3>1. DOMAIN s.list = 1 .. Len(s.list) /\ Len(s.list) \in Nat
      BY LenProperties DEF Sound, Pool
    <3>2. FramesOf(s, fd) \in SUBSET Nat /\ FramesOf(s, fd) \subseteq DOMAIN s.list
      BY <3>1 DEF FramesOf
    <3>3. Min(FramesOf(s, fd)) \in DOMAIN s.list
      BY <1>2, <3>2, LeastExists
    <3>4. QED
      BY <3>3 DEF Range
  <2>2. o \in ReleaseFrame(s, f)
    BY <1>2 DEF PFbufReleaseStep
  <2> HIDE DEF f
  <2>3. CASE s.frame[f].fixed
    BY <1>0, <2>2, <2>3 DEF ReleaseFrame, Outcome
  <2>4. CASE ~ s.frame[f].fixed
    <3>1. PICK w \in WriteBack(s, f) :
            o = IF w.rc = "OK"
                THEN Outcome("MORE", FreeFrame(PFhashDelete(w.s, KeyOf(s, f)), f))
                ELSE w
      BY <2>2, <2>4 DEF ReleaseFrame
    <3>2. f \in Frames /\ KeyOf(s, f) \in Keys /\ s \in Pool
      BY <2>1, ListedFrame DEF Sound, Consistent, ListHashed
    <3>3. /\ Faithful(w.s, B, O) /\ Unseen(s, w.s, B)
          /\ w.rc = "OK" => w.s.disk[Place(s, KeyOf(s, f))] = s.frame[f].fpage
      BY <2>1, <2>4, WriteBackUnseen
    <3>4. OnlyDisk(s, w.s)
      BY <3>2, WriteBackOnlyDisk
    <3>5. /\ Sound(w.s) /\ w.s.frame = s.frame /\ w.s.file = s.file
          /\ f \in Range(w.s.list) /\ KeyOf(w.s, f) = KeyOf(s, f)
          /\ ~ w.s.frame[f].fixed
      BY <2>1, <2>4, <3>4, OnlyDiskSound DEF OnlyDisk, KeyOf
    <3>6. CASE w.rc # "OK"
      BY <3>1, <3>3, <3>6
    <3>7. CASE w.rc = "OK"
      <4> DEFINE t == PFhashDelete(w.s, KeyOf(w.s, f))
      <4>1. o.s = FreeFrame(t, f)
        BY <3>1, <3>5, <3>7 DEF Outcome
      <4>2. HalfMade(t, f)
        BY <3>5, UnhashHalfMade
      <4>3. /\ t.hash = [w.s.hash EXCEPT ![KeyOf(w.s, f)] = NULL]
            /\ t.frame = w.s.frame /\ t.disk = w.s.disk /\ t.file = w.s.file
        BY <3>5 DEF PFhashDelete, Sound, Pool
      <4> HIDE DEF t
      <4>4. OtherFramesSame(w.s, t, f)
        BY <4>3 DEF OtherFramesSame
      <4>5. w.s.disk[Place(w.s, KeyOf(w.s, f))] = w.s.frame[f].fpage
        BY <3>3, <3>5, <3>7 DEF Place
      <4>6. Faithful(t, B, O) /\ Unseen(w.s, t, B)
        BY <3>3, <3>5, <4>3, <4>4, <4>5, DropUnseen
      <4>7. Faithful(o.s, B, O) /\ Unseen(t, o.s, B)
        BY <4>1, <4>2, <4>6, FreeUnseen
      <4>8. QED
        BY <3>3, <4>6, <4>7, UnseenTrans
    <3>8. QED
      BY <3>6, <3>7
  <2>5. QED
    BY <2>3, <2>4
<1>3. QED
  BY <1>1, <1>2
=============================================================================
