----------------------------- MODULE Buf_proofs -----------------------------
(***************************************************************************)
(* The buffer manager stays consistent whatever its callers do, in every   *)
(* size of pool, file table and file and under any mix of faults.  The     *)
(* lemmas of BufOps_proofs say that each call of buf.c takes a sound pool  *)
(* to sound pools; here the actions of Buf are matched with those calls.   *)
(* From the same invariant, the pointer a holder was given stays good.     *)
(* With what BufOps_proofs says a caller can see of a call, Buf implements *)
(* PageStore; and by the order of the list it gives up the page it should. *)
(***************************************************************************)
EXTENDS Buf, BufOps_proofs

\* The inductive invariant.  Consistency is not enough: the calls must find
\* well-typed frames, and a read needs a file behind every fd.
PoolInv ==
  /\ Sound(pool)
  /\ pool.file \in [Fds -> Files]
  /\ npages \in [Fds -> Nat]
  /\ owed \subseteq Keys
  /\ releasing \in Fds \cup {-1}
  /\ newer \subseteq Keys \X Keys

\* The history of requests stays a relation between pages.
LEMMA HistoryType ==
  ASSUME newer \subseteq Keys \X Keys, NEW k \in Keys, NEW t
  PROVE  Asked(k, t) \subseteq Keys \X Keys /\ Among(newer, t) \subseteq Keys \X Keys
BY DEF Asked, Among

\* The invariant holds at the start.
LEMMA PoolInvInit == Init => PoolInv
<1> SUFFICES ASSUME Init
             PROVE  PoolInv
  OBVIOUS
<1> DEFINE disk == [q \in Files \X Pages |-> Absent]
<1>1. disk \in [Files \X Pages -> FPage \cup {Absent}]
  OBVIOUS
<1>2. PICK file \in [Fds -> Files] : pool = EmptyPool(file, disk)
  BY DEF Init
<1> HIDE DEF disk
<1>3. Sound(pool) /\ pool.file = file
  BY <1>1, <1>2, EmptyPoolSound
<1>4. QED
  BY <1>3 DEF Init, PoolInv

\* Every call, and every round of PFbufReleaseFile, preserves the invariant.
LEMMA PoolInvNext == PoolInv /\ [Next]_vars => PoolInv'
<1> SUFFICES ASSUME PoolInv, [Next]_vars
             PROVE  PoolInv'
  OBVIOUS
<1> USE DEF PoolInv
<1>1. ASSUME NEW k \in Keys, Get(k)
      PROVE  PoolInv'
  <2>1. PICK o \in PFbufGet(pool, k) : pool' = o.s
    BY <1>1 DEF Get
  <2>2. pool.file[k[1]] \in Files
    BY DEF Keys
  <2>3. Sound(pool') /\ pool'.file = pool.file
    BY <2>1, <2>2, GetSound
  <2>4. QED
    BY <1>1, <2>3, HistoryType DEF Get
<1>2. ASSUME NEW k \in Keys, NEW dirty \in BOOLEAN, Unfix(k, dirty)
      PROVE  PoolInv'
  <2>1. Sound(pool') /\ pool'.file = pool.file
    BY <1>2, UnfixSound DEF Unfix
  <2>2. QED
    BY <1>2, <2>1 DEF Unfix
<1>3. ASSUME NEW k \in Keys, NEW c \in FPage, Write(k, c)
      PROVE  PoolInv'
  <2>1. pool.hash[k] \in Frames
    BY <1>3, ResidentFrame DEF Write, Held, Fixed
  <2>2. Sound(pool') /\ pool'.file = pool.file
    BY <1>3, <2>1, FpageUpdateSound DEF Write
  <2>3. QED
    BY <1>3, <2>2 DEF Write
<1>4. ASSUME NEW fd \in Fds, Alloc(fd)
      PROVE  PoolInv'
  <2> DEFINE k == <<fd, npages[fd]>>
  <2>1. k \in Keys
    BY <1>4 DEF Alloc
  <2>2. PICK o \in PFbufAlloc(pool, k) :
          IF o.rc = "OK"
          THEN /\ pool' = PFbufUsed(o.s, k).s
               /\ npages' = [npages EXCEPT ![fd] = @ + 1]
               /\ owed' = owed \cup {k}
          ELSE pool' = o.s /\ UNCHANGED <<npages, owed>>
    BY <1>4 DEF Alloc
  <2> HIDE DEF k
  <2>3. Sound(o.s) /\ o.s.file = pool.file
    BY <2>1, <2>2, AllocSound
  <2>4. Sound(pool') /\ pool'.file = pool.file
    BY <2>1, <2>2, <2>3, UsedSound
  <2>5. npages' \in [Fds -> Nat] /\ owed' \subseteq Keys
    BY <2>1, <2>2
  <2>6. QED
    BY <1>4, <2>1, <2>4, <2>5, HistoryType DEF Alloc, k
<1>5. ASSUME NEW fd \in Fds, ReleaseFile(fd)
      PROVE  PoolInv'
  BY <1>5 DEF ReleaseFile
<1>6. ASSUME NEW strategy \in Strategies, SetStrategy(strategy)
      PROVE  PoolInv'
  <2>1. Sound(pool') /\ pool'.file = pool.file
    BY <1>6, StrategySound DEF SetStrategy
  <2>2. QED
    BY <1>6, <2>1 DEF SetStrategy
<1>7. ASSUME ReleaseStep
      PROVE  PoolInv'
  <2>1. releasing \in Fds
    BY <1>7 DEF ReleaseStep, Idle
  <2>2. PICK o \in PFbufReleaseStep(pool, releasing) :
          /\ pool' = o.s
          /\ releasing' = IF o.rc = "MORE" THEN releasing ELSE -1
    BY <1>7 DEF ReleaseStep
  <2>3. Sound(pool') /\ pool'.file = pool.file
    BY <2>1, <2>2, ReleaseStepSound
  <2>4. QED
    BY <1>7, <2>2, <2>3 DEF ReleaseStep, Among
<1>8. CASE UNCHANGED vars
  BY <1>8 DEF vars
<1>9. ASSUME NEW k \in Keys, NEW n \in NextFreeWritten, NEW d \in Data,
             Write(k, [nextfree |-> n, data |-> d])
      PROVE  PoolInv'
  <2>1. [nextfree |-> n, data |-> d] \in FPage
    BY WrittenAssumption DEF FPage
  <2>2. QED
    BY <1>3, <1>9, <2>1
<1>10. QED
  BY <1>1, <1>2, <1>4, <1>5, <1>6, <1>7, <1>8, <1>9 DEF Next

\* Every variable of the buffer manager and of its callers keeps its type, so
\* no call ever leaves a frame half filled in (buf.c:112-118, 170-175, 315-319).
THEOREM TypesKept == Spec => []TypeOK
<1>1. PoolInv => TypeOK
  BY DEF PoolInv, Sound, TypeOK
<1>2. QED
  BY <1>1, PoolInvInit, PoolInvNext, PTL DEF Spec

\* In every reachable state, between any two calls of the buffer manager, list,
\* hash table and frame count agree (buf.c: the invariant all of its code reads
\* its victims, hits and releases from).
THEOREM PoolStaysConsistent == Spec => []PoolConsistent
<1>1. PoolInv => PoolConsistent
  BY DEF PoolInv, Sound, PoolConsistent
<1>2. QED
  BY <1>1, PoolInvInit, PoolInvNext, PTL DEF Spec

-----------------------------------------------------------------------------
(* Held pages. *)

\* One step of HeldFramesStay.
FramesStay ==
  \A k \in Held :
    /\ k \in Held' => pool'.hash[k] = pool.hash[k]
    /\ k \notin Held' => pool'.list = pool.list /\ pool'.hash = pool.hash

\* A call that keeps the held pages leaves them held and where they are.
LEMMA KeptStay == Keeps(pool, pool') => FramesStay
<1> SUFFICES ASSUME Keeps(pool, pool'), NEW k \in Held
             PROVE  k \in Held' /\ pool'.hash[k] = pool.hash[k]
  BY DEF FramesStay
<1>1. k \in Keys /\ Fixed(pool, k)
  BY DEF Held
<1>2. Fixed(pool', k) /\ pool'.hash[k] = pool.hash[k]
  BY <1>1 DEF Keeps
<1>3. QED
  BY <1>1, <1>2 DEF Held

\* Every step from a sound pool lets the holders keep their frames.
LEMMA HeldNext == PoolInv /\ [Next]_vars => FramesStay
<1> SUFFICES ASSUME PoolInv, [Next]_vars
             PROVE  FramesStay
  OBVIOUS
<1>0. Sound(pool)
  BY DEF PoolInv
<1>1. ASSUME NEW k \in Keys, Get(k)
      PROVE  FramesStay
  <2>1. PICK o \in PFbufGet(pool, k) : pool' = o.s
    BY <1>1 DEF Get
  <2>2. pool.file[k[1]] \in Files
    BY DEF Keys, PoolInv
  <2>3. QED
    BY <1>0, <2>1, <2>2, GetKeeps, KeptStay
<1>2. ASSUME NEW k \in Keys, NEW dirty \in BOOLEAN, Unfix(k, dirty)
      PROVE  FramesStay
  <2>1. /\ pool'.list = pool.list /\ pool'.hash = pool.hash
        /\ \A j \in Keys \ {k} : Fixed(pool, j) => Fixed(pool', j)
    BY <1>0, <1>2, UnfixKeepsOthers DEF Unfix
  <2>2. QED
    BY <2>1 DEF FramesStay
<1>3. ASSUME NEW k \in Keys, NEW n \in NextFreeWritten, NEW d \in Data,
             Write(k, [nextfree |-> n, data |-> d])
      PROVE  FramesStay
  <2> DEFINE c == [nextfree |-> n, data |-> d]
  <2>1. c \in FPage
    BY WrittenAssumption DEF FPage
  <2>2. pool.hash[k] \in Frames
    BY <1>0, <1>3, ResidentFrame DEF Write, Held, Fixed
  <2>3. pool' = [pool EXCEPT !.frame[pool.hash[k]].fpage = c]
    BY <1>3 DEF Write
  <2> HIDE DEF c
  <2>4. QED
    BY <1>0, <2>1, <2>2, <2>3, FpageUpdateKeeps, KeptStay DEF Sound
<1>4. ASSUME NEW fd \in Fds, Alloc(fd)
      PROVE  FramesStay
  <2> DEFINE k == <<fd, npages[fd]>>
  <2>1. k \in Keys
    BY <1>4 DEF Alloc
  <2>2. PICK o \in PFbufAlloc(pool, k) :
          pool' = IF o.rc = "OK" THEN PFbufUsed(o.s, k).s ELSE o.s
    BY <1>4 DEF Alloc
  <2> HIDE DEF k
  <2>3. Keeps(pool, o.s) /\ Keeps(o.s, PFbufUsed(o.s, k).s)
    BY <1>0, <2>1, AllocKeeps, AllocSound, UsedKeeps
  <2>4. Keeps(pool, PFbufUsed(o.s, k).s)
    BY <2>3, KeepsTrans
  <2>5. QED
    BY <2>2, <2>3, <2>4, KeptStay
<1>5. ASSUME NEW fd \in Fds, ReleaseFile(fd)
      PROVE  FramesStay
  BY <1>5, SameFramesKeep, KeptStay DEF ReleaseFile
<1>6. ASSUME NEW strategy \in Strategies, SetStrategy(strategy)
      PROVE  FramesStay
  <2>1. pool'.hash = pool.hash /\ pool'.frame = pool.frame
    BY <1>0, <1>6 DEF SetStrategy, PFbufSetStrategy, Sound, Pool
  <2>2. QED
    BY <2>1, SameFramesKeep, KeptStay
<1>7. ASSUME ReleaseStep
      PROVE  FramesStay
  <2>1. releasing \in Fds
    BY <1>7 DEF ReleaseStep, Idle, PoolInv
  <2>2. PICK o \in PFbufReleaseStep(pool, releasing) : pool' = o.s
    BY <1>7 DEF ReleaseStep
  <2>3. QED
    BY <1>0, <2>1, <2>2, ReleaseStepKeeps, KeptStay
<1>8. CASE UNCHANGED vars
  BY <1>8, SameFramesKeep, KeptStay DEF vars
<1>9. QED
  BY <1>1, <1>2, <1>3, <1>4, <1>5, <1>6, <1>7, <1>8 DEF Next

\* While a page is held it keeps its frame, through every sequence of calls by
\* others, failing or not: PFbufInternalAlloc and PFbufReleaseFile take only
\* unfixed frames, a move in the list moves no frame, and only an unfix gives a
\* held page up (buf.c:136, 142, 434, 257).
THEOREM HoldersKeepFrames == Spec => HeldFramesStay
<1>1. PoolInv /\ [Next]_vars => [FramesStay]_vars
  BY HeldNext
<1>2. Spec => [][FramesStay]_vars
  BY <1>1, PoolInvInit, PoolInvNext, PTL DEF Spec
<1>3. QED
  BY <1>2 DEF HeldFramesStay, FramesStay

-----------------------------------------------------------------------------
(* Buf implements PageStore: whatever is evicted, written back, read back, *)
(* flushed or fails half way, each page is what its last writer left.      *)

\* The inductive invariant: a sound pool that has lost no page.
StoreInv == PoolInv /\ Faithful(pool, Born, owed)
\* The pages as PageStore has them.
Seen == [k \in Keys |-> IF k \in Born THEN Content(pool, k) ELSE Absent]

\* Only page k looks different: the others keep contents and pin.
LEMMA SeenBut ==
  ASSUME NEW k \in Keys, \A j \in Keys \ {k} : SameSeen(pool, pool', Born, j),
         \/ Born' = Born
         \/ Born' = Born \cup {k}
  PROVE  /\ \A j \in Keys \ {k} : Seen'[j] = Seen[j]
         /\ k \in Born' => Seen' = [Seen EXCEPT ![k] = Content(pool', k)]
         /\ IF Fixed(pool', k) THEN Held' = Held \cup {k} ELSE Held' = Held \ {k}
<1>1. \A j \in Keys \ {k} : Seen'[j] = Seen[j]
  BY DEF Seen, SameSeen
<1>2. k \in Born' => Seen'[k] = Content(pool', k)
  BY DEF Seen
<1>3. k \in Born' => Seen' = [Seen EXCEPT ![k] = Content(pool', k)]
  BY <1>1, <1>2 DEF Seen
<1>4. \A j \in Keys \ {k} : Fixed(pool', j) <=> Fixed(pool, j)
  BY DEF SameSeen
<1>5. IF Fixed(pool', k) THEN Held' = Held \cup {k} ELSE Held' = Held \ {k}
  BY <1>4 DEF Held
<1>6. QED
  BY <1>1, <1>3, <1>5

\* What nobody sees is a stutter of the store.
LEMMA UnseenStutters ==
  ASSUME Unseen(pool, pool', Born), Born' = Born
  PROVE  UNCHANGED <<Seen, Held>>
<1>1. \A k \in Keys : Fixed(pool', k) <=> Fixed(pool, k)
  BY DEF Unseen, SameSeen
<1>2. \A k \in Born : Content(pool', k) = Content(pool, k)
  BY DEF Unseen, SameSeen, Born
<1>3. Held' = Held /\ Seen' = Seen
  BY <1>1, <1>2 DEF Held, Seen
<1>4. QED
  BY <1>3

\* Nothing is allocated yet in the empty pool.
LEMMA StoreInvInit == Init => StoreInv /\ Born = {}
<1> SUFFICES ASSUME Init
             PROVE  Faithful(pool, Born, owed) /\ Born = {}
  BY PoolInvInit DEF StoreInv
<1>1. Born = {}
  <2>1. \A k \in Keys : k[1] \in Fds /\ k[2] \in Nat
    BY PoolAssumption DEF Keys
  <2>2. QED
    BY <2>1 DEF Init, Born
<1>2. PICK file \in [Fds -> Files] :
        /\ IsInjective(file)
        /\ pool = EmptyPool(file, [q \in Files \X Pages |-> Absent])
  BY DEF Init
<1>3. pool.file = file /\ \A k \in Keys : pool.hash[k] = NULL
  BY <1>2 DEF EmptyPool
<1>4. Distinct(pool)
  BY <1>2, <1>3 DEF Distinct, IsInjective
<1>5. QED
  BY <1>1, <1>3, <1>4 DEF Faithful, Resident, Init

\* Every step loses no page, and is to the callers a step of the store: a page
\* created, pinned, written or unpinned, or nothing.
StoreStep ==
  \/ UNCHANGED <<Seen, Held>>
  \/ \E k \in Keys :
       \/ /\ Seen[k] = Absent /\ Held' = Held \cup {k}
          /\ \E v \in FPage : Seen' = [Seen EXCEPT ![k] = v]
       \/ Seen[k] # Absent /\ k \notin Held /\ Held' = Held \cup {k} /\ Seen' = Seen
       \/ /\ k \in Held /\ Held' = Held
          /\ \E v \in FPage : Seen' = [Seen EXCEPT ![k] = v]
       \/ k \in Held /\ Held' = Held \ {k} /\ Seen' = Seen

LEMMA StoreNext ==
  StoreInv /\ [Next]_vars => Faithful(pool, Born, owed)' /\ StoreStep
<1> SUFFICES ASSUME StoreInv, [Next]_vars
             PROVE  Faithful(pool', Born', owed') /\ StoreStep
  OBVIOUS
<1>0. /\ Sound(pool) /\ Faithful(pool, Born, owed) /\ PoolInv
      /\ npages \in [Fds -> Nat] /\ owed \subseteq Keys /\ Born \subseteq Keys
  BY DEF StoreInv, PoolInv, Born
<1>a. Sound(pool')
  BY <1>0, PoolInvNext DEF PoolInv
<1>b. \A k \in Born : Seen[k] = Content(pool, k) /\ Seen[k] # Absent
  BY <1>0, BornContent DEF Seen
<1>c. ASSUME UNCHANGED npages
      PROVE  Born' = Born
  BY <1>c DEF Born
<1>1. ASSUME NEW k \in Keys, Get(k)
      PROVE  Faithful(pool', Born', owed') /\ StoreStep
  <2>1. PICK o \in PFbufGet(pool, k) : pool' = o.s
    BY <1>1 DEF Get
  <2>2. k \in Born /\ Born' = Born /\ owed' = owed
    BY <1>1, <1>c DEF Get
  <2>3. /\ Faithful(pool', Born, owed)
        /\ Fixed(pool, k) => Fixed(pool', k)
        /\ Content(pool', k) = Content(pool, k)
        /\ \A j \in Keys \ {k} : SameSeen(pool, pool', Born, j)
    <3>1. Got(pool, o, Born, owed, k)
      BY <1>0, <2>2, GetSeen
    <3>2. QED
      BY <2>1, <3>1 DEF Got
  <2>4. /\ Seen' = [Seen EXCEPT ![k] = Content(pool', k)]
        /\ IF Fixed(pool', k) THEN Held' = Held \cup {k} ELSE Held' = Held \ {k}
    BY <2>2, <2>3, SeenBut
  <2>5. Seen' = Seen
    BY <1>b, <2>2, <2>3, <2>4 DEF Seen
  <2>6. k \in Held <=> Fixed(pool, k)
    BY DEF Held
  <2>7. StoreStep
    BY <1>b, <2>2, <2>3, <2>4, <2>5, <2>6 DEF StoreStep
  <2>8. QED
    BY <2>2, <2>3, <2>7
<1>2. ASSUME NEW k \in Keys, NEW dirty \in BOOLEAN, Unfix(k, dirty)
      PROVE  Faithful(pool', Born', owed') /\ StoreStep
  <2>1. k \in Born /\ Born' = Born /\ owed' = owed \ {k}
    BY <1>2, <1>c DEF Unfix
  <2>2. /\ pool' = PFbufUnfix(pool, k, dirty).s
        /\ k \in owed => dirty = TRUE
    BY <1>2 DEF Unfix
  <2>3. /\ Faithful(pool', Born, owed \ {k}) /\ ~ Fixed(pool', k)
        /\ Content(pool', k) = Content(pool, k)
        /\ \A j \in Keys \ {k} : SameSeen(pool, pool', Born, j)
    BY <1>0, <2>2, UnfixSeen
  <2>4. Seen' = [Seen EXCEPT ![k] = Content(pool', k)] /\ Held' = Held \ {k}
    BY <2>1, <2>3, SeenBut
  <2>5. Seen' = Seen
    BY <1>b, <2>1, <2>3, <2>4 DEF Seen
  <2>6. StoreStep
    BY <2>4, <2>5 DEF StoreStep
  <2>7. QED
    BY <2>1, <2>3, <2>6
<1>3. ASSUME NEW k \in Keys, NEW n \in NextFreeWritten, NEW d \in Data,
             Write(k, [nextfree |-> n, data |-> d])
      PROVE  Faithful(pool', Born', owed') /\ StoreStep
  <2> DEFINE c == [nextfree |-> n, data |-> d]
  <2>1. c \in FPage
    BY WrittenAssumption DEF FPage
  <2>2. /\ k \in Held /\ Fixed(pool, k) /\ Born' = Born /\ owed' = owed \cup {k}
        /\ pool' = [pool EXCEPT !.frame[pool.hash[k]].fpage = c]
    BY <1>3, <1>c DEF Write, Held
  <2> HIDE DEF c
  <2>3. /\ Faithful(pool', Born, owed \cup {k}) /\ Fixed(pool', k)
        /\ Content(pool', k) = c
        /\ \A j \in Keys \ {k} : SameSeen(pool, pool', Born, j)
    <3> DEFINE t == [pool EXCEPT !.frame[pool.hash[k]].fpage = c]
    <3>1. /\ Faithful(t, Born, owed \cup {k}) /\ Fixed(t, k) /\ Content(t, k) = c
          /\ \A j \in Keys \ {k} : SameSeen(pool, t, Born, j)
      <4>1. Sound(pool) /\ Faithful(pool, Born, owed) /\ Fixed(pool, k)
        BY <1>0, <2>2
      <4>2. QED
        BY ONLY k \in Keys, <2>1, <4>1, WriteSeen
    <3>2. pool' = t
      BY <2>2
    <3> HIDE DEF t
    <3>3. QED
      BY <3>1, <3>2
  <2>4. k \in Born
    BY <1>0, <2>2 DEF Faithful, Fixed
  <2>5. Seen' = [Seen EXCEPT ![k] = c] /\ Held' = Held
    <3>1. /\ Seen' = [Seen EXCEPT ![k] = Content(pool', k)]
          /\ Held' = Held \cup {k}
      BY <2>2, <2>3, <2>4, SeenBut
    <3>2. QED
      BY <2>2, <2>3, <3>1
  <2>6. StoreStep
    BY <2>1, <2>2, <2>5 DEF StoreStep
  <2>7. QED
    BY <2>2, <2>3, <2>6
<1>4. ASSUME NEW fd \in Fds, Alloc(fd)
      PROVE  Faithful(pool', Born', owed') /\ StoreStep
  <2> DEFINE k == <<fd, npages[fd]>>
  <2>1. k \in Keys /\ k[1] = fd /\ k[2] = npages[fd] /\ pool.file[k[1]] \in Files
    BY <1>0, <1>4 DEF Alloc, PoolInv
  <2>2. PICK o \in PFbufAlloc(pool, k) :
          IF o.rc = "OK"
          THEN /\ pool' = PFbufUsed(o.s, k).s
               /\ npages' = [npages EXCEPT ![fd] = @ + 1]
               /\ owed' = owed \cup {k}
          ELSE pool' = o.s /\ UNCHANGED <<npages, owed>>
    BY <1>4 DEF Alloc
  <2> HIDE DEF k
  <2>3. k \notin Born
    BY <1>0, <2>1 DEF Born
  <2>4. /\ o.rc = "OK" =>
             /\ Faithful(o.s, Born \cup {k}, owed \cup {k})
             /\ \A j \in Keys \ {k} : SameSeen(pool, o.s, Born, j)
        /\ o.rc # "OK" => Faithful(o.s, Born, owed) /\ Unseen(pool, o.s, Born)
    BY <1>0, <2>1, <2>3, AllocSeen
  <2>5. CASE o.rc # "OK"
    <3>1. pool' = o.s /\ npages' = npages /\ owed' = owed
      BY <2>2, <2>5
    <3>2. Born' = Born
      BY <1>c, <3>1
    <3>3. Faithful(pool', Born', owed') /\ UNCHANGED <<Seen, Held>>
      BY <2>4, <2>5, <3>1, <3>2, UnseenStutters
    <3>4. QED
      BY <3>3 DEF StoreStep
  <2>6. CASE o.rc = "OK"
    <3>1. /\ pool' = PFbufUsed(o.s, k).s
          /\ npages' = [npages EXCEPT ![fd] = @ + 1]
          /\ owed' = owed \cup {k}
      BY <2>2, <2>6
    <3>2. Born' = Born \cup {k}
      <4>1. \A j \in Keys : j = k <=> j[1] = fd /\ j[2] = npages[fd]
        BY <2>1 DEF k, Keys
      <4>2. \A j \in Keys : j[1] \in Fds /\ j[2] \in Nat
        BY PoolAssumption DEF Keys
      <4>3. \A j \in Keys : j \in Born' <=> j \in Born \/ j = k
        BY <1>0, <2>1, <3>1, <4>1, <4>2 DEF Born
      <4>4. QED
        BY <2>1, <4>3 DEF Born
    <3>3. Sound(o.s) /\ Fixed(o.s, k)
      BY <1>0, <2>1, <2>4, <2>6, AllocSound DEF Faithful
    <3>a. (owed \cup {k}) \cup {k} = owed \cup {k}
      OBVIOUS
    <3>4. /\ Faithful(pool', Born \cup {k}, owed \cup {k}) /\ Fixed(pool', k)
          /\ \A j \in Keys \ {k} : SameSeen(o.s, pool', Born \cup {k}, j)
      BY <2>1, <2>4, <2>6, <3>1, <3>3, <3>a, UsedSeen
    <3>5. \A j \in Keys \ {k} : SameSeen(pool, pool', Born, j)
      BY <2>4, <2>6, <3>4 DEF SameSeen
    <3>6. /\ Seen' = [Seen EXCEPT ![k] = Content(pool', k)]
          /\ Held' = Held \cup {k}
      BY <2>1, <3>2, <3>4, <3>5, SeenBut
    <3>7. Content(pool', k) \in FPage
      BY <1>a, <3>4, BornContent
    <3>8. Seen[k] = Absent
      BY <2>1, <2>3 DEF Seen
    <3>9. StoreStep
      BY <2>1, <3>6, <3>7, <3>8 DEF StoreStep
    <3>10. QED
      BY <3>1, <3>2, <3>4, <3>9
  <2>7. QED
    BY <2>5, <2>6
<1>d. ASSUME Faithful(pool', Born, owed), Unseen(pool, pool', Born),
             UNCHANGED <<npages, owed>>
      PROVE  Faithful(pool', Born', owed') /\ StoreStep
  <2>1. Born' = Born
    BY <1>c, <1>d
  <2>2. UNCHANGED <<Seen, Held>>
    BY <1>d, <2>1, UnseenStutters
  <2>3. QED
    BY <1>d, <2>1, <2>2 DEF StoreStep
<1>e. ASSUME pool' = pool
      PROVE  Faithful(pool', Born, owed) /\ Unseen(pool, pool', Born)
  BY <1>0, <1>e DEF Unseen, SameSeen, SameFiles
<1>5. ASSUME NEW fd \in Fds, ReleaseFile(fd)
      PROVE  Faithful(pool', Born', owed') /\ StoreStep
  BY <1>5, <1>d, <1>e DEF ReleaseFile
<1>6. ASSUME NEW strategy \in Strategies, SetStrategy(strategy)
      PROVE  Faithful(pool', Born', owed') /\ StoreStep
  <2>1. /\ pool'.hash = pool.hash /\ pool'.frame = pool.frame
        /\ pool'.disk = pool.disk /\ pool'.file = pool.file
    BY <1>0, <1>6 DEF SetStrategy, PFbufSetStrategy, Sound, Pool
  <2>2. Unseen(pool, pool', Born)
    BY <2>1, SameDisk DEF Unseen, SameSeen, Fixed, Resident, Content, Place
  <2>3. Faithful(pool', Born, owed)
    BY <1>0, <2>1 DEF Faithful, Distinct, Safe, Fixed, Resident, Content, Place
  <2>4. QED
    BY <1>6, <1>d, <2>2, <2>3 DEF SetStrategy
<1>7. ASSUME ReleaseStep
      PROVE  Faithful(pool', Born', owed') /\ StoreStep
  <2>1. releasing \in Fds
    BY <1>0, <1>7 DEF ReleaseStep, Idle, PoolInv
  <2>2. PICK o \in PFbufReleaseStep(pool, releasing) : pool' = o.s
    BY <1>7 DEF ReleaseStep
  <2>3. Faithful(pool', Born, owed) /\ Unseen(pool, pool', Born)
    BY <1>0, <2>1, <2>2, ReleaseStepUnseen
  <2>4. QED
    BY <1>7, <1>d, <2>3 DEF ReleaseStep
<1>8. CASE UNCHANGED vars
  BY <1>8, <1>d, <1>e DEF vars
<1>9. QED
  BY <1>1, <1>2, <1>3, <1>4, <1>5, <1>6, <1>7, <1>8 DEF Next

LEMMA StoreInvNext == StoreInv /\ [Next]_vars => StoreInv'
  BY PoolInvNext, StoreNext DEF StoreInv

\* A buffered page that is clean and owes nothing is what the file has: giving up
\* its frame without a write, as eviction and close do, loses nothing, whichever
\* writes failed or were cut short before (buf.c:154-162, 438-442).
THEOREM CleanPagesAreOnDisk == Spec => []CleanIsOnDisk
<1>1. StoreInv => CleanIsOnDisk
  BY DEF StoreInv, Faithful, Safe, CleanIsOnDisk
<1>2. QED
  BY <1>1, StoreInvInit, StoreInvNext, PTL DEF Spec

\* The buffer manager implements the store of pages its callers rely on: under
\* every order of calls and every failure of malloc, read and write, a page is
\* pinned and unpinned only by its callers, changes only when its holder writes
\* it, and is there, as last written, whenever it is asked for again (buf.c).
THEOREM BufImplementsPageStore == Spec => StoreSpec
<1>1. Init => Store!Init
  <2> SUFFICES ASSUME Init
               PROVE  Store!Init
    OBVIOUS
  <2>1. Born = {} /\ Faithful(pool, Born, owed)
    BY StoreInvInit DEF StoreInv
  <2>2. \A k \in Keys : ~ Fixed(pool, k)
    BY <2>1 DEF Faithful, Fixed
  <2>3. QED
    BY <2>1, <2>2 DEF Store!Init, Held
<1>2. StoreInv /\ [Next]_vars => [Store!Next]_<<Seen, Held>>
  BY StoreNext DEF StoreStep, Store!Next, Store!Create, Store!Pin, Store!Write,
                   Store!Unpin, Seen
<1>3. QED
  BY <1>1, <1>2, StoreInvInit, StoreInvNext, PTL DEF Spec, StoreSpec, Store!Spec, Seen

-----------------------------------------------------------------------------
(* Eviction.  The buffer list is ordered by request: of two buffered pages *)
(* the one asked for later is nearer the head.  So the last unfixed frame   *)
(* is that of the least recently asked for page, the first that of the most *)
(* recently asked for, and the pages LRU and MRU give up are the ones they  *)
(* should, after any history of hits, misses, failures and releases.        *)

\* Frame f comes before frame g in the list.
Ahead(l, f, g) == \E i, m \in DOMAIN l : i < m /\ l[i] = f /\ l[m] = g
\* Pages j and k are buffered, j nearer the head.
PageAhead(s, j, k) ==
  Resident(s, j) /\ Resident(s, k) /\ Ahead(s.list, s.hash[j], s.hash[k])
\* Nothing comes before another page that did not before.
NoNewOrder(s, t) == \A i, j \in Keys : PageAhead(t, i, j) => PageAhead(s, i, j)
\* Only page k may have come before others; no other page came before it.
NewOrderFor(s, t, k) ==
  \A i, j \in Keys : PageAhead(t, i, j) => i = k \/ (j # k /\ PageAhead(s, i, j))
-----------------------------------------------------------------------------
(* Lists. *)

\* Unlinking a frame keeps the others in order.
LEMMA UnlinkOrder ==
  ASSUME NEW S, NEW l \in Seq(S), NEW f \in Range(l), NEW g, NEW h,
         Ahead(PFbufUnlink(l, f), g, h)
  PROVE  Ahead(l, g, h)
<1> DEFINE u == PFbufUnlink(l, f)
<1>0. Len(l) \in Nat /\ DOMAIN l = 1 .. Len(l)
  BY LenProperties
<1>1. u \in Seq(S) /\ Len(u) = Len(l) - 1
  BY UnlinkElements
<1>2. PICK p \in 1 .. Len(l) :
        \A i \in 1 .. Len(l) - 1 : u[i] = IF i < p THEN l[i] ELSE l[i + 1]
  BY UnlinkElements
<1> HIDE DEF u
<1>3. DOMAIN u = 1 .. Len(l) - 1
  BY <1>1, LenProperties
<1>4. PICK i \in 1 .. Len(l) - 1, m \in 1 .. Len(l) - 1 :
        i < m /\ u[i] = g /\ u[m] = h
  BY <1>3 DEF Ahead, u
<1> DEFINE up(n) == IF n < p THEN n ELSE n + 1
<1>5. up(i) \in DOMAIN l /\ up(m) \in DOMAIN l /\ up(i) < up(m)
  BY <1>0, <1>4
<1>6. l[up(i)] = g /\ l[up(m)] = h
  BY <1>2, <1>4
<1>7. QED
  BY <1>5, <1>6 DEF Ahead

\* A frame linked at the head comes before the others, none comes before it, and
\* the others stay in order.
LEMMA LinkOrder ==
  ASSUME NEW S, NEW l \in Seq(S), NEW f \in S, f \notin Range(l), NEW g, NEW h,
         Ahead(PFbufLinkHead(l, f), g, h)
  PROVE  h # f /\ (g = f \/ Ahead(l, g, h))
<1> DEFINE u == PFbufLinkHead(l, f)
<1>0. Len(l) \in Nat /\ DOMAIN l = 1 .. Len(l)
  BY LenProperties
<1>1. u = <<f>> \o l
  BY DEF PFbufLinkHead, Cons
<1>2. /\ u \in Seq(S) /\ Len(u) = Len(l) + 1
      /\ \A i \in 1 .. Len(l) + 1 : u[i] = IF i = 1 THEN f ELSE l[i - 1]
  BY <1>0, <1>1
<1> HIDE DEF u
<1>3. DOMAIN u = 1 .. Len(l) + 1
  BY <1>2, LenProperties
<1>4. PICK i \in 1 .. Len(l) + 1, m \in 1 .. Len(l) + 1 :
        i < m /\ u[i] = g /\ u[m] = h
  BY <1>3 DEF Ahead, u
<1>5. m - 1 \in DOMAIN l /\ l[m - 1] = h
  BY <1>0, <1>2, <1>4
<1>6. h # f
  BY <1>5 DEF Range
<1>7. CASE i = 1
  BY <1>2, <1>4, <1>6, <1>7
<1>8. CASE i # 1
  <2>1. i - 1 \in DOMAIN l /\ l[i - 1] = g /\ i - 1 < m - 1
    BY <1>0, <1>2, <1>4, <1>8
  <2>2. QED
    BY <1>5, <1>6, <2>1 DEF Ahead
<1>9. QED
  BY <1>7, <1>8

\* A frame moved to the head comes before the others, and they stay in order.
LEMMA MoveOrder ==
  ASSUME NEW S, NEW l \in Seq(S), IsInjective(l), NEW f \in Range(l), NEW g, NEW h,
         Ahead(MoveToHead(l, f), g, h)
  PROVE  h # f /\ (g = f \/ Ahead(l, g, h))
<1> DEFINE u == PFbufUnlink(l, f)
<1>1. u \in Seq(S) /\ Range(u) = Range(l) \ {f}
  BY UnlinkProperties
<1>2. f \in S
  BY LenProperties, ElementOfSeq DEF Range
<1>3. Ahead(PFbufLinkHead(u, f), g, h)
  BY DEF MoveToHead
<1> HIDE DEF u
<1>4. h # f /\ (g = f \/ Ahead(u, g, h))
  BY <1>1, <1>2, <1>3, LinkOrder
<1>5. Ahead(u, g, h) => Ahead(l, g, h)
  BY UnlinkOrder DEF u
<1>6. QED
  BY <1>4, <1>5

\* No frame comes before itself.
LEMMA AheadIrreflexive ==
  ASSUME NEW l, IsInjective(l), DOMAIN l \subseteq Nat, NEW f
  PROVE  ~ Ahead(l, f, f)
BY DEF Ahead, IsInjective
-----------------------------------------------------------------------------
(* The small steps. *)

LEMMA NoNewOrderTrans ==
  ASSUME NEW s, NEW t, NEW u, NoNewOrder(s, t), NoNewOrder(t, u)
  PROVE  NoNewOrder(s, u)
BY DEF NoNewOrder

LEMMA NewOrderForTrans ==
  ASSUME NEW s, NEW t, NEW u, NEW k, NoNewOrder(s, t), NewOrderFor(t, u, k)
  PROVE  NewOrderFor(s, u, k)
BY DEF NoNewOrder, NewOrderFor

\* What leaves list and hash table alone leaves the order alone.
LEMMA SameListOrder ==
  ASSUME NEW s, NEW t, t.list = s.list, t.hash = s.hash
  PROVE  NoNewOrder(s, t)
BY DEF NoNewOrder, PageAhead, Resident

\* Unlinking a frame that is not hashed, or losing an entry, orders nothing anew.
LEMMA FreeOrder ==
  ASSUME NEW s, NEW b, HalfMade(s, b)
  PROVE  NoNewOrder(s, FreeFrame(s, b))
<1>1. s.list \in Seq(Frames) /\ b \in Range(s.list)
  BY DEF HalfMade, Pool
<1> DEFINE t == FreeFrame(s, b)
<1>2. t.list = PFbufUnlink(s.list, b) /\ t.hash = s.hash
  BY FreeShape
<1> HIDE DEF t
<1>3. \A g, h : Ahead(t.list, g, h) => Ahead(s.list, g, h)
  BY <1>1, <1>2, UnlinkOrder
<1>4. NoNewOrder(s, t)
  BY <1>2, <1>3 DEF NoNewOrder, PageAhead, Resident
<1>5. QED
  BY <1>4 DEF t

\* The frame a call gets is at the head of the list, the others in order; and the
\* only page that may have lost its frame is the victim (buf.c:100-180).
LEMMA InternalAllocOrder ==
  ASSUME NEW s, Sound(s), NEW a \in PFbufInternalAlloc(s)
  PROVE  /\ NoNewOrder(s, a.s)
         /\ a.rc = "OK" => \A g : ~ Ahead(a.s.list, g, a.b)
         /\ \A k \in Keys : Resident(s, k) /\ ~ Resident(a.s, k) =>
              Unfixed(s) # {} /\ s.hash[k] = Victim(s)
<1>0. /\ s \in Pool /\ s.list \in Seq(Frames) /\ IsInjective(s.list)
      /\ s.hash \in [Keys -> Frames \cup {NULL}]
  BY DEF Sound, Pool, Consistent, ListSound
<1>1. CASE a.rc # "OK" /\ a.s = s
  BY <1>1 DEF NoNewOrder
<1>2. ASSUME NEW f \in Frames \ Range(s.list), a.b = f, a.s = NewFrame(s, f)
      PROVE  /\ NoNewOrder(s, a.s) /\ \A g : ~ Ahead(a.s.list, g, a.b)
             /\ \A k \in Keys : Resident(s, k) => Resident(a.s, k)
  <2> DEFINE t == NewFrame(s, f)
  <2>1. PFbufLinkHead(s.list, f) \in Seq(Frames)
    BY <1>0, LinkProperties
  <2>2. t.list = PFbufLinkHead(s.list, f) /\ t.hash = s.hash
    BY <1>0, <2>1, NewFrameFields
  <2> HIDE DEF t
  <2>3. \A g, h : Ahead(t.list, g, h) => h # f /\ (g = f \/ Ahead(s.list, g, h))
    BY <1>0, <2>2, LinkOrder
  <2>4. \A k \in Keys : Resident(s, k) => s.hash[k] # f
    BY DEF Sound, Consistent, HashLinked
  <2>5. NoNewOrder(s, t)
    BY <2>2, <2>3, <2>4 DEF NoNewOrder, PageAhead, Resident
  <2>6. QED
    BY <1>2, <2>2, <2>3, <2>5 DEF t, Resident
<1>3. ASSUME Unfixed(s) # {}, NEW w \in WriteBack(s, Victim(s))
      PROVE  /\ NoNewOrder(s, w.s)
             /\ \A k \in Keys : Resident(s, k) => Resident(w.s, k)
             /\ NoNewOrder(s, Reuse(w.s, Victim(s)))
             /\ \A g : ~ Ahead(Reuse(w.s, Victim(s)).list, g, Victim(s))
             /\ \A k \in Keys :
                  Resident(s, k) /\ ~ Resident(Reuse(w.s, Victim(s)), k) =>
                    s.hash[k] = Victim(s)
  <2> DEFINE f == Victim(s)
             t == Reuse(w.s, f)
  <2>1. f \in Range(s.list) /\ f \in Frames /\ KeyOf(s, f) \in Keys
    BY <1>0, <1>3, VictimListed, ListedFrame DEF Sound, Consistent, ListHashed
  <2> HIDE DEF f
  <2>2. OnlyDisk(s, w.s)
    BY <1>0, <1>3, <2>1, WriteBackOnlyDisk DEF f
  <2>3. w.s \in Pool /\ w.s.list = s.list /\ w.s.hash = s.hash /\ w.s.frame = s.frame
    BY <2>2 DEF OnlyDisk
  <2>4. NoNewOrder(s, w.s)
    BY <2>3, SameListOrder
  <2>5. MoveToHead(w.s.list, f) \in Seq(Frames)
    BY <1>0, <2>1, <2>3, MoveProperties
  <2>6. /\ t.list = MoveToHead(s.list, f)
        /\ t.hash = [s.hash EXCEPT ![KeyOf(w.s, f)] = NULL]
    <3>1. /\ t.list = MoveToHead(w.s.list, f)
          /\ t.hash = [w.s.hash EXCEPT ![KeyOf(w.s, f)] = NULL]
      BY <2>1, <2>3, <2>5, ReuseFields
    <3> HIDE DEF t
    <3>2. QED
      BY <2>3, <3>1
  <2>7. KeyOf(w.s, f) = KeyOf(s, f) /\ s.hash[KeyOf(s, f)] = f
    BY <2>1, <2>3 DEF KeyOf, Sound, Consistent, ListHashed
  <2> HIDE DEF t
  <2>8. \A g, h : Ahead(t.list, g, h) => h # f /\ (g = f \/ Ahead(s.list, g, h))
    BY <1>0, <2>1, <2>6, MoveOrder
  <2>9. \A k \in Keys : /\ Resident(t, k) => Resident(s, k) /\ t.hash[k] = s.hash[k]
                        /\ Resident(t, k) => s.hash[k] # f
                        /\ Resident(s, k) /\ ~ Resident(t, k) => s.hash[k] = f
    <3>1. \A k \in Keys : Resident(s, k) /\ s.hash[k] = f => k = KeyOf(s, f)
      BY ResidentFrame
    <3>2. \A k \in Keys : t.hash[k] = IF k = KeyOf(s, f) THEN NULL ELSE s.hash[k]
      BY <1>0, <2>1, <2>6, <2>7
    <3>3. QED
      BY <2>7, <3>1, <3>2 DEF Resident
  <2>10. NoNewOrder(s, t)
    BY <2>8, <2>9 DEF NoNewOrder, PageAhead
  <2>11. QED
    BY <2>3, <2>4, <2>8, <2>9, <2>10 DEF f, t, Resident
<1>4. QED
  BY <1>1, <1>2, <1>3, InternalAllocOutcomes

\* Filling the frame at the head for page k puts k before the others, and takes no
\* page's frame (buf.c:313-343).
LEMMA InstallOrder ==
  ASSUME NEW s, NEW f, HalfMade(s, f), \A g : ~ Ahead(s.list, g, f),
         NEW k \in Keys, s.hash[k] = NULL, NEW c \in FPage,
         NEW o \in Install(s, k, f, c)
  PROVE  /\ NewOrderFor(s, o.s, k)
         /\ \A j \in Keys : Resident(s, j) => Resident(o.s, j)
<1>1. PICK u \in Pool, t \in Pool :
        /\ u.list = s.list /\ u.hash = s.hash /\ u.disk = s.disk
        /\ u.file = s.file /\ u.strategy = s.strategy
        /\ HalfMade(u, f)
        /\ \A g \in Frames \ {f} : u.frame[g] = s.frame[g]
        /\ t.list = s.list /\ t.hash = [s.hash EXCEPT ![k] = f]
        /\ t.disk = s.disk /\ t.file = s.file /\ t.strategy = s.strategy
        /\ \A g \in Frames \ {f} : t.frame[g] = s.frame[g]
        /\ t.frame[f] = [fd |-> k[1], page |-> k[2], fixed |-> TRUE,
                         dirty |-> FALSE, fpage |-> c]
        /\ \/ o.rc = "OK" /\ o.s = t
           \/ o.rc # "OK" /\ o.s = FreeFrame(u, f)
  BY InstallOutcomes
<1>2. s.hash \in [Keys -> Frames \cup {NULL}]
  BY DEF HalfMade, Pool
<1>3. CASE o.s = t
  <2>1. t.hash[k] = f /\ \A j \in Keys \ {k} : t.hash[j] = s.hash[j]
    BY <1>1, <1>2
  <2>2. ASSUME NEW i \in Keys, NEW j \in Keys, PageAhead(t, i, j), i # k
        PROVE  j # k /\ PageAhead(s, i, j)
    BY <1>1, <2>1, <2>2 DEF PageAhead, Resident
  <2>3. QED
    BY <1>3, <2>1, <2>2 DEF NewOrderFor, Resident
<1>4. CASE o.s = FreeFrame(u, f)
  <2> DEFINE t1 == FreeFrame(u, f)
  <2>1. NoNewOrder(u, t1) /\ t1.hash = u.hash
    BY <1>1, FreeOrder, FreeShape
  <2> HIDE DEF t1
  <2>2. NoNewOrder(s, u)
    BY <1>1, SameListOrder
  <2>3. \A j \in Keys : Resident(t1, j) <=> Resident(s, j)
    BY <1>1, <2>1 DEF Resident
  <2>4. ASSUME NEW i \in Keys, NEW j \in Keys, PageAhead(t1, i, j)
        PROVE  j # k /\ PageAhead(s, i, j)
    BY <2>1, <2>2, <2>3, <2>4 DEF NoNewOrder, PageAhead, Resident
  <2>5. QED
    BY <1>4, <2>3, <2>4 DEF NewOrderFor, t1
<1>5. QED
  BY <1>1, <1>3, <1>4

\* PFbufGet puts the page asked for before the others, also if it finds it fixed,
\* and takes only the victim's frame (buf.c:268-344).
LEMMA GetOrder ==
  ASSUME NEW s, Sound(s), NEW k \in Keys, s.file[k[1]] \in Files,
         NEW o \in PFbufGet(s, k)
  PROVE  /\ NewOrderFor(s, o.s, k)
         /\ \A j \in Keys : Resident(s, j) /\ ~ Resident(o.s, j) =>
              Unfixed(s) # {} /\ s.hash[j] = Victim(s)
<1>0. /\ s \in Pool /\ s.list \in Seq(Frames) /\ IsInjective(s.list)
      /\ DOMAIN s.list \subseteq Nat
  BY LenProperties DEF Sound, Pool, Consistent, ListSound
<1>1. CASE Resident(s, k)
  <2> DEFINE f == s.hash[k]
             t == Hit(s, k).s
  <2>1. t.list = MoveToHead(s.list, f) /\ t.hash = s.hash /\ o.s = t
    BY <1>1, HitShape DEF PFbufGet
  <2>2. f \in Range(s.list) /\ f # NULL
    BY <1>1, ResidentFrame DEF Resident
  <2> HIDE DEF t
  <2>3. \A g, h : Ahead(t.list, g, h) => h # f /\ (g = f \/ Ahead(s.list, g, h))
    BY <1>0, <2>1, <2>2, MoveOrder
  <2>4. \A j \in Keys : Resident(s, j) /\ s.hash[j] = f => j = k
    BY <1>1, ResidentFrame
  <2>5. NewOrderFor(s, t, k)
    BY <2>1, <2>3, <2>4 DEF NewOrderFor, PageAhead, Resident
  <2>6. QED
    BY <2>1, <2>5 DEF Resident
<1>2. CASE ~ Resident(s, k)
  <2>1. PICK a \in PFbufInternalAlloc(s) :
          o \in IF a.rc # "OK" THEN {Outcome(a.rc, a.s)} ELSE ReadInto(a.s, k, a.b)
    BY <1>2 DEF PFbufGet
  <2>2. /\ NoNewOrder(s, a.s)
        /\ a.rc = "OK" => \A g : ~ Ahead(a.s.list, g, a.b)
        /\ \A j \in Keys : Resident(s, j) /\ ~ Resident(a.s, j) =>
             Unfixed(s) # {} /\ s.hash[j] = Victim(s)
    BY InternalAllocOrder
  <2>3. a.s.file = s.file /\ a.s.hash[k] = NULL
    BY <1>2, InternalAllocHalfMade DEF NoNewEntry, Resident
  <2>4. SUFFICES /\ NewOrderFor(a.s, o.s, k)
                 /\ \A j \in Keys : Resident(a.s, j) => Resident(o.s, j)
    BY <2>2, NewOrderForTrans
  <2>5. ASSUME NoNewOrder(a.s, o.s), o.s.hash = a.s.hash
        PROVE  /\ NewOrderFor(a.s, o.s, k)
               /\ \A j \in Keys : Resident(a.s, j) => Resident(o.s, j)
    BY <2>3, <2>5 DEF NewOrderFor, NoNewOrder, PageAhead, Resident
  <2>6. CASE a.rc # "OK"
    <3>1. o.s = a.s
      BY <2>1, <2>6 DEF Outcome
    <3>2. QED
      BY <2>5, <3>1 DEF NoNewOrder
  <2>7. CASE a.rc = "OK"
    <3>1. HalfMade(a.s, a.b)
      BY <2>7, InternalAllocHalfMade
    <3>2. PICK r \in PFreadfcn(a.s, k) :
            o \in IF r.rc = "OK" THEN Install(a.s, k, a.b, a.s.disk[Place(a.s, k)])
                  ELSE {Outcome(r.rc, FreeFrame(a.s, a.b))}
      BY <2>1, <2>7 DEF ReadInto
    <3>3. CASE r.rc # "OK"
      <4>1. o.s = FreeFrame(a.s, a.b)
        BY <3>2, <3>3 DEF Outcome
      <4>2. NoNewOrder(a.s, o.s) /\ o.s.hash = a.s.hash
        BY <3>1, <4>1, FreeOrder, FreeShape
      <4>3. QED
        BY <2>5, <4>2
    <3>4. CASE r.rc = "OK"
      <4>1. a.s.disk[Place(a.s, k)] # Absent
        BY <3>2, <3>4, FaultOutcome DEF PFreadfcn
      <4>2. Place(a.s, k) \in Files \X Pages
        BY <2>3 DEF Place, Keys
      <4>3. a.s.disk[Place(a.s, k)] \in FPage
        BY <3>1, <4>1, <4>2 DEF HalfMade, Pool
      <4>4. QED
        BY <2>2, <2>3, <2>7, <3>1, <3>2, <3>4, <4>3, InstallOrder
    <3>5. QED
      BY <3>3, <3>4
  <2>8. QED
    BY <2>6, <2>7
<1>3. QED
  BY <1>1, <1>2

\* PFbufAlloc puts the page allocated before the others and takes only the
\* victim's frame (buf.c:206-260).
LEMMA AllocOrder ==
  ASSUME NEW s, Sound(s), NEW k \in Keys, ~ Resident(s, k),
         NEW o \in PFbufAlloc(s, k)
  PROVE  /\ NewOrderFor(s, o.s, k)
         /\ \A j \in Keys : Resident(s, j) /\ ~ Resident(o.s, j) =>
              Unfixed(s) # {} /\ s.hash[j] = Victim(s)
<1>1. PICK a \in PFbufInternalAlloc(s) :
        o \in IF a.rc # "OK" THEN {Outcome(a.rc, a.s)}
              ELSE Install(a.s, k, a.b,
                           [a.s.frame[a.b].fpage EXCEPT !.nextfree = USED])
  BY DEF PFbufAlloc
<1>2. /\ NoNewOrder(s, a.s)
      /\ a.rc = "OK" => \A g : ~ Ahead(a.s.list, g, a.b)
      /\ \A j \in Keys : Resident(s, j) /\ ~ Resident(a.s, j) =>
           Unfixed(s) # {} /\ s.hash[j] = Victim(s)
  BY InternalAllocOrder
<1>3. a.s.hash[k] = NULL
  BY InternalAllocHalfMade DEF NoNewEntry, Resident
<1>4. SUFFICES /\ NewOrderFor(a.s, o.s, k)
               /\ \A j \in Keys : Resident(a.s, j) => Resident(o.s, j)
  BY <1>2, NewOrderForTrans
<1>5. CASE a.rc # "OK"
  <2>1. o.s = a.s
    BY <1>1, <1>5 DEF Outcome
  <2>2. QED
    BY <1>3, <2>1 DEF NewOrderFor, PageAhead, Resident
<1>6. CASE a.rc = "OK"
  <2>1. HalfMade(a.s, a.b)
    BY <1>6, InternalAllocHalfMade
  <2>2. [a.s.frame[a.b].fpage EXCEPT !.nextfree = USED] \in FPage
    <3>1. a.s \in Pool /\ a.b \in Frames
      BY <2>1, ListedFrame DEF HalfMade
    <3>2. QED
      BY <3>1, PageTypes
  <2>3. QED
    BY <1>1, <1>2, <1>3, <1>6, <2>1, <2>2, InstallOrder
<1>7. QED
  BY <1>5, <1>6

\* PFbufUsed leaves list and hash table alone (buf.c:408-420).
LEMMA UsedOrder ==
  ASSUME NEW s, Sound(s), NEW k
  PROVE  LET t == PFbufUsed(s, k).s
         IN  t.list = s.list /\ t.hash = s.hash
<1>1. CASE ~ Resident(s, k)
  BY <1>1 DEF PFbufUsed, Outcome
<1>2. CASE Resident(s, k)
  <2>1. PFbufUsed(s, k).s = [s EXCEPT !.frame[s.hash[k]].fpage.nextfree = USED]
    BY <1>2 DEF PFbufUsed, Outcome
  <2>2. QED
    BY <2>1 DEF Sound, Pool
<1>3. QED
  BY <1>1, <1>2

\* A round of PFbufReleaseFile takes frames out of the list (buf.c:426-453).
LEMMA ReleaseStepOrder ==
  ASSUME NEW s, Sound(s), NEW fd \in Fds, NEW o \in PFbufReleaseStep(s, fd)
  PROVE  NoNewOrder(s, o.s)
<1>1. CASE o.s = s
  BY <1>1 DEF NoNewOrder
<1>2. CASE FramesOf(s, fd) # {}
  <2> DEFINE f == s.list[Min(FramesOf(s, fd))]
  <2>1. f \in Range(s.list)
    <3>1. DOMAIN s.list = 1 .. Len(s.list) /\ Len(s.list) \in Nat
      BY LenProperties DEF Sound, Pool
    <3>2. FramesOf(s, fd) \in SUBSET Nat /\ FramesOf(s, fd) \subseteq DOMAIN s.list
      BY <3>1 DEF FramesOf
    <3>3. Min(FramesOf(s, fd)) \in DOMAIN s.list
      BY <1>2, <3>2, LeastExists
    <3>4. QED
      BY <3>3 DEF Range
  <2>2. o \in ReleaseFrame(s, f)
    BY <1>2 DEF PFbufReleaseStep
  <2> HIDE DEF f
  <2>3. f \in Frames /\ KeyOf(s, f) \in Keys /\ s \in Pool
    BY <2>1, ListedFrame DEF Sound, Consistent, ListHashed
  <2>4. CASE s.frame[f].fixed
    BY <1>1, <2>2, <2>4 DEF ReleaseFrame, Outcome
  <2>5. CASE ~ s.frame[f].fixed
    <3>1. PICK w \in WriteBack(s, f) :
            o = IF w.rc = "OK"
                THEN Outcome("MORE", FreeFrame(PFhashDelete(w.s, KeyOf(s, f)), f))
                ELSE w
      BY <2>2, <2>5 DEF ReleaseFrame
    <3>2. OnlyDisk(s, w.s)
      BY <2>3, WriteBackOnlyDisk
    <3>3. /\ Sound(w.s) /\ w.s.list = s.list /\ w.s.hash = s.hash
          /\ f \in Range(w.s.list) /\ KeyOf(w.s, f) = KeyOf(s, f)
      BY <2>1, <3>2, OnlyDiskSound DEF OnlyDisk, KeyOf
    <3>4. NoNewOrder(s, w.s)
      BY <3>3, SameListOrder
    <3>5. CASE w.rc # "OK"
      BY <3>1, <3>4, <3>5
    <3>6. CASE w.rc = "OK"
      <4> DEFINE t == PFhashDelete(w.s, KeyOf(w.s, f))
      <4>1. o.s = FreeFrame(t, f)
        BY <3>1, <3>3, <3>6 DEF Outcome
      <4>2. HalfMade(t, f)
        BY <3>3, UnhashHalfMade
      <4>3. t.list = w.s.list /\ t.hash = [w.s.hash EXCEPT ![KeyOf(w.s, f)] = NULL]
        BY <3>3 DEF PFhashDelete, Sound, Pool
      <4> HIDE DEF t
      <4>4. \A j \in Keys : t.hash[j] = NULL \/ t.hash[j] = w.s.hash[j]
        BY <3>3, <4>3 DEF Sound, Pool
      <4>5. NoNewOrder(w.s, t)
        BY <4>3, <4>4 DEF NoNewOrder, PageAhead, Resident
      <4>6. NoNewOrder(t, o.s)
        BY <4>1, <4>2, FreeOrder
      <4>7. QED
        BY <3>4, <4>5, <4>6, NoNewOrderTrans
    <3>7. QED
      BY <3>5, <3>6
  <2>6. QED
    BY <2>4, <2>5
<1>3. QED
  BY <1>1, <1>2 DEF PFbufReleaseStep, Outcome

\* The victim is the last unfixed page of the list under LRU, the first under MRU
\* (buf.c:133-145).
LEMMA VictimOutermost ==
  ASSUME NEW s, Sound(s), Unfixed(s) # {},
         NEW k \in Keys, Resident(s, k), s.hash[k] = Victim(s),
         NEW j \in Keys \ {k}, Resident(s, j), ~ Fixed(s, j)
  PROVE  IF s.strategy = "LRU" THEN PageAhead(s, j, k) ELSE PageAhead(s, k, j)
<1> DEFINE U == Unfixed(s)
           v == IF s.strategy = "LRU" THEN Max(U) ELSE Min(U)
<1>1. DOMAIN s.list = 1 .. Len(s.list) /\ Len(s.list) \in Nat
  BY LenProperties DEF Sound, Pool
<1>2. U \in SUBSET (1 .. Len(s.list)) /\ U \in SUBSET Nat /\ U # {}
  BY <1>1 DEF Unfixed
<1>3. s.hash[j] \in Range(s.list) /\ s.hash[j] # s.hash[k]
  BY ResidentFrame
<1>4. PICK i \in DOMAIN s.list : s.list[i] = s.hash[j]
  BY <1>3 DEF Range
<1>5. i \in U
  BY <1>4 DEF Unfixed, Fixed
<1>6. s.list[v] = s.hash[k]
  BY DEF Victim
<1> HIDE DEF U
<1>7. /\ Max(U) \in U /\ Max(U) >= i
      /\ Min(U) \in U /\ Min(U) <= i
  BY <1>1, <1>2, <1>5, LeastExists, GreatestExists
<1>8. v # i /\ v \in DOMAIN s.list
  BY <1>1, <1>2, <1>3, <1>4, <1>6, <1>7
<1>9. CASE s.strategy = "LRU"
  <2>1. i < v
    BY <1>1, <1>2, <1>5, <1>7, <1>8, <1>9
  <2>2. QED
    BY <1>4, <1>6, <1>8, <1>9, <2>1 DEF PageAhead, Ahead
<1>10. CASE s.strategy # "LRU"
  <2>1. v < i
    BY <1>1, <1>2, <1>5, <1>7, <1>8, <1>10
  <2>2. QED
    BY <1>4, <1>6, <1>8, <1>10, <2>1 DEF PageAhead, Ahead
<1>11. QED
  BY <1>9, <1>10
-----------------------------------------------------------------------------
(* The actions. *)

\* The list agrees with the history of requests.
Ordered == \A i, j \in Keys : PageAhead(pool, i, j) => <<i, j>> \in newer
\* The inductive invariant.  That no page is lost is part of it: a page being
\* allocated must not be buffered already, or the failed call would count as asking
\* for it.
OrderInv == StoreInv /\ Ordered

\* A request moves its page to the head, in the list as in the history.
LEMMA AskedOrder ==
  ASSUME Ordered, NEW k \in Keys, Sound(pool'), NewOrderFor(pool, pool', k),
         newer' = Asked(k, pool')
  PROVE  Ordered'
<1> SUFFICES ASSUME NEW i \in Keys, NEW j \in Keys, PageAhead(pool', i, j)
             PROVE  <<i, j>> \in newer'
  BY DEF Ordered, PageAhead, Ahead, Resident
<1>1. Resident(pool', i) /\ Resident(pool', j)
  BY DEF PageAhead
<1>2. i # j
  <2>1. IsInjective(pool'.list) /\ DOMAIN pool'.list \subseteq Nat
    BY LenProperties DEF Sound, Pool, Consistent, ListSound
  <2>2. QED
    BY <2>1, AheadIrreflexive DEF PageAhead
<1>3. CASE i = k
  BY <1>1, <1>2, <1>3 DEF Asked, Among
<1>4. CASE i # k
  <2>1. j # k /\ <<i, j>> \in newer
    BY <1>4 DEF NewOrderFor, Ordered
  <2>2. QED
    BY <1>1, <2>1 DEF Asked, Among
<1>5. QED
  BY <1>3, <1>4

\* What orders nothing anew leaves the history true of what is still buffered.
LEMMA AmongOrder ==
  ASSUME Ordered, NoNewOrder(pool, pool'),
         newer' = newer \/ newer' = Among(newer, pool')
  PROVE  Ordered'
<1> SUFFICES ASSUME NEW i \in Keys, NEW j \in Keys, PageAhead(pool', i, j)
             PROVE  <<i, j>> \in newer'
  BY DEF Ordered, PageAhead, Ahead, Resident
<1>1. <<i, j>> \in newer
  BY DEF NoNewOrder, Ordered
<1>2. QED
  BY <1>1 DEF Among, PageAhead

LEMMA OrderInvInit == Init => OrderInv
<1> SUFFICES ASSUME Init
             PROVE  Ordered
  BY StoreInvInit DEF OrderInv
<1>1. \A k \in Keys : ~ Resident(pool, k)
  BY DEF Init, EmptyPool, Resident
<1>2. QED
  BY <1>1 DEF Ordered, PageAhead

\* What a step takes away: only the victim, and only while no file is released.
OnlyVictim ==
  \A k \in Keys : Resident(pool, k) /\ ~ Resident(pool', k) =>
    Unfixed(pool) # {} /\ pool.hash[k] = Victim(pool)

LEMMA OrderNext ==
  OrderInv /\ [Next]_vars => Ordered' /\ (Idle => OnlyVictim)
<1> SUFFICES ASSUME OrderInv, [Next]_vars
             PROVE  Ordered' /\ (Idle => OnlyVictim)
  OBVIOUS
<1>0. /\ Ordered /\ PoolInv /\ Sound(pool) /\ Faithful(pool, Born, owed)
      /\ pool.file \in [Fds -> Files] /\ pool \in Pool
  BY DEF OrderInv, StoreInv, PoolInv, Sound
<1>a. Sound(pool')
  BY <1>0, PoolInvNext DEF PoolInv
<1>b. ASSUME pool'.list = pool.list, pool'.hash = pool.hash, newer' = newer
      PROVE  Ordered' /\ OnlyVictim
  <2>1. NoNewOrder(pool, pool')
    BY <1>b, SameListOrder
  <2>2. Ordered'
    BY <1>0, <1>b, <2>1, AmongOrder
  <2>3. QED
    BY <1>b, <2>2 DEF OnlyVictim, Resident
<1>1. ASSUME NEW k \in Keys, Get(k)
      PROVE  Ordered' /\ OnlyVictim
  <2>1. PICK o \in PFbufGet(pool, k) : pool' = o.s
    BY <1>1 DEF Get
  <2>2. newer' = Asked(k, pool') /\ pool.file[k[1]] \in Files
    BY <1>0, <1>1 DEF Get, Keys
  <2>3. NewOrderFor(pool, pool', k) /\ OnlyVictim
    BY <1>0, <2>1, <2>2, GetOrder DEF OnlyVictim
  <2>4. QED
    BY <1>0, <1>a, <2>2, <2>3, AskedOrder
<1>2. ASSUME NEW k \in Keys, NEW dirty \in BOOLEAN, Unfix(k, dirty)
      PROVE  Ordered' /\ OnlyVictim
  <2>1. pool'.list = pool.list /\ pool'.hash = pool.hash
    BY <1>0, <1>2, UnfixKeepsOthers DEF Unfix
  <2>2. QED
    BY <1>2, <1>b, <2>1 DEF Unfix
<1>3. ASSUME NEW k \in Keys, NEW n \in NextFreeWritten, NEW d \in Data,
             Write(k, [nextfree |-> n, data |-> d])
      PROVE  Ordered' /\ OnlyVictim
  <2>1. pool'.list = pool.list /\ pool'.hash = pool.hash
    BY <1>0, <1>3 DEF Write, Pool
  <2>2. QED
    BY <1>3, <1>b, <2>1 DEF Write
<1>4. ASSUME NEW fd \in Fds, Alloc(fd)
      PROVE  Ordered' /\ OnlyVictim
  <2> DEFINE k == <<fd, npages[fd]>>
  <2>1. k \in Keys /\ newer' = Asked(k, pool')
    BY <1>4 DEF Alloc
  <2>2. PICK o \in PFbufAlloc(pool, k) :
          pool' = IF o.rc = "OK" THEN PFbufUsed(o.s, k).s ELSE o.s
    BY <1>4 DEF Alloc
  <2>3. k \notin Born
    BY <1>0 DEF Born, PoolInv
  <2> HIDE DEF k
  <2>4. ~ Resident(pool, k)
    BY <1>0, <2>1, <2>3 DEF Faithful
  <2>5. /\ NewOrderFor(pool, o.s, k) /\ Sound(o.s)
        /\ \A j \in Keys : Resident(pool, j) /\ ~ Resident(o.s, j) =>
             Unfixed(pool) # {} /\ pool.hash[j] = Victim(pool)
    BY <1>0, <2>1, <2>2, <2>4, AllocOrder, AllocSound
  <2>6. pool'.list = o.s.list /\ pool'.hash = o.s.hash
    BY <2>2, <2>5, UsedOrder
  <2>7. NewOrderFor(pool, pool', k) /\ OnlyVictim
    BY <2>5, <2>6 DEF NewOrderFor, PageAhead, Resident, OnlyVictim
  <2>8. QED
    BY <1>0, <1>a, <2>1, <2>7, AskedOrder
<1>5. ASSUME NEW fd \in Fds, ReleaseFile(fd)
      PROVE  Ordered' /\ OnlyVictim
  BY <1>5, <1>b DEF ReleaseFile
<1>6. ASSUME NEW strategy \in Strategies, SetStrategy(strategy)
      PROVE  Ordered' /\ OnlyVictim
  <2>1. pool'.list = pool.list /\ pool'.hash = pool.hash
    BY <1>0, <1>6 DEF SetStrategy, PFbufSetStrategy, Pool
  <2>2. QED
    BY <1>6, <1>b, <2>1 DEF SetStrategy
<1>7. ASSUME ReleaseStep
      PROVE  Ordered' /\ (Idle => OnlyVictim)
  <2>1. releasing \in Fds /\ ~ Idle
    BY <1>0, <1>7 DEF ReleaseStep, Idle, PoolInv
  <2>2. PICK o \in PFbufReleaseStep(pool, releasing) : pool' = o.s
    BY <1>7 DEF ReleaseStep
  <2>3. NoNewOrder(pool, pool')
    BY <1>0, <2>1, <2>2, ReleaseStepOrder
  <2>4. Ordered'
    BY <1>0, <1>7, <2>3, AmongOrder DEF ReleaseStep
  <2>5. QED
    BY <2>1, <2>4
<1>8. CASE UNCHANGED vars
  BY <1>8, <1>b DEF vars
<1>9. QED
  BY <1>1, <1>2, <1>3, <1>4, <1>5, <1>6, <1>7, <1>8 DEF Next

LEMMA OrderInvNext == OrderInv /\ [Next]_vars => OrderInv'
  BY OrderNext, StoreInvNext DEF OrderInv

\* What one step may do to the list, with EvictsByStrategy's condition on it.
Evictions ==
  Idle => \A k \in Keys : Resident(pool, k) /\ ~ Resident(pool', k) =>
    \A j \in Keys \ {k} : Resident(pool, j) /\ ~ Fixed(pool, j) =>
      IF pool.strategy = "LRU" THEN <<j, k>> \in newer
                               ELSE <<k, j>> \in newer

LEMMA EvictionsNext == OrderInv /\ [Next]_vars => Evictions
<1> SUFFICES ASSUME OrderInv, [Next]_vars, Idle,
                    NEW k \in Keys, Resident(pool, k), ~ Resident(pool', k),
                    NEW j \in Keys \ {k}, Resident(pool, j), ~ Fixed(pool, j)
             PROVE  IF pool.strategy = "LRU" THEN <<j, k>> \in newer
                                             ELSE <<k, j>> \in newer
  BY DEF Evictions
<1>1. Ordered /\ Sound(pool)
  BY DEF OrderInv, StoreInv, PoolInv
<1>2. Unfixed(pool) # {} /\ pool.hash[k] = Victim(pool)
  BY OrderNext DEF OnlyVictim
<1>3. IF pool.strategy = "LRU" THEN PageAhead(pool, j, k)
                               ELSE PageAhead(pool, k, j)
  BY <1>1, <1>2, VictimOutermost
<1>4. QED
  BY <1>1, <1>3 DEF Ordered

\* Whatever was asked for, found fixed, dropped or failed to be read before, the
\* page a call gives up is the least recently asked for of those nobody holds
\* under LRU, the most recently asked for under MRU, also after the strategy was
\* changed in between (buf.c:133-145, 285-301).
THEOREM EvictionsFollowStrategy == Spec => EvictsByStrategy
<1>1. OrderInv /\ [Next]_vars => [Evictions]_vars
  BY EvictionsNext
<1>2. QED
  BY <1>1, OrderInvInit, OrderInvNext, PTL DEF Spec, EvictsByStrategy, Evictions
=============================================================================
