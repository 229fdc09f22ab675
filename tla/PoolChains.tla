----------------------------- MODULE PoolChains -----------------------------
(***************************************************************************)
(* The pointers of the buffer pool: the doubly linked list of frames       *)
(* (buf.c) and the doubly linked chains of the hash table (hash.c), under  *)
(* the calls of buf.c.  BufOps has a sequence and a map in their place;    *)
(* here it is shown that it may.                                           *)
(*                                                                         *)
(* Of the rest of the pool only the page of a frame is kept.  Which frame  *)
(* is evicted depends on the fixed bits and the strategy, here it is any;  *)
(* a read, a write or malloc may fail wherever one is made.                *)
(***************************************************************************)
EXTENDS Integers, Sequences, FiniteSets, Functions

CONSTANTS
  Fds, Pages,  \* as in BufOps
  Frames,      \* memory that malloc can give for a PFbpage
  Entries,     \* memory that malloc can give for a PFhash_entry
  MaxBufs,     \* PF_MAX_BUFS
  HashSize,    \* PF_HASH_TBL_SIZE
  NULL

ASSUME ChainsAssumption ==
  /\ MaxBufs \in Nat \ {0} /\ HashSize \in Nat \ {0}
  /\ Fds \subseteq Nat /\ Pages \subseteq Nat
  /\ NULL \notin Frames /\ NULL \notin Entries
  /\ IsFiniteSet(Frames) /\ IsFiniteSet(Entries)

VARIABLES
  s,     \* the pointers
  walk   \* where PFbufReleaseFile is: the fd, and the frame it comes to next

vars == <<s, walk>>

Keys == Fds \X Pages
NoKey == <<-1, -1>>
FreeFrame == [nextpage |-> NULL, prevpage |-> NULL, key |-> NoKey, used |-> FALSE]
FreeEntry == [nextentry |-> NULL, preventry |-> NULL, key |-> NoKey, bpage |-> NULL, used |-> FALSE]
NoWalk == [fd |-> -1, b |-> NULL]

Init ==
  /\ s = [firstbpage |-> NULL, lastbpage |-> NULL, numbpage |-> 0,
          frame |-> [f \in Frames |-> FreeFrame],
          hashtbl |-> [i \in 0 .. HashSize - 1 |-> NULL],
          entry |-> [e \in Entries |-> FreeEntry]]
  /\ walk = NoWalk

UsedFrames == {f \in Frames : s.frame[f].used}
UsedEntries == {e \in Entries : s.entry[e].used}

-----------------------------------------------------------------------------
(* The buffer list. *)

SetNextpage(frame, f, to) == IF f = NULL THEN frame ELSE [frame EXCEPT ![f].nextpage = to]
SetPrevpage(frame, f, to) == IF f = NULL THEN frame ELSE [frame EXCEPT ![f].prevpage = to]

PFbufLinkHead(t, b) ==
  [t EXCEPT
     !.frame = SetPrevpage([@ EXCEPT ![b].nextpage = t.firstbpage, ![b].prevpage = NULL],
                           t.firstbpage, b),
     !.firstbpage = b,
     !.lastbpage = IF @ = NULL THEN b ELSE @]

\* Mutant: PFlastbpage is not looked at.
PFbufUnlink_LastKept(t, b) ==
  LET next == t.frame[b].nextpage
      prev == t.frame[b].prevpage
  IN  [t EXCEPT
         !.firstbpage = IF @ = b THEN next ELSE @,
         !.frame = [SetNextpage(SetPrevpage(@, next, prev), prev, next)
                      EXCEPT ![b].nextpage = NULL, ![b].prevpage = NULL]]
\* Mutant: the frame behind keeps pointing back to the one that goes.
PFbufUnlink_PrevKept(t, b) ==
  LET next == t.frame[b].nextpage
      prev == t.frame[b].prevpage
  IN  [t EXCEPT
         !.firstbpage = IF @ = b THEN next ELSE @,
         !.lastbpage = IF @ = b THEN prev ELSE @,
         !.frame = [SetNextpage(@, prev, next) EXCEPT ![b].nextpage = NULL, ![b].prevpage = NULL]]
PFbufUnlink(t, b) ==
  LET next == t.frame[b].nextpage
      prev == t.frame[b].prevpage
  IN  [t EXCEPT
         !.firstbpage = IF @ = b THEN next ELSE @,
         !.lastbpage = IF @ = b THEN prev ELSE @,
         !.frame = [SetNextpage(SetPrevpage(@, next, prev), prev, next)
                      EXCEPT ![b].nextpage = NULL, ![b].prevpage = NULL]]

\* Unlinked, counted out and freed.
Freed(t, b) ==
  LET u == PFbufUnlink(t, b)
  IN  [u EXCEPT !.numbpage = @ - 1, !.frame[b] = FreeFrame]

-----------------------------------------------------------------------------
(* The hash table. *)

PFhash(k) == (k[1] + k[2]) % HashSize

\* The entry for page k in its bucket, or NULL.
EntryOf(t, k) ==
  LET from[e \in Entries \cup {NULL}] ==
        IF e = NULL \/ t.entry[e].key = k THEN e ELSE from[t.entry[e].nextentry]
  IN  from[t.hashtbl[PFhash(k)]]
PFhashFind(t, k) == LET e == EntryOf(t, k) IN IF e = NULL THEN NULL ELSE t.entry[e].bpage

SetNextentry(entry, e, to) == IF e = NULL THEN entry ELSE [entry EXCEPT ![e].nextentry = to]
SetPreventry(entry, e, to) == IF e = NULL THEN entry ELSE [entry EXCEPT ![e].preventry = to]

\* The tables after an insertion, with and without memory for it; none if the page
\* is there already.
PFhashInsert(t, k, b) ==
  LET i == PFhash(k)
      head == t.hashtbl[i]
      new == [nextentry |-> head, preventry |-> NULL, key |-> k, bpage |-> b, used |-> TRUE]
  IN  IF EntryOf(t, k) # NULL THEN {}
      ELSE {[t EXCEPT !.entry = SetPreventry([@ EXCEPT ![e] = new], head, e), !.hashtbl[i] = e] :
              e \in {e \in Entries : ~ t.entry[e].used}}

\* Mutant: the bucket is not looked at.
PFhashDelete_BucketKept(t, k) ==
  LET e == EntryOf(t, k)
      next == t.entry[e].nextentry
      prev == t.entry[e].preventry
  IN  IF e = NULL THEN t
      ELSE [t EXCEPT
              !.entry = [SetPreventry(SetNextentry(@, prev, next), next, prev)
                           EXCEPT ![e] = FreeEntry]]
PFhashDelete(t, k) ==
  LET e == EntryOf(t, k)
      next == t.entry[e].nextentry
      prev == t.entry[e].preventry
  IN  IF e = NULL THEN t
      ELSE [t EXCEPT
              !.hashtbl[PFhash(k)] = IF @ = e THEN next ELSE @,
              !.entry = [SetPreventry(SetNextentry(@, prev, next), next, prev)
                           EXCEPT ![e] = FreeEntry]]

-----------------------------------------------------------------------------
(* The calls of buf.c. *)

Idle == walk = NoWalk

\* PFbufInternalAlloc: the frame it gives, new or a victim's, and what the
\* pointers are then.
\* Mutant: the victim's hash entry is left behind.
Taken_StillHashed(t) ==
  IF t.numbpage < MaxBufs
  THEN {[b |-> b,
         s |-> PFbufLinkHead([t EXCEPT !.frame[b] = [FreeFrame EXCEPT !.used = TRUE], !.numbpage = @ + 1], b)] :
          b \in {b \in Frames : ~ t.frame[b].used}}
  ELSE {LET u == PFbufUnlink(t, b)
        IN  [b |-> b, s |-> PFbufLinkHead([u EXCEPT !.frame[b].key = NoKey], b)] :
          b \in {b \in Frames : t.frame[b].used}}
Taken(t) ==
  IF t.numbpage < MaxBufs
  THEN {[b |-> b,
         s |-> PFbufLinkHead([t EXCEPT !.frame[b] = [FreeFrame EXCEPT !.used = TRUE], !.numbpage = @ + 1], b)] :
          b \in {b \in Frames : ~ t.frame[b].used}}
  ELSE {LET u == PFbufUnlink(PFhashDelete(t, t.frame[b].key), b)
        IN  [b |-> b, s |-> PFbufLinkHead([u EXCEPT !.frame[b].key = NoKey], b)] :
          b \in {b \in Frames : t.frame[b].used}}

Hit(t, b) == IF t.firstbpage = b THEN t ELSE PFbufLinkHead(PFbufUnlink(t, b), b)

PFbufGet(k) ==
  /\ Idle
  /\ IF PFhashFind(s, k) # NULL THEN s' = Hit(s, PFhashFind(s, k))
     ELSE \E taken \in Taken(s) :
            LET t == [taken.s EXCEPT !.frame[taken.b].key = k]
            IN  s' \in PFhashInsert(t, k, taken.b) \cup {Freed(t, taken.b)}
  /\ UNCHANGED walk

PFbufAlloc(k) ==
  /\ Idle
  /\ PFhashFind(s, k) = NULL
  /\ \E taken \in Taken(s) :
       LET t == [taken.s EXCEPT !.frame[taken.b].key = k]
       IN  s' \in PFhashInsert(t, k, taken.b) \cup {Freed(t, taken.b)}
  /\ UNCHANGED walk

PFbufReleaseFile(fd) ==
  /\ Idle
  /\ walk' = [fd |-> fd, b |-> s.firstbpage]
  /\ UNCHANGED s

\* One round of its loop; it may stop at a frame of the file.
\* Mutant: the next frame is read from the one that was just unlinked.
ReleaseStep_NextAfter ==
  /\ ~ Idle
  /\ IF walk.b = NULL THEN walk' = NoWalk /\ UNCHANGED s
     ELSE IF s.frame[walk.b].key[1] # walk.fd
     THEN walk' = [walk EXCEPT !.b = s.frame[@].nextpage] /\ UNCHANGED s
     ELSE \/ /\ s' = Freed(PFhashDelete(s, s.frame[walk.b].key), walk.b)
             /\ walk' = [walk EXCEPT !.b = s'.frame[@].nextpage]
          \/ walk' = NoWalk /\ UNCHANGED s
ReleaseStep ==
  /\ ~ Idle
  /\ IF walk.b = NULL THEN walk' = NoWalk /\ UNCHANGED s
     ELSE IF s.frame[walk.b].key[1] # walk.fd
     THEN walk' = [walk EXCEPT !.b = s.frame[@].nextpage] /\ UNCHANGED s
     ELSE \/ /\ s' = Freed(PFhashDelete(s, s.frame[walk.b].key), walk.b)
             /\ walk' = [walk EXCEPT !.b = s.frame[@].nextpage]
          \/ walk' = NoWalk /\ UNCHANGED s

Next ==
  \/ \E k \in Keys : PFbufGet(k) \/ PFbufAlloc(k)
  \/ \E fd \in Fds : PFbufReleaseFile(fd)
  \/ ReleaseStep

Spec == Init /\ [][Next]_vars

-----------------------------------------------------------------------------
(* Properties. *)

\* Every pointer leads to memory that is in use, and no use is made of what was
\* freed.
TypeOK ==
  LET frames == UsedFrames \cup {NULL}
      entries == UsedEntries \cup {NULL}
  IN  /\ {s.firstbpage, s.lastbpage, walk.b} \subseteq frames
      /\ s.numbpage \in 0 .. MaxBufs
      /\ s.frame \in [Frames -> [nextpage : frames, prevpage : frames,
                                 key : Keys \cup {NoKey}, used : BOOLEAN]]
      /\ s.hashtbl \in [0 .. HashSize - 1 -> entries]
      /\ s.entry \in [Entries -> [nextentry : entries, preventry : entries,
                                  key : Keys \cup {NoKey}, bpage : frames, used : BOOLEAN]]
      /\ walk \in [fd : Fds \cup {-1}, b : frames]

\* What is reached from p along the pointers to[_], which may not run in a circle.
Path(p, to) ==
  LET Step(q) == IF q = NULL THEN NULL ELSE to[q]
      at[n \in Nat] == IF n = 0 THEN p ELSE Step(at[n - 1])
      reached == {n \in 0 .. Cardinality(DOMAIN to) - 1 : at[n] # NULL}
  IN  [i \in 1 .. Cardinality(reached) |-> at[i - 1]]
Mirrored(seq, back) ==
  \A i \in DOMAIN seq : back[seq[i]] = IF i = 1 THEN NULL ELSE seq[i - 1]

List == Path(s.firstbpage, [f \in Frames |-> s.frame[f].nextpage])
Bucket(i) == Path(s.hashtbl[i], [e \in Entries |-> s.entry[e].nextentry])

\* The list runs from PFfirstbpage to PFlastbpage over every frame that is in use,
\* each once, and the same way back; PFnumbpage is its length.  Unlinking repairs
\* both ends and both neighbours, wherever the frame is (buf.c:72).
ListSound ==
  /\ IsInjective(List) /\ Range(List) = UsedFrames
  /\ Mirrored(List, [f \in Frames |-> s.frame[f].prevpage])
  /\ s.lastbpage = IF List = <<>> THEN NULL ELSE List[Len(List)]
  /\ s.numbpage = Len(List)

\* Each bucket is a chain, there and back, of entries for pages that hash to it; no
\* entry is in two of them or in none (it would never be freed), and none is left
\* of a page that was evicted (hash.c:128).
ChainsSound ==
  /\ \A i \in DOMAIN s.hashtbl :
       /\ IsInjective(Bucket(i))
       /\ Mirrored(Bucket(i), [e \in Entries |-> s.entry[e].preventry])
       /\ \A e \in Range(Bucket(i)) : PFhash(s.entry[e].key) = i
  /\ UsedEntries = UNION {Range(Bucket(i)) : i \in DOMAIN s.hashtbl}
  /\ \A e \in UsedEntries : s.frame[s.entry[e].bpage].key = s.entry[e].key
  /\ Cardinality(UsedEntries) = Len(List)

\* The walk of PFbufReleaseFile, which frees the frame that it stands on, leaves no
\* frame of its file behind: BufOps may take the first that is left (buf.c:426).
NothingPassed ==
  ~ Idle =>
    LET ahead == Path(walk.b, [f \in Frames |-> s.frame[f].nextpage])
    IN  \A f \in UsedFrames : s.frame[f].key[1] = walk.fd => f \in Range(ahead)

Index == INSTANCE PoolIndex WITH list <- List, hash <- [k \in Keys |-> PFhashFind(s, k)]

\* What the chains answer is a sequence of frames and a map from pages to frames,
\* changed by each call as BufOps changes them.
IndexSpec == Index!Spec
=============================================================================
