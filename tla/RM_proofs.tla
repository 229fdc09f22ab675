------------------------------ MODULE RM_proofs ------------------------------
(***************************************************************************)
(* The record manager keeps its records, for any page size, number of      *)
(* pages, records and scans, and whichever pages PF refuses.  The first    *)
(* part is about one page: what an insertion and a deletion do to its      *)
(* header, its slots and its records.  The second is about the file and    *)
(* the calls that change it, the third about scans.                        *)
(*                                                                         *)
(* RM_InsertRec does not look at the room of a page it has just allocated  *)
(* (rm.c:150-167): a record that does not fit an empty page with its slot  *)
(* lies under that slot, alone on a page that is overfull.                 *)
(***************************************************************************)
EXTENDS RM, FiniteSetTheorems, SequenceTheorems, WellFoundedInduction, TLAPS

-----------------------------------------------------------------------------
(* Pages. *)

Unit == Slots \cup UnitsOf \cup {Blank}
\* A slot's record lies between free space and the end of the page.
Inside(m, slot) ==
  /\ slot.length >= 1
  /\ m[0].freeSpaceOffset <= slot.offset /\ slot.offset + slot.length <= PAGE_SIZE
Apart(x, y) == x.offset + x.length <= y.offset \/ y.offset + y.length <= x.offset
\* A page with the one record that does not fit it.
Overfull(m) ==
  NumSlots(m) = 1 /\ m[0].freeSpaceOffset = 1 /\ SlotAt(m, 0).length = PAGE_SIZE - 1
\* A page of slots and records: none overlaps another, and each slot ever made
\* took a unit at least, so there are never more slots than RIDs.
PageSound(m) ==
  /\ m \in Page /\ m[0] \in Headers
  /\ \A a \in 1 .. PAGE_SIZE - 1 : m[a] \in Unit
  /\ HDR + NumSlots(m) <= m[0].freeSpaceOffset \/ Overfull(m)
  /\ m[0].freeSpaceOffset + NumSlots(m) <= PAGE_SIZE
  /\ \A i \in SlotsOf(m) : SlotAt(m, i) \in Slots
  /\ \A i \in LiveSlots(m) : Inside(m, SlotAt(m, i))
  /\ \A i, j \in LiveSlots(m) : i # j => Apart(SlotAt(m, i), SlotAt(m, j))
\* What slot i of page m tells of a RID.
Answer(m, i) ==
  IF i >= NumSlots(m) THEN Never
  ELSE IF SlotAt(m, i).offset = TOMBSTONE THEN Gone
  ELSE Data(m, SlotAt(m, i))

LEMMA SlotUnit ==
  ASSUME NEW m, NEW i \in Nat
  PROVE  SlotAt(m, i) = m[i + 1]
BY DEF SlotAt, HDR, SLOT

LEMMA HeaderType ==
  ASSUME NEW m, PageSound(m)
  PROVE  /\ NumSlots(m) \in Nat /\ m[0].freeSpaceOffset \in Nat
         /\ \/ NumSlots(m) + 1 <= m[0].freeSpaceOffset
            \/ NumSlots(m) = 1 /\ m[0].freeSpaceOffset = 1
         /\ m[0].freeSpaceOffset + NumSlots(m) <= PAGE_SIZE
         /\ PAGE_SIZE \in Nat /\ PAGE_SIZE > 2
<1>1. PAGE_SIZE \in Nat /\ PAGE_SIZE > 2
  BY RMAssumption
<1>2. m[0] \in Headers
  BY DEF PageSound
<1>3. NumSlots(m) \in Nat /\ m[0].freeSpaceOffset \in Nat
  BY <1>1, <1>2 DEF Headers, NumSlots
<1>4. QED
  BY <1>1, <1>3 DEF PageSound, Overfull, HDR

\* A page just initialised is sound and has no slot (rm.c:99-112).
LEMMA InitPageSound ==
  LET m == RM_InitPage(NewPage)
  IN  PageSound(m) /\ NumSlots(m) = 0 /\ m[0].freeSpaceOffset = PAGE_SIZE
<1> DEFINE h == [numSlots |-> 0, freeSpaceOffset |-> PAGE_SIZE]
           m == RM_InitPage(NewPage)
<1>1. PAGE_SIZE \in Nat /\ PAGE_SIZE > 2
  BY RMAssumption
<1>2. m = [a \in 0 .. PAGE_SIZE - 1 |-> IF a = 0 THEN h ELSE Blank]
  BY <1>1 DEF RM_InitPage, NewPage
<1>3. h \in Headers /\ h.numSlots = 0 /\ h.freeSpaceOffset = PAGE_SIZE
  BY <1>1 DEF Headers
<1> HIDE DEF h, m
<1>4. m[0] = h /\ \A a \in 1 .. PAGE_SIZE - 1 : m[a] = Blank
  BY <1>1, <1>2
<1>5. m \in Page
  BY <1>2, <1>3 DEF Page
<1>6. NumSlots(m) = 0 /\ m[0].freeSpaceOffset = PAGE_SIZE
  BY <1>3, <1>4 DEF NumSlots
<1>7. SlotsOf(m) = {} /\ LiveSlots(m) = {}
  BY <1>6 DEF SlotsOf, LiveSlots
<1>8. PageSound(m)
  BY <1>1, <1>3, <1>4, <1>5, <1>6, <1>7 DEF PageSound, Unit, HDR
<1>9. QED
  BY <1>6, <1>8 DEF m

\* What an insertion writes, unit by unit: the record below the others, its slot
\* after the others, and the header (rm.c:216-228).
LEMMA InsertedUnits ==
  ASSUME NEW m, PageSound(m), NEW r \in Records,
         NumSlots(m) + 2 + Length[r] <= m[0].freeSpaceOffset
  PROVE  LET u == Inserted(m, r)
             n == NumSlots(m)
             off == m[0].freeSpaceOffset - Length[r]
         IN  /\ u \in Page /\ \A a \in 1 .. PAGE_SIZE - 1 : u[a] \in Unit
             /\ u[0] = [numSlots |-> n + 1, freeSpaceOffset |-> off]
             /\ u[n + 1] = [offset |-> off, length |-> Length[r]]
             /\ \A j \in 0 .. Length[r] - 1 : u[off + j] = [of |-> r, unit |-> j]
             /\ \A a \in 1 .. PAGE_SIZE - 1 :
                  a # n + 1 /\ (a < off \/ a >= off + Length[r]) => u[a] = m[a]
<1> DEFINE u == Inserted(m, r)
           n == NumSlots(m)
           len == Length[r]
           off == m[0].freeSpaceOffset - len
           hdr == [numSlots |-> n + 1, freeSpaceOffset |-> off]
           slot == [offset |-> off, length |-> len]
           copied == [a \in DOMAIN m |-> IF a \in off .. off + len - 1
                                         THEN Units(r)[a - off] ELSE m[a]]
<1>1. /\ n \in Nat /\ m[0].freeSpaceOffset \in Nat /\ PAGE_SIZE \in Nat
      /\ m[0].freeSpaceOffset + n <= PAGE_SIZE
  BY HeaderType
<1>2. len \in Nat /\ len >= 1 /\ off \in Nat /\ n + 2 <= off /\ off + len <= PAGE_SIZE
  BY <1>1, RMAssumption
<1>3. u = [copied EXCEPT ![n + 1] = slot, ![0] = hdr]
  <2>1. HDR + n * SLOT = n + 1
    BY <1>1 DEF HDR, SLOT
  <2>2. u = [copied EXCEPT ![HDR + n * SLOT] = slot, ![0] = hdr]
    BY DEF Inserted
  <2> HIDE DEF copied, hdr, slot, u, n
  <2>3. QED
    BY <2>1, <2>2
<1>4. DOMAIN m = 0 .. PAGE_SIZE - 1
  BY DEF PageSound, Page
<1>5. \A j \in 0 .. len - 1 : Units(r)[j] = [of |-> r, unit |-> j]
  BY DEF Units
<1>6. /\ DOMAIN copied = 0 .. PAGE_SIZE - 1
      /\ \A j \in 0 .. len - 1 : copied[off + j] = [of |-> r, unit |-> j]
      /\ \A a \in 0 .. PAGE_SIZE - 1 : a < off \/ a >= off + len => copied[a] = m[a]
  <2>1. \A j \in 0 .. len - 1 : /\ off + j \in 0 .. PAGE_SIZE - 1
                                /\ off + j \in off .. off + len - 1
                                /\ (off + j) - off = j
    BY <1>1, <1>2
  <2> HIDE DEF off, len
  <2>2. \A j \in 0 .. len - 1 : copied[off + j] = Units(r)[j]
    BY <1>4, <2>1
  <2>3. QED
    BY <1>2, <1>4, <1>5, <2>2
<1> HIDE DEF u, n, off, len, hdr, slot, copied
<1>7. /\ DOMAIN u = 0 .. PAGE_SIZE - 1 /\ u[0] = hdr /\ u[n + 1] = slot
      /\ \A a \in 1 .. PAGE_SIZE - 1 : a # n + 1 => u[a] = copied[a]
      /\ u = [a \in 0 .. PAGE_SIZE - 1 |-> u[a]]
  <2>1. n + 1 # 0 /\ n + 1 \in 0 .. PAGE_SIZE - 1 /\ 0 \in 0 .. PAGE_SIZE - 1
    BY <1>1, <1>2
  <2>2. \A a \in 1 .. PAGE_SIZE - 1 : a # 0 /\ a \in 0 .. PAGE_SIZE - 1
    BY <1>1
  <2>3. QED
    BY <1>3, <1>6, <2>1, <2>2
<1>8. \A j \in 0 .. len - 1 : u[off + j] = [of |-> r, unit |-> j]
  <2>1. ASSUME NEW j \in 0 .. len - 1
        PROVE  off + j \in 1 .. PAGE_SIZE - 1 /\ off + j # n + 1
    BY <1>1, <1>2
  <2>2. QED
    BY <1>6, <1>7, <2>1
<1>9. \A a \in 1 .. PAGE_SIZE - 1 :
        a # n + 1 /\ (a < off \/ a >= off + len) => u[a] = m[a]
  BY <1>6, <1>7
<1>10. hdr \in Headers /\ slot \in Slots
  BY <1>1, <1>2 DEF hdr, slot, Headers, Slots
<1>11. \A a \in 1 .. PAGE_SIZE - 1 : u[a] \in Unit
  <2> SUFFICES ASSUME NEW a \in 1 .. PAGE_SIZE - 1
               PROVE  u[a] \in Unit
    OBVIOUS
  <2>1. CASE a = n + 1
    BY <1>7, <1>10, <2>1 DEF Unit
  <2>2. CASE a # n + 1 /\ (a < off \/ a >= off + len)
    BY <1>9, <2>2 DEF PageSound
  <2>3. CASE ~ (a < off \/ a >= off + len)
    <3>1. a - off \in 0 .. len - 1 /\ off + (a - off) = a
      BY <1>1, <1>2, <2>3
    <3>2. u[a] = [of |-> r, unit |-> a - off]
      BY <1>8, <3>1
    <3>3. QED
      BY <3>1, <3>2 DEF Unit, UnitsOf, len
  <2>4. QED
    BY <2>1, <2>2, <2>3
<1>12. u \in Page
  <2>1. \A a \in 0 .. PAGE_SIZE - 1 : u[a] \in Headers \cup Slots \cup UnitsOf \cup {Blank}
    <3>1. \A a \in 0 .. PAGE_SIZE - 1 : a = 0 \/ a \in 1 .. PAGE_SIZE - 1
      BY <1>1
    <3>2. QED
      BY <1>7, <1>10, <1>11, <3>1 DEF Unit
  <2>2. QED
    BY <1>7, <2>1 DEF Page
<1>13. QED
  BY <1>7, <1>8, <1>9, <1>11, <1>12 DEF u, n, off, len, hdr, slot

\* An insertion answers for its own RID and for no other (rm.c:206-235).
LEMMA InsertedSound ==
  ASSUME NEW m, PageSound(m), NEW r \in Records,
         NumSlots(m) + 2 + Length[r] <= m[0].freeSpaceOffset
  PROVE  LET u == Inserted(m, r)
             n == NumSlots(m)
         IN  /\ PageSound(u)
             /\ NumSlots(u) = n + 1
             /\ LiveSlots(u) = LiveSlots(m) \cup {n}
             /\ Answer(u, n) = Units(r)
             /\ \A i \in Nat \ {n} : Answer(u, i) = Answer(m, i)
<1> DEFINE u == Inserted(m, r)
           n == NumSlots(m)
           len == Length[r]
           off == m[0].freeSpaceOffset - len
           hdr == [numSlots |-> n + 1, freeSpaceOffset |-> off]
           slot == [offset |-> off, length |-> len]
<1>1. /\ n \in Nat /\ m[0].freeSpaceOffset \in Nat /\ PAGE_SIZE \in Nat
      /\ m[0].freeSpaceOffset + n <= PAGE_SIZE
  BY HeaderType
<1>2. /\ len \in Nat /\ len >= 1 /\ off \in Nat /\ n + 2 <= off
      /\ m[0].freeSpaceOffset = off + len
  BY <1>1, RMAssumption
<1>3. /\ u \in Page /\ (\A a \in 1 .. PAGE_SIZE - 1 : u[a] \in Unit)
      /\ u[0] = hdr /\ u[n + 1] = slot
      /\ \A j \in 0 .. len - 1 : u[off + j] = [of |-> r, unit |-> j]
      /\ \A a \in 1 .. PAGE_SIZE - 1 :
           a # n + 1 /\ (a < off \/ a >= off + len) => u[a] = m[a]
  BY ONLY InsertedUnits, PageSound(m), r \in Records,
          NumSlots(m) + 2 + Length[r] <= m[0].freeSpaceOffset
<1>4. Units(r) = [j \in 0 .. len - 1 |-> [of |-> r, unit |-> j]]
  BY DEF Units
<1>5. hdr.numSlots = n + 1 /\ hdr.freeSpaceOffset = off
      /\ slot.offset = off /\ slot.length = len
  OBVIOUS
<1>6. hdr \in Headers /\ slot \in Slots
  BY <1>1, <1>2 DEF Headers, Slots
<1> HIDE DEF u, n, len, off, hdr, slot
<1>7. NumSlots(u) = n + 1 /\ u[0].freeSpaceOffset = off
  BY <1>3, <1>5 DEF NumSlots
<1>8. SlotAt(u, n) = slot /\ \A i \in 0 .. n - 1 : SlotAt(u, i) = SlotAt(m, i)
  <2>1. SlotAt(u, n) = slot
    BY <1>1, <1>3, SlotUnit
  <2>2. ASSUME NEW i \in 0 .. n - 1
        PROVE  SlotAt(u, i) = SlotAt(m, i)
    <3>1. i + 1 \in 1 .. PAGE_SIZE - 1 /\ i + 1 # n + 1 /\ i + 1 < off
      BY <1>1, <1>2
    <3>2. QED
      BY <1>1, <1>3, <3>1, SlotUnit
  <2>3. QED
    BY <2>1, <2>2
<1>9. SlotsOf(m) = 0 .. n - 1 /\ SlotsOf(u) = 0 .. n
  BY <1>1, <1>7 DEF SlotsOf, n
<1>10. /\ \A i \in SlotsOf(u) : i = n \/ i \in SlotsOf(m)
       /\ \A i \in SlotsOf(m) : i \in SlotsOf(u) /\ i # n
  BY <1>1, <1>9
<1>11. LiveSlots(u) = LiveSlots(m) \cup {n}
  <2>1. slot.offset # TOMBSTONE
    BY <1>2, <1>5 DEF TOMBSTONE
  <2>2. n \in SlotsOf(u)
    BY <1>1, <1>9
  <2>3. QED
    BY <1>8, <1>9, <1>10, <2>1, <2>2 DEF LiveSlots
<1>12. \A i \in LiveSlots(m) :
         /\ SlotAt(m, i) \in Slots /\ SlotAt(m, i).offset # TOMBSTONE
         /\ SlotAt(m, i).offset \in Nat /\ SlotAt(m, i).length \in Nat
         /\ SlotAt(m, i).length >= 1
         /\ off + len <= SlotAt(m, i).offset
         /\ SlotAt(m, i).offset + SlotAt(m, i).length <= PAGE_SIZE
  BY <1>1, <1>2 DEF PageSound, LiveSlots, Inside, Slots
<1>13. \A i \in LiveSlots(u) : Inside(u, SlotAt(u, i))
  <2>1. Inside(u, slot)
    BY <1>1, <1>2, <1>5, <1>7 DEF Inside
  <2>2. ASSUME NEW i \in LiveSlots(m)
        PROVE  Inside(u, SlotAt(m, i))
    BY <1>1, <1>2, <1>7, <1>12 DEF Inside
  <2>3. QED
    BY <1>8, <1>9, <1>11, <2>1, <2>2 DEF LiveSlots
<1>14. \A i, j \in LiveSlots(u) : i # j => Apart(SlotAt(u, i), SlotAt(u, j))
  <2>1. \A i \in LiveSlots(m) : Apart(slot, SlotAt(m, i)) /\ Apart(SlotAt(m, i), slot)
    BY <1>2, <1>5, <1>12 DEF Apart
  <2>2. \A i, j \in LiveSlots(m) : i # j => Apart(SlotAt(m, i), SlotAt(m, j))
    BY DEF PageSound
  <2>3. \A i \in LiveSlots(m) : SlotAt(u, i) = SlotAt(m, i)
    BY <1>8, <1>9 DEF LiveSlots
  <2>4. QED
    BY <1>8, <1>11, <2>1, <2>2, <2>3
<1>15. PageSound(u)
  <2>1. \A i \in SlotsOf(u) : SlotAt(u, i) \in Slots
    BY <1>6, <1>8, <1>9, <1>10 DEF PageSound
  <2>2. /\ HDR + NumSlots(u) <= u[0].freeSpaceOffset
        /\ u[0].freeSpaceOffset + NumSlots(u) <= PAGE_SIZE
    BY <1>1, <1>2, <1>7 DEF HDR
  <2>3. QED
    BY <1>3, <1>6, <1>13, <1>14, <2>1, <2>2 DEF PageSound
<1>16. Answer(u, n) = Units(r)
  <2>1. ~ (n >= NumSlots(u)) /\ slot.offset # TOMBSTONE
    BY <1>1, <1>2, <1>5, <1>7 DEF TOMBSTONE
  <2>2. Answer(u, n) = Data(u, slot)
    BY <1>8, <2>1 DEF Answer
  <2>3. Data(u, slot) = [j \in 0 .. len - 1 |-> u[off + j]]
    BY <1>5 DEF Data
  <2>4. QED
    BY <1>3, <1>4, <2>2, <2>3
<1>17. ASSUME NEW i \in Nat \ {n}
       PROVE  Answer(u, i) = Answer(m, i)
  <2>1. CASE i > n
    BY <1>1, <1>7, <2>1 DEF Answer, n
  <2>2. CASE i < n
    <3>1. i \in 0 .. n - 1 /\ ~ (i >= NumSlots(u)) /\ ~ (i >= NumSlots(m))
      BY <1>1, <1>7, <2>2 DEF n
    <3>2. SlotAt(u, i) = SlotAt(m, i)
      BY <1>8, <3>1
    <3>3. CASE SlotAt(m, i).offset # TOMBSTONE
      <4> DEFINE x == SlotAt(m, i)
      <4>1. i \in LiveSlots(m)
        BY <1>9, <3>1, <3>3 DEF LiveSlots
      <4>2. /\ x.offset \in Nat /\ x.length \in Nat /\ off + len <= x.offset
            /\ x.offset + x.length <= PAGE_SIZE
        BY <1>12, <4>1
      <4> HIDE DEF x
      <4>3. ASSUME NEW j \in 0 .. x.length - 1
            PROVE  u[x.offset + j] = m[x.offset + j]
        <5>1. /\ x.offset + j \in 1 .. PAGE_SIZE - 1
              /\ x.offset + j # n + 1 /\ x.offset + j >= off + len
          BY <1>1, <1>2, <4>2
        <5>2. QED
          BY <1>3, <5>1
      <4>4. Data(u, x) = Data(m, x)
        BY <4>3 DEF Data
      <4>5. QED
        BY <3>1, <3>2, <3>3, <4>4 DEF Answer, x
    <3>4. QED
      BY <3>1, <3>2, <3>3 DEF Answer
  <2>3. QED
    BY <1>1, <2>1, <2>2
<1>18. QED
  BY <1>7, <1>11, <1>15, <1>16, <1>17 DEF u, n

\* A record that fits no page, written to the page just made for it: its slot lies
\* over its first unit, and it answers with what is left of it (rm.c:216-228).
LEMMA LongInserted ==
  ASSUME NEW r \in Records, ~ Fits(r)
  PROVE  LET u == Inserted(RM_InitPage(NewPage), r)
         IN  /\ PageSound(u)
             /\ NumSlots(u) = 1
             /\ LiveSlots(u) = {0}
             /\ Answer(u, 0) = Stored(r)
             /\ \A i \in Nat \ {0} : Answer(u, i) = Never
<1> DEFINE m == RM_InitPage(NewPage)
           u == Inserted(m, r)
           len == Length[r]
           hdr == [numSlots |-> 1, freeSpaceOffset |-> 1]
           slot == [offset |-> 1, length |-> len]
           copied == [a \in DOMAIN m |-> IF a \in 1 .. 1 + len - 1
                                         THEN Units(r)[a - 1] ELSE m[a]]
<1>1. /\ PAGE_SIZE \in Nat /\ PAGE_SIZE > 2 /\ len \in Nat /\ len = PAGE_SIZE - 1
  BY RMAssumption DEF Fits, HDR, SLOT
<1>2. PageSound(m) /\ NumSlots(m) = 0 /\ m[0].freeSpaceOffset = PAGE_SIZE
  BY InitPageSound
<1>3. DOMAIN m = 0 .. PAGE_SIZE - 1
  BY <1>2 DEF PageSound, Page
<1>4. u = [copied EXCEPT ![1] = slot, ![0] = hdr]
  <2>1. PAGE_SIZE - Length[r] = 1 /\ HDR + 0 * SLOT = 1 /\ 0 + 1 = 1
    BY <1>1 DEF HDR, SLOT
  <2>2. u = LET off == m[0].freeSpaceOffset - Length[r]
                n == NumSlots(m)
            IN  [[a \in DOMAIN m |-> IF a \in off .. off + Length[r] - 1
                                     THEN Units(r)[a - off] ELSE m[a]]
                   EXCEPT ![HDR + n * SLOT] = [offset |-> off, length |-> Length[r]],
                          ![0] = [numSlots |-> n + 1, freeSpaceOffset |-> off]]
    BY DEF Inserted
  <2> HIDE DEF m, u
  <2>3. QED
    BY <1>2, <2>1, <2>2
<1>5. \A j \in 0 .. len - 1 : Units(r)[j] = [of |-> r, unit |-> j]
  BY DEF Units
<1>6. hdr \in Headers /\ slot \in Slots /\ hdr.numSlots = 1 /\ hdr.freeSpaceOffset = 1
      /\ slot.offset = 1 /\ slot.length = len /\ slot = [offset |-> HDR, length |-> len]
  BY <1>1 DEF Headers, Slots, HDR
<1> HIDE DEF m, u, len, hdr, slot
<1>7. /\ DOMAIN u = 0 .. PAGE_SIZE - 1 /\ u[0] = hdr /\ u[1] = slot
      /\ u = [a \in 0 .. PAGE_SIZE - 1 |-> u[a]]
      /\ \A a \in 2 .. PAGE_SIZE - 1 : u[a] = [of |-> r, unit |-> a - 1]
  <2>1. /\ DOMAIN copied = 0 .. PAGE_SIZE - 1
        /\ \A a \in 2 .. PAGE_SIZE - 1 : copied[a] = Units(r)[a - 1]
    BY <1>1, <1>3
  <2>2. /\ 0 \in 0 .. PAGE_SIZE - 1 /\ 1 \in 0 .. PAGE_SIZE - 1
        /\ \A a \in 2 .. PAGE_SIZE - 1 :
             a \in 0 .. PAGE_SIZE - 1 /\ a # 0 /\ a # 1 /\ a - 1 \in 0 .. len - 1
    BY <1>1
  <2> HIDE DEF copied
  <2>3. QED
    BY <1>4, <1>5, <2>1, <2>2
<1>8. NumSlots(u) = 1 /\ u[0].freeSpaceOffset = 1
  BY <1>6, <1>7 DEF NumSlots
<1>9. SlotAt(u, 0) = slot
  <2>1. SlotAt(u, 0) = u[0 + 1] /\ 0 + 1 = 1
    BY SlotUnit
  <2>2. QED
    BY <1>7, <2>1
<1>10. slot.offset # TOMBSTONE
  BY <1>6 DEF TOMBSTONE
<1>11. SlotsOf(u) = {0} /\ LiveSlots(u) = {0}
  <2>1. SlotsOf(u) = {0}
    BY <1>8 DEF SlotsOf
  <2>2. QED
    BY <1>9, <1>10, <2>1 DEF LiveSlots
<1>12. \A a \in 1 .. PAGE_SIZE - 1 : u[a] \in Unit
  <2> SUFFICES ASSUME NEW a \in 1 .. PAGE_SIZE - 1
               PROVE  u[a] \in Unit
    OBVIOUS
  <2>1. CASE a = 1
    BY <1>6, <1>7, <2>1 DEF Unit
  <2>2. CASE a # 1
    <3>1. a \in 2 .. PAGE_SIZE - 1 /\ a - 1 \in 0 .. len - 1
      BY <1>1, <2>2
    <3>2. u[a] = [of |-> r, unit |-> a - 1]
      BY <1>7, <3>1
    <3>3. QED
      BY <3>1, <3>2 DEF Unit, UnitsOf, len
  <2>3. QED
    BY <2>1, <2>2
<1>13. u \in Page
  <2>1. \A a \in 0 .. PAGE_SIZE - 1 : u[a] \in Headers \cup Slots \cup UnitsOf \cup {Blank}
    <3>1. \A a \in 0 .. PAGE_SIZE - 1 : a = 0 \/ a \in 1 .. PAGE_SIZE - 1
      BY <1>1
    <3>2. QED
      BY <1>6, <1>7, <1>12, <3>1 DEF Unit
  <2>2. QED
    BY <1>7, <2>1 DEF Page
<1>14. PageSound(u)
  <2>1. Overfull(u)
    BY <1>1, <1>6, <1>8, <1>9 DEF Overfull
  <2>2. Inside(u, slot)
    BY <1>1, <1>6, <1>8 DEF Inside
  <2>3. u[0].freeSpaceOffset + NumSlots(u) <= PAGE_SIZE
    BY <1>1, <1>8
  <2>4. u[0] \in Headers
    BY <1>6, <1>7
  <2>5. \A i \in SlotsOf(u) : SlotAt(u, i) \in Slots
    BY <1>6, <1>9, <1>11
  <2>6. /\ \A i \in LiveSlots(u) : Inside(u, SlotAt(u, i))
        /\ \A i, j \in LiveSlots(u) : i # j => Apart(SlotAt(u, i), SlotAt(u, j))
    BY <1>9, <1>11, <2>2
  <2>7. QED
    BY <1>12, <1>13, <2>1, <2>3, <2>4, <2>5, <2>6 DEF PageSound
<1>15. Answer(u, 0) = Stored(r)
  <2>1. Answer(u, 0) = Data(u, slot)
    BY <1>8, <1>9, <1>10 DEF Answer
  <2>2. Data(u, slot) = [j \in 0 .. len - 1 |-> u[1 + j]]
    BY <1>6 DEF Data
  <2>3. Stored(r) = [Units(r) EXCEPT ![0] = slot]
    BY <1>6 DEF Stored, len
  <2>4. Units(r) = [j \in 0 .. len - 1 |-> [of |-> r, unit |-> j]]
    BY DEF Units, len
  <2>5. Stored(r) = [j \in 0 .. len - 1 |-> IF j = 0 THEN slot ELSE [of |-> r, unit |-> j]]
    BY <2>3, <2>4
  <2>6. ASSUME NEW j \in 0 .. len - 1
        PROVE  u[1 + j] = IF j = 0 THEN slot ELSE [of |-> r, unit |-> j]
    <3>1. CASE j = 0
      BY <1>7, <3>1
    <3>2. CASE j # 0
      <4>1. 1 + j \in 2 .. PAGE_SIZE - 1 /\ (1 + j) - 1 = j
        BY <1>1, <3>2
      <4>2. QED
        BY <1>7, <3>2, <4>1
    <3>3. QED
      BY <3>1, <3>2
  <2>7. QED
    BY <2>1, <2>2, <2>5, <2>6
<1>16. \A i \in Nat \ {0} : Answer(u, i) = Never
  BY <1>8 DEF Answer
<1>17. QED
  BY <1>8, <1>11, <1>14, <1>15, <1>16 DEF u, m

\* A deletion changes the answer for its RID to Gone and no other (rm.c:318-327).
LEMMA DeletedSound ==
  ASSUME NEW m, PageSound(m), NEW i \in LiveSlots(m)
  PROVE  LET u == Deleted(m, i)
         IN  /\ PageSound(u)
             /\ NumSlots(u) = NumSlots(m)
             /\ LiveSlots(u) = LiveSlots(m) \ {i}
             /\ Answer(u, i) = Gone
             /\ \A j \in Nat \ {i} : Answer(u, j) = Answer(m, j)
<1> DEFINE u == Deleted(m, i)
           n == NumSlots(m)
           fso == m[0].freeSpaceOffset
           slot == SlotAt(m, i)
           dead == [slot EXCEPT !.offset = TOMBSTONE]
<1>1. /\ n \in Nat /\ fso \in Nat /\ (n + 1 <= fso \/ (n = 1 /\ fso = 1))
      /\ fso + n <= PAGE_SIZE /\ PAGE_SIZE \in Nat /\ PAGE_SIZE > 2
  BY HeaderType
<1>2. i \in 0 .. n - 1 /\ slot \in Slots /\ slot.offset # TOMBSTONE
  BY DEF LiveSlots, SlotsOf, PageSound
<1>3. i + 1 \in 1 .. PAGE_SIZE - 1 /\ i \in Nat
  BY <1>1, <1>2
<1>4. slot = m[i + 1]
  BY <1>3, SlotUnit
<1>5. dead \in Slots /\ dead.offset = TOMBSTONE /\ dead.length = slot.length
  BY <1>2 DEF Slots
<1>6. DOMAIN m = 0 .. PAGE_SIZE - 1 /\ \A a \in 1 .. PAGE_SIZE - 1 : m[a] \in Unit
  BY DEF PageSound, Page
<1>7. u = [m EXCEPT ![i + 1] = dead]
  <2>1. HDR + i * SLOT = i + 1
    BY <1>3 DEF HDR, SLOT
  <2>2. u = [m EXCEPT ![HDR + i * SLOT] = [m[HDR + i * SLOT] EXCEPT !.offset = TOMBSTONE]]
    BY DEF Deleted
  <2>3. QED
    BY <1>4, <2>1, <2>2
<1> HIDE DEF u, n, fso, slot, dead
<1>8. u[i + 1] = dead /\ \A a \in 0 .. PAGE_SIZE - 1 : a # i + 1 => u[a] = m[a]
  BY <1>3, <1>6, <1>7
<1>9. u[0] = m[0]
  BY <1>1, <1>3, <1>8
<1>10. /\ u \in Page /\ u[0] \in Headers
       /\ \A a \in 1 .. PAGE_SIZE - 1 : u[a] \in Unit
  <2>1. m \in Page /\ m[0] \in Headers
    BY DEF PageSound
  <2>2. u \in Page
    BY <1>3, <1>5, <1>7, <2>1 DEF Page
  <2>3. \A a \in 1 .. PAGE_SIZE - 1 : u[a] \in Unit
    BY <1>1, <1>5, <1>6, <1>8 DEF Unit
  <2>4. QED
    BY <1>9, <2>1, <2>2, <2>3
<1>11. NumSlots(u) = n /\ SlotsOf(u) = SlotsOf(m) /\ u[0].freeSpaceOffset = fso
  BY <1>9 DEF NumSlots, SlotsOf, n, fso
<1>12. SlotAt(u, i) = dead /\ \A j \in Nat : j < n /\ j # i => SlotAt(u, j) = SlotAt(m, j)
  <2>1. SlotAt(u, i) = dead
    BY <1>3, <1>8, SlotUnit
  <2>2. ASSUME NEW j \in Nat, j < n, j # i
        PROVE  SlotAt(u, j) = SlotAt(m, j)
    <3>1. j + 1 \in 0 .. PAGE_SIZE - 1 /\ j + 1 # i + 1
      BY <1>1, <1>3, <2>2
    <3>2. QED
      BY <1>8, <3>1, SlotUnit
  <2>3. QED
    BY <2>1, <2>2
<1>13. SlotsOf(m) = 0 .. n - 1 /\ \A j \in SlotsOf(m) : j \in Nat /\ j < n
  BY <1>1 DEF SlotsOf, n
<1>14. /\ LiveSlots(u) = LiveSlots(m) \ {i}
       /\ \A j \in LiveSlots(u) : SlotAt(u, j) = SlotAt(m, j)
  BY <1>5, <1>11, <1>12, <1>13 DEF LiveSlots
<1>15. PageSound(u)
  <2>1. \A j \in SlotsOf(u) : SlotAt(u, j) \in Slots
    BY <1>5, <1>11, <1>12, <1>13 DEF PageSound
  <2>2. \A j \in LiveSlots(u) : Inside(u, SlotAt(u, j))
    BY <1>9, <1>14 DEF PageSound, Inside
  <2>3. \A j, k \in LiveSlots(u) : j # k => Apart(SlotAt(u, j), SlotAt(u, k))
    BY <1>14 DEF PageSound
  <2>4. HDR + NumSlots(u) <= u[0].freeSpaceOffset \/ Overfull(u)
    <3>1. CASE HDR + n <= fso
      BY <1>11, <3>1
    <3>2. CASE Overfull(m)
      <4>1. n = 1 /\ fso = 1 /\ SlotAt(m, 0).length = PAGE_SIZE - 1
        BY <3>2 DEF Overfull, n, fso
      <4>2. i = 0
        BY <1>2, <4>1
      <4>3. SlotAt(u, 0).length = PAGE_SIZE - 1
        BY <1>5, <1>12, <4>1, <4>2 DEF slot
      <4>4. QED
        BY <1>11, <4>1, <4>3 DEF Overfull
    <3>3. QED
      BY <3>1, <3>2 DEF PageSound, n, fso
  <2>5. u[0].freeSpaceOffset + NumSlots(u) <= PAGE_SIZE
    BY <1>1, <1>11
  <2>6. QED
    BY <1>10, <2>1, <2>2, <2>3, <2>4, <2>5 DEF PageSound
<1>16. Answer(u, i) = Gone
  BY <1>1, <1>2, <1>5, <1>11, <1>12 DEF Answer
<1>17. ASSUME NEW j \in Nat \ {i}
       PROVE  Answer(u, j) = Answer(m, j)
  <2>1. CASE j >= n
    BY <1>11, <2>1 DEF Answer, n
  <2>2. CASE j < n
    <3>1. SlotAt(u, j) = SlotAt(m, j) /\ ~ (j >= NumSlots(m)) /\ ~ (j >= NumSlots(u))
      BY <1>1, <1>11, <1>12, <2>2 DEF n
    <3>2. CASE SlotAt(m, j).offset # TOMBSTONE
      <4> DEFINE x == SlotAt(m, j)
      <4>1. j \in LiveSlots(m)
        <5>1. j \in SlotsOf(m)
          BY <1>1, <1>13, <2>2
        <5>2. QED
          BY <3>2, <5>1 DEF LiveSlots
      <4>2. /\ x.offset \in Nat /\ x.length \in Nat /\ fso <= x.offset
            /\ x.offset + x.length <= PAGE_SIZE
        BY <1>1, <3>2, <4>1 DEF PageSound, LiveSlots, Inside, Slots, fso
      <4> HIDE DEF x
      <4>3. ASSUME NEW k \in 0 .. x.length - 1
            PROVE  u[x.offset + k] = m[x.offset + k]
        <5>1. n + 1 <= fso
          BY <1>1, <1>2, <2>2
        <5>2. x.offset + k \in 0 .. PAGE_SIZE - 1 /\ x.offset + k # i + 1
          BY <1>1, <1>2, <4>2, <5>1
        <5>3. QED
          BY <1>8, <5>2
      <4>4. Data(u, x) = Data(m, x)
        BY <4>3 DEF Data
      <4>5. QED
        BY <3>1, <3>2, <4>4 DEF Answer, x
    <3>3. QED
      BY <3>1, <3>2 DEF Answer
  <2>3. QED
    BY <1>1, <2>1, <2>2
<1>18. QED
  BY <1>11, <1>14, <1>15, <1>16, <1>17 DEF u, n

-----------------------------------------------------------------------------
(* The file. *)

\* f is a file of n sound pages.
FileOf(f, n) ==
  /\ n \in 0 .. MaxPages
  /\ f \in [0 .. n - 1 -> Page]
  /\ \A p \in 0 .. n - 1 : PageSound(f[p])
\* What file f tells of a RID.
Told(f, rid) ==
  IF rid[1] \in DOMAIN f THEN Answer(f[rid[1]], rid[2]) ELSE Never
\* The two files cannot be told apart through RIDs.
SameRecords(f, g) ==
  /\ \A rid \in RIDs : Told(g, rid) = Told(f, rid)
  /\ LiveRIDs(g) = LiveRIDs(f)
\* Only rid tells anything else.
SameBut(f, g, rid) ==
  /\ \A x \in RIDs \ {rid} : Told(g, x) = Told(f, x)
  /\ LiveRIDs(g) \ {rid} = LiveRIDs(f) \ {rid}

\* A non-empty set of naturals has its Min: the walk over the pages ends at the
\* first that fits.
LEMMA LeastExists ==
  ASSUME NEW T \in SUBSET Nat, T # {}
  PROVE  Min(T) \in T /\ \A y \in T : Min(T) <= y
<1>1. PICK x \in T : \A y \in T : ~ (<<y, x>> \in OpToRel(<, Nat))
  BY NatLessThanWellFounded, WFMin
<1>2. ASSUME NEW y \in T
      PROVE  x =< y
  <2>1. x \in Nat /\ y \in Nat /\ <<y, x>> \in Nat \X Nat
    OBVIOUS
  <2>2. ~ (y < x)
    BY <1>1, <2>1 DEF OpToRel
  <2>3. QED
    BY <2>1, <2>2
<1>3. QED
  BY <1>2 DEF Min

LEMMA FileFacts ==
  ASSUME NEW f, NEW n, FileOf(f, n)
  PROVE  /\ n \in Nat /\ n <= MaxPages /\ DOMAIN f = 0 .. n - 1
         /\ NumPages(f) = n /\ f # Absent
<1>1. MaxPages \in Nat /\ n \in Nat /\ n <= MaxPages /\ DOMAIN f = 0 .. n - 1
  BY RMAssumption DEF FileOf
<1>2. Cardinality(0 .. n - 1) = n
  <2>1. Cardinality(0 .. n - 1) = IF 0 > n - 1 THEN 0 ELSE (n - 1) - 0 + 1
    BY <1>1, FS_Interval
  <2>2. QED
    BY <1>1, <2>1
<1>3. f # Absent
  BY AbsentAssumption DEF FileOf
<1>4. QED
  BY <1>1, <1>2, <1>3 DEF NumPages

\* Every slot has its RID.
LEMMA SlotHasRID ==
  ASSUME NEW m, PageSound(m), NEW i \in Nat, i <= NumSlots(m),
         i < NumSlots(m) \/ NumSlots(m) + 2 < m[0].freeSpaceOffset
  PROVE  i \in 0 .. (PAGE_SIZE - HDR) \div (SLOT + 1)
<1>1. PAGE_SIZE \in Nat /\ 2 * i + 1 <= PAGE_SIZE
  BY HeaderType
<1>2. i <= (PAGE_SIZE - 1) \div 2
  BY <1>1
<1>3. QED
  BY <1>1, <1>2 DEF HDR, SLOT

\* RM_GetRec tells what the file tells (rm.c:249-287).
LEMMA GetRecTold ==
  ASSUME NEW f, NEW n, FileOf(f, n), NEW rid \in RIDs
  PROVE  /\ LET answer == RM_GetRec(f, rid)
            IN  Told(f, rid) = IF answer.rc = "PFE_OK" THEN answer.data
                               ELSE IF answer.rc = "-2" THEN Gone ELSE Never
         /\ rid \in LiveRIDs(f) <=>
              rid[1] \in 0 .. n - 1 /\ rid[2] \in LiveSlots(f[rid[1]])
<1>1. DOMAIN f = 0 .. n - 1 /\ rid[2] \in Nat
  BY FileFacts DEF RIDs
<1>2. CASE rid[1] \notin 0 .. n - 1
  BY <1>1, <1>2 DEF Told, RM_GetRec, LiveRIDs
<1>3. CASE rid[1] \in 0 .. n - 1
  <2> DEFINE m == f[rid[1]]
  <2>1. NumSlots(m) \in Nat
    BY <1>3, HeaderType DEF FileOf
  <2>2. rid[2] \in SlotsOf(m) <=> ~ (rid[2] >= NumSlots(m))
    BY <1>1, <2>1 DEF SlotsOf
  <2>3. RM_GetRec(f, rid) =
          IF rid[2] >= NumSlots(m) THEN [rc |-> "-1"]
          ELSE IF SlotAt(m, rid[2]).offset = TOMBSTONE THEN [rc |-> "-2"]
          ELSE [rc |-> "PFE_OK", data |-> Data(m, SlotAt(m, rid[2]))]
    BY <1>1, <1>3 DEF RM_GetRec
  <2>4. Told(f, rid) = Answer(m, rid[2])
    BY <1>1, <1>3 DEF Told
  <2> HIDE DEF m
  <2>5. CASE rid[2] >= NumSlots(m)
    BY <1>3, <2>2, <2>3, <2>4, <2>5 DEF Answer, LiveRIDs, LiveSlots, m
  <2>6. CASE ~ (rid[2] >= NumSlots(m)) /\ SlotAt(m, rid[2]).offset = TOMBSTONE
    BY <1>3, <2>2, <2>3, <2>4, <2>6 DEF Answer, LiveRIDs, LiveSlots, m
  <2>7. CASE ~ (rid[2] >= NumSlots(m)) /\ SlotAt(m, rid[2]).offset # TOMBSTONE
    BY <1>3, <2>2, <2>3, <2>4, <2>7 DEF Answer, LiveRIDs, LiveSlots, m
  <2>8. QED
    BY <2>5, <2>6, <2>7
<1>4. QED
  BY <1>2, <1>3

LEMMA RecordTold ==
  ASSUME NEW n, FileOf(file, n), NEW rid \in RIDs
  PROVE  RecordOf(rid) = Told(file, rid)
<1> DEFINE answer == RM_GetRec(file, rid)
<1>1. Told(file, rid) = IF answer.rc = "PFE_OK" THEN answer.data
                        ELSE IF answer.rc = "-2" THEN Gone ELSE Never
  BY GetRecTold
<1> HIDE DEF answer
<1>2. RecordOf(rid) = CASE answer.rc = "PFE_OK" -> answer.data
                        [] answer.rc = "-2" -> Gone
                        [] OTHER -> Never
  BY DEF RecordOf, answer
<1>3. CASE answer.rc = "PFE_OK"
  <2>1. answer.rc # "-2"
    BY <1>3
  <2>2. QED
    BY <1>1, <1>2, <1>3, <2>1, Zenon
<1>4. CASE answer.rc # "PFE_OK"
  BY <1>1, <1>2, <1>4, Zenon
<1>5. QED
  BY <1>3, <1>4

\* Changing one slot of one page changes one RID.
LEMMA PutPage ==
  ASSUME NEW f, NEW n, FileOf(f, n), NEW p \in 0 .. n - 1, NEW u, PageSound(u),
         NEW i \in Nat, \A j \in Nat \ {i} : Answer(u, j) = Answer(f[p], j),
         LiveSlots(u) \ {i} = LiveSlots(f[p]) \ {i}
  PROVE  LET g == [f EXCEPT ![p] = u]
         IN  FileOf(g, n) /\ g[p] = u /\ SameBut(f, g, <<p, i>>)
<1> DEFINE g == [f EXCEPT ![p] = u]
<1>1. DOMAIN f = 0 .. n - 1 /\ n \in Nat
  BY FileFacts
<1>2. g[p] = u /\ \A q \in 0 .. n - 1 : q # p => g[q] = f[q]
  BY <1>1
<1>3. u \in Page
  BY DEF PageSound
<1>4. g \in [0 .. n - 1 -> Page]
  BY <1>3 DEF FileOf
<1> HIDE DEF g
<1>5. FileOf(g, n)
  BY <1>2, <1>4 DEF FileOf
<1>6. DOMAIN g = 0 .. n - 1
  BY <1>4
<1>7. ASSUME NEW x \in RIDs \ {<<p, i>>}
      PROVE  Told(g, x) = Told(f, x) /\ (x \in LiveRIDs(g) <=> x \in LiveRIDs(f))
  <2>1. x[2] \in Nat /\ x = <<x[1], x[2]>>
    BY DEF RIDs
  <2>2. CASE x[1] # p
    BY <1>1, <1>2, <1>5, <1>6, <2>2, GetRecTold DEF Told
  <2>3. CASE x[1] = p
    <3>1. x[2] # i
      BY <1>7, <2>1, <2>3
    <3>2. Answer(g[p], x[2]) = Answer(f[p], x[2])
      BY <1>2, <2>1, <3>1
    <3>3. x[2] \in LiveSlots(g[p]) <=> x[2] \in LiveSlots(f[p])
      BY <1>2, <3>1
    <3>4. QED
      BY <1>1, <1>5, <1>6, <2>3, <3>2, <3>3, GetRecTold DEF Told
  <2>4. QED
    BY <2>2, <2>3
<1>8. SameBut(f, g, <<p, i>>)
  <2>1. LiveRIDs(g) \subseteq RIDs /\ LiveRIDs(f) \subseteq RIDs
    BY DEF LiveRIDs
  <2>2. QED
    BY <1>7, <2>1 DEF SameBut
<1>9. QED
  BY <1>2, <1>5, <1>8 DEF g

\* RM_FindFreePage finds or makes a page with room for the record and its slot, or
\* makes one for a record that none has room for, and changes no record
\* (rm.c:120-170).
LEMMA FindFreePageSound ==
  ASSUME NEW n, FileOf(file, n), NEW r \in Records,
         RM_FindFreePage(Length[r]).pageNum < MaxPages
  PROVE  LET o == RM_FindFreePage(Length[r])
             m == o.file[o.pageNum]
         IN  \E k : /\ FileOf(o.file, k) /\ n <= k /\ o.pageNum \in 0 .. k - 1
                    /\ \/ NumSlots(m) + 2 + Length[r] <= m[0].freeSpaceOffset
                       \/ m = RM_InitPage(NewPage) /\ ~ Fits(r)
                    /\ SameRecords(file, o.file)
<1> DEFINE len == Length[r]
           o == RM_FindFreePage(len)
           fits == {p \in DOMAIN file : HasRoom(file[p], len)}
<1>1. n \in Nat /\ n <= MaxPages /\ DOMAIN file = 0 .. n - 1 /\ NumPages(file) = n
  BY FileFacts
<1>2. len \in Nat /\ len >= 1 /\ (Fits(r) => len + 2 <= PAGE_SIZE) /\ PAGE_SIZE \in Nat
  BY RMAssumption DEF Fits, HDR, SLOT
<1>3. CASE fits # {}
  <2>1. o = [pageNum |-> Min(fits), file |-> file]
    BY <1>3 DEF RM_FindFreePage
  <2>2. fits \in SUBSET Nat /\ fits \subseteq 0 .. n - 1
    BY <1>1
  <2>3. Min(fits) \in fits
    BY <1>3, <2>2, LeastExists
  <2> DEFINE m == file[Min(fits)]
  <2>4. HasRoom(m, len) /\ PageSound(m)
    BY <2>2, <2>3 DEF FileOf
  <2>5. NumSlots(m) + 2 + len <= m[0].freeSpaceOffset
    BY <1>2, <2>4, HeaderType DEF HasRoom, FreeSpace, HDR, SLOT
  <2>6. SameRecords(file, file)
    BY DEF SameRecords
  <2>7. o.pageNum = Min(fits) /\ o.file = file /\ Min(fits) \in 0 .. n - 1 /\ n <= n
    BY <1>1, <2>1, <2>2, <2>3
  <2> HIDE DEF o, fits
  <2>8. \E k : /\ FileOf(o.file, k) /\ n <= k /\ o.pageNum \in 0 .. k - 1
               /\ \/ NumSlots(o.file[o.pageNum]) + 2 + len
                       <= o.file[o.pageNum][0].freeSpaceOffset
                  \/ o.file[o.pageNum] = RM_InitPage(NewPage) /\ ~ Fits(r)
               /\ SameRecords(file, o.file)
    BY <2>5, <2>6, <2>7
  <2>9. QED
    BY <2>8 DEF o
<1>4. CASE fits = {}
  <2> DEFINE m == RM_InitPage(NewPage)
             g == [p \in 0 .. n |-> IF p = n THEN m ELSE file[p]]
  <2>1. o = [pageNum |-> n, file |-> g]
    BY <1>1, <1>4 DEF RM_FindFreePage
  <2>2. n < MaxPages /\ n + 1 \in 0 .. MaxPages
    BY <1>1, <2>1, RMAssumption
  <2>3. PageSound(m) /\ NumSlots(m) = 0 /\ m[0].freeSpaceOffset = PAGE_SIZE
    BY InitPageSound
  <2>4. 0 .. n = 0 .. (n + 1) - 1 /\ \A p \in 0 .. n : p = n \/ p \in 0 .. n - 1
    BY <1>1
  <2> HIDE DEF m
  <2>5. g[n] = m /\ \A p \in 0 .. n - 1 : g[p] = file[p]
    BY <1>1
  <2>6. g \in [0 .. (n + 1) - 1 -> Page]
    BY <2>3, <2>4 DEF FileOf, PageSound
  <2> HIDE DEF g
  <2>7. FileOf(g, n + 1)
    BY <2>2, <2>3, <2>4, <2>5, <2>6 DEF FileOf
  <2>8. DOMAIN g = 0 .. n
    BY <2>4, <2>6
  <2>9. \A i \in Nat : Answer(m, i) = Never /\ i \notin LiveSlots(m)
    BY <2>3 DEF Answer, LiveSlots, SlotsOf
  <2>10. ASSUME NEW x \in RIDs
         PROVE  Told(g, x) = Told(file, x) /\ (x \in LiveRIDs(g) <=> x \in LiveRIDs(file))
    <3>1. x[2] \in Nat
      BY DEF RIDs
    <3>2. CASE x[1] \in 0 .. n - 1
      BY <1>1, <2>4, <2>5, <2>7, <2>8, <3>2, GetRecTold DEF Told
    <3>3. CASE x[1] = n
      BY <1>1, <2>4, <2>5, <2>7, <2>8, <2>9, <3>1, <3>3, GetRecTold DEF Told
    <3>4. CASE x[1] \notin 0 .. n
      BY <1>1, <2>4, <2>7, <2>8, <3>4, GetRecTold DEF Told
    <3>5. QED
      BY <2>4, <3>2, <3>3, <3>4
  <2>11. SameRecords(file, g)
    <3>1. LiveRIDs(g) \subseteq RIDs /\ LiveRIDs(file) \subseteq RIDs
      BY DEF LiveRIDs
    <3>2. QED
      BY <2>10, <3>1 DEF SameRecords
  <2>12. n \in 0 .. (n + 1) - 1 /\ n <= n + 1
    BY <1>1
  <2>13. NumSlots(m) + 2 + len <= m[0].freeSpaceOffset \/ ~ Fits(r)
    BY <1>2, <2>3
  <2>14. o.pageNum = n /\ o.file = g /\ g[n] = m
    BY <2>1, <2>5
  <2> HIDE DEF o
  <2>15. \E k : /\ FileOf(o.file, k) /\ n <= k /\ o.pageNum \in 0 .. k - 1
                /\ \/ NumSlots(o.file[o.pageNum]) + 2 + len
                        <= o.file[o.pageNum][0].freeSpaceOffset
                   \/ o.file[o.pageNum] = m /\ ~ Fits(r)
                /\ SameRecords(file, o.file)
    BY <2>7, <2>11, <2>12, <2>13, <2>14
  <2>16. QED
    BY <2>15 DEF o, m
<1>5. QED
  BY <1>3, <1>4

-----------------------------------------------------------------------------
(* The calls that change the file. *)

\* The contents a RID answers with.
Kept(x) == IF x \in Records THEN Stored(x) ELSE x
Live == IF Exists THEN LiveRIDs(file) ELSE {}

\* The inductive invariant of the file: sound pages that tell what callers were
\* told, and no RID left over from a file that was destroyed.
RecordInv ==
  /\ Exists => \E n : FileOf(file, n)
  /\ open \in BOOLEAN /\ (open => Exists)
  /\ acked \in [RIDs -> Records \cup {Never, Gone}]
  /\ \A rid \in RIDs : rid \in Live <=> acked[rid] \in Records
  /\ \A rid \in RIDs :
       IF Exists THEN Told(file, rid) = Kept(acked[rid]) ELSE acked[rid] = Never

\* A step that changes what callers were told as a record store may.
StoreStep ==
  \/ Exists' = Exists /\ acked' = acked
  \/ Exists # Exists' /\ acked' = [rid \in RIDs |-> Never]
     /\ (~ Exists => acked = [rid \in RIDs |-> Never])
  \/ /\ Exists /\ Exists'
     /\ \E rid \in RIDs :
          \/ acked[rid] = Never /\ \E r \in Records : acked' = [acked EXCEPT ![rid] = r]
          \/ acked[rid] \in Records /\ acked' = [acked EXCEPT ![rid] = Gone]

LEMMA RecordInvInit == Init => RecordInv
<1> SUFFICES ASSUME Init PROVE RecordInv
  OBVIOUS
<1>1. ~ Exists /\ open = FALSE /\ Live = {}
  BY DEF Init, Exists, Live
<1>2. \A rid \in RIDs : acked[rid] = Never /\ acked[rid] \notin Records
  BY RMAssumption DEF Init
<1>3. acked \in [RIDs -> Records \cup {Never, Gone}]
  BY DEF Init
<1>4. QED
  BY <1>1, <1>2, <1>3 DEF RecordInv

\* RM_InsertRec gives out a RID that was never given out, and every other RID keeps
\* its answer; a call that fails changes no answer (rm.c:189-236).
LEMMA InsertKeeps ==
  ASSUME RecordInv, NEW r \in Records, RM_InsertRec(r)
  PROVE  RecordInv' /\ StoreStep /\ Live \subseteq Live' /\ Exists'
<1> DEFINE o == RM_FindFreePage(Length[r])
           p == o.pageNum
           f == o.file
           m == f[p]
           i == NumSlots(m)
           rid == <<p, i>>
<1>1. PICK n : FileOf(file, n)
  BY DEF RM_InsertRec, RecordInv
<1>2. PICK k : /\ FileOf(f, k) /\ p \in 0 .. k - 1
               /\ \/ NumSlots(m) + 2 + Length[r] <= m[0].freeSpaceOffset
                  \/ m = RM_InitPage(NewPage) /\ ~ Fits(r)
               /\ SameRecords(file, f)
  BY <1>1, FindFreePageSound DEF RM_InsertRec
<1>3. /\ Exists /\ p < MaxPages /\ UNCHANGED <<open, scan, told>>
      /\ \/ file' = [f EXCEPT ![p] = Inserted(m, r)] /\ acked' = [acked EXCEPT ![rid] = r]
         \/ file' = f /\ UNCHANGED acked
  BY DEF RM_InsertRec, Unfixed, RecordInv
<1>4. f # Absent /\ k \in Nat /\ k <= MaxPages /\ DOMAIN f = 0 .. k - 1
  BY <1>2, FileFacts
<1> HIDE DEF o, p, f, m, i, rid
<1>5. /\ \A x \in RIDs : Told(f, x) = Kept(acked[x])
      /\ \A x \in RIDs : x \in LiveRIDs(f) <=> acked[x] \in Records
      /\ Live = LiveRIDs(f)
  BY <1>2, <1>3 DEF SameRecords, RecordInv, Live
<1>6. CASE file' = f /\ UNCHANGED acked
  <2>1. Exists' /\ Live' = LiveRIDs(f)
    BY <1>4, <1>6 DEF Exists, Live
  <2>2. RecordInv'
    BY <1>2, <1>3, <1>5, <1>6, <2>1 DEF RecordInv
  <2>3. QED
    BY <1>3, <1>5, <1>6, <2>1, <2>2 DEF StoreStep
<1>7. CASE /\ file' = [f EXCEPT ![p] = Inserted(m, r)]
           /\ acked' = [acked EXCEPT ![rid] = r]
  <2> DEFINE u == Inserted(m, r)
  <2>1. PageSound(m) /\ m = f[p]
    BY <1>2 DEF FileOf, m
  <2>2. /\ PageSound(u) /\ i \in Nat /\ LiveSlots(u) = LiveSlots(m) \cup {i}
        /\ Answer(u, i) = Stored(r)
        /\ \A j \in Nat \ {i} : Answer(u, j) = Answer(m, j)
    <3>1. CASE NumSlots(m) + 2 + Length[r] <= m[0].freeSpaceOffset
      <4>1. Fits(r)
        BY <2>1, <3>1, HeaderType, RMAssumption DEF Fits, HDR, SLOT
      <4>2. Stored(r) = Units(r)
        BY <4>1 DEF Stored
      <4>3. QED
        BY <2>1, <3>1, <4>2, InsertedSound, HeaderType DEF i
    <3>2. CASE m = RM_InitPage(NewPage) /\ ~ Fits(r)
      <4>1. i = 0 /\ NumSlots(m) = 0
        BY <3>2, InitPageSound DEF i
      <4>2. LiveSlots(m) = {} /\ \A j \in Nat : Answer(m, j) = Never
        BY <4>1 DEF LiveSlots, SlotsOf, Answer
      <4>3. /\ PageSound(u) /\ LiveSlots(u) = {0} /\ Answer(u, 0) = Stored(r)
            /\ \A j \in Nat \ {0} : Answer(u, j) = Never
        BY <3>2, LongInserted
      <4> HIDE DEF u
      <4>4. QED
        BY <4>1, <4>2, <4>3
    <3>3. QED
      BY <1>2, <3>1, <3>2
  <2> HIDE DEF u
  <2>3. /\ FileOf(file', k) /\ file'[p] = u
        /\ SameBut(f, file', rid)
    <3>1. LiveSlots(u) \ {i} = LiveSlots(f[p]) \ {i}
      BY <2>1, <2>2
    <3>2. \A j \in Nat \ {i} : Answer(u, j) = Answer(f[p], j)
      BY <2>1, <2>2
    <3>3. FileOf(f, k) /\ p \in 0 .. k - 1 /\ PageSound(u) /\ i \in Nat
      BY <1>2, <2>2
    <3>4. LET g == [f EXCEPT ![p] = u]
          IN  FileOf(g, k) /\ g[p] = u /\ SameBut(f, g, <<p, i>>)
      BY ONLY <3>1, <3>2, <3>3, PutPage
    <3>5. QED
      BY <1>7, <3>4 DEF u, rid
  <2>4. rid \in RIDs /\ rid[1] = p /\ rid[2] = i
    <3>1. Length[r] \in Nat /\ Length[r] >= 1
      BY RMAssumption
    <3>2. NumSlots(m) + 2 < m[0].freeSpaceOffset
      BY <1>2, <2>1, <3>1, HeaderType, InitPageSound
    <3>3. i \in 0 .. (PAGE_SIZE - HDR) \div (SLOT + 1)
      BY <2>1, <2>2, <3>2, SlotHasRID DEF i
    <3>4. p \in 0 .. MaxPages - 1
      BY <1>2, <1>3, <1>4, RMAssumption
    <3>5. QED
      BY <3>3, <3>4 DEF RIDs, rid
  <2>5. DOMAIN file' = 0 .. k - 1 /\ Exists'
    BY <2>3, FileFacts DEF Exists
  <2>6. Told(file', rid) = Stored(r) /\ rid \in LiveRIDs(file')
    <3>1. Told(file', rid) = Answer(u, i)
      BY <1>2, <2>3, <2>4, <2>5 DEF Told
    <3>2. rid \in LiveRIDs(file')
      BY <1>2, <2>2, <2>3, <2>4, GetRecTold
    <3>3. QED
      BY <2>2, <3>1, <3>2
  <2>7. acked[rid] = Never
    <3>1. Told(f, rid) = Never
      BY <1>2, <1>4, <2>1, <2>2, <2>4 DEF Told, Answer, i
    <3>2. rid \notin LiveRIDs(f)
      <4>1. i \notin LiveSlots(m)
        BY <2>2 DEF LiveSlots, SlotsOf, i
      <4>2. QED
        BY <1>2, <2>1, <2>4, <4>1, GetRecTold
    <3>3. QED
      BY <1>5, <2>4, <3>1, <3>2 DEF Kept
  <2>8. /\ acked' \in [RIDs -> Records \cup {Never, Gone}] /\ acked'[rid] = r
        /\ \A x \in RIDs \ {rid} : acked'[x] = acked[x]
    BY <1>7, <2>4 DEF RecordInv
  <2>9. Live' = LiveRIDs(file')
    BY <2>5 DEF Live
  <2>10. \A x \in RIDs : x \in Live' <=> acked'[x] \in Records
    BY <1>5, <2>3, <2>6, <2>8, <2>9 DEF SameBut
  <2>11. \A x \in RIDs : Told(file', x) = Kept(acked'[x])
    BY <1>5, <2>3, <2>6, <2>8 DEF SameBut, Kept
  <2>12. RecordInv'
    BY <1>3, <2>3, <2>5, <2>8, <2>10, <2>11 DEF RecordInv
  <2>13. Live \subseteq Live'
    BY <1>5, <2>3, <2>6, <2>9 DEF SameBut
  <2>14. StoreStep
    BY <1>3, <1>7, <2>4, <2>5, <2>7 DEF StoreStep
  <2>15. QED
    BY <2>5, <2>12, <2>13, <2>14
<1>8. QED
  BY <1>3, <1>6, <1>7

\* RM_DeleteRec makes one RID answer that its record is gone (rm.c:297-337).
LEMMA DeleteKeeps ==
  ASSUME RecordInv, NEW rid \in RIDs, RM_DeleteRec(rid)
  PROVE  RecordInv' /\ StoreStep /\ Live' = Live \ {rid}
<1> DEFINE p == rid[1]
           i == rid[2]
           m == file[p]
           u == Deleted(m, i)
<1>1. PICK n : FileOf(file, n)
  BY DEF RM_DeleteRec, RecordInv
<1>2. /\ Exists /\ rid \in LiveRIDs(file) /\ UNCHANGED <<open, scan>>
      /\ file' = [file EXCEPT ![p] = u] /\ acked' = [acked EXCEPT ![rid] = Gone]
  BY DEF RM_DeleteRec, Unfixed, RecordInv
<1>3. p \in 0 .. n - 1 /\ i \in LiveSlots(m) /\ i \in Nat /\ rid = <<p, i>>
  BY <1>1, <1>2, GetRecTold DEF RIDs
<1>4. PageSound(m)
  BY <1>1, <1>3 DEF FileOf
<1>5. /\ PageSound(u) /\ LiveSlots(u) = LiveSlots(m) \ {i} /\ Answer(u, i) = Gone
      /\ \A j \in Nat \ {i} : Answer(u, j) = Answer(m, j)
  BY <1>3, <1>4, DeletedSound
<1> HIDE DEF p, i, m, u
<1>6. /\ FileOf(file', n) /\ file'[p] = u /\ SameBut(file, file', rid)
  <2>1. LiveSlots(u) \ {i} = LiveSlots(file[p]) \ {i}
    BY <1>5 DEF m
  <2>2. \A j \in Nat \ {i} : Answer(u, j) = Answer(file[p], j)
    BY <1>5 DEF m
  <2>3. FileOf(file, n) /\ p \in 0 .. n - 1 /\ PageSound(u) /\ i \in Nat
    BY <1>1, <1>3, <1>5
  <2>4. LET g == [file EXCEPT ![p] = u]
        IN  FileOf(g, n) /\ g[p] = u /\ SameBut(file, g, <<p, i>>)
    BY ONLY <2>1, <2>2, <2>3, PutPage
  <2>5. QED
    BY <1>2, <1>3, <2>4
<1>7. DOMAIN file' = 0 .. n - 1 /\ Exists'
  BY <1>6, FileFacts DEF Exists
<1>8. Told(file', rid) = Gone /\ rid \notin LiveRIDs(file')
  BY <1>3, <1>5, <1>6, <1>7, GetRecTold DEF Told, p, i
<1>9. /\ acked' \in [RIDs -> Records \cup {Never, Gone}] /\ acked'[rid] = Gone
      /\ \A x \in RIDs \ {rid} : acked'[x] = acked[x]
  BY <1>2 DEF RecordInv
<1>10. Live' = LiveRIDs(file') /\ Live = LiveRIDs(file)
  BY <1>2, <1>7 DEF Live
<1>11. Live' = Live \ {rid}
  BY <1>6, <1>8, <1>10 DEF SameBut
<1>12. Gone \notin Records /\ Kept(Gone) = Gone
  BY RMAssumption DEF Kept
<1>13. \A x \in RIDs : x \in Live' <=> acked'[x] \in Records
  BY <1>9, <1>11, <1>12 DEF RecordInv
<1>14. \A x \in RIDs : Told(file', x) = Kept(acked'[x])
  BY <1>2, <1>6, <1>8, <1>9, <1>12 DEF RecordInv, SameBut
<1>15. RecordInv'
  BY <1>2, <1>6, <1>7, <1>9, <1>13, <1>14 DEF RecordInv
<1>16. StoreStep
  BY <1>2, <1>7, <1>10 DEF StoreStep, RecordInv
<1>17. QED
  BY <1>11, <1>15, <1>16

\* Every step keeps the records; none but those on records changes them.
LEMMA RecordStep ==
  ASSUME RecordInv, [Next]_vars
  PROVE  RecordInv' /\ StoreStep
<1>1. ASSUME UNCHANGED <<file, acked>>, open' \in BOOLEAN, open' => Exists
      PROVE  RecordInv' /\ StoreStep
  <2>1. Exists' = Exists /\ Live' = Live /\ acked' = acked /\ file' = file
    BY <1>1 DEF Exists, Live
  <2>2. RecordInv'
    BY <1>1, <2>1 DEF RecordInv
  <2>3. QED
    BY <2>1, <2>2 DEF StoreStep
<1>2. CASE RM_CreateFile
  <2>1. ~ Exists /\ open = FALSE /\ open' = FALSE /\ acked' = acked /\ file' = << >>
    BY <1>2 DEF RM_CreateFile, Exists, RecordInv
  <2>2. FileOf(file', 0)
    <3>1. 0 .. 0 - 1 = {} /\ 0 \in 0 .. MaxPages
      BY RMAssumption
    <3>2. << >> = [p \in {} |-> {}]
      BY SMT
    <3>3. << >> \in [0 .. 0 - 1 -> Page]
      BY <3>1, <3>2
    <3>4. QED
      BY <2>1, <3>1, <3>3 DEF FileOf
  <2>3. Exists' /\ DOMAIN file' = {}
    BY <2>2, FileFacts DEF Exists
  <2>4. \A rid \in RIDs : acked[rid] = Never /\ Never \notin Records
    BY <2>1, RMAssumption DEF RecordInv
  <2>5. \A rid \in RIDs : Told(file', rid) = Kept(acked'[rid])
    BY <2>1, <2>3, <2>4 DEF Told, Kept
  <2>6. \A rid \in RIDs : rid \notin Live'
    BY <2>3 DEF Live, LiveRIDs, RM_GetRec
  <2>7. RecordInv'
    BY <2>1, <2>2, <2>3, <2>4, <2>5, <2>6 DEF RecordInv
  <2>8. acked = [rid \in RIDs |-> Never]
    BY <2>4 DEF RecordInv
  <2>9. QED
    BY <2>1, <2>3, <2>7, <2>8 DEF StoreStep
<1>3. CASE RM_DestroyFile
  <2>1. /\ Exists /\ open = FALSE /\ open' = FALSE /\ ~ Exists' /\ Live' = {}
        /\ acked' = [rid \in RIDs |-> Never]
    BY <1>3 DEF RM_DestroyFile, Exists, RecordInv, Live
  <2>2. \A rid \in RIDs : acked'[rid] = Never /\ Never \notin Records
    BY <2>1, RMAssumption
  <2>3. acked' \in [RIDs -> Records \cup {Never, Gone}]
    BY <2>1
  <2>4. RecordInv'
    BY <2>1, <2>2, <2>3 DEF RecordInv
  <2>5. QED
    BY <2>1, <2>4 DEF StoreStep
<1>4. CASE RM_OpenFile \/ RM_CloseFile
  BY <1>1, <1>4 DEF RM_OpenFile, RM_CloseFile, Exists
<1>5. CASE \E r \in Records : RM_InsertRec(r)
  BY <1>5, InsertKeeps
<1>6. CASE \E rid \in RIDs : RM_DeleteRec(rid)
  BY <1>6, DeleteKeeps
<1>7. CASE UNCHANGED <<file, open, acked>>
  <2>1. open' = open /\ UNCHANGED <<file, acked>>
    BY <1>7
  <2>2. open' \in BOOLEAN /\ (open' => Exists)
    BY <2>1 DEF RecordInv
  <2>3. QED
    BY <1>1, <2>1, <2>2
<1>8. CASE \E s \in Scans : \/ RM_ScanOpen(s) \/ RM_ScanClose(s) \/ RM_GetNextRec(s)
                            \/ GetPage(s) \/ GetPageRefused(s)
                            \/ ReturnRec(s) \/ SkipSlot(s) \/ NextPage(s)
  BY <1>7, <1>8 DEF RM_ScanOpen, RM_ScanClose, RM_GetNextRec, GetPage, GetPageRefused,
                    ReturnRec, SkipSlot, NextPage
<1>9. QED
  BY <1>2, <1>3, <1>4, <1>5, <1>6, <1>7, <1>8 DEF Next, vars

-----------------------------------------------------------------------------
(* Scans. *)

ScanState == [open : BOOLEAN, page : -1 .. MaxPages, slot : -1 .. PAGE_SIZE]
Telling == [due : SUBSET RIDs, got : Seq(RIDs), eof : BOOLEAN, refused : BOOLEAN]
\* The place a scan goes on from.
PlaceOf(c) == IF c.page = -1 THEN <<0, 0>> ELSE <<c.page, c.slot>>
Got(t) == {t.got[i] : i \in DOMAIN t.got}

\* A scan has returned records before its place only, in order; each record that
\* it owes was returned already or still lies ahead of it.
Placed(c, t) ==
  /\ c.page # -1 => c.slot # -1
  /\ \A i \in DOMAIN t.got : Before(t.got[i], PlaceOf(c))
  /\ \A i, j \in DOMAIN t.got : i < j => Before(t.got[i], t.got[j])
Owing(c, t, live) ==
  IF t.eof THEN t.refused \/ t.due \subseteq Got(t)
  ELSE \A x \in t.due : x \in Got(t) \/ (x \in live /\ ~ Before(x, PlaceOf(c)))
ScanInv ==
  /\ scan \in [Scans -> ScanState] /\ told \in [Scans -> Telling]
  /\ \A s \in Scans : Placed(scan[s], told[s]) /\ Owing(scan[s], told[s], Live)

\* RM_GetNextRec runs for a scan that was not told its end; the page whose slots it
\* looks at is one of the open file.
CallInv ==
  /\ call \in [Scans -> {"none", "page", "slots"}]
  /\ \A s \in Scans : call[s] # "none" => ~ told[s].eof
  /\ \A s \in Scans : call[s] = "slots" => open /\ scan[s].page \in DOMAIN file

Places == Nat \X Nat

LEMMA BeforeOrder ==
  /\ RIDs \subseteq Places
  /\ \A x, y, z \in Places : Before(x, y) /\ ~ Before(z, y) => Before(x, z)
  /\ \A x, y \in Places : x = y \/ Before(x, y) \/ Before(y, x)
  /\ \A x \in Places : Before(x, <<x[1], x[2] + 1>>) /\ ~ Before(x, <<0, 0>>)
  /\ \A x, y \in Places : Before(x, y) => ~ Before(y, <<x[1], x[2] + 1>>)
<1>1. RIDs \subseteq Places
  <2>1. 0 .. MaxPages - 1 \subseteq Nat /\ 0 .. (PAGE_SIZE - HDR) \div (SLOT + 1) \subseteq Nat
    OBVIOUS
  <2>2. QED
    BY <2>1 DEF RIDs, Places
<1>2. \A x \in Places : x[1] \in Nat /\ x[2] \in Nat /\ x = <<x[1], x[2]>>
  BY DEF Places
<1>3. QED
  BY <1>1, <1>2 DEF Before

LEMMA PlaceType ==
  ASSUME NEW c \in ScanState, NEW t, Placed(c, t)
  PROVE  PlaceOf(c) \in Places
BY DEF ScanState, Placed, PlaceOf, Places

\* What holds of one scan after its own step holds of all when the records stay.
LEMMA OneScan ==
  ASSUME ScanInv, NEW s \in Scans, NEW c \in ScanState, NEW t \in Telling,
         scan' = [scan EXCEPT ![s] = c], told' = [told EXCEPT ![s] = t],
         UNCHANGED file, Placed(c, t), Owing(c, t, Live)
  PROVE  ScanInv'
<1>1. Live' = Live
  BY DEF Live, Exists
<1>2. scan' \in [Scans -> ScanState] /\ told' \in [Scans -> Telling]
  BY DEF ScanInv
<1>3. ASSUME NEW z \in Scans
      PROVE  Placed(scan'[z], told'[z]) /\ Owing(scan'[z], told'[z], Live)
  <2>1. CASE z = s
    BY <2>1 DEF ScanInv
  <2>2. CASE z # s
    <3>1. scan'[z] = scan[z] /\ told'[z] = told[z]
      BY <2>2 DEF ScanInv
    <3>2. QED
      BY <3>1 DEF ScanInv
  <2>3. QED
    BY <2>1, <2>2
<1>4. QED
  BY <1>1, <1>2, <1>3 DEF ScanInv

LEMMA NothingToldFacts ==
  /\ ClosedScan \in ScanState /\ NothingTold \in Telling
  /\ \A d \in SUBSET RIDs :
       LET t == [NothingTold EXCEPT !.due = d]
       IN  t \in Telling /\ t.due = d /\ t.got = << >> /\ t.eof = FALSE
  /\ NothingTold.due = {} /\ NothingTold.got = << >> /\ NothingTold.eof = FALSE
<1>1. << >> \in Seq(RIDs)
  OBVIOUS
<1>2. -1 \in -1 .. MaxPages /\ -1 \in -1 .. PAGE_SIZE
  BY RMAssumption
<1>3. QED
  BY <1>1, <1>2 DEF ClosedScan, ScanState, NothingTold, Telling

LEMMA ScanOpenKeeps ==
  ASSUME RecordInv, ScanInv, NEW s \in Scans, RM_ScanOpen(s)
  PROVE  ScanInv'
<1> DEFINE c == [open |-> TRUE, page |-> -1, slot |-> -1]
           t == [NothingTold EXCEPT !.due = LiveRIDs(file)]
<1>1. /\ scan' = [scan EXCEPT ![s] = c] /\ told' = [told EXCEPT ![s] = t]
      /\ UNCHANGED file /\ Live = LiveRIDs(file)
  BY DEF RM_ScanOpen, RecordInv, Live
<1>2. LiveRIDs(file) \in SUBSET RIDs
  BY DEF LiveRIDs
<1>3. t \in Telling /\ t.due = LiveRIDs(file) /\ t.got = << >> /\ t.eof = FALSE
  BY <1>2, NothingToldFacts
<1>4. c \in ScanState /\ c.page = -1 /\ PlaceOf(c) = <<0, 0>>
  BY RMAssumption DEF ScanState, PlaceOf
<1> HIDE DEF c, t
<1>5. Placed(c, t)
  BY <1>3, <1>4 DEF Placed
<1>6. Owing(c, t, Live)
  <2>1. \A x \in Live : x \in Places
    BY <1>1, <1>2, BeforeOrder
  <2>2. \A x \in Live : ~ Before(x, PlaceOf(c))
    BY <1>4, <2>1 DEF Places, Before
  <2>3. t.due = Live /\ t.eof = FALSE
    BY <1>1, <1>3
  <2>4. QED
    BY <2>2, <2>3 DEF Owing
<1>7. QED
  BY <1>1, <1>3, <1>4, <1>5, <1>6, OneScan

LEMMA ScanCloseKeeps ==
  ASSUME ScanInv, NEW s \in Scans, RM_ScanClose(s)
  PROVE  ScanInv'
<1>1. /\ scan' = [scan EXCEPT ![s] = ClosedScan] /\ UNCHANGED file
      /\ told' = [told EXCEPT ![s] = NothingTold]
  BY DEF RM_ScanClose
<1>2. ClosedScan.page = -1
  BY DEF ClosedScan
<1>3. Placed(ClosedScan, NothingTold)
  BY <1>2, NothingToldFacts DEF Placed
<1>4. Owing(ClosedScan, NothingTold, Live)
  BY NothingToldFacts DEF Owing
<1>5. QED
  BY <1>1, <1>3, <1>4, NothingToldFacts, OneScan

\* What a call of RM_GetNextRec leaves for the others to see.
Returned(s) ==
  /\ \A z \in Scans \ {s} : told'[z] = told[z]
  /\ \/ told'[s].got = told[s].got
     \/ \E x \in Live : told'[s].got = Append(told[s].got, x)

\* A step that moves a scan past no live record.
LEMMA MoveKeeps ==
  ASSUME ScanInv, NEW s \in Scans, UNCHANGED <<file, told>>, ~ told[s].eof,
         NEW q \in 0 .. MaxPages, NEW i \in 0 .. PAGE_SIZE, ScanAt(s, q, i),
         ~ Before(<<q, i>>, PlaceOf(scan[s])),
         \A x \in Live : ~ Before(x, PlaceOf(scan[s])) => ~ Before(x, <<q, i>>)
  PROVE  ScanInv'
<1> DEFINE c == [scan[s] EXCEPT !.page = q, !.slot = i]
           t == told[s]
           here == PlaceOf(scan[s])
<1>1. scan[s] \in ScanState /\ t \in Telling /\ Placed(scan[s], t) /\ here \in Places
      /\ Owing(scan[s], t, Live)
  BY PlaceType DEF ScanInv
<1>2. q \in -1 .. MaxPages /\ i \in -1 .. PAGE_SIZE /\ q # -1 /\ i # -1
      /\ q \in Nat /\ i \in Nat
  BY RMAssumption
<1>3. c \in ScanState /\ c.page = q /\ c.slot = i
  BY <1>1, <1>2 DEF ScanState
<1>4. scan' = [scan EXCEPT ![s] = c]
  <2>1. scan' = [scan EXCEPT ![s].page = q, ![s].slot = i]
    BY DEF ScanAt
  <2>2. QED
    BY <2>1 DEF ScanInv, ScanState
<1>5. told' = [told EXCEPT ![s] = t]
  BY DEF ScanInv
<1> HIDE DEF c, t, here
<1>6. PlaceOf(c) = <<q, i>> /\ PlaceOf(c) \in Places
  BY <1>2, <1>3 DEF PlaceOf, Places
<1>7. ~ Before(PlaceOf(c), here) /\ \A x \in Live : ~ Before(x, here) => ~ Before(x, PlaceOf(c))
  BY <1>6 DEF here
<1>8. \A j \in DOMAIN t.got : t.got[j] \in Places /\ Before(t.got[j], here)
  BY <1>1, BeforeOrder DEF Telling, Placed, here
<1>9. \A j \in DOMAIN t.got : Before(t.got[j], PlaceOf(c))
  BY <1>1, <1>6, <1>7, <1>8, BeforeOrder
<1>10. Placed(c, t)
  BY <1>1, <1>2, <1>3, <1>9 DEF Placed
<1>11. Owing(c, t, Live)
  <2>1. ~ t.eof /\ \A x \in t.due : x \in Got(t) \/ (x \in Live /\ ~ Before(x, here))
    BY <1>1 DEF Owing, t, here
  <2>2. QED
    BY <1>7, <2>1 DEF Owing
<1>12. QED
  BY <1>1, <1>3, <1>4, <1>5, <1>10, <1>11, OneScan

\* A call that tells RM_EOF leaves the scan where it is, and tells it only when
\* nothing is ahead or PF refused a page (rm.c:385-398).
LEMMA TellEOFKeeps ==
  ASSUME ScanInv, NEW s \in Scans, UNCHANGED file, ~ told[s].eof, NEW refused \in BOOLEAN,
         refused \/ \A x \in Live : Before(x, PlaceOf(scan[s])), TellEOF(s, refused)
  PROVE  ScanInv' /\ Returned(s)
<1> DEFINE c == scan[s]
           t == [told[s] EXCEPT !.eof = TRUE, !.refused = refused]
<1>1. scan[s] \in ScanState /\ told[s] \in Telling /\ Placed(scan[s], told[s])
      /\ Owing(scan[s], told[s], Live)
  BY DEF ScanInv
<1>2. t \in Telling /\ t.got = told[s].got /\ t.eof /\ t.refused = refused
      /\ t.due = told[s].due
  BY <1>1 DEF Telling
<1>3. scan' = [scan EXCEPT ![s] = c] /\ told' = [told EXCEPT ![s] = t]
  <2>1. /\ scan' = scan
        /\ told' = [told EXCEPT ![s].eof = TRUE, ![s].refused = refused]
    BY DEF TellEOF
  <2>2. scan' = [scan EXCEPT ![s] = c]
    BY <2>1 DEF ScanInv
  <2>3. told' = [told EXCEPT ![s] = t]
    BY <2>1 DEF ScanInv, Telling
  <2>4. QED
    BY <2>2, <2>3
<1>4. refused \/ told[s].due \subseteq Got(told[s])
  BY <1>1 DEF Owing
<1> HIDE DEF t
<1>5. Placed(c, t)
  BY <1>1, <1>2 DEF Placed
<1>6. Owing(c, t, Live)
  BY <1>2, <1>4 DEF Owing, Got
<1>7. ScanInv'
  <2> HIDE DEF c
  <2>1. c \in ScanState
    BY <1>1 DEF c
  <2>2. QED
    BY <1>2, <1>3, <1>5, <1>6, <2>1, OneScan
<1>8. told'[s] = t /\ \A z \in Scans \ {s} : told'[z] = told[z]
  BY <1>3 DEF ScanInv
<1>9. QED
  BY <1>2, <1>7, <1>8 DEF Returned

\* A call that returns the record at the scan's place (rm.c:412-424).
LEMMA TellKeeps ==
  ASSUME RecordInv, ScanInv, NEW s \in Scans, UNCHANGED file, ~ told[s].eof,
         NEW x \in Live, x = PlaceOf(scan[s]),
         ScanAt(s, x[1], x[2] + 1), told' = [told EXCEPT ![s].got = Append(@, x)]
  PROVE  ScanInv' /\ Returned(s)
<1> DEFINE c == [scan[s] EXCEPT !.page = x[1], !.slot = x[2] + 1]
           t == [told[s] EXCEPT !.got = Append(told[s].got, x)]
           here == PlaceOf(scan[s])
<1>1. x \in RIDs /\ x \in Places
  <2>1. Live \subseteq RIDs
    BY DEF Live, LiveRIDs
  <2>2. QED
    BY <2>1, BeforeOrder
<1>2. \A y \in Places : ~ Before(y, here) /\ y # x => Before(x, y)
  <2>1. \A y \in Places : ~ Before(y, x) /\ y # x => Before(x, y)
    BY <1>1, BeforeOrder
  <2>2. QED
    BY <2>1
<1>3. scan[s] \in ScanState /\ told[s] \in Telling /\ Placed(scan[s], told[s])
      /\ Owing(scan[s], told[s], Live) /\ here \in Places
  BY PlaceType DEF ScanInv
<1>4. x[1] \in -1 .. MaxPages /\ x[2] + 1 \in -1 .. PAGE_SIZE /\ x[1] # -1 /\ x[2] + 1 # -1
  <2>1. /\ x[1] \in 0 .. MaxPages - 1
        /\ x[2] \in 0 .. (PAGE_SIZE - 1) \div 2
    BY <1>1 DEF RIDs, HDR, SLOT
  <2>2. QED
    BY <2>1, RMAssumption
<1>5. c \in ScanState /\ c.page = x[1] /\ c.slot = x[2] + 1
  BY <1>3, <1>4 DEF ScanState
<1>6. PlaceOf(c) = <<x[1], x[2] + 1>>
  BY <1>4, <1>5 DEF PlaceOf
<1>7. t \in Telling /\ t.got = Append(told[s].got, x) /\ t.eof = FALSE /\ t.due = told[s].due
  <2>1. told[s].got \in Seq(RIDs)
    BY <1>3 DEF Telling
  <2>2. Append(told[s].got, x) \in Seq(RIDs)
    BY <1>1, <2>1
  <2>3. told[s].eof = FALSE
    BY <1>3 DEF Telling
  <2>4. QED
    BY <1>3, <2>2, <2>3 DEF Telling
<1>8. scan' = [scan EXCEPT ![s] = c] /\ told' = [told EXCEPT ![s] = t]
  <2>1. scan' = [scan EXCEPT ![s].page = x[1], ![s].slot = x[2] + 1]
    BY DEF ScanAt
  <2>2. scan' = [scan EXCEPT ![s] = c]
    BY <2>1 DEF ScanInv, ScanState
  <2>3. QED
    BY <2>2
<1>9. here = x
  OBVIOUS
<1> HIDE DEF c, t, here
<1> DEFINE got == told[s].got
<1>10. got \in Seq(RIDs)
  BY <1>3 DEF Telling
<1>11. /\ Len(got) \in Nat /\ DOMAIN got = 1 .. Len(got) /\ \A i \in DOMAIN got : got[i] \in Places
       /\ DOMAIN t.got = 1 .. Len(got) + 1 /\ t.got[Len(got) + 1] = x
       /\ \A i \in DOMAIN got : t.got[i] = got[i]
  BY <1>7, <1>10, BeforeOrder
<1>12. \A i \in DOMAIN t.got : i = Len(got) + 1 \/ (i \in DOMAIN got /\ i < Len(got) + 1)
  BY <1>11
<1>13. /\ \A i \in DOMAIN got : Before(got[i], x)
       /\ \A i, j \in DOMAIN got : i < j => Before(got[i], got[j])
  BY <1>3, <1>9 DEF Placed, here
<1> HIDE DEF got
<1>14. Before(x, PlaceOf(c)) /\ \A y \in Places : Before(x, y) => ~ Before(y, PlaceOf(c))
  BY <1>1, <1>6, BeforeOrder
<1>15. \A i \in DOMAIN got : Before(got[i], PlaceOf(c))
  <2>1. PlaceOf(c) \in Places
    BY <1>1, <1>6 DEF Places
  <2>2. ~ Before(PlaceOf(c), x)
    BY <1>1, <1>6 DEF Places, Before
  <2>3. QED
    BY <1>1, <1>11, <1>13, <2>1, <2>2, BeforeOrder
<1>16. Placed(c, t)
  <2>1. \A i \in DOMAIN t.got : Before(t.got[i], PlaceOf(c))
    BY <1>11, <1>12, <1>14, <1>15
  <2>2. ASSUME NEW i \in DOMAIN t.got, NEW j \in DOMAIN t.got, i < j
        PROVE  Before(t.got[i], t.got[j])
    <3>1. i \in DOMAIN got
      BY <1>11, <1>12, <2>2
    <3>2. QED
      BY <1>11, <1>12, <1>13, <2>2, <3>1
  <2>3. QED
    BY <1>4, <1>5, <2>1, <2>2 DEF Placed
<1>17. Owing(c, t, Live)
  <2> SUFFICES ASSUME NEW y \in t.due
               PROVE  y \in Got(t) \/ (y \in Live /\ ~ Before(y, PlaceOf(c)))
    BY <1>7 DEF Owing
  <2>1. y \in Got(told[s]) \/ (y \in Live /\ ~ Before(y, here))
    BY <1>3, <1>7 DEF Owing, here
  <2>2. CASE y \in Got(told[s])
    BY <1>11, <2>2 DEF Got, got
  <2>3. CASE y = x
    BY <1>11, <2>3 DEF Got
  <2>4. CASE y \in Live /\ ~ Before(y, here) /\ y # x
    <3>1. y \in Places
      BY <2>4, BeforeOrder DEF Live, LiveRIDs
    <3>2. Before(x, y)
      BY <1>2, <2>4, <3>1
    <3>3. QED
      BY <1>14, <2>4, <3>1, <3>2
  <2>5. QED
    BY <2>1, <2>2, <2>3, <2>4
<1>18. ScanInv'
  BY <1>5, <1>7, <1>8, <1>16, <1>17, OneScan
<1>19. told'[s] = t /\ \A z \in Scans \ {s} : told'[z] = told[z]
  BY <1>8 DEF ScanInv
<1>20. QED
  BY <1>7, <1>18, <1>19 DEF Returned

\* Where a call stands that looks at the slots of a page, and what the slots tell of
\* the records ahead of it.
LEMMA WalkFacts ==
  ASSUME RecordInv, ScanInv, CallInv, NEW s \in Scans, call[s] = "slots"
  PROVE  LET p == scan[s].page
             i == scan[s].slot
             m == file[p]
         IN  /\ ~ told[s].eof /\ p \in Nat /\ p + 1 <= MaxPages /\ i \in 0 .. PAGE_SIZE
             /\ NumSlots(m) \in Nat /\ NumSlots(m) < PAGE_SIZE
             /\ PlaceOf(scan[s]) = <<p, i>>
             /\ <<p, i>> \in Live <=> InUse(m, i)
             /\ \A x \in Live : x[1] = p => x[2] < NumSlots(m)
<1> DEFINE p == scan[s].page
           i == scan[s].slot
           m == file[p]
<1>1. Exists /\ p \in DOMAIN file /\ ~ told[s].eof
  BY DEF CallInv, RecordInv
<1>2. PICK n : FileOf(file, n)
  BY <1>1 DEF RecordInv
<1>3. n \in Nat /\ n <= MaxPages /\ MaxPages \in Nat /\ p \in 0 .. n - 1
  BY <1>1, <1>2, FileFacts, RMAssumption
<1>4. PageSound(m)
  BY <1>2, <1>3 DEF FileOf
<1>5. NumSlots(m) \in Nat /\ NumSlots(m) < PAGE_SIZE /\ PAGE_SIZE \in Nat
  BY <1>4, HeaderType
<1>6. i \in 0 .. PAGE_SIZE
  <2>1. scan[s] \in ScanState /\ Placed(scan[s], told[s])
    BY DEF ScanInv
  <2>2. i \in -1 .. PAGE_SIZE /\ i # -1
    BY <1>3, <2>1 DEF ScanState, Placed
  <2>3. QED
    BY <1>5, <2>2
<1>7. PlaceOf(scan[s]) = <<p, i>>
  BY <1>3 DEF PlaceOf
<1>8. Live = LiveRIDs(file)
  BY <1>1 DEF Live
<1> HIDE DEF m, p, i
<1>9. i \in LiveSlots(m) <=> InUse(m, i)
  BY <1>5, <1>6 DEF LiveSlots, SlotsOf, InUse
<1>10. <<p, i>> \in Live <=> InUse(m, i)
  <2>1. ASSUME InUse(m, i) PROVE <<p, i>> \in RIDs
    <3>1. i \in Nat /\ i < NumSlots(m)
      BY <1>6, <2>1 DEF InUse
    <3>2. i \in 0 .. (PAGE_SIZE - HDR) \div (SLOT + 1)
      BY <1>4, <1>5, <3>1, SlotHasRID
    <3>3. p \in 0 .. MaxPages - 1
      BY <1>3
    <3>4. QED
      BY <3>2, <3>3 DEF RIDs
  <2>2. ASSUME <<p, i>> \in RIDs PROVE <<p, i>> \in Live <=> i \in LiveSlots(m)
    BY <1>2, <1>3, <1>8, <2>2, GetRecTold DEF m
  <2>3. Live \subseteq RIDs
    BY <1>8 DEF LiveRIDs
  <2>4. QED
    BY <1>9, <2>1, <2>2, <2>3
<1>11. ASSUME NEW x \in Live, x[1] = p PROVE x[2] < NumSlots(m)
  <2>1. x \in RIDs /\ x \in LiveRIDs(file)
    BY <1>8 DEF LiveRIDs
  <2>2. x[2] \in LiveSlots(m)
    BY <1>2, <1>11, <2>1, GetRecTold DEF m
  <2>3. QED
    BY <1>5, <2>2 DEF LiveSlots, SlotsOf
<1>12. p \in Nat /\ p + 1 <= MaxPages
  BY <1>3
<1>13. QED
  BY <1>1, <1>5, <1>6, <1>7, <1>10, <1>11, <1>12 DEF m, p, i

LEMMA ReturnRecKeeps ==
  ASSUME RecordInv, ScanInv, CallInv, NEW s \in Scans, ReturnRec(s)
  PROVE  ScanInv' /\ Returned(s)
<1> DEFINE x == Place(s)
<1>1. /\ call[s] = "slots" /\ InUse(file[scan[s].page], scan[s].slot) /\ UNCHANGED file
      /\ told' = [told EXCEPT ![s].got = Append(@, x)]
      /\ ScanAt(s, scan[s].page, scan[s].slot + 1)
  BY DEF ReturnRec
<1>2. /\ ~ told[s].eof /\ PlaceOf(scan[s]) = x /\ x \in Live
  BY <1>1, WalkFacts DEF Place
<1>3. x[1] = scan[s].page /\ x[2] = scan[s].slot
  BY DEF Place
<1> HIDE DEF x
<1>4. ScanAt(s, x[1], x[2] + 1)
  BY <1>1, <1>3
<1>5. QED
  BY <1>1, <1>2, <1>4, TellKeeps

LEMMA SkipSlotKeeps ==
  ASSUME RecordInv, ScanInv, CallInv, NEW s \in Scans, SkipSlot(s)
  PROVE  ScanInv' /\ Returned(s)
<1> DEFINE p == scan[s].page
           i == scan[s].slot
<1>1. /\ call[s] = "slots" /\ i < NumSlots(file[p]) /\ ~ InUse(file[p], i)
      /\ ScanAt(s, p, i + 1) /\ UNCHANGED <<file, told>>
  BY DEF SkipSlot
<1>2. /\ ~ told[s].eof /\ p \in Nat /\ p + 1 <= MaxPages /\ i \in 0 .. PAGE_SIZE
      /\ NumSlots(file[p]) \in Nat /\ NumSlots(file[p]) < PAGE_SIZE
      /\ PlaceOf(scan[s]) = <<p, i>> /\ <<p, i>> \notin Live
  BY <1>1, WalkFacts
<1> HIDE DEF p, i
<1>3. p \in 0 .. MaxPages /\ i + 1 \in 0 .. PAGE_SIZE /\ i \in Nat
  BY <1>1, <1>2, RMAssumption
<1>4. ~ Before(<<p, i + 1>>, <<p, i>>)
  BY <1>2, <1>3 DEF Before
<1>5. ASSUME NEW x \in Live, ~ Before(x, <<p, i>>)
      PROVE  ~ Before(x, <<p, i + 1>>)
  <2>1. x \in Places /\ x = <<x[1], x[2]>> /\ x[1] \in Nat /\ x[2] \in Nat
    BY BeforeOrder DEF Live, LiveRIDs, Places
  <2>2. ~ (x[1] = p /\ x[2] = i)
    BY <1>2, <2>1
  <2>3. QED
    BY <1>2, <1>3, <1>5, <2>1, <2>2 DEF Before
<1>6. ScanInv'
  BY <1>1, <1>2, <1>3, <1>4, <1>5, MoveKeeps
<1>7. QED
  BY <1>1, <1>6 DEF Returned

LEMMA NextPageKeeps ==
  ASSUME RecordInv, ScanInv, CallInv, NEW s \in Scans, NextPage(s)
  PROVE  ScanInv' /\ Returned(s)
<1> DEFINE p == scan[s].page
           i == scan[s].slot
<1>1. /\ call[s] = "slots" /\ i >= NumSlots(file[p])
      /\ ScanAt(s, p + 1, 0) /\ UNCHANGED <<file, told>>
  BY DEF NextPage
<1>2. /\ ~ told[s].eof /\ p \in Nat /\ p + 1 <= MaxPages /\ i \in 0 .. PAGE_SIZE
      /\ NumSlots(file[p]) \in Nat /\ PlaceOf(scan[s]) = <<p, i>>
      /\ \A x \in Live : x[1] = p => x[2] < NumSlots(file[p])
  BY <1>1, WalkFacts
<1> HIDE DEF p, i
<1>3. p + 1 \in 0 .. MaxPages /\ 0 \in 0 .. PAGE_SIZE /\ i \in Nat
  BY <1>1, <1>2, RMAssumption
<1>4. ~ Before(<<p + 1, 0>>, <<p, i>>)
  BY <1>2, <1>3 DEF Before
<1>5. ASSUME NEW x \in Live, ~ Before(x, <<p, i>>)
      PROVE  ~ Before(x, <<p + 1, 0>>)
  <2>1. x[1] \in Nat /\ x[2] \in Nat
    BY BeforeOrder DEF Live, LiveRIDs, Places
  <2>2. x[1] # p
    BY <1>1, <1>2, <1>3, <1>5, <2>1 DEF Before
  <2>3. QED
    BY <1>2, <1>3, <1>5, <2>1, <2>2 DEF Before
<1>6. ScanInv'
  BY <1>1, <1>2, <1>3, <1>4, <1>5, MoveKeeps
<1>7. QED
  BY <1>1, <1>6 DEF Returned

LEMMA GetPageKeeps ==
  ASSUME RecordInv, ScanInv, CallInv, NEW s \in Scans, GetPage(s)
  PROVE  ScanInv' /\ Returned(s)
<1>1. call[s] = "page" /\ open /\ UNCHANGED file /\ ~ told[s].eof /\ Exists
  BY DEF GetPage, CallInv, RecordInv
<1>2. CASE Wanted(s) \notin DOMAIN file
  <2>1. TellEOF(s, FALSE)
    BY <1>2 DEF GetPage
  <2>2. PICK n : FileOf(file, n)
    BY <1>1 DEF RecordInv
  <2>3. PlaceOf(scan[s]) \in Places /\ PlaceOf(scan[s])[1] = Wanted(s) /\ Wanted(s) \in Nat
    <3>1. PlaceOf(scan[s]) \in Places
      BY PlaceType DEF ScanInv
    <3>2. PlaceOf(scan[s])[1] = Wanted(s)
      BY DEF PlaceOf, Wanted
    <3>3. QED
      BY <3>1, <3>2 DEF Places
  <2>4. n \in Nat /\ DOMAIN file = 0 .. n - 1 /\ Wanted(s) >= n
    BY <1>2, <2>2, <2>3, FileFacts
  <2>5. ASSUME NEW x \in Live PROVE Before(x, PlaceOf(scan[s]))
    <3>1. x \in RIDs /\ x \in LiveRIDs(file)
      BY <1>1 DEF Live, LiveRIDs
    <3>2. x[1] \in 0 .. n - 1
      BY <2>2, <3>1, GetRecTold
    <3>3. x[1] < PlaceOf(scan[s])[1]
      BY <2>3, <2>4, <3>2
    <3>4. QED
      BY <3>3 DEF Before
  <2>6. QED
    BY <1>1, <2>1, <2>5, TellEOFKeeps
<1>3. CASE Wanted(s) \in DOMAIN file /\ scan[s].page = -1
  <2>1. ScanAt(s, 0, 0) /\ UNCHANGED told
    BY <1>3 DEF GetPage
  <2>2. PlaceOf(scan[s]) = <<0, 0>> /\ ~ Before(<<0, 0>>, <<0, 0>>)
    BY <1>3 DEF PlaceOf, Before
  <2>3. 0 \in 0 .. MaxPages /\ 0 \in 0 .. PAGE_SIZE
    BY RMAssumption
  <2>4. ~ Before(<<0, 0>>, PlaceOf(scan[s]))
        /\ \A x \in Live : ~ Before(x, PlaceOf(scan[s])) => ~ Before(x, <<0, 0>>)
    BY <2>2
  <2>5. ScanInv'
    BY <1>1, <2>1, <2>3, <2>4, MoveKeeps
  <2>6. QED
    BY <2>1, <2>5 DEF Returned
<1>4. CASE Wanted(s) \in DOMAIN file /\ scan[s].page # -1
  <2>1. UNCHANGED <<file, scan, told>>
    BY <1>4 DEF GetPage
  <2>2. ScanInv'
    BY <2>1 DEF ScanInv, Live, Exists
  <2>3. QED
    BY <2>1, <2>2 DEF Returned
<1>5. QED
  BY <1>2, <1>3, <1>4

\* What RM_GetNextRec does in any of its steps to the scan it is called for.
LEMMA CallKeeps ==
  ASSUME RecordInv, ScanInv, CallInv, NEW s \in Scans,
         \/ RM_GetNextRec(s) \/ GetPage(s) \/ GetPageRefused(s)
         \/ ReturnRec(s) \/ SkipSlot(s) \/ NextPage(s)
  PROVE  ScanInv' /\ Returned(s)
<1>1. ASSUME UNCHANGED <<file, scan, told>> PROVE ScanInv' /\ Returned(s)
  <2>1. ScanInv'
    BY <1>1 DEF ScanInv, Live, Exists
  <2>2. QED
    BY <1>1, <2>1 DEF Returned
<1>2. CASE RM_GetNextRec(s)
  BY <1>1, <1>2 DEF RM_GetNextRec
<1>3. CASE GetPageRefused(s)
  <2>1. call[s] = "page" /\ UNCHANGED file /\ ~ told[s].eof
    BY <1>3 DEF GetPageRefused, CallInv
  <2>2. CASE scan[s].page = -1
    BY <1>1, <1>3, <2>2 DEF GetPageRefused
  <2>3. CASE scan[s].page # -1
    <3>1. TellEOF(s, TRUE)
      BY <1>3, <2>3 DEF GetPageRefused
    <3>2. QED
      BY <2>1, <3>1, TellEOFKeeps
  <2>4. QED
    BY <2>2, <2>3
<1>4. QED
  BY <1>2, <1>3, GetPageKeeps, ReturnRecKeeps, SkipSlotKeeps, NextPageKeeps

\* Insertions put records among those ahead of a scan or behind it, deletions take
\* one from what scans owe, and a file destroyed takes all.
LEMMA ScanStep ==
  ASSUME RecordInv, ScanInv, CallInv, [Next]_vars
  PROVE  /\ ScanInv'
         /\ \/ \A s \in Scans : told'[s].got = told[s].got \/ told'[s].got = << >>
            \/ \E s \in Scans : Returned(s)
<1>1. ASSUME UNCHANGED <<scan, told>>, Live \subseteq Live'
      PROVE  ScanInv'
  BY <1>1 DEF ScanInv, Owing
<1>2. ASSUME UNCHANGED scan, NEW d,
             told' = [s \in Scans |-> [told[s] EXCEPT !.due = told[s].due \ d]],
             Live \ d \subseteq Live'
      PROVE  ScanInv' /\ \A s \in Scans : told'[s].got = told[s].got
  <2>1. ASSUME NEW s \in Scans
        PROVE  /\ told'[s] \in Telling /\ told'[s].due = told[s].due \ d
               /\ told'[s].got = told[s].got /\ told'[s].eof = told[s].eof
               /\ told'[s].refused = told[s].refused
    BY <1>2 DEF ScanInv, Telling
  <2>2. told' \in [Scans -> Telling]
    BY <1>2, <2>1
  <2>3. ASSUME NEW s \in Scans
        PROVE  Placed(scan[s], told'[s]) /\ Owing(scan[s], told'[s], Live')
    <3>1. Placed(scan[s], told[s]) /\ Owing(scan[s], told[s], Live)
      BY DEF ScanInv
    <3>2. Got(told'[s]) = Got(told[s])
      BY <2>1 DEF Got
    <3>3. Placed(scan[s], told'[s])
      BY <2>1, <3>1 DEF Placed
    <3>4. Owing(scan[s], told'[s], Live')
      BY <1>2, <2>1, <3>1, <3>2 DEF Owing
    <3>5. QED
      BY <3>3, <3>4
  <2>4. QED
    BY <1>2, <2>1, <2>2, <2>3 DEF ScanInv
<1>3. CASE RM_CreateFile \/ RM_OpenFile \/ RM_CloseFile \/ UNCHANGED vars
  <2>1. Live \subseteq Live'
    BY <1>3 DEF RM_CreateFile, RM_OpenFile, RM_CloseFile, vars, Live, Exists
  <2>2. UNCHANGED <<scan, told>>
    BY <1>3 DEF RM_CreateFile, RM_OpenFile, RM_CloseFile, vars
  <2>3. QED
    BY <1>1, <2>1, <2>2
<1>4. CASE RM_DestroyFile
  <2>1. \A s \in Scans : told[s].due \ RIDs = {}
    BY DEF ScanInv, Telling
  <2>2. told' = [s \in Scans |-> [told[s] EXCEPT !.due = told[s].due \ RIDs]]
    BY <1>4, <2>1 DEF RM_DestroyFile
  <2>3. Live \ RIDs = {}
    BY DEF Live, LiveRIDs
  <2>4. UNCHANGED scan
    BY <1>4 DEF RM_DestroyFile
  <2>5. QED
    BY <1>2, <2>2, <2>3, <2>4
<1>5. CASE \E r \in Records : RM_InsertRec(r)
  <2>1. UNCHANGED <<scan, told>> /\ Live \subseteq Live'
    BY <1>5, InsertKeeps DEF RM_InsertRec
  <2>2. QED
    BY <1>1, <2>1
<1>6. CASE \E rid \in RIDs : RM_DeleteRec(rid)
  <2>1. PICK rid \in RIDs : RM_DeleteRec(rid)
    BY <1>6
  <2>2. told' = [s \in Scans |-> [told[s] EXCEPT !.due = told[s].due \ {rid}]]
    BY <2>1 DEF RM_DeleteRec
  <2>3. UNCHANGED scan /\ Live' = Live \ {rid}
    BY <2>1, DeleteKeeps DEF RM_DeleteRec
  <2>4. QED
    BY <1>2, <2>2, <2>3
<1>7. ASSUME NEW s \in Scans, RM_ScanOpen(s) \/ RM_ScanClose(s)
      PROVE  ScanInv' /\ \A z \in Scans : told'[z].got = told[z].got \/ told'[z].got = << >>
  <2>1. ScanInv'
    BY <1>7, ScanOpenKeeps, ScanCloseKeeps
  <2>2. PICK t : told' = [told EXCEPT ![s] = t] /\ t.got = << >>
    <3>1. CASE RM_ScanOpen(s)
      <4>1. LiveRIDs(file) \in SUBSET RIDs
        BY DEF LiveRIDs
      <4>2. QED
        BY <3>1, <4>1, NothingToldFacts DEF RM_ScanOpen
    <3>2. CASE RM_ScanClose(s)
      BY <3>2, NothingToldFacts DEF RM_ScanClose
    <3>3. QED
      BY <1>7, <3>1, <3>2
  <2>3. ASSUME NEW z \in Scans
        PROVE  told'[z].got = told[z].got \/ told'[z].got = << >>
    <3>1. told'[z] = IF z = s THEN t ELSE told[z]
      BY <2>2 DEF ScanInv
    <3>2. QED
      BY <2>2, <3>1
  <2>4. QED
    BY <2>1, <2>3
<1>8. ASSUME NEW s \in Scans, \/ RM_GetNextRec(s) \/ GetPage(s) \/ GetPageRefused(s)
                               \/ ReturnRec(s) \/ SkipSlot(s) \/ NextPage(s)
      PROVE  ScanInv' /\ Returned(s)
  BY <1>8, CallKeeps
<1>9. QED
  BY <1>3, <1>4, <1>5, <1>6, <1>7, <1>8 DEF Next

\* No other call runs while RM_GetNextRec does, so the page it looks at stays.
LEMMA CallStep ==
  ASSUME RecordInv, ScanInv, CallInv, [Next]_vars
  PROVE  CallInv'
<1>1. ASSUME Idle, UNCHANGED call PROVE CallInv'
  BY <1>1 DEF CallInv, Idle
<1>2. CASE RM_CreateFile \/ RM_DestroyFile \/ RM_OpenFile \/ RM_CloseFile
  BY <1>1, <1>2 DEF RM_CreateFile, RM_DestroyFile, RM_OpenFile, RM_CloseFile
<1>3. CASE \E r \in Records : RM_InsertRec(r)
  BY <1>1, <1>3 DEF RM_InsertRec
<1>4. CASE \E rid \in RIDs : RM_DeleteRec(rid)
  BY <1>1, <1>4 DEF RM_DeleteRec
<1>5. CASE UNCHANGED vars
  BY <1>5 DEF vars, CallInv
<1>6. CASE \E s \in Scans : RM_ScanOpen(s) \/ RM_ScanClose(s)
  BY <1>1, <1>6 DEF RM_ScanOpen, RM_ScanClose
<1>7. ASSUME NEW s \in Scans, NEW c \in {"none", "page", "slots"},
             call' = [call EXCEPT ![s] = c], UNCHANGED <<file, open>>,
             \A z \in Scans \ {s} : scan'[z] = scan[z] /\ told'[z] = told[z],
             c # "none" => ~ told'[s].eof,
             c = "slots" => open /\ scan'[s].page \in DOMAIN file
      PROVE  CallInv'
  <2>1. call' \in [Scans -> {"none", "page", "slots"}]
    BY <1>7 DEF CallInv
  <2>2. ASSUME NEW z \in Scans
        PROVE  /\ call'[z] # "none" => ~ told'[z].eof
               /\ call'[z] = "slots" => open /\ scan'[z].page \in DOMAIN file
    <3>1. CASE z = s
      BY <1>7, <3>1 DEF CallInv
    <3>2. CASE z # s
      <4>1. call'[z] = call[z] /\ scan'[z] = scan[z] /\ told'[z] = told[z]
        BY <1>7, <3>2 DEF CallInv
      <4>2. QED
        BY <4>1 DEF CallInv
    <3>3. QED
      BY <3>1, <3>2
  <2>3. QED
    BY <1>7, <2>1, <2>2 DEF CallInv
<1>8. ASSUME NEW s \in Scans, UNCHANGED scan
      PROVE  \A z \in Scans \ {s} : scan'[z] = scan[z]
  BY <1>8
<1>9. ASSUME NEW s \in Scans, NEW q, NEW i, ScanAt(s, q, i)
      PROVE  /\ \A z \in Scans \ {s} : scan'[z] = scan[z]
             /\ scan'[s].page = q
  <2>1. scan \in [Scans -> ScanState]
    BY DEF ScanInv
  <2>2. scan' = [scan EXCEPT ![s].page = q, ![s].slot = i]
    BY <1>9 DEF ScanAt
  <2>3. QED
    BY <2>1, <2>2 DEF ScanState
<1>10. ASSUME NEW s \in Scans, NEW refused, TellEOF(s, refused), UNCHANGED <<file, open>>
       PROVE  CallInv'
  <2>1. /\ call' = [call EXCEPT ![s] = "none"] /\ UNCHANGED scan
        /\ told' = [told EXCEPT ![s].eof = TRUE, ![s].refused = refused]
    BY <1>10 DEF TellEOF, Return
  <2>2. \A z \in Scans \ {s} : told'[z] = told[z]
    BY <2>1 DEF ScanInv
  <2>3. QED
    BY <1>7, <1>10, <2>1, <2>2
<1>11. ASSUME NEW s \in Scans, RM_GetNextRec(s) PROVE CallInv'
  <2>1. /\ call' = [call EXCEPT ![s] = "page"] /\ UNCHANGED <<file, open, scan, told>>
        /\ ~ told[s].eof
    BY <1>11 DEF RM_GetNextRec
  <2>2. QED
    BY <1>7, <2>1
<1>12. ASSUME NEW s \in Scans, GetPage(s) PROVE CallInv'
  <2>1. call[s] = "page" /\ open /\ UNCHANGED <<file, open>> /\ ~ told[s].eof
    BY <1>12 DEF GetPage, CallInv
  <2>2. CASE Wanted(s) \notin DOMAIN file
    BY <1>10, <1>12, <2>1, <2>2 DEF GetPage
  <2>3. CASE Wanted(s) \in DOMAIN file
    <3>1. call' = [call EXCEPT ![s] = "slots"] /\ UNCHANGED told
      BY <1>12, <2>3 DEF GetPage, Walk
    <3>2. /\ \A z \in Scans \ {s} : scan'[z] = scan[z]
          /\ scan'[s].page = Wanted(s)
      <4>1. CASE scan[s].page = -1
        BY <1>9, <1>12, <2>3, <4>1 DEF GetPage, Wanted
      <4>2. CASE scan[s].page # -1
        BY <1>12, <2>3, <4>2 DEF GetPage, Wanted
      <4>3. QED
        BY <4>1, <4>2
    <3>3. QED
      BY <1>7, <2>1, <2>3, <3>1, <3>2
  <2>4. QED
    BY <2>2, <2>3
<1>13. ASSUME NEW s \in Scans, GetPageRefused(s) PROVE CallInv'
  <2>1. UNCHANGED <<file, open>>
    BY <1>13 DEF GetPageRefused
  <2>2. CASE scan[s].page = -1
    <3>1. call' = [call EXCEPT ![s] = "none"] /\ UNCHANGED <<scan, told>>
      BY <1>13, <2>2 DEF GetPageRefused, Return
    <3>2. QED
      BY <1>7, <2>1, <3>1
  <2>3. CASE scan[s].page # -1
    BY <1>10, <1>13, <2>1, <2>3 DEF GetPageRefused
  <2>4. QED
    BY <2>2, <2>3
<1>14. ASSUME NEW s \in Scans, ReturnRec(s) PROVE CallInv'
  <2>1. /\ call' = [call EXCEPT ![s] = "none"] /\ UNCHANGED <<file, open>>
        /\ told' = [told EXCEPT ![s].got = Append(@, Place(s))]
        /\ ScanAt(s, scan[s].page, scan[s].slot + 1)
    BY <1>14 DEF ReturnRec, Return
  <2>2. \A z \in Scans \ {s} : scan'[z] = scan[z] /\ told'[z] = told[z]
    BY <1>9, <2>1 DEF ScanInv
  <2>3. QED
    BY <1>7, <2>1, <2>2
<1>15. ASSUME NEW s \in Scans, SkipSlot(s) PROVE CallInv'
  <2>1. /\ UNCHANGED <<file, open, told, call>> /\ ScanAt(s, scan[s].page, scan[s].slot + 1)
    BY <1>15 DEF SkipSlot
  <2>2. /\ \A z \in Scans \ {s} : scan'[z] = scan[z]
        /\ scan'[s].page = scan[s].page
    BY <1>9, <2>1
  <2>3. \A z \in Scans : scan'[z].page = scan[z].page
    BY <2>2
  <2>4. QED
    BY <2>1, <2>3 DEF CallInv
<1>16. ASSUME NEW s \in Scans, NextPage(s) PROVE CallInv'
  <2>1. /\ call' = [call EXCEPT ![s] = "page"] /\ UNCHANGED <<file, open, told>>
        /\ ScanAt(s, scan[s].page + 1, 0) /\ call[s] = "slots"
    BY <1>16 DEF NextPage
  <2>2. \A z \in Scans \ {s} : scan'[z] = scan[z] /\ told'[z] = told[z]
    BY <1>9, <2>1
  <2>3. ~ told'[s].eof
    BY <2>1 DEF CallInv
  <2>4. QED
    BY <1>7, <2>1, <2>2, <2>3
<1>17. QED
  BY <1>2, <1>3, <1>4, <1>5, <1>6, <1>11, <1>12, <1>13, <1>14, <1>15, <1>16 DEF Next

-----------------------------------------------------------------------------
(* The theorems. *)

LEMMA RecordsKept == Spec => [](RecordInv /\ ScanInv /\ CallInv)
<1>1. ASSUME Init PROVE ScanInv /\ CallInv
  <2>1. scan \in [Scans -> ScanState] /\ told \in [Scans -> Telling]
    BY <1>1, NothingToldFacts DEF Init
  <2>2. ASSUME NEW s \in Scans
        PROVE  Placed(scan[s], told[s]) /\ Owing(scan[s], told[s], Live)
    <3>1. scan[s] = ClosedScan /\ told[s] = NothingTold /\ ClosedScan.page = -1
      BY <1>1 DEF Init, ClosedScan
    <3>2. QED
      BY <3>1, NothingToldFacts DEF Placed, Owing
  <2>3. CallInv
    BY <1>1 DEF Init, CallInv
  <2>4. QED
    BY <2>1, <2>2, <2>3 DEF ScanInv
<1>2. Init => RecordInv /\ ScanInv /\ CallInv
  BY <1>1, RecordInvInit
<1>3. RecordInv /\ ScanInv /\ CallInv /\ [Next]_vars => (RecordInv /\ ScanInv /\ CallInv)'
  BY RecordStep, ScanStep, CallStep
<1>4. QED
  BY <1>2, <1>3, PTL DEF Spec

LEMMA SoundPages == ASSUME RecordInv PROVE PagesWellFormed
<1> SUFFICES ASSUME Exists, NEW p \in DOMAIN file
             PROVE  LET m == file[p]
                    IN  /\ \/ SlotsEnd(m) <= m[0].freeSpaceOffset
                           \/ NumSlots(m) = 1 /\ HDR + SLOT + SlotAt(m, 0).length > PAGE_SIZE
                        /\ \A i \in SlotsOf(m) : SlotAt(m, i) \in Slots
                        /\ \A i \in LiveSlots(m) :
                             /\ Extent(m, i) \subseteq m[0].freeSpaceOffset .. PAGE_SIZE - 1
                             /\ \A j \in LiveSlots(m) \ {i} : Extent(m, i) \cap Extent(m, j) = {}
  BY DEF PagesWellFormed
<1> DEFINE m == file[p]
<1>1. PageSound(m)
  BY FileFacts DEF RecordInv, FileOf
<1> HIDE DEF m
<1>2. /\ NumSlots(m) \in Nat /\ m[0].freeSpaceOffset \in Nat /\ PAGE_SIZE \in Nat
  BY <1>1, HeaderType
<1>3. \/ SlotsEnd(m) <= m[0].freeSpaceOffset
      \/ NumSlots(m) = 1 /\ HDR + SLOT + SlotAt(m, 0).length > PAGE_SIZE
  <2>1. CASE HDR + NumSlots(m) <= m[0].freeSpaceOffset
    BY <1>2, <2>1 DEF SlotsEnd, HDR, SLOT
  <2>2. CASE Overfull(m)
    BY <1>2, <2>2 DEF Overfull, HDR, SLOT
  <2>3. QED
    BY <1>1, <2>1, <2>2 DEF PageSound
<1>4. \A i \in LiveSlots(m) :
        /\ SlotAt(m, i).offset \in Nat /\ SlotAt(m, i).length \in Nat
        /\ m[0].freeSpaceOffset <= SlotAt(m, i).offset
        /\ SlotAt(m, i).offset + SlotAt(m, i).length <= PAGE_SIZE
  BY <1>1, <1>2 DEF PageSound, LiveSlots, Inside, Slots
<1>5. \A i \in LiveSlots(m) : Extent(m, i) \subseteq m[0].freeSpaceOffset .. PAGE_SIZE - 1
  BY <1>2, <1>4 DEF Extent
<1>6. ASSUME NEW i \in LiveSlots(m), NEW j \in LiveSlots(m), i # j
      PROVE  Extent(m, i) \cap Extent(m, j) = {}
  <2>1. Apart(SlotAt(m, i), SlotAt(m, j))
    BY <1>1, <1>6 DEF PageSound
  <2>2. QED
    BY <1>4, <2>1 DEF Apart, Extent
<1>7. QED
  BY <1>1, <1>3, <1>5, <1>6 DEF PageSound, m

LEMMA RecordTypes == ASSUME RecordInv, ScanInv, CallInv PROVE TypeOK
<1>1. ASSUME Exists
      PROVE  /\ DOMAIN file = 0 .. NumPages(file) - 1 /\ NumPages(file) <= MaxPages
             /\ \A p \in DOMAIN file :
                  /\ file[p] \in Page /\ file[p][0] \in Headers
                  /\ \A a \in 1 .. PAGE_SIZE - 1 :
                       file[p][a] \in Slots \cup UnitsOf \cup {Blank}
  <2>1. PICK n : FileOf(file, n)
    BY <1>1 DEF RecordInv
  <2>2. DOMAIN file = 0 .. n - 1 /\ NumPages(file) = n /\ n <= MaxPages
    BY <2>1, FileFacts
  <2>3. QED
    BY <2>1, <2>2 DEF FileOf, PageSound, Unit
<1>2. QED
  BY <1>1 DEF TypeOK, RecordInv, ScanInv, CallInv, ScanState, Telling

\* Whatever is inserted, deleted and scanned, the file is a run of pages with a
\* header and units each, and scans stand at pages and slots there can be
\* (rm.c:99, rm.c:206, rm.c:383).
THEOREM RecordTypeCorrect == Spec => []TypeOK
<1>1. RecordInv /\ ScanInv /\ CallInv => TypeOK
  BY RecordTypes
<1>2. Spec => [](RecordInv /\ ScanInv /\ CallInv)
  BY RecordsKept
<1>3. QED
  BY <1>1, <1>2, PTL

\* No insertion ever writes over a slot or a record that was there before (rm.c:187,
\* rm.c:293): on every page of any size live records are apart from each other, and
\* the directory ends before free space, but for the page of a record that fits none,
\* which it never shares.
THEOREM PagesStayWellFormed == Spec => []PagesWellFormed
<1>1. RecordInv /\ ScanInv /\ CallInv => PagesWellFormed
  BY SoundPages
<1>2. Spec => [](RecordInv /\ ScanInv /\ CallInv)
  BY RecordsKept
<1>3. QED
  BY <1>1, <1>2, PTL

\* A RID that RM_InsertRec returned for a record that an empty page has room for
\* fetches its bytes until RM_DeleteRec succeeds on it, and nothing afterwards,
\* records of any length inserted among them (rm.c:187, rm.c:249, rm.c:293).
THEOREM AnswersAreKept == Spec => []AckedHolds
<1>1. ASSUME RecordInv PROVE AckedHolds
  <2> SUFFICES ASSUME Exists, NEW rid \in RIDs
               PROVE  IF acked[rid] \in Records
                      THEN Fits(acked[rid]) => RecordOf(rid) = Units(acked[rid])
                      ELSE RecordOf(rid) = acked[rid]
    BY DEF AckedHolds
  <2>1. RecordOf(rid) = Kept(acked[rid])
    BY <1>1, RecordTold DEF RecordInv
  <2>2. QED
    BY <2>1 DEF Kept, Stored
<1>2. Spec => [](RecordInv /\ ScanInv /\ CallInv)
  BY RecordsKept
<1>3. RecordInv /\ ScanInv /\ CallInv => AckedHolds
  BY <1>1
<1>4. QED
  BY <1>2, <1>3, PTL

\* A scan that PF refused no page returns, before RM_EOF, every record that was
\* there when it was opened and is there still (rm.c:368), for any number of
\* scans, insertions and deletions between its calls.
THEOREM ScansAreComplete == Spec => []ScanComplete
<1>1. RecordInv /\ ScanInv /\ CallInv => ScanComplete
  BY DEF ScanInv, ScanComplete, Owing, Got
<1>2. Spec => [](RecordInv /\ ScanInv /\ CallInv)
  BY RecordsKept
<1>3. QED
  BY <1>1, <1>2, PTL

\* No scan returns a record twice: it returns them in the order of their RIDs
\* (rm.c:410-424).
THEOREM ScansReturnOnce == Spec => []ScanOnce
<1>1. RecordInv /\ ScanInv /\ CallInv => ScanOnce
  BY DEF ScanInv, ScanOnce, Placed
<1>2. Spec => [](RecordInv /\ ScanInv /\ CallInv)
  BY RecordsKept
<1>3. QED
  BY <1>1, <1>2, PTL

\* What a scan returns was inserted, and was not deleted before it is returned: the
\* walk over the slots comes to none that RM_DeleteRec emptied or nobody was given
\* (rm.c:405-424).
THEOREM ScansReturnLiveRecords == Spec => ScanReturnsLive
<1> DEFINE Live1 == \A s \in Scans : Len(told'[s].got) > Len(told[s].got)
                      => acked[told'[s].got[Len(told'[s].got)]] \in Records
<1>1. ASSUME RecordInv, ScanInv, CallInv, [Next]_vars
      PROVE  Live1
  <2> SUFFICES ASSUME NEW s \in Scans, Len(told'[s].got) > Len(told[s].got)
               PROVE  acked[told'[s].got[Len(told'[s].got)]] \in Records
    OBVIOUS
  <2>1. told[s].got \in Seq(RIDs) /\ Len(told[s].got) \in Nat
    BY <1>1 DEF ScanInv, Telling
  <2>2. told'[s].got # told[s].got /\ told'[s].got # << >>
    BY <2>1
  <2>3. PICK x \in Live : told'[s].got = Append(told[s].got, x)
    BY <1>1, <2>2, ScanStep DEF Returned
  <2>4. acked[x] \in Records
    BY <1>1, <2>3 DEF RecordInv, Live, LiveRIDs
  <2>5. QED
    BY <2>1, <2>3, <2>4
<1>2. RecordInv /\ ScanInv /\ CallInv /\ [Next]_vars => [Live1]_vars
  BY <1>1
<1>3. Spec => [](RecordInv /\ ScanInv /\ CallInv)
  BY RecordsKept
<1>4. QED
  BY <1>2, <1>3, PTL DEF Spec, ScanReturnsLive

\* The pages, slots and scans implement a record store: a RID is given out once,
\* keeps its record until it is deleted, and no call on one record changes what
\* RM_GetRec answers for another (rm.c:187-337).
THEOREM RMImplementsRecordStore == Spec => StoreSpec
<1> DEFINE R == [rid \in RIDs |-> IF Exists THEN RecordOf(rid) ELSE Never]
           K == [rid \in RIDs |-> Kept(acked[rid])]
           C == {Stored(r) : r \in Records}
           I == RecordInv /\ R = K
<1>1. RecordInv /\ ScanInv /\ CallInv => I
  <2> SUFFICES ASSUME RecordInv PROVE R = K
    OBVIOUS
  <2>1. CASE Exists
    BY <2>1, RecordTold DEF RecordInv
  <2>2. CASE ~ Exists
    BY <2>2, RMAssumption DEF RecordInv, Kept
  <2>3. QED
    BY <2>1, <2>2
<1>2. Spec => []I
  <2> HIDE DEF I
  <2>1. Spec => [](RecordInv /\ ScanInv /\ CallInv)
    BY RecordsKept
  <2>2. QED
    BY <1>1, <2>1, PTL
<1>3. Init /\ I => Store!Init
  <2> SUFFICES ASSUME Init, R = K
               PROVE  Exists = FALSE /\ R = [rid \in RIDs |-> Never]
    BY DEF Store!Init
  <2>1. \A rid \in RIDs : Kept(acked[rid]) = Never
    BY RMAssumption DEF Init, Kept
  <2>2. QED
    BY <2>1 DEF Init, Exists
<1>4. I /\ I' /\ [Next]_vars => [Store!Next]_(Store!vars)
  <2> SUFFICES ASSUME RecordInv, R = K, RecordInv', R' = K', [Next]_vars
               PROVE  [Store!Next]_(Store!vars)
    OBVIOUS
  <2>1. /\ DOMAIN acked = RIDs /\ DOMAIN acked' = RIDs
        /\ Never \notin Records /\ Gone \notin Records
    BY RMAssumption DEF RecordInv
  <2>2. K = [rid \in RIDs |-> Kept(acked[rid])] /\ K' = [rid \in RIDs |-> Kept(acked'[rid])]
    OBVIOUS
  <2>3. Kept(Never) = Never /\ Kept(Gone) = Gone /\ \A r \in Records : Kept(r) \in C
    BY <2>1 DEF Kept
  <2> HIDE DEF K, C
  <2>4. StoreStep
    BY RecordStep
  <2>5. CASE Exists' = Exists /\ acked' = acked
    <3>1. K' = K
      BY <2>2, <2>5
    <3>2. Store!vars' = Store!vars
      BY <2>5, <3>1 DEF Store!vars
    <3>3. QED
      BY <3>2
  <2>6. CASE Exists # Exists' /\ acked' = [rid \in RIDs |-> Never]
             /\ (~ Exists => acked = [rid \in RIDs |-> Never])
    <3>1. K' = [rid \in RIDs |-> Never]
      BY <2>2, <2>3, <2>6
    <3>2. CASE Exists
      <4>1. Exists' = FALSE /\ R' = [rid \in RIDs |-> Never]
        BY <2>6, <3>1, <3>2 DEF Exists
      <4>2. Store!Destroy
        BY <3>2, <4>1, Zenon DEF Store!Destroy
      <4>3. QED
        BY <4>2 DEF Store!Next
    <3>3. CASE ~ Exists
      <4>1. Exists' = TRUE /\ R' = R
        BY <2>2, <2>6, <3>3 DEF Exists
      <4>2. Store!Create
        BY <3>3, <4>1, Zenon DEF Store!Create
      <4>3. QED
        BY <4>2 DEF Store!Next
    <3>4. QED
      BY <3>2, <3>3
  <2>7. ASSUME Exists, Exists', NEW rid \in RIDs, NEW r \in Records,
               acked[rid] = Never, acked' = [acked EXCEPT ![rid] = r]
        PROVE  Store!Next
    <3>1. K[rid] = Never /\ K' = [K EXCEPT ![rid] = Kept(r)]
      BY <2>1, <2>2, <2>3, <2>7
    <3>2. Store!Insert(rid)
      BY <2>3, <2>7, <3>1 DEF Store!Insert, C
    <3>3. QED
      BY <3>2 DEF Store!Next
  <2>8. ASSUME Exists, Exists', NEW rid \in RIDs,
               acked[rid] \in Records, acked' = [acked EXCEPT ![rid] = Gone]
        PROVE  Store!Next
    <3>1. K[rid] \in C /\ K' = [K EXCEPT ![rid] = Gone]
      BY <2>1, <2>2, <2>3, <2>8
    <3>2. Store!Delete(rid)
      BY <2>8, <3>1 DEF Store!Delete, Store!Live, C
    <3>3. QED
      BY <3>2 DEF Store!Next
  <2>9. QED
    BY <2>4, <2>5, <2>6, <2>7, <2>8 DEF StoreStep
<1>5. QED
  <2> HIDE DEF I
  <2>1. QED
    BY <1>2, <1>3, <1>4, PTL DEF Spec, StoreSpec, Store!Spec

-----------------------------------------------------------------------------
(* The space report: sums over pages, slots and RIDs. *)

One(s) == CHOOSE x \in s : TRUE
\* What MapThenSumSet computes from the function g over S, as a function of the set:
\* an equation on k, and what it says of sets with one more member.
Summed(g, S, k) ==
  [s \in SUBSET S |-> IF s = {} THEN 0 ELSE g[One(s)] + k[s \ {One(s)}]]
Totals(k, g, S) ==
  /\ k \in [SUBSET S -> Int] /\ k[{}] = 0
  /\ \A s \in SUBSET S : \A x \in S \ s : k[s \cup {x}] = g[x] + k[s]

LEMMA OneOf == ASSUME NEW s, s # {} PROVE One(s) \in s
BY DEF One

\* Induction over the subsets of a finite set, by the least counterexample.
LEMMA SubsetInduction ==
  ASSUME NEW S, IsFiniteSet(S), NEW T, {} \in T,
         \A s \in SUBSET S : \A x \in S \ s : s \in T => s \cup {x} \in T
  PROVE  SUBSET S \subseteq T
<1> DEFINE D == {Cardinality(s) : s \in (SUBSET S) \ T}
<1>1. \A s \in SUBSET S : IsFiniteSet(s) /\ Cardinality(s) \in Nat
  BY FS_Subset, FS_CardinalityType
<1>2. SUFFICES ASSUME NEW z \in (SUBSET S) \ T PROVE FALSE
  OBVIOUS
<1>3. D \in SUBSET Nat /\ D # {}
  BY <1>1, <1>2
<1>4. PICK s \in (SUBSET S) \ T : \A y \in (SUBSET S) \ T : Cardinality(s) <= Cardinality(y)
  <2>1. Min(D) \in D /\ \A y \in D : Min(D) <= y
    BY <1>3, LeastExists
  <2>2. PICK s \in (SUBSET S) \ T : Cardinality(s) = Min(D)
    BY <2>1
  <2>3. \A y \in (SUBSET S) \ T : Cardinality(y) \in D
    OBVIOUS
  <2>4. QED
    BY <2>1, <2>2, <2>3
<1>5. PICK x : x \in s
  BY <1>4
<1>6. s \ {x} \in SUBSET S /\ x \in S \ (s \ {x}) /\ (s \ {x}) \cup {x} = s
  BY <1>5
<1>7. Cardinality(s \ {x}) = Cardinality(s) - 1
  BY <1>1, <1>5, FS_RemoveElement
<1>8. s \ {x} \in T
  BY <1>1, <1>4, <1>6, <1>7
<1>9. QED
  BY <1>4, <1>6, <1>8

\* Induction over the naturals, in the same way.
LEMMA NatInduct ==
  ASSUME NEW T, 0 \in T, \A n \in Nat : n \in T => n + 1 \in T
  PROVE  Nat \subseteq T
<1> DEFINE D == {n \in Nat : n \notin T}
<1>1. SUFFICES ASSUME D # {} PROVE FALSE
  OBVIOUS
<1>2. PICK d \in D : \A y \in D : d <= y
  BY <1>1, LeastExists
<1>3. d \in Nat /\ d # 0 /\ d - 1 \in Nat /\ (d - 1) + 1 = d /\ ~ (d <= d - 1)
  OBVIOUS
<1>4. d - 1 \in T
  BY <1>2, <1>3
<1>5. QED
  BY <1>3, <1>4

LEMMA CardinalityOf ==
  ASSUME NEW S, IsFiniteSet(S), NEW s \in SUBSET S
  PROVE  /\ IsFiniteSet(s) /\ Cardinality(s) \in Nat
         /\ Cardinality(s) = 0 <=> s = {}
         /\ \A x \in s : Cardinality(s \ {x}) = Cardinality(s) - 1
         /\ \A x \in S \ s : Cardinality(s \cup {x}) = Cardinality(s) + 1
<1>1. IsFiniteSet(s)
  BY FS_Subset
<1>2. Cardinality(s) \in Nat /\ (Cardinality(s) = 0 <=> s = {})
  BY <1>1, FS_CardinalityType, FS_EmptySet
<1>3. QED
  BY <1>1, <1>2, FS_RemoveElement, FS_AddElement

\* The equation has a solution.
LEMMA SumExists ==
  ASSUME NEW S, IsFiniteSet(S), NEW g \in [S -> Int]
  PROVE  \E k : k = Summed(g, S, k)
<1> DEFINE Term(k, s) == IF s = {} THEN 0 ELSE g[One(s)] + k[s \ {One(s)}]
           Upto(n) == \E k \in [SUBSET S -> Int] :
                        \A s \in SUBSET S : Cardinality(s) <= n => k[s] = Term(k, s)
           T == {n \in Nat : Upto(n)}
<1>1. \A s \in SUBSET S : /\ Cardinality(s) \in Nat /\ (Cardinality(s) = 0 <=> s = {})
                          /\ s # {} => /\ One(s) \in S /\ s \ {One(s)} \in SUBSET S
                                       /\ Cardinality(s \ {One(s)}) = Cardinality(s) - 1
  BY CardinalityOf, OneOf
<1>2. 0 \in T
  <2> DEFINE k == [s \in SUBSET S |-> 0]
  <2>1. k \in [SUBSET S -> Int]
    OBVIOUS
  <2>2. ASSUME NEW s \in SUBSET S, Cardinality(s) <= 0
        PROVE  k[s] = Term(k, s)
    <3>1. Cardinality(s) \in Nat /\ (Cardinality(s) = 0 <=> s = {})
      BY <1>1
    <3>2. s = {}
      BY <2>2, <3>1
    <3>3. QED
      BY <3>2
  <2>3. QED
    BY <2>1, <2>2
<1>3. ASSUME NEW n \in Nat, n \in T
      PROVE  n + 1 \in T
  <2>1. PICK k \in [SUBSET S -> Int] : \A s \in SUBSET S : Cardinality(s) <= n => k[s] = Term(k, s)
    BY <1>3
  <2> DEFINE j == [s \in SUBSET S |-> IF Cardinality(s) <= n THEN k[s] ELSE Term(k, s)]
  <2>2. ASSUME NEW s \in SUBSET S
        PROVE  Term(k, s) \in Int
    <3>1. CASE s = {}
      BY <3>1
    <3>2. CASE s # {}
      <4>1. g[One(s)] \in Int /\ k[s \ {One(s)}] \in Int
        BY <1>1, <3>2
      <4>2. QED
        BY <3>2, <4>1
    <3>3. QED
      BY <3>1, <3>2
  <2>3. j \in [SUBSET S -> Int]
    BY <2>2
  <2>4. ASSUME NEW s \in SUBSET S, Cardinality(s) <= n + 1
        PROVE  j[s] = Term(j, s)
    <3>1. j[s] = Term(k, s)
      BY <2>1
    <3>2. CASE s = {}
      BY <3>1, <3>2
    <3>3. CASE s # {}
      <4>1. s \ {One(s)} \in SUBSET S /\ Cardinality(s \ {One(s)}) <= n
        BY <1>1, <2>4, <3>3
      <4>2. j[s \ {One(s)}] = k[s \ {One(s)}]
        BY <4>1
      <4>3. QED
        BY <3>1, <3>3, <4>2
    <3>4. QED
      BY <3>2, <3>3
  <2> HIDE DEF j
  <2>5. QED
    BY <2>3, <2>4
<1>4. Cardinality(S) \in T
  BY <1>1, <1>2, <1>3, NatInduct
<1>5. PICK k \in [SUBSET S -> Int] :
        \A s \in SUBSET S : Cardinality(s) <= Cardinality(S) => k[s] = Term(k, s)
  BY <1>4
<1>6. \A s \in SUBSET S : Cardinality(s) <= Cardinality(S)
  BY FS_Subset
<1>7. k = [s \in SUBSET S |-> Term(k, s)]
  BY <1>5, <1>6
<1>8. QED
  BY <1>7 DEF Summed

\* Whichever member is taken first, the sum is the same.
LEMMA SumTotals ==
  ASSUME NEW S, IsFiniteSet(S), NEW g \in [S -> Int], NEW k, k = Summed(g, S, k)
  PROVE  Totals(k, g, S)
<1> DEFINE Good(s) == /\ k[s] \in Int
                      /\ \A x \in S \ s : k[s \cup {x}] = g[x] + k[s]
           T == {n \in Nat : \A s \in SUBSET S : Cardinality(s) = n => Good(s)}
<1>1. /\ DOMAIN k = SUBSET S /\ k[{}] = 0
      /\ \A s \in SUBSET S : s # {} => k[s] = g[One(s)] + k[s \ {One(s)}]
  <2>1. \A s \in SUBSET S : k[s] = IF s = {} THEN 0 ELSE g[One(s)] + k[s \ {One(s)}]
    BY Zenon DEF Summed
  <2>2. DOMAIN k = SUBSET S
    BY Zenon DEF Summed
  <2>3. QED
    BY <2>1, <2>2
<1>2. \A s \in SUBSET S :
        /\ Cardinality(s) \in Nat /\ (Cardinality(s) = 0 <=> s = {})
        /\ \A x \in s : Cardinality(s \ {x}) = Cardinality(s) - 1
  BY CardinalityOf
<1>3. 0 \in T
  <2>1. ASSUME NEW x \in S PROVE k[{} \cup {x}] = g[x] + k[{}]
    <3>1. One({x}) = x /\ {x} \ {x} = {} /\ {} \cup {x} = {x}
      BY OneOf
    <3>2. k[{x}] = g[One({x})] + k[{x} \ {One({x})}]
      BY <1>1
    <3>3. QED
      BY <3>1, <3>2
  <2>2. Good({})
    BY <1>1, <2>1
  <2>3. QED
    BY <1>2, <2>2
<1>4. ASSUME NEW n \in Nat, n \in T
      PROVE  n + 1 \in T
  <2> SUFFICES ASSUME NEW s \in SUBSET S, Cardinality(s) = n + 1
               PROVE  Good(s)
    OBVIOUS
  <2>1. s # {}
    BY <1>2
  <2>2. ASSUME NEW c \in s
        PROVE  s \ {c} \in SUBSET S /\ Good(s \ {c}) /\ c \in S \ (s \ {c})
    <3>1. s \ {c} \in SUBSET S /\ Cardinality(s \ {c}) = n
      BY <1>2
    <3>2. \A u \in SUBSET S : Cardinality(u) = n => Good(u)
      BY <1>4
    <3> HIDE DEF Good
    <3>3. QED
      BY <3>1, <3>2
  <2>3. \A c \in s : k[s] = g[c] + k[s \ {c}] /\ k[s \ {c}] \in Int /\ g[c] \in Int
    <3>1. \A c \in s : (s \ {c}) \cup {c} = s
      OBVIOUS
    <3>2. QED
      BY <2>2, <3>1
  <2>4. k[s] \in Int
    <3>1. PICK c : c \in s
      BY <2>1
    <3>2. k[s] = g[c] + k[s \ {c}] /\ k[s \ {c}] \in Int /\ g[c] \in Int
      BY <2>3, <3>1
    <3>3. QED
      BY <3>2
  <2>5. ASSUME NEW x \in S \ s
        PROVE  k[s \cup {x}] = g[x] + k[s]
    <3> DEFINE u == s \cup {x}
               c == One(u)
    <3>1. c \in u /\ u \in SUBSET S /\ k[u] = g[c] + k[u \ {c}]
      <4>1. u # {} /\ u \in SUBSET S
        OBVIOUS
      <4> HIDE DEF u
      <4>2. QED
        BY <1>1, <4>1, OneOf
    <3> HIDE DEF c
    <3>2. CASE c = x
      <4>1. u \ {c} = s
        BY <3>2
      <4>2. QED
        BY <3>1, <3>2, <4>1
    <3>3. CASE c # x
      <4>1. c \in s /\ u \ {c} = (s \ {c}) \cup {x} /\ x \in S \ (s \ {c})
        BY <3>1, <3>3
      <4>2. k[u \ {c}] = g[x] + k[s \ {c}]
        BY <2>2, <4>1
      <4>3. g[x] \in Int
        OBVIOUS
      <4>4. QED
        BY <2>3, <3>1, <4>1, <4>2, <4>3
    <3>4. QED
      BY <3>2, <3>3
  <2>6. QED
    BY <2>4, <2>5
<1>5. Nat \subseteq T
  BY <1>3, <1>4, NatInduct
<1>6. \A s \in SUBSET S : Good(s)
  BY <1>2, <1>5
<1>7. k \in [SUBSET S -> Int]
  <2>1. k = [s \in SUBSET S |-> k[s]]
    BY Zenon DEF Summed
  <2>2. \A s \in SUBSET S : k[s] \in Int
    BY <1>6
  <2>3. QED
    BY <2>1, <2>2
<1>8. QED
  BY <1>1, <1>6, <1>7 DEF Totals

\* What RM_GetSpaceUtilization adds up is a sum in any order (rm.c:459-520).
LEMMA BytesTotal ==
  ASSUME NEW m, PageSound(m)
  PROVE  /\ IsFiniteSet(LiveSlots(m)) /\ RecordBytes(m) \in Int
         /\ \E k : /\ Totals(k, [i \in LiveSlots(m) |-> SlotAt(m, i).length], LiveSlots(m))
                   /\ RecordBytes(m) = k[LiveSlots(m)]
<1> DEFINE S == LiveSlots(m)
           g == [i \in S |-> SlotAt(m, i).length]
           F(k) == [s \in SUBSET S |-> IF s = {} THEN 0
                                       ELSE SlotAt(m, One(s)).length + k[s \ {One(s)}]]
           K == CHOOSE k : k = F(k)
<1>1. IsFiniteSet(S)
  <2>1. NumSlots(m) \in Nat
    BY HeaderType
  <2>2. IsFiniteSet(0 .. NumSlots(m) - 1)
    BY <2>1, FS_Interval
  <2>3. QED
    BY <2>2, FS_Subset DEF LiveSlots, SlotsOf
<1>2. g \in [S -> Int]
  <2>1. \A i \in S : SlotAt(m, i).length \in Int
    BY RMAssumption DEF PageSound, LiveSlots, Slots
  <2>2. QED
    BY <2>1
<1>3. RecordBytes(m) = K[S]
  BY DEF RecordBytes, MapThenSumSet, MapThenFoldSet, One, LiveSlots
<1>4. ASSUME NEW k PROVE F(k) = Summed(g, S, k)
  <2>1. \A s \in SUBSET S : s # {} => SlotAt(m, One(s)).length = g[One(s)]
    BY OneOf
  <2>2. QED
    BY <2>1 DEF Summed
<1>5. \E k : k = F(k)
  <2> HIDE DEF F, S, g
  <2>1. QED
    BY <1>1, <1>2, <1>4, SumExists
<1>6. K = F(K)
  <2> HIDE DEF F
  <2>1. QED
    BY <1>5
<1>7. Totals(K, g, S)
  <2> HIDE DEF F, S, g, K
  <2>1. QED
    BY <1>1, <1>2, <1>4, <1>6, SumTotals
<1> HIDE DEF K
<1>8. K[S] \in Int
  BY <1>7 DEF Totals
<1>9. QED
  BY <1>1, <1>3, <1>7, <1>8

LEMMA RecordTotal ==
  ASSUME NEW f, NEW n, FileOf(f, n)
  PROVE  \E k : /\ Totals(k, [p \in DOMAIN f |-> RecordBytes(f[p])], DOMAIN f)
                /\ RM_GetSpaceUtilization(f).record = k[DOMAIN f]
<1> DEFINE S == DOMAIN f
           g == [p \in S |-> RecordBytes(f[p])]
           F(k) == [s \in SUBSET S |-> IF s = {} THEN 0
                                       ELSE RecordBytes(f[One(s)]) + k[s \ {One(s)}]]
           K == CHOOSE k : k = F(k)
<1>1. IsFiniteSet(S) /\ S = 0 .. n - 1
  BY FileFacts, FS_Interval
<1>2. g \in [S -> Int]
  BY <1>1, BytesTotal DEF FileOf
<1>3. RM_GetSpaceUtilization(f).record = K[S]
  <2>1. RM_GetSpaceUtilization(f).record = MapThenSumSet(LAMBDA p : RecordBytes(f[p]), DOMAIN f)
    BY DEF RM_GetSpaceUtilization
  <2>2. QED
    BY <2>1 DEF MapThenSumSet, MapThenFoldSet, One
<1>4. ASSUME NEW k PROVE F(k) = Summed(g, S, k)
  <2>1. \A s \in SUBSET S : s # {} => RecordBytes(f[One(s)]) = g[One(s)]
    BY OneOf
  <2>2. QED
    BY <2>1 DEF Summed
<1>5. \E k : k = F(k)
  <2> HIDE DEF F, S, g
  <2>1. QED
    BY <1>1, <1>2, <1>4, SumExists
<1>6. K = F(K)
  <2> HIDE DEF F
  <2>1. QED
    BY <1>5
<1>7. Totals(K, g, S)
  <2> HIDE DEF F, S, g, K
  <2>1. QED
    BY <1>1, <1>2, <1>4, <1>6, SumTotals
<1> HIDE DEF K
<1>8. QED
  BY <1>3, <1>7

\* The same for the records that can be fetched.
LEMMA LiveTotal ==
  ASSUME NEW f, NEW n, FileOf(f, n)
  PROVE  /\ IsFiniteSet(LiveRIDs(f))
         /\ \E k : /\ Totals(k, [x \in LiveRIDs(f) |-> SlotAt(f[x[1]], x[2]).length], LiveRIDs(f))
                   /\ MapThenSumSet(LAMBDA rid : Cardinality(DOMAIN RM_GetRec(f, rid).data), LiveRIDs(f))
                        = k[LiveRIDs(f)]
<1> DEFINE S == LiveRIDs(f)
           Size(x) == Cardinality(DOMAIN RM_GetRec(f, x).data)
           g == [x \in S |-> SlotAt(f[x[1]], x[2]).length]
           F(k) == [s \in SUBSET S |-> IF s = {} THEN 0 ELSE Size(One(s)) + k[s \ {One(s)}]]
           K == CHOOSE k : k = F(k)
<1>1. IsFiniteSet(S)
  <2>1. IsFiniteSet(0 .. MaxPages - 1) /\ IsFiniteSet(0 .. (PAGE_SIZE - HDR) \div (SLOT + 1))
    <3>1. MaxPages - 1 \in Int /\ (PAGE_SIZE - HDR) \div (SLOT + 1) \in Int
      BY RMAssumption DEF HDR, SLOT
    <3>2. QED
      BY <3>1, FS_Interval
  <2>2. IsFiniteSet(RIDs)
    BY <2>1, FS_Product DEF RIDs
  <2>3. QED
    BY <2>2, FS_Subset DEF LiveRIDs
<1>2. ASSUME NEW x \in S
      PROVE  Size(x) = SlotAt(f[x[1]], x[2]).length /\ SlotAt(f[x[1]], x[2]).length \in Int
  <2> DEFINE m == f[x[1]]
             slot == SlotAt(m, x[2])
  <2>1. x \in RIDs /\ RM_GetRec(f, x).rc = "PFE_OK"
    BY DEF LiveRIDs
  <2>2. x[1] \in DOMAIN f /\ ~ (x[2] >= NumSlots(m)) /\ RM_GetRec(f, x).data = Data(m, slot)
    BY <2>1 DEF RM_GetRec
  <2>3. PageSound(m) /\ x[2] \in LiveSlots(m)
    BY <2>1, <2>2, GetRecTold DEF FileOf
  <2>4. slot.length \in Nat
    BY <2>3, RMAssumption DEF PageSound, LiveSlots, Slots
  <2> HIDE DEF m, slot
  <2>5. DOMAIN Data(m, slot) = 0 .. slot.length - 1
    BY DEF Data
  <2>6. Cardinality(0 .. slot.length - 1) = slot.length
    <3>1. Cardinality(0 .. slot.length - 1)
            = IF 0 > slot.length - 1 THEN 0 ELSE (slot.length - 1) - 0 + 1
      BY <2>4, FS_Interval
    <3>2. QED
      BY <2>4, <3>1
  <2>7. QED
    BY <2>2, <2>4, <2>5, <2>6 DEF m, slot
<1>3. g \in [S -> Int]
  BY <1>2
<1>4. MapThenSumSet(LAMBDA rid : Cardinality(DOMAIN RM_GetRec(f, rid).data), S) = K[S]
  BY DEF MapThenSumSet, MapThenFoldSet, One
<1>5. ASSUME NEW k PROVE F(k) = Summed(g, S, k)
  <2> HIDE DEF Size
  <2>1. \A s \in SUBSET S : s # {} => Size(One(s)) = g[One(s)]
    BY <1>2, OneOf
  <2>2. QED
    BY <2>1 DEF Summed
<1>6. \E k : k = F(k)
  <2> HIDE DEF F, S, g
  <2>1. QED
    BY <1>1, <1>3, <1>5, SumExists
<1>7. K = F(K)
  <2> HIDE DEF F
  <2>1. QED
    BY <1>6
<1>8. Totals(K, g, S)
  <2> HIDE DEF F, S, g, K
  <2>1. QED
    BY <1>1, <1>3, <1>5, <1>7, SumTotals
<1> HIDE DEF K
<1>9. QED
  BY <1>1, <1>4, <1>8

\* The bytes of the live slots, page by page, are those of the records by RID.
LEMMA RecordsCounted ==
  ASSUME NEW f, NEW n, FileOf(f, n)
  PROVE  RM_GetSpaceUtilization(f).record =
           MapThenSumSet(LAMBDA rid : Cardinality(DOMAIN RM_GetRec(f, rid).data), LiveRIDs(f))
<1> DEFINE S == DOMAIN f
           L == LiveRIDs(f)
           b == [p \in S |-> RecordBytes(f[p])]
           c == [x \in L |-> SlotAt(f[x[1]], x[2]).length]
           Of(s) == {x \in L : x[1] \in s}
<1>1. PICK kb : Totals(kb, b, S) /\ RM_GetSpaceUtilization(f).record = kb[S]
  BY RecordTotal
<1>2. PICK kc : /\ Totals(kc, c, L)
                /\ MapThenSumSet(LAMBDA rid : Cardinality(DOMAIN RM_GetRec(f, rid).data), L) = kc[L]
  BY LiveTotal
<1>3. IsFiniteSet(S) /\ S = 0 .. n - 1
  BY FileFacts, FS_Interval
<1>4. \A x \in RIDs : x \in L <=> x[1] \in S /\ x[2] \in LiveSlots(f[x[1]])
  BY <1>3, GetRecTold
<1>5. L \subseteq RIDs /\ \A x \in RIDs : x = <<x[1], x[2]>>
  BY DEF LiveRIDs, RIDs
<1>6. ASSUME NEW p \in S, NEW i \in LiveSlots(f[p])
      PROVE  <<p, i>> \in L
  <2>1. PageSound(f[p]) /\ p \in 0 .. MaxPages - 1
    BY <1>3, FileFacts, RMAssumption DEF FileOf
  <2>2. i \in Nat /\ i < NumSlots(f[p])
    BY <2>1, HeaderType DEF LiveSlots, SlotsOf
  <2>3. i \in 0 .. (PAGE_SIZE - HDR) \div (SLOT + 1)
    BY <2>1, <2>2, HeaderType, SlotHasRID
  <2>4. <<p, i>> \in RIDs
    BY <2>1, <2>3 DEF RIDs
  <2>5. QED
    BY <1>4, <2>4
<1> DEFINE T == {s \in SUBSET S : kc[Of(s)] = kb[s]}
<1>7. {} \in T
  <2>1. Of({}) = {}
    OBVIOUS
  <2>2. QED
    BY <1>1, <1>2, <2>1 DEF Totals
<1>8. ASSUME NEW s \in SUBSET S, NEW p \in S \ s, s \in T
      PROVE  s \cup {p} \in T
  <2> DEFINE m == f[p]
             V == LiveSlots(m)
             d == [i \in V |-> SlotAt(m, i).length]
             With(v) == Of(s) \cup {<<p, i>> : i \in v}
  <2>1. PICK kd : Totals(kd, d, V) /\ RecordBytes(m) = kd[V] /\ IsFiniteSet(V)
    BY <1>3, BytesTotal DEF FileOf
  <2> DEFINE W == {v \in SUBSET V : kc[With(v)] = kd[v] + kb[s]}
  <2>2. kb[s] \in Int /\ kc[Of(s)] = kb[s]
    BY <1>1, <1>8 DEF Totals
  <2>3. {} \in W
    <3>1. With({}) = Of(s)
      OBVIOUS
    <3>2. kd[{}] = 0
      BY <2>1 DEF Totals
    <3> HIDE DEF With, Of
    <3>3. QED
      BY <2>2, <3>1, <3>2
  <2>4. ASSUME NEW v \in SUBSET V, NEW i \in V \ v, v \in W
        PROVE  v \cup {i} \in W
    <3>1. With(v) \in SUBSET L /\ <<p, i>> \in L \ With(v)
      <4>1. \A j \in V : <<p, j>> \in L
        BY <1>6
      <4>2. <<p, i>> \notin Of(s)
        OBVIOUS
      <4>3. \A j \in v : <<p, j>> # <<p, i>>
        OBVIOUS
      <4>4. QED
        BY <4>1, <4>2, <4>3
    <3>2. With(v \cup {i}) = With(v) \cup {<<p, i>>}
      OBVIOUS
    <3>3. c[<<p, i>>] = d[i]
      BY <3>1
    <3>4. kd[v \cup {i}] = d[i] + kd[v] /\ kd[v] \in Int
      BY <2>1 DEF Totals
    <3>5. kc[With(v) \cup {<<p, i>>}] = c[<<p, i>>] + kc[With(v)] /\ kc[With(v)] \in Int
      <4> HIDE DEF With, c
      <4>1. QED
        BY <1>2, <3>1 DEF Totals
    <3>6. kc[With(v)] = kd[v] + kb[s]
      BY <2>4
    <3>7. d[i] \in Int
      <4>1. PageSound(m)
        BY <1>3 DEF FileOf
      <4>2. QED
        BY <4>1, RMAssumption DEF PageSound, LiveSlots, Slots
    <3>8. kc[With(v \cup {i})] = c[<<p, i>>] + kc[With(v)]
      <4> HIDE DEF With
      <4>1. QED
        BY <3>2, <3>5
    <3> HIDE DEF With, c, d
    <3>9. kc[With(v \cup {i})] = kd[v \cup {i}] + kb[s]
      BY <2>2, <3>3, <3>4, <3>6, <3>7, <3>8
    <3>10. QED
      BY <3>9
  <2>5. V \in W
    <3>1. \A v \in SUBSET V : \A i \in V \ v : v \in W => v \cup {i} \in W
      BY <2>4
    <3> HIDE DEF W, V
    <3>2. SUBSET V \subseteq W
      BY <2>1, <2>3, <3>1, SubsetInduction
    <3>3. QED
      BY <3>2
  <2>6. With(V) = Of(s \cup {p})
    <3>1. ASSUME NEW x \in L, x[1] = p
          PROVE  x \in {<<p, i>> : i \in V}
      BY <1>4, <1>5, <3>1
    <3>2. {<<p, i>> : i \in V} \subseteq L
      BY <1>6
    <3>3. QED
      BY <3>1, <3>2
  <2>7. kb[s \cup {p}] = b[p] + kb[s] /\ b[p] = kd[V]
    BY <1>1, <2>1 DEF Totals
  <2> HIDE DEF With, Of, V, b
  <2>8. kc[Of(s \cup {p})] = kb[s \cup {p}]
    BY <2>5, <2>6, <2>7
  <2>9. QED
    BY <2>8
<1>9. S \in T
  <2> HIDE DEF T
  <2>1. QED
    BY <1>3, <1>7, <1>8, SubsetInduction
<1>10. Of(S) = L
  BY <1>4, <1>5
<1>11. QED
  BY <1>1, <1>2, <1>9, <1>10

\* RM_GetSpaceUtilization reports as record bytes those of the records that can be
\* fetched, whatever was inserted and deleted (rm.c:465).
THEOREM SpaceReportIsTrue == Spec => []SpaceReportTrue
<1>1. RecordInv /\ ScanInv /\ CallInv => SpaceReportTrue
  BY RecordsCounted DEF RecordInv, SpaceReportTrue
<1>2. Spec => [](RecordInv /\ ScanInv /\ CallInv)
  BY RecordsKept
<1>3. QED
  BY <1>1, <1>2, PTL
=============================================================================
