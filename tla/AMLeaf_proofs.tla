--------------------------- MODULE AMLeaf_proofs ----------------------------
(***************************************************************************)
(* What the operators of a leaf keep.  A leaf is a page of key slots that  *)
(* grow up and cells that grow down; the cells are in the lists of the     *)
(* keys and in the free list.  Q[i] is the list of key i and Q[0] the free *)
(* list: Woven says that the lists are linked through the cells and use    *)
(* every cell once, HoldsBut that the leaf holds N[v][r] entries <<v, r>>. *)
(* Inserting, compacting, splitting and deleting keep both and change N by *)
(* the one entry, whatever the history of the leaf.                        *)
(***************************************************************************)
EXTENDS AM, SequenceTheorems, FiniteSetTheorems, WellFoundedInduction, TLAPS

-----------------------------------------------------------------------------
(* Binary search. *)

\* Induction over a set of naturals, from the least that is not in it.
LEMMA SetInduction ==
  ASSUME NEW T, 0 \in T, \A n \in Nat : n \in T => n + 1 \in T
  PROVE  Nat \subseteq T
<1> DEFINE D == {n \in Nat : n \notin T}
<1>1. SUFFICES ASSUME D # {} PROVE FALSE
  OBVIOUS
<1>2. PICK d \in D : \A y \in D : ~ (<<y, d>> \in OpToRel(<, Nat))
  BY <1>1, NatLessThanWellFounded, WFMin
<1>3. d \in Nat /\ d # 0 /\ d - 1 \in Nat
  OBVIOUS
<1>4. d - 1 \notin D
  <2>1. <<d - 1, d>> \in Nat \X Nat /\ d - 1 < d
    BY <1>3
  <2>2. QED
    BY <1>2, <2>1 DEF OpToRel
<1>5. d \in T
  <2>1. (d - 1) + 1 = d
    BY <1>3
  <2>2. QED
    BY <1>3, <1>4, <2>1
<1>6. QED
  BY <1>5

\* One turn of the loop of AM_BinSearch, f being what the later turns come to.
Turn(keys, value, f, b) ==
  LET mid == (b[1] + b[2]) \div 2
      c == AM_Compare(keys[mid + 1], value)
  IN  IF b[1] > b[2] THEN [found |-> FALSE, at |-> b[1]]
      ELSE IF c = 0 THEN [found |-> TRUE, at |-> mid]
      ELSE IF c < 0 THEN f[<<b[1], mid - 1>>]
      ELSE f[<<mid + 1, b[2]>>]
Bounds(n) == (0 .. n) \X (-1 .. n - 1)

Ordered(keys) == \A i, j \in 1 .. Len(keys) : i < j => keys[i] < keys[j]

\* Where low and high may be: all keys before low are smaller, all behind high larger.
LEMMA TurnBounds ==
  ASSUME NEW keys \in Seq(Int), NEW b \in Bounds(Len(keys)), b[1] <= b[2]
  PROVE  LET mid == (b[1] + b[2]) \div 2
         IN  /\ mid \in b[1] .. b[2] /\ mid \in 0 .. Len(keys) - 1
             /\ <<b[1], mid - 1>> \in Bounds(Len(keys)) /\ <<mid + 1, b[2]>> \in Bounds(Len(keys))
<1> DEFINE n == Len(keys)
           mid == (b[1] + b[2]) \div 2
<1>1. n \in Nat /\ b[1] \in 0 .. n /\ b[2] \in -1 .. n - 1
  BY LenProperties DEF Bounds
<1>2. mid \in Int /\ b[1] <= mid /\ mid <= b[2]
  BY <1>1
<1> HIDE DEF mid, n
<1>3. mid \in 0 .. n - 1 /\ mid - 1 \in -1 .. n - 1 /\ mid + 1 \in 0 .. n
  BY <1>1, <1>2
<1>4. QED
  BY <1>1, <1>2, <1>3 DEF Bounds, n, mid

\* The loop of the binary search has a solution, and BinarySearch is its value.
LEMMA SearchLoop ==
  ASSUME NEW keys \in Seq(Int), NEW value \in Int
  PROVE  \E f : /\ f = [b \in Bounds(Len(keys)) |-> Turn(keys, value, f, b)]
                /\ BinarySearch(keys, value) = f[<<0, Len(keys) - 1>>]
<1> DEFINE n == Len(keys)
           B == Bounds(n)
           Gap1(b) == b[2] - b[1] + 1
           Upto(m) == \E f : /\ DOMAIN f = B
                             /\ \A b \in B : Gap1(b) <= m => f[b] = Turn(keys, value, f, b)
           T == {m \in Nat : Upto(m)}
           Eq(f) == f = [b \in B |-> Turn(keys, value, f, b)]
           F == CHOOSE f : Eq(f)
<1>1. n \in Nat /\ \A b \in B : b[1] \in 0 .. n /\ b[2] \in -1 .. n - 1 /\ Gap1(b) <= n
  BY LenProperties DEF Bounds
<1>2. ASSUME NEW f, NEW m \in Nat, DOMAIN f = B,
             \A b \in B : Gap1(b) <= m => f[b] = Turn(keys, value, f, b)
      PROVE  LET g == [b \in B |-> Turn(keys, value, f, b)]
             IN  \A b \in B : Gap1(b) <= m + 1 => g[b] = Turn(keys, value, g, b)
  <2> DEFINE g == [b \in B |-> Turn(keys, value, f, b)]
  <2> SUFFICES ASSUME NEW b \in B, Gap1(b) <= m + 1
               PROVE  g[b] = Turn(keys, value, g, b)
    OBVIOUS
  <2> DEFINE mid == (b[1] + b[2]) \div 2
  <2>1. g[b] = Turn(keys, value, f, b)
    OBVIOUS
  <2>2. \A x \in B : Gap1(x) <= m => g[x] = f[x]
    BY <1>2
  <2>3. CASE b[1] > b[2]
    BY <2>1, <2>3 DEF Turn
  <2>4. CASE b[1] <= b[2]
    <3>1. /\ <<b[1], mid - 1>> \in B /\ <<mid + 1, b[2]>> \in B /\ mid \in b[1] .. b[2]
      BY <2>4, TurnBounds
    <3>2. Gap1(<<b[1], mid - 1>>) <= m /\ Gap1(<<mid + 1, b[2]>>) <= m
      <4>1. b[1] \in Int /\ b[2] \in Int /\ b[2] - b[1] + 1 <= m + 1
        BY <1>1
      <4>2. mid \in Int /\ b[1] <= mid /\ mid <= b[2]
        BY <3>1, <4>1
      <4> HIDE DEF mid
      <4>3. (mid - 1) - b[1] + 1 <= m /\ b[2] - (mid + 1) + 1 <= m
        BY <4>1, <4>2
      <4>4. QED
        BY <4>3
    <3>3. g[<<b[1], mid - 1>>] = f[<<b[1], mid - 1>>] /\ g[<<mid + 1, b[2]>>] = f[<<mid + 1, b[2]>>]
      BY <2>2, <3>1, <3>2
    <3> HIDE DEF g, B
    <3>4. QED
      BY <2>1, <3>3 DEF Turn
  <2>5. QED
    BY <1>1, <2>3, <2>4
<1>3. 0 \in T
  <2> DEFINE z == [b \in B |-> [found |-> FALSE, at |-> b[1]]]
  <2>1. ASSUME NEW b \in B, Gap1(b) <= 0
        PROVE  z[b] = Turn(keys, value, z, b)
    BY <1>1, <2>1 DEF Turn
  <2>2. DOMAIN z = B
    OBVIOUS
  <2> HIDE DEF z
  <2>3. QED
    BY <2>1, <2>2
<1>4. ASSUME NEW m \in Nat, m \in T
      PROVE  m + 1 \in T
  <2>1. PICK f : /\ DOMAIN f = B
                 /\ \A b \in B : Gap1(b) <= m => f[b] = Turn(keys, value, f, b)
    BY <1>4
  <2> DEFINE g == [b \in B |-> Turn(keys, value, f, b)]
  <2>2. \A b \in B : Gap1(b) <= m + 1 => g[b] = Turn(keys, value, g, b)
    BY <1>2, <2>1
  <2>3. DOMAIN g = B
    OBVIOUS
  <2> HIDE DEF g
  <2>4. QED
    BY <2>2, <2>3
<1>5. Nat \subseteq T
  <2> HIDE DEF T
  <2>1. QED
    BY <1>3, <1>4, SetInduction
<1>6. PICK f : /\ DOMAIN f = B
               /\ \A b \in B : Gap1(b) <= n => f[b] = Turn(keys, value, f, b)
  BY <1>1, <1>5
<1>7. \E g : Eq(g)
  <2> DEFINE g == [b \in B |-> Turn(keys, value, f, b)]
  <2>1. \A b \in B : f[b] = Turn(keys, value, f, b)
    BY <1>1, <1>6
  <2>2. \A b \in B : g[b] = f[b]
    BY <2>1
  <2>3. \A b \in B : Turn(keys, value, g, b) = Turn(keys, value, f, b)
    <3>1. SUFFICES ASSUME NEW b \in B
                   PROVE  Turn(keys, value, g, b) = Turn(keys, value, f, b)
      OBVIOUS
    <3>2. CASE b[1] > b[2]
      BY <3>2 DEF Turn
    <3>3. CASE b[1] <= b[2]
      <4> DEFINE mid == (b[1] + b[2]) \div 2
      <4>1. /\ <<b[1], mid - 1>> \in B /\ <<mid + 1, b[2]>> \in B
        BY <3>3, TurnBounds
      <4>2. g[<<b[1], mid - 1>>] = f[<<b[1], mid - 1>>] /\ g[<<mid + 1, b[2]>>] = f[<<mid + 1, b[2]>>]
        BY <2>2, <4>1
      <4> HIDE DEF g, B
      <4>3. QED
        BY <4>2 DEF Turn
    <3>4. QED
      BY <1>1, <3>2, <3>3
  <2>4. g = [b \in B |-> Turn(keys, value, g, b)]
    <3>1. \A b \in B : g[b] = Turn(keys, value, g, b)
      BY <2>3
    <3>2. g = [b \in B |-> g[b]]
      OBVIOUS
    <3> HIDE DEF g, B
    <3>3. QED
      BY <3>1, <3>2
  <2> HIDE DEF g
  <2>5. QED
    BY <2>4
<1>8. Eq(F)
  <2> HIDE DEF Eq
  <2>1. QED
    BY <1>7
<1>9. BinarySearch(keys, value) = F[<<0, n - 1>>]
  BY DEF BinarySearch, Turn, Bounds
<1>10. QED
  <2> HIDE DEF F
  <2>1. QED
    BY <1>8, <1>9

\* The search finds an equal key, or how many keys are smaller (am.c:93).
LEMMA BinarySearchIs ==
  ASSUME NEW keys \in Seq(Int), Ordered(keys), NEW value \in Int
  PROVE  LET s == BinarySearch(keys, value)
         IN  \/ /\ s.found = TRUE /\ s.at \in 0 .. Len(keys) - 1
                /\ keys[s.at + 1] = value
             \/ /\ s.found = FALSE /\ s.at \in 0 .. Len(keys)
                /\ \A i \in 1 .. s.at : keys[i] < value
                /\ \A i \in s.at + 1 .. Len(keys) : keys[i] > value
<1> DEFINE n == Len(keys)
           B == Bounds(n)
           Right(s) == \/ /\ s.found = TRUE /\ s.at \in 0 .. n - 1
                          /\ keys[s.at + 1] = value
                       \/ /\ s.found = FALSE /\ s.at \in 0 .. n
                          /\ \A i \in 1 .. s.at : keys[i] < value
                          /\ \A i \in s.at + 1 .. n : keys[i] > value
           Between(b) == /\ b[1] <= b[2] + 1
                         /\ \A i \in 1 .. b[1] : keys[i] < value
                         /\ \A i \in b[2] + 2 .. n : keys[i] > value
<1>1. PICK f : /\ f = [b \in B |-> Turn(keys, value, f, b)]
               /\ BinarySearch(keys, value) = f[<<0, n - 1>>]
  BY SearchLoop
<1>2. n \in Nat /\ \A i \in 1 .. n : keys[i] \in Int
  BY LenProperties, ElementOfSeq
<1>3. \A b \in B : b[1] \in 0 .. n /\ b[2] \in -1 .. n - 1
  BY DEF Bounds
<1>4. \A b \in B : f[b] = Turn(keys, value, f, b)
  <2> HIDE DEF B
  <2>1. QED
    BY <1>1
<1> DEFINE T == {m \in Nat : \A b \in B : b[2] - b[1] + 1 <= m /\ Between(b) => Right(f[b])}
<1>5. ASSUME NEW b \in B, Between(b), b[1] > b[2]
      PROVE  Right(f[b])
  <2>1. f[b] = [found |-> FALSE, at |-> b[1]]
    BY <1>4, <1>5 DEF Turn
  <2>2. b[1] = b[2] + 1
    BY <1>3, <1>5
  <2>3. QED
    BY <1>3, <1>5, <2>1, <2>2
<1>6. 0 \in T
  <2>1. ASSUME NEW b \in B, b[2] - b[1] + 1 <= 0, Between(b)
        PROVE  Right(f[b])
    <3>1. b[1] > b[2]
      BY <1>3, <2>1
    <3> HIDE DEF Right, Between, B
    <3>2. QED
      BY <1>5, <2>1, <3>1
  <2>2. QED
    BY <2>1
<1>7. ASSUME NEW m \in Nat, m \in T
      PROVE  m + 1 \in T
  <2> SUFFICES ASSUME NEW b \in B, b[2] - b[1] + 1 <= m + 1, Between(b)
               PROVE  Right(f[b])
    <3> HIDE DEF Right, Between, B
    <3>1. QED
      OBVIOUS
  <2>1. \A x \in B : x[2] - x[1] + 1 <= m /\ Between(x) => Right(f[x])
    BY <1>7
  <2>2. CASE b[1] > b[2]
    <3> HIDE DEF Right, Between, B
    <3>1. QED
      BY <1>5, <2>2
  <2>3. CASE b[1] <= b[2]
    <3> DEFINE mid == (b[1] + b[2]) \div 2
               c == AM_Compare(keys[mid + 1], value)
    <3>1. /\ mid \in b[1] .. b[2] /\ mid \in 0 .. n - 1
          /\ <<b[1], mid - 1>> \in B /\ <<mid + 1, b[2]>> \in B
      BY <2>3, TurnBounds
    <3>2. f[b] = IF c = 0 THEN [found |-> TRUE, at |-> mid]
                 ELSE IF c < 0 THEN f[<<b[1], mid - 1>>] ELSE f[<<mid + 1, b[2]>>]
      <4>1. ~ (b[1] > b[2])
        BY <1>3, <2>3
      <4>2. QED
        BY <1>4, <4>1 DEF Turn
    <3>0. b[1] \in Int /\ b[2] \in Int /\ mid \in Int /\ b[1] <= mid /\ mid <= b[2]
      BY <1>3, <3>1
    <3> HIDE DEF mid
    <3>a. /\ b[2] - b[1] + 1 <= m + 1
          /\ \A x \in B : x[2] - x[1] + 1 <= m /\ Between(x) => Right(f[x])
      BY <2>1
    <3>3. mid + 1 \in 1 .. n /\ keys[mid + 1] \in Int
      BY <1>2, <3>1
    <3>4. CASE keys[mid + 1] = value
      <4>1. c = 0
        BY <3>3, <3>4 DEF AM_Compare
      <4>2. f[b] = [found |-> TRUE, at |-> mid]
        BY <3>2, <4>1
      <4>3. QED
        BY <3>1, <3>4, <4>2
    <3>5. CASE keys[mid + 1] > value
      <4>1. c = -1
        BY <3>3, <3>5 DEF AM_Compare
      <4>2. f[b] = f[<<b[1], mid - 1>>]
        BY <3>2, <4>1
      <4>3. \A i \in mid + 1 .. n : keys[i] > value
        <5>1. ASSUME NEW i \in mid + 1 .. n
              PROVE  keys[i] > value
          <6>1. i \in 1 .. n /\ (i = mid + 1 \/ mid + 1 < i)
            BY <3>1
          <6>2. i = mid + 1 \/ keys[mid + 1] < keys[i]
            BY <3>3, <6>1 DEF Ordered
          <6>3. QED
            BY <1>2, <3>3, <3>5, <6>1, <6>2
        <5>2. QED
          BY <5>1
      <4>4. Between(<<b[1], mid - 1>>)
        <5>1. (mid - 1) + 2 = mid + 1 /\ b[1] <= (mid - 1) + 1
          BY <3>0
        <5>2. QED
          BY <4>3, <5>1
      <4>5. (mid - 1) - b[1] + 1 <= m
        BY <3>0, <3>a
      <4> DEFINE x == <<b[1], mid - 1>>
      <4>6. x \in B /\ x[2] - x[1] + 1 <= m /\ Between(x) /\ f[b] = f[x]
        BY <3>1, <4>2, <4>4, <4>5
      <4> HIDE DEF Right, Between, B, x
      <4>7. QED
        BY <3>a, <4>6
    <3>6. CASE keys[mid + 1] < value
      <4>1. c = 1
        BY <3>3, <3>6 DEF AM_Compare
      <4>2. f[b] = f[<<mid + 1, b[2]>>]
        BY <3>2, <4>1
      <4>3. \A i \in 1 .. mid + 1 : keys[i] < value
        <5>1. ASSUME NEW i \in 1 .. mid + 1
              PROVE  keys[i] < value
          <6>1. i \in 1 .. n /\ (i = mid + 1 \/ i < mid + 1)
            BY <1>2, <3>1
          <6>2. i = mid + 1 \/ keys[i] < keys[mid + 1]
            BY <3>3, <6>1 DEF Ordered
          <6>3. QED
            BY <1>2, <3>3, <3>6, <6>1, <6>2
        <5>2. QED
          BY <5>1
      <4>4. Between(<<mid + 1, b[2]>>)
        <5>1. mid + 1 <= b[2] + 1
          BY <1>3, <3>1
        <5>2. QED
          BY <4>3, <5>1
      <4>5. b[2] - (mid + 1) + 1 <= m
        BY <3>0, <3>a
      <4> DEFINE x == <<mid + 1, b[2]>>
      <4>6. x \in B /\ x[2] - x[1] + 1 <= m /\ Between(x) /\ f[b] = f[x]
        BY <3>1, <4>2, <4>4, <4>5
      <4> HIDE DEF Right, Between, B, x
      <4>7. QED
        BY <3>a, <4>6
    <3>7. keys[mid + 1] = value \/ keys[mid + 1] > value \/ keys[mid + 1] < value
      BY <3>3
    <3> HIDE DEF Right, Between, B
    <3>8. QED
      BY <3>4, <3>5, <3>6, <3>7
  <2>4. b[1] > b[2] \/ b[1] <= b[2]
    BY <1>3
  <2> HIDE DEF Right, Between, B
  <2>5. QED
    BY <2>2, <2>3, <2>4
<1>8. Nat \subseteq T
  <2> HIDE DEF T
  <2>1. QED
    BY <1>6, <1>7, SetInduction
<1>9. Right(f[<<0, n - 1>>])
  <2>1. <<0, n - 1>> \in B /\ Between(<<0, n - 1>>)
    BY <1>2 DEF Bounds
  <2>2. n \in T
    BY <1>2, <1>8
  <2> DEFINE x == <<0, n - 1>>
  <2>3. x[2] - x[1] + 1 <= n
    BY <1>2
  <2>4. \A b \in B : b[2] - b[1] + 1 <= n /\ Between(b) => Right(f[b])
    BY <2>2
  <2> HIDE DEF Right, Between, B, x
  <2>5. QED
    BY <2>1, <2>3, <2>4 DEF x
<1>10. QED
  BY <1>1, <1>9

-----------------------------------------------------------------------------
(* The lists of a leaf. *)

Suffix(Q, j) == [h \in 1 .. Len(Q) + 1 - j |-> Q[j + h - 1]]
With(b, Q) == <<b>> \o Q
Without(Q, j) == [i \in 1 .. Len(Q) - 1 |-> IF i < j THEN Q[i] ELSE Q[i + 1]]
Into(s, k, x) == [i \in 1 .. Len(s) + 1 |-> IF i < k THEN s[i] ELSE IF i = k THEN x ELSE s[i - 1]]

\* A sequence with b in front.
LEMMA WithIs ==
  ASSUME NEW S, NEW Q \in Seq(S), NEW b \in S
  PROVE  /\ With(b, Q) \in Seq(S) /\ Len(With(b, Q)) = Len(Q) + 1 /\ With(b, Q) # <<>>
         /\ With(b, Q) = [i \in 1 .. Len(Q) + 1 |-> IF i = 1 THEN b ELSE Q[i - 1]]
<1> DEFINE m == With(b, Q)
<1>1. Len(Q) \in Nat /\ DOMAIN Q = 1 .. Len(Q)
  BY LenProperties
<1>2. <<b>> \in Seq(S) /\ Len(<<b>>) = 1 /\ <<b>>[1] = b
  OBVIOUS
<1>3. /\ m \in Seq(S) /\ Len(m) = Len(<<b>>) + Len(Q)
      /\ \A i \in 1 .. Len(<<b>>) + Len(Q) :
           m[i] = IF i <= Len(<<b>>) THEN <<b>>[i] ELSE Q[i - Len(<<b>>)]
  BY <1>2, ConcatProperties DEF With
<1> HIDE DEF m
<1>4. ASSUME NEW i \in 1 .. Len(Q) + 1
      PROVE  m[i] = IF i = 1 THEN b ELSE Q[i - 1]
  <2>1. i \in 1 .. 1 + Len(Q) /\ (i <= 1 <=> i = 1)
    BY <1>1
  <2>2. m[i] = IF i <= 1 THEN <<b>>[i] ELSE Q[i - 1]
    BY <1>2, <1>3, <2>1
  <2>3. QED
    BY <1>2, <2>1, <2>2
<1>5. Len(m) = Len(Q) + 1
  BY <1>1, <1>2, <1>3
<1>6. DOMAIN m = 1 .. Len(Q) + 1 /\ m = [i \in DOMAIN m |-> m[i]]
  BY <1>3, <1>5, LenProperties
<1>7. m = [i \in 1 .. Len(Q) + 1 |-> IF i = 1 THEN b ELSE Q[i - 1]]
  BY <1>4, <1>6
<1>8. m # <<>>
  BY <1>1, <1>5, EmptySeq
<1>9. QED
  BY <1>3, <1>5, <1>7, <1>8 DEF m

\* A new element in front keeps the elements different.
LEMMA WithSet ==
  ASSUME NEW S, NEW Q \in Seq(S), IsInjective(Q), NEW b \in S, b \notin Range(Q)
  PROVE  IsInjective(With(b, Q)) /\ Range(With(b, Q)) = Range(Q) \cup {b}
<1> DEFINE m == With(b, Q)
<1>0. m = [i \in 1 .. Len(Q) + 1 |-> IF i = 1 THEN b ELSE Q[i - 1]]
  BY WithIs
<1> HIDE DEF m
<1>1. /\ Len(Q) \in Nat /\ DOMAIN Q = 1 .. Len(Q)
      /\ DOMAIN m = 1 .. Len(Q) + 1
      /\ \A i \in 1 .. Len(Q) + 1 : m[i] = IF i = 1 THEN b ELSE Q[i - 1]
  BY <1>0, LenProperties
<1> HIDE DEF m
<1>2. \A i \in 1 .. Len(Q) + 1 : i = 1 \/ (i - 1 \in 1 .. Len(Q))
  BY <1>1
<1>3. \A i \in 1 .. Len(Q) : i + 1 \in 1 .. Len(Q) + 1 /\ m[i + 1] = Q[i]
  BY <1>1
<1>4. IsInjective(m)
  <2>1. ASSUME NEW i \in 1 .. Len(Q) + 1, NEW j \in 1 .. Len(Q) + 1, m[i] = m[j]
        PROVE  i = j
    <3>1. CASE i = 1
      BY <1>1, <1>2, <2>1, <3>1 DEF Range
    <3>2. CASE j = 1
      BY <1>1, <1>2, <2>1, <3>2 DEF Range
    <3>3. CASE i # 1 /\ j # 1
      <4>1. Q[i - 1] = Q[j - 1] /\ i - 1 \in 1 .. Len(Q) /\ j - 1 \in 1 .. Len(Q)
        BY <1>1, <1>2, <2>1, <3>3
      <4>2. i - 1 = j - 1
        BY <1>1, <4>1 DEF IsInjective
      <4>3. QED
        BY <4>2
    <3>4. QED
      BY <3>1, <3>2, <3>3
  <2>2. QED
    BY <1>1, <2>1 DEF IsInjective
<1>5. Range(m) = Range(Q) \cup {b}
  <2>1. \A i \in DOMAIN m : m[i] \in Range(Q) \cup {b}
    BY <1>1, <1>2 DEF Range
  <2>2. b \in Range(m)
    BY <1>1 DEF Range
  <2>3. Range(Q) \subseteq Range(m)
    BY <1>1, <1>3 DEF Range
  <2>4. QED
    BY <2>1, <2>2, <2>3 DEF Range
<1>6. QED
  BY <1>4, <1>5 DEF m

\* A sequence without its j-th element.
LEMMA WithoutIs ==
  ASSUME NEW S, NEW Q \in Seq(S), NEW j \in 1 .. Len(Q)
  PROVE  /\ Without(Q, j) \in Seq(S) /\ Len(Without(Q, j)) = Len(Q) - 1
         /\ \A i \in 1 .. Len(Q) - 1 : Without(Q, j)[i] = IF i < j THEN Q[i] ELSE Q[i + 1]
         /\ Without(Q, j) = <<>> <=> Len(Q) = 1
         /\ IsInjective(Q) =>
              IsInjective(Without(Q, j)) /\ Range(Without(Q, j)) = Range(Q) \ {Q[j]}
<1> DEFINE m == Without(Q, j)
           n == Len(Q) - 1
           up(i) == IF i < j THEN i ELSE i + 1
           down(i) == IF i < j THEN i ELSE i - 1
<1>1. Len(Q) \in Nat /\ DOMAIN Q = 1 .. Len(Q) /\ \A i \in 1 .. Len(Q) : Q[i] \in S
  BY LenProperties, ElementOfSeq
<1>2. n \in Nat
  BY <1>1
<1>3. \A i \in 1 .. n : up(i) \in 1 .. Len(Q) /\ up(i) # j /\ down(up(i)) = i
  BY <1>1
<1>4. \A i \in 1 .. Len(Q) : i # j => down(i) \in 1 .. n /\ up(down(i)) = i
  BY <1>1
<1>5. m = [i \in 1 .. n |-> Q[up(i)]]
  <2>1. \A i \in 1 .. n : (IF i < j THEN Q[i] ELSE Q[i + 1]) = Q[up(i)]
    OBVIOUS
  <2>2. QED
    BY <2>1 DEF Without
<1> HIDE DEF m, n, up, down
<1>6. m \in Seq(S) /\ Len(m) = n /\ DOMAIN m = 1 .. n
  <2>1. m \in [1 .. n -> S]
    BY <1>1, <1>3, <1>5
  <2>2. m \in Seq(S)
    BY <1>2, <2>1
  <2>3. QED
    BY <1>2, <1>5, <2>2, LenProperties
<1>7. m = <<>> <=> Len(Q) = 1
  BY <1>1, <1>6, EmptySeq DEF n
<1>8. ASSUME IsInjective(Q) PROVE IsInjective(m) /\ Range(m) = Range(Q) \ {Q[j]}
  <2>1. IsInjective(m)
    BY <1>1, <1>3, <1>5, <1>6, <1>8 DEF IsInjective
  <2>2. \A i \in DOMAIN m : m[i] \in Range(Q) \ {Q[j]}
    BY <1>1, <1>3, <1>5, <1>6, <1>8 DEF Range, IsInjective
  <2>3. ASSUME NEW x \in Range(Q) \ {Q[j]}
        PROVE  x \in Range(m)
    <3>1. PICK i \in 1 .. Len(Q) : x = Q[i] /\ i # j
      BY <1>1 DEF Range
    <3>2. QED
      BY <1>4, <1>5, <1>6, <3>1 DEF Range
  <2>4. QED
    BY <2>1, <2>2, <2>3 DEF Range
<1>9. QED
  BY <1>5, <1>6, <1>7, <1>8 DEF m, n, up

\* A sequence from its place j on.
LEMMA SuffixIs ==
  ASSUME NEW S, NEW Q \in Seq(S)
  PROVE  /\ Suffix(Q, 1) = Q /\ Suffix(Q, Len(Q) + 1) = <<>>
         /\ \A j \in 1 .. Len(Q) + 1 : Suffix(Q, j) \in Seq(S)
         /\ \A j \in 1 .. Len(Q) : Suffix(Q, j) = <<Q[j]>> \o Suffix(Q, j + 1)
<1> DEFINE n == Len(Q)
<1>1. n \in Nat /\ DOMAIN Q = 1 .. n /\ Q = [i \in 1 .. n |-> Q[i]] /\ \A i \in 1 .. n : Q[i] \in S
  BY LenProperties, ElementOfSeq
<1> HIDE DEF n
<1>2. ASSUME NEW j \in 1 .. n + 1
      PROVE  /\ Suffix(Q, j) \in Seq(S) /\ Len(Suffix(Q, j)) = n + 1 - j
             /\ \A h \in 1 .. n + 1 - j : Suffix(Q, j)[h] = Q[j + h - 1]
             /\ Suffix(Q, j) = [h \in 1 .. n + 1 - j |-> Q[j + h - 1]]
  <2> DEFINE k == n + 1 - j
  <2>1. k \in Nat /\ \A h \in 1 .. k : j + h - 1 \in 1 .. n
    BY <1>1
  <2>2. Suffix(Q, j) = [h \in 1 .. k |-> Q[j + h - 1]]
    BY DEF Suffix, n
  <2> HIDE DEF k
  <2>3. Suffix(Q, j) \in [1 .. k -> S]
    BY <1>1, <2>1, <2>2
  <2>4. Suffix(Q, j) \in Seq(S) /\ Len(Suffix(Q, j)) = k
    BY <2>1, <2>3, LenProperties
  <2>5. QED
    BY <2>2, <2>4 DEF k
<1>3. Suffix(Q, 1) = Q
  <2>1. \A h \in 1 .. n : 1 + h - 1 = h
    OBVIOUS
  <2>2. n + 1 - 1 = n /\ 1 \in 1 .. n + 1
    BY <1>1
  <2>3. QED
    BY <1>1, <1>2, <2>1, <2>2
<1>4. Suffix(Q, n + 1) = <<>>
  <2>1. n + 1 \in 1 .. n + 1 /\ n + 1 - (n + 1) = 0
    BY <1>1
  <2>2. QED
    BY <1>2, <2>1, EmptySeq
<1>5. ASSUME NEW j \in 1 .. n
      PROVE  Suffix(Q, j) = <<Q[j]>> \o Suffix(Q, j + 1)
  <2>1. j \in 1 .. n + 1 /\ j + 1 \in 1 .. n + 1 /\ n + 1 - (j + 1) + 1 = n + 1 - j /\ Q[j] \in S
    BY <1>1
  <2>2. <<Q[j]>> \o Suffix(Q, j + 1)
          = [h \in 1 .. n + 1 - j |-> IF h = 1 THEN Q[j] ELSE Suffix(Q, j + 1)[h - 1]]
    BY <1>2, <2>1, WithIs DEF With
  <2>3. ASSUME NEW h \in 1 .. n + 1 - j
        PROVE  Q[j + h - 1] = IF h = 1 THEN Q[j] ELSE Suffix(Q, j + 1)[h - 1]
    <3>1. CASE h = 1
      BY <3>1
    <3>2. CASE h # 1
      <4>1. h - 1 \in 1 .. n + 1 - (j + 1) /\ (j + 1) + (h - 1) - 1 = j + h - 1
        BY <1>1, <3>2
      <4>2. Suffix(Q, j + 1)[h - 1] = Q[(j + 1) + (h - 1) - 1]
        BY <1>2, <2>1, <4>1
      <4>3. QED
        BY <3>2, <4>1, <4>2
    <3>3. QED
      BY <3>1, <3>2
  <2>4. QED
    BY <1>2, <2>1, <2>2, <2>3
<1>6. QED
  BY <1>2, <1>3, <1>4, <1>5 DEF n

\* The k-th of a list, or the end of it.
Nth(Q, k) == IF k \in 1 .. Len(Q) THEN Q[k] ELSE AM_NULL

\* The k-th element, with b in front.
LEMMA NthWith ==
  ASSUME NEW S, NEW Q \in Seq(S), NEW b \in S
  PROVE  /\ Nth(With(b, Q), 1) = b
         /\ \A k \in Nat \ {0} : Nth(With(b, Q), k + 1) = Nth(Q, k)
<1> DEFINE m == With(b, Q)
<1>0. m = [i \in 1 .. Len(Q) + 1 |-> IF i = 1 THEN b ELSE Q[i - 1]] /\ Len(m) = Len(Q) + 1
  BY WithIs
<1> HIDE DEF m
<1>1. Len(Q) \in Nat
  BY LenProperties
<1>2. Nth(m, 1) = b
  BY <1>0, <1>1 DEF Nth
<1>3. ASSUME NEW k \in Nat \ {0}
      PROVE  Nth(m, k + 1) = Nth(Q, k)
  <2>1. k + 1 \in 1 .. Len(m) <=> k \in 1 .. Len(Q)
    BY <1>0, <1>1
  <2>2. k \in 1 .. Len(Q) => m[k + 1] = Q[k]
    BY <1>0, <1>1
  <2>3. QED
    BY <2>1, <2>2 DEF Nth
<1>4. QED
  BY <1>2, <1>3 DEF m

\* The k-th element, without the j-th.
LEMMA NthWithout ==
  ASSUME NEW S, NEW Q \in Seq(S), NEW j \in 1 .. Len(Q), NEW k \in Nat \ {0}
  PROVE  Nth(Without(Q, j), k) = IF k < j THEN Nth(Q, k) ELSE Nth(Q, k + 1)
<1> DEFINE m == Without(Q, j)
<1>0. Len(m) = Len(Q) - 1 /\ \A i \in 1 .. Len(Q) - 1 : m[i] = IF i < j THEN Q[i] ELSE Q[i + 1]
  BY WithoutIs
<1> HIDE DEF m
<1>1. Len(Q) \in Nat
  BY LenProperties
<1>2. CASE k < j
  <2>1. k \in 1 .. Len(m) /\ k \in 1 .. Len(Q)
    BY <1>0, <1>1, <1>2
  <2>2. m[k] = Q[k]
    BY <1>0, <1>2, <2>1
  <2>3. QED
    BY <1>2, <2>1, <2>2 DEF Nth, m
<1>3. CASE ~ (k < j)
  <2>1. k \in 1 .. Len(m) <=> k + 1 \in 1 .. Len(Q)
    BY <1>0, <1>1, <1>3
  <2>2. k \in 1 .. Len(m) => m[k] = Q[k + 1]
    BY <1>0, <1>3
  <2>3. QED
    BY <1>3, <2>1, <2>2 DEF Nth, m
<1>4. QED
  BY <1>2, <1>3

\* The lists Q share out the cells C; H says where each starts and X what is next.
Links(Q, H, X, n, C) ==
  /\ Q \in [0 .. n -> Seq(C)]
  /\ \A i \in 0 .. n : IsInjective(Q[i])
  /\ \A i, j \in 0 .. n : i # j => Range(Q[i]) \cap Range(Q[j]) = {}
  /\ \A o \in C : \E i \in 0 .. n : o \in Range(Q[i])
  /\ \A i \in 0 .. n : H[i] = Nth(Q[i], 1)
  /\ \A i \in 0 .. n : \A k \in 1 .. Len(Q[i]) : X[Q[i][k]] = Nth(Q[i], k + 1)

\* Places and elements of a sequence.
LEMMA InRange ==
  ASSUME NEW S, NEW Q \in Seq(S)
  PROVE  /\ Len(Q) \in Nat /\ DOMAIN Q = 1 .. Len(Q)
         /\ \A k \in 1 .. Len(Q) : Q[k] \in Range(Q) /\ Q[k] \in S
         /\ \A o \in Range(Q) : o \in S /\ \E k \in 1 .. Len(Q) : o = Q[k]
         /\ IsInjective(Q) => \A k, h \in 1 .. Len(Q) : Q[k] = Q[h] => k = h
         /\ Range(Q) = {} <=> Q = <<>>
<1>1. Len(Q) \in Nat /\ DOMAIN Q = 1 .. Len(Q) /\ \A k \in 1 .. Len(Q) : Q[k] \in S
  BY LenProperties, ElementOfSeq
<1>2. Q = <<>> <=> Len(Q) = 0
  BY EmptySeq
<1>3. Q # <<>> => 1 \in DOMAIN Q
  BY <1>1, <1>2
<1>4. Q = <<>> => Range(Q) = {}
  BY <1>1, <1>2 DEF Range
<1>5. QED
  BY <1>1, <1>3, <1>4 DEF Range, IsInjective

Adds(P, Q, b, o) == Range(P[b]) = Range(Q[b]) \cup {o}
Drops(P, Q, a, o) == Range(P[a]) = Range(Q[a]) \ {o}

\* The j-th cell of list a moves to the head of list b: the lists, heads and offsets.
Moves(P, G, Y, Q, H, X, n, C, a, b, j) ==
  /\ P = [i \in 0 .. n |-> IF i = a THEN Without(Q[a], j)
                           ELSE IF i = b THEN With(Q[a][j], Q[b]) ELSE Q[i]]
  /\ G[b] = Q[a][j]
  /\ G[a] = IF j = 1 THEN X[Q[a][j]] ELSE H[a]
  /\ \A i \in 0 .. n : i # a /\ i # b => G[i] = H[i]
  /\ Y[Q[a][j]] = H[b]
  /\ j > 1 => Y[Q[a][j - 1]] = X[Q[a][j]]
  /\ \A o \in C : o # Q[a][j] /\ (j > 1 => o # Q[a][j - 1]) => Y[o] = X[o]

\* A cell moved from a list to the front of another leaves the lists linked.
LEMMA Moved ==
  ASSUME NEW n \in Nat, NEW C, NEW Q, NEW H, NEW X, Links(Q, H, X, n, C),
         NEW a \in 0 .. n, NEW b \in 0 .. n, a # b, NEW j \in 1 .. Len(Q[a]),
         NEW P, NEW G, NEW Y, Moves(P, G, Y, Q, H, X, n, C, a, b, j)
  PROVE  /\ Links(P, G, Y, n, C)
         /\ Drops(P, Q, a, Q[a][j]) /\ Adds(P, Q, b, Q[a][j])
<1> DEFINE o == Q[a][j]
           A == Without(Q[a], j)
           B == With(o, Q[b])
<1>1. /\ Q \in [0 .. n -> Seq(C)]
      /\ \A i \in 0 .. n : IsInjective(Q[i])
      /\ \A i, h \in 0 .. n : i # h => Range(Q[i]) \cap Range(Q[h]) = {}
      /\ \A x \in C : \E i \in 0 .. n : x \in Range(Q[i])
      /\ \A i \in 0 .. n : H[i] = Nth(Q[i], 1)
      /\ \A i \in 0 .. n : \A k \in 1 .. Len(Q[i]) : X[Q[i][k]] = Nth(Q[i], k + 1)
  BY DEF Links
<1>2. Q[a] \in Seq(C) /\ Q[b] \in Seq(C) /\ IsInjective(Q[a]) /\ IsInjective(Q[b])
  BY <1>1
<1>3. /\ Len(Q[a]) \in Nat /\ Len(Q[b]) \in Nat
      /\ \A k \in 1 .. Len(Q[a]) : Q[a][k] \in Range(Q[a]) /\ Q[a][k] \in C
      /\ \A k \in 1 .. Len(Q[b]) : Q[b][k] \in Range(Q[b]) /\ Q[b][k] \in C
      /\ \A k, h \in 1 .. Len(Q[a]) : Q[a][k] = Q[a][h] => k = h
  BY <1>1, <1>2, InRange
<1>4. o \in C /\ o \in Range(Q[a]) /\ o \notin Range(Q[b])
  BY <1>1, <1>3
<1>2a. P = [i \in 0 .. n |-> IF i = a THEN A ELSE IF i = b THEN B ELSE Q[i]]
  BY DEF Moves
<1> HIDE DEF o
<1>5. /\ A \in Seq(C) /\ Len(A) = Len(Q[a]) - 1 /\ IsInjective(A) /\ Range(A) = Range(Q[a]) \ {o}
      /\ \A i \in 1 .. Len(Q[a]) - 1 : A[i] = IF i < j THEN Q[a][i] ELSE Q[a][i + 1]
  <2>1. A \in Seq(C) /\ Len(A) = Len(Q[a]) - 1
    BY <1>2, WithoutIs
  <2>2. \A i \in 1 .. Len(Q[a]) - 1 : A[i] = IF i < j THEN Q[a][i] ELSE Q[a][i + 1]
    BY <1>2, WithoutIs
  <2>3. IsInjective(A)
    BY <1>2, WithoutIs
  <2>4. Range(A) = Range(Q[a]) \ {o}
    BY <1>2, WithoutIs DEF o
  <2>5. QED
    BY <2>1, <2>2, <2>3, <2>4
<1>6. B \in Seq(C) /\ Len(B) = Len(Q[b]) + 1 /\ IsInjective(B) /\ Range(B) = Range(Q[b]) \cup {o}
  <2>1. B \in Seq(C) /\ Len(B) = Len(Q[b]) + 1
    BY <1>2, <1>4, WithIs
  <2>2. IsInjective(B)
    BY <1>2, <1>4, WithSet
  <2>3. Range(B) = Range(Q[b]) \cup {o}
    BY <1>2, <1>4, WithSet
  <2>4. QED
    BY <2>1, <2>2, <2>3
<1>6a. B[1] = o /\ \A k \in 1 .. Len(Q[b]) : B[k + 1] = Q[b][k]
  <2>1. ASSUME NEW s \in Seq(C), NEW x \in C
        PROVE  With(x, s)[1] = x /\ \A k \in 1 .. Len(s) : With(x, s)[k + 1] = s[k]
    <3>1. With(x, s) = [i \in 1 .. Len(s) + 1 |-> IF i = 1 THEN x ELSE s[i - 1]] /\ Len(s) \in Nat
      BY WithIs, LenProperties
    <3>2. QED
      BY <3>1
  <2>2. QED
    BY <1>2, <1>4, <2>1
<1>7. \A k \in Nat \ {0} : Nth(A, k) = IF k < j THEN Nth(Q[a], k) ELSE Nth(Q[a], k + 1)
  BY <1>2, NthWithout
<1>8. Nth(B, 1) = o /\ \A k \in Nat \ {0} : Nth(B, k + 1) = Nth(Q[b], k)
  <2>1. Nth(B, 1) = o
    BY <1>2, <1>4, NthWith
  <2>2. ASSUME NEW s \in Seq(C), NEW x \in C PROVE \A k \in Nat \ {0} : Nth(With(x, s), k + 1) = Nth(s, k)
    BY NthWith
  <2>3. \A k \in Nat \ {0} : Nth(B, k + 1) = Nth(Q[b], k)
    BY <1>2, <1>4, <2>2
  <2>4. QED
    BY <2>1, <2>3
<1> HIDE DEF A, B
<1>8a. j \in Nat /\ 1 <= j /\ j <= Len(Q[a])
  BY <1>3
<1>0. /\ G[b] = Q[a][j]
      /\ G[a] = IF j = 1 THEN X[Q[a][j]] ELSE H[a]
      /\ \A i \in 0 .. n : i # a /\ i # b => G[i] = H[i]
      /\ Y[Q[a][j]] = H[b]
      /\ j > 1 => Y[Q[a][j - 1]] = X[Q[a][j]]
      /\ \A x \in C : x # Q[a][j] /\ (j > 1 => x # Q[a][j - 1]) => Y[x] = X[x]
  BY DEF Moves
<1>9. /\ DOMAIN P = 0 .. n /\ P[a] = A /\ P[b] = B
      /\ \A i \in 0 .. n : i # a /\ i # b => P[i] = Q[i]
  BY <1>2a
<1>10. P \in [0 .. n -> Seq(C)]
  <2>1. ASSUME NEW i \in 0 .. n PROVE P[i] \in Seq(C)
    <3>1. CASE i = a
      BY <1>5, <1>9, <3>1
    <3>2. CASE i = b
      BY <1>6, <1>9, <3>2
    <3>3. CASE i # a /\ i # b
      BY <1>1, <1>9, <3>3
    <3>4. QED
      BY <3>1, <3>2, <3>3
  <2>2. P = [i \in 0 .. n |-> P[i]]
    BY <1>2a
  <2>3. QED
    BY <2>1, <2>2
<1>11. \A i \in 0 .. n : IsInjective(P[i])
  BY <1>1, <1>5, <1>6, <1>9
<1>12. \A i \in 0 .. n : Range(P[i]) = IF i = a THEN Range(Q[a]) \ {o}
                                       ELSE IF i = b THEN Range(Q[b]) \cup {o} ELSE Range(Q[i])
  BY <1>5, <1>6, <1>9
<1>13. \A i \in 0 .. n : i # a => o \notin Range(Q[i])
  BY <1>1, <1>4
<1>14. \A i, h \in 0 .. n : i # h => Range(P[i]) \cap Range(P[h]) = {}
  <2> SUFFICES ASSUME NEW i \in 0 .. n, NEW h \in 0 .. n, i # h, NEW x,
                      x \in Range(P[i]), x \in Range(P[h])
               PROVE  FALSE
    OBVIOUS
  <2>1. x \notin Range(Q[i]) \/ x \notin Range(Q[h])
    BY <1>1
  <2>2. CASE x = o
    <3>1. i # a /\ h # a
      BY <1>12, <2>2
    <3>2. i = b /\ h = b
      BY <1>12, <1>13, <2>2, <3>1
    <3>3. QED
      BY <3>2
  <2>3. CASE x # o
    BY <1>12, <2>1, <2>3
  <2>4. QED
    BY <2>2, <2>3
<1>15. \A x \in C : \E i \in 0 .. n : x \in Range(P[i])
  <2> SUFFICES ASSUME NEW x \in C PROVE \E i \in 0 .. n : x \in Range(P[i])
    OBVIOUS
  <2>1. CASE x = o
    BY <1>12, <2>1
  <2>2. CASE x # o
    BY <1>1, <1>12, <2>2
  <2>3. QED
    BY <2>1, <2>2
<1>16. ASSUME NEW i \in 0 .. n PROVE G[i] = Nth(P[i], 1)
  <2>1. CASE i = b
    BY <1>0, <1>8, <1>9, <2>1 DEF o
  <2>2. CASE i = a /\ j = 1
    <3>1. Nth(A, 1) = Nth(Q[a], 2)
      BY <1>7, <2>2
    <3>2. X[Q[a][1]] = Nth(Q[a], 2)
      <4>1. 1 \in 1 .. Len(Q[a]) /\ 1 + 1 = 2
        BY <1>8a, <2>2
      <4>2. X[Q[a][1]] = Nth(Q[a], 1 + 1)
        BY <1>1, <4>1
      <4>3. QED
        BY <4>1, <4>2
    <3>3. QED
      BY <1>0, <1>9, <2>2, <3>1, <3>2
  <2>3. CASE i = a /\ j # 1
    <3>1. Nth(A, 1) = Nth(Q[a], 1)
      BY <1>7, <1>3, <2>3
    <3>2. QED
      BY <1>0, <1>1, <1>9, <2>3, <3>1
  <2>4. CASE i # a /\ i # b
    BY <1>0, <1>1, <1>9, <2>4
  <2>5. QED
    BY <2>1, <2>2, <2>3, <2>4
<1>17. ASSUME NEW i \in 0 .. n, NEW k \in 1 .. Len(P[i])
       PROVE  Y[P[i][k]] = Nth(P[i], k + 1)
  <2>1. CASE i = b /\ k = 1
    <3>1. P[i][k] = o
      BY <1>6a, <1>9, <2>1
    <3>2. Nth(B, 2) = Nth(Q[b], 1)
      BY <1>8
    <3>3. QED
      <4>1. Y[o] = H[b] /\ H[b] = Nth(Q[b], 1)
        BY <1>0, <1>1 DEF o
      <4>2. P[i] = B /\ k + 1 = 2
        BY <1>9, <2>1
      <4>3. QED
        BY <3>1, <3>2, <4>1, <4>2
  <2>2. CASE i = b /\ k # 1
    <3> DEFINE h == k - 1
    <3>1. h \in 1 .. Len(Q[b]) /\ h \in Nat \ {0} /\ P[i][k] = Q[b][h] /\ k = h + 1
      BY <1>3, <1>6, <1>6a, <1>9, <2>2
    <3>2. Nth(B, k + 1) = Nth(Q[b], k)
      BY <1>8, <3>1
    <3>3. Q[b][h] \in Range(Q[b]) /\ Q[b][h] \in C
      BY <1>3, <3>1
    <3>4. Q[b][h] \notin Range(Q[a])
      BY <1>1, <3>3
    <3>5. Y[Q[b][h]] = X[Q[b][h]]
      <4>1. Q[b][h] # Q[a][j]
        BY <1>3, <3>4
      <4>2. j > 1 => Q[b][h] # Q[a][j - 1]
        BY <1>3, <3>4
      <4>3. QED
        BY <1>0, <3>3, <4>1, <4>2
    <3>6. X[Q[b][h]] = Nth(Q[b], h + 1)
      BY <1>1, <3>1
    <3>7. QED
      BY <1>9, <2>2, <3>1, <3>2, <3>5, <3>6
  <2>3. CASE i = a
    <3>1. k \in 1 .. Len(Q[a]) - 1 /\ P[i][k] = (IF k < j THEN Q[a][k] ELSE Q[a][k + 1])
      BY <1>5, <1>9, <2>3
    <3>2. Nth(P[i], k + 1) = IF k + 1 < j THEN Nth(Q[a], k + 1) ELSE Nth(Q[a], k + 2)
      <4>1. k + 1 \in Nat \ {0} /\ (k + 1) + 1 = k + 2
        BY <1>3, <3>1
      <4>2. QED
        BY <1>7, <1>9, <2>3, <4>1
    <3>3. CASE k + 1 < j
      <4>1. k \in 1 .. Len(Q[a]) /\ k < j /\ k # j /\ k # j - 1
        BY <1>8a, <1>3, <3>1, <3>3
      <4>2. j - 1 \in 1 .. Len(Q[a]) /\ j > 1
        BY <1>8a, <1>3, <3>1, <3>3
      <4>3. Q[a][k] # Q[a][j] /\ Q[a][k] # Q[a][j - 1] /\ Q[a][k] \in C
        BY <1>3, <4>1, <4>2
      <4>4. Y[Q[a][k]] = X[Q[a][k]] /\ X[Q[a][k]] = Nth(Q[a], k + 1)
        BY <1>0, <1>1, <4>1, <4>2, <4>3
      <4>5. QED
        BY <3>1, <3>2, <3>3, <4>1, <4>4
    <3>a. k \in Nat /\ 1 <= k /\ k <= Len(Q[a]) - 1
      BY <1>3, <3>1
    <3>4. CASE k + 1 = j
      <4>1. k < j /\ k = j - 1 /\ j > 1 /\ k + 2 = j + 1
        BY <3>a, <3>4
      <4>2. X[Q[a][j]] = Nth(Q[a], j + 1)
        BY <1>1
      <4>3. QED
        BY <1>0, <3>1, <3>2, <3>4, <4>1, <4>2
    <3>5. CASE j <= k
      <4>1. k + 1 \in 1 .. Len(Q[a]) /\ k + 1 # j /\ (j > 1 => k + 1 # j - 1 /\ j - 1 \in 1 .. Len(Q[a])) /\ ~ (k < j)
        BY <1>8a, <1>3, <3>1, <3>5
      <4>2. Q[a][k + 1] # Q[a][j] /\ (j > 1 => Q[a][k + 1] # Q[a][j - 1]) /\ Q[a][k + 1] \in C
        BY <1>3, <4>1
      <4>3. Y[Q[a][k + 1]] = X[Q[a][k + 1]]
        BY <1>0, <4>2
      <4>4. X[Q[a][k + 1]] = Nth(Q[a], (k + 1) + 1)
        BY <1>1, <4>1
      <4>5. (k + 1) + 1 = k + 2 /\ ~ (k + 1 < j)
        BY <1>8a, <3>a, <3>5
      <4>6. QED
        BY <3>1, <3>2, <4>1, <4>3, <4>4, <4>5
    <3>6. k + 1 < j \/ k + 1 = j \/ j <= k
      BY <1>3, <3>1
    <3>7. QED
      BY <3>3, <3>4, <3>5, <3>6
  <2>4. CASE i # a /\ i # b
    <3>1. P[i] = Q[i] /\ Q[i] \in Seq(C)
      BY <1>0, <1>1, <1>9, <2>4
    <3>2. Q[i][k] \in Range(Q[i]) /\ Q[i][k] \in C
      BY <3>1, InRange
    <3>3. Q[i][k] \notin Range(Q[a])
      BY <1>1, <2>4, <3>2
    <3>4. Q[i][k] # Q[a][j] /\ (j > 1 => Q[i][k] # Q[a][j - 1])
      BY <1>3, <3>3
    <3>5. Y[Q[i][k]] = X[Q[i][k]]
      BY <1>0, <3>2, <3>4
    <3>6. k \in 1 .. Len(Q[i]) /\ X[Q[i][k]] = Nth(Q[i], k + 1)
      BY <1>1, <3>1
    <3>7. QED
      BY <3>1, <3>5, <3>6
  <2>5. QED
    BY <2>1, <2>2, <2>3, <2>4
<1>18. Links(P, G, Y, n, C)
  BY <1>10, <1>11, <1>14, <1>15, <1>16, <1>17 DEF Links
<1>19. QED
  BY <1>18, <1>12 DEF o, Drops, Adds

\* The elements of a sequence with x in front.
LEMMA WithAt ==
  ASSUME NEW S, NEW s \in Seq(S), NEW x \in S
  PROVE  With(x, s)[1] = x /\ \A k \in 1 .. Len(s) : With(x, s)[k + 1] = s[k]
<1>1. With(x, s) = [i \in 1 .. Len(s) + 1 |-> IF i = 1 THEN x ELSE s[i - 1]] /\ Len(s) \in Nat
  BY WithIs, LenProperties
<1>2. QED
  BY <1>1

\* A new cell o at the head of list b.
Carves(P, G, Y, Q, H, X, n, C, b, o) ==
  /\ P = [i \in 0 .. n |-> IF i = b THEN With(o, Q[b]) ELSE Q[i]]
  /\ G[b] = o /\ \A i \in 0 .. n : i # b => G[i] = H[i]
  /\ Y[o] = H[b] /\ \A x \in C : Y[x] = X[x]

\* A new cell at the front of a list leaves the lists linked.
LEMMA Carved ==
  ASSUME NEW n \in Nat, NEW C, NEW Q, NEW H, NEW X, Links(Q, H, X, n, C),
         NEW b \in 0 .. n, NEW o, o \notin C,
         NEW P, NEW G, NEW Y, Carves(P, G, Y, Q, H, X, n, C, b, o)
  PROVE  Links(P, G, Y, n, C \cup {o}) /\ Adds(P, Q, b, o)
<1> DEFINE D == C \cup {o}
           B == With(o, Q[b])
<1>1. /\ Q \in [0 .. n -> Seq(C)]
      /\ \A i \in 0 .. n : IsInjective(Q[i])
      /\ \A i, h \in 0 .. n : i # h => Range(Q[i]) \cap Range(Q[h]) = {}
      /\ \A x \in C : \E i \in 0 .. n : x \in Range(Q[i])
      /\ \A i \in 0 .. n : H[i] = Nth(Q[i], 1)
      /\ \A i \in 0 .. n : \A k \in 1 .. Len(Q[i]) : X[Q[i][k]] = Nth(Q[i], k + 1)
  BY DEF Links
<1>2. ASSUME NEW i \in 0 .. n
      PROVE  /\ Q[i] \in Seq(D) /\ Len(Q[i]) \in Nat /\ o \notin Range(Q[i])
             /\ \A k \in 1 .. Len(Q[i]) : Q[i][k] \in C
  <2>1. Q[i] \in Seq(C)
    BY <1>1
  <2>2. Len(Q[i]) \in Nat /\ \A k \in 1 .. Len(Q[i]) : Q[i][k] \in C
    BY <2>1, InRange
  <2>3. \A x \in Range(Q[i]) : x \in C
    BY <2>1, InRange
  <2>4. Q[i] \in Seq(D)
    BY <2>1, SeqMonotonic DEF D
  <2>5. QED
    BY <2>2, <2>3, <2>4
<1>3. o \in D /\ Q[b] \in Seq(D) /\ IsInjective(Q[b]) /\ o \notin Range(Q[b])
  BY <1>1, <1>2
<1> HIDE DEF D
<1>4. B \in Seq(D) /\ Len(B) = Len(Q[b]) + 1
  BY <1>3, WithIs
<1>5. IsInjective(B)
  BY <1>3, WithSet
<1>6. Range(B) = Range(Q[b]) \cup {o}
  BY <1>3, WithSet
<1>7. B[1] = o /\ \A k \in 1 .. Len(Q[b]) : B[k + 1] = Q[b][k]
  BY <1>3, WithAt
<1>8. Nth(B, 1) = o
  BY <1>3, NthWith
<1>9. \A k \in Nat \ {0} : Nth(B, k + 1) = Nth(Q[b], k)
  BY <1>3, NthWith
<1>10. DOMAIN P = 0 .. n /\ P[b] = B /\ \A i \in 0 .. n : i # b => P[i] = Q[i]
  BY DEF Carves
<1> HIDE DEF B
<1>11. P = [i \in 0 .. n |-> P[i]]
  BY DEF Carves
<1>0. /\ G[b] = o /\ \A i \in 0 .. n : i # b => G[i] = H[i]
      /\ Y[o] = H[b] /\ \A x \in C : Y[x] = X[x]
  BY DEF Carves
<1>12. P \in [0 .. n -> Seq(D)]
  <2>1. ASSUME NEW i \in 0 .. n PROVE P[i] \in Seq(D)
    BY <1>2, <1>4, <1>10
  <2>2. QED
    BY <1>11, <2>1
<1>13. \A i \in 0 .. n : IsInjective(P[i])
  BY <1>1, <1>5, <1>10
<1>14. \A i \in 0 .. n : Range(P[i]) = IF i = b THEN Range(Q[b]) \cup {o} ELSE Range(Q[i])
  BY <1>6, <1>10
<1>15. \A i, h \in 0 .. n : i # h => Range(P[i]) \cap Range(P[h]) = {}
  <2> SUFFICES ASSUME NEW i \in 0 .. n, NEW h \in 0 .. n, i # h, NEW x,
                      x \in Range(P[i]), x \in Range(P[h])
               PROVE  FALSE
    OBVIOUS
  <2>1. x \notin Range(Q[i]) \/ x \notin Range(Q[h])
    BY <1>1
  <2>2. x # o \/ (i # b /\ h # b) \/ i # b \/ h # b
    OBVIOUS
  <2>3. QED
    BY <1>2, <1>14, <2>1
<1>16. \A x \in D : \E i \in 0 .. n : x \in Range(P[i])
  BY <1>1, <1>14 DEF D
<1>17. ASSUME NEW i \in 0 .. n PROVE G[i] = Nth(P[i], 1)
  BY <1>0, <1>1, <1>8, <1>10
<1>18. ASSUME NEW i \in 0 .. n, NEW k \in 1 .. Len(P[i])
       PROVE  Y[P[i][k]] = Nth(P[i], k + 1)
  <2>1. CASE i = b /\ k = 1
    <3>1. P[i][k] = o
      BY <1>7, <1>10, <2>1
    <3>2. Nth(B, 1 + 1) = Nth(Q[b], 1)
      BY <1>9
    <3>3. QED
      BY <1>0, <1>1, <1>10, <2>1, <3>1, <3>2
  <2>2. CASE i = b /\ k # 1
    <3> DEFINE h == k - 1
    <3>1. h \in 1 .. Len(Q[b]) /\ k \in Nat \ {0} /\ k = h + 1
      BY <1>2, <1>4, <1>10, <2>2
    <3>2. P[i][k] = Q[b][h]
      BY <1>7, <1>10, <2>2, <3>1
    <3>3. Nth(B, k + 1) = Nth(Q[b], k)
      BY <1>9, <3>1
    <3>4. Y[Q[b][h]] = X[Q[b][h]] /\ X[Q[b][h]] = Nth(Q[b], h + 1)
      BY <1>0, <1>1, <1>2, <3>1
    <3>5. QED
      BY <1>10, <2>2, <3>1, <3>2, <3>3, <3>4
  <2>3. CASE i # b
    <3>1. P[i] = Q[i] /\ k \in 1 .. Len(Q[i])
      BY <1>10, <2>3
    <3>2. Q[i][k] \in C
      BY <1>2, <3>1
    <3>3. X[Q[i][k]] = Nth(Q[i], k + 1)
      BY <1>1, <3>1
    <3>4. Y[Q[i][k]] = X[Q[i][k]]
      BY <1>0, <3>2
    <3>5. QED
      BY <3>1, <3>3, <3>4
  <2>4. QED
    BY <2>1, <2>2, <2>3
<1>19. Links(P, G, Y, n, D)
  BY <1>12, <1>13, <1>15, <1>16, <1>17, <1>18 DEF Links
<1>20. QED
  BY <1>19, <1>6, <1>10 DEF D, Adds

\* The same lists in other places, with empty ones between or without them.
Renamed(P, G, Q, H, n, m, D, f) ==
  /\ DOMAIN P = 0 .. m /\ P = [i \in 0 .. m |-> P[i]]
  /\ \A i \in 0 .. m : IF i \in D THEN f[i] \in 0 .. n /\ P[i] = Q[f[i]] /\ G[i] = H[f[i]]
                        ELSE P[i] = <<>> /\ G[i] = AM_NULL
  /\ \A i, h \in 0 .. m : i \in D /\ h \in D /\ f[i] = f[h] => i = h
  /\ \A h \in 0 .. n : Q[h] # <<>> => \E i \in 0 .. m : i \in D /\ f[i] = h

\* Lists renumbered stay linked.
LEMMA Reindexed ==
  ASSUME NEW n \in Nat, NEW C, NEW Q, NEW H, NEW X, Links(Q, H, X, n, C),
         NEW m \in Nat, NEW P, NEW G, NEW D, NEW f, Renamed(P, G, Q, H, n, m, D, f)
  PROVE  Links(P, G, X, m, C)
<1>0. /\ DOMAIN P = 0 .. m /\ P = [i \in 0 .. m |-> P[i]]
      /\ \A i \in 0 .. m : IF i \in D THEN f[i] \in 0 .. n /\ P[i] = Q[f[i]] /\ G[i] = H[f[i]]
                            ELSE P[i] = <<>> /\ G[i] = AM_NULL
      /\ \A i, h \in 0 .. m : i \in D /\ h \in D /\ f[i] = f[h] => i = h
      /\ \A h \in 0 .. n : Q[h] # <<>> => \E i \in 0 .. m : i \in D /\ f[i] = h
  BY DEF Renamed
<1> USE <1>0
<1>1. /\ Q \in [0 .. n -> Seq(C)]
      /\ \A i \in 0 .. n : IsInjective(Q[i])
      /\ \A i, h \in 0 .. n : i # h => Range(Q[i]) \cap Range(Q[h]) = {}
      /\ \A x \in C : \E i \in 0 .. n : x \in Range(Q[i])
      /\ \A i \in 0 .. n : H[i] = Nth(Q[i], 1)
      /\ \A i \in 0 .. n : \A k \in 1 .. Len(Q[i]) : X[Q[i][k]] = Nth(Q[i], k + 1)
  BY DEF Links
<1>2. <<>> \in Seq(C) /\ Len(<<>>) = 0 /\ Range(<<>>) = {} /\ IsInjective(<<>>)
  <2>1. <<>> \in Seq(C) /\ Len(<<>>) = 0 /\ DOMAIN <<>> = {}
    OBVIOUS
  <2>2. QED
    BY <2>1 DEF Range, IsInjective
<1>3. Nth(<<>>, 1) = AM_NULL
  BY <1>2 DEF Nth
<1>4. P \in [0 .. m -> Seq(C)]
  <2>1. ASSUME NEW i \in 0 .. m PROVE P[i] \in Seq(C)
    <3>1. CASE i \in D
      <4>1. f[i] \in 0 .. n /\ P[i] = Q[f[i]]
        BY <3>1
      <4>2. QED
        BY <1>1, <4>1
    <3>2. CASE i \notin D
      BY <1>2, <3>2
    <3>3. QED
      BY <3>1, <3>2
  <2>2. QED
    BY <2>1
<1>5. \A i \in 0 .. m : IsInjective(P[i])
  BY <1>1, <1>2
<1>6. ASSUME NEW i \in 0 .. m, NEW h \in 0 .. m, i # h
      PROVE  Range(P[i]) \cap Range(P[h]) = {}
  <2>1. CASE i \in D /\ h \in D
    <3>1. P[i] = Q[f[i]] /\ P[h] = Q[f[h]] /\ f[i] # f[h] /\ f[i] \in 0 .. n /\ f[h] \in 0 .. n
      BY <1>6, <2>1
    <3>2. QED
      BY <1>1, <3>1
  <2>2. CASE i \notin D
    BY <1>2, <2>2
  <2>3. CASE h \notin D
    BY <1>2, <2>3
  <2>4. QED
    BY <2>1, <2>2, <2>3
<1>7. ASSUME NEW x \in C
      PROVE  \E i \in 0 .. m : x \in Range(P[i])
  <2>1. PICK h \in 0 .. n : x \in Range(Q[h])
    BY <1>1
  <2>2. Q[h] # <<>>
    BY <1>2, <2>1
  <2>3. PICK i \in 0 .. m : i \in D /\ f[i] = h
    BY <2>2
  <2>4. QED
    BY <2>1, <2>3
<1>8. ASSUME NEW i \in 0 .. m PROVE G[i] = Nth(P[i], 1)
  <2>1. CASE i \in D
    <3>1. f[i] \in 0 .. n /\ P[i] = Q[f[i]] /\ G[i] = H[f[i]]
      BY <2>1
    <3>2. QED
      BY <1>1, <3>1
  <2>2. CASE i \notin D
    <3>1. P[i] = <<>> /\ G[i] = AM_NULL
      BY <2>2
    <3>2. QED
      BY <1>3, <3>1
  <2>3. QED
    BY <2>1, <2>2
<1>9. ASSUME NEW i \in 0 .. m, NEW k \in 1 .. Len(P[i])
      PROVE  X[P[i][k]] = Nth(P[i], k + 1)
  <2>1. CASE i \in D
    BY <1>1, <2>1
  <2>2. CASE i \notin D
    BY <1>2, <2>2
  <2>3. QED
    BY <2>1, <2>2
<1>10. QED
  BY <1>4, <1>5, <1>6, <1>7, <1>8, <1>9 DEF Links

\* The walk along the offsets from a head meets the cells of its list.
LEMMA ChainIs ==
  ASSUME NEW n \in Nat, NEW C, NEW Q, NEW H, NEW X, Links(Q, H, X, n, C), AM_NULL \notin C,
         NEW l, DOMAIN l.cell = C, \A o \in C : l.cell[o].next = X[o],
         NEW i \in 0 .. n
  PROVE  Chain(l, H[i]) = Q[i]
<1> DEFINE D == C \cup {AM_NULL}
           Next1(f, o) == IF o = AM_NULL THEN <<>> ELSE <<o>> \o f[l.cell[o].next]
           Eq(f) == f = [o \in D |-> Next1(f, o)]
           F == CHOOSE f : Eq(f)
           Own(o, p) == p[1] \in 0 .. n /\ p[2] \in 1 .. Len(Q[p[1]]) /\ o = Q[p[1]][p[2]]
           own == [o \in D |-> CHOOSE p : Own(o, p)]
           g == [o \in D |-> IF o = AM_NULL THEN <<>> ELSE Suffix(Q[own[o][1]], own[o][2])]
<1>1. /\ \A h \in 0 .. n : Q[h] \in Seq(C)
      /\ \A h \in 0 .. n : IsInjective(Q[h])
      /\ \A h, m \in 0 .. n : h # m => Range(Q[h]) \cap Range(Q[m]) = {}
      /\ \A o \in C : \E h \in 0 .. n : o \in Range(Q[h])
      /\ \A h \in 0 .. n : H[h] = Nth(Q[h], 1)
      /\ \A h \in 0 .. n : \A k \in 1 .. Len(Q[h]) : X[Q[h][k]] = Nth(Q[h], k + 1)
  BY DEF Links
<1>2. ASSUME NEW h \in 0 .. n
      PROVE  /\ Len(Q[h]) \in Nat
             /\ \A k \in 1 .. Len(Q[h]) : Q[h][k] \in C /\ Q[h][k] \in Range(Q[h])
             /\ \A k, m \in 1 .. Len(Q[h]) : Q[h][k] = Q[h][m] => k = m
             /\ \A o \in Range(Q[h]) : \E k \in 1 .. Len(Q[h]) : o = Q[h][k]
  <2>0. Q[h] \in Seq(C) /\ IsInjective(Q[h])
    BY <1>1
  <2>1. Len(Q[h]) \in Nat /\ \A k \in 1 .. Len(Q[h]) : Q[h][k] \in C /\ Q[h][k] \in Range(Q[h])
    BY <2>0, InRange
  <2>2. \A k, m \in 1 .. Len(Q[h]) : Q[h][k] = Q[h][m] => k = m
    BY <2>0, InRange
  <2>3. \A o \in Range(Q[h]) : \E k \in 1 .. Len(Q[h]) : o = Q[h][k]
    BY <2>0, InRange
  <2>4. QED
    BY <2>1, <2>2, <2>3
<1>3. ASSUME NEW h \in 0 .. n, NEW k \in 1 .. Len(Q[h])
      PROVE  g[Q[h][k]] = Suffix(Q[h], k)
  <2> DEFINE o == Q[h][k]
             p == own[o]
  <2>1. o \in C /\ o \in D /\ o # AM_NULL
    BY <1>2
  <2>2. Own(o, <<h, k>>)
    OBVIOUS
  <2>3. Own(o, p)
    <3> HIDE DEF Own
    <3>1. QED
      BY <2>1, <2>2
  <2>4. p[1] = h
    <3>1. o \in Range(Q[h]) /\ o \in Range(Q[p[1]])
      BY <1>2, <2>3
    <3>2. QED
      BY <1>1, <2>3, <3>1
  <2>5. p[2] = k
    <3>1. p[2] \in 1 .. Len(Q[h]) /\ Q[h][k] = Q[h][p[2]]
      BY <2>3, <2>4
    <3> HIDE DEF p
    <3>2. QED
      BY <1>2, <3>1
  <2>6. g[o] = Suffix(Q[p[1]], p[2])
    BY <2>1
  <2> HIDE DEF g, p
  <2>7. QED
    BY <2>4, <2>5, <2>6
<1>4. g[AM_NULL] = <<>> /\ DOMAIN g = D
  OBVIOUS
<1>5. \A h \in 0 .. n : /\ Suffix(Q[h], 1) = Q[h] /\ Suffix(Q[h], Len(Q[h]) + 1) = <<>>
                        /\ \A k \in 1 .. Len(Q[h]) : Suffix(Q[h], k) = <<Q[h][k]>> \o Suffix(Q[h], k + 1)
  BY <1>1, SuffixIs
<1> HIDE DEF g
<1>6. ASSUME NEW h \in 0 .. n, NEW k \in 1 .. Len(Q[h]) + 1
      PROVE  g[Nth(Q[h], k)] = Suffix(Q[h], k)
  <2>1. CASE k \in 1 .. Len(Q[h])
    BY <1>3, <2>1 DEF Nth
  <2>2. CASE k = Len(Q[h]) + 1
    <3>1. k \notin 1 .. Len(Q[h])
      BY <1>2, <2>2
    <3>2. QED
      BY <1>4, <1>5, <2>2, <3>1 DEF Nth
  <2>3. QED
    BY <1>2, <2>1, <2>2
<1>7. Eq(g)
  <2>1. ASSUME NEW o \in D
        PROVE  g[o] = Next1(g, o)
    <3>1. CASE o = AM_NULL
      BY <1>4, <3>1
    <3>2. CASE o # AM_NULL
      <4>1. o \in C
        BY <3>2
      <4>2. PICK h \in 0 .. n : o \in Range(Q[h])
        BY <1>1, <4>1
      <4>3. PICK k \in 1 .. Len(Q[h]) : o = Q[h][k]
        BY <1>2, <4>2
      <4>4. g[o] = <<o>> \o Suffix(Q[h], k + 1)
        <5>1. g[Q[h][k]] = Suffix(Q[h], k)
          BY <1>3
        <5>2. Suffix(Q[h], k) = <<Q[h][k]>> \o Suffix(Q[h], k + 1)
          BY <1>5
        <5>3. QED
          BY <4>3, <5>1, <5>2
      <4>5. k + 1 \in 1 .. Len(Q[h]) + 1
        BY <1>2
      <4>6. l.cell[o].next = Nth(Q[h], k + 1)
        BY <1>1, <4>1, <4>3
      <4>7. QED
        BY <1>6, <3>2, <4>4, <4>5, <4>6
    <3>3. QED
      BY <3>1, <3>2
  <2>2. g = [o \in D |-> g[o]]
    BY DEF g
  <2> HIDE DEF Next1
  <2>3. QED
    BY <2>1, <2>2
<1>8. Eq(F)
  <2> HIDE DEF Eq
  <2>1. QED
    BY <1>7
<1>9. Chain(l, H[i]) = F[H[i]]
  BY DEF Chain
<1> HIDE DEF F
<1>10. \A o \in D : F[o] = Next1(F, o)
  <2> HIDE DEF Next1
  <2>1. QED
    BY <1>8
<1> DEFINE T == {m \in Nat : \A h \in 0 .. n : \A k \in 1 .. Len(Q[h]) + 1 :
                               Len(Q[h]) + 1 - k <= m => F[Nth(Q[h], k)] = Suffix(Q[h], k)}
<1>11. ASSUME NEW h \in 0 .. n, NEW k \in 1 .. Len(Q[h]) + 1, k = Len(Q[h]) + 1
       PROVE  F[Nth(Q[h], k)] = Suffix(Q[h], k)
  <2>1. k \notin 1 .. Len(Q[h])
    BY <1>2, <1>11
  <2>2. Nth(Q[h], k) = AM_NULL
    BY <2>1 DEF Nth
  <2>3. F[AM_NULL] = <<>>
    BY <1>10
  <2>4. QED
    BY <1>5, <1>11, <2>2, <2>3
<1>12. 0 \in T
  <2>1. \A h \in 0 .. n : \A k \in 1 .. Len(Q[h]) + 1 : Len(Q[h]) + 1 - k <= 0 => k = Len(Q[h]) + 1
    BY <1>2
  <2>2. QED
    BY <1>11, <2>1
<1>13. ASSUME NEW m \in Nat, m \in T PROVE m + 1 \in T
  <2> SUFFICES ASSUME NEW h \in 0 .. n, NEW k \in 1 .. Len(Q[h]) + 1, Len(Q[h]) + 1 - k <= m + 1
               PROVE  F[Nth(Q[h], k)] = Suffix(Q[h], k)
    OBVIOUS
  <2>1. CASE k = Len(Q[h]) + 1
    BY <1>11, <2>1
  <2>2. CASE k # Len(Q[h]) + 1
    <3>1. k \in 1 .. Len(Q[h]) /\ k + 1 \in 1 .. Len(Q[h]) + 1 /\ Len(Q[h]) + 1 - (k + 1) <= m
      <4>1. Len(Q[h]) \in Nat
        BY <1>2
      <4> DEFINE q == Len(Q[h])
      <4>2. q \in Nat /\ k \in 1 .. q + 1 /\ k # q + 1 /\ q + 1 - k <= m + 1
        BY <2>2, <4>1
      <4> HIDE DEF q
      <4>3. k \in 1 .. q /\ k + 1 \in 1 .. q + 1 /\ q + 1 - (k + 1) <= m
        BY <4>2
      <4>4. QED
        BY <4>3 DEF q
    <3>2. F[Nth(Q[h], k + 1)] = Suffix(Q[h], k + 1)
      BY <1>13, <3>1
    <3> DEFINE o == Q[h][k]
    <3>3. o \in C /\ o \in D /\ o # AM_NULL /\ Nth(Q[h], k) = o
      BY <1>2, <3>1 DEF Nth
    <3>4. l.cell[o].next = Nth(Q[h], k + 1)
      BY <1>1, <3>1, <3>3
    <3>5. F[o] = <<o>> \o F[l.cell[o].next]
      BY <1>10, <3>3
    <3>6. QED
      BY <1>5, <3>1, <3>2, <3>3, <3>4, <3>5
  <2>3. QED
    BY <2>1, <2>2
<1>14. Nat \subseteq T
  <2> HIDE DEF T
  <2>1. QED
    BY <1>12, <1>13, SetInduction
<1>15. F[Nth(Q[i], 1)] = Suffix(Q[i], 1)
  <2>1. Len(Q[i]) \in Nat /\ Len(Q[i]) \in T
    BY <1>2, <1>14
  <2>2. 1 \in 1 .. Len(Q[i]) + 1 /\ Len(Q[i]) + 1 - 1 <= Len(Q[i])
    BY <2>1
  <2>3. QED
    BY <2>1, <2>2
<1>16. QED
  BY <1>1, <1>5, <1>9, <1>15

-----------------------------------------------------------------------------
(* A leaf and what it holds. *)

KeySlot == [val : Values, head : Offsets]
CellRec == [recId : RecIds, next : Offsets]
Cells(c) == {PAGE_SIZE - CELL * k : k \in 1 .. c}

LeafOf(next, rp, kp, fl, nf, n, key, cell) ==
  [type |-> "l", nextLeafPage |-> next, recIdPtr |-> rp, keyPtr |-> kp,
   freeListPtr |-> fl, numinfreeList |-> nf, numKeys |-> n, key |-> key, cell |-> cell]
IsLeafRec(l) ==
  l = LeafOf(l.nextLeafPage, l.recIdPtr, l.keyPtr, l.freeListPtr, l.numinfreeList, l.numKeys,
             l.key, l.cell)

\* The fields of a leaf.
LEMMA LeafFields ==
  ASSUME NEW next, NEW rp, NEW kp, NEW fl, NEW nf, NEW n, NEW key, NEW cell
  PROVE  LET l == LeafOf(next, rp, kp, fl, nf, n, key, cell)
         IN  /\ IsLeafRec(l) /\ l.type = "l" /\ l.nextLeafPage = next /\ l.recIdPtr = rp
             /\ l.keyPtr = kp /\ l.freeListPtr = fl /\ l.numinfreeList = nf /\ l.numKeys = n
             /\ l.key = key /\ l.cell = cell
BY DEF LeafOf, IsLeafRec

\* The cell at o filled and put at the head of the list of key index.
KeyPut(key, o, index) == [key EXCEPT ![index].head = o]
CellPut(key, cell, o, recId, index) ==
  [x \in DOMAIN cell \cup {o} |->
     IF x = o THEN [recId |-> recId, next |-> key[index].head] ELSE cell[x]]

\* Put changes the key slots and the cells only.
LEMMA PutIs ==
  ASSUME NEW a, NEW rp, NEW kp, NEW fl, NEW nf, NEW n, NEW key, NEW cell, NEW o, NEW recId, NEW index
  PROVE  Put(LeafOf(a, rp, kp, fl, nf, n, key, cell), o, recId, index)
           = LeafOf(a, rp, kp, fl, nf, n, KeyPut(key, o, index), CellPut(key, cell, o, recId, index))
<1> DEFINE k == LeafOf(a, rp, kp, fl, nf, n, key, cell)
<1>1. k.key = key /\ k.cell = cell
  BY LeafFields
<1> DEFINE x == KeyPut(key, o, index)
           y == CellPut(key, cell, o, recId, index)
<1>2. Put(k, o, recId, index) = [k EXCEPT !.key = x, !.cell = y]
  <2>1. Put(k, o, recId, index)
          = [k EXCEPT !.key = KeyPut(k.key, o, index), !.cell = CellPut(k.key, k.cell, o, recId, index)]
    <3> HIDE DEF k
    <3>1. [k EXCEPT !.key[index].head = o] = [k EXCEPT !.key = KeyPut(k.key, o, index)]
      BY DEF KeyPut
    <3>2. Put(k, o, recId, index)
            = [k EXCEPT !.key[index].head = o,
                        !.cell = [c \in DOMAIN @ \cup {o} |->
                                    IF c = o THEN [recId |-> recId, next |-> k.key[index].head] ELSE @[c]]]
      BY DEF Put
    <3>3. QED
      BY <3>1, <3>2 DEF KeyPut, CellPut, k, LeafOf
  <2> HIDE DEF k
  <2>2. QED
    BY <1>1, <2>1
<1> HIDE DEF x, y
<1>3. [k EXCEPT !.key = x, !.cell = y] = LeafOf(a, rp, kp, fl, nf, n, x, y)
  <2>1. [k EXCEPT !.key = x] = LeafOf(a, rp, kp, fl, nf, n, x, cell)
    BY DEF LeafOf
  <2>2. [LeafOf(a, rp, kp, fl, nf, n, x, cell) EXCEPT !.cell = y] = LeafOf(a, rp, kp, fl, nf, n, x, y)
    BY DEF LeafOf
  <2> HIDE DEF k
  <2>3. [k EXCEPT !.key = x, !.cell = y] = [[k EXCEPT !.key = x] EXCEPT !.cell = y]
    OBVIOUS
  <2>4. QED
    BY <2>1, <2>2, <2>3
<1>4. QED
  BY <1>2, <1>3 DEF x, y

\* The fields after AM_InsertToLeafFound.
LEMMA FoundCarves ==
  ASSUME NEW a, NEW rp, NEW kp, NEW nf, NEW n, NEW key, NEW cell, NEW recId, NEW index
  PROVE  LET o == rp - CELL
         IN  AM_InsertToLeafFound(LeafOf(a, rp, kp, AM_NULL, nf, n, key, cell), recId, index)
               = LeafOf(a, o, kp, AM_NULL, nf, n, KeyPut(key, o, index), CellPut(key, cell, o, recId, index))
<1> DEFINE l == LeafOf(a, rp, kp, AM_NULL, nf, n, key, cell)
           o == rp - CELL
<1>1. l.recIdPtr = rp /\ l.freeListPtr = AM_NULL
  BY LeafFields
<1>2. AM_InsertToLeafFound(l, recId, index) = Put([l EXCEPT !.recIdPtr = l.recIdPtr - CELL], l.recIdPtr - CELL, recId, index)
  BY <1>1 DEF AM_InsertToLeafFound
<1>3. AM_InsertToLeafFound(l, recId, index) = Put([l EXCEPT !.recIdPtr = o], o, recId, index)
  <2> HIDE DEF l
  <2>1. QED
    BY <1>1, <1>2
<1> HIDE DEF o
<1>4. [l EXCEPT !.recIdPtr = o] = LeafOf(a, o, kp, AM_NULL, nf, n, key, cell)
  BY DEF LeafOf
<1> HIDE DEF l
<1>5. AM_InsertToLeafFound(l, recId, index) = Put(LeafOf(a, o, kp, AM_NULL, nf, n, key, cell), o, recId, index)
  BY <1>3, <1>4
<1>6. AM_InsertToLeafFound(l, recId, index)
        = LeafOf(a, o, kp, AM_NULL, nf, n, KeyPut(key, o, index), CellPut(key, cell, o, recId, index))
  BY <1>5, PutIs
<1>7. QED
  BY <1>6 DEF l, o

\* AM_InsertToLeafFound takes a cell off the free list if there is one.
LEMMA FoundTakes ==
  ASSUME NEW a, NEW rp, NEW kp, NEW o, NEW nf, NEW n, NEW key, NEW cell, NEW recId, NEW index,
         o # AM_NULL
  PROVE  AM_InsertToLeafFound(LeafOf(a, rp, kp, o, nf, n, key, cell), recId, index)
           = LeafOf(a, rp, kp, cell[o].next, nf - 1, n,
                    KeyPut(key, o, index), CellPut(key, cell, o, recId, index))
<1> DEFINE l == LeafOf(a, rp, kp, o, nf, n, key, cell)
           x == cell[o].next
           y == nf - 1
<1>1. l.freeListPtr = o /\ l.cell = cell /\ l.numinfreeList = nf
  BY LeafFields
<1>2. AM_InsertToLeafFound(l, recId, index)
        = Put([l EXCEPT !.freeListPtr = l.cell[l.freeListPtr].next, !.numinfreeList = l.numinfreeList - 1],
              l.freeListPtr, recId, index)
  BY <1>1 DEF AM_InsertToLeafFound
<1>3. AM_InsertToLeafFound(l, recId, index)
        = Put([l EXCEPT !.freeListPtr = x, !.numinfreeList = y], o, recId, index)
  <2> HIDE DEF l
  <2>1. QED
    BY <1>1, <1>2
<1> HIDE DEF x, y
<1>4. [l EXCEPT !.freeListPtr = x, !.numinfreeList = y] = LeafOf(a, rp, kp, x, y, n, key, cell)
  <2>1. [l EXCEPT !.freeListPtr = x] = LeafOf(a, rp, kp, x, nf, n, key, cell)
    BY DEF LeafOf
  <2>2. [LeafOf(a, rp, kp, x, nf, n, key, cell) EXCEPT !.numinfreeList = y] = LeafOf(a, rp, kp, x, y, n, key, cell)
    BY DEF LeafOf
  <2> HIDE DEF l
  <2>3. [l EXCEPT !.freeListPtr = x, !.numinfreeList = y] = [[l EXCEPT !.freeListPtr = x] EXCEPT !.numinfreeList = y]
    OBVIOUS
  <2>4. QED
    BY <2>1, <2>2, <2>3
<1> HIDE DEF l
<1>5. AM_InsertToLeafFound(l, recId, index) = Put(LeafOf(a, rp, kp, x, y, n, key, cell), o, recId, index)
  BY <1>3, <1>4
<1>6. AM_InsertToLeafFound(l, recId, index)
        = LeafOf(a, rp, kp, x, y, n, KeyPut(key, o, index), CellPut(key, cell, o, recId, index))
  BY <1>5, PutIs
<1>7. QED
  BY <1>6 DEF l, x, y

\* The places of c cells, and of one more.
LEMMA CellsIs ==
  ASSUME NEW c \in Nat, PAGE_SIZE - CELL * c >= AM_sl
  PROVE  /\ Cells(c) \subseteq AM_sl .. PAGE_SIZE /\ Cells(c) \subseteq Offsets
         /\ AM_NULL \notin Cells(c)
         /\ PAGE_SIZE - CELL * c - CELL \notin Cells(c)
         /\ Cells(c + 1) = Cells(c) \cup {PAGE_SIZE - CELL * c - CELL}
<1>1. PAGE_SIZE \in Nat /\ CELL = 6 /\ AM_sl = 24 /\ AM_NULL = 0
  BY LeafAssumption DEF CELL, AM_si, AM_ss, AM_sl, AM_NULL
<1>2. Cells(c) \subseteq AM_sl .. PAGE_SIZE
  BY <1>1 DEF Cells
<1>3. AM_NULL \notin Cells(c)
  BY <1>1, <1>2
<1>4. PAGE_SIZE - CELL * c - CELL \notin Cells(c)
  BY <1>1 DEF Cells
<1>5. Cells(c + 1) = Cells(c) \cup {PAGE_SIZE - CELL * c - CELL}
  <2>1. PAGE_SIZE - CELL * (c + 1) = PAGE_SIZE - CELL * c - CELL /\ c + 1 \in 1 .. c + 1
    BY <1>1
  <2>2. \A k \in 1 .. c + 1 : k \in 1 .. c \/ k = c + 1
    OBVIOUS
  <2>3. \A k \in 1 .. c : k \in 1 .. c + 1
    OBVIOUS
  <2> HIDE DEF CELL
  <2>4. QED
    BY <2>1, <2>2, <2>3 DEF Cells
<1>6. QED
  BY <1>2, <1>3, <1>4, <1>5 DEF Offsets

\* There are c of them.
LEMMA CellsCount ==
  ASSUME NEW c \in Nat
  PROVE  IsFiniteSet(Cells(c)) /\ Cardinality(Cells(c)) = c
<1> DEFINE f == [k \in 1 .. c |-> PAGE_SIZE - CELL * k]
<1>1. PAGE_SIZE \in Nat /\ CELL = 6
  BY LeafAssumption DEF CELL, AM_si, AM_ss
<1>2. f \in Bijection(1 .. c, Cells(c))
  <2>1. f \in [1 .. c -> Cells(c)]
    BY DEF Cells
  <2>2. \A k, h \in 1 .. c : f[k] = f[h] => k = h
    BY <1>1
  <2>3. \A o \in Cells(c) : \E k \in 1 .. c : f[k] = o
    BY DEF Cells
  <2> HIDE DEF f
  <2>4. QED
    BY <2>1, <2>2, <2>3 DEF Bijection, Injection, Surjection, IsInjective
<1>3. IsFiniteSet(1 .. c) /\ Cardinality(1 .. c) = c
  BY FS_Interval
<1>4. QED
  BY <1>2, <1>3, FS_Bijection DEF ExistsBijection

\* Different elements are as many as the sequence is long.
LEMMA RangeCount ==
  ASSUME NEW S, NEW Q \in Seq(S), IsInjective(Q)
  PROVE  IsFiniteSet(Range(Q)) /\ Cardinality(Range(Q)) = Len(Q)
<1>1. Len(Q) \in Nat /\ DOMAIN Q = 1 .. Len(Q) /\ Q \in [1 .. Len(Q) -> Range(Q)]
  <2>1. Len(Q) \in Nat /\ DOMAIN Q = 1 .. Len(Q) /\ Q = [i \in 1 .. Len(Q) |-> Q[i]]
    BY LenProperties
  <2>2. QED
    BY <2>1 DEF Range
<1>2. Q \in Bijection(1 .. Len(Q), Range(Q))
  BY <1>1 DEF Bijection, Injection, Surjection, IsInjective, Range
<1>3. IsFiniteSet(1 .. Len(Q)) /\ Cardinality(1 .. Len(Q)) = Len(Q)
  BY <1>1, FS_Interval
<1>4. QED
  BY <1>2, <1>3, FS_Bijection DEF ExistsBijection

\* Counting the cells of a list is counting its places.
Having(Q, R, r) == {x \in Range(Q) : R[x] = r}
PlacesOf(Q, R, r) == {k \in 1 .. Len(Q) : R[Q[k]] = r}

\* The elements with a record identifier are as many as the places that have it.
LEMMA CountIs ==
  ASSUME NEW S, NEW Q \in Seq(S), IsInjective(Q), NEW R, NEW r
  PROVE  /\ IsFiniteSet(Having(Q, R, r)) /\ IsFiniteSet(PlacesOf(Q, R, r))
         /\ Cardinality(Having(Q, R, r)) = Cardinality(PlacesOf(Q, R, r))
<1> DEFINE K == {k \in 1 .. Len(Q) : R[Q[k]] = r}
           V == {x \in Range(Q) : R[x] = r}
           f == [k \in K |-> Q[k]]
<1>1. Len(Q) \in Nat /\ DOMAIN Q = 1 .. Len(Q)
  BY LenProperties
<1>2. f \in Bijection(K, V)
  <2>1. f \in [K -> V]
    BY <1>1 DEF Range
  <2>2. \A k, h \in K : f[k] = f[h] => k = h
    BY <1>1 DEF IsInjective
  <2>3. \A x \in V : \E k \in K : f[k] = x
    BY <1>1 DEF Range
  <2> HIDE DEF f, K, V
  <2>4. QED
    BY <2>1, <2>2, <2>3 DEF Bijection, Injection, Surjection, IsInjective
<1>3. IsFiniteSet(K)
  <2>1. IsFiniteSet(1 .. Len(Q)) /\ K \in SUBSET (1 .. Len(Q))
    BY <1>1, FS_Interval
  <2> HIDE DEF K
  <2>2. QED
    BY <2>1, FS_Subset
<1>4. QED
  BY <1>2, <1>3, FS_Bijection DEF ExistsBijection, Having, PlacesOf

Heads(n, fl, key) == [i \in 0 .. n |-> IF i = 0 THEN fl ELSE key[i].head]
Nexts(cell) == [o \in DOMAIN cell |-> cell[o].next]

\* A leaf with c carved cells whose lists are Q, the free one first.
Woven(l, Q, c) ==
  /\ IsLeafRec(l) /\ c \in Nat
  /\ l.numKeys \in Nat /\ l.key \in Seq(KeySlot) /\ l.numKeys <= Len(l.key)
  /\ l.cell \in [Cells(c) -> CellRec]
  /\ l.recIdPtr = PAGE_SIZE - CELL * c /\ l.keyPtr = AM_sl + l.numKeys * recSize
  /\ l.keyPtr <= l.recIdPtr
  /\ Links(Q, Heads(l.numKeys, l.freeListPtr, l.key), Nexts(l.cell), l.numKeys, Cells(c))
  /\ l.numinfreeList = Len(Q[0])

Fibre(l, Q, i, r) == {x \in Range(Q[i]) : l.cell[x].recId = r}
Counts == [Values -> [RecIds -> Nat]]

\* It holds the entries N; the list of key e may be empty.
HoldsBut(l, Q, N, e) ==
  /\ \A i, j \in 1 .. l.numKeys : i < j => l.key[i].val < l.key[j].val
  /\ \A i \in 1 .. l.numKeys : i # e => Q[i] # <<>>
  /\ \A i \in 1 .. l.numKeys : \A r \in RecIds : Cardinality(Fibre(l, Q, i, r)) = N[l.key[i].val][r]
  /\ \A v \in Values : (\A i \in 1 .. l.numKeys : l.key[i].val # v) => \A r \in RecIds : N[v][r] = 0

\* The key slots after a put: only the head of key index changes.
LEMMA KeyPutIs ==
  ASSUME NEW key \in Seq(KeySlot), NEW index \in 1 .. Len(key), NEW o \in Offsets
  PROVE  /\ KeyPut(key, o, index) \in Seq(KeySlot) /\ Len(KeyPut(key, o, index)) = Len(key)
         /\ \A i \in 1 .. Len(key) : /\ KeyPut(key, o, index)[i].val = key[i].val
                                     /\ KeyPut(key, o, index)[i].head = IF i = index THEN o ELSE key[i].head
<1> DEFINE m == KeyPut(key, o, index)
           s == [key[index] EXCEPT !.head = o]
<1>1. Len(key) \in Nat /\ DOMAIN key = 1 .. Len(key) /\ \A i \in 1 .. Len(key) : key[i] \in KeySlot
  BY LenProperties, ElementOfSeq
<1>2. s \in KeySlot /\ s.val = key[index].val /\ s.head = o
  BY <1>1 DEF KeySlot
<1>3. m = [i \in 1 .. Len(key) |-> IF i = index THEN s ELSE key[i]]
  BY <1>1 DEF KeyPut
<1> HIDE DEF m, s
<1>4. m \in [1 .. Len(key) -> KeySlot]
  BY <1>1, <1>2, <1>3
<1>5. m \in Seq(KeySlot) /\ Len(m) = Len(key)
  BY <1>1, <1>4, LenProperties
<1>6. \A i \in 1 .. Len(key) : m[i].val = key[i].val /\ m[i].head = IF i = index THEN o ELSE key[i].head
  BY <1>1, <1>2, <1>3
<1>7. QED
  BY <1>5, <1>6 DEF m

CellFacts(C, cell, key, index, o, recId) ==
  LET m == CellPut(key, cell, o, recId, index)
  IN  /\ m \in [C \cup {o} -> CellRec]
      /\ m[o].recId = recId /\ m[o].next = key[index].head
      /\ \A x \in C : x # o => m[x] = cell[x]

\* One cell written.
LEMMA CellPutIs ==
  ASSUME NEW C, NEW cell \in [C -> CellRec], NEW key, NEW index, key[index].head \in Offsets,
         NEW o, NEW recId \in RecIds
  PROVE  CellFacts(C, cell, key, index, o, recId)
<1> DEFINE m == CellPut(key, cell, o, recId, index)
           b == [recId |-> recId, next |-> key[index].head]
<1>1. b \in CellRec /\ b.recId = recId /\ b.next = key[index].head
  BY DEF CellRec
<1>2. m = [x \in C \cup {o} |-> IF x = o THEN b ELSE cell[x]]
  BY DEF CellPut
<1> HIDE DEF m, b
<1>3. \A x \in C : cell[x] \in CellRec
  OBVIOUS
<1>4. QED
  BY <1>1, <1>2, <1>3 DEF m, CellFacts

\* The sizes of a cell and of a key slot.
LEMMA NumbersAre == PAGE_SIZE \in Nat /\ CELL = 6 /\ AM_sl = 24 /\ AM_NULL = 0 /\ recSize \in Nat /\ recSize >= 2
BY LeafAssumption DEF CELL, AM_si, AM_ss, AM_sl, AM_NULL, recSize

\* Where the heads, the offsets and the free list of a leaf are.
LEMMA WovenIs ==
  ASSUME NEW l, NEW Q, NEW c, Woven(l, Q, c)
  PROVE  /\ Q \in [0 .. l.numKeys -> Seq(Cells(c))] /\ DOMAIN l.cell = Cells(c)
         /\ Cells(c) \subseteq Offsets /\ AM_NULL \notin Cells(c)
         /\ \A i \in 0 .. l.numKeys : Q[i] \in Seq(Cells(c)) /\ IsInjective(Q[i])
         /\ \A i \in 0 .. l.numKeys : Q[i] = <<>> <=> Heads(l.numKeys, l.freeListPtr, l.key)[i] = AM_NULL
         /\ \A i \in 0 .. l.numKeys : Heads(l.numKeys, l.freeListPtr, l.key)[i] \in Offsets
         /\ l.freeListPtr = Nth(Q[0], 1) /\ (l.freeListPtr = AM_NULL <=> Q[0] = <<>>)
         /\ \A i \in 1 .. l.numKeys : /\ l.key[i].head = Nth(Q[i], 1) /\ l.key[i] \in KeySlot /\ i \in 1 .. Len(l.key)
                                      /\ l.key[i].val \in Values
         /\ PAGE_SIZE - CELL * c >= AM_sl /\ l.recIdPtr \in Nat /\ l.keyPtr \in Nat
<1> DEFINE n == l.numKeys
           H == Heads(n, l.freeListPtr, l.key)
           C == Cells(c)
<1>1. /\ c \in Nat /\ n \in Nat /\ l.key \in Seq(KeySlot) /\ n <= Len(l.key) /\ l.cell \in [C -> CellRec]
      /\ l.recIdPtr = PAGE_SIZE - CELL * c /\ l.keyPtr = AM_sl + n * recSize /\ l.keyPtr <= l.recIdPtr
      /\ Links(Q, H, Nexts(l.cell), n, C)
  BY DEF Woven
<1>2. /\ Q \in [0 .. n -> Seq(C)]
      /\ \A i \in 0 .. n : IsInjective(Q[i])
      /\ \A i \in 0 .. n : H[i] = Nth(Q[i], 1)
  BY <1>1 DEF Links
<1>3. l.keyPtr \in Nat /\ l.keyPtr >= AM_sl /\ l.recIdPtr \in Nat
  <2> DEFINE x == n * recSize
             y == CELL * c
  <2>1. x \in Nat /\ y \in Nat
    BY <1>1, NumbersAre
  <2> HIDE DEF x, y
  <2>2. l.keyPtr = 24 + x /\ l.recIdPtr = PAGE_SIZE - y
    BY <1>1, NumbersAre DEF x, y
  <2>3. QED
    BY <1>1, <2>1, <2>2, NumbersAre
<1>4. PAGE_SIZE - CELL * c >= AM_sl
  <2>1. l.recIdPtr >= AM_sl
    BY <1>1, <1>3, NumbersAre
  <2>2. QED
    BY <1>1, <2>1
<1>5. C \subseteq Offsets /\ AM_NULL \notin C
  BY <1>1, <1>4, CellsIs
<1>6. AM_NULL \in Offsets
  BY DEF Offsets
<1>7. ASSUME NEW i \in 0 .. n
      PROVE  /\ Q[i] \in Seq(C) /\ (Q[i] = <<>> <=> H[i] = AM_NULL) /\ H[i] \in Offsets
  <2>1. Q[i] \in Seq(C)
    BY <1>2
  <2>2. Len(Q[i]) \in Nat /\ \A k \in 1 .. Len(Q[i]) : Q[i][k] \in C
    BY <2>1, InRange
  <2>3. CASE Q[i] = <<>>
    <3>1. H[i] = AM_NULL
      BY <1>2, <2>3 DEF Nth
    <3>2. QED
      BY <1>6, <2>1, <2>3, <3>1
  <2>4. CASE Q[i] # <<>>
    <3>1. Len(Q[i]) # 0
      BY <2>1, <2>4, EmptySeq
    <3>2. 1 \in 1 .. Len(Q[i])
      BY <2>2, <3>1
    <3>3. H[i] = Q[i][1] /\ Q[i][1] \in C
      BY <1>2, <2>2, <3>2 DEF Nth
    <3>4. QED
      BY <1>5, <2>1, <2>4, <3>3
  <2>5. QED
    BY <2>3, <2>4
<1>8. 0 \in 0 .. n /\ H[0] = l.freeListPtr
  BY <1>1 DEF Heads
<1>9. ASSUME NEW i \in 1 .. n
      PROVE  l.key[i].head = H[i] /\ i \in 0 .. n /\ l.key[i] \in KeySlot /\ l.key[i].val \in Values /\ i \in 1 .. Len(l.key)
  <2>1. i \in 1 .. Len(l.key) /\ i \in 0 .. n /\ i # 0
    BY <1>1, LenProperties
  <2>2. l.key[i] \in KeySlot
    BY <1>1, <2>1, ElementOfSeq
  <2>3. QED
    BY <2>1, <2>2 DEF Heads, KeySlot
<1>10. DOMAIN l.cell = C
  BY <1>1
<1> HIDE DEF H, n, C
<1>11. /\ l.freeListPtr = Nth(Q[0], 1) /\ (l.freeListPtr = AM_NULL <=> Q[0] = <<>>)
       /\ \A i \in 1 .. n : l.key[i].head = Nth(Q[i], 1) /\ l.key[i] \in KeySlot /\ i \in 1 .. Len(l.key)
                            /\ l.key[i].val \in Values
  BY <1>2, <1>7, <1>8, <1>9
<1>12. QED
  BY <1>2, <1>3, <1>4, <1>5, <1>7, <1>10, <1>11 DEF H, n, C

Plus(N, v, r) == [N EXCEPT ![v][r] = @ + 1]
\* In k with the lists P the list of key index has the cell o, with recId, that it
\* has not in l with the lists Q; else they agree.
Grows(k, P, l, Q, c, index, recId, o) ==
  /\ k.numKeys = l.numKeys
  /\ \A i \in 1 .. l.numKeys : k.key[i].val = l.key[i].val
  /\ \A i \in 1 .. l.numKeys : o \notin Range(Q[i])
  /\ \A i \in 1 .. l.numKeys : Range(P[i]) = IF i = index THEN Range(Q[i]) \cup {o} ELSE Range(Q[i])
  /\ k.cell[o].recId = recId /\ \A x \in Cells(c) : x # o => k.cell[x] = l.cell[x]

\* One cell more in the list of key index is one entry more.
LEMMA HoldsMore ==
  ASSUME NEW l, NEW Q, NEW c, Woven(l, Q, c), NEW N \in Counts, NEW e, HoldsBut(l, Q, N, e),
         NEW index \in 1 .. l.numKeys, e \in {0, index}, NEW recId \in RecIds, NEW o,
         NEW k, NEW P, NEW d, Woven(k, P, d), Grows(k, P, l, Q, c, index, recId, o)
  PROVE  HoldsBut(k, P, Plus(N, l.key[index].val, recId), 0)
<1> DEFINE n == l.numKeys
           M == Plus(N, l.key[index].val, recId)
           v == l.key[index].val
<1>0. /\ k.numKeys = l.numKeys
      /\ \A i \in 1 .. l.numKeys : k.key[i].val = l.key[i].val
      /\ \A i \in 1 .. l.numKeys : o \notin Range(Q[i])
      /\ \A i \in 1 .. l.numKeys : Range(P[i]) = IF i = index THEN Range(Q[i]) \cup {o} ELSE Range(Q[i])
      /\ k.cell[o].recId = recId /\ \A x \in Cells(c) : x # o => k.cell[x] = l.cell[x]
  BY DEF Grows
<1> USE <1>0
<1>1. /\ \A i, j \in 1 .. n : i < j => l.key[i].val < l.key[j].val
      /\ \A i \in 1 .. n : i # e => Q[i] # <<>>
      /\ \A i \in 1 .. n : \A r \in RecIds : Cardinality(Fibre(l, Q, i, r)) = N[l.key[i].val][r]
      /\ \A w \in Values : (\A i \in 1 .. n : l.key[i].val # w) => \A r \in RecIds : N[w][r] = 0
  BY DEF HoldsBut
<1>2. n \in Nat /\ \A i \in 1 .. n : l.key[i].val \in Values /\ l.key[i].val \in Int
  <2>1. n \in Nat
    BY DEF Woven
  <2>2. Values \subseteq Int
    BY AMAssumption DEF Values
  <2>3. QED
    BY <2>1, <2>2, WovenIs
<1>3. /\ v \in Values /\ DOMAIN N = Values /\ \A w \in Values : DOMAIN N[w] = RecIds
      /\ \A w \in Values : \A r \in RecIds : N[w][r] \in Nat
  BY <1>2 DEF Counts
<1>4. \A w \in Values : \A r \in RecIds : M[w][r] = IF w = v /\ r = recId THEN N[w][r] + 1 ELSE N[w][r]
  BY <1>3 DEF Plus
<1> HIDE DEF M
<1>5. ASSUME NEW i \in 1 .. n
      PROVE  /\ Q[i] \in Seq(Cells(c)) /\ IsInjective(Q[i]) /\ P[i] \in Seq(Cells(d)) /\ IsInjective(P[i])
             /\ \A x \in Range(Q[i]) : x \in Cells(c)
  <2>1. i \in 0 .. l.numKeys /\ i \in 0 .. k.numKeys
    BY <1>2
  <2>2. Q[i] \in Seq(Cells(c)) /\ IsInjective(Q[i])
    BY <2>1, WovenIs
  <2>3. P[i] \in Seq(Cells(d)) /\ IsInjective(P[i])
    BY <2>1, WovenIs
  <2>4. \A x \in Range(Q[i]) : x \in Cells(c)
    BY <2>2, InRange
  <2>5. QED
    BY <2>2, <2>3, <2>4
<1>6. ASSUME NEW i \in 1 .. n, NEW r \in RecIds
      PROVE  Fibre(k, P, i, r) = IF i = index /\ r = recId THEN Fibre(l, Q, i, r) \cup {o} ELSE Fibre(l, Q, i, r)
  <2>1. \A x \in Range(Q[i]) : x # o /\ k.cell[x] = l.cell[x]
    BY <1>5
  <2>2. CASE i = index
    BY <2>1, <2>2 DEF Fibre
  <2>3. CASE i # index
    BY <2>1, <2>3 DEF Fibre
  <2>4. QED
    BY <2>2, <2>3
<1>7. ASSUME NEW i \in 1 .. n, NEW r \in RecIds
      PROVE  /\ IsFiniteSet(Fibre(l, Q, i, r)) /\ o \notin Fibre(l, Q, i, r)
             /\ Cardinality(Fibre(l, Q, i, r) \cup {o}) = Cardinality(Fibre(l, Q, i, r)) + 1
  <2>1. IsFiniteSet(Range(Q[i])) /\ Fibre(l, Q, i, r) \in SUBSET Range(Q[i])
    BY <1>5, RangeCount DEF Fibre
  <2>2. IsFiniteSet(Fibre(l, Q, i, r))
    BY <2>1, FS_Subset
  <2>3. o \notin Fibre(l, Q, i, r)
    BY <2>1
  <2>4. QED
    BY <2>2, <2>3, FS_AddElement
<1>8. \A i, j \in 1 .. n : l.key[i].val = l.key[j].val => i = j
  <2> SUFFICES ASSUME NEW i \in 1 .. n, NEW j \in 1 .. n, l.key[i].val = l.key[j].val PROVE i = j
    OBVIOUS
  <2>1. i < j \/ j < i \/ i = j
    OBVIOUS
  <2>2. l.key[i].val \in Int /\ l.key[j].val \in Int
    BY <1>2
  <2>3. ~ (l.key[i].val < l.key[j].val) /\ ~ (l.key[j].val < l.key[i].val)
    BY <2>2
  <2>4. QED
    BY <1>1, <2>1, <2>3
<1>9. ASSUME NEW i \in 1 .. n, NEW r \in RecIds
      PROVE  Cardinality(Fibre(k, P, i, r)) = M[l.key[i].val][r]
  <2>1. Cardinality(Fibre(l, Q, i, r)) = N[l.key[i].val][r]
    BY <1>1
  <2>2. l.key[i].val = v <=> i = index
    BY <1>8
  <2>3. l.key[i].val \in Values
    BY <1>2
  <2>4. CASE i = index /\ r = recId
    BY <1>4, <1>6, <1>7, <2>1, <2>2, <2>3, <2>4
  <2>5. CASE ~ (i = index /\ r = recId)
    BY <1>4, <1>6, <2>1, <2>2, <2>3, <2>5
  <2>6. QED
    BY <2>4, <2>5
<1>10. ASSUME NEW i \in 1 .. n PROVE P[i] # <<>>
  <2>1. Range(P[i]) # {}
    <3>1. CASE i = index
      BY <3>1
    <3>2. CASE i # index
      <4>1. Q[i] # <<>>
        BY <1>1, <3>2
      <4>2. Range(Q[i]) # {}
        BY <1>5, <4>1, InRange
      <4>3. QED
        BY <3>2, <4>2
    <3>3. QED
      BY <3>1, <3>2
  <2>2. QED
    BY <1>5, <2>1, InRange
<1>11. ASSUME NEW w \in Values, \A i \in 1 .. n : k.key[i].val # w, NEW r \in RecIds
       PROVE  M[w][r] = 0
  <2>1. w # v /\ N[w][r] = 0
    BY <1>1, <1>11
  <2>2. QED
    BY <1>4, <2>1
<1>12. \A i, j \in 1 .. n : i < j => k.key[i].val < k.key[j].val
  BY <1>1
<1>13. \A i \in 1 .. n : \A r \in RecIds : Cardinality(Fibre(k, P, i, r)) = M[k.key[i].val][r]
  BY <1>9
<1> HIDE DEF v
<1>14. HoldsBut(k, P, M, 0)
  BY <1>10, <1>11, <1>12, <1>13 DEF HoldsBut
<1>15. QED
  BY <1>14 DEF M, v

\* The slots, the cells, the heads and the offsets after a put.
PutFacts(l, c, index, recId, o, fl) ==
  LET n == l.numKeys
      key == KeyPut(l.key, o, index)
      cell == CellPut(l.key, l.cell, o, recId, index)
      H == Heads(n, l.freeListPtr, l.key)
      X == Nexts(l.cell)
      G == Heads(n, fl, key)
      Y == Nexts(cell)
  IN  /\ key \in Seq(KeySlot) /\ n <= Len(key) /\ \A i \in 1 .. n : key[i].val = l.key[i].val
      /\ cell \in [Cells(c) \cup {o} -> CellRec]
      /\ cell[o].recId = recId /\ \A x \in Cells(c) : x # o => cell[x] = l.cell[x]
      /\ G[index] = o /\ G[0] = fl /\ \A i \in 1 .. n : i # index => G[i] = H[i]
      /\ Y[o] = H[index] /\ \A x \in Cells(c) : x # o => Y[x] = X[x]

\* What Put does to the heads of the lists and the cells.
LEMMA PutLinks ==
  ASSUME NEW l, NEW Q, NEW c, Woven(l, Q, c), NEW index \in 1 .. l.numKeys, NEW recId \in RecIds,
         NEW o \in Offsets, NEW fl
  PROVE  PutFacts(l, c, index, recId, o, fl)
<1> DEFINE n == l.numKeys
           key == KeyPut(l.key, o, index)
           cell == CellPut(l.key, l.cell, o, recId, index)
           H == Heads(n, l.freeListPtr, l.key)
           X == Nexts(l.cell)
           G == Heads(n, fl, key)
           Y == Nexts(cell)
           C == Cells(c)
<1>1. n \in Nat /\ l.key \in Seq(KeySlot) /\ n <= Len(l.key) /\ Len(l.key) \in Nat /\ l.cell \in [C -> CellRec]
  BY LenProperties DEF Woven
<1>2. index \in 1 .. Len(l.key) /\ index \in 0 .. n /\ index # 0 /\ \A i \in 1 .. n : i \in 1 .. Len(l.key)
  BY <1>1
<1>3. H[index] \in Offsets
  BY <1>2, WovenIs
<1>4. H[index] = l.key[index].head
  BY <1>2 DEF Heads
<1>5. /\ key \in Seq(KeySlot) /\ Len(key) = Len(l.key)
      /\ \A i \in 1 .. Len(l.key) : /\ key[i].val = l.key[i].val
                                    /\ key[i].head = IF i = index THEN o ELSE l.key[i].head
  BY <1>1, <1>2, KeyPutIs
<1>6. l.cell \in [C -> CellRec] /\ l.key[index].head \in Offsets
  BY <1>1, <1>3, <1>4
<1>7. /\ cell \in [C \cup {o} -> CellRec]
      /\ cell[o].recId = recId /\ cell[o].next = l.key[index].head
      /\ \A x \in C : x # o => cell[x] = l.cell[x]
  <2> HIDE DEF C, cell
  <2>1. CellFacts(C, l.cell, l.key, index, o, recId)
    BY <1>6, CellPutIs
  <2>2. QED
    BY <2>1 DEF CellFacts, cell
<1> HIDE DEF key, cell, C
<1>8. G[index] = o /\ G[0] = fl /\ \A i \in 1 .. n : i # index => G[i] = H[i]
  <2>1. \A i \in 0 .. n : G[i] = IF i = 0 THEN fl ELSE key[i].head
    BY DEF Heads
  <2>2. \A i \in 0 .. n : H[i] = IF i = 0 THEN l.freeListPtr ELSE l.key[i].head
    BY DEF Heads
  <2>3. 0 \in 0 .. n /\ \A i \in 1 .. n : i \in 0 .. n /\ i # 0
    BY <1>1
  <2> HIDE DEF G, H, n
  <2>4. QED
    BY <1>2, <1>5, <2>1, <2>2, <2>3
<1>9. Y[o] = H[index] /\ \A x \in C : x # o => Y[x] = X[x]
  <2>1. o \in DOMAIN cell /\ DOMAIN l.cell = C /\ \A x \in C : x \in DOMAIN cell
    BY <1>1, <1>7
  <2> HIDE DEF H
  <2>2. QED
    BY <1>4, <1>7, <2>1 DEF Nexts
<1>10. n <= Len(key)
  BY <1>1, <1>5
<1> HIDE DEF G, Y, H, X, n
<1>11. \A i \in 1 .. n : key[i].val = l.key[i].val
  BY <1>2, <1>5
<1>12. QED
  BY <1>5, <1>7, <1>8, <1>9, <1>10, <1>11 DEF n, key, cell, H, X, G, Y, C, PutFacts

\* The leaf k is l with the cell o put into the list of key index.
PutAt(k, l, rp, fl, nf, o, recId, index) ==
  k = LeafOf(l.nextLeafPage, rp, l.keyPtr, fl, nf, l.numKeys, KeyPut(l.key, o, index),
             CellPut(l.key, l.cell, o, recId, index))
\* The cell o is new to the lists of the keys, and is in the one of index now.
Joins(P, Q, n, index, o) ==
  \A i \in 1 .. n : /\ o \notin Range(Q[i])
                    /\ Range(P[i]) = IF i = index THEN Range(Q[i]) \cup {o} ELSE Range(Q[i])

\* What the put made of the leaf l that held N.
PutMade(k, P, d, l, N, rp, index, recId) ==
  /\ k.numKeys = l.numKeys /\ k.nextLeafPage = l.nextLeafPage /\ k.recIdPtr = rp
  /\ \A i \in 1 .. l.numKeys : k.key[i].val = l.key[i].val
  /\ Woven(k, P, d) /\ HoldsBut(k, P, Plus(N, l.key[index].val, recId), 0)

\* A cell that joins the list of a key adds one entry to what the leaf holds.
LEMMA PutKeeps ==
  ASSUME NEW l, NEW Q, NEW c, Woven(l, Q, c), NEW N \in Counts, NEW e, HoldsBut(l, Q, N, e),
         NEW index \in 1 .. l.numKeys, e \in {0, index}, NEW recId \in RecIds, NEW o \in Offsets,
         NEW k, NEW rp, NEW fl, NEW nf, PutAt(k, l, rp, fl, nf, o, recId, index),
         NEW P, NEW d \in Nat, Cells(d) = Cells(c) \cup {o}, rp = PAGE_SIZE - CELL * d, l.keyPtr <= rp,
         nf = Len(P[0]), Joins(P, Q, l.numKeys, index, o),
         Links(P, Heads(l.numKeys, fl, KeyPut(l.key, o, index)),
               Nexts(CellPut(l.key, l.cell, o, recId, index)), l.numKeys, Cells(d))
  PROVE  PutMade(k, P, d, l, N, rp, index, recId)
<1> DEFINE n == l.numKeys
           key == KeyPut(l.key, o, index)
           cell == CellPut(l.key, l.cell, o, recId, index)
           M == Plus(N, l.key[index].val, recId)
<1>1. n \in Nat /\ l.keyPtr = AM_sl + n * recSize
  BY DEF Woven
<1>2. /\ key \in Seq(KeySlot) /\ n <= Len(key) /\ \A i \in 1 .. n : key[i].val = l.key[i].val
      /\ cell \in [Cells(c) \cup {o} -> CellRec]
      /\ cell[o].recId = recId /\ \A x \in Cells(c) : x # o => cell[x] = l.cell[x]
  <2>1. PutFacts(l, c, index, recId, o, fl)
    BY PutLinks
  <2>2. QED
    BY <2>1 DEF PutFacts
<1> HIDE DEF key, cell, n
<1>3. k = LeafOf(l.nextLeafPage, rp, l.keyPtr, fl, nf, n, key, cell)
  BY DEF PutAt, key, cell, n
<1>4. /\ IsLeafRec(k) /\ k.nextLeafPage = l.nextLeafPage /\ k.recIdPtr = rp /\ k.keyPtr = l.keyPtr
      /\ k.freeListPtr = fl /\ k.numinfreeList = nf /\ k.numKeys = n /\ k.key = key /\ k.cell = cell
  BY <1>3, LeafFields
<1>5. Links(P, Heads(n, fl, key), Nexts(cell), n, Cells(d))
  BY DEF n, key, cell
<1>6. Woven(k, P, d)
  BY <1>1, <1>2, <1>4, <1>5 DEF Woven
<1>7. \A i \in 1 .. n : k.key[i].val = l.key[i].val
  BY <1>2, <1>4
<1>8. HoldsBut(k, P, M, 0)
  <2>1. k.numKeys = l.numKeys /\ \A i \in 1 .. l.numKeys : k.key[i].val = l.key[i].val
    BY <1>4, <1>7 DEF n
  <2>2. k.cell[o].recId = recId
    BY <1>2, <1>4
  <2>3. \A x \in Cells(c) : x # o => k.cell[x] = l.cell[x]
    BY <1>2, <1>4
  <2>4. Grows(k, P, l, Q, c, index, recId, o)
    BY <2>1, <2>2, <2>3 DEF Joins, Grows
  <2>5. QED
    BY <1>6, <2>4, HoldsMore
<1> HIDE DEF M
<1>9. QED
  BY <1>4, <1>6, <1>7, <1>8 DEF n, M, PutMade

\* AM_InsertToLeafFound with the free list empty: a new cell below the others.
LEMMA FoundInNewCell ==
  ASSUME NEW l, NEW Q, NEW c, Woven(l, Q, c), NEW N \in Counts, NEW e, HoldsBut(l, Q, N, e),
         NEW index \in 1 .. l.numKeys, e \in {0, index}, NEW recId \in RecIds,
         l.freeListPtr = AM_NULL, Gap(l) >= CELL
  PROVE  LET k == AM_InsertToLeafFound(l, recId, index)
         IN  /\ k.numKeys = l.numKeys /\ k.nextLeafPage = l.nextLeafPage
             /\ \A i \in 1 .. l.numKeys : k.key[i].val = l.key[i].val
             /\ \E P, d : /\ Woven(k, P, d) /\ P[0] = <<>>
                          /\ HoldsBut(k, P, Plus(N, l.key[index].val, recId), 0)
<1> DEFINE n == l.numKeys
           k == AM_InsertToLeafFound(l, recId, index)
           H == Heads(n, l.freeListPtr, l.key)
           X == Nexts(l.cell)
           C == Cells(c)
           o == l.recIdPtr - CELL
           P == [i \in 0 .. n |-> IF i = index THEN With(o, Q[index]) ELSE Q[i]]
           G == Heads(n, AM_NULL, KeyPut(l.key, o, index))
           Y == Nexts(CellPut(l.key, l.cell, o, recId, index))
<1>1. /\ IsLeafRec(l) /\ c \in Nat /\ n \in Nat /\ l.recIdPtr = PAGE_SIZE - CELL * c
      /\ l.keyPtr = AM_sl + n * recSize /\ l.keyPtr <= l.recIdPtr
      /\ Links(Q, H, X, n, C) /\ l.numinfreeList = Len(Q[0])
  BY DEF Woven
<1>2. /\ \A i \in 0 .. n : Q[i] \in Seq(C) /\ IsInjective(Q[i])
      /\ (l.freeListPtr = AM_NULL <=> Q[0] = <<>>)
      /\ PAGE_SIZE - CELL * c >= AM_sl /\ l.recIdPtr \in Nat /\ l.keyPtr \in Nat
  BY WovenIs
<1>3. index \in 0 .. n /\ index # 0 /\ 0 \in 0 .. n /\ \A i \in 1 .. n : i \in 0 .. n
  BY <1>1
<1>4. PutAt(k, l, o, AM_NULL, l.numinfreeList, o, recId, index)
  <2>1. AM_InsertToLeafFound(LeafOf(l.nextLeafPage, l.recIdPtr, l.keyPtr, AM_NULL, l.numinfreeList, n, l.key, l.cell),
                             recId, index)
          = LeafOf(l.nextLeafPage, o, l.keyPtr, AM_NULL, l.numinfreeList, n, KeyPut(l.key, o, index),
                   CellPut(l.key, l.cell, o, recId, index))
    BY FoundCarves
  <2>2. l = LeafOf(l.nextLeafPage, l.recIdPtr, l.keyPtr, AM_NULL, l.numinfreeList, n, l.key, l.cell)
    BY <1>1 DEF IsLeafRec
  <2> HIDE DEF o
  <2>3. QED
    BY <2>1, <2>2 DEF PutAt
<1>5. o = PAGE_SIZE - CELL * c - CELL /\ l.keyPtr <= o /\ o \in Nat /\ o >= AM_sl /\ o = PAGE_SIZE - CELL * (c + 1)
  <2> DEFINE y == CELL * c
             z == n * recSize
             w == CELL * (c + 1)
  <2>1. y \in Nat /\ w = y + 6
    <3>1. CELL * c = 6 * c /\ CELL * (c + 1) = 6 * (c + 1) /\ c \in Nat
      BY <1>1, NumbersAre
    <3>2. QED
      BY <3>1
  <2>2. l.recIdPtr - l.keyPtr >= CELL
    BY DEF Gap
  <2>3. z \in Nat
    BY <1>1, NumbersAre
  <2> HIDE DEF y, z, w
  <2>4. l.keyPtr = AM_sl + z /\ l.recIdPtr = PAGE_SIZE - y /\ o = l.recIdPtr - CELL
    BY <1>1 DEF y, z
  <2> HIDE DEF o
  <2>5. o = PAGE_SIZE - y - CELL /\ l.keyPtr <= o /\ o \in Nat /\ o >= AM_sl /\ o = PAGE_SIZE - w
    BY <1>2, <2>1, <2>2, <2>3, <2>4, NumbersAre
  <2>6. QED
    BY <2>5 DEF y, w
<1>6. o \notin C /\ Cells(c + 1) = C \cup {o} /\ o \in Offsets
  <2>1. o \notin C /\ Cells(c + 1) = C \cup {o}
    BY <1>1, <1>2, <1>5, CellsIs
  <2>2. o \in Cells(c + 1) /\ PAGE_SIZE - CELL * (c + 1) >= AM_sl /\ c + 1 \in Nat
    BY <1>1, <1>5, <2>1
  <2>3. Cells(c + 1) \subseteq Offsets
    BY <2>2, CellsIs
  <2>4. QED
    BY <2>1, <2>2, <2>3
<1> HIDE DEF o, k
<1>7. /\ G[index] = o /\ G[0] = AM_NULL /\ \A i \in 1 .. n : i # index => G[i] = H[i]
      /\ Y[o] = H[index] /\ \A x \in C : x # o => Y[x] = X[x]
  <2>1. PutFacts(l, c, index, recId, o, AM_NULL)
    BY <1>6, PutLinks
  <2>2. QED
    BY <2>1 DEF PutFacts
<1>8. H[0] = AM_NULL
  BY <1>3 DEF Heads
<1> HIDE DEF C, H, X, G, Y, n
<1>9. Carves(P, G, Y, Q, H, X, n, C, index, o)
  <2>1. \A i \in 0 .. n : i # index => G[i] = H[i]
    <3>1. \A i \in 0 .. n : i = 0 \/ i \in 1 .. n
      BY <1>1
    <3>2. QED
      BY <1>7, <1>8, <3>1
  <2>2. \A x \in C : Y[x] = X[x]
    BY <1>6, <1>7
  <2>3. QED
    BY <1>7, <2>1, <2>2 DEF Carves
<1>10. /\ P[index] = With(o, Q[index]) /\ \A i \in 0 .. n : i # index => P[i] = Q[i]
  BY <1>3
<1> HIDE DEF P
<1>11. Links(P, G, Y, n, C \cup {o})
  BY <1>1, <1>3, <1>6, <1>9, Carved
<1>12. Range(P[index]) = Range(Q[index]) \cup {o}
  <2>1. Adds(P, Q, index, o)
    BY <1>1, <1>3, <1>6, <1>9, Carved
  <2>2. QED
    BY <2>1 DEF Adds
<1>13. Joins(P, Q, n, index, o)
  <2>1. ASSUME NEW i \in 1 .. n PROVE o \notin Range(Q[i])
    <3>1. Q[i] \in Seq(C)
      BY <1>2, <1>3
    <3>2. \A x \in Range(Q[i]) : x \in C
      BY <3>1, InRange
    <3>3. QED
      BY <1>6, <3>2
  <2>2. QED
    BY <1>3, <1>10, <1>12, <2>1 DEF Joins
<1>14. P[0] = <<>> /\ l.numinfreeList = Len(P[0])
  BY <1>1, <1>2, <1>3, <1>10
<1>15. PutMade(k, P, c + 1, l, N, o, index, recId)
  <2>1. c + 1 \in Nat /\ Cells(c + 1) = Cells(c) \cup {o}
    BY <1>1, <1>6 DEF C
  <2>2. Joins(P, Q, l.numKeys, index, o)
    BY <1>13 DEF n
  <2>3. Links(P, Heads(l.numKeys, AM_NULL, KeyPut(l.key, o, index)),
              Nexts(CellPut(l.key, l.cell, o, recId, index)), l.numKeys, Cells(c + 1))
    BY <1>6, <1>11 DEF n, G, Y
  <2>4. QED
    BY <1>4, <1>5, <1>6, <1>14, <2>1, <2>2, <2>3, PutKeeps
<1>16. QED
  BY <1>14, <1>15 DEF k, PutMade

\* AM_InsertToLeafFound with a cell on the free list.
LEMMA FoundInFreeCell ==
  ASSUME NEW l, NEW Q, NEW c, Woven(l, Q, c), NEW N \in Counts, NEW e, HoldsBut(l, Q, N, e),
         NEW index \in 1 .. l.numKeys, e \in {0, index}, NEW recId \in RecIds,
         l.freeListPtr # AM_NULL
  PROVE  LET k == AM_InsertToLeafFound(l, recId, index)
         IN  /\ k.numKeys = l.numKeys /\ k.nextLeafPage = l.nextLeafPage /\ k.recIdPtr = l.recIdPtr
             /\ \A i \in 1 .. l.numKeys : k.key[i].val = l.key[i].val
             /\ \E P, d : /\ Woven(k, P, d)
                          /\ HoldsBut(k, P, Plus(N, l.key[index].val, recId), 0)
<1> DEFINE n == l.numKeys
           k == AM_InsertToLeafFound(l, recId, index)
           H == Heads(n, l.freeListPtr, l.key)
           X == Nexts(l.cell)
           C == Cells(c)
           o == l.freeListPtr
           fl == l.cell[o].next
           nf == l.numinfreeList - 1
           P == [i \in 0 .. n |-> IF i = 0 THEN Without(Q[0], 1) ELSE IF i = index THEN With(Q[0][1], Q[index]) ELSE Q[i]]
           G == Heads(n, fl, KeyPut(l.key, o, index))
           Y == Nexts(CellPut(l.key, l.cell, o, recId, index))
<1>1. /\ IsLeafRec(l) /\ c \in Nat /\ n \in Nat /\ l.recIdPtr = PAGE_SIZE - CELL * c /\ l.keyPtr <= l.recIdPtr
      /\ Links(Q, H, X, n, C) /\ l.numinfreeList = Len(Q[0])
  BY DEF Woven
<1>2. /\ \A i \in 0 .. n : Q[i] \in Seq(C) /\ IsInjective(Q[i])
      /\ (l.freeListPtr = AM_NULL <=> Q[0] = <<>>) /\ l.freeListPtr = Nth(Q[0], 1)
      /\ C \subseteq Offsets /\ DOMAIN l.cell = C
  BY WovenIs
<1>3. index \in 0 .. n /\ index # 0 /\ 0 \in 0 .. n /\ \A i \in 1 .. n : i \in 0 .. n /\ i # 0
  BY <1>1
<1>4. PutAt(k, l, l.recIdPtr, fl, nf, o, recId, index)
  <2>1. AM_InsertToLeafFound(LeafOf(l.nextLeafPage, l.recIdPtr, l.keyPtr, o, l.numinfreeList, n, l.key, l.cell),
                             recId, index)
          = LeafOf(l.nextLeafPage, l.recIdPtr, l.keyPtr, fl, nf, n, KeyPut(l.key, o, index),
                   CellPut(l.key, l.cell, o, recId, index))
    BY FoundTakes
  <2>2. l = LeafOf(l.nextLeafPage, l.recIdPtr, l.keyPtr, o, l.numinfreeList, n, l.key, l.cell)
    BY <1>1 DEF IsLeafRec
  <2> HIDE DEF o, fl, nf
  <2>3. QED
    BY <2>1, <2>2 DEF PutAt
<1>5. Q[0] \in Seq(C) /\ IsInjective(Q[0]) /\ 1 \in 1 .. Len(Q[0]) /\ o = Q[0][1] /\ o \in C /\ o \in Range(Q[0])
  <2>1. Q[0] \in Seq(C) /\ IsInjective(Q[0])
    BY <1>2, <1>3
  <2>2. 1 \in 1 .. Len(Q[0])
    BY <1>2 DEF Nth
  <2>3. o = Q[0][1]
    BY <1>2, <2>2 DEF Nth
  <2>4. Q[0][1] \in C /\ Q[0][1] \in Range(Q[0])
    BY <2>1, <2>2, InRange
  <2>5. QED
    BY <2>1, <2>2, <2>3, <2>4
<1>6. o \in Offsets /\ C = C \cup {o} /\ fl = X[o]
  BY <1>2, <1>5 DEF Nexts
<1> HIDE DEF o, k, fl, nf
<1>7. /\ G[index] = o /\ G[0] = fl /\ \A i \in 1 .. n : i # index => G[i] = H[i]
      /\ Y[o] = H[index] /\ \A x \in C : x # o => Y[x] = X[x]
  <2>1. PutFacts(l, c, index, recId, o, fl)
    BY <1>6, PutLinks
  <2>2. QED
    BY <2>1 DEF PutFacts
<1> HIDE DEF C, H, X, G, Y, n
<1>8. Moves(P, G, Y, Q, H, X, n, C, 0, index, 1)
  <2>1. \A i \in 0 .. n : i # 0 /\ i # index => G[i] = H[i]
    <3>1. \A i \in 0 .. n : i = 0 \/ i \in 1 .. n
      BY <1>1
    <3>2. QED
      BY <1>7, <3>1
  <2>2. QED
    BY <1>5, <1>6, <1>7, <2>1 DEF Moves
<1>9. P[0] = Without(Q[0], 1) /\ P[index] = With(Q[0][1], Q[index]) /\ \A i \in 1 .. n : i # index => P[i] = Q[i]
  BY <1>3
<1> HIDE DEF P
<1>10. Links(P, G, Y, n, C)
  BY <1>1, <1>3, <1>5, <1>8, Moved
<1>11. Range(P[index]) = Range(Q[index]) \cup {Q[0][1]}
  <2>1. n \in Nat /\ Links(Q, H, X, n, C) /\ 0 \in 0 .. n /\ index \in 0 .. n /\ 0 # index /\ 1 \in 1 .. Len(Q[0])
    BY <1>1, <1>3, <1>5
  <2>2. Adds(P, Q, index, Q[0][1])
    BY <1>8, <2>1, Moved
  <2>3. QED
    BY <2>2 DEF Adds
<1>12. Len(P[0]) = Len(Q[0]) - 1
  BY <1>5, <1>9, WithoutIs
<1>13. Joins(P, Q, n, index, o)
  <2>1. \A i \in 1 .. n : o \notin Range(Q[i])
    <3>1. \A i, h \in 0 .. n : i # h => Range(Q[i]) \cap Range(Q[h]) = {}
      BY <1>1 DEF Links
    <3>2. QED
      BY <1>3, <1>5, <3>1
  <2>2. QED
    BY <1>5, <1>9, <1>11, <2>1 DEF Joins
<1>14. nf = Len(P[0])
  BY <1>1, <1>12 DEF nf
<1>15. PutMade(k, P, c, l, N, l.recIdPtr, index, recId)
  <2>1. Cells(c) = Cells(c) \cup {o}
    BY <1>6 DEF C
  <2>2. Joins(P, Q, l.numKeys, index, o)
    BY <1>13 DEF n
  <2>3. Links(P, Heads(l.numKeys, fl, KeyPut(l.key, o, index)),
              Nexts(CellPut(l.key, l.cell, o, recId, index)), l.numKeys, Cells(c))
    BY <1>10 DEF n, G, Y, C
  <2>4. c \in Nat /\ l.recIdPtr = PAGE_SIZE - CELL * c /\ l.keyPtr <= l.recIdPtr
    BY <1>1
  <2>5. QED
    BY <1>4, <1>6, <1>14, <2>1, <2>2, <2>3, <2>4, PutKeeps
<1>16. QED
  BY <1>15 DEF k, PutMade

-----------------------------------------------------------------------------
(* Inserting into a leaf whose key is not there. *)

\* The key slots with a new one at place index, over the slot behind the last key.
Shifted(key, n, index, slot) ==
  SubSeq(key, 1, index - 1) \o <<slot>> \o SubSeq(key, index, n) \o SubSeq(key, n + 2, Len(key))

\* Arithmetic.
LEMMA OneMore ==
  ASSUME NEW a \in Nat, NEW b \in Nat
  PROVE  a * b \in Nat /\ (a + 1) * b = a * b + b
OBVIOUS

ShiftedFacts(key, S, n, index, slot) ==
  LET m == Shifted(key, n, index, slot)
  IN  /\ m \in Seq(S) /\ n + 1 <= Len(m) /\ m[index] = slot
      /\ \A i \in 1 .. index - 1 : m[i] = key[i]
      /\ \A i \in index .. n : m[i + 1] = key[i]

\* The key slots after a shift, place by place.
LEMMA ShiftedIs ==
  ASSUME NEW S, NEW key \in Seq(S), NEW n \in 0 .. Len(key), NEW index \in 1 .. n + 1, NEW slot \in S
  PROVE  ShiftedFacts(key, S, n, index, slot)
<1> DEFINE a == SubSeq(key, 1, index - 1)
           b == SubSeq(key, index, n)
           d == SubSeq(key, n + 2, Len(key))
           e == a \o <<slot>>
           f == e \o b
           m == f \o d
           q == Len(key)
<1>1. q \in Nat /\ n \in Nat /\ index \in Nat /\ n <= q /\ 1 <= index /\ index <= n + 1
  BY LenProperties
<1>2. \A i \in 1 .. q : key[i] \in S
  BY ElementOfSeq
<1>3. a \in Seq(S) /\ Len(a) = index - 1 /\ \A i \in 1 .. index - 1 : a[i] = key[i]
  <2>1. \A i \in 1 .. index - 1 : key[i] \in S
    BY <1>1, <1>2
  <2>2. /\ a \in Seq(S) /\ Len(a) = IF 1 <= index - 1 THEN (index - 1) - 1 + 1 ELSE 0
        /\ \A i \in 1 .. (index - 1) - 1 + 1 : a[i] = key[1 + i - 1]
    BY <1>1, <2>1, SubSeqProperties
  <2> HIDE DEF a
  <2>3. \A i \in 1 .. index - 1 : i \in 1 .. (index - 1) - 1 + 1 /\ 1 + i - 1 = i
    BY <1>1
  <2>4. QED
    BY <1>1, <2>2, <2>3
<1>4. b \in Seq(S) /\ Len(b) = n - index + 1 /\ \A i \in 1 .. n - index + 1 : b[i] = key[index + i - 1]
  <2>1. \A i \in index .. n : key[i] \in S
    BY <1>1, <1>2
  <2>2. /\ b \in Seq(S) /\ Len(b) = IF index <= n THEN n - index + 1 ELSE 0
        /\ \A i \in 1 .. n - index + 1 : b[i] = key[index + i - 1]
    BY <1>1, <2>1, SubSeqProperties
  <2> HIDE DEF b
  <2>3. QED
    BY <1>1, <2>2
<1>5. d \in Seq(S) /\ Len(d) \in Nat
  <2>1. \A i \in n + 2 .. q : key[i] \in S
    BY <1>1, <1>2
  <2>2. d \in Seq(S)
    BY <1>1, <2>1, SubSeqProperties
  <2>3. QED
    BY <2>2, LenProperties
<1>6. <<slot>> \in Seq(S) /\ Len(<<slot>>) = 1 /\ <<slot>>[1] = slot
  OBVIOUS
<1> DEFINE t == <<slot>>
<1> HIDE DEF a, b, d, q, t
<1>7. e \in Seq(S) /\ Len(e) = index /\ e[index] = slot /\ \A i \in 1 .. index - 1 : e[i] = key[i]
  <2>1. /\ e \in Seq(S) /\ Len(e) = Len(a) + Len(t)
        /\ \A i \in 1 .. Len(a) + Len(t) : e[i] = IF i <= Len(a) THEN a[i] ELSE t[i - Len(a)]
    BY <1>3, <1>6, ConcatProperties DEF t
  <2> HIDE DEF e
  <2>2. Len(e) = index /\ \A i \in 1 .. index : e[i] = IF i <= index - 1 THEN a[i] ELSE t[i - (index - 1)]
    <3>1. Len(a) = index - 1 /\ Len(t) = 1 /\ Len(a) + Len(t) = index
      BY <1>1, <1>3, <1>6 DEF t
    <3>2. QED
      BY <2>1, <3>1
  <2>3. e[index] = slot
    <3>1. index \in 1 .. index /\ ~ (index <= index - 1) /\ index - (index - 1) = 1
      BY <1>1
    <3>2. QED
      BY <1>6, <2>2, <3>1 DEF t
  <2>4. \A i \in 1 .. index - 1 : e[i] = key[i]
    BY <1>1, <1>3, <2>2
  <2>5. QED
    BY <2>1, <2>2, <2>3, <2>4
<1> HIDE DEF e
<1>8. /\ f \in Seq(S) /\ Len(f) = n + 1 /\ f[index] = slot
      /\ \A i \in 1 .. index - 1 : f[i] = key[i]
      /\ \A i \in index .. n : f[i + 1] = key[i]
  <2>1. /\ f \in Seq(S) /\ Len(f) = Len(e) + Len(b)
        /\ \A i \in 1 .. Len(e) + Len(b) : f[i] = IF i <= Len(e) THEN e[i] ELSE b[i - Len(e)]
    BY <1>4, <1>7, ConcatProperties
  <2> HIDE DEF f
  <2>2. Len(f) = n + 1 /\ \A i \in 1 .. n + 1 : f[i] = IF i <= index THEN e[i] ELSE b[i - index]
    BY <1>1, <1>4, <1>7, <2>1
  <2>3. f[index] = slot /\ \A i \in 1 .. index - 1 : f[i] = key[i]
    BY <1>1, <1>7, <2>2
  <2>4. ASSUME NEW i \in index .. n PROVE f[i + 1] = key[i]
    <3>1. i + 1 \in 1 .. n + 1 /\ ~ (i + 1 <= index) /\ i + 1 - index \in 1 .. n - index + 1
          /\ index + (i + 1 - index) - 1 = i
      BY <1>1
    <3>2. QED
      BY <1>4, <2>2, <3>1
  <2>5. QED
    BY <2>1, <2>2, <2>3, <2>4
<1> HIDE DEF f
<1>9. /\ m \in Seq(S) /\ Len(m) = n + 1 + Len(d) /\ \A i \in 1 .. n + 1 : m[i] = f[i]
  <2>1. /\ m \in Seq(S) /\ Len(m) = Len(f) + Len(d)
        /\ \A i \in 1 .. Len(f) + Len(d) : m[i] = IF i <= Len(f) THEN f[i] ELSE d[i - Len(f)]
    BY <1>5, <1>8, ConcatProperties
  <2> HIDE DEF m
  <2>2. QED
    BY <1>1, <1>5, <1>8, <2>1
<1> HIDE DEF m
<1>10. m[index] = slot /\ \A i \in 1 .. index - 1 : m[i] = key[i]
  <2>1. index \in 1 .. n + 1 /\ \A i \in 1 .. index - 1 : i \in 1 .. n + 1
    BY <1>1
  <2>2. QED
    BY <1>8, <1>9, <2>1
<1>11. \A i \in index .. n : m[i + 1] = key[i]
  <2>1. \A i \in index .. n : i + 1 \in 1 .. n + 1
    BY <1>1
  <2>2. QED
    BY <1>8, <1>9, <2>1
<1>12. n + 1 <= Len(m)
  BY <1>1, <1>5, <1>9
<1>13. QED
  BY <1>9, <1>10, <1>11, <1>12 DEF m, f, e, a, b, d, q, t, Shifted, ShiftedFacts

\* The leaf with a new key at place index, whose list is empty still.
Opened(l, value, index) ==
  LeafOf(l.nextLeafPage, l.recIdPtr, l.keyPtr + recSize, l.freeListPtr, l.numinfreeList, l.numKeys + 1,
         Shifted(l.key, l.numKeys, index, [val |-> value, head |-> AM_NULL]), l.cell)

\* AM_InsertToLeafNotFound makes a place for the key, and then is AM_InsertToLeafFound.
LEMMA OpenedIs ==
  ASSUME NEW l, IsLeafRec(l), NEW value, NEW recId, NEW index
  PROVE  AM_InsertToLeafNotFound(l, value, recId, index)
           = AM_InsertToLeafFound(Opened(l, value, index), recId, index)
<1> DEFINE shifted == Shifted(l.key, l.numKeys, index, [val |-> value, head |-> AM_NULL])
           x == l.keyPtr + recSize
           y == l.numKeys + 1
<1>1. AM_InsertToLeafNotFound(l, value, recId, index)
        = AM_InsertToLeafFound([l EXCEPT !.key = shifted, !.keyPtr = x, !.numKeys = y], recId, index)
  BY DEF AM_InsertToLeafNotFound, Shifted
<1> HIDE DEF shifted, x, y
<1> DEFINE A(k) == LeafOf(l.nextLeafPage, l.recIdPtr, l.keyPtr, l.freeListPtr, l.numinfreeList, l.numKeys, k, l.cell)
           B(k) == LeafOf(l.nextLeafPage, l.recIdPtr, x, l.freeListPtr, l.numinfreeList, l.numKeys, k, l.cell)
           D(k) == LeafOf(l.nextLeafPage, l.recIdPtr, x, l.freeListPtr, l.numinfreeList, y, k, l.cell)
<1>2. l = A(l.key)
  BY DEF IsLeafRec
<1>3. [A(l.key) EXCEPT !.key = shifted] = A(shifted)
  BY DEF LeafOf
<1>4. [A(shifted) EXCEPT !.keyPtr = x] = B(shifted)
  BY DEF LeafOf
<1>5. [B(shifted) EXCEPT !.numKeys = y] = D(shifted)
  BY DEF LeafOf
<1>6. [l EXCEPT !.key = shifted, !.keyPtr = x, !.numKeys = y]
        = [[[l EXCEPT !.key = shifted] EXCEPT !.keyPtr = x] EXCEPT !.numKeys = y]
  OBVIOUS
<1> HIDE DEF A, B, D
<1>7. [l EXCEPT !.key = shifted, !.keyPtr = x, !.numKeys = y] = D(shifted)
  BY <1>2, <1>3, <1>4, <1>5, <1>6
<1>8. QED
  BY <1>1, <1>7 DEF Opened, D, shifted, x, y

\* The value belongs at place index among the keys.
Between(l, value, index) ==
  /\ \A i \in 1 .. index - 1 : l.key[i].val < value
  /\ \A i \in index .. l.numKeys : value < l.key[i].val

OpenedFacts(l, Q, c, N, value, index) ==
  LET k == Opened(l, value, index)
  IN  /\ k.numKeys = l.numKeys + 1 /\ k.key[index].val = value /\ k.nextLeafPage = l.nextLeafPage
      /\ k.recIdPtr = l.recIdPtr /\ k.keyPtr = l.keyPtr + recSize /\ k.freeListPtr = l.freeListPtr
      /\ \A i \in 1 .. index - 1 : k.key[i].val = l.key[i].val
      /\ \A i \in index .. l.numKeys : k.key[i + 1].val = l.key[i].val
      /\ \E P : Woven(k, P, c) /\ HoldsBut(k, P, N, index) /\ P[index] = <<>> /\ P[0] = Q[0]
                /\ \A i \in 1 .. l.numKeys + 1 : i # index => \E h \in 1 .. l.numKeys : P[i] = Q[h]

\* The place made, the lists and what is held are as before.
LEMMA OpenedHolds ==
  ASSUME NEW l, NEW Q, NEW c, Woven(l, Q, c), NEW N \in Counts, HoldsBut(l, Q, N, 0),
         NEW index \in 1 .. l.numKeys + 1, NEW value \in Values, Between(l, value, index),
         Gap(l) >= recSize
  PROVE  OpenedFacts(l, Q, c, N, value, index)
<1> DEFINE n == l.numKeys
           k == Opened(l, value, index)
           slot == [val |-> value, head |-> AM_NULL]
           m == Shifted(l.key, n, index, slot)
           H == Heads(n, l.freeListPtr, l.key)
           X == Nexts(l.cell)
           G == Heads(n + 1, l.freeListPtr, m)
           P == [i \in 0 .. n + 1 |-> IF i = index THEN <<>> ELSE IF i < index THEN Q[i] ELSE Q[i - 1]]
           D == (0 .. n + 1) \ {index}
           f == [i \in 0 .. n + 1 |-> IF i < index THEN i ELSE i - 1]
<1>1. /\ IsLeafRec(l) /\ c \in Nat /\ n \in Nat /\ l.key \in Seq(KeySlot) /\ n <= Len(l.key)
      /\ l.cell \in [Cells(c) -> CellRec] /\ l.recIdPtr = PAGE_SIZE - CELL * c
      /\ l.keyPtr = AM_sl + n * recSize /\ Links(Q, H, X, n, Cells(c)) /\ l.numinfreeList = Len(Q[0])
  BY DEF Woven
<1>2. slot \in KeySlot /\ slot.val = value /\ slot.head = AM_NULL
  BY DEF KeySlot, Offsets
<1>3. n \in 0 .. Len(l.key) /\ Len(l.key) \in Nat
  BY <1>1, LenProperties
<1> HIDE DEF slot
<1>4. /\ m \in Seq(KeySlot) /\ n + 1 <= Len(m) /\ m[index] = slot
      /\ \A i \in 1 .. index - 1 : m[i] = l.key[i]
      /\ \A i \in index .. n : m[i + 1] = l.key[i]
  <2>1. ShiftedFacts(l.key, KeySlot, n, index, slot)
    BY <1>1, <1>2, <1>3, ShiftedIs
  <2>2. QED
    BY <2>1 DEF ShiftedFacts
<1> HIDE DEF m
<1>5. /\ IsLeafRec(k) /\ k.nextLeafPage = l.nextLeafPage /\ k.recIdPtr = l.recIdPtr
      /\ k.keyPtr = l.keyPtr + recSize /\ k.freeListPtr = l.freeListPtr
      /\ k.numinfreeList = l.numinfreeList /\ k.numKeys = n + 1 /\ k.key = m /\ k.cell = l.cell
  BY LeafFields DEF Opened, m, slot
<1> HIDE DEF k
<1>6. k.keyPtr <= k.recIdPtr /\ k.keyPtr = AM_sl + (n + 1) * recSize
  <2> DEFINE y == n * recSize
             z == (n + 1) * recSize
  <2>1. y \in Nat /\ z = y + recSize
    BY <1>1, NumbersAre, OneMore
  <2>2. l.recIdPtr \in Nat /\ l.keyPtr \in Nat /\ l.recIdPtr - l.keyPtr >= recSize
    BY WovenIs DEF Gap
  <2> HIDE DEF y, z
  <2>3. l.keyPtr = AM_sl + y
    BY <1>1 DEF y
  <2>4. l.keyPtr + recSize <= l.recIdPtr /\ l.keyPtr + recSize = AM_sl + z
    BY <2>1, <2>2, <2>3, NumbersAre
  <2>5. QED
    BY <1>5, <2>4 DEF z
<1>7. \A i \in 0 .. n + 1 : G[i] = IF i = 0 THEN l.freeListPtr ELSE m[i].head
  BY DEF Heads
<1>8. \A i \in 0 .. n : H[i] = IF i = 0 THEN l.freeListPtr ELSE l.key[i].head
  BY DEF Heads
<1>9. ASSUME NEW i \in 0 .. n + 1
      PROVE  IF i \in D THEN f[i] \in 0 .. n /\ P[i] = Q[f[i]] /\ G[i] = H[f[i]]
             ELSE P[i] = <<>> /\ G[i] = AM_NULL
  <2> HIDE DEF G, H
  <2>1. CASE i = index
    <3>1. i # 0 /\ i \notin D /\ P[i] = <<>> /\ G[i] = AM_NULL
      BY <1>1, <1>2, <1>4, <1>7, <2>1
    <3>2. QED
      BY <3>1
  <2>2. CASE i < index
    <3>1. i \in D /\ f[i] = i /\ i \in 0 .. n /\ P[i] = Q[i]
      BY <1>1, <2>2
    <3>2. G[i] = H[i]
      <4>1. CASE i = 0
        BY <1>7, <1>8, <3>1, <4>1
      <4>2. CASE i # 0
        <5>1. i \in 1 .. index - 1
          BY <1>1, <2>2, <4>2
        <5>2. QED
          BY <1>4, <1>7, <1>8, <3>1, <4>2, <5>1
      <4>3. QED
        BY <4>1, <4>2
    <3> HIDE DEF P, D, f
    <3>3. QED
      BY <3>1, <3>2
  <2>3. CASE i > index
    <3>1. i \in D /\ f[i] = i - 1 /\ i - 1 \in 0 .. n /\ P[i] = Q[i - 1]
      BY <1>1, <2>3
    <3>2. i - 1 \in index .. n /\ (i - 1) + 1 = i /\ i # 0 /\ i - 1 # 0
      BY <1>1, <2>3
    <3>3. m[i] = l.key[i - 1]
      BY <1>4, <3>2
    <3>4. G[i] = H[i - 1]
      BY <1>7, <1>8, <3>1, <3>2, <3>3
    <3> HIDE DEF P, D, f
    <3>5. QED
      BY <3>1, <3>4
  <2>4. i = index \/ i < index \/ i > index
    BY <1>1
  <2>5. QED
    BY <2>1, <2>2, <2>3, <2>4
<1>10. ASSUME NEW i \in 0 .. n + 1, NEW h \in 0 .. n + 1, i \in D, h \in D, f[i] = f[h] PROVE i = h
  <2>1. i # index /\ h # index /\ (i < index => f[i] = i) /\ (~ (i < index) => f[i] = i - 1)
        /\ (h < index => f[h] = h) /\ (~ (h < index) => f[h] = h - 1)
    BY <1>10
  <2>2. i \in Int /\ h \in Int /\ index \in Int
    BY <1>1
  <2> HIDE DEF f, D
  <2>3. QED
    BY <1>10, <2>1, <2>2
<1>11. ASSUME NEW h \in 0 .. n PROVE \E i \in 0 .. n + 1 : i \in D /\ f[i] = h
  <2>1. CASE h < index
    <3>1. h \in 0 .. n + 1 /\ h \in D /\ f[h] = h
      BY <1>1, <2>1
    <3>2. QED
      BY <3>1
  <2>2. CASE ~ (h < index)
    <3>1. h + 1 \in 0 .. n + 1 /\ h + 1 \in D /\ f[h + 1] = h
      BY <1>1, <2>2
    <3>2. QED
      BY <3>1
  <2>3. QED
    BY <2>1, <2>2
<1>12. DOMAIN P = 0 .. n + 1 /\ P = [i \in 0 .. n + 1 |-> P[i]]
  OBVIOUS
<1>13. n + 1 \in Nat
  BY <1>1
<1>14. P[index] = <<>> /\ P[0] = Q[0]
  BY <1>1
<1>15. ASSUME NEW i \in 1 .. n + 1, i # index PROVE f[i] \in 1 .. n /\ P[i] = Q[f[i]] /\ m[i] = l.key[f[i]]
  <2>1. f[i] \in 1 .. n
    BY <1>1, <1>15
  <2>2. i \in 0 .. n + 1 /\ i \in D
    BY <1>15
  <2>3. P[i] = Q[f[i]]
    BY <1>9, <2>2
  <2>4. m[i] = l.key[f[i]]
    <3>1. CASE i < index
      <4>1. i \in 1 .. index - 1 /\ f[i] = i
        BY <1>1, <3>1
      <4>2. QED
        BY <1>4, <4>1
    <3>2. CASE i > index
      <4>1. i - 1 \in index .. n /\ (i - 1) + 1 = i /\ f[i] = i - 1
        BY <1>1, <3>2
      <4>2. QED
        BY <1>4, <4>1
    <3>3. QED
      BY <1>1, <1>15, <3>1, <3>2
  <2>5. QED
    BY <2>1, <2>3, <2>4
<1> HIDE DEF P, D, f, G, H, X, n
<1>16. Links(P, G, X, n + 1, Cells(c))
  <2>1. \A h \in 0 .. n : Q[h] # <<>> => \E i \in 0 .. n + 1 : i \in D /\ f[i] = h
    BY <1>11
  <2>2. \A i \in 0 .. n + 1 : \A h \in 0 .. n + 1 : i \in D /\ h \in D /\ f[i] = f[h] => i = h
    BY <1>10
  <2>3. QED
    <3>1. Renamed(P, G, Q, H, n, n + 1, D, f)
      BY <1>9, <1>12, <2>1, <2>2 DEF Renamed
    <3>2. QED
      BY <1>1, <1>13, <3>1, Reindexed
<1>17. Woven(k, P, c)
  <2>1. k.numinfreeList = Len(P[0])
    BY <1>1, <1>5, <1>14
  <2>2. Links(P, Heads(k.numKeys, k.freeListPtr, k.key), Nexts(k.cell), k.numKeys, Cells(c))
    BY <1>5, <1>16 DEF G, X
  <2>3. k.recIdPtr = PAGE_SIZE - CELL * c /\ k.keyPtr = AM_sl + k.numKeys * recSize
    BY <1>1, <1>5, <1>6
  <2>4. QED
    BY <1>1, <1>4, <1>5, <1>6, <1>13, <2>1, <2>2, <2>3 DEF Woven
<1>18. \A i \in 1 .. index - 1 : k.key[i].val = l.key[i].val
  BY <1>4, <1>5
<1>19. \A i \in index .. n : k.key[i + 1].val = l.key[i].val
  BY <1>4, <1>5
<1>20. k.key[index].val = value
  BY <1>2, <1>4, <1>5
<1>21. /\ \A i, j \in 1 .. n : i < j => l.key[i].val < l.key[j].val
       /\ \A i \in 1 .. n : Q[i] # <<>>
       /\ \A i \in 1 .. n : \A r \in RecIds : Cardinality(Fibre(l, Q, i, r)) = N[l.key[i].val][r]
       /\ \A v \in Values : (\A i \in 1 .. n : l.key[i].val # v) => \A r \in RecIds : N[v][r] = 0
  <2>1. \A i \in 1 .. n : i # 0
    BY <1>1
  <2>2. QED
    BY <2>1 DEF HoldsBut, n
<1>22. /\ \A i \in 1 .. index - 1 : l.key[i].val < value
       /\ \A i \in index .. n : value < l.key[i].val
  BY DEF Between, n
<1>23. \A i \in 1 .. n : l.key[i].val \in Int /\ l.key[i].val \in Values
  <2>1. \A i \in 1 .. n : l.key[i].val \in Values
    BY WovenIs DEF n
  <2>2. QED
    BY <2>1, AMAssumption DEF Values
<1>24. value \in Int
  BY AMAssumption DEF Values
<1>25. \A i \in 1 .. n : l.key[i].val # value
  <2>1. \A i \in 1 .. n : i \in 1 .. index - 1 \/ i \in index .. n
    BY <1>1
  <2>2. QED
    BY <1>22, <1>23, <1>24, <2>1
<1>26. ASSUME NEW i \in 1 .. n + 1, NEW j \in 1 .. n + 1, i < j PROVE k.key[i].val < k.key[j].val
  <2>1. CASE i = index
    <3>1. f[j] \in index .. n /\ j # index
      BY <1>1, <1>26, <2>1 DEF f
    <3>2. k.key[j].val = l.key[f[j]].val
      BY <1>5, <1>15, <3>1
    <3>3. QED
      BY <1>20, <1>22, <2>1, <3>1, <3>2
  <2>2. CASE j = index
    <3>1. f[i] \in 1 .. index - 1 /\ i # index
      BY <1>1, <1>26, <2>2 DEF f
    <3>2. k.key[i].val = l.key[f[i]].val
      BY <1>5, <1>15, <3>1
    <3>3. QED
      BY <1>20, <1>22, <2>2, <3>1, <3>2
  <2>3. CASE i # index /\ j # index
    <3>1. f[i] < f[j]
      BY <1>1, <1>26, <2>3 DEF f
    <3>2. k.key[j].val = l.key[f[j]].val /\ k.key[i].val = l.key[f[i]].val /\ f[i] \in 1 .. n /\ f[j] \in 1 .. n
      BY <1>5, <1>15, <2>3
    <3>3. QED
      BY <1>21, <3>1, <3>2
  <2>4. QED
    BY <2>1, <2>2, <2>3
<1>27. ASSUME NEW i \in 1 .. n + 1, NEW r \in RecIds
       PROVE  Cardinality(Fibre(k, P, i, r)) = N[k.key[i].val][r]
  <2>1. CASE i = index
    <3>1. Fibre(k, P, i, r) = {}
      BY <1>14, <2>1 DEF Fibre, Range
    <3>2. N[value][r] = 0
      BY <1>21, <1>25
    <3>3. QED
      BY <1>20, <2>1, <3>1, <3>2, FS_EmptySet
  <2>2. CASE i # index
    <3>1. f[i] \in 1 .. n /\ P[i] = Q[f[i]] /\ k.key[i].val = l.key[f[i]].val
      BY <1>5, <1>15, <2>2
    <3>2. Fibre(k, P, i, r) = Fibre(l, Q, f[i], r)
      BY <1>5, <3>1 DEF Fibre
    <3>3. QED
      BY <1>21, <3>1, <3>2
  <2>3. QED
    BY <2>1, <2>2
<1>28. ASSUME NEW v \in Values, \A i \in 1 .. n + 1 : k.key[i].val # v, NEW r \in RecIds
       PROVE  N[v][r] = 0
  <2>1. ASSUME NEW h \in 1 .. n PROVE l.key[h].val # v
    <3>1. CASE h < index
      <4>1. h \in 1 .. index - 1 /\ h \in 1 .. n + 1
        BY <1>1, <3>1
      <4>2. QED
        BY <1>18, <1>28, <4>1
    <3>2. CASE ~ (h < index)
      <4>1. h \in index .. n /\ h + 1 \in 1 .. n + 1
        BY <1>1, <3>2
      <4>2. QED
        BY <1>19, <1>28, <4>1
    <3>3. QED
      BY <3>1, <3>2
  <2>2. QED
    BY <1>21, <2>1
<1>29. \A i \in 1 .. n + 1 : i # index => P[i] # <<>>
  BY <1>15, <1>21
<1>30. HoldsBut(k, P, N, index)
  BY <1>5, <1>26, <1>27, <1>28, <1>29 DEF HoldsBut
<1>31. \A i \in 1 .. n + 1 : i # index => \E h \in 1 .. n : P[i] = Q[h]
  BY <1>15
<1>32. k = Opened(l, value, index)
  BY DEF k
<1> QED
  BY <1>5, <1>14, <1>17, <1>18, <1>19, <1>20, <1>30, <1>31, <1>32 DEF OpenedFacts, n

-----------------------------------------------------------------------------
(* How many cells there are. *)

\* What fits: no entry more often than MaxCopies, and none that is not in Pairs.
Small(N) == \A v \in Values : \A r \in RecIds : N[v][r] <= IF r \in RecsOf(v) THEN MaxCopies ELSE 0
Most(v) == Cardinality(RecsOf(v)) * MaxCopies

\* There are finitely many record identifiers.
LEMMA RecIdsFinite == IsFiniteSet(RecIds) /\ \A v : IsFiniteSet(RecsOf(v))
<1> DEFINE f == [pair \in Pairs |-> pair[2]]
<1>1. f \in Surjection(Pairs, RecIds)
  BY DEF Surjection, RecIds
<1>2. IsFiniteSet(RecIds)
  <2> HIDE DEF f
  <2>1. QED
    BY <1>1, AMAssumption, FS_Surjection
<1>3. \A v : RecsOf(v) \in SUBSET RecIds
  BY DEF RecsOf
<1>4. QED
  BY <1>2, <1>3, FS_Subset

\* What FewCopies says: all entries of a value and two keys fit in a leaf.
LEMMA MostIs ==
  ASSUME FewCopies, NEW v \in Values
  PROVE  Most(v) \in Nat /\ PAGE_SIZE > AM_sl + 2 * recSize + CELL * (Most(v) + 1)
<1>1. Cardinality(RecsOf(v)) \in Nat
  BY RecIdsFinite, FS_CardinalityType
<1>2. Most(v) \in Nat
  <2> DEFINE x == Cardinality(RecsOf(v))
  <2>1. x \in Nat /\ MaxCopies \in Nat
    BY <1>1, AMAssumption
  <2> HIDE DEF x
  <2>2. x * MaxCopies \in Nat
    BY <2>1
  <2>3. QED
    BY <2>2 DEF Most, x
<1>3. QED
  BY <1>2 DEF FewCopies, Most

\* A list with few copies of each record is short.
LEMMA Pigeon ==
  ASSUME NEW l, NEW Q, NEW c, Woven(l, Q, c), NEW N \in Counts, NEW e, HoldsBut(l, Q, N, e), Small(N),
         NEW i \in 1 .. l.numKeys
  PROVE  Len(Q[i]) <= Most(l.key[i].val)
<1> DEFINE v == l.key[i].val
           S == Range(Q[i])
           F(r) == Fibre(l, Q, i, r)
           b(r) == CHOOSE f : f \in Bijection(1 .. Cardinality(F(r)), F(r))
           T == RecsOf(v) \X (1 .. MaxCopies)
           at(x) == CHOOSE k \in 1 .. Cardinality(F(l.cell[x].recId)) : b(l.cell[x].recId)[k] = x
           g == [x \in S |-> <<l.cell[x].recId, at(x)>>]
<1>1. /\ l.numKeys \in Nat /\ i \in 0 .. l.numKeys /\ v \in Values /\ l.cell \in [Cells(c) -> CellRec]
      /\ \A r \in RecIds : Cardinality(F(r)) = N[v][r]
  <2>1. l.numKeys \in Nat /\ l.cell \in [Cells(c) -> CellRec]
    BY DEF Woven
  <2>2. v \in Values
    BY WovenIs
  <2>3. QED
    BY <2>1, <2>2 DEF HoldsBut
<1>2. Q[i] \in Seq(Cells(c)) /\ IsInjective(Q[i])
  BY <1>1, WovenIs
<1>3. IsFiniteSet(S) /\ Cardinality(S) = Len(Q[i])
  BY <1>2, RangeCount
<1>4. \A x \in S : x \in Cells(c) /\ l.cell[x].recId \in RecIds /\ x \in F(l.cell[x].recId)
  <2>1. \A x \in S : x \in Cells(c)
    BY <1>2, InRange
  <2>2. QED
    BY <1>1, <2>1 DEF CellRec, Fibre
<1>5. ASSUME NEW r \in RecIds
      PROVE  /\ IsFiniteSet(F(r)) /\ b(r) \in Bijection(1 .. Cardinality(F(r)), F(r))
             /\ Cardinality(F(r)) \in Nat
  <2>1. F(r) \in SUBSET S
    BY DEF Fibre
  <2>2. IsFiniteSet(F(r))
    BY <1>3, <2>1, FS_Subset
  <2> HIDE DEF F
  <2>3. ExistsBijection(1 .. Cardinality(F(r)), F(r)) /\ Cardinality(F(r)) \in Nat
    BY <2>2, FS_CardinalityType
  <2>4. QED
    BY <2>2, <2>3 DEF ExistsBijection
<1> HIDE DEF F, b
<1>6. ASSUME NEW x \in S
      PROVE  LET r == l.cell[x].recId
             IN  /\ at(x) \in 1 .. Cardinality(F(r)) /\ b(r)[at(x)] = x
                 /\ r \in RecsOf(v) /\ Cardinality(F(r)) \in Nat /\ Cardinality(F(r)) <= MaxCopies
  <2> DEFINE r == l.cell[x].recId
  <2>1. r \in RecIds /\ x \in F(r)
    BY <1>4
  <2>2. b(r) \in Bijection(1 .. Cardinality(F(r)), F(r)) /\ IsFiniteSet(F(r)) /\ Cardinality(F(r)) \in Nat
    BY <1>5, <2>1
  <2>3. \E k \in 1 .. Cardinality(F(r)) : b(r)[k] = x
    BY <2>1, <2>2 DEF Bijection, Surjection
  <2>4. Cardinality(F(r)) # 0
    BY <2>1, <2>2, FS_EmptySet
  <2>5. Cardinality(F(r)) <= IF r \in RecsOf(v) THEN MaxCopies ELSE 0
    BY <1>1, <2>1 DEF Small
  <2>6. r \in RecsOf(v) /\ Cardinality(F(r)) <= MaxCopies
    BY <2>2, <2>4, <2>5
  <2> HIDE DEF r
  <2>7. at(x) \in 1 .. Cardinality(F(r)) /\ b(r)[at(x)] = x
    BY <2>3 DEF r
  <2>8. QED
    BY <2>2, <2>6, <2>7 DEF r
<1> HIDE DEF at
<1>7. g \in [S -> T]
  <2>1. ASSUME NEW x \in S PROVE <<l.cell[x].recId, at(x)>> \in T
    <3>1. at(x) \in 1 .. MaxCopies
      BY <1>6, AMAssumption
    <3>2. QED
      BY <1>6, <3>1
  <2>2. QED
    BY <2>1
<1>8. ASSUME NEW x \in S, NEW y \in S, g[x] = g[y] PROVE x = y
  <2>1. l.cell[x].recId = l.cell[y].recId /\ at(x) = at(y)
    BY <1>8
  <2>2. QED
    BY <1>6, <2>1
<1> HIDE DEF g, S, T
<1>9. g \in Injection(S, T)
  BY <1>7, <1>8 DEF Injection, IsInjective
<1>10. IsFiniteSet(T) /\ Cardinality(T) = Most(v)
  <2>1. IsFiniteSet(1 .. MaxCopies) /\ Cardinality(1 .. MaxCopies) = MaxCopies
    <3>1. 1 \in Int /\ MaxCopies \in Int /\ MaxCopies \in Nat
      BY AMAssumption
    <3>2. /\ IsFiniteSet(1 .. MaxCopies)
          /\ Cardinality(1 .. MaxCopies) = IF 1 > MaxCopies THEN 0 ELSE MaxCopies - 1 + 1
      BY <3>1, FS_Interval
    <3>3. QED
      BY <3>1, <3>2
  <2>2. IsFiniteSet(RecsOf(v))
    BY RecIdsFinite
  <2>3. QED
    BY <2>1, <2>2, FS_Product DEF T, Most
<1>11. Cardinality(S) <= Cardinality(T)
  BY <1>9, <1>10, FS_Injection
<1>12. QED
  BY <1>3, <1>10, <1>11

-----------------------------------------------------------------------------
(* The cells that some of the lists use. *)

Used(Q, a, b) == UNION {Range(Q[i]) : i \in a .. b}

\* The cells used by the keys from a to b.
LEMMA UsedIs ==
  ASSUME NEW l, NEW Q, NEW c, Woven(l, Q, c), NEW a \in 1 .. l.numKeys + 1, NEW b \in 0 .. l.numKeys
  PROVE  /\ IsFiniteSet(Used(Q, a, b)) /\ Cardinality(Used(Q, a, b)) \in Nat
         /\ Cardinality(Used(Q, a, b)) <= c
         /\ (b < a => Cardinality(Used(Q, a, b)) = 0)
<1>1. l.numKeys \in Nat /\ c \in Nat
  BY DEF Woven
<1>2. Used(Q, a, b) \in SUBSET Cells(c)
  <2>1. ASSUME NEW i \in a .. b PROVE Range(Q[i]) \subseteq Cells(c)
    <3>1. i \in 0 .. l.numKeys
      BY <1>1
    <3>2. Q[i] \in Seq(Cells(c))
      BY <3>1, WovenIs
    <3>3. QED
      BY <3>2, InRange
  <2>2. QED
    BY <2>1 DEF Used
<1>3. IsFiniteSet(Cells(c)) /\ Cardinality(Cells(c)) = c
  BY <1>1, CellsCount
<1>4. IsFiniteSet(Used(Q, a, b)) /\ Cardinality(Used(Q, a, b)) <= c
  BY <1>2, <1>3, FS_Subset
<1>5. Cardinality(Used(Q, a, b)) \in Nat
  BY <1>4, FS_CardinalityType
<1>6. b < a => Used(Q, a, b) = {}
  <2>1. b < a => a .. b = {}
    BY <1>1
  <2>2. QED
    BY <2>1 DEF Used
<1>7. QED
  BY <1>4, <1>5, <1>6, FS_EmptySet

\* The list of one more key.
LEMMA UsedMore ==
  ASSUME NEW l, NEW Q, NEW c, Woven(l, Q, c), NEW a \in 1 .. l.numKeys, NEW b \in a .. l.numKeys
  PROVE  /\ Cardinality(Used(Q, a, b)) = Cardinality(Used(Q, a, b - 1)) + Len(Q[b])
         /\ Cardinality(Used(Q, a, b)) <= Cardinality(Used(Q, a, l.numKeys))
<1>1. l.numKeys \in Nat
  BY DEF Woven
<1>2. a \in 1 .. l.numKeys + 1 /\ b \in 0 .. l.numKeys /\ b - 1 \in 0 .. l.numKeys /\ l.numKeys \in 0 .. l.numKeys
  BY <1>1
<1>3. IsFiniteSet(Used(Q, a, b - 1)) /\ Cardinality(Used(Q, a, b - 1)) \in Nat /\ IsFiniteSet(Used(Q, a, l.numKeys))
  BY <1>2, UsedIs
<1>4. Used(Q, a, b) = Used(Q, a, b - 1) \cup Range(Q[b])
  <2>1. a .. b = (a .. b - 1) \cup {b}
    BY <1>1
  <2>2. QED
    BY <2>1 DEF Used
<1>5. Used(Q, a, b - 1) \cap Range(Q[b]) = {}
  <2>1. \A i, j \in 0 .. l.numKeys : i # j => Range(Q[i]) \cap Range(Q[j]) = {}
    BY DEF Woven, Links
  <2>2. \A i \in a .. b - 1 : i \in 0 .. l.numKeys /\ i # b
    BY <1>1
  <2>3. QED
    BY <1>2, <2>1, <2>2 DEF Used
<1>6. IsFiniteSet(Range(Q[b])) /\ Cardinality(Range(Q[b])) = Len(Q[b]) /\ Len(Q[b]) \in Nat
  <2>1. Q[b] \in Seq(Cells(c)) /\ IsInjective(Q[b])
    BY <1>2, WovenIs
  <2>2. QED
    BY <2>1, RangeCount, LenProperties
<1>7. Cardinality(Used(Q, a, b)) = Cardinality(Used(Q, a, b - 1)) + Len(Q[b])
  <2>1. Cardinality(Used(Q, a, b - 1) \cup Range(Q[b]))
          = Cardinality(Used(Q, a, b - 1)) + Cardinality(Range(Q[b])) - Cardinality(Used(Q, a, b - 1) \cap Range(Q[b]))
    BY <1>3, <1>6, FS_Union
  <2>2. Cardinality(Used(Q, a, b - 1) \cap Range(Q[b])) = 0
    BY <1>5, FS_EmptySet
  <2>3. QED
    BY <1>3, <1>4, <1>6, <2>1, <2>2
<1>8. Used(Q, a, b) \in SUBSET Used(Q, a, l.numKeys)
  <2>1. a .. b \subseteq a .. l.numKeys
    BY <1>1
  <2>2. QED
    BY <2>1 DEF Used
<1>9. QED
  BY <1>3, <1>7, <1>8, FS_Subset

\* The keys up to h, those from h + 1 on and the free list use all the cells.
LEMMA UsedAll ==
  ASSUME NEW l, NEW Q, NEW c, Woven(l, Q, c), NEW h \in 0 .. l.numKeys
  PROVE  Cardinality(Used(Q, 1, h)) + Cardinality(Used(Q, h + 1, l.numKeys)) + Len(Q[0]) = c
<1> DEFINE n == l.numKeys
           A == Used(Q, 1, h)
           B == Used(Q, h + 1, n)
           F == Range(Q[0])
<1>1. n \in Nat /\ c \in Nat
  BY DEF Woven
<1>2. /\ 1 \in 1 .. n + 1 /\ h \in 0 .. n /\ h + 1 \in 1 .. n + 1 /\ n \in 0 .. n /\ 0 \in 0 .. n
      /\ \A i \in 1 .. h : i \in 0 .. n /\ i # 0
      /\ \A i \in h + 1 .. n : i \in 0 .. n /\ i # 0
      /\ \A i \in 1 .. h : \A j \in h + 1 .. n : i # j
      /\ \A i \in 0 .. n : i = 0 \/ i \in 1 .. h \/ i \in h + 1 .. n
  BY <1>1
<1>3. /\ \A i, j \in 0 .. n : i # j => Range(Q[i]) \cap Range(Q[j]) = {}
      /\ \A o \in Cells(c) : \E i \in 0 .. n : o \in Range(Q[i])
  BY DEF Woven, Links
<1>4. \A i \in 0 .. n : Range(Q[i]) \subseteq Cells(c)
  <2>1. \A i \in 0 .. n : Q[i] \in Seq(Cells(c))
    BY WovenIs
  <2>2. QED
    BY <2>1, InRange
<1>5. A \cap B = {}
  BY <1>2, <1>3 DEF Used
<1>6. (A \cup B) \cap F = {}
  <2>1. \A i \in 1 .. n : i \in 0 .. n /\ i # 0
    BY <1>1
  <2>2. \A i \in 1 .. n : Range(Q[i]) \cap F = {}
    BY <1>2, <1>3, <2>1
  <2>3. \A o \in A \cup B : \E i \in 1 .. n : o \in Range(Q[i])
    <3>1. (\A i \in 1 .. h : i \in 1 .. n) /\ (\A i \in h + 1 .. n : i \in 1 .. n)
      BY <1>1
    <3>2. QED
      BY <3>1 DEF Used
  <2> HIDE DEF A, B, F
  <2>4. QED
    BY <2>2, <2>3
<1>7. (A \cup B) \cup F = Cells(c)
  <2>1. (A \cup B) \cup F \subseteq Cells(c)
    BY <1>2, <1>4 DEF Used
  <2>2. ASSUME NEW o \in Cells(c) PROVE o \in (A \cup B) \cup F
    <3>1. PICK i \in 0 .. n : o \in Range(Q[i])
      BY <1>3
    <3>2. i = 0 \/ i \in 1 .. h \/ i \in h + 1 .. n
      BY <1>2
    <3>3. QED
      BY <3>1, <3>2 DEF Used
  <2>3. QED
    BY <2>1, <2>2
<1>8. /\ IsFiniteSet(A) /\ Cardinality(A) \in Nat /\ IsFiniteSet(B) /\ Cardinality(B) \in Nat
  BY <1>2, UsedIs
<1>9. IsFiniteSet(F) /\ Cardinality(F) = Len(Q[0]) /\ Len(Q[0]) \in Nat
  <2>1. Q[0] \in Seq(Cells(c)) /\ IsInjective(Q[0])
    BY <1>2, WovenIs
  <2>2. QED
    BY <2>1, RangeCount, LenProperties
<1> HIDE DEF A, B, F
<1>10. IsFiniteSet(A \cup B) /\ Cardinality(A \cup B) = Cardinality(A) + Cardinality(B)
  <2>1. Cardinality(A \cap B) = 0
    BY <1>5, FS_EmptySet
  <2>2. IsFiniteSet(A \cup B) /\ Cardinality(A \cup B) = Cardinality(A) + Cardinality(B) - Cardinality(A \cap B)
    BY <1>8, FS_Union
  <2>3. QED
    BY <1>8, <2>1, <2>2
<1>11. Cardinality((A \cup B) \cup F) = Cardinality(A) + Cardinality(B) + Len(Q[0])
  <2>1. Cardinality((A \cup B) \cap F) = 0
    BY <1>6, FS_EmptySet
  <2>2. Cardinality((A \cup B) \cup F) = Cardinality(A \cup B) + Cardinality(F) - Cardinality((A \cup B) \cap F)
    BY <1>9, <1>10, FS_Union
  <2>3. QED
    BY <1>8, <1>9, <1>10, <2>1, <2>2
<1>12. Cardinality(Cells(c)) = c
  BY <1>1, CellsCount
<1>13. QED
  BY <1>7, <1>11, <1>12 DEF A, B

\* The least number of a set of them.
LEMMA LeastIs ==
  ASSUME NEW S, S \subseteq Nat, NEW x \in S
  PROVE  \E d \in S : \A y \in S : d <= y
<1>1. PICK d \in S : \A y \in S : ~ (<<y, d>> \in OpToRel(<, Nat))
  BY NatLessThanWellFounded, WFMin
<1>2. ASSUME NEW y \in S PROVE d <= y
  <2>1. <<y, d>> \in Nat \X Nat /\ y \in Nat /\ d \in Nat
    OBVIOUS
  <2>2. ~ (y < d)
    BY <1>1, <2>1 DEF OpToRel
  <2>3. QED
    BY <2>1, <2>2
<1>3. QED
  BY <1>2

-----------------------------------------------------------------------------
(* Lists laid one after the other. *)

\* How many records come before the i-th list: what AM_Compact counts.
BeforeOf(recs) ==
  LET before[i \in 1 .. Len(recs) + 1] == IF i = 1 THEN 0 ELSE before[i - 1] + Len(recs[i - 1])
  IN  before

\* The cells laid before each list are counted by BeforeOf.
LEMMA BeforeIs ==
  ASSUME NEW recs, NEW m \in Nat, Len(recs) = m, NEW B, B = [i \in 1 .. m + 1 |-> B[i]], B[1] = 0,
         \A i \in 1 .. m : B[i + 1] = B[i] + Len(recs[i])
  PROVE  BeforeOf(recs) = B
<1> DEFINE Eq(f) == f = [i \in 1 .. m + 1 |-> IF i = 1 THEN 0 ELSE f[i - 1] + Len(recs[i - 1])]
           F == CHOOSE f : Eq(f)
           T == {k \in Nat : k \in 1 .. m + 1 => F[k] = B[k]}
<1>1. Eq(B)
  <2>1. ASSUME NEW i \in 1 .. m + 1, i # 1 PROVE B[i] = B[i - 1] + Len(recs[i - 1])
    <3>1. i - 1 \in 1 .. m /\ (i - 1) + 1 = i
      BY <2>1
    <3>2. QED
      BY <3>1
  <2>2. \A i \in 1 .. m + 1 : B[i] = IF i = 1 THEN 0 ELSE B[i - 1] + Len(recs[i - 1])
    BY <2>1
  <2>3. QED
    BY <2>2
<1>2. Eq(F)
  <2> HIDE DEF Eq
  <2>1. QED
    BY <1>1
<1>3. BeforeOf(recs) = F
  BY DEF BeforeOf
<1> HIDE DEF F
<1>4. \A i \in 1 .. m + 1 : F[i] = IF i = 1 THEN 0 ELSE F[i - 1] + Len(recs[i - 1])
  BY <1>2
<1>5. 0 \in T
  OBVIOUS
<1>6. ASSUME NEW k \in Nat, k \in T PROVE k + 1 \in T
  <2> SUFFICES ASSUME k + 1 \in 1 .. m + 1 PROVE F[k + 1] = B[k + 1]
    OBVIOUS
  <2>1. CASE k = 0
    <3>1. k + 1 = 1
      BY <2>1
    <3>2. QED
      BY <1>4, <3>1
  <2>2. CASE k # 0
    <3>1. k \in 1 .. m /\ k \in 1 .. m + 1 /\ k + 1 # 1 /\ (k + 1) - 1 = k
      BY <2>2
    <3>2. F[k] = B[k]
      BY <1>6, <3>1
    <3>3. F[k + 1] = F[k] + Len(recs[k])
      BY <1>4, <3>1
    <3>4. QED
      BY <3>1, <3>2, <3>3
  <2>3. QED
    BY <2>1, <2>2
<1>7. Nat \subseteq T
  <2> HIDE DEF T
  <2>1. QED
    BY <1>5, <1>6, SetInduction
<1>8. \A i \in 1 .. m + 1 : F[i] = B[i]
  BY <1>7
<1>9. F = [i \in 1 .. m + 1 |-> F[i]]
  BY <1>2
<1>10. QED
  BY <1>3, <1>8, <1>9

\* B says how many places come before each of m lists, each of L[i] places.
Blocks(B, L, m) ==
  /\ B[1] = 0
  /\ \A i \in 1 .. m : B[i] \in Nat /\ L[i] \in Nat /\ B[i + 1] = B[i] + L[i]
  /\ \A i \in 1 .. m : \A j \in i .. m : B[i + 1] <= B[j + 1]

\* Each place is in one list.
LEMMA BlockOf ==
  ASSUME NEW m \in Nat, NEW B, NEW L, Blocks(B, L, m), NEW k \in 1 .. B[m + 1]
  PROVE  /\ \E i \in 1 .. m : B[i] < k /\ k <= B[i + 1]
         /\ \A i, j \in 1 .. m : B[i] < k /\ k <= B[i + 1] /\ B[j] < k /\ k <= B[j + 1] => i = j
<1>1. /\ B[1] = 0
      /\ \A i \in 1 .. m : B[i] \in Nat /\ L[i] \in Nat /\ B[i + 1] = B[i] + L[i]
      /\ \A i \in 1 .. m : \A j \in i .. m : B[i + 1] <= B[j + 1]
  BY DEF Blocks
<1>2. m # 0
  BY <1>1
<1>3. m \in 1 .. m /\ B[m + 1] \in Nat /\ k \in Nat
  BY <1>1, <1>2
<1> DEFINE S == {i \in 1 .. m : k <= B[i + 1]}
<1>4. S \subseteq Nat /\ m \in S
  BY <1>3
<1>5. PICK d \in S : \A y \in S : d <= y
  BY <1>4, LeastIs
<1>6. B[d] < k
  <2>1. CASE d = 1
    BY <1>1, <1>3, <2>1
  <2>2. CASE d # 1
    <3>1. d - 1 \in 1 .. m /\ (d - 1) + 1 = d /\ ~ (d <= d - 1)
      BY <1>5, <2>2
    <3>2. d - 1 \notin S
      BY <1>5, <3>1
    <3>3. ~ (k <= B[d])
      BY <3>1, <3>2
    <3>4. B[d] \in Nat
      BY <1>1
    <3>5. QED
      BY <1>3, <3>3, <3>4
  <2>3. QED
    BY <2>1, <2>2
<1>7. ASSUME NEW i \in 1 .. m, NEW j \in 1 .. m, B[i] < k, k <= B[i + 1], B[j] < k, k <= B[j + 1], i < j
      PROVE  FALSE
  <2>1. j - 1 \in 1 .. m /\ j - 1 \in i .. m /\ (j - 1) + 1 = j
    BY <1>7
  <2>2. B[i + 1] <= B[j]
    BY <1>1, <2>1
  <2>3. B[i + 1] \in Nat /\ B[j] \in Nat
    BY <1>1
  <2>4. QED
    BY <1>3, <1>7, <2>2, <2>3
<1>8. ASSUME NEW i \in 1 .. m, NEW j \in 1 .. m, B[i] < k, k <= B[i + 1], B[j] < k, k <= B[j + 1]
      PROVE  i = j
  <2>1. i < j \/ j < i \/ i = j
    OBVIOUS
  <2>2. QED
    BY <1>7, <1>8, <2>1
<1>9. d \in 1 .. m /\ k <= B[d + 1]
  BY <1>5
<1>10. QED
  BY <1>6, <1>8, <1>9

-----------------------------------------------------------------------------
(* Compacting. *)

\* The record identifiers found under a key are those of its list.
LEMMA RecsAtIs ==
  ASSUME NEW l, NEW Q, NEW c, Woven(l, Q, c), NEW i \in 1 .. l.numKeys
  PROVE  /\ Chain(l, l.key[i].head) = Q[i]
         /\ RecsAt(l, i) = [j \in 1 .. Len(Q[i]) |-> l.cell[Q[i][j]].recId]
<1> DEFINE n == l.numKeys
           H == Heads(n, l.freeListPtr, l.key)
           X == Nexts(l.cell)
           C == Cells(c)
<1>1. n \in Nat /\ Links(Q, H, X, n, C)
  BY DEF Woven
<1>2. AM_NULL \notin C /\ DOMAIN l.cell = C
  BY WovenIs
<1>3. \A o \in C : l.cell[o].next = X[o]
  BY <1>2 DEF Nexts
<1>4. i \in 0 .. n /\ i # 0
  BY <1>1
<1>5. H[i] = l.key[i].head
  BY <1>4 DEF Heads
<1> HIDE DEF H, X, C, n
<1>6. Chain(l, H[i]) = Q[i]
  BY <1>1, <1>2, <1>3, <1>4, ChainIs
<1>7. Q[i] \in Seq(C)
  BY <1>4, WovenIs DEF n, C
<1>8. DOMAIN Q[i] = 1 .. Len(Q[i])
  BY <1>7, LenProperties
<1>9. QED
  BY <1>5, <1>6, <1>8 DEF RecsAt

CellAt(k) == PAGE_SIZE - CELL * k
KeyLaid(l, B, low, m) ==
  [i \in 1 .. m |-> [val |-> l.key[low + i - 1].val, head |-> CellAt(B[i] + 1)]]
CellLaid(recs, B, m) ==
  [o \in {CellAt(k) : k \in 1 .. B[m + 1]} |->
     LET k == (PAGE_SIZE - o) \div CELL
         i == CHOOSE j \in 1 .. m : B[j] < k /\ k <= B[j + 1]
     IN  [recId |-> recs[i][k - B[i]],
          next |-> IF k = B[i + 1] THEN AM_NULL ELSE CellAt(k + 1)]]

\* One field set.
LEMMA SetNumKeys ==
  ASSUME NEW a, NEW rp, NEW kp, NEW fl, NEW nf, NEW n, NEW key, NEW cell, NEW x
  PROVE  [LeafOf(a, rp, kp, fl, nf, n, key, cell) EXCEPT !.numKeys = x] = LeafOf(a, rp, kp, fl, nf, x, key, cell)
BY DEF LeafOf

\* The fields of the leaf that AM_Compact makes of at least one key.
LEMMA CompactForm ==
  ASSUME NEW l, IsLeafRec(l), NEW low \in Nat, NEW high \in Nat, low <= high,
         NEW recs, recs = [i \in 1 .. high - low + 1 |-> RecsAt(l, low + i - 1)]
  PROVE  LET m == high - low + 1
             B == BeforeOf(recs)
         IN  AM_Compact(low, high, l)
               = LeafOf(l.nextLeafPage, CellAt(B[m + 1]), (m - 1) * recSize + AM_sl + recSize, AM_NULL, 0, m,
                        KeyLaid(l, B, low, m), CellLaid(recs, B, m))
<1> DEFINE m == high - low + 1
           B == BeforeOf(recs)
           rp == CellAt(B[m + 1])
           kp == (m - 1) * recSize + AM_sl + recSize
           key == KeyLaid(l, B, low, m)
           cell == CellLaid(recs, B, m)
<1>1. m \in Nat /\ m # 0
  OBVIOUS
<1>2. Len(recs) = m /\ recs # <<>>
  <2> HIDE DEF m
  <2>1. recs = [i \in 1 .. m |-> RecsAt(l, low + i - 1)]
    BY DEF m
  <2>2. Len(recs) = m
    BY <1>1, <2>1
  <2>3. QED
    BY <1>1, <2>2
<1>3. AM_Compact(low, high, l)
        = [l EXCEPT !.recIdPtr = rp, !.keyPtr = kp, !.numKeys = m, !.freeListPtr = AM_NULL,
                    !.numinfreeList = 0, !.key = key, !.cell = cell]
  <2> DEFINE At(k) == PAGE_SIZE - CELL * k
  <2>1. AM_Compact(low, high, l)
          = [l EXCEPT
               !.recIdPtr = At(B[Len(recs) + 1]),
               !.keyPtr = (IF recs = <<>> THEN Junk ELSE (Len(recs) - 1) * recSize + AM_sl) + recSize,
               !.numKeys = Len(recs), !.freeListPtr = AM_NULL, !.numinfreeList = 0,
               !.key = [i \in 1 .. Len(recs) |-> [val |-> l.key[low + i - 1].val, head |-> At(B[i] + 1)]],
               !.cell = [o \in {At(k) : k \in 1 .. B[Len(recs) + 1]} |->
                           LET k == (PAGE_SIZE - o) \div CELL
                               i == CHOOSE j \in 1 .. Len(recs) : B[j] < k /\ k <= B[j + 1]
                           IN  [recId |-> recs[i][k - B[i]],
                                next |-> IF k = B[i + 1] THEN AM_NULL ELSE At(k + 1)]]]
    BY DEF AM_Compact, BeforeOf
  <2>2. [i \in 1 .. Len(recs) |-> [val |-> l.key[low + i - 1].val, head |-> At(B[i] + 1)]] = key
    BY <1>2 DEF KeyLaid, CellAt
  <2>3. [o \in {At(k) : k \in 1 .. B[Len(recs) + 1]} |->
           LET k == (PAGE_SIZE - o) \div CELL
               i == CHOOSE j \in 1 .. Len(recs) : B[j] < k /\ k <= B[j + 1]
           IN  [recId |-> recs[i][k - B[i]],
                next |-> IF k = B[i + 1] THEN AM_NULL ELSE At(k + 1)]] = cell
    BY <1>2 DEF CellLaid, CellAt
  <2>4. At(B[Len(recs) + 1]) = rp /\ (IF recs = <<>> THEN Junk ELSE (Len(recs) - 1) * recSize + AM_sl) + recSize = kp
    BY <1>2 DEF CellAt
  <2> HIDE DEF B, rp, kp, key, cell, m
  <2>5. QED
    BY <1>2, <2>1, <2>2, <2>3, <2>4
<1> HIDE DEF B, rp, kp, key, cell, m
<1> DEFINE a == l.nextLeafPage
           L1 == [l EXCEPT !.recIdPtr = rp]
           L2 == [L1 EXCEPT !.keyPtr = kp]
           L3 == [L2 EXCEPT !.numKeys = m]
           L4 == [L3 EXCEPT !.freeListPtr = AM_NULL]
           L5 == [L4 EXCEPT !.numinfreeList = 0]
           L6 == [L5 EXCEPT !.key = key]
           L7 == [L6 EXCEPT !.cell = cell]
<1>4. [l EXCEPT !.recIdPtr = rp, !.keyPtr = kp, !.numKeys = m, !.freeListPtr = AM_NULL,
                !.numinfreeList = 0, !.key = key, !.cell = cell] = L7
  OBVIOUS
<1>5. L1 = LeafOf(a, rp, l.keyPtr, l.freeListPtr, l.numinfreeList, l.numKeys, l.key, l.cell)
  <2>1. l = LeafOf(a, l.recIdPtr, l.keyPtr, l.freeListPtr, l.numinfreeList, l.numKeys, l.key, l.cell)
    BY DEF IsLeafRec
  <2> DEFINE x == l.keyPtr
             b == l.freeListPtr
             d == l.numinfreeList
             e == l.numKeys
             f == l.key
             g == l.cell
             h == l.recIdPtr
  <2> HIDE DEF x, b, d, e, f, g, h, a
  <2>2. [LeafOf(a, h, x, b, d, e, f, g) EXCEPT !.recIdPtr = rp] = LeafOf(a, rp, x, b, d, e, f, g)
    BY DEF LeafOf
  <2>3. QED
    BY <2>1, <2>2 DEF x, b, d, e, f, g, h, a
<1> HIDE DEF L1
<1>6. L2 = LeafOf(a, rp, kp, l.freeListPtr, l.numinfreeList, l.numKeys, l.key, l.cell)
  BY <1>5 DEF LeafOf
<1> HIDE DEF L2
<1>7. L3 = LeafOf(a, rp, kp, l.freeListPtr, l.numinfreeList, m, l.key, l.cell)
  BY <1>6, SetNumKeys
<1> HIDE DEF L3
<1>8. L4 = LeafOf(a, rp, kp, AM_NULL, l.numinfreeList, m, l.key, l.cell)
  BY <1>7 DEF LeafOf
<1> HIDE DEF L4
<1>9. L5 = LeafOf(a, rp, kp, AM_NULL, 0, m, l.key, l.cell)
  BY <1>8 DEF LeafOf
<1> HIDE DEF L5
<1>10. L6 = LeafOf(a, rp, kp, AM_NULL, 0, m, key, l.cell)
  BY <1>9 DEF LeafOf
<1> HIDE DEF L6
<1>11. L7 = LeafOf(a, rp, kp, AM_NULL, 0, m, key, cell)
  BY <1>10 DEF LeafOf
<1> HIDE DEF L7, a
<1>12. AM_Compact(low, high, l) = LeafOf(a, rp, kp, AM_NULL, 0, m, key, cell)
  BY <1>3, <1>4, <1>11
<1>13. QED
  BY <1>12 DEF a, rp, kp, m, key, cell, B

-----------------------------------------------------------------------------
(* What AM_Compact lays out. *)

\* The k-th cell from the end of the page.
LEMMA CellAtIs ==
  ASSUME NEW k \in Nat
  PROVE  /\ (PAGE_SIZE - CellAt(k)) \div CELL = k /\ CellAt(k) \in Int
         /\ \A h \in Nat : CellAt(h) = CellAt(k) => h = k
<1>1. PAGE_SIZE \in Nat /\ CELL = 6
  BY NumbersAre
<1>2. CellAt(k) = PAGE_SIZE - 6 * k /\ \A h \in Nat : CellAt(h) = PAGE_SIZE - 6 * h
  BY <1>1 DEF CellAt
<1>3. (PAGE_SIZE - CellAt(k)) \div 6 = k
  BY <1>1, <1>2
<1>4. QED
  BY <1>1, <1>2, <1>3

\* Where B and L put the lists: the j-th cell of the i-th is carved as the B[i] + j-th.
Laid(B, L, m) == [i \in 0 .. m |-> IF i = 0 THEN <<>> ELSE [j \in 1 .. L[i] |-> CellAt(B[i] + j)]]

LaidFacts(B, L, m, recs) ==
  /\ CellLaid(recs, B, m) \in [Cells(B[m + 1]) -> CellRec]
  /\ \A i \in 1 .. m : \A j \in 1 .. L[i] :
       /\ CellAt(B[i] + j) \in Cells(B[m + 1])
       /\ CellLaid(recs, B, m)[CellAt(B[i] + j)].recId = recs[i][j]
       /\ CellLaid(recs, B, m)[CellAt(B[i] + j)].next = IF j = L[i] THEN AM_NULL ELSE CellAt(B[i] + j + 1)

\* What AM_Compact writes in the cells.
LEMMA LaidCells ==
  ASSUME NEW m \in Nat \ {0}, NEW B, NEW L, Blocks(B, L, m), NEW recs,
         \A i \in 1 .. m : \A j \in 1 .. L[i] : recs[i][j] \in RecIds,
         PAGE_SIZE - CELL * B[m + 1] >= AM_sl
  PROVE  LaidFacts(B, L, m, recs)
<1> DEFINE t == B[m + 1]
           cell == CellLaid(recs, B, m)
           C == {CellAt(k) : k \in 1 .. t}
           In(i, k) == B[i] < k /\ k <= B[i + 1]
           at(k) == CHOOSE j \in 1 .. m : In(j, k)
           R(k) == [recId |-> recs[at(k)][k - B[at(k)]],
                    next |-> IF k = B[at(k) + 1] THEN AM_NULL ELSE CellAt(k + 1)]
<1>1. /\ B[1] = 0
      /\ \A i \in 1 .. m : B[i] \in Nat /\ L[i] \in Nat /\ B[i + 1] = B[i] + L[i]
      /\ \A i \in 1 .. m : \A j \in i .. m : B[i + 1] <= B[j + 1]
  BY DEF Blocks
<1>2. t \in Nat /\ m \in 1 .. m
  BY <1>1
<1>3. C = Cells(t)
  BY DEF Cells, CellAt
<1>4. Cells(t) \subseteq Offsets
  BY <1>2, CellsIs
<1>5. ASSUME NEW k \in 1 .. t
      PROVE  at(k) \in 1 .. m /\ In(at(k), k) /\ \A i \in 1 .. m : In(i, k) => at(k) = i
  <2>1. \E i \in 1 .. m : In(i, k)
    BY <1>2, BlockOf
  <2>2. \A i, j \in 1 .. m : In(i, k) /\ In(j, k) => i = j
    BY <1>2, BlockOf
  <2> HIDE DEF In
  <2>3. QED
    BY <2>1, <2>2
<1>6. cell = [o \in C |-> R((PAGE_SIZE - o) \div CELL)]
  BY DEF CellLaid
<1> HIDE DEF cell, at, C
<1>7. ASSUME NEW k \in 1 .. t
      PROVE  CellAt(k) \in C /\ cell[CellAt(k)] = R(k)
  <2>1. CellAt(k) \in C
    BY DEF C
  <2>2. (PAGE_SIZE - CellAt(k)) \div CELL = k
    BY <1>2, CellAtIs
  <2> HIDE DEF R
  <2>3. QED
    BY <1>6, <2>1, <2>2
<1>8. ASSUME NEW k \in 1 .. t
      PROVE  R(k) \in CellRec
  <2>1. at(k) \in 1 .. m /\ B[at(k)] < k /\ k <= B[at(k) + 1]
    BY <1>5
  <2>2. k - B[at(k)] \in 1 .. L[at(k)]
    BY <1>1, <1>2, <2>1
  <2>3. recs[at(k)][k - B[at(k)]] \in RecIds
    BY <2>1, <2>2
  <2>4. (IF k = B[at(k) + 1] THEN AM_NULL ELSE CellAt(k + 1)) \in Offsets
    <3>1. CASE k = B[at(k) + 1]
      BY <3>1 DEF Offsets
    <3>2. CASE k # B[at(k) + 1]
      <4>1. B[at(k) + 1] <= t /\ B[at(k) + 1] \in Nat
        BY <1>1, <1>2, <2>1
      <4>2. k + 1 \in 1 .. t
        BY <1>2, <2>1, <3>2, <4>1
      <4>3. CellAt(k + 1) \in C
        BY <4>2 DEF C
      <4>4. QED
        BY <1>3, <1>4, <3>2, <4>3
    <3>3. QED
      BY <3>1, <3>2
  <2>5. QED
    BY <2>3, <2>4 DEF CellRec
<1>9. cell \in [C -> CellRec]
  <2>1. ASSUME NEW o \in C PROVE cell[o] \in CellRec
    <3>1. PICK k \in 1 .. t : o = CellAt(k)
      BY DEF C
    <3>2. QED
      BY <1>7, <1>8, <3>1
  <2>2. DOMAIN cell = C /\ cell = [o \in C |-> cell[o]]
    BY <1>6
  <2>3. QED
    BY <2>1, <2>2
<1>10. ASSUME NEW i \in 1 .. m, NEW j \in 1 .. L[i]
       PROVE  /\ CellAt(B[i] + j) \in C /\ cell[CellAt(B[i] + j)].recId = recs[i][j]
              /\ cell[CellAt(B[i] + j)].next = IF j = L[i] THEN AM_NULL ELSE CellAt(B[i] + j + 1)
  <2> DEFINE k == B[i] + j
  <2>1. B[i] \in Nat /\ L[i] \in Nat /\ B[i + 1] = B[i] + L[i] /\ B[i + 1] <= t
    <3>1. m \in i .. m
      BY <1>2
    <3>2. QED
      BY <1>1, <3>1
  <2>2. k \in 1 .. t /\ B[i] < k /\ k <= B[i + 1] /\ k - B[i] = j /\ (k = B[i + 1] <=> j = L[i])
    BY <1>2, <2>1
  <2> HIDE DEF k
  <2>3. at(k) = i
    BY <1>5, <2>2
  <2>4. R(k) = [recId |-> recs[i][j], next |-> IF j = L[i] THEN AM_NULL ELSE CellAt(k + 1)]
    BY <2>2, <2>3
  <2>5. cell[CellAt(k)] = R(k) /\ CellAt(k) \in C
    BY <1>7, <2>2
  <2> HIDE DEF R
  <2>6. cell[CellAt(k)].recId = recs[i][j] /\ cell[CellAt(k)].next = IF j = L[i] THEN AM_NULL ELSE CellAt(k + 1)
    BY <2>4, <2>5
  <2>7. QED
    BY <2>5, <2>6 DEF k
<1>11. QED
  BY <1>3, <1>9, <1>10 DEF LaidFacts, cell

ListFacts(P, C, B, L, i) ==
  /\ P[i] \in Seq(C) /\ Len(P[i]) = L[i] /\ IsInjective(P[i])
  /\ \A j \in 1 .. L[i] : P[i][j] = CellAt(B[i] + j)
  /\ \A o \in Range(P[i]) : \E j \in 1 .. L[i] : o = CellAt(B[i] + j)
  /\ \A j \in 1 .. L[i] : CellAt(B[i] + j) \in Range(P[i])

\* Each list is laid in a row.
LEMMA LaidLists ==
  ASSUME NEW m \in Nat \ {0}, NEW B, NEW L, Blocks(B, L, m), NEW recs, LaidFacts(B, L, m, recs), NEW i \in 1 .. m
  PROVE  ListFacts(Laid(B, L, m), Cells(B[m + 1]), B, L, i)
<1> DEFINE s == [j \in 1 .. L[i] |-> CellAt(B[i] + j)]
<1>1. Laid(B, L, m)[i] = s
  <2>1. i \in 0 .. m /\ i # 0
    OBVIOUS
  <2>2. QED
    BY <2>1 DEF Laid
<1>2. L[i] \in Nat /\ B[i] \in Nat
  BY DEF Blocks
<1>3. \A j \in 1 .. L[i] : CellAt(B[i] + j) \in Cells(B[m + 1])
  BY DEF LaidFacts
<1>4. s \in [1 .. L[i] -> Cells(B[m + 1])]
  BY <1>3
<1>5. s \in Seq(Cells(B[m + 1])) /\ Len(s) = L[i]
  BY <1>2, <1>4
<1>6. \A j \in 1 .. L[i] : s[j] = CellAt(B[i] + j)
  OBVIOUS
<1>7. IsInjective(s)
  <2>1. ASSUME NEW j \in 1 .. L[i], NEW h \in 1 .. L[i], s[j] = s[h] PROVE j = h
    <3>1. B[i] + j \in Nat /\ B[i] + h \in Nat /\ CellAt(B[i] + j) = CellAt(B[i] + h)
      BY <1>2, <2>1
    <3>2. B[i] + j = B[i] + h
      BY <3>1, CellAtIs
    <3>3. QED
      BY <1>2, <3>2
  <2>2. DOMAIN s = 1 .. L[i]
    OBVIOUS
  <2> HIDE DEF s
  <2>3. QED
    BY <2>1, <2>2 DEF IsInjective
<1>8. Range(s) = {CellAt(B[i] + j) : j \in 1 .. L[i]}
  BY DEF Range
<1> HIDE DEF s
<1>9. QED
  BY <1>1, <1>5, <1>6, <1>7, <1>8 DEF ListFacts

\* The lists laid in rows are linked.
LEMMA LaidLinks ==
  ASSUME NEW m \in Nat \ {0}, NEW B, NEW L, Blocks(B, L, m), \A i \in 1 .. m : L[i] # 0,
         NEW recs, LaidFacts(B, L, m, recs), NEW l, NEW low
  PROVE  Links(Laid(B, L, m), Heads(m, AM_NULL, KeyLaid(l, B, low, m)), Nexts(CellLaid(recs, B, m)), m,
               Cells(B[m + 1]))
<1> DEFINE P == Laid(B, L, m)
           t == B[m + 1]
           C == Cells(t)
           G == Heads(m, AM_NULL, KeyLaid(l, B, low, m))
           Y == Nexts(CellLaid(recs, B, m))
<1>1. /\ \A i \in 1 .. m : B[i] \in Nat /\ L[i] \in Nat /\ B[i + 1] = B[i] + L[i]
  BY DEF Blocks
<1>2. /\ CellLaid(recs, B, m) \in [C -> CellRec]
      /\ \A i \in 1 .. m : \A j \in 1 .. L[i] :
           /\ CellAt(B[i] + j) \in C
           /\ CellLaid(recs, B, m)[CellAt(B[i] + j)].next = IF j = L[i] THEN AM_NULL ELSE CellAt(B[i] + j + 1)
  BY DEF LaidFacts
<1>3. m \in Nat /\ \A i \in 0 .. m : i = 0 \/ i \in 1 .. m
  OBVIOUS
<1>4. P[0] = <<>> /\ DOMAIN P = 0 .. m /\ P = [i \in 0 .. m |-> P[i]]
  <2>1. 0 \in 0 .. m
    BY <1>3
  <2>2. QED
    BY <2>1 DEF Laid
<1>5. <<>> \in Seq(C) /\ Len(<<>>) = 0 /\ Range(<<>>) = {} /\ IsInjective(<<>>)
  <2>1. <<>> \in Seq(C) /\ Len(<<>>) = 0 /\ DOMAIN <<>> = {}
    OBVIOUS
  <2>2. QED
    BY <2>1 DEF Range, IsInjective
<1>6. ASSUME NEW i \in 1 .. m
      PROVE  /\ P[i] \in Seq(C) /\ Len(P[i]) = L[i] /\ IsInjective(P[i])
             /\ \A j \in 1 .. L[i] : P[i][j] = CellAt(B[i] + j)
             /\ \A o \in Range(P[i]) : \E j \in 1 .. L[i] : o = CellAt(B[i] + j)
             /\ \A j \in 1 .. L[i] : CellAt(B[i] + j) \in Range(P[i])
  <2>1. ListFacts(P, C, B, L, i)
    BY LaidLists
  <2>2. QED
    BY <2>1 DEF ListFacts
<1>7. \A i \in 0 .. m : G[i] = IF i = 0 THEN AM_NULL ELSE CellAt(B[i] + 1)
  BY <1>3 DEF Heads, KeyLaid
<1>8. \A o \in C : Y[o] = CellLaid(recs, B, m)[o].next
  BY <1>2 DEF Nexts
<1>9. t \in Nat
  <2>1. m \in 1 .. m
    BY <1>3
  <2>2. QED
    BY <1>1, <2>1
<1>10. ASSUME NEW k \in 1 .. t
       PROVE  \E i \in 1 .. m : B[i] < k /\ k <= B[i + 1]
  BY <1>3, BlockOf
<1>11. ASSUME NEW k \in 1 .. t, NEW i \in 1 .. m, NEW j \in 1 .. m,
              B[i] < k, k <= B[i + 1], B[j] < k, k <= B[j + 1]
       PROVE  i = j
  BY <1>3, <1>11, BlockOf
<1> HIDE DEF P, G, Y, t
<1>12. P \in [0 .. m -> Seq(C)]
  <2>1. \A i \in 0 .. m : P[i] \in Seq(C)
    BY <1>3, <1>4, <1>5, <1>6
  <2>2. QED
    BY <1>4, <2>1
<1>13. \A i \in 0 .. m : IsInjective(P[i])
  BY <1>3, <1>4, <1>5, <1>6
<1>14. ASSUME NEW i \in 0 .. m, NEW h \in 0 .. m, i # h PROVE Range(P[i]) \cap Range(P[h]) = {}
  <2>1. CASE i = 0 \/ h = 0
    BY <1>4, <1>5, <2>1
  <2>2. CASE i # 0 /\ h # 0
    <3>1. i \in 1 .. m /\ h \in 1 .. m
      BY <2>2
    <3>2. ASSUME NEW o \in Range(P[i]), o \in Range(P[h]) PROVE FALSE
      <4>1. PICK j \in 1 .. L[i] : o = CellAt(B[i] + j)
        BY <1>6, <3>1
      <4>2. PICK k \in 1 .. L[h] : o = CellAt(B[h] + k)
        BY <1>6, <3>1, <3>2
      <4>3. B[i] + j \in Nat /\ B[h] + k \in Nat
        BY <1>1, <3>1
      <4>4. B[i] + j = B[h] + k
        BY <4>1, <4>2, <4>3, CellAtIs
      <4>5. B[i] < B[i] + j /\ B[i] + j <= B[i + 1] /\ B[h] < B[i] + j /\ B[i] + j <= B[h + 1]
        BY <1>1, <3>1, <4>4
      <4>6. B[i] + j \in 1 .. t
        <5>1. CellAt(B[i] + j) \in C
          BY <1>2, <3>1
        <5>2. PICK x \in 1 .. t : CellAt(B[i] + j) = PAGE_SIZE - CELL * x
          BY <5>1 DEF Cells
        <5>3. x \in Nat /\ CellAt(x) = CellAt(B[i] + j)
          BY <1>9, <5>2 DEF CellAt
        <5>4. QED
          BY <4>3, <5>3, CellAtIs
      <4>7. QED
        BY <1>11, <1>14, <3>1, <4>5, <4>6
    <3>3. QED
      BY <3>2
  <2>3. QED
    BY <2>1, <2>2
<1>15. ASSUME NEW o \in C PROVE \E i \in 0 .. m : o \in Range(P[i])
  <2>1. PICK k \in 1 .. t : o = CellAt(k)
    BY DEF Cells, CellAt
  <2>2. PICK i \in 1 .. m : B[i] < k /\ k <= B[i + 1]
    BY <1>10
  <2>3. k - B[i] \in 1 .. L[i] /\ B[i] + (k - B[i]) = k /\ i \in 0 .. m
    BY <1>1, <1>9, <2>2
  <2>4. o \in Range(P[i])
    BY <1>6, <2>1, <2>3
  <2>5. QED
    BY <2>3, <2>4
<1>16. ASSUME NEW i \in 0 .. m PROVE G[i] = Nth(P[i], 1)
  <2>1. CASE i = 0
    BY <1>4, <1>5, <1>7, <2>1 DEF Nth
  <2>2. CASE i # 0
    <3>1. i \in 1 .. m
      BY <2>2
    <3>2. 1 \in 1 .. L[i]
      BY <1>1, <3>1
    <3>3. P[i][1] = CellAt(B[i] + 1) /\ Len(P[i]) = L[i]
      BY <1>6, <3>1, <3>2
    <3>4. QED
      BY <1>7, <2>2, <3>2, <3>3 DEF Nth
  <2>3. QED
    BY <2>1, <2>2
<1>17. ASSUME NEW i \in 0 .. m, NEW k \in 1 .. Len(P[i]) PROVE Y[P[i][k]] = Nth(P[i], k + 1)
  <2>1. CASE i = 0
    BY <1>4, <1>5, <2>1
  <2>2. CASE i # 0
    <3>1. i \in 1 .. m
      BY <2>2
    <3>2. Len(P[i]) = L[i] /\ L[i] \in Nat /\ k \in 1 .. L[i]
      BY <1>1, <1>6, <3>1
    <3>3. P[i][k] = CellAt(B[i] + k) /\ P[i][k] \in C
      BY <1>2, <1>6, <3>1, <3>2
    <3>4. Y[P[i][k]] = IF k = L[i] THEN AM_NULL ELSE CellAt(B[i] + k + 1)
      BY <1>2, <1>8, <3>1, <3>2, <3>3
    <3>5. CASE k = L[i]
      <4>1. ~ (k + 1 \in 1 .. Len(P[i]))
        BY <3>2, <3>5
      <4>2. QED
        BY <3>4, <3>5, <4>1 DEF Nth
    <3>6. CASE k # L[i]
      <4>1. k + 1 \in 1 .. Len(P[i]) /\ k + 1 \in 1 .. L[i]
        BY <3>2, <3>6
      <4>2. P[i][k + 1] = CellAt(B[i] + (k + 1))
        BY <1>6, <3>1, <4>1
      <4>3. B[i] + (k + 1) = B[i] + k + 1
        <5>1. B[i] \in Nat /\ k \in Nat
          BY <1>1, <3>1, <3>2
        <5>2. QED
          BY <5>1
      <4>4. QED
        BY <3>4, <3>6, <4>1, <4>2, <4>3 DEF Nth
    <3>7. QED
      BY <3>5, <3>6
  <2>3. QED
    BY <2>1, <2>2
<1> HIDE DEF C
<1>18. Links(P, G, Y, m, C)
  BY <1>12, <1>13, <1>14, <1>15, <1>16, <1>17 DEF Links
<1>19. QED
  BY <1>18 DEF P, G, Y, C, t

\* More keys use no fewer cells.
LEMMA UsedMono ==
  ASSUME NEW l, NEW Q, NEW c, Woven(l, Q, c), NEW a \in 1 .. l.numKeys, NEW b \in 0 .. l.numKeys,
         NEW d \in b .. l.numKeys
  PROVE  Cardinality(Used(Q, a, b)) <= Cardinality(Used(Q, a, d))
<1>1. l.numKeys \in Nat
  BY DEF Woven
<1>2. a \in 1 .. l.numKeys + 1 /\ d \in 0 .. l.numKeys
  BY <1>1
<1>3. IsFiniteSet(Used(Q, a, d))
  BY <1>2, UsedIs
<1>4. Used(Q, a, b) \in SUBSET Used(Q, a, d)
  <2>1. a .. b \subseteq a .. d
    BY <1>1
  <2>2. QED
    BY <2>1 DEF Used
<1>5. QED
  BY <1>3, <1>4, FS_Subset

\* How many cells the keys from low on use before the i-th of them, and how many each.
Counted(Q, low, m) == [i \in 1 .. m + 1 |-> Cardinality(Used(Q, low, low + i - 2))]
Lengths(Q, low, m) == [i \in 1 .. m |-> Len(Q[low + i - 1])]

\* The rows are as long as the lists.
LEMMA CountedBlocks ==
  ASSUME NEW l, NEW Q, NEW c, Woven(l, Q, c), NEW low \in 1 .. l.numKeys, NEW high \in low .. l.numKeys,
         NEW m, m = high - low + 1
  PROVE  /\ Blocks(Counted(Q, low, m), Lengths(Q, low, m), m)
         /\ Counted(Q, low, m)[m + 1] = Cardinality(Used(Q, low, high))
<1> DEFINE B == Counted(Q, low, m)
           L == Lengths(Q, low, m)
           U(b) == Cardinality(Used(Q, low, b))
           n == l.numKeys
<1>1. n \in Nat /\ m \in Nat /\ low \in Nat /\ high \in Nat /\ m = high - low + 1 /\ high <= n /\ 1 <= low /\ low <= high
  BY DEF Woven
<1>2. \A i \in 1 .. m + 1 : B[i] = U(low + i - 2)
  BY DEF Counted
<1>3. \A i \in 1 .. m : L[i] = Len(Q[low + i - 1])
  BY DEF Lengths
<1>4. low \in 1 .. n + 1
  BY <1>1
<1>5. \A b \in 0 .. n : U(b) \in Nat /\ (b < low => U(b) = 0)
  BY <1>4, UsedIs
<1>6. \A b \in low .. n : U(b) = U(b - 1) + Len(Q[b])
  BY UsedMore
<1>7. \A b \in 0 .. n : \A d \in b .. n : U(b) <= U(d)
  BY UsedMono
<1> HIDE DEF B, L, U, n
<1>8. B[1] = 0
  <2>1. 1 \in 1 .. m + 1 /\ low + 1 - 2 \in 0 .. n /\ low + 1 - 2 < low
    BY <1>1
  <2>2. QED
    BY <1>2, <1>5, <2>1
<1>9. ASSUME NEW i \in 1 .. m
      PROVE  B[i] \in Nat /\ L[i] \in Nat /\ B[i + 1] = B[i] + L[i]
  <2>1. /\ i \in 1 .. m + 1 /\ i + 1 \in 1 .. m + 1 /\ low + i - 2 \in 0 .. n /\ low + i - 1 \in low .. n
        /\ low + (i + 1) - 2 = low + i - 1 /\ (low + i - 1) - 1 = low + i - 2
    BY <1>1
  <2>2. B[i] = U(low + i - 2) /\ B[i + 1] = U(low + i - 1)
    BY <1>2, <2>1
  <2>3. low + i - 1 \in 0 .. n
    BY <1>1, <2>1
  <2>4. Q[low + i - 1] \in Seq(Cells(c))
    BY <2>3, WovenIs DEF n
  <2>5. L[i] \in Nat
    BY <1>3, <2>4, LenProperties
  <2>6. U(low + i - 1) = U(low + i - 2) + Len(Q[low + i - 1])
    BY <1>6, <2>1
  <2>7. U(low + i - 2) \in Nat
    BY <1>5, <2>1
  <2>8. QED
    BY <1>3, <2>2, <2>5, <2>6, <2>7
<1>10. ASSUME NEW i \in 1 .. m, NEW j \in i .. m
       PROVE  B[i + 1] <= B[j + 1]
  <2>1. /\ i + 1 \in 1 .. m + 1 /\ j + 1 \in 1 .. m + 1 /\ low + i - 1 \in 0 .. n /\ low + j - 1 \in low + i - 1 .. n
        /\ low + (i + 1) - 2 = low + i - 1 /\ low + (j + 1) - 2 = low + j - 1
    BY <1>1
  <2>2. B[i + 1] = U(low + i - 1) /\ B[j + 1] = U(low + j - 1)
    BY <1>2, <2>1
  <2>3. QED
    BY <1>7, <2>1, <2>2
<1>11. B[m + 1] = U(high)
  <2>1. m + 1 \in 1 .. m + 1 /\ low + (m + 1) - 2 = high
    BY <1>1
  <2>2. QED
    BY <1>2, <2>1
<1>12. Blocks(B, L, m)
  BY <1>8, <1>9, <1>10 DEF Blocks
<1>13. QED
  BY <1>11, <1>12 DEF B, L, U

\* Arithmetic.
LEMMA NoMore ==
  ASSUME NEW a \in Nat, NEW b \in Nat, a <= b, NEW x \in Nat
  PROVE  a * x <= b * x /\ a * x \in Nat /\ b * x \in Nat
<1>1. b * x = a * x + (b - a) * x
  OBVIOUS
<1>2. b - a \in Nat /\ (b - a) * x \in Nat /\ a * x \in Nat
  <2>1. \A y, z \in Nat : y * z \in Nat
    OBVIOUS
  <2>2. QED
    BY <2>1
<1>3. QED
  BY <1>1, <1>2

Places(l, s, r) == {h \in 1 .. Len(s) : l.cell[s[h]].recId = r}

\* The cells of a list with a record identifier are as many as its places.
LEMMA FibreCount ==
  ASSUME NEW l, NEW Q, NEW c, Woven(l, Q, c), NEW i \in 1 .. l.numKeys, NEW r
  PROVE  Cardinality(Fibre(l, Q, i, r)) = Cardinality(Places(l, Q[i], r))
<1> DEFINE R == [x \in Cells(c) |-> l.cell[x].recId]
<1>1. i \in 0 .. l.numKeys
  BY DEF Woven
<1>2. Q[i] \in Seq(Cells(c)) /\ IsInjective(Q[i])
  BY <1>1, WovenIs
<1>3. (\A x \in Range(Q[i]) : x \in Cells(c)) /\ \A h \in 1 .. Len(Q[i]) : Q[i][h] \in Cells(c)
  BY <1>2, InRange
<1>4. Fibre(l, Q, i, r) = Having(Q[i], R, r)
  BY <1>3 DEF Fibre, Having
<1>5. Places(l, Q[i], r) = PlacesOf(Q[i], R, r)
  BY <1>3 DEF Places, PlacesOf
<1> HIDE DEF R
<1>6. Cardinality(Having(Q[i], R, r)) = Cardinality(PlacesOf(Q[i], R, r))
  BY <1>2, CountIs
<1>7. QED
  BY <1>4, <1>5, <1>6

\* The entries of N under the keys low to high.
Sub(N, l, low, high) ==
  [v \in Values |-> IF \E i \in low .. high : l.key[i].val = v THEN N[v] ELSE [r \in RecIds |-> 0]]

CompactFacts(k, l, Q, N, low, high) ==
  LET m == high - low + 1
      t == Cardinality(Used(Q, low, high))
  IN  /\ k.numKeys = m /\ k.nextLeafPage = l.nextLeafPage /\ k.freeListPtr = AM_NULL
      /\ k.recIdPtr = PAGE_SIZE - CELL * t /\ k.keyPtr = AM_sl + m * recSize
      /\ \A i \in 1 .. m : k.key[i].val = l.key[low + i - 1].val
      /\ \E P : Woven(k, P, t) /\ P[0] = <<>> /\ HoldsBut(k, P, Sub(N, l, low, high), 0)

\* AM_Compact keeps the keys from low to high with all their entries, and frees the rest.
LEMMA CompactIs ==
  ASSUME NEW l, NEW Q, NEW c, Woven(l, Q, c), NEW N \in Counts, HoldsBut(l, Q, N, 0),
         NEW low \in 1 .. l.numKeys, NEW high \in low .. l.numKeys
  PROVE  CompactFacts(AM_Compact(low, high, l), l, Q, N, low, high)
<1> DEFINE n == l.numKeys
           m == high - low + 1
           t == Cardinality(Used(Q, low, high))
           recs == [i \in 1 .. high - low + 1 |-> RecsAt(l, low + i - 1)]
           B == Counted(Q, low, m)
           L == Lengths(Q, low, m)
           k == AM_Compact(low, high, l)
           key == KeyLaid(l, B, low, m)
           cell == CellLaid(recs, B, m)
           P == Laid(B, L, m)
<1>1. /\ IsLeafRec(l) /\ c \in Nat /\ n \in Nat /\ l.cell \in [Cells(c) -> CellRec]
      /\ l.recIdPtr = PAGE_SIZE - CELL * c /\ l.keyPtr = AM_sl + n * recSize /\ l.keyPtr <= l.recIdPtr
  BY DEF Woven
<1>2. /\ m \in Nat /\ m # 0 /\ m <= n /\ low \in Nat /\ high \in Nat /\ low <= high
      /\ \A i \in 1 .. m : low + i - 1 \in 1 .. n /\ low + i - 1 \in 0 .. n /\ low + i - 1 \in low .. high
  BY <1>1
<1>3. Blocks(B, L, m) /\ B[m + 1] = t
  BY CountedBlocks
<1>4. ASSUME NEW i \in 1 .. m
      PROVE  /\ recs[i] = [j \in 1 .. L[i] |-> l.cell[Q[low + i - 1][j]].recId]
             /\ L[i] = Len(Q[low + i - 1]) /\ L[i] \in Nat /\ L[i] # 0 /\ Len(recs[i]) = L[i]
             /\ \A j \in 1 .. L[i] : Q[low + i - 1][j] \in Cells(c)
             /\ Q[low + i - 1] \in Seq(Cells(c)) /\ IsInjective(Q[low + i - 1])
  <2> DEFINE h == low + i - 1
  <2>1. h \in 1 .. n /\ h \in 0 .. n /\ h # 0
    BY <1>2
  <2>2. recs[i] = RecsAt(l, h)
    OBVIOUS
  <2>3. L[i] = Len(Q[h])
    BY DEF Lengths
  <2> HIDE DEF h, recs, L
  <2>4. RecsAt(l, h) = [j \in 1 .. Len(Q[h]) |-> l.cell[Q[h][j]].recId]
    BY <2>1, RecsAtIs
  <2>5. Q[h] \in Seq(Cells(c)) /\ IsInjective(Q[h])
    BY <2>1, WovenIs
  <2>6. Len(Q[h]) \in Nat /\ \A j \in 1 .. Len(Q[h]) : Q[h][j] \in Cells(c)
    BY <2>5, InRange
  <2>7. Q[h] # <<>>
    BY <2>1 DEF HoldsBut
  <2>8. Len(Q[h]) # 0
    BY <2>5, <2>7, EmptySeq
  <2>9. Len(recs[i]) = L[i]
    BY <2>2, <2>3, <2>4, <2>6
  <2>10. QED
    BY <2>2, <2>3, <2>4, <2>5, <2>6, <2>8, <2>9 DEF h
<1>5. BeforeOf(recs) = B
  <2>1. Len(recs) = m
    BY <1>2
  <2>2. B = [i \in 1 .. m + 1 |-> B[i]]
    BY DEF Counted
  <2>3. B[1] = 0 /\ \A i \in 1 .. m : B[i + 1] = B[i] + Len(recs[i])
    BY <1>3, <1>4 DEF Blocks
  <2> HIDE DEF B, recs, m, L
  <2>4. QED
    BY <1>2, <2>1, <2>2, <2>3, BeforeIs
<1>6. k = LeafOf(l.nextLeafPage, CellAt(B[m + 1]), (m - 1) * recSize + AM_sl + recSize, AM_NULL, 0, m, key, cell)
  <2> HIDE DEF B, k
  <2>1. AM_Compact(low, high, l)
          = LeafOf(l.nextLeafPage, CellAt(BeforeOf(recs)[m + 1]), (m - 1) * recSize + AM_sl + recSize, AM_NULL, 0, m,
                   KeyLaid(l, BeforeOf(recs), low, m), CellLaid(recs, BeforeOf(recs), m))
    BY <1>1, <1>2, CompactForm
  <2>2. QED
    BY <1>5, <2>1 DEF k
<1> HIDE DEF k, B, L, recs, m, t
<1>7. CellAt(B[m + 1]) = PAGE_SIZE - CELL * t /\ (m - 1) * recSize + AM_sl + recSize = AM_sl + m * recSize
  <2>1. (m - 1) * recSize + recSize = m * recSize /\ (m - 1) * recSize \in Nat /\ recSize \in Nat
    <3>1. m - 1 \in Nat /\ (m - 1) + 1 = m /\ recSize \in Nat
      BY <1>2, NumbersAre
    <3>2. QED
      BY <3>1, OneMore
  <2> DEFINE x == (m - 1) * recSize
             y == m * recSize
  <2> HIDE DEF x, y
  <2>2. x + recSize = y /\ x \in Nat /\ recSize \in Nat
    BY <2>1 DEF x, y
  <2>3. x + AM_sl + recSize = AM_sl + y
    BY <2>2, NumbersAre
  <2>4. QED
    BY <1>3, <2>3 DEF CellAt, x, y
<1>8. /\ IsLeafRec(k) /\ k.nextLeafPage = l.nextLeafPage /\ k.recIdPtr = PAGE_SIZE - CELL * t
      /\ k.keyPtr = AM_sl + m * recSize /\ k.freeListPtr = AM_NULL /\ k.numinfreeList = 0
      /\ k.numKeys = m /\ k.key = key /\ k.cell = cell
  <2> DEFINE kp == AM_sl + m * recSize
             rp == PAGE_SIZE - CELL * t
  <2>1. k = LeafOf(l.nextLeafPage, rp, kp, AM_NULL, 0, m, key, cell)
    BY <1>6, <1>7
  <2> HIDE DEF kp, rp, key, cell
  <2>2. /\ IsLeafRec(k) /\ k.nextLeafPage = l.nextLeafPage /\ k.recIdPtr = rp
        /\ k.keyPtr = kp /\ k.freeListPtr = AM_NULL /\ k.numinfreeList = 0
        /\ k.numKeys = m /\ k.key = key /\ k.cell = cell
    BY <2>1, LeafFields
  <2>3. QED
    BY <2>2 DEF kp, rp
<1>9. t \in Nat /\ t <= c
  <2>1. low \in 1 .. n + 1 /\ high \in 0 .. n
    BY <1>1
  <2>2. QED
    BY <2>1, UsedIs DEF t
<1>10. AM_sl + m * recSize <= PAGE_SIZE - CELL * t /\ PAGE_SIZE - CELL * t >= AM_sl
  <2> DEFINE x == m * recSize
             y == n * recSize
  <2>1. x <= y /\ x \in Nat /\ y \in Nat
    BY <1>1, <1>2, NumbersAre, NoMore
  <2>2. AM_sl + y <= PAGE_SIZE - CELL * c
    BY <1>1
  <2> HIDE DEF x, y
  <2>3. CELL = 6 /\ AM_sl = 24 /\ PAGE_SIZE \in Nat
    BY NumbersAre
  <2>4. AM_sl + x <= PAGE_SIZE - CELL * t /\ PAGE_SIZE - CELL * t >= AM_sl
    BY <1>1, <1>9, <2>1, <2>2, <2>3
  <2>5. QED
    BY <2>4 DEF x
<1>11. \A i \in 1 .. m : \A j \in 1 .. L[i] : recs[i][j] \in RecIds
  <2>1. ASSUME NEW i \in 1 .. m, NEW j \in 1 .. L[i] PROVE recs[i][j] \in RecIds
    <3>1. recs[i][j] = l.cell[Q[low + i - 1][j]].recId /\ Q[low + i - 1][j] \in Cells(c)
      BY <1>4
    <3>2. QED
      BY <1>1, <3>1 DEF CellRec
  <2>2. QED
    BY <2>1
<1>12. m \in Nat \ {0} /\ \A i \in 1 .. m : L[i] # 0
  BY <1>2, <1>4
<1>13. LaidFacts(B, L, m, recs)
  BY <1>3, <1>10, <1>11, <1>12, LaidCells
<1>14. Links(P, Heads(m, AM_NULL, key), Nexts(cell), m, Cells(t))
  <2>1. Links(P, Heads(m, AM_NULL, key), Nexts(cell), m, Cells(B[m + 1]))
    BY <1>3, <1>12, <1>13, LaidLinks
  <2>2. QED
    BY <1>3, <2>1
<1>15. P[0] = <<>>
  <2>1. 0 \in 0 .. m
    BY <1>2
  <2>2. QED
    BY <2>1 DEF Laid
<1>16. ASSUME NEW i \in 1 .. m
       PROVE  /\ key[i] \in KeySlot /\ key[i].val = l.key[low + i - 1].val
  <2>1. l.key[low + i - 1].val \in Values
    BY <1>2, WovenIs
  <2>2. CellAt(B[i] + 1) \in Offsets
    <3>1. 1 \in 1 .. L[i]
      <4>1. L[i] \in Nat /\ L[i] # 0
        BY <1>4
      <4>2. QED
        BY <4>1
    <3>2. CellAt(B[i] + 1) \in Cells(B[m + 1])
      BY <1>13, <3>1 DEF LaidFacts
    <3>3. Cells(t) \subseteq Offsets
      BY <1>9, <1>10, CellsIs
    <3>4. QED
      BY <1>3, <3>2, <3>3
  <2>3. key[i] = [val |-> l.key[low + i - 1].val, head |-> CellAt(B[i] + 1)]
    BY DEF KeyLaid
  <2> HIDE DEF key
  <2>4. QED
    BY <2>1, <2>2, <2>3 DEF KeySlot
<1>17. key \in Seq(KeySlot) /\ Len(key) = m
  <2>1. key = [i \in 1 .. m |-> key[i]]
    BY DEF KeyLaid
  <2> HIDE DEF key
  <2>2. key \in [1 .. m -> KeySlot]
    BY <1>16, <2>1
  <2>3. QED
    BY <1>2, <2>2
<1> HIDE DEF key, cell, P
<1>18. cell \in [Cells(t) -> CellRec]
  BY <1>3, <1>13 DEF LaidFacts, cell
<1>19. Woven(k, P, t)
  <2>1. k.numinfreeList = Len(P[0])
    BY <1>8, <1>15
  <2>2. Links(P, Heads(k.numKeys, k.freeListPtr, k.key), Nexts(k.cell), k.numKeys, Cells(t))
    BY <1>8, <1>14
  <2>3. k.keyPtr <= k.recIdPtr /\ k.numKeys <= Len(k.key) /\ k.numKeys \in Nat
    BY <1>2, <1>8, <1>10, <1>17
  <2>4. QED
    BY <1>8, <1>9, <1>17, <1>18, <2>1, <2>2, <2>3 DEF Woven
<1>20. \A i \in 1 .. m : k.key[i].val = l.key[low + i - 1].val
  BY <1>8, <1>16
<1>21. ASSUME NEW i \in 1 .. m
       PROVE  Len(P[i]) = L[i] /\ P[i] # <<>> /\ \A j \in 1 .. L[i] : k.cell[P[i][j]].recId = recs[i][j]
  <2>1. ListFacts(P, Cells(B[m + 1]), B, L, i)
    BY <1>3, <1>12, <1>13, LaidLists DEF P
  <2>2. P[i] \in Seq(Cells(B[m + 1])) /\ Len(P[i]) = L[i] /\ \A j \in 1 .. L[i] : P[i][j] = CellAt(B[i] + j)
    BY <2>1 DEF ListFacts
  <2>3. \A j \in 1 .. L[i] : CellLaid(recs, B, m)[CellAt(B[i] + j)].recId = recs[i][j]
    BY <1>13 DEF LaidFacts
  <2>4. P[i] # <<>>
    BY <1>12, <2>2, EmptySeq
  <2>5. QED
    BY <1>8, <2>2, <2>3, <2>4 DEF cell
<1> DEFINE M == Sub(N, l, low, high)
<1>22. ASSUME NEW i \in 1 .. m, NEW r \in RecIds
       PROVE  Cardinality(Fibre(k, P, i, r)) = M[k.key[i].val][r]
  <2> DEFINE h == low + i - 1
  <2>1. h \in 1 .. n /\ h \in low .. high /\ l.key[h].val \in Values
    BY <1>2, WovenIs
  <2>2. k.key[i].val = l.key[h].val
    BY <1>20
  <2>3. M[l.key[h].val] = N[l.key[h].val]
    <3> HIDE DEF h
    <3>1. QED
      BY <2>1 DEF Sub
  <2> HIDE DEF h, M
  <2>4. Cardinality(Fibre(l, Q, h, r)) = N[l.key[h].val][r]
    BY <2>1 DEF HoldsBut
  <2>5. Cardinality(Fibre(l, Q, h, r)) = Cardinality(Places(l, Q[h], r))
    BY <2>1, FibreCount
  <2>6. Cardinality(Fibre(k, P, i, r)) = Cardinality(Places(k, P[i], r))
    BY <1>8, <1>19, FibreCount
  <2>7. L[i] = Len(Q[h]) /\ Len(P[i]) = L[i]
    BY <1>4, <1>21 DEF h
  <2>8. \A j \in 1 .. L[i] : k.cell[P[i][j]].recId = l.cell[Q[h][j]].recId
    <3>1. ASSUME NEW j \in 1 .. L[i] PROVE recs[i][j] = l.cell[Q[h][j]].recId
      BY <1>4 DEF h
    <3>2. QED
      BY <1>21, <3>1
  <2>9. Places(l, Q[h], r) = Places(k, P[i], r)
    BY <2>7, <2>8 DEF Places
  <2>10. QED
    BY <2>2, <2>3, <2>4, <2>5, <2>6, <2>9
<1>23. ASSUME NEW i \in 1 .. m, NEW j \in 1 .. m, i < j PROVE k.key[i].val < k.key[j].val
  <2>1. low + i - 1 \in 1 .. n /\ low + j - 1 \in 1 .. n /\ low + i - 1 < low + j - 1
    BY <1>2, <1>23
  <2>2. l.key[low + i - 1].val < l.key[low + j - 1].val
    BY <2>1 DEF HoldsBut
  <2>3. QED
    BY <1>20, <2>2
<1>24. ASSUME NEW v \in Values, \A i \in 1 .. m : k.key[i].val # v, NEW r \in RecIds
       PROVE  M[v][r] = 0
  <2>1. ASSUME NEW h \in low .. high PROVE l.key[h].val # v
    <3>1. h - low + 1 \in 1 .. m /\ low + (h - low + 1) - 1 = h
      BY <1>2 DEF m
    <3>2. QED
      BY <1>20, <1>24, <3>1
  <2>2. M[v] = [s \in RecIds |-> 0]
    BY <2>1 DEF Sub
  <2>3. QED
    BY <2>2
<1> HIDE DEF M
<1>25. HoldsBut(k, P, M, 0)
  BY <1>8, <1>21, <1>22, <1>23, <1>24 DEF HoldsBut
<1>26. \E P1 : Woven(k, P1, t) /\ P1[0] = <<>> /\ HoldsBut(k, P1, M, 0)
  BY <1>15, <1>19, <1>25
<1>27. QED
  BY <1>8, <1>20, <1>26 DEF CompactFacts, k, m, t, M

-----------------------------------------------------------------------------
(* A leaf that holds the entries N, and where room is left for a first key if a *)
(* value has few copies.                                                        *)

Spare(l) == FewCopies => AM_sl + recSize < l.recIdPtr
LeafOK(l, N) ==
  \E Q, c : Woven(l, Q, c) /\ HoldsBut(l, Q, N, 0) /\ Spare(l)

\* One entry more.
LEMMA PlusIs ==
  ASSUME NEW N \in Counts, NEW v \in Values, NEW r \in RecIds
  PROVE  /\ Plus(N, v, r) \in Counts
         /\ \A w \in Values : \A s \in RecIds :
              Plus(N, v, r)[w][s] = IF w = v /\ s = r THEN N[w][s] + 1 ELSE N[w][s]
         /\ Small(Plus(N, v, r)) => Small(N)
<1> DEFINE M == Plus(N, v, r)
<1>1. DOMAIN N = Values /\ \A w \in Values : N[w] \in [RecIds -> Nat] /\ DOMAIN N[w] = RecIds
  BY DEF Counts
<1>2. \A w \in Values : \A s \in RecIds : N[w][s] \in Nat
  BY <1>1
<1>3. [N[v] EXCEPT ![r] = @ + 1] \in [RecIds -> Nat]
  BY <1>1, <1>2
<1>4. M \in Counts
  BY <1>1, <1>3 DEF Plus, Counts
<1>5. \A w \in Values : \A s \in RecIds : M[w][s] = IF w = v /\ s = r THEN N[w][s] + 1 ELSE N[w][s]
  BY <1>1 DEF Plus
<1> HIDE DEF M
<1>6. \A w \in Values : \A s \in RecIds : N[w][s] <= M[w][s] /\ M[w][s] \in Nat
  BY <1>2, <1>5
<1>7. ASSUME Small(M) PROVE Small(N)
  <2>1. ASSUME NEW w \in Values, NEW s \in RecIds
        PROVE  N[w][s] <= IF s \in RecsOf(w) THEN MaxCopies ELSE 0
    <3>1. M[w][s] <= IF s \in RecsOf(w) THEN MaxCopies ELSE 0
      BY <1>7 DEF Small
    <3> DEFINE b == IF s \in RecsOf(w) THEN MaxCopies ELSE 0
    <3>2. b \in Nat
      BY AMAssumption
    <3> HIDE DEF b
    <3>3. N[w][s] <= b
      BY <1>2, <1>6, <3>1, <3>2 DEF b
    <3>4. QED
      BY <3>3 DEF b
  <2>2. QED
    BY <2>1 DEF Small
<1>8. QED
  BY <1>4, <1>5, <1>7 DEF M

PutOut(k, l, N, index, recId) ==
  /\ k.numKeys = l.numKeys /\ k.nextLeafPage = l.nextLeafPage
  /\ \A i \in 1 .. l.numKeys : k.key[i].val = l.key[i].val
  /\ LeafOK(k, Plus(N, l.key[index].val, recId))

\* A leaf of one key has few cells when none is free.
LEMMA OneKey ==
  ASSUME NEW l, NEW Q, NEW c, Woven(l, Q, c), NEW N \in Counts, NEW e, HoldsBut(l, Q, N, e), Small(N),
         l.numKeys = 1
  PROVE  /\ l.key[1].val \in Values /\ Len(Q[0]) \in Nat /\ Len(Q[1]) \in Nat
         /\ c = Len(Q[1]) + Len(Q[0]) /\ Len(Q[1]) <= Most(l.key[1].val)
<1>1. 1 \in 1 .. l.numKeys /\ 0 \in 0 .. l.numKeys /\ 1 \in 0 .. l.numKeys /\ l.numKeys = 1
  OBVIOUS
<1>2. Len(Q[1]) <= Most(l.key[1].val)
  BY <1>1, Pigeon
<1>3. l.key[1].val \in Values
  BY <1>1, WovenIs
<1>4. Q[0] \in Seq(Cells(c)) /\ Q[1] \in Seq(Cells(c))
  BY <1>1, WovenIs
<1>5. Len(Q[0]) \in Nat /\ Len(Q[1]) \in Nat
  BY <1>4, LenProperties
<1>6. Cardinality(Used(Q, 1, 0)) + Cardinality(Used(Q, 0 + 1, l.numKeys)) + Len(Q[0]) = c
  BY <1>1, UsedAll
<1>7. Cardinality(Used(Q, 1, 0)) = 0
  <2>1. 1 \in 1 .. l.numKeys + 1 /\ 0 \in 0 .. l.numKeys
    BY <1>1
  <2>2. QED
    BY <2>1, UsedIs
<1>8. Cardinality(Used(Q, 1, 1)) = Cardinality(Used(Q, 1, 1 - 1)) + Len(Q[1])
  <2>1. 1 \in 1 .. l.numKeys /\ 1 \in 1 .. l.numKeys
    BY <1>1
  <2>2. QED
    BY <2>1, UsedMore
<1>9. Cardinality(Used(Q, 1, 1)) = Len(Q[1])
  BY <1>5, <1>7, <1>8
<1>10. c = Len(Q[1]) + Len(Q[0])
  <2>1. 0 + 1 = 1
    OBVIOUS
  <2>2. Used(Q, 0 + 1, l.numKeys) = Used(Q, 1, 1)
    BY <1>1, <2>1
  <2> DEFINE x == Cardinality(Used(Q, 1, 0))
             y == Cardinality(Used(Q, 1, 1))
             p == Len(Q[0])
             q == Len(Q[1])
  <2>3. x + y + p = c
    BY <1>6, <2>2
  <2>4. x = 0 /\ y = q /\ p \in Nat /\ q \in Nat
    BY <1>5, <1>7, <1>9
  <2> HIDE DEF x, y, p, q
  <2>5. c = q + p
    BY <2>3, <2>4
  <2>6. QED
    BY <2>5 DEF p, q
<1>11. QED
  BY <1>2, <1>3, <1>5, <1>10

\* AM_InsertToLeafFound with room keeps a leaf good and adds the entry.
LEMMA PutOK ==
  ASSUME NEW l, NEW Q, NEW c, Woven(l, Q, c), NEW N \in Counts, NEW e, HoldsBut(l, Q, N, e),
         NEW index \in 1 .. l.numKeys, e \in {0, index}, NEW recId \in RecIds,
         Small(Plus(N, l.key[index].val, recId)), Spare(l),
         l.freeListPtr # AM_NULL \/ Gap(l) >= CELL
  PROVE  PutOut(AM_InsertToLeafFound(l, recId, index), l, N, index, recId)
<1> DEFINE k == AM_InsertToLeafFound(l, recId, index)
           v == l.key[index].val
           M == Plus(N, v, recId)
<1>1. v \in Values
  BY WovenIs
<1>2. M \in Counts
  BY <1>1, PlusIs
<1>3. CASE l.freeListPtr # AM_NULL
  <2>1. /\ k.numKeys = l.numKeys /\ k.nextLeafPage = l.nextLeafPage /\ k.recIdPtr = l.recIdPtr
        /\ \A i \in 1 .. l.numKeys : k.key[i].val = l.key[i].val
        /\ \E P, d : Woven(k, P, d) /\ HoldsBut(k, P, M, 0)
    BY <1>3, FoundInFreeCell
  <2> HIDE DEF k, M
  <2>2. LeafOK(k, M)
    BY <2>1 DEF LeafOK, Spare
  <2>3. QED
    BY <2>1, <2>2 DEF PutOut, k, M
<1>4. CASE l.freeListPtr = AM_NULL
  <2>1. /\ k.numKeys = l.numKeys /\ k.nextLeafPage = l.nextLeafPage
        /\ \A i \in 1 .. l.numKeys : k.key[i].val = l.key[i].val
        /\ \E P, d : Woven(k, P, d) /\ P[0] = <<>> /\ HoldsBut(k, P, M, 0)
    BY <1>4, FoundInNewCell
  <2> HIDE DEF k, M, v
  <2>2. PICK P, d : Woven(k, P, d) /\ P[0] = <<>> /\ HoldsBut(k, P, M, 0)
    BY <2>1
  <2>3. /\ k.numKeys \in Nat /\ k.keyPtr = AM_sl + k.numKeys * recSize /\ k.keyPtr <= k.recIdPtr
        /\ k.recIdPtr = PAGE_SIZE - CELL * d /\ d \in Nat
    BY <2>2 DEF Woven
  <2>4. k.keyPtr \in Nat /\ k.recIdPtr \in Nat
    BY <2>2, WovenIs
  <2>5. ASSUME FewCopies PROVE AM_sl + recSize < k.recIdPtr
    <3>1. CASE k.numKeys = 1
      <4>1. Small(M)
        BY DEF M, v
      <4>2. k.key[1].val \in Values /\ d = Len(P[1]) + Len(P[0]) /\ Len(P[1]) <= Most(k.key[1].val) /\ Len(P[1]) \in Nat
        BY <1>2, <2>2, <3>1, <4>1, OneKey
      <4> DEFINE x == Most(k.key[1].val)
      <4>3. x \in Nat /\ PAGE_SIZE > AM_sl + 2 * recSize + CELL * (x + 1)
        BY <2>5, <4>2, MostIs
      <4>4. Len(P[0]) = 0
        BY <2>2
      <4> HIDE DEF x
      <4>5. d <= x /\ d \in Nat
        BY <4>2, <4>4 DEF x
      <4>6. QED
        BY <2>3, <4>3, <4>5, NumbersAre
    <3>2. CASE k.numKeys # 1
      <4>1. k.numKeys >= 2
        BY <2>1, <2>3, <3>2
      <4>2. 2 * recSize <= k.numKeys * recSize /\ k.numKeys * recSize \in Nat
        BY <2>3, <4>1, NumbersAre, NoMore
      <4> DEFINE x == k.numKeys * recSize
      <4> HIDE DEF x
      <4>3. 2 * recSize <= x /\ x \in Nat /\ k.keyPtr = AM_sl + x
        BY <2>3, <4>2 DEF x
      <4>4. QED
        BY <2>3, <2>4, <4>3, NumbersAre
    <3>3. QED
      BY <3>1, <3>2
  <2>6. LeafOK(k, M)
    BY <2>2, <2>5 DEF LeafOK, Spare
  <2>7. QED
    BY <2>1, <2>6 DEF PutOut, k, M, v
<1>5. QED
  BY <1>3, <1>4

-----------------------------------------------------------------------------
(* Where the search of a leaf ends. *)

Spot(l, value, index, found) ==
  \/ found = TRUE /\ index \in 1 .. l.numKeys /\ l.key[index].val = value
  \/ found = FALSE /\ index \in 1 .. l.numKeys + 1 /\ Between(l, value, index)

\* AM_SearchLeaf finds the key, or the place where it belongs.
LEMMA SearchLeafIs ==
  ASSUME NEW l, NEW Q, NEW c, Woven(l, Q, c), NEW N, NEW e, HoldsBut(l, Q, N, e), NEW value \in Values
  PROVE  Spot(l, value, AM_SearchLeaf(l, value).index, AM_SearchLeaf(l, value).found)
<1> DEFINE keys == KeysOf(l)
           s == BinarySearch(keys, value)
           n == l.numKeys
<1>1. n \in Nat /\ Values \subseteq Int
  BY AMAssumption DEF Woven, Values
<1>2. \A i \in 1 .. n : l.key[i].val \in Int
  BY <1>1, WovenIs
<1>3. keys \in Seq(Int) /\ Len(keys) = n /\ \A i \in 1 .. n : keys[i] = l.key[i].val
  <2>1. keys = [i \in 1 .. n |-> l.key[i].val]
    BY DEF KeysOf
  <2> HIDE DEF keys
  <2>2. keys \in [1 .. n -> Int] /\ \A i \in 1 .. n : keys[i] = l.key[i].val
    BY <1>2, <2>1
  <2>3. QED
    BY <1>1, <2>2
<1> HIDE DEF keys
<1>4. Ordered(keys)
  <2>1. \A i, j \in 1 .. n : i < j => l.key[i].val < l.key[j].val
    BY DEF HoldsBut
  <2>2. QED
    BY <1>3, <2>1 DEF Ordered
<1>5. value \in Int
  BY <1>1
<1>6. \/ s.found = TRUE /\ s.at \in 0 .. n - 1 /\ keys[s.at + 1] = value
      \/ /\ s.found = FALSE /\ s.at \in 0 .. n
         /\ \A i \in 1 .. s.at : keys[i] < value
         /\ \A i \in s.at + 1 .. n : keys[i] > value
  BY <1>3, <1>4, <1>5, BinarySearchIs
<1> HIDE DEF s, n
<1>7. AM_SearchLeaf(l, value) = [found |-> s.found, index |-> s.at + 1]
  BY DEF AM_SearchLeaf, s, keys
<1>8. AM_SearchLeaf(l, value).found = s.found /\ AM_SearchLeaf(l, value).index = s.at + 1
  BY <1>7
<1>9. CASE s.found = TRUE /\ s.at \in 0 .. n - 1 /\ keys[s.at + 1] = value
  <2>1. s.at + 1 \in 1 .. n
    BY <1>1, <1>9
  <2>2. QED
    BY <1>3, <1>8, <1>9, <2>1 DEF Spot, n
<1>10. CASE /\ s.found = FALSE /\ s.at \in 0 .. n
            /\ \A i \in 1 .. s.at : keys[i] < value
            /\ \A i \in s.at + 1 .. n : keys[i] > value
  <2> DEFINE x == s.at + 1
  <2>1. x \in 1 .. n + 1 /\ \A i \in 1 .. x - 1 : i \in 1 .. s.at /\ i \in 1 .. n
    BY <1>1, <1>10
  <2>2. \A i \in x .. n : i \in s.at + 1 .. n /\ i \in 1 .. n
    BY <1>1, <1>10
  <2>3. \A i \in 1 .. x - 1 : l.key[i].val < value
    BY <1>3, <1>10, <2>1
  <2>4. \A i \in x .. n : value < l.key[i].val
    BY <1>2, <1>3, <1>5, <1>10, <2>2
  <2> HIDE DEF x
  <2>5. Between(l, value, x)
    BY <2>3, <2>4 DEF Between, n
  <2>6. AM_SearchLeaf(l, value).index = x /\ AM_SearchLeaf(l, value).found = FALSE
    BY <1>8, <1>10 DEF x
  <2>7. QED
    BY <2>1, <2>5, <2>6 DEF Spot, n
<1>11. QED
  BY <1>6, <1>9, <1>10

-----------------------------------------------------------------------------
(* AM_InsertintoLeaf. *)

\* The keys of k are those of l, with value in its place.
KeysAfter(k, l, value, index, found) ==
  \/ /\ found = TRUE /\ k.numKeys = l.numKeys
     /\ \A i \in 1 .. l.numKeys : k.key[i].val = l.key[i].val
  \/ /\ found = FALSE /\ k.numKeys = l.numKeys + 1 /\ k.key[index].val = value
     /\ \A i \in 1 .. index - 1 : k.key[i].val = l.key[i].val
     /\ \A i \in index .. l.numKeys : k.key[i + 1].val = l.key[i].val

Inserted(k, l, N, value, recId, index, found) ==
  /\ k.nextLeafPage = l.nextLeafPage /\ KeysAfter(k, l, value, index, found)
  /\ LeafOK(k, Plus(N, value, recId))

\* An entry of a key that is there is inserted.
LEMMA FoundInserted ==
  ASSUME NEW l, NEW Q, NEW c, Woven(l, Q, c), NEW N \in Counts, HoldsBut(l, Q, N, 0),
         NEW value \in Values, NEW recId \in RecIds, Small(Plus(N, value, recId)), Spare(l),
         NEW index \in 1 .. l.numKeys, l.key[index].val = value, l.freeListPtr # AM_NULL \/ Gap(l) >= CELL
  PROVE  Inserted(AM_InsertToLeafFound(l, recId, index), l, N, value, recId, index, TRUE)
<1>1. PutOut(AM_InsertToLeafFound(l, recId, index), l, N, index, recId)
  BY PutOK
<1>2. QED
  BY <1>1 DEF PutOut, Inserted, KeysAfter

\* An entry of a new key is inserted.
LEMMA NotFoundInserted ==
  ASSUME NEW l, NEW Q, NEW c, Woven(l, Q, c), NEW N \in Counts, HoldsBut(l, Q, N, 0),
         NEW value \in Values, NEW recId \in RecIds, Small(Plus(N, value, recId)), Spare(l),
         NEW index \in 1 .. l.numKeys + 1, Between(l, value, index), Gap(l) >= recSize,
         l.freeListPtr # AM_NULL \/ Gap(l) >= CELL + recSize
  PROVE  Inserted(AM_InsertToLeafNotFound(l, value, recId, index), l, N, value, recId, index, FALSE)
<1> DEFINE k0 == Opened(l, value, index)
           k == AM_InsertToLeafFound(k0, recId, index)
<1>1. IsLeafRec(l) /\ l.numKeys \in Nat
  BY DEF Woven
<1>2. AM_InsertToLeafNotFound(l, value, recId, index) = k
  BY <1>1, OpenedIs
<1>3. OpenedFacts(l, Q, c, N, value, index)
  BY OpenedHolds
<1>4. /\ k0.numKeys = l.numKeys + 1 /\ k0.key[index].val = value /\ k0.nextLeafPage = l.nextLeafPage
      /\ k0.recIdPtr = l.recIdPtr /\ k0.keyPtr = l.keyPtr + recSize /\ k0.freeListPtr = l.freeListPtr
      /\ \A i \in 1 .. index - 1 : k0.key[i].val = l.key[i].val
      /\ \A i \in index .. l.numKeys : k0.key[i + 1].val = l.key[i].val
      /\ \E P : Woven(k0, P, c) /\ HoldsBut(k0, P, N, index)
  BY <1>3 DEF OpenedFacts
<1> HIDE DEF k0
<1>5. PICK P : Woven(k0, P, c) /\ HoldsBut(k0, P, N, index)
  BY <1>4
<1>6. k0.freeListPtr # AM_NULL \/ Gap(k0) >= CELL
  <2>1. l.recIdPtr \in Nat /\ l.keyPtr \in Nat
    BY WovenIs
  <2>2. Gap(l) = l.recIdPtr - l.keyPtr /\ Gap(k0) = l.recIdPtr - (l.keyPtr + recSize)
    BY <1>4 DEF Gap
  <2>3. QED
    BY <1>4, <2>1, <2>2, NumbersAre
<1>7. index \in 1 .. k0.numKeys /\ index \in {0, index} /\ Spare(k0)
      /\ Small(Plus(N, k0.key[index].val, recId))
  BY <1>1, <1>4 DEF Spare
<1> HIDE DEF k
<1>8. PutOut(k, k0, N, index, recId)
  BY <1>5, <1>6, <1>7, PutOK DEF k
<1>9. KeysAfter(k, l, value, index, FALSE)
  <2>1. /\ index \in 1 .. l.numKeys + 1 /\ \A i \in 1 .. index - 1 : i \in 1 .. l.numKeys + 1
    BY <1>1
  <2>2. \A i \in index .. l.numKeys : i + 1 \in 1 .. l.numKeys + 1
    BY <1>1
  <2>3. k.numKeys = l.numKeys + 1 /\ \A i \in 1 .. l.numKeys + 1 : k.key[i].val = k0.key[i].val
    BY <1>4, <1>8 DEF PutOut
  <2>4. k.key[index].val = value
    BY <1>4, <2>1, <2>3
  <2>5. \A i \in 1 .. index - 1 : k.key[i].val = l.key[i].val
    BY <1>4, <2>1, <2>3
  <2>6. \A i \in index .. l.numKeys : k.key[i + 1].val = l.key[i].val
    BY <1>4, <2>2, <2>3
  <2>7. QED
    BY <2>3, <2>4, <2>5, <2>6 DEF KeysAfter
<1>10. QED
  BY <1>2, <1>4, <1>8, <1>9 DEF PutOut, Inserted

\* N is what is left when the entries under all the keys are taken.
LEMMA SubAll ==
  ASSUME NEW l, NEW Q, NEW N \in Counts, NEW e, HoldsBut(l, Q, N, e)
  PROVE  Sub(N, l, 1, l.numKeys) = N
<1>1. ASSUME NEW v \in Values
      PROVE  Sub(N, l, 1, l.numKeys)[v] = N[v]
  <2>1. CASE \E i \in 1 .. l.numKeys : l.key[i].val = v
    BY <2>1 DEF Sub
  <2>2. CASE \A i \in 1 .. l.numKeys : l.key[i].val # v
    <3>1. N[v] \in [RecIds -> Nat]
      BY DEF Counts
    <3>2. \A r \in RecIds : N[v][r] = 0
      BY <2>2 DEF HoldsBut
    <3>3. N[v] = [r \in RecIds |-> 0]
      BY <3>1, <3>2
    <3>4. Sub(N, l, 1, l.numKeys)[v] = [r \in RecIds |-> 0]
      BY <2>2 DEF Sub
    <3>5. QED
      BY <3>3, <3>4
  <2>3. QED
    BY <2>1, <2>2
<1> DEFINE M == Sub(N, l, 1, l.numKeys)
<1>2. DOMAIN M = Values /\ M = [v \in Values |-> M[v]]
  BY DEF Sub
<1> HIDE DEF M
<1>3. N = [v \in Values |-> N[v]]
  BY DEF Counts
<1>4. QED
  BY <1>1, <1>2, <1>3 DEF M

\* How full a leaf is: what its gap and its free cells come to, and what one key
\* leaves when it has few copies.
LEMMA Fullness ==
  ASSUME NEW l, NEW Q, NEW c, Woven(l, Q, c), NEW N \in Counts, NEW e, HoldsBut(l, Q, N, e), Small(N),
         Spare(l)
  PROVE  /\ l.recIdPtr \in Nat /\ l.keyPtr \in Nat /\ Gap(l) = l.recIdPtr - l.keyPtr /\ l.numinfreeList \in Nat
         /\ l.freeListPtr = AM_NULL => l.numinfreeList = 0
         /\ FewCopies /\ l.numKeys = 0 => Gap(l) > recSize
         /\ FewCopies /\ l.numKeys <= 1 => l.numinfreeList * CELL + Gap(l) > recSize + CELL
<1>1. /\ l.numKeys \in Nat /\ l.recIdPtr = PAGE_SIZE - CELL * c /\ l.keyPtr = AM_sl + l.numKeys * recSize
      /\ l.numinfreeList = Len(Q[0]) /\ c \in Nat
  BY DEF Woven
<1>2. /\ l.recIdPtr \in Nat /\ l.keyPtr \in Nat /\ (l.freeListPtr = AM_NULL <=> Q[0] = <<>>)
      /\ \A i \in 0 .. l.numKeys : Q[i] \in Seq(Cells(c))
  BY WovenIs
<1>3. Len(Q[0]) \in Nat /\ (Q[0] = <<>> => Len(Q[0]) = 0)
  <2>1. Q[0] \in Seq(Cells(c))
    BY <1>1, <1>2
  <2>2. QED
    BY <2>1, LenProperties
<1>4. CELL = 6 /\ AM_sl = 24 /\ recSize \in Nat /\ PAGE_SIZE \in Nat
  BY NumbersAre
<1>5. Gap(l) = l.recIdPtr - l.keyPtr
  BY DEF Gap
<1>6. l.numKeys = 0 => l.keyPtr = AM_sl
  BY <1>1, <1>4
<1>7. l.numKeys = 1 => l.keyPtr = AM_sl + recSize
  BY <1>1, <1>4
<1> DEFINE f == l.numinfreeList
<1>8. f \in Nat /\ f = Len(Q[0])
  BY <1>1, <1>3
<1> HIDE DEF f
<1>9. ASSUME l.numKeys = 0 PROVE f * CELL + Gap(l) > recSize + CELL
  <2>1. Cardinality(Used(Q, 1, 0)) + Cardinality(Used(Q, 0 + 1, l.numKeys)) + Len(Q[0]) = c
    <3>1. 0 \in 0 .. l.numKeys
      BY <1>9
    <3>2. QED
      BY <3>1, UsedAll
  <2>2. 0 + 1 = 1 /\ 1 \in 1 .. l.numKeys + 1 /\ 0 \in 0 .. l.numKeys
    BY <1>9
  <2>3. Cardinality(Used(Q, 1, 0)) = 0
    BY <2>2, UsedIs
  <2>4. Used(Q, 0 + 1, l.numKeys) = Used(Q, 1, 0)
    BY <1>9, <2>2
  <2> DEFINE x == Cardinality(Used(Q, 1, 0))
  <2>5. x + x + f = c /\ x = 0
    BY <1>8, <2>1, <2>3, <2>4
  <2> HIDE DEF x
  <2>6. f = c
    BY <1>8, <2>5
  <2>7. PAGE_SIZE > AM_sl + recSize + CELL
    BY LeafAssumption
  <2>8. Gap(l) = PAGE_SIZE - 6 * c - 24
    BY <1>1, <1>4, <1>5, <1>6, <1>9
  <2>9. QED
    BY <1>1, <1>4, <2>6, <2>7, <2>8
<1>10. ASSUME FewCopies, l.numKeys = 1 PROVE f * CELL + Gap(l) > recSize + CELL
  <2> DEFINE m == Most(l.key[1].val)
             p == Len(Q[1])
  <2>1. l.key[1].val \in Values /\ c = Len(Q[1]) + Len(Q[0]) /\ Len(Q[1]) <= Most(l.key[1].val) /\ Len(Q[1]) \in Nat
    BY <1>10, OneKey
  <2>2. m \in Nat /\ PAGE_SIZE > AM_sl + 2 * recSize + CELL * (m + 1)
    BY <1>10, <2>1, MostIs
  <2>3. c = p + f /\ p <= m /\ p \in Nat
    BY <1>8, <2>1
  <2> HIDE DEF m, p
  <2>4. Gap(l) = PAGE_SIZE - 6 * c - (24 + recSize)
    BY <1>1, <1>4, <1>5, <1>7, <1>10
  <2>5. QED
    BY <1>1, <1>4, <1>8, <2>2, <2>3, <2>4
<1>11. l.numKeys <= 1 => l.numKeys = 0 \/ l.numKeys = 1
  BY <1>1
<1>12. FewCopies /\ l.numKeys <= 1 => f * CELL + Gap(l) > recSize + CELL
  BY <1>9, <1>10, <1>11
<1>13. FewCopies /\ l.numKeys = 0 => Gap(l) > recSize
  BY <1>2, <1>4, <1>5, <1>6 DEF Spare
<1>14. QED
  BY <1>2, <1>3, <1>5, <1>8, <1>12, <1>13 DEF f

InsertFacts(put, l, N, value, recId, index, found) ==
  /\ put.done \in BOOLEAN
  /\ put.done /\ ~ CompactsNothing(l, found, put.done) => Inserted(put.leaf, l, N, value, recId, index, found)
  /\ ~ put.done /\ ~ CompactsNothing(l, found, put.done) => l.numKeys >= 2
  /\ FewCopies => ~ CompactsNothing(l, found, put.done)

\* There is room, or a key to compact, or two to part, or else no key to copy, which
\* does not happen if a value has few copies.
LEMMA InsertinIs ==
  ASSUME NEW l, NEW N \in Counts, LeafOK(l, N), NEW value \in Values, NEW recId \in RecIds,
         Small(Plus(N, value, recId)), NEW index, NEW found, Spot(l, value, index, found)
  PROVE  InsertFacts(AM_InsertintoLeaf(l, value, recId, index, found), l, N, value, recId, index, found)
<1> DEFINE put == AM_InsertintoLeaf(l, value, recId, index, found)
           f == l.numinfreeList
<1>1. PICK Q, c : Woven(l, Q, c) /\ HoldsBut(l, Q, N, 0) /\ Spare(l)
  BY DEF LeafOK
<1>2. Small(N)
  BY PlusIs
<1>3. /\ l.recIdPtr \in Nat /\ l.keyPtr \in Nat /\ Gap(l) = l.recIdPtr - l.keyPtr /\ f \in Nat
      /\ l.freeListPtr = AM_NULL => f = 0
      /\ FewCopies /\ l.numKeys = 0 => Gap(l) > recSize
      /\ FewCopies /\ l.numKeys <= 1 => f * CELL + Gap(l) > recSize + CELL
  BY <1>1, <1>2, Fullness
<1>4. CELL = 6 /\ recSize \in Nat /\ l.numKeys \in Nat /\ IsLeafRec(l)
  BY <1>1, NumbersAre DEF Woven
<1> HIDE DEF f
<1>4a. l.numKeys <= 0 <=> l.numKeys = 0
  BY <1>4
<1>4b. l.numKeys <= 1 <=> ~ (l.numKeys >= 2)
  BY <1>4
<1> SUFFICES InsertFacts(put, l, N, value, recId, index, found)
  OBVIOUS
<1>5. CASE found = TRUE /\ index \in 1 .. l.numKeys /\ l.key[index].val = value
  <2>1. CASE l.freeListPtr # AM_NULL \/ Gap(l) >= CELL
    <3>0a. HasRoom(l, found)
      BY <1>5, <2>1 DEF HasRoom
    <3>0b. ~ CompactsNothing(l, found, TRUE)
      BY <3>0a DEF CompactsNothing
    <3>0. HasRoom(l, found) /\ ~ CompactsNothing(l, found, TRUE)
      BY <3>0a, <3>0b
    <3>1. put = [done |-> TRUE, leaf |-> AM_InsertToLeafFound(l, recId, index)]
      BY <1>5, <3>0 DEF AM_InsertintoLeaf
    <3>2. Inserted(AM_InsertToLeafFound(l, recId, index), l, N, value, recId, index, TRUE)
      BY <1>1, <1>5, <2>1, FoundInserted
    <3>3. put.done = TRUE /\ put.leaf = AM_InsertToLeafFound(l, recId, index)
      BY <3>1
    <3> HIDE DEF put
    <3>4. QED
      BY <1>5, <3>0, <3>2, <3>3 DEF InsertFacts
  <2>2. CASE ~ (l.freeListPtr # AM_NULL \/ Gap(l) >= CELL)
    <3>0. ~ HasRoom(l, found)
      BY <1>5, <2>2 DEF HasRoom
    <3>1. put = [done |-> FALSE, leaf |-> l]
      BY <1>5, <3>0 DEF AM_InsertintoLeaf
    <3>2. f = 0 /\ ~ (Gap(l) >= CELL) /\ Gap(l) \in Int
      BY <1>3, <2>2
    <3>3. FewCopies => l.numKeys >= 2
      BY <1>3, <1>4, <3>2
    <3>4. put.done = FALSE
      BY <3>1
    <3>5. CompactsNothing(l, found, FALSE) <=> ~ (l.numKeys >= 2)
      BY <1>4b, <3>0 DEF CompactsNothing
    <3> HIDE DEF put
    <3>6. QED
      BY <3>3, <3>4, <3>5 DEF InsertFacts
  <2>3. QED
    BY <2>1, <2>2
<1>6. CASE found = FALSE /\ index \in 1 .. l.numKeys + 1 /\ Between(l, value, index)
  <2> DEFINE room == IF l.freeListPtr = AM_NULL THEN Gap(l) >= CELL + recSize ELSE Gap(l) > recSize
             tight == l.freeListPtr # AM_NULL /\ l.numinfreeList * CELL + Gap(l) > recSize + CELL
             k == AM_Compact(1, l.numKeys, l)
  <2>0. Gap(l) \in Int
    BY <1>3
  <2>1. CASE room
    <3>0a. HasRoom(l, found)
      BY <1>6, <2>1 DEF HasRoom
    <3>0b. ~ CompactsNothing(l, found, TRUE)
      BY <3>0a DEF CompactsNothing
    <3>0. HasRoom(l, found) /\ ~ CompactsNothing(l, found, TRUE)
      BY <3>0a, <3>0b
    <3>1. put = [done |-> TRUE, leaf |-> AM_InsertToLeafNotFound(l, value, recId, index)]
      BY <1>6, <3>0 DEF AM_InsertintoLeaf
    <3>2. Gap(l) >= recSize /\ (l.freeListPtr # AM_NULL \/ Gap(l) >= CELL + recSize)
      BY <1>4, <2>0, <2>1
    <3>3. Inserted(AM_InsertToLeafNotFound(l, value, recId, index), l, N, value, recId, index, FALSE)
      BY <1>1, <1>6, <3>2, NotFoundInserted
    <3>4. put.done = TRUE /\ put.leaf = AM_InsertToLeafNotFound(l, value, recId, index)
      BY <3>1
    <3> HIDE DEF put
    <3>5. QED
      BY <1>6, <3>0, <3>3, <3>4 DEF InsertFacts
  <2>2. CASE ~ room /\ tight
    <3>0. ~ HasRoom(l, found)
      BY <1>6, <2>2 DEF HasRoom
    <3>1. put = [done |-> TRUE, leaf |-> AM_InsertToLeafNotFound(k, value, recId, index)]
      BY <1>6, <2>2, <3>0 DEF AM_InsertintoLeaf
    <3>1a. put.done = TRUE /\ put.leaf = AM_InsertToLeafNotFound(k, value, recId, index)
      BY <3>1
    <3>1b. FewCopies => ~ CompactsNothing(l, found, TRUE)
      <4>1. FewCopies => l.numKeys # 0
        BY <1>3, <2>2
      <4>2. QED
        BY <1>4a, <4>1 DEF CompactsNothing
    <3>1c. CASE CompactsNothing(l, found, TRUE)
      <4> HIDE DEF put
      <4>1. QED
        BY <3>1a, <3>1b, <3>1c DEF InsertFacts
    <3>1d. SUFFICES ASSUME ~ CompactsNothing(l, found, TRUE) PROVE InsertFacts(put, l, N, value, recId, index, found)
      BY <3>1c
    <3>2. l.numKeys # 0
      BY <1>4a, <3>0, <3>1d DEF CompactsNothing
    <3>3. CompactFacts(k, l, Q, N, 1, l.numKeys)
      <4>1. 1 \in 1 .. l.numKeys /\ l.numKeys \in 1 .. l.numKeys
        BY <1>4, <3>2
      <4>2. QED
        BY <1>1, <4>1, CompactIs
    <3> DEFINE t == Cardinality(Used(Q, 1, l.numKeys))
    <3> HIDE DEF k
    <3>4. l.numKeys - 1 + 1 = l.numKeys /\ \A i \in 1 .. l.numKeys : 1 + i - 1 = i
      BY <1>4
    <3>5. /\ k.numKeys = l.numKeys /\ k.nextLeafPage = l.nextLeafPage /\ k.freeListPtr = AM_NULL
          /\ k.recIdPtr = PAGE_SIZE - CELL * t /\ k.keyPtr = AM_sl + l.numKeys * recSize
          /\ \A i \in 1 .. l.numKeys : k.key[i].val = l.key[i].val
      BY <3>3, <3>4 DEF CompactFacts
    <3>6. PICK P : Woven(k, P, t) /\ HoldsBut(k, P, N, 0)
      <4>1. Sub(N, l, 1, l.numKeys) = N
        BY <1>1, SubAll
      <4>2. QED
        BY <3>3, <4>1 DEF CompactFacts
    <3>7. t + f = c /\ t \in Nat
      <4>1. Cardinality(Used(Q, 1, 0)) + Cardinality(Used(Q, 0 + 1, l.numKeys)) + Len(Q[0]) = c
        <5>1. 0 \in 0 .. l.numKeys
          BY <1>4
        <5>2. QED
          BY <1>1, <5>1, UsedAll
      <4>2. 0 + 1 = 1 /\ 1 \in 1 .. l.numKeys + 1 /\ 0 \in 0 .. l.numKeys /\ l.numKeys \in 0 .. l.numKeys
        BY <1>4
      <4>3. Cardinality(Used(Q, 1, 0)) = 0
        BY <1>1, <4>2, UsedIs
      <4>4. t \in Nat
        BY <1>1, <4>2, UsedIs
      <4>5. f = Len(Q[0])
        BY <1>1 DEF Woven, f
      <4> DEFINE x == Cardinality(Used(Q, 1, 0))
      <4>6. x + t + f = c /\ x = 0
        BY <4>1, <4>2, <4>3, <4>5
      <4> HIDE DEF x, t
      <4>7. QED
        BY <1>3, <4>4, <4>6
    <3> HIDE DEF t
    <3>8. Gap(k) = Gap(l) + 6 * f /\ k.recIdPtr >= l.recIdPtr /\ k.recIdPtr \in Int
      <4>1. l.recIdPtr = PAGE_SIZE - CELL * c /\ l.keyPtr = AM_sl + l.numKeys * recSize /\ c \in Nat
        BY <1>1 DEF Woven
      <4>2. k.keyPtr = l.keyPtr /\ Gap(k) = k.recIdPtr - k.keyPtr
        BY <3>5, <4>1 DEF Gap
      <4>3. PAGE_SIZE \in Nat
        BY NumbersAre
      <4>4. k.recIdPtr = PAGE_SIZE - 6 * t /\ l.recIdPtr = PAGE_SIZE - 6 * c
        BY <1>4, <3>5, <4>1
      <4>5. QED
        BY <1>3, <3>7, <4>1, <4>2, <4>3, <4>4
    <3>9. Gap(k) >= CELL + recSize /\ Gap(k) >= recSize
      <4>1. f * 6 + Gap(l) > recSize + 6
        BY <1>4, <2>2 DEF f
      <4>2. QED
        BY <1>3, <1>4, <2>0, <3>8, <4>1
    <3>10. Spare(k)
      BY <1>1, <1>3, <1>4, <3>8, NumbersAre DEF Spare
    <3>11. Between(k, value, index) /\ index \in 1 .. k.numKeys + 1
      <4>1. \A i \in 1 .. index - 1 : i \in 1 .. l.numKeys
        BY <1>4, <1>6
      <4>2. \A i \in index .. l.numKeys : i \in 1 .. l.numKeys
        BY <1>4, <1>6
      <4>3. QED
        BY <1>6, <3>5, <4>1, <4>2 DEF Between
    <3>12. Inserted(AM_InsertToLeafNotFound(k, value, recId, index), k, N, value, recId, index, FALSE)
      BY <3>6, <3>9, <3>10, <3>11, NotFoundInserted
    <3>13. Inserted(AM_InsertToLeafNotFound(k, value, recId, index), l, N, value, recId, index, FALSE)
      <4>1. (\A i \in 1 .. index - 1 : i \in 1 .. l.numKeys) /\ \A i \in index .. l.numKeys : i \in 1 .. l.numKeys
        BY <1>4, <1>6
      <4>2. QED
        BY <3>5, <3>12, <4>1 DEF Inserted, KeysAfter
    <3> HIDE DEF put
    <3>14. QED
      BY <1>6, <3>1a, <3>1b, <3>13 DEF InsertFacts
  <2>3. CASE ~ room /\ ~ tight
    <3>0. ~ HasRoom(l, found)
      BY <1>6, <2>3 DEF HasRoom
    <3>1. put = [done |-> FALSE, leaf |-> l]
      BY <1>6, <2>3, <3>0 DEF AM_InsertintoLeaf
    <3>2. FewCopies => l.numKeys >= 2
      <4>1. CASE l.freeListPtr = AM_NULL
        <5>1. f = 0 /\ ~ (Gap(l) >= CELL + recSize)
          BY <1>3, <2>3, <4>1
        <5>2. QED
          BY <1>3, <1>4, <2>0, <5>1
      <4>2. CASE l.freeListPtr # AM_NULL
        <5>1. ~ (f * CELL + Gap(l) > recSize + CELL)
          BY <2>3, <4>2 DEF f
        <5>2. QED
          BY <1>3, <1>4, <5>1
      <4>3. QED
        BY <4>1, <4>2
    <3>3. CompactsNothing(l, found, FALSE) <=> ~ (l.numKeys >= 2)
      BY <1>4b, <3>0 DEF CompactsNothing
    <3>4. put.done = FALSE
      BY <3>1
    <3> HIDE DEF put
    <3>5. QED
      BY <3>2, <3>3, <3>4 DEF InsertFacts
  <2>4. QED
    BY <2>1, <2>2, <2>3
<1>7. QED
  BY <1>5, <1>6 DEF Spot

-----------------------------------------------------------------------------
(* Splitting a leaf. *)

\* The entries of N with a value below key, and the others.
None == [r \in RecIds |-> 0]
Low(N, key) == [v \in Values |-> IF v < key THEN N[v] ELSE None]
High(N, key) == [v \in Values |-> IF v < key THEN None ELSE N[v]]

\* No entry of a value.
LEMMA NoneIs == None \in [RecIds -> Nat] /\ \A r \in RecIds : None[r] = 0
<1>1. QED
  BY DEF None

\* Entries below a key and from it on.
LEMMA LowHigh ==
  ASSUME NEW N \in Counts, NEW key
  PROVE  /\ Low(N, key) \in Counts /\ High(N, key) \in Counts
         /\ \A v \in Values : Low(N, key)[v] = (IF v < key THEN N[v] ELSE None)
         /\ \A v \in Values : High(N, key)[v] = (IF v < key THEN None ELSE N[v])
         /\ Small(N) => Small(Low(N, key)) /\ Small(High(N, key))
<1>1. \A v \in Values : N[v] \in [RecIds -> Nat]
  BY DEF Counts
<1>2. /\ \A v \in Values : Low(N, key)[v] = (IF v < key THEN N[v] ELSE None)
      /\ \A v \in Values : High(N, key)[v] = (IF v < key THEN None ELSE N[v])
  BY DEF Low, High
<1>3. Low(N, key) = [v \in Values |-> Low(N, key)[v]] /\ High(N, key) = [v \in Values |-> High(N, key)[v]]
  BY DEF Low, High
<1> DEFINE L == Low(N, key)
           H == High(N, key)
<1> HIDE DEF L, H
<1>4. \A v \in Values : L[v] \in [RecIds -> Nat] /\ H[v] \in [RecIds -> Nat]
  BY <1>1, <1>2, NoneIs DEF L, H
<1>5. L \in Counts /\ H \in Counts
  BY <1>3, <1>4 DEF L, H, Counts
<1>6. ASSUME Small(N) PROVE Small(L) /\ Small(H)
  <2>1. ASSUME NEW v \in Values, NEW r \in RecIds
        PROVE  /\ L[v][r] <= IF r \in RecsOf(v) THEN MaxCopies ELSE 0
               /\ H[v][r] <= IF r \in RecsOf(v) THEN MaxCopies ELSE 0
    <3> DEFINE b == IF r \in RecsOf(v) THEN MaxCopies ELSE 0
    <3>1. N[v][r] <= b
      BY <1>6 DEF Small
    <3>2. b \in Nat
      BY AMAssumption
    <3>3. (L[v] = N[v] \/ L[v] = None) /\ (H[v] = N[v] \/ H[v] = None)
      BY <1>2 DEF L, H
    <3> HIDE DEF b
    <3>4. L[v][r] <= b /\ H[v][r] <= b
      BY <3>1, <3>2, <3>3, NoneIs
    <3>5. QED
      BY <3>4 DEF b
  <2>2. QED
    BY <2>1 DEF Small
<1>7. QED
  BY <1>2, <1>5, <1>6 DEF L, H

\* An entry more below the key.
LEMMA LowPlus ==
  ASSUME NEW N \in Counts, NEW v \in Values, NEW r \in RecIds, NEW key, v < key
  PROVE  Low(Plus(N, v, r), key) = Plus(Low(N, key), v, r) /\ High(Plus(N, v, r), key) = High(N, key)
<1>1. /\ \A w \in Values : Plus(N, v, r)[w] = IF w = v THEN [N[v] EXCEPT ![r] = @ + 1] ELSE N[w]
      /\ \A w \in Values : Plus(Low(N, key), v, r)[w]
                             = IF w = v THEN [Low(N, key)[v] EXCEPT ![r] = @ + 1] ELSE Low(N, key)[w]
      /\ DOMAIN Plus(Low(N, key), v, r) = Values
      /\ Plus(Low(N, key), v, r) = [w \in Values |-> Plus(Low(N, key), v, r)[w]]
  BY LowHigh DEF Plus, Counts
<1>2. Low(N, key)[v] = N[v]
  BY LowHigh
<1>3. \A w \in Values : Low(Plus(N, v, r), key)[w] = Plus(Low(N, key), v, r)[w]
  BY <1>1, <1>2 DEF Low
<1>4. Low(Plus(N, v, r), key) = [w \in Values |-> Low(Plus(N, v, r), key)[w]]
  BY DEF Low
<1>5. Low(Plus(N, v, r), key) = Plus(Low(N, key), v, r)
  BY <1>1, <1>3, <1>4
<1>6. \A w \in Values : High(Plus(N, v, r), key)[w] = High(N, key)[w]
  BY <1>1 DEF High
<1>7. QED
  BY <1>5, <1>6 DEF High

\* An entry more from the key on.
LEMMA HighPlus ==
  ASSUME NEW N \in Counts, NEW v \in Values, NEW r \in RecIds, NEW key, ~ (v < key)
  PROVE  High(Plus(N, v, r), key) = Plus(High(N, key), v, r) /\ Low(Plus(N, v, r), key) = Low(N, key)
<1>1. /\ \A w \in Values : Plus(N, v, r)[w] = IF w = v THEN [N[v] EXCEPT ![r] = @ + 1] ELSE N[w]
      /\ \A w \in Values : Plus(High(N, key), v, r)[w]
                             = IF w = v THEN [High(N, key)[v] EXCEPT ![r] = @ + 1] ELSE High(N, key)[w]
      /\ DOMAIN Plus(High(N, key), v, r) = Values
      /\ Plus(High(N, key), v, r) = [w \in Values |-> Plus(High(N, key), v, r)[w]]
  BY LowHigh DEF Plus, Counts
<1>2. High(N, key)[v] = N[v]
  BY LowHigh
<1>3. \A w \in Values : High(Plus(N, v, r), key)[w] = Plus(High(N, key), v, r)[w]
  BY <1>1, <1>2 DEF High
<1>4. High(Plus(N, v, r), key) = [w \in Values |-> High(Plus(N, v, r), key)[w]]
  BY DEF High
<1>5. High(Plus(N, v, r), key) = Plus(High(N, key), v, r)
  BY <1>1, <1>3, <1>4
<1>6. \A w \in Values : Low(Plus(N, v, r), key)[w] = Low(N, key)[w]
  BY <1>1 DEF Low
<1>7. QED
  BY <1>5, <1>6 DEF Low

\* A key between two neighbours of a leaf parts its entries where it parts its keys.
LEMMA SubParts ==
  ASSUME NEW l, NEW Q, NEW c, Woven(l, Q, c), NEW N \in Counts, NEW e, HoldsBut(l, Q, N, e),
         NEW half \in 1 .. l.numKeys - 1, NEW key \in Int,
         l.key[half].val < key, key <= l.key[half + 1].val
  PROVE  Sub(N, l, 1, half) = Low(N, key) /\ Sub(N, l, half + 1, l.numKeys) = High(N, key)
<1> DEFINE n == l.numKeys
           K(i) == l.key[i].val
<1>1. n \in Nat /\ Values \subseteq Int /\ half + 1 \in 1 .. n /\ half \in 1 .. n
  BY AMAssumption DEF Woven, Values
<1>2. \A i \in 1 .. n : K(i) \in Int /\ K(i) \in Values
  BY <1>1, WovenIs
<1>3. \A i, j \in 1 .. n : i < j => K(i) < K(j)
  BY DEF HoldsBut
<1>4. \A v \in Values : (\A i \in 1 .. n : K(i) # v) => N[v] = None
  <2>1. ASSUME NEW v \in Values, \A i \in 1 .. n : K(i) # v PROVE N[v] = None
    <3>1. \A r \in RecIds : N[v][r] = 0
      BY <2>1 DEF HoldsBut
    <3>2. N[v] \in [RecIds -> Nat]
      BY DEF Counts
    <3>3. QED
      BY <3>1, <3>2 DEF None
  <2>2. QED
    BY <2>1
<1>5. \A i \in 1 .. half : i \in 1 .. n /\ K(i) < key
  <2>1. ASSUME NEW i \in 1 .. half PROVE i \in 1 .. n /\ K(i) < key
    <3>1. i \in 1 .. n /\ (i = half \/ i < half)
      BY <1>1
    <3>2. K(half) < key
      OBVIOUS
    <3>3. i < half => K(i) < K(half)
      BY <1>1, <1>3, <3>1
    <3> HIDE DEF K
    <3>4. K(i) \in Int /\ K(half) \in Int
      BY <1>1, <1>2, <3>1
    <3>5. QED
      BY <3>1, <3>2, <3>3, <3>4
  <2>2. QED
    BY <2>1
<1>6. \A i \in half + 1 .. n : i \in 1 .. n /\ ~ (K(i) < key)
  <2>1. ASSUME NEW i \in half + 1 .. n PROVE i \in 1 .. n /\ ~ (K(i) < key)
    <3>1. i \in 1 .. n /\ (i = half + 1 \/ half + 1 < i)
      BY <1>1
    <3>2. key <= K(half + 1)
      OBVIOUS
    <3>3. half + 1 < i => K(half + 1) < K(i)
      BY <1>1, <1>3, <3>1
    <3> HIDE DEF K
    <3>4. K(i) \in Int /\ K(half + 1) \in Int
      BY <1>1, <1>2, <3>1
    <3>5. QED
      BY <3>1, <3>2, <3>3, <3>4
  <2>2. QED
    BY <2>1
<1>7. \A i \in 1 .. n : i \in 1 .. half \/ i \in half + 1 .. n
  BY <1>1
<1>8. Sub(N, l, 1, half) = [v \in Values |-> IF \E i \in 1 .. half : K(i) = v THEN N[v] ELSE None]
  BY DEF Sub, None
<1>9. Sub(N, l, half + 1, n) = [v \in Values |-> IF \E i \in half + 1 .. n : K(i) = v THEN N[v] ELSE None]
  BY DEF Sub, None
<1> HIDE DEF K, n
<1>10. \A v \in Values : (IF \E i \in 1 .. half : K(i) = v THEN N[v] ELSE None) = (IF v < key THEN N[v] ELSE None)
  BY <1>4, <1>5, <1>6, <1>7
<1>11. \A v \in Values : (IF \E i \in half + 1 .. n : K(i) = v THEN N[v] ELSE None) = (IF v < key THEN None ELSE N[v])
  BY <1>4, <1>5, <1>6, <1>7
<1>12. QED
  BY <1>8, <1>9, <1>10, <1>11 DEF Low, High, n

Half(k, l, N, low, high) ==
  /\ k.numKeys = high - low + 1 /\ k.nextLeafPage = l.nextLeafPage /\ k.freeListPtr = AM_NULL
  /\ \A i \in 1 .. high - low + 1 : k.key[i].val = l.key[low + i - 1].val
  /\ Gap(k) \in Int /\ Gap(k) >= CELL + recSize
  /\ LeafOK(k, Sub(N, l, low, high))

\* The keys low to high are not all the keys of l.
Part(l, low, high) ==
  /\ low \in 1 .. l.numKeys /\ high \in low .. l.numKeys
  /\ (low = 1 /\ high < l.numKeys) \/ (low > 1 /\ high = l.numKeys)

\* Without the cells of one key and the key itself there is room for an entry.
LEMMA HalfIs ==
  ASSUME NEW l, NEW Q, NEW c, Woven(l, Q, c), NEW N \in Counts, HoldsBut(l, Q, N, 0),
         NEW low, NEW high, Part(l, low, high)
  PROVE  Half(AM_Compact(low, high, l), l, N, low, high)
<1> DEFINE k == AM_Compact(low, high, l)
           n == l.numKeys
           m == high - low + 1
           t == Cardinality(Used(Q, low, high))
<1>0. /\ low \in 1 .. l.numKeys /\ high \in low .. l.numKeys
      /\ (low = 1 /\ high < l.numKeys) \/ (low > 1 /\ high = l.numKeys)
  BY DEF Part
<1> USE <1>0
<1>1. CompactFacts(k, l, Q, N, low, high)
  BY CompactIs
<1>2. n \in Nat /\ low \in Nat /\ high \in Nat /\ m \in Nat /\ m + 1 <= n /\ c \in Nat
  BY DEF Woven
<1>3. /\ k.numKeys = m /\ k.nextLeafPage = l.nextLeafPage /\ k.freeListPtr = AM_NULL
      /\ k.recIdPtr = PAGE_SIZE - CELL * t /\ k.keyPtr = AM_sl + m * recSize
      /\ \A i \in 1 .. m : k.key[i].val = l.key[low + i - 1].val
      /\ \E P : Woven(k, P, t) /\ P[0] = <<>> /\ HoldsBut(k, P, Sub(N, l, low, high), 0)
  BY <1>1 DEF CompactFacts
<1> HIDE DEF k, m
<1>4. \A i \in 1 .. n : Len(Q[i]) \in Nat /\ Len(Q[i]) >= 1
  <2>1. ASSUME NEW i \in 1 .. n PROVE Len(Q[i]) \in Nat /\ Len(Q[i]) >= 1
    <3>1. i \in 0 .. n
      BY <1>2
    <3>2. Q[i] \in Seq(Cells(c))
      BY <3>1, WovenIs
    <3>3. i # 0 /\ Q[i] # <<>>
      BY DEF HoldsBut
    <3>4. QED
      BY <3>2, <3>3, LenProperties, EmptySeq
  <2>2. QED
    BY <2>1
<1>5. t \in Nat /\ t + 1 <= c
  <2>1. t \in Nat
    <3>1. low \in 1 .. n + 1 /\ high \in 0 .. n
      BY <1>2
    <3>2. QED
      BY <3>1, UsedIs
  <2>2. CASE low = 1 /\ high < n
    <3> DEFINE x == Cardinality(Used(Q, high + 1, n))
               y == Cardinality(Used(Q, high + 1, high + 1))
               z == Cardinality(Used(Q, high + 1, high + 1 - 1))
    <3>1. high \in 0 .. n /\ high + 1 \in 1 .. n /\ high + 1 \in high + 1 .. n /\ high + 1 \in 1 .. n + 1
          /\ n \in 0 .. n /\ 0 \in 0 .. n /\ high + 1 - 1 \in 0 .. n
      BY <1>2, <2>2
    <3>2. t + x + Len(Q[0]) = c
      BY <2>2, <3>1, UsedAll
    <3>3. y = z + Len(Q[high + 1]) /\ y <= x
      BY <3>1, UsedMore
    <3>4. x \in Nat /\ z \in Nat
      BY <3>1, UsedIs
    <3>5. Len(Q[0]) \in Nat
      <4>1. Q[0] \in Seq(Cells(c))
        BY <3>1, WovenIs
      <4>2. QED
        BY <4>1, LenProperties
    <3>6. Len(Q[high + 1]) \in Nat /\ Len(Q[high + 1]) >= 1
      BY <1>4, <3>1
    <3> HIDE DEF x, y, z, t
    <3> DEFINE p == Len(Q[0])
               q == Len(Q[high + 1])
    <3>7. t + x + p = c /\ y = z + q /\ p \in Nat /\ q \in Nat /\ q >= 1
      BY <3>2, <3>3, <3>5, <3>6
    <3> HIDE DEF p, q
    <3>8. QED
      BY <1>2, <2>1, <3>3, <3>4, <3>7
  <2>3. CASE low > 1 /\ high = n
    <3> DEFINE x == Cardinality(Used(Q, 1, low - 1))
               y == Cardinality(Used(Q, 1, 1))
               z == Cardinality(Used(Q, 1, 1 - 1))
    <3>1. low - 1 \in 0 .. n /\ low - 1 + 1 = low /\ 1 \in 1 .. n /\ 1 \in 1 .. n + 1
          /\ 1 \in 0 .. n /\ low - 1 \in 1 .. n /\ 0 \in 0 .. n /\ 1 - 1 \in 0 .. n
      BY <1>2, <2>3
    <3>2. x + t + Len(Q[0]) = c
      BY <2>3, <3>1, UsedAll
    <3>3. y = z + Len(Q[1])
      <4>1. 1 \in 1 .. l.numKeys /\ 1 \in 1 .. l.numKeys
        BY <3>1
      <4>2. QED
        BY <4>1, UsedMore
    <3>4. y <= x
      <4>1. 1 \in 1 .. l.numKeys /\ 1 \in 0 .. l.numKeys /\ low - 1 \in 1 .. l.numKeys
        BY <3>1
      <4>2. QED
        BY <4>1, UsedMono
    <3>5. x \in Nat /\ z \in Nat /\ y \in Nat
      BY <3>1, UsedIs
    <3>6. Len(Q[0]) \in Nat
      <4>1. Q[0] \in Seq(Cells(c))
        BY <3>1, WovenIs
      <4>2. QED
        BY <4>1, LenProperties
    <3>7. Len(Q[1]) \in Nat /\ Len(Q[1]) >= 1
      BY <1>4, <3>1
    <3> HIDE DEF x, y, z, t
    <3> DEFINE p == Len(Q[0])
               q == Len(Q[1])
    <3>8. x + t + p = c /\ y = z + q /\ p \in Nat /\ q \in Nat /\ q >= 1
      BY <3>2, <3>3, <3>6, <3>7
    <3> HIDE DEF p, q
    <3>9. QED
      BY <1>2, <2>1, <3>4, <3>5, <3>8
  <2>4. QED
    BY <2>2, <2>3
<1> HIDE DEF t
<1>6. CELL = 6 /\ AM_sl = 24 /\ PAGE_SIZE \in Nat /\ recSize \in Nat
  BY NumbersAre
<1>7. m * recSize \in Nat /\ n * recSize \in Nat /\ m * recSize + recSize <= n * recSize
  <2>1. m * recSize \in Nat /\ (m + 1) * recSize = m * recSize + recSize
    BY <1>2, <1>6, OneMore
  <2>2. (m + 1) * recSize <= n * recSize /\ n * recSize \in Nat
    <3>1. m + 1 \in Nat /\ n \in Nat
      BY <1>2
    <3>2. QED
      BY <1>2, <1>6, <3>1, NoMore
  <2>3. QED
    BY <2>1, <2>2
<1> DEFINE a == m * recSize
           b == n * recSize
<1>8. PAGE_SIZE - CELL * c >= AM_sl + b
  BY DEF Woven
<1>9. k.recIdPtr = PAGE_SIZE - CELL * t /\ k.keyPtr = AM_sl + a /\ a \in Nat /\ b \in Nat /\ a + recSize <= b
  BY <1>3, <1>7
<1> HIDE DEF a, b
<1>10. Gap(k) = k.recIdPtr - k.keyPtr
  BY DEF Gap
<1>11. Gap(k) \in Int /\ Gap(k) >= CELL + recSize /\ Spare(k)
  BY <1>2, <1>5, <1>6, <1>8, <1>9, <1>10 DEF Spare
<1>12. LeafOK(k, Sub(N, l, low, high))
  BY <1>3, <1>11 DEF LeafOK
<1>13. QED
  BY <1>3, <1>11, <1>12 DEF Half, k, m

\* Values are integers.
LEMMA ValuesInt == Values \subseteq Int
<1>1. QED
  BY AMAssumption DEF Values

\* A half has room for the entry.
LEMMA HalfTakes ==
  ASSUME NEW k, k.freeListPtr = AM_NULL, Gap(k) \in Int, Gap(k) >= CELL + recSize,
         NEW value, NEW recId, NEW index, NEW found \in BOOLEAN
  PROVE  AM_InsertintoLeaf(k, value, recId, index, found).done = TRUE /\ ~ CompactsNothing(k, found, TRUE)
<1>0. HasRoom(k, found)
  BY NumbersAre DEF HasRoom
<1>1. ~ CompactsNothing(k, found, TRUE)
  BY <1>0 DEF CompactsNothing
<1>2. CASE found
  <2>1. AM_InsertintoLeaf(k, value, recId, index, found)
          = [done |-> TRUE, leaf |-> AM_InsertToLeafFound(k, recId, index)]
    BY <1>0, <1>2 DEF AM_InsertintoLeaf
  <2>2. AM_InsertintoLeaf(k, value, recId, index, found).done = TRUE
    BY <2>1
  <2>3. QED
    BY <1>1, <2>2
<1>3. CASE ~ found
  <2>1. AM_InsertintoLeaf(k, value, recId, index, found)
          = [done |-> TRUE, leaf |-> AM_InsertToLeafNotFound(k, value, recId, index)]
    BY <1>0, <1>3 DEF AM_InsertintoLeaf
  <2>2. AM_InsertintoLeaf(k, value, recId, index, found).done = TRUE
    BY <2>1
  <2>3. QED
    BY <1>1, <2>2
<1>4. QED
  BY <1>1, <1>2, <1>3

\* So the entry is in the half after AM_InsertintoLeaf.
LEMMA HalfInserted ==
  ASSUME NEW k, k.freeListPtr = AM_NULL, Gap(k) \in Int, Gap(k) >= CELL + recSize,
         NEW N \in Counts, LeafOK(k, N), NEW value \in Values, NEW recId \in RecIds,
         Small(Plus(N, value, recId)), NEW index, NEW found, Spot(k, value, index, found)
  PROVE  Inserted(AM_InsertintoLeaf(k, value, recId, index, found).leaf, k, N, value, recId, index, found)
<1>1. found \in BOOLEAN
  BY DEF Spot
<1>2. AM_InsertintoLeaf(k, value, recId, index, found).done = TRUE /\ ~ CompactsNothing(k, found, TRUE)
  BY <1>1, HalfTakes
<1>3. InsertFacts(AM_InsertintoLeaf(k, value, recId, index, found), k, N, value, recId, index, found)
  BY InsertinIs
<1> DEFINE put == AM_InsertintoLeaf(k, value, recId, index, found)
<1> HIDE DEF put
<1>4. put.done = TRUE /\ ~ CompactsNothing(k, found, put.done) /\ InsertFacts(put, k, N, value, recId, index, found)
  BY <1>2, <1>3 DEF put
<1>5. Inserted(put.leaf, k, N, value, recId, index, found)
  BY <1>4 DEF InsertFacts
<1>6. QED
  BY <1>5 DEF put

\* What the two halves are.
SplitFacts(first, second, l, N, value, recId) ==
  LET key == second.key[1].val
  IN  /\ first.numKeys \in Nat \ {0} /\ second.numKeys \in Nat \ {0}
      /\ first.nextLeafPage = l.nextLeafPage /\ second.nextLeafPage = l.nextLeafPage
      /\ key \in Values
      /\ LeafOK(first, Low(Plus(N, value, recId), key))
      /\ LeafOK(second, High(Plus(N, value, recId), key))

\* The entry goes to the first half.
LEMMA SplitFirst ==
  ASSUME NEW l, NEW Q, NEW c, Woven(l, Q, c), NEW N \in Counts, HoldsBut(l, Q, N, 0),
         NEW value \in Values, NEW recId \in RecIds, Small(Plus(N, value, recId)),
         NEW index, NEW found, Spot(l, value, index, found),
         NEW half \in 1 .. l.numKeys - 1, index <= half,
         NEW k1, Half(k1, l, N, 1, half), NEW k2, Half(k2, l, N, half + 1, l.numKeys)
  PROVE  SplitFacts(AM_InsertintoLeaf(k1, value, recId, index, found).leaf, k2, l, N, value, recId)
<1> DEFINE n == l.numKeys
           key == k2.key[1].val
           first == AM_InsertintoLeaf(k1, value, recId, index, found).leaf
           M == Plus(N, value, recId)
<1>1. n \in Nat /\ half \in Nat /\ Values \subseteq Int /\ half \in 1 .. n /\ half + 1 \in 1 .. n
  BY ValuesInt DEF Woven
<1>2. /\ k1.numKeys = half /\ k1.nextLeafPage = l.nextLeafPage /\ k1.freeListPtr = AM_NULL
      /\ \A i \in 1 .. half : k1.key[i].val = l.key[i].val
      /\ Gap(k1) \in Int /\ Gap(k1) >= CELL + recSize
      /\ LeafOK(k1, Sub(N, l, 1, half))
  <2>1. half - 1 + 1 = half /\ \A i \in 1 .. half : 1 + i - 1 = i
    BY <1>1
  <2>2. QED
    BY <2>1 DEF Half
<1>3. /\ k2.numKeys = n - half /\ k2.nextLeafPage = l.nextLeafPage
      /\ key = l.key[half + 1].val
      /\ LeafOK(k2, Sub(N, l, half + 1, n))
  <2>1. n - (half + 1) + 1 = n - half /\ half + 1 + 1 - 1 = half + 1 /\ 1 \in 1 .. n - half
    BY <1>1
  <2>2. QED
    BY <2>1 DEF Half
<1>4. \A i \in 1 .. n : l.key[i].val \in Values
  BY WovenIs
<1>5. key \in Values /\ key \in Int /\ l.key[half].val < key /\ key <= l.key[half + 1].val
  <2>1. half < half + 1 /\ \A i, j \in 1 .. n : i < j => l.key[i].val < l.key[j].val
    BY <1>1 DEF HoldsBut
  <2>2. l.key[half].val < l.key[half + 1].val /\ l.key[half + 1].val \in Values
    BY <1>1, <1>4, <2>1
  <2> DEFINE y == l.key[half + 1].val
             z == l.key[half].val
  <2>3. key = y /\ z < y /\ y \in Values /\ y \in Int
    BY <1>1, <1>3, <2>2
  <2> HIDE DEF y, z, key
  <2>4. key \in Values /\ key \in Int /\ z < key /\ key <= y
    BY <2>3
  <2>5. QED
    BY <2>4 DEF y, z
<1>6. value < key
  <2>1. CASE found = TRUE /\ index \in 1 .. n /\ l.key[index].val = value
    <3>1. index < half + 1 /\ \A i, j \in 1 .. n : i < j => l.key[i].val < l.key[j].val
      BY <1>1, <2>1 DEF HoldsBut
    <3>2. QED
      BY <1>1, <1>3, <2>1, <3>1
  <2>2. CASE found = FALSE /\ index \in 1 .. n + 1 /\ Between(l, value, index)
    <3>1. half + 1 \in index .. n
      BY <1>1, <2>2
    <3>2. QED
      BY <1>3, <2>2, <3>1 DEF Between
  <2>3. QED
    BY <2>1, <2>2 DEF Spot
<1> HIDE DEF key
<1>7. Sub(N, l, 1, half) = Low(N, key) /\ Sub(N, l, half + 1, n) = High(N, key)
  BY <1>5, SubParts
<1>8. Low(M, key) = Plus(Low(N, key), value, recId) /\ High(M, key) = High(N, key)
  BY <1>6, LowPlus
<1>9. M \in Counts
  BY PlusIs
<1>10. Small(Low(M, key)) /\ Low(N, key) \in Counts
  BY <1>9, LowHigh
<1>11. Spot(k1, value, index, found)
  <2>1. CASE found = TRUE /\ index \in 1 .. n /\ l.key[index].val = value
    <3>1. index \in 1 .. half
      BY <1>1, <2>1
    <3>2. QED
      BY <1>2, <2>1, <3>1 DEF Spot
  <2>2. CASE found = FALSE /\ index \in 1 .. n + 1 /\ Between(l, value, index)
    <3>1. index \in 1 .. half + 1
      BY <1>1, <2>2
    <3>2. \A i \in 1 .. index - 1 : i \in 1 .. half
      BY <1>1, <2>2
    <3>3. \A i \in index .. half : i \in 1 .. half /\ i \in index .. n
      BY <1>1, <2>2
    <3>4. Between(k1, value, index)
      BY <1>2, <2>2, <3>2, <3>3 DEF Between
    <3>5. QED
      BY <1>2, <2>2, <3>1, <3>4 DEF Spot
  <2>3. QED
    BY <2>1, <2>2 DEF Spot
<1> DEFINE L == Low(N, key)
<1>12. LeafOK(k1, L) /\ L \in Counts /\ Small(Plus(L, value, recId))
  BY <1>2, <1>7, <1>8, <1>10
<1> HIDE DEF L, first, M
<1>13. Inserted(first, k1, L, value, recId, index, found)
  BY <1>2, <1>11, <1>12, HalfInserted DEF first
<1>14. first.nextLeafPage = l.nextLeafPage /\ LeafOK(first, Plus(L, value, recId))
       /\ (first.numKeys = half \/ first.numKeys = half + 1)
  BY <1>2, <1>13 DEF Inserted, KeysAfter
<1>15. LeafOK(first, Low(M, key)) /\ LeafOK(k2, High(M, key))
  BY <1>3, <1>7, <1>8, <1>14 DEF L
<1>16. first.numKeys \in Nat \ {0} /\ k2.numKeys \in Nat \ {0}
  BY <1>1, <1>3, <1>14
<1>17. QED
  BY <1>3, <1>5, <1>14, <1>15, <1>16 DEF SplitFacts, first, M, key

\* The entry goes to the second half.
LEMMA SplitSecond ==
  ASSUME NEW l, NEW Q, NEW c, Woven(l, Q, c), NEW N \in Counts, HoldsBut(l, Q, N, 0),
         NEW value \in Values, NEW recId \in RecIds, Small(Plus(N, value, recId)),
         NEW index, NEW found, Spot(l, value, index, found),
         NEW half \in 1 .. l.numKeys - 1, index > half,
         NEW k1, Half(k1, l, N, 1, half), NEW k2, Half(k2, l, N, half + 1, l.numKeys)
  PROVE  SplitFacts(k1, AM_InsertintoLeaf(k2, value, recId, index - half, found).leaf, l, N, value, recId)
<1> DEFINE n == l.numKeys
           x == index - half
           m == n - half
           second == AM_InsertintoLeaf(k2, value, recId, x, found).leaf
           key == second.key[1].val
           M == Plus(N, value, recId)
           top == l.key[half + 1].val
           L == High(N, top)
<1>1. n \in Nat /\ half \in Nat /\ Values \subseteq Int /\ half \in 1 .. n /\ half + 1 \in 1 .. n
  BY ValuesInt DEF Woven
<1>2. /\ k1.numKeys = half /\ k1.nextLeafPage = l.nextLeafPage /\ LeafOK(k1, Sub(N, l, 1, half))
  <2>1. half - 1 + 1 = half
    BY <1>1
  <2>2. QED
    BY <2>1 DEF Half
<1>3. /\ k2.numKeys = m /\ k2.nextLeafPage = l.nextLeafPage /\ k2.freeListPtr = AM_NULL
      /\ \A i \in 1 .. m : k2.key[i].val = l.key[half + i].val
      /\ Gap(k2) \in Int /\ Gap(k2) >= CELL + recSize
      /\ LeafOK(k2, Sub(N, l, half + 1, n))
  <2>1. n - (half + 1) + 1 = m /\ \A i \in 1 .. m : half + 1 + i - 1 = half + i
    BY <1>1
  <2>2. QED
    BY <2>1 DEF Half
<1>4. \A i \in 1 .. n : l.key[i].val \in Values
  BY WovenIs
<1>5. top \in Values /\ top \in Int /\ l.key[half].val < top /\ top <= l.key[half + 1].val
  <2>1. half < half + 1 /\ \A i, j \in 1 .. n : i < j => l.key[i].val < l.key[j].val
    BY <1>1 DEF HoldsBut
  <2>2. l.key[half].val < l.key[half + 1].val /\ l.key[half + 1].val \in Values
    BY <1>1, <1>4, <2>1
  <2> DEFINE z == l.key[half].val
  <2>3. z < top /\ top \in Values /\ top \in Int /\ top = l.key[half + 1].val
    BY <1>1, <2>2
  <2> HIDE DEF top, z
  <2>4. top \in Values /\ top \in Int /\ z < top /\ top <= top
    BY <2>3
  <2>5. QED
    BY <2>3, <2>4 DEF z
<1>6. x \in Nat \ {0} /\ m \in Nat \ {0}
  BY <1>1 DEF Spot
<1>7. Spot(k2, value, x, found)
  <2>1. CASE found = TRUE /\ index \in 1 .. n /\ l.key[index].val = value
    <3>1. x \in 1 .. m /\ half + x = index
      BY <1>1, <2>1
    <3> HIDE DEF x, m
    <3>2. QED
      BY <1>3, <2>1, <3>1 DEF Spot
  <2>2. CASE found = FALSE /\ index \in 1 .. n + 1 /\ Between(l, value, index)
    <3>1. x \in 1 .. m + 1
      BY <1>1, <2>2
    <3>2. \A i \in 1 .. x - 1 : i \in 1 .. m /\ half + i \in 1 .. index - 1
      BY <1>1, <2>2
    <3>3. \A i \in x .. m : i \in 1 .. m /\ half + i \in index .. n
      BY <1>1, <2>2
    <3> HIDE DEF x, m
    <3>4. Between(k2, value, x)
      BY <1>3, <2>2, <3>2, <3>3 DEF Between
    <3>5. QED
      BY <1>3, <2>2, <3>1, <3>4 DEF Spot
  <2>3. QED
    BY <2>1, <2>2 DEF Spot
<1>8. Sub(N, l, 1, half) = Low(N, top) /\ Sub(N, l, half + 1, n) = L
  BY <1>5, SubParts
<1>9. M \in Counts /\ L \in Counts
  BY PlusIs, LowHigh
<1>10. l.key[half].val < value
  <2>1. CASE found = TRUE /\ index \in 1 .. n /\ l.key[index].val = value
    <3>1. half < index /\ \A i, j \in 1 .. n : i < j => l.key[i].val < l.key[j].val
      BY <1>1, <2>1 DEF HoldsBut
    <3>2. QED
      BY <1>1, <2>1, <3>1
  <2>2. CASE found = FALSE /\ index \in 1 .. n + 1 /\ Between(l, value, index)
    <3>1. half \in 1 .. index - 1
      BY <1>1, <2>2
    <3>2. QED
      BY <2>2, <3>1 DEF Between
  <2>3. QED
    BY <2>1, <2>2 DEF Spot
<1>11. \/ ~ (value < top)
       \/ found = FALSE /\ x = 1 /\ value < top
  <2>1. CASE found = TRUE /\ index \in 1 .. n /\ l.key[index].val = value
    <3>1. half + 1 = index \/ half + 1 < index
      BY <1>1, <2>1
    <3>2. half + 1 < index => top < value
      BY <1>1, <2>1 DEF HoldsBut
    <3> HIDE DEF top
    <3>3. half + 1 = index => top = value
      BY <2>1 DEF top
    <3>4. QED
      BY <1>1, <1>5, <3>1, <3>2, <3>3
  <2>2. CASE found = FALSE /\ index \in 1 .. n + 1 /\ Between(l, value, index)
    <3>1. CASE half + 1 = index
      <4>1. x = 1 /\ half + 1 \in index .. n
        BY <1>1, <3>1
      <4>2. value < top
        BY <2>2, <4>1 DEF Between
      <4>3. QED
        BY <2>2, <4>1, <4>2
    <3>2. CASE half + 1 # index
      <4>1. half + 1 \in 1 .. index - 1
        BY <1>1, <2>2, <3>2
      <4>2. top < value
        BY <2>2, <4>1 DEF Between
      <4> HIDE DEF top
      <4>3. QED
        BY <1>1, <1>5, <4>2
    <3>3. QED
      BY <3>1, <3>2
  <2>3. QED
    BY <2>1, <2>2 DEF Spot
<1> HIDE DEF top, x, m, M, L
<1>12. Small(Plus(L, value, recId)) /\ (~ (value < top) => High(M, top) = Plus(L, value, recId) /\ Low(M, top) = Low(N, top))
  <2>1. ~ (value < top) => High(M, top) = Plus(L, value, recId) /\ Low(M, top) = Low(N, top)
    BY HighPlus DEF L, M
  <2>2. CASE ~ (value < top)
    <3>1. Small(High(M, top))
      BY <1>9, LowHigh DEF M
    <3>2. QED
      BY <2>1, <2>2, <3>1
  <2>3. CASE value < top
    <3>1. \A w \in Values : \A s \in RecIds : L[w][s] = (IF w < top THEN 0 ELSE N[w][s])
      BY LowHigh, NoneIs DEF L
    <3>2. \A w \in Values : \A s \in RecIds : Plus(L, value, recId)[w][s] = IF w = value /\ s = recId THEN L[w][s] + 1 ELSE L[w][s]
      BY <1>9, PlusIs
    <3>3. \A w \in Values : \A s \in RecIds : M[w][s] = IF w = value /\ s = recId THEN N[w][s] + 1 ELSE N[w][s]
      BY PlusIs DEF M
    <3>4. \A w \in Values : \A s \in RecIds : N[w][s] \in Nat
      BY DEF Counts
    <3>5. \A w \in Values : \A s \in RecIds :
            Plus(L, value, recId)[w][s] <= M[w][s] /\ Plus(L, value, recId)[w][s] \in Nat /\ M[w][s] \in Nat
      BY <3>1, <3>2, <3>3, <3>4
    <3>6. ASSUME NEW w \in Values, NEW s \in RecIds
          PROVE  Plus(L, value, recId)[w][s] <= IF s \in RecsOf(w) THEN MaxCopies ELSE 0
      <4> DEFINE b == IF s \in RecsOf(w) THEN MaxCopies ELSE 0
                 y == Plus(L, value, recId)[w][s]
      <4>1. b \in Nat
        BY AMAssumption
      <4>2. M[w][s] <= b
        BY DEF Small, M
      <4>3. y <= M[w][s] /\ y \in Nat /\ M[w][s] \in Nat
        BY <3>5
      <4> HIDE DEF b, y
      <4>4. y <= b
        BY <4>1, <4>2, <4>3
      <4>5. QED
        BY <4>4 DEF b, y
    <3>7. QED
      BY <2>3, <3>6 DEF Small
  <2>4. QED
    BY <2>1, <2>2, <2>3
<1>13. LeafOK(k2, L)
  BY <1>3, <1>8
<1> HIDE DEF second
<1>14. Inserted(second, k2, L, value, recId, x, found)
  BY <1>3, <1>7, <1>9, <1>12, <1>13, HalfInserted DEF second
<1>15. /\ second.nextLeafPage = l.nextLeafPage /\ LeafOK(second, Plus(L, value, recId))
       /\ KeysAfter(second, k2, value, x, found)
  BY <1>3, <1>14 DEF Inserted
<1>16. second.numKeys \in Nat \ {0}
  BY <1>3, <1>6, <1>15 DEF KeysAfter
<1>17. k2.key[1].val = top
  <2>1. 1 \in 1 .. m /\ half + 1 = half + 1
    BY <1>6
  <2>2. QED
    BY <1>3, <2>1 DEF top
<1>18. CASE ~ (value < top)
  <2>1. key = top
    <3>1. CASE found = TRUE
      <4>1. 1 \in 1 .. k2.numKeys
        BY <1>3, <1>6
      <4>2. QED
        BY <1>15, <1>17, <3>1, <4>1 DEF KeysAfter
    <3>2. CASE found = FALSE
      <4>1. x # 1
        <5>1. SUFFICES ASSUME x = 1 PROVE FALSE
          OBVIOUS
        <5>2. half + 1 \in index .. n /\ found = FALSE /\ Between(l, value, index)
          BY <1>1, <3>2, <5>1 DEF Spot, x
        <5>3. value < top
          BY <5>2 DEF Between, top
        <5>4. QED
          BY <1>18, <5>3
      <4>2. 1 \in 1 .. x - 1
        BY <1>6, <4>1
      <4>3. QED
        BY <1>15, <1>17, <3>2, <4>2 DEF KeysAfter
    <3>3. QED
      BY <3>1, <3>2 DEF Spot
  <2>2. LeafOK(second, High(M, key)) /\ LeafOK(k1, Low(M, key))
    BY <1>2, <1>8, <1>12, <1>15, <1>18, <2>1
  <2>3. QED
    BY <1>1, <1>2, <1>5, <1>15, <1>16, <2>1, <2>2, <1>3 DEF SplitFacts, second, M, x
<1>19. CASE found = FALSE /\ x = 1 /\ value < top
  <2>1. key = value
    BY <1>15, <1>19 DEF KeysAfter
  <2>2. value \in Int /\ value <= l.key[half + 1].val
    BY <1>1, <1>5, <1>19 DEF top
  <2>3. Sub(N, l, 1, half) = Low(N, value) /\ Sub(N, l, half + 1, n) = High(N, value)
    BY <1>10, <2>2, SubParts
  <2>4. ~ (value < value)
    BY <2>2
  <2>5. High(M, value) = Plus(High(N, value), value, recId) /\ Low(M, value) = Low(N, value)
    BY <2>4, HighPlus DEF M
  <2>6. LeafOK(second, High(M, key)) /\ LeafOK(k1, Low(M, key))
    BY <1>2, <1>8, <1>15, <2>1, <2>3, <2>5
  <2>7. QED
    BY <1>1, <1>2, <1>3, <1>15, <1>16, <2>1, <2>6 DEF SplitFacts, second, M, x
<1>20. QED
  BY <1>11, <1>18, <1>19

-----------------------------------------------------------------------------
(* A leaf split in two. *)

\* SplitLeaf: both halves are good leaves, and together hold the new entry and all the old.
LEMMA SplitIs ==
  ASSUME NEW l, NEW N \in Counts, LeafOK(l, N), NEW value \in Values, NEW recId \in RecIds,
         Small(Plus(N, value, recId)), NEW index, NEW found, Spot(l, value, index, found),
         l.numKeys >= 2
  PROVE  SplitFacts(SplitLeaf(l, value, recId, index, found).first,
                    SplitLeaf(l, value, recId, index, found).second, l, N, value, recId)
<1> DEFINE n == l.numKeys
           half == n \div 2
           k1 == AM_Compact(1, half, l)
           k2 == AM_Compact(half + 1, n, l)
           s == SplitLeaf(l, value, recId, index, found)
<1>1. PICK Q, c : Woven(l, Q, c) /\ HoldsBut(l, Q, N, 0)
  BY DEF LeafOK
<1>2. n \in Nat /\ half \in 1 .. n - 1 /\ half \in 1 .. n /\ half + 1 \in 1 .. n /\ n \in half + 1 .. n
      /\ 1 \in 1 .. n /\ half < n /\ half + 1 > 1 /\ half \in Int
  <2>1. n \in Nat /\ n >= 2
    BY <1>1 DEF Woven
  <2>2. half \in Int /\ half >= 1 /\ half < n
    BY <2>1
  <2> HIDE DEF n, half
  <2>3. QED
    BY <2>1, <2>2
<1>3. s = IF index <= half
          THEN [first |-> AM_InsertintoLeaf(k1, value, recId, index, found).leaf, second |-> k2]
          ELSE [first |-> k1, second |-> AM_InsertintoLeaf(k2, value, recId, index - half, found).leaf]
  BY DEF SplitLeaf
<1> HIDE DEF half, s
<1>4. Half(k1, l, N, 1, half)
  <2>1. Part(l, 1, half)
    BY <1>2 DEF Part
  <2>2. QED
    BY <1>1, <2>1, HalfIs
<1>5. Half(k2, l, N, half + 1, n)
  <2>1. Part(l, half + 1, n)
    BY <1>2 DEF Part
  <2>2. QED
    BY <1>1, <2>1, HalfIs
<1> HIDE DEF k1, k2
<1>6. CASE index <= half
  <2>1. s.first = AM_InsertintoLeaf(k1, value, recId, index, found).leaf /\ s.second = k2
    BY <1>3, <1>6
  <2>2. SplitFacts(AM_InsertintoLeaf(k1, value, recId, index, found).leaf, k2, l, N, value, recId)
    BY <1>1, <1>2, <1>4, <1>5, <1>6, SplitFirst
  <2>3. QED
    BY <2>1, <2>2 DEF s
<1>7. CASE ~ (index <= half)
  <2>1. s.first = k1 /\ s.second = AM_InsertintoLeaf(k2, value, recId, index - half, found).leaf
    BY <1>3, <1>7
  <2>2. index > half
    BY <1>2, <1>7 DEF Spot
  <2>3. SplitFacts(k1, AM_InsertintoLeaf(k2, value, recId, index - half, found).leaf, l, N, value, recId)
    BY <1>1, <1>2, <1>4, <1>5, <2>2, SplitSecond
  <2>4. QED
    BY <2>1, <2>3 DEF s
<1>8. QED
  BY <1>6, <1>7

-----------------------------------------------------------------------------
(* Deleting from a leaf. *)

NextAt(cell, o, x) == [cell EXCEPT ![o].next = x]
Closed(key, index, n) == [i \in DOMAIN key |-> IF i >= index /\ i < n THEN key[i + 1] ELSE key[i]]

\* The leaf k with the cell o put at the head of its free list, before the cell f.
GiveUp(k, o, f) == [k EXCEPT !.cell[o].next = f, !.freeListPtr = o, !.numinfreeList = @ + 1]
\* The leaf k with the slots x, one key fewer.
OneFewer(k, x) == [k EXCEPT !.key = x, !.numKeys = @ - 1, !.keyPtr = @ - recSize]

\* The leaf after the j-th cell of chain went to the free list.
Freed(l, chain, j, index) ==
  LET o == chain[j]
      unlinked == IF j = 1 THEN [l EXCEPT !.key[index].head = l.cell[o].next]
                  ELSE [l EXCEPT !.cell[chain[j - 1]].next = l.cell[o].next]
  IN  GiveUp(unlinked, o, l.freeListPtr)
\* And without the key if its list is empty.
Shut(k, l, index) ==
  IF k.key[index].head # AM_NULL THEN k
  ELSE OneFewer(k, Closed(k.key, index, l.numKeys))
FirstOf(l, chain, recId) ==
  CHOOSE i \in DOMAIN chain : l.cell[chain[i]].recId = recId /\ \A h \in 1 .. i - 1 : l.cell[chain[h]].recId # recId

\* Removed gives the cell up, and then the key if it has no more cells.
LEMMA RemovedForm ==
  ASSUME NEW l, NEW index, NEW recId, NEW chain, chain = Chain(l, l.key[index].head)
  PROVE  Removed(l, index, recId) = Shut(Freed(l, chain, FirstOf(l, chain, recId), index), l, index)
<1>1. QED
  BY DEF Removed, Shut, Freed, FirstOf, GiveUp, OneFewer, Closed

SetFree(k, x, y, z) == [k EXCEPT !.cell = x, !.freeListPtr = y, !.numinfreeList = z]
SetKeys(k, x, y, z) == [k EXCEPT !.key = x, !.numKeys = y, !.keyPtr = z]

\* Three fields set.
LEMMA SetThree ==
  ASSUME NEW a, NEW rp, NEW kp, NEW fl, NEW nf, NEW n, NEW key, NEW cell, NEW x, NEW y, NEW z
  PROVE  /\ SetFree(LeafOf(a, rp, kp, fl, nf, n, key, cell), x, y, z)
               = LeafOf(a, rp, kp, y, z, n, key, x)
         /\ SetKeys(LeafOf(a, rp, kp, fl, nf, n, key, cell), x, y, z)
               = LeafOf(a, rp, z, fl, nf, y, x, cell)
<1> DEFINE k == LeafOf(a, rp, kp, fl, nf, n, key, cell)
<1>1. [k EXCEPT !.cell = x] = LeafOf(a, rp, kp, fl, nf, n, key, x)
  BY DEF LeafOf
<1>2. [LeafOf(a, rp, kp, fl, nf, n, key, x) EXCEPT !.freeListPtr = y] = LeafOf(a, rp, kp, y, nf, n, key, x)
  BY DEF LeafOf
<1>3. [LeafOf(a, rp, kp, y, nf, n, key, x) EXCEPT !.numinfreeList = z] = LeafOf(a, rp, kp, y, z, n, key, x)
  BY DEF LeafOf
<1>4. [k EXCEPT !.key = x] = LeafOf(a, rp, kp, fl, nf, n, x, cell)
  BY DEF LeafOf
<1>5. [LeafOf(a, rp, kp, fl, nf, n, x, cell) EXCEPT !.numKeys = y] = LeafOf(a, rp, kp, fl, nf, y, x, cell)
  BY DEF LeafOf
<1>6. [LeafOf(a, rp, kp, fl, nf, y, x, cell) EXCEPT !.keyPtr = z] = LeafOf(a, rp, z, fl, nf, y, x, cell)
  BY DEF LeafOf
<1> HIDE DEF k
<1>7. [k EXCEPT !.cell = x, !.freeListPtr = y, !.numinfreeList = z]
        = [[[k EXCEPT !.cell = x] EXCEPT !.freeListPtr = y] EXCEPT !.numinfreeList = z]
  OBVIOUS
<1>8. [k EXCEPT !.key = x, !.numKeys = y, !.keyPtr = z]
        = [[[k EXCEPT !.key = x] EXCEPT !.numKeys = y] EXCEPT !.keyPtr = z]
  OBVIOUS
<1>9. [k EXCEPT !.cell = x, !.freeListPtr = y, !.numinfreeList = z] = LeafOf(a, rp, kp, y, z, n, key, x)
  BY <1>1, <1>2, <1>3, <1>7
<1>10. [k EXCEPT !.key = x, !.numKeys = y, !.keyPtr = z] = LeafOf(a, rp, z, fl, nf, y, x, cell)
  BY <1>4, <1>5, <1>6, <1>8
<1>11. QED
  BY <1>9, <1>10 DEF k, SetFree, SetKeys

\* A cell put on the free list.
LEMMA ToFree ==
  ASSUME NEW a, NEW rp, NEW kp, NEW fl, NEW nf, NEW n, NEW key, NEW cell, NEW o, NEW f
  PROVE  GiveUp(LeafOf(a, rp, kp, fl, nf, n, key, cell), o, f)
           = LeafOf(a, rp, kp, o, nf + 1, n, key, NextAt(cell, o, f))
<1> DEFINE k == LeafOf(a, rp, kp, fl, nf, n, key, cell)
           x == NextAt(cell, o, f)
           z == nf + 1
<1>1. k.cell = cell /\ k.numinfreeList = nf
  BY LeafFields
<1> HIDE DEF k
<1>2. GiveUp(k, o, f)
        = SetFree(k, NextAt(k.cell, o, f), o, k.numinfreeList + 1)
  BY DEF NextAt, GiveUp, SetFree
<1>3. GiveUp(k, o, f) = SetFree(k, x, o, z)
  BY <1>1, <1>2
<1> HIDE DEF x, z
<1>4. SetFree(k, x, o, z) = LeafOf(a, rp, kp, o, z, n, key, x)
  BY SetThree DEF k
<1>5. QED
  BY <1>3, <1>4 DEF k, x, z

\* One key fewer.
LEMMA ToShut ==
  ASSUME NEW a, NEW rp, NEW kp, NEW fl, NEW nf, NEW n, NEW key, NEW cell, NEW x
  PROVE  OneFewer(LeafOf(a, rp, kp, fl, nf, n, key, cell), x)
           = LeafOf(a, rp, kp - recSize, fl, nf, n - 1, x, cell)
<1> DEFINE k == LeafOf(a, rp, kp, fl, nf, n, key, cell)
           y == n - 1
           z == kp - recSize
<1>1. k.numKeys = n /\ k.keyPtr = kp
  BY LeafFields
<1> HIDE DEF k
<1>2. OneFewer(k, x) = SetKeys(k, x, k.numKeys - 1, k.keyPtr - recSize)
  BY DEF OneFewer, SetKeys
<1>3. OneFewer(k, x) = SetKeys(k, x, y, z)
  BY <1>1, <1>2
<1> HIDE DEF y, z
<1>4. SetKeys(k, x, y, z) = LeafOf(a, rp, z, fl, nf, y, x, cell)
  BY SetThree DEF k
<1>5. QED
  BY <1>3, <1>4 DEF k, y, z

\* The first cell of a list given up.
LEMMA FreedFirst ==
  ASSUME NEW a, NEW rp, NEW kp, NEW fl, NEW nf, NEW n, NEW key, NEW cell, NEW chain, NEW index
  PROVE  Freed(LeafOf(a, rp, kp, fl, nf, n, key, cell), chain, 1, index)
           = LeafOf(a, rp, kp, chain[1], nf + 1, n, KeyPut(key, cell[chain[1]].next, index),
                    NextAt(cell, chain[1], fl))
<1> DEFINE o == chain[1]
<1> HIDE DEF o
<1>1. [LeafOf(a, rp, kp, fl, nf, n, key, cell) EXCEPT !.key[index].head = cell[o].next]
        = LeafOf(a, rp, kp, fl, nf, n, KeyPut(key, cell[o].next, index), cell)
  BY DEF LeafOf, KeyPut
<1> DEFINE m == KeyPut(key, cell[o].next, index)
<1> HIDE DEF m
<1>2. GiveUp(LeafOf(a, rp, kp, fl, nf, n, m, cell), o, fl)
        = LeafOf(a, rp, kp, o, nf + 1, n, m, NextAt(cell, o, fl))
  BY ToFree
<1>3. LeafOf(a, rp, kp, fl, nf, n, key, cell).freeListPtr = fl /\ LeafOf(a, rp, kp, fl, nf, n, key, cell).cell = cell
  BY LeafFields
<1>4. QED
  BY <1>1, <1>2, <1>3 DEF Freed, o, m

\* A later cell of a list given up.
LEMMA FreedLater ==
  ASSUME NEW a, NEW rp, NEW kp, NEW fl, NEW nf, NEW n, NEW key, NEW cell, NEW chain, NEW j, j # 1, NEW index
  PROVE  Freed(LeafOf(a, rp, kp, fl, nf, n, key, cell), chain, j, index)
           = LeafOf(a, rp, kp, chain[j], nf + 1, n, key,
                    NextAt(NextAt(cell, chain[j - 1], cell[chain[j]].next), chain[j], fl))
<1> DEFINE o == chain[j]
           q == chain[j - 1]
<1> HIDE DEF o, q
<1>1. [LeafOf(a, rp, kp, fl, nf, n, key, cell) EXCEPT !.cell[q].next = cell[o].next]
        = LeafOf(a, rp, kp, fl, nf, n, key, NextAt(cell, q, cell[o].next))
  BY DEF LeafOf, NextAt
<1> DEFINE m == NextAt(cell, q, cell[o].next)
<1> HIDE DEF m
<1>2. GiveUp(LeafOf(a, rp, kp, fl, nf, n, key, m), o, fl)
        = LeafOf(a, rp, kp, o, nf + 1, n, key, NextAt(m, o, fl))
  BY ToFree
<1>3. LeafOf(a, rp, kp, fl, nf, n, key, cell).freeListPtr = fl /\ LeafOf(a, rp, kp, fl, nf, n, key, cell).cell = cell
  BY LeafFields
<1>4. QED
  BY <1>1, <1>2, <1>3 DEF Freed, o, q, m

\* A key without cells is taken out.
LEMMA ShutForm ==
  ASSUME NEW a, NEW rp, NEW kp, NEW fl, NEW nf, NEW n, NEW key, NEW cell, NEW l, l.numKeys = n, NEW index,
         key[index].head = AM_NULL
  PROVE  Shut(LeafOf(a, rp, kp, fl, nf, n, key, cell), l, index)
           = LeafOf(a, rp, kp - recSize, fl, nf, n - 1, Closed(key, index, n), cell)
<1>1. [i \in DOMAIN key |-> IF i >= index /\ i < l.numKeys THEN key[i + 1] ELSE key[i]] = Closed(key, index, n)
  BY DEF Closed
<1> DEFINE m == Closed(key, index, n)
<1> HIDE DEF m
<1>2. OneFewer(LeafOf(a, rp, kp, fl, nf, n, key, cell), m)
        = LeafOf(a, rp, kp - recSize, fl, nf, n - 1, m, cell)
  BY ToShut
<1>3. LeafOf(a, rp, kp, fl, nf, n, key, cell).key = key
  BY LeafFields
<1>4. QED
  BY <1>1, <1>2, <1>3 DEF Shut, m

\* The cells with one offset changed.
LEMMA NextAtIs ==
  ASSUME NEW C, NEW cell \in [C -> CellRec], NEW o \in C, NEW x \in Offsets
  PROVE  /\ NextAt(cell, o, x) \in [C -> CellRec]
         /\ NextAt(cell, o, x)[o].next = x
         /\ \A y \in C : /\ NextAt(cell, o, x)[y].recId = cell[y].recId
                         /\ y # o => NextAt(cell, o, x)[y] = cell[y]
<1> DEFINE m == NextAt(cell, o, x)
           b == [cell[o] EXCEPT !.next = x]
<1>1. cell[o] \in CellRec
  OBVIOUS
<1>2. b \in CellRec /\ b.next = x /\ b.recId = cell[o].recId
  BY <1>1 DEF CellRec
<1>3. m = [y \in C |-> IF y = o THEN b ELSE cell[y]]
  BY DEF NextAt
<1> HIDE DEF m, b
<1>4. \A y \in C : cell[y] \in CellRec
  OBVIOUS
<1>5. QED
  BY <1>2, <1>3, <1>4 DEF m

\* What giving up the j-th cell of the list of key index changes.
GaveFacts(k, l, Q, c, index, j) ==
  LET n == l.numKeys
      o == Q[index][j]
      H == Heads(n, l.freeListPtr, l.key)
      X == Nexts(l.cell)
      G == Heads(n, k.freeListPtr, k.key)
      Y == Nexts(k.cell)
  IN  /\ IsLeafRec(k) /\ k.nextLeafPage = l.nextLeafPage /\ k.recIdPtr = l.recIdPtr /\ k.keyPtr = l.keyPtr
      /\ k.freeListPtr = o /\ k.numinfreeList = l.numinfreeList + 1 /\ k.numKeys = n
      /\ k.key \in Seq(KeySlot) /\ Len(k.key) = Len(l.key) /\ \A i \in 1 .. Len(l.key) : k.key[i].val = l.key[i].val
      /\ k.cell \in [Cells(c) -> CellRec] /\ \A x \in Cells(c) : k.cell[x].recId = l.cell[x].recId
      /\ G[0] = o /\ G[index] = (IF j = 1 THEN X[o] ELSE H[index]) /\ \A i \in 1 .. n : i # index => G[i] = H[i]
      /\ Y[o] = H[0] /\ (j > 1 => Y[Q[index][j - 1]] = X[o])
      /\ \A x \in Cells(c) : x # o /\ (j > 1 => x # Q[index][j - 1]) => Y[x] = X[x]

\* A cell given up goes from the list of its key to the free list.
LEMMA GaveIs ==
  ASSUME NEW l, NEW Q, NEW c, Woven(l, Q, c), NEW index \in 1 .. l.numKeys, NEW j \in 1 .. Len(Q[index])
  PROVE  GaveFacts(Freed(l, Q[index], j, index), l, Q, c, index, j)
<1> DEFINE n == l.numKeys
           C == Cells(c)
           o == Q[index][j]
           q == Q[index][j - 1]
           H == Heads(n, l.freeListPtr, l.key)
           X == Nexts(l.cell)
           k == Freed(l, Q[index], j, index)
           G == Heads(n, k.freeListPtr, k.key)
           Y == Nexts(k.cell)
           fl == l.freeListPtr
           one == KeyPut(l.key, l.cell[o].next, index)
           part == NextAt(l.cell, q, l.cell[o].next)
           key == IF j = 1 THEN one ELSE l.key
           cell == IF j = 1 THEN NextAt(l.cell, o, fl) ELSE NextAt(part, o, fl)
<1>1. n \in Nat /\ l.key \in Seq(KeySlot) /\ n <= Len(l.key) /\ Len(l.key) \in Nat /\ l.cell \in [C -> CellRec] /\ IsLeafRec(l)
  BY LenProperties DEF Woven
<1>2. index \in 0 .. n /\ index # 0 /\ 0 \in 0 .. n /\ \A i \in 1 .. n : i \in 0 .. n /\ i # 0 /\ i \in 1 .. Len(l.key)
  BY <1>1
<1>3. Q[index] \in Seq(C) /\ IsInjective(Q[index]) /\ o \in C /\ fl \in Offsets /\ C \subseteq Offsets /\ DOMAIN l.cell = C
  <2>1. Q[index] \in Seq(C) /\ IsInjective(Q[index])
    BY <1>2, WovenIs
  <2>2. H[0] \in Offsets /\ H[0] = fl
    BY <1>2, WovenIs DEF Heads
  <2>3. o \in C
    BY <2>1, InRange
  <2> HIDE DEF H
  <2>4. QED
    BY <2>1, <2>2, <2>3, WovenIs
<1>4. j \in Nat /\ j >= 1 /\ (j # 1 => q \in C /\ q # o)
  <2>1. Len(Q[index]) \in Nat /\ \A h \in 1 .. Len(Q[index]) : Q[index][h] \in C
    BY <1>3, InRange
  <2>2. \A h, g \in 1 .. Len(Q[index]) : Q[index][h] = Q[index][g] => h = g
    BY <1>3, InRange
  <2>3. j # 1 => j - 1 \in 1 .. Len(Q[index]) /\ j - 1 # j
    BY <2>1
  <2>4. QED
    BY <2>1, <2>2, <2>3
<1>5. l.cell[o] \in CellRec /\ l.cell[o].next \in Offsets
  BY <1>1, <1>3 DEF CellRec
<1>6. /\ one \in Seq(KeySlot) /\ Len(one) = Len(l.key)
      /\ \A i \in 1 .. Len(l.key) : /\ one[i].val = l.key[i].val
                                    /\ one[i].head = IF i = index THEN l.cell[o].next ELSE l.key[i].head
  <2> DEFINE x == l.cell[o].next
  <2>1. x \in Offsets /\ one = KeyPut(l.key, x, index) /\ index \in 1 .. Len(l.key)
    BY <1>2, <1>5
  <2>2. x = l.cell[o].next
    OBVIOUS
  <2> HIDE DEF x
  <2> DEFINE y == KeyPut(l.key, x, index)
  <2>3. /\ y \in Seq(KeySlot) /\ Len(y) = Len(l.key)
        /\ \A i \in 1 .. Len(l.key) : y[i].val = l.key[i].val /\ y[i].head = IF i = index THEN x ELSE l.key[i].head
    BY <1>1, <2>1, KeyPutIs
  <2>4. one = y
    BY <2>1
  <2> HIDE DEF y, one
  <2>5. QED
    BY <2>2, <2>3, <2>4
<1>7. j # 1 => /\ part \in [C -> CellRec] /\ part[q].next = l.cell[o].next
               /\ \A y \in C : part[y].recId = l.cell[y].recId /\ (y # q => part[y] = l.cell[y])
  BY <1>1, <1>4, <1>5, NextAtIs
<1>8. k = LeafOf(l.nextLeafPage, l.recIdPtr, l.keyPtr, o, l.numinfreeList + 1, n, key, cell)
  <2> DEFINE l0 == LeafOf(l.nextLeafPage, l.recIdPtr, l.keyPtr, fl, l.numinfreeList, n, l.key, l.cell)
             s == Q[index]
  <2>1. l = l0
    BY <1>1 DEF IsLeafRec
  <2>2. Freed(l0, s, 1, index)
          = LeafOf(l.nextLeafPage, l.recIdPtr, l.keyPtr, s[1], l.numinfreeList + 1, n,
                   KeyPut(l.key, l.cell[s[1]].next, index), NextAt(l.cell, s[1], fl))
    BY FreedFirst
  <2>3. ASSUME j # 1
        PROVE  Freed(l0, s, j, index)
          = LeafOf(l.nextLeafPage, l.recIdPtr, l.keyPtr, s[j], l.numinfreeList + 1, n, l.key,
                   NextAt(NextAt(l.cell, s[j - 1], l.cell[s[j]].next), s[j], fl))
    <3> HIDE DEF s
    <3>1. QED
      BY <2>3, FreedLater
  <2> HIDE DEF l0, s
  <2>4. k = Freed(l0, s, j, index)
    BY <2>1 DEF s
  <2>5. s[j] = o /\ s[j - 1] = q
    BY DEF s
  <2>6. CASE j = 1
    BY <2>2, <2>4, <2>5, <2>6
  <2>7. CASE j # 1
    BY <2>3, <2>4, <2>5, <2>7
  <2>8. QED
    BY <2>6, <2>7
<1>9. /\ key \in Seq(KeySlot) /\ Len(key) = Len(l.key)
      /\ \A i \in 1 .. Len(l.key) : /\ key[i].val = l.key[i].val
                                    /\ key[i].head = IF i = index /\ j = 1 THEN l.cell[o].next ELSE l.key[i].head
  <2>1. CASE j = 1
    <3> HIDE DEF one
    <3>1. key = one
      BY <2>1
    <3> HIDE DEF key
    <3>2. QED
      BY <1>6, <2>1, <3>1
  <2>2. CASE j # 1
    BY <1>1, <2>2
  <2>3. QED
    BY <2>1, <2>2
<1> HIDE DEF one, part
<1>10. /\ cell \in [C -> CellRec] /\ cell[o].next = fl
       /\ \A y \in C : cell[y].recId = l.cell[y].recId
       /\ \A y \in C : y # o /\ (j > 1 => y # q) => cell[y] = l.cell[y]
       /\ j > 1 => cell[q].next = l.cell[o].next
  <2>1. CASE j = 1
    <3>1. cell = NextAt(l.cell, o, fl)
      BY <2>1
    <3> HIDE DEF cell, C, o, q, fl
    <3>2. /\ cell \in [C -> CellRec] /\ cell[o].next = fl
          /\ \A y \in C : cell[y].recId = l.cell[y].recId /\ (y # o => cell[y] = l.cell[y])
      BY <1>1, <1>3, <3>1, NextAtIs
    <3>3. QED
      BY <2>1, <3>2
  <2>2. CASE j # 1
    <3>1. cell = NextAt(part, o, fl)
      BY <2>2
    <3> HIDE DEF cell, C, o, q, fl
    <3>2. /\ cell \in [C -> CellRec] /\ cell[o].next = fl
          /\ \A y \in C : cell[y].recId = part[y].recId /\ (y # o => cell[y] = part[y])
      BY <1>3, <1>7, <2>2, <3>1, NextAtIs
    <3>3. j > 1 /\ q \in C /\ q # o
      BY <1>4, <2>2
    <3>4. cell[q].next = l.cell[o].next
      BY <1>7, <2>2, <3>2, <3>3
    <3>5. \A y \in C : cell[y].recId = l.cell[y].recId
      BY <1>7, <2>2, <3>2
    <3>6. \A y \in C : y # o /\ y # q => cell[y] = l.cell[y]
      BY <1>7, <2>2, <3>2
    <3>7. QED
      BY <3>2, <3>3, <3>4, <3>5, <3>6
  <2>3. QED
    BY <2>1, <2>2
<1> HIDE DEF key, cell, k
<1>11. /\ IsLeafRec(k) /\ k.nextLeafPage = l.nextLeafPage /\ k.recIdPtr = l.recIdPtr /\ k.keyPtr = l.keyPtr
       /\ k.freeListPtr = o /\ k.numinfreeList = l.numinfreeList + 1 /\ k.numKeys = n
       /\ k.key = key /\ k.cell = cell
  BY <1>8, LeafFields
<1>12. G[0] = o /\ G[index] = (IF j = 1 THEN X[o] ELSE H[index]) /\ \A i \in 1 .. n : i # index => G[i] = H[i]
  <2>1. \A i \in 0 .. n : G[i] = IF i = 0 THEN o ELSE key[i].head
    BY <1>11 DEF Heads
  <2>2. \A i \in 0 .. n : H[i] = IF i = 0 THEN fl ELSE l.key[i].head
    BY DEF Heads
  <2>3. X[o] = l.cell[o].next
    BY <1>3 DEF Nexts
  <2> HIDE DEF G, H, X, n, o, fl
  <2>4. QED
    BY <1>2, <1>9, <2>1, <2>2, <2>3
<1>13. /\ Y[o] = H[0] /\ (j > 1 => Y[q] = X[o])
       /\ \A x \in C : x # o /\ (j > 1 => x # q) => Y[x] = X[x]
  <2>1. DOMAIN cell = C /\ \A x \in C : Y[x] = cell[x].next /\ X[x] = l.cell[x].next
    BY <1>3, <1>10, <1>11 DEF Nexts
  <2>2. H[0] = fl
    BY <1>2 DEF Heads
  <2>3. j > 1 => q \in C
    BY <1>4
  <2> HIDE DEF Y, H, X, n, o, q, C, fl
  <2>4. QED
    BY <1>3, <1>10, <2>1, <2>2, <2>3
<1> HIDE DEF Y, H, X, G
<1>14. /\ k.key \in Seq(KeySlot) /\ Len(k.key) = Len(l.key) /\ \A i \in 1 .. Len(l.key) : k.key[i].val = l.key[i].val
       /\ k.cell \in [C -> CellRec] /\ \A x \in C : k.cell[x].recId = l.cell[x].recId
  BY <1>9, <1>10, <1>11
<1> HIDE DEF n, o, q, C, fl
<1>15. QED
  BY <1>11, <1>12, <1>13, <1>14 DEF GaveFacts, G, Y, H, X, n, o, q, C, k

-----------------------------------------------------------------------------
(* Entries taken out of a leaf. *)

Minus(N, v, r) == [N EXCEPT ![v][r] = @ - 1]

\* In k with the lists P the list of key index has not the cell o, with recId, that
\* it has in l with the lists Q; else they agree.
Shrinks(k, P, l, Q, c, index, recId, o) ==
  /\ k.numKeys = l.numKeys
  /\ \A i \in 1 .. l.numKeys : k.key[i].val = l.key[i].val
  /\ o \in Range(Q[index]) /\ l.cell[o].recId = recId
  /\ \A i \in 1 .. l.numKeys : Range(P[i]) = IF i = index THEN Range(Q[i]) \ {o} ELSE Range(Q[i])
  /\ \A x \in Cells(c) : k.cell[x].recId = l.cell[x].recId

\* One cell less in the list of key index is one entry less.
LEMMA HoldsLess ==
  ASSUME NEW l, NEW Q, NEW c, Woven(l, Q, c), NEW N \in Counts, HoldsBut(l, Q, N, 0),
         NEW index \in 1 .. l.numKeys, NEW recId \in RecIds, NEW o,
         NEW k, NEW P, NEW d, Woven(k, P, d), Shrinks(k, P, l, Q, c, index, recId, o)
  PROVE  /\ HoldsBut(k, P, Minus(N, l.key[index].val, recId), index)
         /\ Minus(N, l.key[index].val, recId) \in Counts
<1> DEFINE n == l.numKeys
           v == l.key[index].val
           M == Minus(N, v, recId)
<1>0. /\ k.numKeys = n
      /\ \A i \in 1 .. n : k.key[i].val = l.key[i].val
      /\ o \in Range(Q[index]) /\ l.cell[o].recId = recId
      /\ \A i \in 1 .. n : Range(P[i]) = IF i = index THEN Range(Q[i]) \ {o} ELSE Range(Q[i])
      /\ \A x \in Cells(c) : k.cell[x].recId = l.cell[x].recId
  BY DEF Shrinks
<1>1. n \in Nat
  BY DEF Woven
<1>2. \A i \in 1 .. n : i # 0
  BY <1>1
<1>3. /\ \A i, j \in 1 .. n : i < j => l.key[i].val < l.key[j].val
      /\ \A i \in 1 .. n : Q[i] # <<>>
      /\ \A i \in 1 .. n : \A r \in RecIds : Cardinality(Fibre(l, Q, i, r)) = N[l.key[i].val][r]
      /\ \A w \in Values : (\A i \in 1 .. n : l.key[i].val # w) => \A r \in RecIds : N[w][r] = 0
  BY <1>2 DEF HoldsBut
<1>4. \A i \in 1 .. n : l.key[i].val \in Values /\ l.key[i].val \in Int
  BY WovenIs, ValuesInt
<1>5. /\ v \in Values /\ DOMAIN N = Values /\ \A w \in Values : DOMAIN N[w] = RecIds
      /\ \A w \in Values : \A r \in RecIds : N[w][r] \in Nat
      /\ \A w \in Values : N[w] \in [RecIds -> Nat]
  BY <1>4 DEF Counts
<1>6. \A w \in Values : \A r \in RecIds : M[w][r] = IF w = v /\ r = recId THEN N[w][r] - 1 ELSE N[w][r]
  BY <1>5 DEF Minus
<1>7. DOMAIN M = Values /\ \A w \in Values : M[w] = IF w = v THEN [N[v] EXCEPT ![recId] = @ - 1] ELSE N[w]
  BY <1>5 DEF Minus
<1>8. ASSUME NEW i \in 1 .. n
      PROVE  /\ Q[i] \in Seq(Cells(c)) /\ IsInjective(Q[i]) /\ P[i] \in Seq(Cells(d)) /\ IsInjective(P[i])
             /\ \A x \in Range(Q[i]) : x \in Cells(c)
  <2>1. i \in 0 .. l.numKeys /\ i \in 0 .. k.numKeys
    BY <1>0, <1>1
  <2>2. Q[i] \in Seq(Cells(c)) /\ IsInjective(Q[i])
    BY <2>1, WovenIs
  <2>3. P[i] \in Seq(Cells(d)) /\ IsInjective(P[i])
    BY <2>1, WovenIs
  <2>4. \A x \in Range(Q[i]) : x \in Cells(c)
    BY <2>2, InRange
  <2>5. QED
    BY <2>2, <2>3, <2>4
<1>9. ASSUME NEW i \in 1 .. n, NEW r \in RecIds
      PROVE  Fibre(k, P, i, r) = IF i = index /\ r = recId THEN Fibre(l, Q, i, r) \ {o} ELSE Fibre(l, Q, i, r)
  <2>1. \A x \in Range(Q[i]) : k.cell[x].recId = l.cell[x].recId
    BY <1>0, <1>8
  <2>2. CASE i = index
    BY <1>0, <2>1, <2>2 DEF Fibre
  <2>3. CASE i # index
    BY <1>0, <2>1, <2>3 DEF Fibre
  <2>4. QED
    BY <2>2, <2>3
<1>10. ASSUME NEW i \in 1 .. n, NEW r \in RecIds PROVE IsFiniteSet(Fibre(l, Q, i, r))
  <2>1. IsFiniteSet(Range(Q[i])) /\ Fibre(l, Q, i, r) \in SUBSET Range(Q[i])
    BY <1>8, RangeCount DEF Fibre
  <2>2. QED
    BY <2>1, FS_Subset
<1>11. /\ Cardinality(Fibre(l, Q, index, recId) \ {o}) = Cardinality(Fibre(l, Q, index, recId)) - 1
       /\ Cardinality(Fibre(l, Q, index, recId) \ {o}) \in Nat
  <2>1. o \in Fibre(l, Q, index, recId)
    BY <1>0 DEF Fibre
  <2>2. IsFiniteSet(Fibre(l, Q, index, recId))
    BY <1>10
  <2>3. IsFiniteSet(Fibre(l, Q, index, recId) \ {o})
    BY <2>2, FS_RemoveElement
  <2>4. QED
    BY <2>1, <2>2, <2>3, FS_RemoveElement, FS_CardinalityType
<1>12. N[v][recId] - 1 \in Nat
  BY <1>3, <1>11
<1>13. M \in Counts
  <2>1. [N[v] EXCEPT ![recId] = @ - 1] \in [RecIds -> Nat]
    BY <1>5, <1>12
  <2>2. \A w \in Values : M[w] \in [RecIds -> Nat]
    BY <1>5, <1>7, <2>1
  <2>3. M = [w \in Values |-> M[w]]
    BY <1>7 DEF Minus
  <2> HIDE DEF M
  <2>4. QED
    BY <2>2, <2>3 DEF Counts
<1> HIDE DEF M
<1>14. \A i, j \in 1 .. n : l.key[i].val = l.key[j].val => i = j
  <2> SUFFICES ASSUME NEW i \in 1 .. n, NEW j \in 1 .. n, l.key[i].val = l.key[j].val PROVE i = j
    OBVIOUS
  <2>1. i < j \/ j < i \/ i = j
    OBVIOUS
  <2>2. l.key[i].val \in Int /\ l.key[j].val \in Int
    BY <1>4
  <2>3. ~ (l.key[i].val < l.key[j].val) /\ ~ (l.key[j].val < l.key[i].val)
    BY <2>2
  <2>4. QED
    BY <1>3, <2>1, <2>3
<1>15. ASSUME NEW i \in 1 .. n, NEW r \in RecIds
       PROVE  Cardinality(Fibre(k, P, i, r)) = M[k.key[i].val][r]
  <2>1. Cardinality(Fibre(l, Q, i, r)) = N[l.key[i].val][r] /\ k.key[i].val = l.key[i].val
    BY <1>0, <1>3
  <2>2. l.key[i].val = v <=> i = index
    BY <1>14
  <2>3. l.key[i].val \in Values
    BY <1>4
  <2>4. CASE i = index /\ r = recId
    BY <1>6, <1>9, <1>11, <2>1, <2>2, <2>3, <2>4
  <2>5. CASE ~ (i = index /\ r = recId)
    BY <1>6, <1>9, <2>1, <2>2, <2>3, <2>5
  <2>6. QED
    BY <2>4, <2>5
<1>16. ASSUME NEW i \in 1 .. n, i # index PROVE P[i] # <<>>
  <2>1. Range(Q[i]) # {}
    BY <1>3, <1>8, InRange
  <2>2. Range(P[i]) # {}
    BY <1>0, <1>16, <2>1
  <2>3. QED
    BY <1>8, <2>2, InRange
<1>17. ASSUME NEW w \in Values, \A i \in 1 .. n : k.key[i].val # w, NEW r \in RecIds
       PROVE  M[w][r] = 0
  <2>1. w # v /\ N[w][r] = 0
    BY <1>0, <1>3, <1>17
  <2>2. QED
    BY <1>6, <2>1
<1>18. \A i, j \in 1 .. n : i < j => k.key[i].val < k.key[j].val
  BY <1>0, <1>3
<1> HIDE DEF v
<1>19. HoldsBut(k, P, M, index)
  BY <1>0, <1>15, <1>16, <1>17, <1>18 DEF HoldsBut, n
<1>20. QED
  BY <1>13, <1>19 DEF M, v

\* The leaf k without the entry that l has; the list of key index may be empty.
FreedFacts(k, P, l, Q, c, N, index, recId) ==
  /\ k.numKeys = l.numKeys /\ k.nextLeafPage = l.nextLeafPage /\ k.recIdPtr = l.recIdPtr
  /\ Minus(N, l.key[index].val, recId) \in Counts
  /\ Woven(k, P, c) /\ HoldsBut(k, P, Minus(N, l.key[index].val, recId), index)

\* A cell given up takes one entry from what the leaf holds.
LEMMA FreedHolds ==
  ASSUME NEW l, NEW Q, NEW c, Woven(l, Q, c), NEW N \in Counts, HoldsBut(l, Q, N, 0),
         NEW index \in 1 .. l.numKeys, NEW j \in 1 .. Len(Q[index]),
         NEW recId \in RecIds, l.cell[Q[index][j]].recId = recId
  PROVE  \E P : FreedFacts(Freed(l, Q[index], j, index), P, l, Q, c, N, index, recId)
<1> DEFINE n == l.numKeys
           C == Cells(c)
           o == Q[index][j]
           H == Heads(n, l.freeListPtr, l.key)
           X == Nexts(l.cell)
           k == Freed(l, Q[index], j, index)
           G == Heads(n, k.freeListPtr, k.key)
           Y == Nexts(k.cell)
           P == [i \in 0 .. n |-> IF i = index THEN Without(Q[index], j) ELSE IF i = 0 THEN With(Q[index][j], Q[0]) ELSE Q[i]]
<1>1. /\ n \in Nat /\ c \in Nat /\ n <= Len(l.key) /\ l.key \in Seq(KeySlot)
      /\ l.recIdPtr = PAGE_SIZE - CELL * c /\ l.keyPtr = AM_sl + n * recSize /\ l.keyPtr <= l.recIdPtr
      /\ Links(Q, H, X, n, C) /\ l.numinfreeList = Len(Q[0])
  BY DEF Woven
<1>2. GaveFacts(k, l, Q, c, index, j)
  BY GaveIs
<1> HIDE DEF k
<1>3. /\ IsLeafRec(k) /\ k.nextLeafPage = l.nextLeafPage /\ k.recIdPtr = l.recIdPtr /\ k.keyPtr = l.keyPtr
      /\ k.freeListPtr = o /\ k.numinfreeList = l.numinfreeList + 1 /\ k.numKeys = n
      /\ k.key \in Seq(KeySlot) /\ Len(k.key) = Len(l.key) /\ \A i \in 1 .. Len(l.key) : k.key[i].val = l.key[i].val
      /\ k.cell \in [C -> CellRec] /\ \A x \in C : k.cell[x].recId = l.cell[x].recId
  BY <1>2 DEF GaveFacts
<1>4. /\ G[0] = o /\ G[index] = (IF j = 1 THEN X[o] ELSE H[index]) /\ \A i \in 1 .. n : i # index => G[i] = H[i]
      /\ Y[o] = H[0] /\ (j > 1 => Y[Q[index][j - 1]] = X[o])
      /\ \A x \in C : x # o /\ (j > 1 => x # Q[index][j - 1]) => Y[x] = X[x]
  BY <1>2 DEF GaveFacts
<1>5. index \in 0 .. n /\ index # 0 /\ 0 \in 0 .. n /\ \A i \in 1 .. n : i \in 0 .. n /\ i # 0 /\ i \in 1 .. Len(l.key)
  BY <1>1, LenProperties
<1> HIDE DEF C, H, X, G, Y, n
<1>6. Moves(P, G, Y, Q, H, X, n, C, index, 0, j)
  <2>1. \A i \in 0 .. n : i # index /\ i # 0 => G[i] = H[i]
    <3>1. \A i \in 0 .. n : i = 0 \/ i \in 1 .. n
      BY <1>1
    <3>2. QED
      BY <1>4, <3>1
  <2> HIDE DEF P
  <2>2. P = [i \in 0 .. n |-> IF i = index THEN Without(Q[index], j) ELSE IF i = 0 THEN With(Q[index][j], Q[0]) ELSE Q[i]]
    BY DEF P
  <2>3. QED
    BY <1>4, <2>1, <2>2 DEF Moves
<1>7. P[index] = Without(Q[index], j) /\ P[0] = With(Q[index][j], Q[0]) /\ \A i \in 1 .. n : i # index => P[i] = Q[i]
  BY <1>5
<1> HIDE DEF P
<1>8. Links(P, G, Y, n, C)
  BY <1>1, <1>5, <1>6, Moved
<1>9. Range(P[index]) = Range(Q[index]) \ {o}
  <2>1. n \in Nat /\ Links(Q, H, X, n, C) /\ 0 \in 0 .. n /\ index \in 0 .. n /\ index # 0
    BY <1>1, <1>5
  <2>2. Drops(P, Q, index, Q[index][j])
    BY <1>6, <2>1, Moved
  <2>3. QED
    BY <2>2 DEF Drops
<1>10. Q[0] \in Seq(C) /\ Q[index] \in Seq(C) /\ o \in Range(Q[index]) /\ o \in C
  <2>1. Q[0] \in Seq(C) /\ Q[index] \in Seq(C)
    BY <1>5, WovenIs DEF C, n
  <2>2. QED
    BY <2>1, InRange
<1>11. Len(P[0]) = Len(Q[0]) + 1
  BY <1>7, <1>10, WithIs
<1>12. Woven(k, P, c)
  <2>1. Links(P, Heads(k.numKeys, k.freeListPtr, k.key), Nexts(k.cell), k.numKeys, Cells(c))
    BY <1>3, <1>8 DEF G, Y, C
  <2>2. k.numinfreeList = Len(P[0])
    BY <1>1, <1>3, <1>11
  <2>3. k.recIdPtr = PAGE_SIZE - CELL * c /\ k.keyPtr = AM_sl + k.numKeys * recSize /\ k.keyPtr <= k.recIdPtr
    BY <1>1, <1>3
  <2>4. k.numKeys <= Len(k.key) /\ k.numKeys \in Nat /\ k.cell \in [Cells(c) -> CellRec]
    BY <1>1, <1>3 DEF C
  <2>5. QED
    BY <1>1, <1>3, <2>1, <2>2, <2>3, <2>4 DEF Woven
<1>13. Shrinks(k, P, l, Q, c, index, recId, o)
  <2>1. \A i \in 1 .. l.numKeys : k.key[i].val = l.key[i].val
    BY <1>3, <1>5 DEF n
  <2>2. \A i \in 1 .. l.numKeys : Range(P[i]) = IF i = index THEN Range(Q[i]) \ {o} ELSE Range(Q[i])
    BY <1>7, <1>9 DEF n
  <2>3. k.numKeys = l.numKeys
    BY <1>3 DEF n
  <2>4. \A x \in Cells(c) : k.cell[x].recId = l.cell[x].recId
    BY <1>3 DEF C
  <2>5. QED
    BY <1>10, <2>1, <2>2, <2>3, <2>4 DEF Shrinks
<1>14. HoldsBut(k, P, Minus(N, l.key[index].val, recId), index) /\ Minus(N, l.key[index].val, recId) \in Counts
  BY <1>12, <1>13, HoldsLess
<1>15. FreedFacts(k, P, l, Q, c, N, index, recId)
  BY <1>3, <1>12, <1>14 DEF FreedFacts, n
<1>16. QED
  BY <1>15 DEF k

\* The slots when the one at index is gone.
LEMMA ClosedIs ==
  ASSUME NEW S, NEW key \in Seq(S), NEW n \in 1 .. Len(key), NEW index \in 1 .. n
  PROVE  /\ Closed(key, index, n) \in Seq(S) /\ Len(Closed(key, index, n)) = Len(key)
         /\ \A i \in 1 .. n - 1 : Closed(key, index, n)[i] = IF i < index THEN key[i] ELSE key[i + 1]
<1> DEFINE m == Closed(key, index, n)
<1>1. Len(key) \in Nat /\ DOMAIN key = 1 .. Len(key) /\ \A i \in 1 .. Len(key) : key[i] \in S
  BY LenProperties, ElementOfSeq
<1>2. m = [i \in 1 .. Len(key) |-> IF i >= index /\ i < n THEN key[i + 1] ELSE key[i]]
  BY <1>1 DEF Closed
<1>3. \A i \in 1 .. Len(key) : i < n => i + 1 \in 1 .. Len(key)
  BY <1>1
<1> HIDE DEF m
<1>4. m \in [1 .. Len(key) -> S]
  BY <1>1, <1>2, <1>3
<1>5. m \in Seq(S) /\ Len(m) = Len(key)
  BY <1>1, <1>4, LenProperties
<1>6. ASSUME NEW i \in 1 .. n - 1 PROVE m[i] = IF i < index THEN key[i] ELSE key[i + 1]
  <2>1. i \in 1 .. Len(key) /\ i < n /\ i \in Int /\ index \in Int
    BY <1>1
  <2>2. i >= index <=> ~ (i < index)
    BY <2>1
  <2>3. QED
    BY <1>2, <2>1, <2>2
<1>7. QED
  BY <1>5, <1>6 DEF m

Empties(key, index) == key[index].head = AM_NULL
ShutTo(a, rp, kp, fl, nf, n, key, cell, l, index) ==
  Shut(LeafOf(a, rp, kp, fl, nf, n, key, cell), l, index)
    = LeafOf(a, rp, kp - recSize, fl, nf, n - 1, Closed(key, index, n), cell)

\* A key is taken out when its list is empty.
LEMMA ShutAs ==
  ASSUME NEW a, NEW rp, NEW kp, NEW fl, NEW nf, NEW n, NEW key, NEW cell, NEW l, l.numKeys = n, NEW index,
         Empties(key, index)
  PROVE  ShutTo(a, rp, kp, fl, nf, n, key, cell, l, index)
<1>1. [i \in DOMAIN key |-> IF i >= index /\ i < l.numKeys THEN key[i + 1] ELSE key[i]] = Closed(key, index, n)
  BY DEF Closed
<1> DEFINE m == Closed(key, index, n)
<1>2. key[index].head = AM_NULL
  BY DEF Empties
<1> HIDE DEF m
<1>3. OneFewer(LeafOf(a, rp, kp, fl, nf, n, key, cell), m)
        = LeafOf(a, rp, kp - recSize, fl, nf, n - 1, m, cell)
  BY ToShut
<1>4. LeafOf(a, rp, kp, fl, nf, n, key, cell).key = key
  BY LeafFields
<1>5. Shut(LeafOf(a, rp, kp, fl, nf, n, key, cell), l, index)
        = LeafOf(a, rp, kp - recSize, fl, nf, n - 1, m, cell)
  BY <1>1, <1>2, <1>3, <1>4 DEF Shut, m
<1>6. QED
  BY <1>5 DEF ShutTo, m

\* Taking out a key without cells loses nothing.
LEMMA ShutEmpty ==
  ASSUME NEW k, NEW P, NEW c, Woven(k, P, c), NEW N \in Counts,
         NEW index \in 1 .. k.numKeys, HoldsBut(k, P, N, index), k.key[index].head = AM_NULL,
         NEW l, l.numKeys = k.numKeys
  PROVE  LET s == Shut(k, l, index)
         IN  /\ s.nextLeafPage = k.nextLeafPage /\ s.recIdPtr = k.recIdPtr
             /\ \E R : Woven(s, R, c) /\ HoldsBut(s, R, N, 0)
<1> DEFINE n == k.numKeys
           s == Shut(k, l, index)
           m == Closed(k.key, index, n)
           H == Heads(n, k.freeListPtr, k.key)
           X == Nexts(k.cell)
           G == Heads(n - 1, k.freeListPtr, m)
           R == [i \in 0 .. n - 1 |-> IF i < index THEN P[i] ELSE P[i + 1]]
           D == 0 .. n - 1
           f == [i \in 0 .. n - 1 |-> IF i < index THEN i ELSE i + 1]
<1>1. /\ IsLeafRec(k) /\ c \in Nat /\ n \in Nat /\ k.key \in Seq(KeySlot) /\ n <= Len(k.key)
      /\ k.cell \in [Cells(c) -> CellRec] /\ k.recIdPtr = PAGE_SIZE - CELL * c
      /\ k.keyPtr = AM_sl + n * recSize /\ k.keyPtr <= k.recIdPtr
      /\ Links(P, H, X, n, Cells(c)) /\ k.numinfreeList = Len(P[0])
  BY DEF Woven
<1>2. n \in 1 .. Len(k.key) /\ Len(k.key) \in Nat /\ n - 1 \in Nat /\ index \in Nat /\ 0 < index /\ 0 \in 0 .. n - 1
  BY <1>1, LenProperties
<1>3. /\ m \in Seq(KeySlot) /\ Len(m) = Len(k.key)
      /\ \A i \in 1 .. n - 1 : m[i] = IF i < index THEN k.key[i] ELSE k.key[i + 1]
  BY <1>1, <1>2, ClosedIs
<1> HIDE DEF m
<1>4. s = LeafOf(k.nextLeafPage, k.recIdPtr, k.keyPtr - recSize, k.freeListPtr, k.numinfreeList, n - 1, m, k.cell)
  <2> DEFINE k0 == LeafOf(k.nextLeafPage, k.recIdPtr, k.keyPtr, k.freeListPtr, k.numinfreeList, n, k.key, k.cell)
  <2>1. k = k0
    BY <1>1 DEF IsLeafRec
  <2> DEFINE x1 == k.nextLeafPage
             x2 == k.recIdPtr
             x3 == k.keyPtr
             x4 == k.freeListPtr
             x5 == k.numinfreeList
             x6 == k.key
             x7 == k.cell
  <2>2. l.numKeys = n /\ Empties(x6, index) /\ k0 = LeafOf(x1, x2, x3, x4, x5, n, x6, x7)
    BY DEF Empties
  <2>3. m = Closed(x6, index, n)
    BY DEF m
  <2> HIDE DEF k0, n, x1, x2, x3, x4, x5, x6, x7
  <2>4. ShutTo(x1, x2, x3, x4, x5, n, x6, x7, l, index)
    BY <2>2, ShutAs
  <2>5. QED
    BY <2>1, <2>2, <2>3, <2>4 DEF n, x1, x2, x3, x4, x5, x6, x7, ShutTo
<1> HIDE DEF s
<1>5. /\ IsLeafRec(s) /\ s.nextLeafPage = k.nextLeafPage /\ s.recIdPtr = k.recIdPtr
      /\ s.keyPtr = k.keyPtr - recSize /\ s.freeListPtr = k.freeListPtr
      /\ s.numinfreeList = k.numinfreeList /\ s.numKeys = n - 1 /\ s.key = m /\ s.cell = k.cell
  BY <1>4, LeafFields
<1>6. s.keyPtr <= s.recIdPtr /\ s.keyPtr = AM_sl + (n - 1) * recSize
  <2> DEFINE b == n - 1
             y == b * recSize
             z == (b + 1) * recSize
  <2>1. y \in Nat /\ z = y + recSize
    BY <1>2, NumbersAre, OneMore
  <2>2. b + 1 = n
    BY <1>2
  <2>3. z = n * recSize
    BY <2>2
  <2>4. k.recIdPtr \in Nat /\ k.keyPtr \in Nat
    BY WovenIs
  <2> HIDE DEF z, y
  <2>5. k.keyPtr = AM_sl + z
    BY <1>1, <2>3
  <2>6. k.keyPtr - recSize <= k.recIdPtr /\ k.keyPtr - recSize = AM_sl + y
    BY <1>1, <2>1, <2>4, <2>5, NumbersAre
  <2>7. QED
    BY <1>5, <2>6 DEF y
<1>7. \A i \in 0 .. n - 1 : G[i] = IF i = 0 THEN k.freeListPtr ELSE m[i].head
  BY DEF Heads
<1>8. \A i \in 0 .. n : H[i] = IF i = 0 THEN k.freeListPtr ELSE k.key[i].head
  BY DEF Heads
<1>9. ASSUME NEW i \in 0 .. n - 1
      PROVE  f[i] \in 0 .. n /\ R[i] = P[f[i]] /\ G[i] = H[f[i]]
  <2> HIDE DEF G, H
  <2>1. CASE i = 0
    <3>1. f[i] = 0 /\ R[i] = P[0] /\ 0 \in 0 .. n
      BY <1>2, <2>1
    <3> HIDE DEF f, R
    <3>2. QED
      BY <1>7, <1>8, <2>1, <3>1
  <2>2. CASE i # 0 /\ i < index
    <3>1. f[i] = i /\ R[i] = P[i] /\ i \in 0 .. n /\ i \in 1 .. n - 1
      BY <1>2, <2>2
    <3>2. m[i] = k.key[i]
      BY <1>3, <2>2, <3>1
    <3> HIDE DEF f, R
    <3>3. QED
      BY <1>7, <1>8, <2>2, <3>1, <3>2
  <2>3. CASE ~ (i < index)
    <3>1. f[i] = i + 1 /\ R[i] = P[i + 1] /\ i + 1 \in 0 .. n /\ i \in 1 .. n - 1 /\ i # 0 /\ i + 1 # 0
      BY <1>2, <2>3
    <3>2. m[i] = k.key[i + 1]
      BY <1>3, <2>3, <3>1
    <3> HIDE DEF f, R
    <3>3. QED
      BY <1>7, <1>8, <3>1, <3>2
  <2>4. QED
    BY <2>1, <2>2, <2>3
<1>10. ASSUME NEW i \in 0 .. n - 1, NEW h \in 0 .. n - 1, f[i] = f[h] PROVE i = h
  <2>1. /\ (i < index => f[i] = i) /\ (~ (i < index) => f[i] = i + 1)
        /\ (h < index => f[h] = h) /\ (~ (h < index) => f[h] = h + 1)
    OBVIOUS
  <2>2. i \in Int /\ h \in Int /\ index \in Int
    BY <1>1
  <2> HIDE DEF f
  <2>3. QED
    BY <1>10, <2>1, <2>2
<1>11. P[index] = <<>>
  <2>1. index \in 0 .. n /\ index # 0
    BY <1>2
  <2>2. H[index] = AM_NULL
    BY <1>8, <2>1
  <2>3. QED
    BY <2>1, <2>2, WovenIs
<1>12. ASSUME NEW h \in 0 .. n, h # index PROVE \E i \in 0 .. n - 1 : f[i] = h
  <2>1. CASE h < index
    <3>1. h \in 0 .. n - 1 /\ f[h] = h
      BY <1>2, <2>1
    <3>2. QED
      BY <3>1
  <2>2. CASE ~ (h < index)
    <3>1. h - 1 \in 0 .. n - 1 /\ f[h - 1] = h
      BY <1>2, <1>12, <2>2
    <3>2. QED
      BY <3>1
  <2>3. QED
    BY <2>1, <2>2
<1>13. DOMAIN R = 0 .. n - 1 /\ R = [i \in 0 .. n - 1 |-> R[i]] /\ R[0] = P[0]
  BY <1>2
<1>14. ASSUME NEW i \in 1 .. n - 1
       PROVE  /\ f[i] \in 1 .. n /\ f[i] # index /\ i \in 0 .. n - 1
              /\ R[i] = P[f[i]] /\ m[i] = k.key[f[i]]
  <2>1. f[i] \in 1 .. n /\ f[i] # index /\ i \in 0 .. n - 1
    BY <1>2
  <2>2. R[i] = P[f[i]]
    BY <1>9, <2>1
  <2>3. m[i] = k.key[f[i]]
    <3>1. f[i] = IF i < index THEN i ELSE i + 1
      BY <2>1
    <3> HIDE DEF f, R
    <3>2. QED
      BY <1>3, <3>1
  <2>4. QED
    BY <2>1, <2>2, <2>3
<1>15. \A i, j \in 1 .. n - 1 : i < j => f[i] < f[j]
  <2>1. ASSUME NEW i \in 1 .. n - 1, NEW j \in 1 .. n - 1, i < j PROVE f[i] < f[j]
    <3>1. /\ (i < index => f[i] = i) /\ (~ (i < index) => f[i] = i + 1)
          /\ (j < index => f[j] = j) /\ (~ (j < index) => f[j] = j + 1)
      OBVIOUS
    <3>2. i \in Int /\ j \in Int /\ index \in Int
      BY <1>2
    <3> HIDE DEF f
    <3>3. QED
      BY <2>1, <3>1, <3>2
  <2>2. QED
    BY <2>1
<1>16. \A h \in 1 .. n : h # index => \E i \in 1 .. n - 1 : f[i] = h
  <2>1. ASSUME NEW h \in 1 .. n, h # index PROVE \E i \in 1 .. n - 1 : f[i] = h
    <3>1. PICK i \in 0 .. n - 1 : f[i] = h
      BY <1>2, <1>12, <2>1
    <3>2. f[0] = 0
      BY <1>2
    <3>3. i # 0
      BY <1>2, <2>1, <3>1, <3>2
    <3>4. i \in 1 .. n - 1
      BY <1>2, <3>3
    <3>5. QED
      BY <3>1, <3>4
  <2>2. QED
    BY <2>1
<1> HIDE DEF R, f, G, H, X, D, n
<1>17. Links(R, G, X, n - 1, Cells(c))
  <2>1. \A h \in 0 .. n : P[h] # <<>> => \E i \in 0 .. n - 1 : i \in D /\ f[i] = h
    BY <1>11, <1>12 DEF D
  <2>2. \A i \in 0 .. n - 1 : \A h \in 0 .. n - 1 : i \in D /\ h \in D /\ f[i] = f[h] => i = h
    BY <1>10
  <2>3. \A i \in 0 .. n - 1 : i \in D
    BY DEF D
  <2>4. Renamed(R, G, P, H, n, n - 1, D, f)
    BY <1>9, <1>13, <2>1, <2>2, <2>3 DEF Renamed
  <2>5. QED
    BY <1>1, <1>2, <2>4, Reindexed
<1>18. Woven(s, R, c)
  <2>1. s.numinfreeList = Len(R[0])
    BY <1>1, <1>5, <1>13
  <2>2. Links(R, Heads(s.numKeys, s.freeListPtr, s.key), Nexts(s.cell), s.numKeys, Cells(c))
    BY <1>5, <1>17 DEF G, X
  <2>3. s.recIdPtr = PAGE_SIZE - CELL * c /\ s.keyPtr = AM_sl + s.numKeys * recSize
    BY <1>1, <1>5, <1>6
  <2>4. s.numKeys \in Nat /\ s.numKeys <= Len(s.key) /\ s.key \in Seq(KeySlot)
    BY <1>1, <1>2, <1>3, <1>5
  <2>5. QED
    BY <1>1, <1>5, <1>6, <2>1, <2>2, <2>3, <2>4 DEF Woven
<1>19. /\ \A i, j \in 1 .. n : i < j => k.key[i].val < k.key[j].val
       /\ \A i \in 1 .. n : i # index => P[i] # <<>>
       /\ \A i \in 1 .. n : \A r \in RecIds : Cardinality(Fibre(k, P, i, r)) = N[k.key[i].val][r]
       /\ \A v \in Values : (\A i \in 1 .. n : k.key[i].val # v) => \A r \in RecIds : N[v][r] = 0
  BY DEF HoldsBut, n
<1>20. \A i \in 1 .. n - 1 : s.key[i].val = k.key[f[i]].val
  BY <1>5, <1>14
<1>21. ASSUME NEW r \in RecIds PROVE N[k.key[index].val][r] = 0
  <2>1. Fibre(k, P, index, r) = {}
    <3>1. Range(P[index]) = {}
      BY <1>11 DEF Range
    <3>2. QED
      BY <3>1 DEF Fibre
  <2>2. Cardinality(Fibre(k, P, index, r)) = 0
    BY <2>1, FS_EmptySet
  <2>3. QED
    BY <1>19, <2>2 DEF n
<1>22. ASSUME NEW i \in 1 .. n - 1, NEW r \in RecIds PROVE Cardinality(Fibre(s, R, i, r)) = N[s.key[i].val][r]
  <2>1. Fibre(s, R, i, r) = Fibre(k, P, f[i], r)
    BY <1>5, <1>14 DEF Fibre
  <2>2. QED
    BY <1>14, <1>19, <1>20, <2>1
<1>23. ASSUME NEW v \in Values, \A i \in 1 .. n - 1 : s.key[i].val # v, NEW r \in RecIds PROVE N[v][r] = 0
  <2>1. \A h \in 1 .. n : h # index => k.key[h].val # v
    BY <1>16, <1>20, <1>23
  <2>2. CASE k.key[index].val = v
    BY <1>21, <2>2
  <2>3. CASE k.key[index].val # v
    BY <1>19, <2>1, <2>3
  <2>4. QED
    BY <2>2, <2>3
<1>24. \A i, j \in 1 .. n - 1 : i < j => s.key[i].val < s.key[j].val
  BY <1>14, <1>15, <1>19, <1>20
<1>25. \A i \in 1 .. n - 1 : R[i] # <<>>
  BY <1>14, <1>19
<1>26. HoldsBut(s, R, N, 0)
  BY <1>5, <1>22, <1>23, <1>24, <1>25 DEF HoldsBut
<1>27. QED
  BY <1>5, <1>18, <1>26 DEF s

-----------------------------------------------------------------------------
(* Searching a leaf, and what a good leaf is for the properties. *)

Hit(l, chain, n, recId, h) == h \in 1 .. n /\ l.cell[chain[h]].recId = recId

\* The search along a list stops at a cell with the record identifier.
LEMMA FirstOfIs ==
  ASSUME NEW l, NEW n \in Nat, NEW chain, DOMAIN chain = 1 .. n, NEW recId,
         NEW h, Hit(l, chain, n, recId, h)
  PROVE  Hit(l, chain, n, recId, FirstOf(l, chain, recId))
<1> DEFINE S == {i \in 1 .. n : l.cell[chain[i]].recId = recId}
<1>1. S \subseteq Nat /\ h \in S
  BY DEF Hit
<1>2. PICK d \in S : \A y \in S : d <= y
  BY <1>1, LeastIs
<1>3. \A i \in 1 .. d - 1 : i \in 1 .. n /\ i < d
  BY <1>2
<1>4. \A i \in 1 .. d - 1 : l.cell[chain[i]].recId # recId
  BY <1>1, <1>2, <1>3
<1>5. d \in DOMAIN chain /\ l.cell[chain[d]].recId = recId
  BY <1>2
<1>6. QED
  BY <1>4, <1>5 DEF FirstOf, Hit

RemovedFacts(k, l, N, index, recId) ==
  /\ k.nextLeafPage = l.nextLeafPage
  /\ Minus(N, l.key[index].val, recId) \in Counts
  /\ LeafOK(k, Minus(N, l.key[index].val, recId))

\* Removed keeps a leaf good and takes one entry out.
LEMMA RemovedIs ==
  ASSUME NEW l, NEW N \in Counts, LeafOK(l, N), NEW index \in 1 .. l.numKeys, NEW recId \in RecIds,
         recId \in ToSet(RecsAt(l, index))
  PROVE  RemovedFacts(Removed(l, index, recId), l, N, index, recId)
<1>1. PICK Q, c : Woven(l, Q, c) /\ HoldsBut(l, Q, N, 0) /\ Spare(l)
  BY DEF LeafOK
<1>2. /\ Chain(l, l.key[index].head) = Q[index]
      /\ RecsAt(l, index) = [j \in 1 .. Len(Q[index]) |-> l.cell[Q[index][j]].recId]
  BY <1>1, RecsAtIs
<1>3. l.numKeys \in Nat /\ index \in 0 .. l.numKeys
  BY <1>1 DEF Woven
<1>4. Q[index] \in Seq(Cells(c))
  BY <1>1, <1>3, WovenIs
<1>5. Len(Q[index]) \in Nat /\ DOMAIN Q[index] = 1 .. Len(Q[index])
  BY <1>4, LenProperties
<1>6. PICK h \in 1 .. Len(Q[index]) : l.cell[Q[index][h]].recId = recId
  BY <1>2 DEF ToSet
<1> DEFINE j == FirstOf(l, Q[index], recId)
           k == Freed(l, Q[index], j, index)
           M == Minus(N, l.key[index].val, recId)
           s == Shut(k, l, index)
<1>7. j \in 1 .. Len(Q[index]) /\ l.cell[Q[index][j]].recId = recId
  <2> DEFINE chain == Q[index]
             n == Len(chain)
             x == FirstOf(l, chain, recId)
  <2>1. n \in Nat /\ DOMAIN chain = 1 .. n /\ Hit(l, chain, n, recId, h)
    BY <1>5, <1>6 DEF Hit
  <2> HIDE DEF chain, n
  <2>2. Hit(l, chain, n, recId, x)
    BY <2>1, FirstOfIs
  <2>3. QED
    BY <2>2 DEF chain, n, Hit
<1>8. Removed(l, index, recId) = s
  BY <1>2, RemovedForm
<1> HIDE DEF j
<1>9. PICK P : FreedFacts(k, P, l, Q, c, N, index, recId)
  BY <1>1, <1>7, FreedHolds
<1> HIDE DEF k
<1>10. /\ k.numKeys = l.numKeys /\ k.nextLeafPage = l.nextLeafPage /\ k.recIdPtr = l.recIdPtr
       /\ M \in Counts /\ Woven(k, P, c) /\ HoldsBut(k, P, M, index)
  BY <1>9 DEF FreedFacts
<1> HIDE DEF M
<1>11. CASE k.key[index].head = AM_NULL
  <2>1. index \in 1 .. k.numKeys /\ l.numKeys = k.numKeys
    BY <1>10
  <2>2. /\ s.nextLeafPage = k.nextLeafPage /\ s.recIdPtr = k.recIdPtr
        /\ \E R : Woven(s, R, c) /\ HoldsBut(s, R, M, 0)
    BY <1>10, <1>11, <2>1, ShutEmpty
  <2> HIDE DEF s
  <2>3. PICK R : Woven(s, R, c) /\ HoldsBut(s, R, M, 0)
    BY <2>2
  <2>4. LeafOK(s, M)
    BY <1>1, <1>10, <2>2, <2>3 DEF LeafOK, Spare
  <2>5. QED
    BY <1>8, <1>10, <2>2, <2>4 DEF RemovedFacts, M
<1>12. CASE k.key[index].head # AM_NULL
  <2>1. s = k
    BY <1>12 DEF Shut
  <2>2. P[index] # <<>>
    <3>1. index \in 0 .. k.numKeys /\ index # 0
      BY <1>3, <1>10
    <3>2. P[index] = <<>> <=> Heads(k.numKeys, k.freeListPtr, k.key)[index] = AM_NULL
      BY <1>10, <3>1, WovenIs
    <3>3. Heads(k.numKeys, k.freeListPtr, k.key)[index] = k.key[index].head
      BY <3>1 DEF Heads
    <3>4. QED
      BY <1>12, <3>2, <3>3
  <2> HIDE DEF s
  <2>3. HoldsBut(k, P, M, 0)
    BY <1>10, <2>2 DEF HoldsBut
  <2>4. LeafOK(s, M)
    BY <1>1, <1>10, <2>1, <2>3 DEF LeafOK, Spare
  <2>5. QED
    BY <1>8, <1>10, <2>1, <2>4 DEF RemovedFacts, M
<1>13. QED
  BY <1>11, <1>12

\* A leaf that holds N is found to hold it.
RecCount(recs, r) == Cardinality({j \in DOMAIN recs : recs[j] = r})

\* What is found under a key is what the leaf holds of its value.
LEMMA HeldAt ==
  ASSUME NEW l, NEW Q, NEW c, Woven(l, Q, c), NEW N, HoldsBut(l, Q, N, 0), NEW i \in 1 .. l.numKeys,
         NEW r \in RecIds
  PROVE  RecCount(RecsAt(l, i), r) = N[l.key[i].val][r]
<1>1. RecsAt(l, i) = [j \in 1 .. Len(Q[i]) |-> l.cell[Q[i][j]].recId]
  BY RecsAtIs
<1>2. {j \in DOMAIN RecsAt(l, i) : RecsAt(l, i)[j] = r} = Places(l, Q[i], r)
  BY <1>1 DEF Places
<1>3. Cardinality(Fibre(l, Q, i, r)) = Cardinality(Places(l, Q[i], r))
  BY FibreCount
<1>4. Cardinality(Fibre(l, Q, i, r)) = N[l.key[i].val][r]
  BY DEF HoldsBut
<1>5. QED
  BY <1>2, <1>3, <1>4 DEF RecCount

SearchFacts(l, N, value, at) ==
  /\ Spot(l, value, at.index, at.found)
  /\ at.found => \A r \in RecIds : RecCount(RecsAt(l, at.index), r) = N[value][r]
  /\ ~ at.found => \A r \in RecIds : N[value][r] = 0

\* AM_SearchLeaf finds what the leaf holds of a value.
LEMMA SearchIs ==
  ASSUME NEW l, NEW N, LeafOK(l, N), NEW value \in Values
  PROVE  SearchFacts(l, N, value, AM_SearchLeaf(l, value))
<1>1. PICK Q, c : Woven(l, Q, c) /\ HoldsBut(l, Q, N, 0)
  BY DEF LeafOK
<1> DEFINE at == AM_SearchLeaf(l, value)
<1>2. Spot(l, value, at.index, at.found)
  BY <1>1, SearchLeafIs
<1> HIDE DEF at
<1>3. ASSUME at.found, NEW r \in RecIds PROVE RecCount(RecsAt(l, at.index), r) = N[value][r]
  <2>1. at.index \in 1 .. l.numKeys /\ l.key[at.index].val = value
    BY <1>2, <1>3 DEF Spot
  <2>2. QED
    BY <1>1, <2>1, HeldAt
<1>4. ASSUME ~ at.found, NEW r \in RecIds PROVE N[value][r] = 0
  <2>1. at.index \in 1 .. l.numKeys + 1 /\ Between(l, value, at.index)
    BY <1>2, <1>4 DEF Spot
  <2>2. l.numKeys \in Nat /\ \A i \in 1 .. l.numKeys : l.key[i].val \in Int
    BY <1>1, WovenIs, ValuesInt DEF Woven
  <2>3. value \in Int
    BY ValuesInt
  <2>4. \A i \in 1 .. l.numKeys : l.key[i].val # value
    BY <2>1, <2>2, <2>3 DEF Between
  <2>5. QED
    BY <1>1, <2>4 DEF HoldsBut
<1>5. QED
  BY <1>2, <1>3, <1>4 DEF SearchFacts, at

\* The cells of LeafSound are those below recIdPtr.
LEMMA CarvedIs ==
  ASSUME NEW c \in Nat, NEW rp, rp = PAGE_SIZE - CELL * c, rp >= AM_sl
  PROVE  {o \in AM_sl .. PAGE_SIZE : o >= rp /\ (PAGE_SIZE - o) % CELL = 0 /\ o < PAGE_SIZE} = Cells(c)
<1> DEFINE S == {o \in AM_sl .. PAGE_SIZE : o >= rp /\ (PAGE_SIZE - o) % CELL = 0 /\ o < PAGE_SIZE}
<1>1. ASSUME NEW o \in S PROVE o \in Cells(c)
  <2>1. o \in Int /\ PAGE_SIZE - o \in Nat /\ PAGE_SIZE - o > 0 /\ (PAGE_SIZE - o) % 6 = 0 /\ PAGE_SIZE - o <= 6 * c
    BY NumbersAre
  <2>2. PICK k \in Nat : PAGE_SIZE - o = 6 * k
    <3> DEFINE x == PAGE_SIZE - o
    <3>1. x \in Nat /\ x % 6 = 0
      BY <2>1
    <3> HIDE DEF x
    <3>2. x = 6 * (x \div 6) /\ x \div 6 \in Nat
      BY <3>1
    <3>3. QED
      BY <3>2 DEF x
  <2>3. k \in 1 .. c
    BY <2>1, <2>2
  <2>4. o = PAGE_SIZE - CELL * k
    BY <2>1, <2>2, NumbersAre
  <2>5. QED
    BY <2>3, <2>4 DEF Cells
<1>2. ASSUME NEW o \in Cells(c) PROVE o \in S
  <2>1. PICK k \in 1 .. c : o = PAGE_SIZE - CELL * k
    BY DEF Cells
  <2>2. o = PAGE_SIZE - 6 * k /\ PAGE_SIZE \in Nat /\ PAGE_SIZE - 6 * c >= 24 /\ rp = PAGE_SIZE - 6 * c
    BY <2>1, NumbersAre
  <2>3. (6 * k) % 6 = 0
    OBVIOUS
  <2>4. PAGE_SIZE - o = 6 * k /\ o \in 24 .. PAGE_SIZE /\ o >= rp /\ o < PAGE_SIZE
    BY <2>2
  <2>5. QED
    BY <2>3, <2>4, NumbersAre
<1>3. QED
  BY <1>1, <1>2

\* A leaf that holds something is sound.
LEMMA SoundIs ==
  ASSUME NEW l, NEW N, LeafOK(l, N)
  PROVE  LeafSound(l)
<1>1. PICK Q, c : Woven(l, Q, c) /\ HoldsBut(l, Q, N, 0)
  BY DEF LeafOK
<1> DEFINE n == l.numKeys
           H == Heads(n, l.freeListPtr, l.key)
           X == Nexts(l.cell)
           lists == [i \in 1 .. n |-> Chain(l, l.key[i].head)]
           used == UNION {ToSet(lists[i]) : i \in 1 .. n}
<1>2. /\ n \in Nat /\ c \in Nat /\ Links(Q, H, X, n, Cells(c)) /\ l.recIdPtr = PAGE_SIZE - CELL * c
      /\ l.keyPtr = AM_sl + n * recSize /\ l.keyPtr <= l.recIdPtr /\ l.numinfreeList = Len(Q[0])
      /\ l.cell \in [Cells(c) -> CellRec]
  BY <1>1 DEF Woven
<1>3. DOMAIN l.cell = Cells(c) /\ AM_NULL \notin Cells(c) /\ l.recIdPtr >= AM_sl
  BY <1>1, <1>2, WovenIs
<1>4. Chain(l, l.freeListPtr) = Q[0]
  <2>1. H[0] = l.freeListPtr /\ 0 \in 0 .. n
    BY <1>2 DEF Heads
  <2>2. \A o \in Cells(c) : l.cell[o].next = X[o]
    BY <1>3 DEF Nexts
  <2> HIDE DEF H, X, n
  <2>3. Chain(l, H[0]) = Q[0]
    BY <1>2, <1>3, <2>1, <2>2, ChainIs
  <2>4. QED
    BY <2>1, <2>3
<1>5. \A i \in 1 .. n : lists[i] = Q[i]
  BY <1>1, RecsAtIs
<1>6. {o \in AM_sl .. PAGE_SIZE : o >= l.recIdPtr /\ (PAGE_SIZE - o) % CELL = 0 /\ o < PAGE_SIZE} = Cells(c)
  BY <1>2, <1>3, CarvedIs
<1>7. \A i \in 1 .. n : Q[i] # <<>>
  BY <1>1 DEF HoldsBut
<1> HIDE DEF lists, H, X
<1>8. \A i \in 0 .. n : Q[i] \in Seq(Cells(c)) /\ Range(Q[i]) \subseteq Cells(c) /\ ToSet(Q[i]) = Range(Q[i])
  <2>1. ASSUME NEW i \in 0 .. n PROVE Q[i] \in Seq(Cells(c)) /\ Range(Q[i]) \subseteq Cells(c) /\ ToSet(Q[i]) = Range(Q[i])
    <3>1. Q[i] \in Seq(Cells(c))
      BY <1>2 DEF Links
    <3>2. \A o \in Range(Q[i]) : o \in Cells(c)
      BY <3>1, InRange
    <3>3. QED
      BY <3>1, <3>2 DEF ToSet, Range
  <2>2. QED
    BY <2>1
<1>9. \A i \in 1 .. n : i \in 0 .. n /\ i # 0
  BY <1>2
<1>10. 0 \in 0 .. n /\ \A i \in 0 .. n : i = 0 \/ i \in 1 .. n
  BY <1>2
<1>11. /\ \A i, j \in 0 .. n : i # j => Range(Q[i]) \cap Range(Q[j]) = {}
       /\ \A o \in Cells(c) : \E i \in 0 .. n : o \in Range(Q[i])
  BY <1>2 DEF Links
<1> HIDE DEF n
<1>12. \A i \in 1 .. n : ToSet(lists[i]) = Range(Q[i])
  BY <1>5, <1>8, <1>9
<1>13. used \cup ToSet(Q[0]) = Cells(c)
  <2>1. ASSUME NEW o \in Cells(c) PROVE o \in used \cup ToSet(Q[0])
    BY <1>8, <1>10, <1>11, <1>12
  <2>2. \A o \in used \cup ToSet(Q[0]) : o \in Cells(c)
    BY <1>8, <1>9, <1>10, <1>12
  <2>3. QED
    BY <2>1, <2>2
<1>14. used \cap ToSet(Q[0]) = {}
  <2>1. ASSUME NEW o, o \in used, o \in ToSet(Q[0]) PROVE FALSE
    <3>1. PICK i \in 1 .. n : o \in Range(Q[i])
      BY <1>12, <2>1
    <3>2. o \in Range(Q[0])
      BY <1>8, <1>10, <2>1
    <3>3. i \in 0 .. n /\ i # 0 /\ 0 \in 0 .. n
      BY <1>9, <1>10
    <3>4. QED
      BY <1>11, <3>1, <3>2, <3>3
  <2>2. QED
    BY <2>1
<1>15. \A i, j \in 1 .. n : i # j => ToSet(lists[i]) \cap ToSet(lists[j]) = {}
  BY <1>9, <1>11, <1>12
<1>16. QED
  BY <1>2, <1>3, <1>4, <1>5, <1>6, <1>7, <1>13, <1>14, <1>15 DEF LeafSound, lists, n

LeafTyped(l) ==
  /\ l.type = "l"
  /\ {l.recIdPtr, l.keyPtr, l.freeListPtr} \subseteq Offsets
  /\ l.numinfreeList \in Nat /\ l.numKeys \in 0 .. Len(l.key)
  /\ l.key \in Seq([val : Values, head : Offsets])
  /\ l.cell \in [DOMAIN l.cell -> [recId : RecIds, next : Offsets]]

\* A good leaf is of its type.
LEMMA TypedIs ==
  ASSUME NEW l, NEW N, LeafOK(l, N)
  PROVE  LeafTyped(l) /\ l.numKeys \in Nat /\ \A i \in 1 .. l.numKeys : l.key[i].val \in Values
<1>1. PICK Q, c : Woven(l, Q, c)
  BY DEF LeafOK
<1>2. l.type = "l"
  BY <1>1, LeafFields DEF Woven, IsLeafRec
<1>3. /\ l.freeListPtr \in Offsets /\ l.numinfreeList \in Nat /\ DOMAIN l.cell = Cells(c)
      /\ PAGE_SIZE - CELL * c >= AM_sl /\ l.recIdPtr \in Nat /\ l.keyPtr \in Nat
      /\ \A i \in 1 .. l.numKeys : l.key[i].val \in Values
  <2>1. l.numKeys \in Nat /\ 0 \in 0 .. l.numKeys /\ Heads(l.numKeys, l.freeListPtr, l.key)[0] = l.freeListPtr
    BY <1>1 DEF Woven, Heads
  <2>2. Len(Q[0]) \in Nat /\ l.numinfreeList = Len(Q[0])
    BY <1>1, <2>1, WovenIs, LenProperties DEF Woven
  <2>3. QED
    BY <1>1, <2>1, <2>2, WovenIs
<1>4. l.recIdPtr \in AM_sl .. PAGE_SIZE
  <2>1. c \in Nat /\ l.recIdPtr = PAGE_SIZE - CELL * c
    BY <1>1 DEF Woven
  <2>2. QED
    BY <1>3, <2>1, NumbersAre
<1>5. l.keyPtr \in AM_sl .. PAGE_SIZE
  <2>1. l.numKeys \in Nat /\ l.keyPtr = AM_sl + l.numKeys * recSize /\ l.keyPtr <= l.recIdPtr
    BY <1>1 DEF Woven
  <2>2. l.numKeys * recSize \in Nat
    BY <2>1, NumbersAre, OneMore
  <2>3. QED
    BY <1>3, <1>4, <2>1, <2>2, NumbersAre
<1>6. l.numKeys \in 0 .. Len(l.key) /\ l.key \in Seq(KeySlot) /\ l.cell \in [Cells(c) -> CellRec] /\ l.numKeys \in Nat
  BY <1>1, LenProperties DEF Woven
<1>7. QED
  BY <1>2, <1>3, <1>4, <1>5, <1>6 DEF LeafTyped, KeySlot, CellRec, Offsets
=============================================================================
