----------------------------- MODULE AM_proofs ------------------------------
(***************************************************************************)
(* The index keeps what it promises for all values, sizes of page and      *)
(* node, and sequences of calls.  Tree says that the pages are a tree:     *)
(* page p is for the values E[p], those of a child are the ones that       *)
(* AM_BinSearch sends there, all leaves together hold N, every page but    *)
(* the root hangs at one place, and rk falls on the way down.  Linked says *)
(* that the values behind a leaf begin in the leaf it is chained to.  A    *)
(* split leaves the second half unhung and the node above for too many     *)
(* values: that is the state of AM_AddtoParent, which goes up the way      *)
(* until a node has room or the root is cut.  AMInv, with acked for N, is  *)
(* inductive, and the invariants of AM follow from it.                     *)
(***************************************************************************)
EXTENDS AMLeaf_proofs

-----------------------------------------------------------------------------
(* Keys and pointers of a node. *)

InsertedAt(t, s, S, i, x) ==
  /\ t \in Seq(S) /\ Len(t) = Len(s) + 1 /\ t[i] = x
  /\ \A k \in 1 .. i - 1 : t[k] = s[k]
  /\ \A k \in i .. Len(s) : t[k + 1] = s[k]

\* A sequence with x at place i.
LEMMA InsertAtIs ==
  ASSUME NEW S, NEW s \in Seq(S), NEW i \in 1 .. Len(s) + 1, NEW x \in S
  PROVE  InsertedAt(InsertAt(s, i, x), s, S, i, x)
<1> DEFINE a == SubSeq(s, 1, i - 1)
           n == Len(s)
           b == SubSeq(s, i, n)
           t == <<x>>
           e == a \o t
           f == e \o b
<1>1. n \in Nat /\ i \in Nat /\ 1 <= i /\ i <= n + 1
  BY LenProperties
<1>2. \A k \in 1 .. n : s[k] \in S
  BY ElementOfSeq
<1>3. a \in Seq(S) /\ Len(a) = i - 1 /\ \A k \in 1 .. i - 1 : a[k] = s[k]
  <2>1. \A k \in 1 .. i - 1 : s[k] \in S
    BY <1>1, <1>2
  <2>2. /\ a \in Seq(S) /\ Len(a) = IF 1 <= i - 1 THEN (i - 1) - 1 + 1 ELSE 0
        /\ \A k \in 1 .. (i - 1) - 1 + 1 : a[k] = s[1 + k - 1]
    BY <1>1, <2>1, SubSeqProperties
  <2> HIDE DEF a
  <2>3. \A k \in 1 .. i - 1 : k \in 1 .. (i - 1) - 1 + 1 /\ 1 + k - 1 = k
    BY <1>1
  <2>4. QED
    BY <1>1, <2>2, <2>3
<1>4. b \in Seq(S) /\ Len(b) = n - i + 1 /\ \A k \in 1 .. n - i + 1 : b[k] = s[i + k - 1]
  <2>1. \A k \in i .. n : s[k] \in S
    BY <1>1, <1>2
  <2>2. /\ b \in Seq(S) /\ Len(b) = IF i <= n THEN n - i + 1 ELSE 0
        /\ \A k \in 1 .. n - i + 1 : b[k] = s[i + k - 1]
    BY <1>1, <2>1, SubSeqProperties
  <2> HIDE DEF b
  <2>3. QED
    BY <1>1, <2>2
<1>5. t \in Seq(S) /\ Len(t) = 1 /\ t[1] = x
  OBVIOUS
<1>6. InsertAt(s, i, x) = f
  BY DEF InsertAt
<1> HIDE DEF a, b, n, t
<1>7. /\ e \in Seq(S) /\ Len(e) = Len(a) + Len(t)
      /\ \A k \in 1 .. Len(a) + Len(t) : e[k] = IF k <= Len(a) THEN a[k] ELSE t[k - Len(a)]
  BY <1>3, <1>5, ConcatProperties
<1> HIDE DEF e
<1>8. Len(e) = i /\ \A k \in 1 .. i : e[k] = IF k <= i - 1 THEN a[k] ELSE t[k - (i - 1)]
  BY <1>1, <1>3, <1>5, <1>7
<1>9. e[i] = x
  <2>1. i \in 1 .. i /\ ~ (i <= i - 1) /\ i - (i - 1) = 1
    BY <1>1
  <2>2. QED
    BY <1>5, <1>8, <2>1
<1>10. \A k \in 1 .. i - 1 : e[k] = s[k]
  BY <1>1, <1>3, <1>8
<1>11. /\ f \in Seq(S) /\ Len(f) = Len(e) + Len(b)
       /\ \A k \in 1 .. Len(e) + Len(b) : f[k] = IF k <= Len(e) THEN e[k] ELSE b[k - Len(e)]
  <2>1. e \in Seq(S) /\ b \in Seq(S)
    BY <1>4, <1>7
  <2>2. QED
    BY <2>1, ConcatProperties
<1> HIDE DEF f
<1>12. Len(f) = n + 1 /\ \A k \in 1 .. n + 1 : f[k] = IF k <= i THEN e[k] ELSE b[k - i]
  BY <1>1, <1>4, <1>8, <1>11
<1>13. f[i] = x
  <2>1. i \in 1 .. n + 1 /\ i <= i
    BY <1>1
  <2>2. QED
    BY <1>9, <1>12, <2>1
<1>14. ASSUME NEW k \in 1 .. i - 1 PROVE f[k] = s[k]
  <2>1. k \in 1 .. n + 1 /\ k <= i
    BY <1>1
  <2>2. QED
    BY <1>10, <1>12, <2>1
<1>15. ASSUME NEW k \in i .. n PROVE f[k + 1] = s[k]
  <2>1. k + 1 \in 1 .. n + 1 /\ ~ (k + 1 <= i) /\ k + 1 - i \in 1 .. n - i + 1 /\ i + (k + 1 - i) - 1 = k
    BY <1>1
  <2>2. f[k + 1] = b[k + 1 - i] /\ b[k + 1 - i] = s[i + (k + 1 - i) - 1]
    BY <1>4, <1>12, <2>1
  <2>3. QED
    BY <2>1, <2>2
<1>16. QED
  BY <1>6, <1>11, <1>12, <1>13, <1>14, <1>15 DEF InsertedAt, n

\* A piece of a sequence.
Piece(t, s, S, a, b) ==
  /\ t \in Seq(S) /\ Len(t) = b - a + 1
  /\ \A k \in 1 .. b - a + 1 : t[k] = s[a + k - 1]

\* SubSeq gives a piece.
LEMMA PieceIs ==
  ASSUME NEW S, NEW s \in Seq(S), NEW a \in Nat, NEW b \in Nat, 1 <= a, a <= b, b <= Len(s)
  PROVE  Piece(SubSeq(s, a, b), s, S, a, b)
<1>1. \A k \in a .. b : s[k] \in S
  BY ElementOfSeq, LenProperties
<1>2. /\ SubSeq(s, a, b) \in Seq(S) /\ Len(SubSeq(s, a, b)) = IF a <= b THEN b - a + 1 ELSE 0
      /\ \A k \in 1 .. b - a + 1 : SubSeq(s, a, b)[k] = s[a + k - 1]
  BY <1>1, SubSeqProperties
<1>3. QED
  BY <1>2 DEF Piece

\* The place of a value among the keys of an internal node.
InSlot(key, i, v) == (i > 1 => key[i - 1] <= v) /\ (i <= Len(key) => v < key[i])
PlaceFacts(key, v, b) ==
  /\ b \in 0 .. Len(key) /\ InSlot(key, b + 1, v)
  /\ \A i \in 1 .. Len(key) + 1 : InSlot(key, i, v) => i = b + 1

\* A value has one place.
LEMMA PlaceOnly ==
  ASSUME NEW key \in Seq(Int), Ordered(key), NEW v \in Int, NEW i \in 1 .. Len(key) + 1, NEW j \in 1 .. Len(key) + 1,
         InSlot(key, i, v), InSlot(key, j, v), i < j
  PROVE  FALSE
<1>1. Len(key) \in Nat /\ \A h \in 1 .. Len(key) : key[h] \in Int
  BY LenProperties, ElementOfSeq
<1>2. i \in 1 .. Len(key) /\ j - 1 \in 1 .. Len(key) /\ i <= j - 1 /\ j > 1 /\ i <= Len(key)
  BY <1>1
<1>3. v < key[i] /\ key[j - 1] <= v
  BY <1>2 DEF InSlot
<1>4. key[i] <= key[j - 1]
  <2>1. CASE i = j - 1
    BY <1>1, <1>2, <2>1
  <2>2. CASE i # j - 1
    <3>1. i < j - 1
      BY <1>2, <2>2
    <3>2. key[i] < key[j - 1]
      BY <1>2, <3>1 DEF Ordered
    <3>3. QED
      BY <1>1, <1>2, <3>2
  <2>3. QED
    BY <2>1, <2>2
<1>5. key[i] \in Int /\ key[j - 1] \in Int
  BY <1>1, <1>2
<1>6. QED
  BY <1>3, <1>4, <1>5

\* AM_BinSearch finds it.
LEMMA PlaceIs ==
  ASSUME NEW key \in Seq(Int), Ordered(key), NEW v \in Int
  PROVE  PlaceFacts(key, v, AM_BinSearch(key, v))
<1> DEFINE s == BinarySearch(key, v)
           b == AM_BinSearch(key, v)
<1>1. Len(key) \in Nat /\ \A h \in 1 .. Len(key) : key[h] \in Int
  BY LenProperties, ElementOfSeq
<1>2. \/ /\ s.found = TRUE /\ s.at \in 0 .. Len(key) - 1
         /\ key[s.at + 1] = v
      \/ /\ s.found = FALSE /\ s.at \in 0 .. Len(key)
         /\ \A i \in 1 .. s.at : key[i] < v
         /\ \A i \in s.at + 1 .. Len(key) : key[i] > v
  BY BinarySearchIs
<1>3. b = IF s.found THEN s.at + 1 ELSE s.at
  BY DEF AM_BinSearch
<1> HIDE DEF s, b
<1>4. b \in 0 .. Len(key) /\ InSlot(key, b + 1, v)
  <2>1. CASE s.found = TRUE
    <3>1. b \in 1 .. Len(key) /\ key[b] = v
      BY <1>1, <1>2, <1>3, <2>1
    <3>2. b + 1 <= Len(key) => key[b] < key[b + 1]
      BY <1>1, <3>1 DEF Ordered
    <3>3. QED
      BY <1>1, <3>1, <3>2 DEF InSlot
  <2>2. CASE s.found = FALSE
    <3>1. /\ b \in 0 .. Len(key) /\ \A i \in 1 .. b : key[i] < v
          /\ \A i \in b + 1 .. Len(key) : key[i] > v
      BY <1>1, <1>2, <1>3, <2>2
    <3>2. b + 1 > 1 => key[b + 1 - 1] <= v
      BY <1>1, <3>1
    <3>3. b + 1 <= Len(key) => v < key[b + 1]
      BY <1>1, <3>1
    <3>4. QED
      BY <3>1, <3>2, <3>3 DEF InSlot
  <2>3. QED
    BY <1>2, <2>1, <2>2
<1>5. ASSUME NEW i \in 1 .. Len(key) + 1, InSlot(key, i, v) PROVE i = b + 1
  <2>1. b + 1 \in 1 .. Len(key) + 1
    BY <1>1, <1>4
  <2> DEFINE j == b + 1
  <2> HIDE DEF j
  <2>2. j \in 1 .. Len(key) + 1 /\ InSlot(key, j, v)
    BY <1>4, <2>1 DEF j
  <2>3. i \in Int /\ j \in Int
    BY <1>1, <2>2
  <2>4. ~ (i < j) /\ ~ (j < i)
    BY <1>5, <2>2, PlaceOnly
  <2>5. QED
    BY <2>3, <2>4 DEF j
<1>6. QED
  BY <1>4, <1>5 DEF PlaceFacts, b

-----------------------------------------------------------------------------
(* Where pages hang. *)

\* The pages of D but those of top are below one place of one page each: K[p] is the
\* sequence of those below p.
Hangs(K, D, top) ==
  /\ \A p \in D : K[p] \in Seq(D)
  /\ \A p, q \in D : \A i \in 1 .. Len(K[p]) : \A j \in 1 .. Len(K[q]) :
       K[p][i] = K[q][j] => p = q /\ i = j
  /\ \A p \in D : \A i \in 1 .. Len(K[p]) : K[p][i] \notin top
  /\ \A q \in D : q \notin top => \E p \in D : \E i \in 1 .. Len(K[p]) : K[p][i] = q

\* A page is below one place only.
LEMMA HangsOnce ==
  ASSUME NEW K, NEW D, NEW top, Hangs(K, D, top), NEW p \in D, NEW q \in D,
         NEW i \in 1 .. Len(K[p]), NEW j \in 1 .. Len(K[q]), K[p][i] = K[q][j]
  PROVE  p = q /\ i = j
BY DEF Hangs

\* Into the place i below p comes new.
Hung(L, K, D, p, i, new) ==
  /\ \A o \in D : o # p => L[o] = K[o]
  /\ InsertedAt(L[p], K[p], D, i, new)

\* A page hung in leaves the others where they are.
LEMMA HungIs ==
  ASSUME NEW K, NEW D, NEW top, Hangs(K, D, top), NEW p \in D, NEW i \in 1 .. Len(K[p]) + 1,
         NEW new \in D, new \in top, NEW L, Hung(L, K, D, p, i, new)
  PROVE  Hangs(L, D, top \ {new})
<1> DEFINE n == Len(K[p])
<1>1. n \in Nat /\ i \in 1 .. n + 1
  BY LenProperties DEF Hangs
<1>2. /\ L[p] \in Seq(D) /\ Len(L[p]) = n + 1 /\ L[p][i] = new
      /\ \A k \in 1 .. i - 1 : L[p][k] = K[p][k]
      /\ \A k \in i .. n : L[p][k + 1] = K[p][k]
  BY DEF Hung, InsertedAt
<1>3. \A o \in D : o # p => L[o] = K[o]
  BY DEF Hung
<1>4. \A o \in D : L[o] \in Seq(D)
  BY <1>2, <1>3 DEF Hangs
<1> DEFINE g(o, k) == IF o = p /\ k > i THEN k - 1 ELSE k
<1> HIDE DEF n
<1>5. ASSUME NEW o \in D, NEW k \in 1 .. Len(L[o]), ~ (o = p /\ k = i)
      PROVE  g(o, k) \in 1 .. Len(K[o]) /\ L[o][k] = K[o][g(o, k)] /\ L[o][k] # new
  <2>1. g(o, k) \in 1 .. Len(K[o]) /\ L[o][k] = K[o][g(o, k)]
    <3>1. CASE o # p
      BY <1>3, <3>1
    <3>2. CASE o = p /\ k < i
      BY <1>1, <1>2, <3>2 DEF n
    <3>3. CASE o = p /\ k > i
      <4>1. k - 1 \in i .. n /\ k - 1 + 1 = k /\ k - 1 \in 1 .. n
        BY <1>1, <1>2, <3>3
      <4>2. L[p][k] = K[p][k - 1]
        BY <1>2, <4>1
      <4>3. QED
        BY <3>3, <4>1, <4>2 DEF n
    <3>4. QED
      BY <1>1, <1>2, <1>5, <3>1, <3>2, <3>3
  <2>2. K[o][g(o, k)] # new
    <3> DEFINE h == g(o, k)
    <3>1. h \in 1 .. Len(K[o])
      BY <2>1
    <3> HIDE DEF h
    <3>2. K[o][h] # new
      BY <3>1 DEF Hangs
    <3>3. QED
      BY <3>2 DEF h
  <2>3. QED
    BY <2>1, <2>2
<1>6. ASSUME NEW o \in D, NEW q \in D, NEW k \in 1 .. Len(L[o]), NEW j \in 1 .. Len(L[q]), L[o][k] = L[q][j]
      PROVE  o = q /\ k = j
  <2>1. CASE L[o][k] = new
    <3>1. o = p /\ k = i
      BY <1>5, <2>1
    <3>2. q = p /\ j = i
      BY <1>5, <1>6, <2>1
    <3>3. QED
      BY <3>1, <3>2
  <2>2. CASE L[o][k] # new
    <3>1. ~ (o = p /\ k = i) /\ ~ (q = p /\ j = i)
      BY <1>2, <1>6, <2>2
    <3> DEFINE a == g(o, k)
               b == g(q, j)
    <3>2. a \in 1 .. Len(K[o]) /\ L[o][k] = K[o][a] /\ b \in 1 .. Len(K[q]) /\ L[q][j] = K[q][b]
      BY <1>5, <3>1
    <3>3. a = IF o = p /\ k > i THEN k - 1 ELSE k
      OBVIOUS
    <3>4. b = IF q = p /\ j > i THEN j - 1 ELSE j
      OBVIOUS
    <3> HIDE DEF a, b
    <3>8. K[o][a] = K[q][b]
      BY <1>6, <3>2
    <3>5. o = q /\ a = b
      BY <3>2, <3>8, HangsOnce
    <3>6. k \in Int /\ j \in Int /\ i \in Int
      BY <1>1, <1>4, LenProperties
    <3>7. QED
      BY <3>1, <3>3, <3>4, <3>5, <3>6
  <2>3. QED
    BY <2>1, <2>2
<1>7. ASSUME NEW o \in D, NEW k \in 1 .. Len(L[o]) PROVE L[o][k] \notin top \ {new}
  <2>1. CASE o = p /\ k = i
    BY <1>2, <2>1
  <2>2. CASE ~ (o = p /\ k = i)
    <3> DEFINE a == g(o, k)
    <3>1. a \in 1 .. Len(K[o]) /\ L[o][k] = K[o][a]
      BY <1>5, <2>2
    <3> HIDE DEF a
    <3>2. QED
      BY <3>1 DEF Hangs
  <2>3. QED
    BY <2>1, <2>2
<1>8. ASSUME NEW q \in D, q \notin top \ {new}
      PROVE  \E o \in D : \E k \in 1 .. Len(L[o]) : L[o][k] = q
  <2>1. CASE q = new
    <3>1. i \in 1 .. Len(L[p])
      BY <1>1, <1>2
    <3>2. QED
      BY <1>2, <2>1, <3>1
  <2>2. CASE q # new
    <3>1. PICK o \in D : \E k \in 1 .. Len(K[o]) : K[o][k] = q
      BY <1>8, <2>2 DEF Hangs
    <3>2. PICK k \in 1 .. Len(K[o]) : K[o][k] = q
      BY <3>1
    <3>3. CASE o # p
      BY <1>3, <3>2, <3>3
    <3>4. CASE o = p /\ k < i
      <4>1. k \in 1 .. i - 1 /\ k \in 1 .. Len(L[p])
        BY <1>1, <1>2, <3>2, <3>4 DEF n
      <4>2. L[p][k] = q
        BY <1>2, <3>2, <3>4, <4>1
      <4>3. QED
        BY <4>1, <4>2
    <3>5. CASE o = p /\ ~ (k < i)
      <4>1. k \in i .. n /\ k + 1 \in 1 .. Len(L[p])
        BY <1>1, <1>2, <3>2, <3>5 DEF n
      <4>2. L[p][k + 1] = q
        BY <1>2, <3>2, <3>5, <4>1
      <4>3. QED
        BY <4>1, <4>2
    <3>6. QED
      BY <3>3, <3>4, <3>5
  <2>3. QED
    BY <2>1, <2>2
<1>9. QED
  BY <1>4, <1>6, <1>7, <1>8 DEF Hangs

\* What is below p behind place a is below q, a page that was not there, now.
Shared(L, K, D, p, q, a) ==
  /\ \A o \in D : o # p => L[o] = K[o]
  /\ L[p] \in Seq(D) /\ Len(L[p]) = a /\ \A k \in 1 .. a : L[p][k] = K[p][k]
  /\ L[q] \in Seq(D) /\ Len(L[q]) = Len(K[p]) - a
  /\ \A k \in 1 .. Len(K[p]) - a : L[q][k] = K[p][a + k]

\* A page whose children are shared with a new one.
LEMMA SharedIs ==
  ASSUME NEW K, NEW D, NEW top, Hangs(K, D, top), NEW p \in D, NEW a \in 0 .. Len(K[p]),
         NEW q, q \notin D, NEW L, Shared(L, K, D, p, q, a)
  PROVE  Hangs(L, D \cup {q}, top \cup {q})
<1> DEFINE n == Len(K[p])
           D2 == D \cup {q}
<1>1. n \in Nat /\ a \in Nat /\ a <= n
  BY LenProperties DEF Hangs
<1>2. /\ L[p] \in Seq(D) /\ Len(L[p]) = a /\ \A k \in 1 .. a : L[p][k] = K[p][k]
      /\ L[q] \in Seq(D) /\ Len(L[q]) = n - a /\ \A k \in 1 .. n - a : L[q][k] = K[p][a + k]
      /\ \A o \in D : o # p => L[o] = K[o]
  BY DEF Shared
<1>3. \A o \in D2 : L[o] \in Seq(D)
  BY <1>2 DEF Hangs
<1>4. \A o \in D2 : L[o] \in Seq(D2)
  BY <1>3, SeqMonotonic
<1> DEFINE f(o) == IF o = q THEN p ELSE o
           g(o, k) == IF o = q THEN a + k ELSE k
<1> HIDE DEF n
<1>5. ASSUME NEW o \in D2, NEW k \in 1 .. Len(L[o])
      PROVE  f(o) \in D /\ g(o, k) \in 1 .. Len(K[f(o)]) /\ L[o][k] = K[f(o)][g(o, k)]
  <2>1. CASE o = q
    <3>1. k \in 1 .. n - a /\ a + k \in 1 .. n
      BY <1>1, <1>2, <2>1
    <3>2. QED
      BY <1>2, <2>1, <3>1 DEF n
  <2>2. CASE o = p
    <3>1. o # q /\ k \in 1 .. a /\ k \in 1 .. n
      BY <1>1, <1>2, <2>2
    <3>2. QED
      BY <1>2, <2>2, <3>1 DEF n
  <2>3. CASE o # q /\ o # p
    BY <1>2, <2>3
  <2>4. QED
    BY <2>1, <2>2, <2>3
<1>6. ASSUME NEW o \in D2, NEW w \in D2, NEW k \in 1 .. Len(L[o]), NEW j \in 1 .. Len(L[w]), L[o][k] = L[w][j]
      PROVE  o = w /\ k = j
  <2> DEFINE x == f(o)
             y == f(w)
             b == g(o, k)
             c == g(w, j)
  <2>1. /\ x \in D /\ b \in 1 .. Len(K[x]) /\ L[o][k] = K[x][b]
        /\ y \in D /\ c \in 1 .. Len(K[y]) /\ L[w][j] = K[y][c]
    BY <1>5
  <2>2. /\ x = (IF o = q THEN p ELSE o) /\ y = (IF w = q THEN p ELSE w)
        /\ b = (IF o = q THEN a + k ELSE k) /\ c = (IF w = q THEN a + j ELSE j)
    OBVIOUS
  <2> HIDE DEF x, y, b, c
  <2>8. K[x][b] = K[y][c]
    BY <1>6, <2>1
  <2>3. x = y /\ b = c
    BY <2>1, <2>8, HangsOnce
  <2>4. k \in Int /\ j \in Int /\ k >= 1 /\ j >= 1
    BY <1>4, LenProperties
  <2>5. (o = p => k <= a) /\ (w = p => j <= a)
    BY <1>2
  <2>6. p # q
    OBVIOUS
  <2>7. QED
    BY <1>1, <2>2, <2>3, <2>4, <2>5, <2>6
<1>7. ASSUME NEW o \in D2, NEW k \in 1 .. Len(L[o]) PROVE L[o][k] \notin top \cup {q}
  <2> DEFINE x == f(o)
             b == g(o, k)
  <2>1. x \in D /\ b \in 1 .. Len(K[x]) /\ L[o][k] = K[x][b]
    BY <1>5
  <2> HIDE DEF x, b
  <2>2. K[x][b] \notin top /\ K[x] \in Seq(D)
    BY <2>1 DEF Hangs
  <2>3. K[x][b] \in D
    BY <2>1, <2>2, ElementOfSeq
  <2>4. QED
    BY <2>1, <2>2, <2>3
<1>8. ASSUME NEW w \in D2, w \notin top \cup {q}
      PROVE  \E o \in D2 : \E k \in 1 .. Len(L[o]) : L[o][k] = w
  <2>1. PICK o \in D : \E k \in 1 .. Len(K[o]) : K[o][k] = w
    BY <1>8 DEF Hangs
  <2>2. PICK k \in 1 .. Len(K[o]) : K[o][k] = w
    BY <2>1
  <2>3. CASE o # p
    BY <1>2, <2>2, <2>3
  <2>4. CASE o = p /\ k <= a
    <3>1. k \in 1 .. Len(L[p])
      BY <1>1, <1>2, <2>2, <2>4 DEF n
    <3>2. L[p][k] = w
      BY <1>2, <2>2, <2>4, <3>1
    <3>3. QED
      BY <3>1, <3>2
  <2>5. CASE o = p /\ ~ (k <= a)
    <3>1. k - a \in 1 .. n - a /\ a + (k - a) = k
      BY <1>1, <2>2, <2>5 DEF n
    <3>2. L[q][k - a] = w /\ k - a \in 1 .. Len(L[q])
      BY <1>2, <2>2, <2>5, <3>1
    <3>3. QED
      BY <3>2
  <2>6. QED
    BY <2>3, <2>4, <2>5
<1>9. QED
  BY <1>4, <1>6, <1>7, <1>8 DEF Hangs

-----------------------------------------------------------------------------
(* The entries of some of the values. *)

\* The page r with its pages below shared out to x and y, which come below it.
Rooted(L, K, D, r, x, y, a) ==
  /\ \A o \in D : o # r => L[o] = K[o]
  /\ L[r] = <<x, y>>
  /\ L[x] \in Seq(D) /\ Len(L[x]) = a /\ \A k \in 1 .. a : L[x][k] = K[r][k]
  /\ L[y] \in Seq(D) /\ Len(L[y]) = Len(K[r]) - a
  /\ \A k \in 1 .. Len(K[r]) - a : L[y][k] = K[r][a + k]

\* The root whose children go below its two halves.
LEMMA RootedIs ==
  ASSUME NEW K, NEW D, NEW r \in D, Hangs(K, D, {r}), NEW a \in 0 .. Len(K[r]),
         NEW x, x \notin D, NEW y, y \notin D, x # y, NEW L, Rooted(L, K, D, r, x, y, a)
  PROVE  Hangs(L, D \cup {x, y}, {r})
<1> DEFINE D1 == D \cup {x}
           D2 == D1 \cup {y}
           L0 == [o \in D1 |-> IF o = r THEN <<>> ELSE IF o = x THEN K[r] ELSE K[o]]
           L1 == [o \in D2 |-> IF o = r THEN <<>> ELSE L[o]]
           L2 == [o \in D2 |-> IF o = r THEN <<x>> ELSE L[o]]
           n == Len(K[r])
<1>1. /\ \A o \in D : o # r => L[o] = K[o]
      /\ L[r] = <<x, y>>
      /\ L[x] \in Seq(D) /\ Len(L[x]) = a /\ \A k \in 1 .. a : L[x][k] = K[r][k]
      /\ L[y] \in Seq(D) /\ Len(L[y]) = n - a /\ \A k \in 1 .. n - a : L[y][k] = K[r][a + k]
  BY DEF Rooted
<1>2. K[r] \in Seq(D) /\ n \in Nat /\ a \in Nat /\ a <= n /\ 0 \in 0 .. n
  BY LenProperties DEF Hangs
<1>3. Hangs(L0, D1, {r} \cup {x})
  <2>1. L0[r] = <<>> /\ L0[x] = K[r] /\ \A o \in D : o # r => L0[o] = K[o]
    OBVIOUS
  <2> HIDE DEF L0
  <2>2. /\ L0[r] \in Seq(D) /\ Len(L0[r]) = 0 /\ \A k \in 1 .. 0 : L0[r][k] = K[r][k]
    BY <2>1
  <2>3. /\ L0[x] \in Seq(D) /\ Len(L0[x]) = n - 0 /\ \A k \in 1 .. n - 0 : L0[x][k] = K[r][0 + k]
    BY <1>2, <2>1
  <2> DEFINE z == 0
  <2>4. Shared(L0, K, D, r, x, z) /\ z \in 0 .. n
    BY <1>2, <2>1, <2>2, <2>3 DEF Shared
  <2> HIDE DEF z
  <2>5. QED
    BY <2>4, SharedIs
<1>4. Hangs(L1, D2, {r, x, y})
  <2>1. /\ L0[x] = K[r] /\ L0[r] = <<>> /\ \A o \in D : o # r => L0[o] = K[o]
    OBVIOUS
  <2>2. /\ L1[r] = <<>> /\ L1[x] = L[x] /\ L1[y] = L[y] /\ \A o \in D : o # r => L1[o] = L[o]
    OBVIOUS
  <2> HIDE DEF L0, L1
  <2>3. \A o \in D1 : o # x => L1[o] = L0[o]
    BY <1>1, <2>1, <2>2
  <2>4. L1[x] \in Seq(D1) /\ L1[y] \in Seq(D1)
    BY <1>1, <2>2, SeqMonotonic
  <2>5. Shared(L1, L0, D1, x, y, a)
    BY <1>1, <2>1, <2>2, <2>3, <2>4 DEF Shared
  <2> DEFINE top == {r} \cup {x}
  <2>6. x \in D1 /\ a \in 0 .. Len(L0[x]) /\ y \notin D1 /\ Hangs(L0, D1, top)
    BY <1>3, <2>1
  <2> HIDE DEF top, D1
  <2>7. Hangs(L1, D1 \cup {y}, top \cup {y})
    BY <2>5, <2>6, SharedIs
  <2>8. top \cup {y} = {r, x, y}
    BY DEF top
  <2>9. QED
    BY <2>7, <2>8
<1>5. Hangs(L2, D2, {r, x, y} \ {x})
  <2>1. /\ L1[r] = <<>> /\ L2[r] = <<x>> /\ \A o \in D2 : o # r => L2[o] = L1[o]
    OBVIOUS
  <2> DEFINE top == {r, x, y}
  <2>2. r \in D2 /\ x \in D2 /\ x \in top
    OBVIOUS
  <2> HIDE DEF L1, L2, D2
  <2>3. L2[r] \in Seq(D2) /\ Len(L2[r]) = 1 /\ L2[r][1] = x /\ Len(L1[r]) = 0
    BY <2>1, <2>2
  <2> DEFINE i == 1
  <2>4. i \in 1 .. Len(L1[r]) + 1 /\ Hung(L2, L1, D2, r, i, x)
    BY <2>1, <2>3 DEF Hung, InsertedAt
  <2> HIDE DEF top, i
  <2>5. Hangs(L2, D2, top \ {x})
    BY <1>4, <2>2, <2>4, HungIs DEF top
  <2>6. QED
    BY <2>5 DEF top
<1>6. Hangs(L, D2, ({r, x, y} \ {x}) \ {y})
  <2>1. L2[r] = <<x>> /\ L[r] = <<x, y>> /\ \A o \in D2 : o # r => L[o] = L2[o]
    BY <1>1
  <2> DEFINE top == {r, x, y} \ {x}
  <2>2. r \in D2 /\ x \in D2 /\ y \in D2 /\ y \in top
    OBVIOUS
  <2> HIDE DEF L1, L2, D2
  <2>3. /\ L[r] \in Seq(D2) /\ Len(L[r]) = 2 /\ L[r][2] = y /\ Len(L2[r]) = 1
        /\ L[r][1] = L2[r][1]
    BY <2>1, <2>2
  <2> DEFINE i == 2
  <2>4. i \in 1 .. Len(L2[r]) + 1 /\ Hung(L, L2, D2, r, i, y)
    <3>1. \A k \in 1 .. i - 1 : L[r][k] = L2[r][k]
      BY <2>3
    <3>2. \A k \in i .. Len(L2[r]) : L[r][k + 1] = L2[r][k]
      BY <2>3
    <3>3. QED
      BY <2>1, <2>3, <3>1, <3>2 DEF Hung, InsertedAt
  <2> HIDE DEF top, i
  <2>5. Hangs(L2, D2, top)
    BY <1>5 DEF top
  <2>6. Hangs(L, D2, top \ {y})
    BY <2>2, <2>4, <2>5, HungIs
  <2>7. QED
    BY <2>6 DEF top
<1>7. ({r, x, y} \ {x}) \ {y} = {r}
  OBVIOUS
<1>8. D2 = D \cup {x, y}
  OBVIOUS
<1>9. QED
  BY <1>6, <1>7, <1>8

-----------------------------------------------------------------------------
\* The entries N with values in S.
On(N, S) == [v \in Values |-> IF v \in S THEN N[v] ELSE None]

\* The entries of the values S only.
LEMMA OnIs ==
  ASSUME NEW N \in Counts, NEW S
  PROVE  /\ On(N, S) \in Counts
         /\ \A v \in Values : On(N, S)[v] = IF v \in S THEN N[v] ELSE None
         /\ Small(N) => Small(On(N, S))
<1>1. \A v \in Values : N[v] \in [RecIds -> Nat]
  BY DEF Counts
<1>2. On(N, S) \in Counts /\ \A v \in Values : On(N, S)[v] = IF v \in S THEN N[v] ELSE None
  BY <1>1, NoneIs DEF On, Counts
<1>3. MaxCopies \in Nat
  BY AMAssumption
<1>4. ASSUME Small(N) PROVE Small(On(N, S))
  BY <1>2, <1>3, <1>4, NoneIs DEF Small
<1>5. QED
  BY <1>2, <1>4

\* The same entries of S.
LEMMA OnSame ==
  ASSUME NEW N, NEW M, NEW S, \A v \in Values : v \in S => M[v] = N[v]
  PROVE  On(M, S) = On(N, S)
BY DEF On

\* One entry fewer.
LEMMA MinusIs ==
  ASSUME NEW N \in Counts, NEW v \in Values, NEW r \in RecIds
  PROVE  /\ \A w \in Values : w # v => Minus(N, v, r)[w] = N[w]
         /\ Minus(N, v, r)[v] = [N[v] EXCEPT ![r] = @ - 1]
         /\ DOMAIN Minus(N, v, r) = Values /\ Minus(N, v, r) = [w \in Values |-> Minus(N, v, r)[w]]
BY DEF Minus, Counts

\* One entry more, of v only.
LEMMA PlusAt ==
  ASSUME NEW N \in Counts, NEW v \in Values, NEW r \in RecIds
  PROVE  /\ \A w \in Values : w # v => Plus(N, v, r)[w] = N[w]
         /\ Plus(N, v, r)[v] = [N[v] EXCEPT ![r] = @ + 1]
         /\ DOMAIN Plus(N, v, r) = Values /\ Plus(N, v, r) = [w \in Values |-> Plus(N, v, r)[w]]
BY DEF Plus, Counts

\* An entry more of a value in S.
LEMMA OnPlus ==
  ASSUME NEW N \in Counts, NEW S, NEW v \in Values, v \in S, NEW r \in RecIds
  PROVE  On(Plus(N, v, r), S) = Plus(On(N, S), v, r)
<1> DEFINE A == On(Plus(N, v, r), S)
           M == On(N, S)
           B == Plus(M, v, r)
<1>1. M \in Counts /\ M[v] = N[v] /\ \A w \in Values : M[w] = IF w \in S THEN N[w] ELSE None
  BY OnIs
<1> HIDE DEF M
<1>2. /\ \A w \in Values : w # v => B[w] = M[w]
      /\ B[v] = [N[v] EXCEPT ![r] = @ + 1] /\ B = [w \in Values |-> B[w]]
  BY <1>1, PlusAt
<1>3. A = [w \in Values |-> IF w \in S THEN Plus(N, v, r)[w] ELSE None]
  BY DEF On
<1> HIDE DEF B, A
<1> DEFINE C == Plus(N, v, r)
<1>7. C[v] = [N[v] EXCEPT ![r] = @ + 1] /\ \A w \in Values : w # v => C[w] = N[w]
  BY PlusAt
<1>8. A = [w \in Values |-> IF w \in S THEN C[w] ELSE None]
  BY <1>3
<1> HIDE DEF C
<1>4. ASSUME NEW w \in Values PROVE A[w] = B[w]
  <2>1. A[w] = IF w \in S THEN C[w] ELSE None
    BY <1>8
  <2>2. CASE w = v
    BY <1>2, <1>7, <2>1, <2>2
  <2>3. CASE w # v
    BY <1>1, <1>2, <1>7, <2>1, <2>3
  <2>4. QED
    BY <2>2, <2>3
<1>5. A = B
  BY <1>2, <1>8, <1>4
<1>6. QED
  BY <1>5 DEF A, B, M

\* An entry fewer of a value in S.
LEMMA OnMinus ==
  ASSUME NEW N \in Counts, NEW S, NEW v \in Values, v \in S, NEW r \in RecIds
  PROVE  On(Minus(N, v, r), S) = Minus(On(N, S), v, r)
<1> DEFINE A == On(Minus(N, v, r), S)
           M == On(N, S)
           B == Minus(M, v, r)
<1>1. M \in Counts /\ M[v] = N[v] /\ \A w \in Values : M[w] = IF w \in S THEN N[w] ELSE None
  BY OnIs
<1> HIDE DEF M
<1>2. /\ \A w \in Values : w # v => B[w] = M[w]
      /\ B[v] = [N[v] EXCEPT ![r] = @ - 1] /\ B = [w \in Values |-> B[w]]
  BY <1>1, MinusIs
<1>3. A = [w \in Values |-> IF w \in S THEN Minus(N, v, r)[w] ELSE None]
  BY DEF On
<1> HIDE DEF B, A
<1> DEFINE C == Minus(N, v, r)
<1>7. C[v] = [N[v] EXCEPT ![r] = @ - 1] /\ \A w \in Values : w # v => C[w] = N[w]
  BY MinusIs
<1>8. A = [w \in Values |-> IF w \in S THEN C[w] ELSE None]
  BY <1>3
<1> HIDE DEF C
<1>4. ASSUME NEW w \in Values PROVE A[w] = B[w]
  <2>1. A[w] = IF w \in S THEN C[w] ELSE None
    BY <1>8
  <2>2. CASE w = v
    BY <1>2, <1>7, <2>1, <2>2
  <2>3. CASE w # v
    BY <1>1, <1>2, <1>7, <2>1, <2>3
  <2>4. QED
    BY <2>2, <2>3
<1>5. A = B
  BY <1>2, <1>8, <1>4
<1>6. QED
  BY <1>5 DEF A, B, M

\* The entries of S below a key and from it on.
LEMMA OnHalves ==
  ASSUME NEW N \in Counts, NEW S, NEW key
  PROVE  /\ Low(On(N, S), key) = On(N, {v \in S : v < key})
         /\ High(On(N, S), key) = On(N, {v \in S : ~ (v < key)})
BY DEF Low, High, On, None

\* Under every key of a leaf there is an entry.
LEMMA HeldKey ==
  ASSUME NEW l, NEW N, LeafOK(l, N), NEW i \in 1 .. l.numKeys
  PROVE  \E r \in RecIds : N[l.key[i].val][r] # 0
<1>1. PICK Q, c : Woven(l, Q, c) /\ HoldsBut(l, Q, N, 0)
  BY DEF LeafOK
<1>2. l.numKeys \in Nat /\ i \in 0 .. l.numKeys /\ i # 0 /\ l.cell \in [Cells(c) -> CellRec]
  BY <1>1 DEF Woven
<1>3. Q[i] \in Seq(Cells(c)) /\ IsInjective(Q[i])
  BY <1>1, <1>2, WovenIs
<1>4. Q[i] # <<>> /\ \A r \in RecIds : Cardinality(Fibre(l, Q, i, r)) = N[l.key[i].val][r]
  BY <1>1, <1>2 DEF HoldsBut
<1>5. Range(Q[i]) # {} /\ IsFiniteSet(Range(Q[i])) /\ \A o \in Range(Q[i]) : o \in Cells(c)
  BY <1>3, <1>4, InRange, RangeCount
<1>6. PICK o : o \in Range(Q[i])
  BY <1>5
<1>7. l.cell[o].recId \in RecIds
  BY <1>2, <1>5, <1>6 DEF CellRec
<1> DEFINE r == l.cell[o].recId
           X == Fibre(l, Q, i, r)
<1>8. o \in X /\ X \subseteq Range(Q[i])
  BY <1>6 DEF Fibre
<1> HIDE DEF X
<1>9. IsFiniteSet(X) /\ X # {}
  BY <1>5, <1>8, FS_Subset
<1>10. Cardinality(X) # 0
  BY <1>9, FS_EmptySet
<1>11. QED
  BY <1>4, <1>7, <1>10 DEF X

\* Chaining a leaf changes nothing else of it.
LEMMA NextLeafIs ==
  ASSUME NEW l, NEW N, LeafOK(l, N), NEW x
  PROVE  LET k == [l EXCEPT !.nextLeafPage = x]
         IN  LeafOK(k, N) /\ k.nextLeafPage = x /\ k.numKeys = l.numKeys /\ k.key = l.key /\ k.type = "l"
<1> DEFINE k == [l EXCEPT !.nextLeafPage = x]
<1>1. PICK Q, c : Woven(l, Q, c) /\ HoldsBut(l, Q, N, 0) /\ Spare(l)
  BY DEF LeafOK
<1>2. l = LeafOf(l.nextLeafPage, l.recIdPtr, l.keyPtr, l.freeListPtr, l.numinfreeList, l.numKeys, l.key, l.cell)
  BY <1>1 DEF Woven, IsLeafRec
<1>3. k = LeafOf(x, l.recIdPtr, l.keyPtr, l.freeListPtr, l.numinfreeList, l.numKeys, l.key, l.cell)
  <2> DEFINE x1 == l.nextLeafPage
             x2 == l.recIdPtr
             x3 == l.keyPtr
             x4 == l.freeListPtr
             x5 == l.numinfreeList
             x6 == l.numKeys
             x7 == l.key
             x8 == l.cell
  <2>1. l = LeafOf(x1, x2, x3, x4, x5, x6, x7, x8)
    BY <1>2
  <2> HIDE DEF x1, x2, x3, x4, x5, x6, x7, x8
  <2>2. k = LeafOf(x, x2, x3, x4, x5, x6, x7, x8)
    BY <2>1 DEF LeafOf
  <2>3. QED
    BY <2>2 DEF x2, x3, x4, x5, x6, x7, x8
<1> HIDE DEF k
<1>4. /\ IsLeafRec(k) /\ k.type = "l" /\ k.nextLeafPage = x /\ k.recIdPtr = l.recIdPtr
      /\ k.keyPtr = l.keyPtr /\ k.freeListPtr = l.freeListPtr /\ k.numinfreeList = l.numinfreeList
      /\ k.numKeys = l.numKeys /\ k.key = l.key /\ k.cell = l.cell
  BY <1>3, LeafFields
<1>5. Woven(k, Q, c)
  BY <1>1, <1>4 DEF Woven
<1>6. HoldsBut(k, Q, N, 0)
  BY <1>1, <1>4 DEF HoldsBut, Fibre
<1>7. QED
  BY <1>1, <1>4, <1>5, <1>6 DEF LeafOK, Spare, k

Zeros == [v \in Values |-> [r \in RecIds |-> 0]]

\* The leaf of a new index holds nothing.
LEMMA EmptyLeafIs == Values # {} => LeafOK(EmptyLeaf, Zeros)
<1> SUFFICES ASSUME Values # {} PROVE LeafOK(EmptyLeaf, Zeros)
  OBVIOUS
<1> DEFINE Q == [i \in 0 .. 0 |-> <<>>]
           key == <<>>
           cell == <<>>
           l == LeafOf(AM_NULL_PAGE, PAGE_SIZE, AM_sl, AM_NULL, 0, 0, key, cell)
<1>1. EmptyLeaf = l
  BY DEF EmptyLeaf, LeafOf
<1>2. PICK v \in Values : TRUE
  OBVIOUS
<1>3. PAGE_SIZE > AM_sl + recSize + CELL
  BY LeafAssumption
<1>4. AM_sl + recSize < PAGE_SIZE
  BY <1>3, NumbersAre
<1>5. Cells(0) = {}
  BY DEF Cells
<1>6. key \in Seq(KeySlot) /\ Len(key) = 0 /\ cell \in [Cells(0) -> CellRec] /\ cell = [o \in {} |-> 0]
  BY <1>5
<1> HIDE DEF l, key, cell
<1>7. /\ IsLeafRec(l) /\ l.nextLeafPage = AM_NULL_PAGE /\ l.recIdPtr = PAGE_SIZE /\ l.keyPtr = AM_sl
      /\ l.freeListPtr = AM_NULL /\ l.numinfreeList = 0 /\ l.numKeys = 0 /\ l.key = key /\ l.cell = cell
  BY LeafFields DEF l
<1>8. Links(Q, Heads(0, AM_NULL, key), Nexts(cell), 0, Cells(0))
  <2>1. Q[0] = <<>> /\ DOMAIN Q = {0} /\ Q \in [0 .. 0 -> Seq({})] /\ \A i \in 0 .. 0 : i = 0
    OBVIOUS
  <2>2. Heads(0, AM_NULL, key)[0] = AM_NULL
    BY DEF Heads
  <2>3. IsInjective(<<>>) /\ Range(<<>>) = {}
    BY DEF IsInjective, Range
  <2>4. Nth(<<>>, 1) = AM_NULL /\ Len(<<>>) = 0
    BY DEF Nth
  <2>5. \A i \in 1 .. 0 : FALSE
    OBVIOUS
  <2> HIDE DEF Q
  <2>6. QED
    BY <1>5, <2>1, <2>2, <2>3, <2>4, <2>5 DEF Links
<1>9. Woven(l, Q, 0)
  <2>1. PAGE_SIZE = PAGE_SIZE - CELL * 0 /\ AM_sl = AM_sl + 0 * recSize /\ AM_sl <= PAGE_SIZE
    BY <1>4, NumbersAre
  <2>2. Len(Q[0]) = 0
    OBVIOUS
  <2> HIDE DEF Q
  <2>3. QED
    BY <1>6, <1>7, <1>8, <2>1, <2>2 DEF Woven
<1>10. HoldsBut(l, Q, Zeros, 0)
  <2>1. \A i \in 1 .. l.numKeys : FALSE
    BY <1>7
  <2>2. QED
    BY <2>1 DEF HoldsBut, Zeros
<1>11. QED
  BY <1>1, <1>4, <1>7, <1>9, <1>10 DEF LeafOK, Spare

-----------------------------------------------------------------------------
(* A tree. *)

Kids(node) == IF node.type = "l" THEN <<>> ELSE node.ptr
Region(S, key, i) == {v \in S : InSlot(key, i, v)}
\* An internal node for the values S: those of place i go to the page ptr[i], of the
\* values F[ptr[i]] and nearer to the leaves.
IntOK(n, S, h, F, rk, D) ==
  /\ n = Node(n.key, n.ptr)
  /\ n.key \in Seq(Values) /\ n.ptr \in Seq(D) /\ Len(n.ptr) = Len(n.key) + 1 /\ Len(n.key) >= 1
  /\ Ordered(n.key) /\ \A i \in 1 .. Len(n.key) : n.key[i] \in S
  /\ \A i \in 1 .. Len(n.ptr) : F[n.ptr[i]] = Region(S, n.key, i) /\ rk[n.ptr[i]] < h
PageOK(node, S, h, F, rk, N, D, most) ==
  \/ /\ node.type = "l" /\ LeafOK(node, On(N, S))
     /\ node.nextLeafPage \in {AM_NULL_PAGE} \cup D
  \/ node.type = "i" /\ IntOK(node, S, h, F, rk, D) /\ Len(node.key) <= most
Apart(pg, E, D) ==
  \A p, q \in D : p # q /\ pg[p].type = "l" /\ pg[q].type = "l" => E[p] \cap E[q] = {}
KidsOf(pg, D) == [p \in D |-> Kids(pg[p])]
\* The pages 0 to m - 1 are a tree that holds N.  E[p] are the values of page p and F[p]
\* those for which the page above p goes down to it; the page x may have a key too many,
\* and the page new is not hung into the tree.
Tree(pg, m, E, F, rk, N, x, new) ==
  /\ m \in Nat \ {0} /\ pg = [p \in 0 .. m - 1 |-> pg[p]]
  /\ E \in [0 .. m - 1 -> SUBSET Values] /\ F \in [0 .. m - 1 -> SUBSET Values]
  /\ rk \in [0 .. m - 1 -> Nat] /\ E[0] = Values
  /\ \A p \in 0 .. m - 1 :
       PageOK(pg[p], E[p], rk[p], F, rk, N, 0 .. m - 1, IF p = x THEN MaxKeys + 1 ELSE MaxKeys)
  /\ Apart(pg, E, 0 .. m - 1)
  /\ Hangs(KidsOf(pg, 0 .. m - 1), 0 .. m - 1, {0, new})

\* A page stays good when what it needs of the pages below is kept.
LEMMA PageKeeps ==
  ASSUME NEW node, NEW S \in SUBSET Values, NEW h, NEW F, NEW rk, NEW N, NEW D, NEW most \in Int,
         PageOK(node, S, h, F, rk, N, D, most),
         NEW G, NEW rg, NEW M, NEW D2, NEW more \in Int, D \subseteq D2, most <= more,
         \A i \in 1 .. Len(Kids(node)) : G[Kids(node)[i]] = F[Kids(node)[i]] /\ rg[Kids(node)[i]] = rk[Kids(node)[i]],
         node.type = "l" => \A v \in Values : v \in S => M[v] = N[v]
  PROVE  PageOK(node, S, h, G, rg, M, D2, more)
<1>1. CASE node.type = "l"
  <2>1. LeafOK(node, On(N, S)) /\ node.nextLeafPage \in {AM_NULL_PAGE} \cup D
    BY <1>1 DEF PageOK
  <2>2. On(M, S) = On(N, S)
    BY <1>1, OnSame
  <2>3. QED
    BY <1>1, <2>1, <2>2 DEF PageOK
<1>2. CASE node.type = "i"
  <2>1. IntOK(node, S, h, F, rk, D) /\ Len(node.key) <= most
    BY <1>2 DEF PageOK
  <2>2. Kids(node) = node.ptr
    BY <1>2 DEF Kids
  <2>3. node.ptr \in Seq(D2)
    BY <2>1, SeqMonotonic DEF IntOK
  <2>4. \A i \in 1 .. Len(node.ptr) : G[node.ptr[i]] = Region(S, node.key, i) /\ rg[node.ptr[i]] < h
    BY <2>1, <2>2 DEF IntOK
  <2>5. IntOK(node, S, h, G, rg, D2)
    BY <2>1, <2>3, <2>4 DEF IntOK
  <2>6. Len(node.key) \in Nat
    BY <2>1, LenProperties DEF IntOK
  <2>7. Len(node.key) <= more
    BY <2>1, <2>6
  <2>8. QED
    BY <1>2, <2>5, <2>7 DEF PageOK
<1>3. QED
  BY <1>1, <1>2 DEF PageOK

\* What a leaf of a tree holds.
LEMMA TreeLeaf ==
  ASSUME NEW pg, NEW m, NEW E, NEW F, NEW rk, NEW N, NEW x, NEW new, Tree(pg, m, E, F, rk, N, x, new),
         NEW p \in 0 .. m - 1, pg[p].type = "l"
  PROVE  LeafOK(pg[p], On(N, E[p])) /\ pg[p].nextLeafPage \in {AM_NULL_PAGE} \cup 0 .. m - 1
BY DEF Tree, PageOK

\* What is known of an internal node of a tree.
LEMMA TreeInt ==
  ASSUME NEW pg, NEW m, NEW E, NEW F, NEW rk, NEW N, NEW x, NEW new, Tree(pg, m, E, F, rk, N, x, new),
         NEW p \in 0 .. m - 1, pg[p].type # "l"
  PROVE  /\ pg[p].type = "i" /\ IntOK(pg[p], E[p], rk[p], F, rk, 0 .. m - 1)
         /\ Len(pg[p].key) <= IF p = x THEN MaxKeys + 1 ELSE MaxKeys
BY DEF Tree, PageOK

\* The leaf p has changed, and what is held of its values only.
LEMMA LeafReplaced ==
  ASSUME NEW pg, NEW m, NEW E, NEW rk, NEW N, Tree(pg, m, E, E, rk, N, -1, 0),
         NEW p \in 0 .. m - 1, pg[p].type = "l", NEW l, l.type = "l", l.nextLeafPage = pg[p].nextLeafPage,
         NEW M, LeafOK(l, On(M, E[p])), \A v \in Values : v \notin E[p] => M[v] = N[v]
  PROVE  Tree([pg EXCEPT ![p] = l], m, E, E, rk, M, -1, 0)
<1> DEFINE pg2 == [pg EXCEPT ![p] = l]
           D == 0 .. m - 1
<1>1. /\ m \in Nat \ {0} /\ pg = [o \in D |-> pg[o]] /\ E \in [D -> SUBSET Values] /\ rk \in [D -> Nat]
      /\ E[0] = Values /\ Apart(pg, E, D) /\ Hangs(KidsOf(pg, D), D, {0, 0})
      /\ \A o \in D : PageOK(pg[o], E[o], rk[o], E, rk, N, D, IF o = -1 THEN MaxKeys + 1 ELSE MaxKeys)
  BY DEF Tree
<1>2. pg2 = [o \in D |-> pg2[o]] /\ pg2[p] = l /\ \A o \in D : o # p => pg2[o] = pg[o]
  BY <1>1
<1> HIDE DEF pg2
<1>3. \A o \in D : pg2[o].type = pg[o].type
  BY <1>2
<1>4. Apart(pg2, E, D)
  BY <1>1, <1>3 DEF Apart
<1>5. KidsOf(pg2, D) = KidsOf(pg, D)
  BY <1>2, <1>3 DEF KidsOf, Kids
<1>6. MaxKeys \in Int
  BY AMAssumption
<1>7. ASSUME NEW o \in D PROVE PageOK(pg2[o], E[o], rk[o], E, rk, M, D, IF o = -1 THEN MaxKeys + 1 ELSE MaxKeys)
  <2>1. CASE o = p
    <3>1. pg[p].nextLeafPage \in {AM_NULL_PAGE} \cup D
      BY TreeLeaf
    <3>2. QED
      BY <1>2, <2>1, <3>1 DEF PageOK
  <2>2. CASE o # p
    <3>1. o # -1
      BY <1>1
    <3>2. PageOK(pg[o], E[o], rk[o], E, rk, N, D, MaxKeys)
      BY <1>1, <3>1
    <3>3. pg[o].type = "l" => E[o] \cap E[p] = {}
      BY <1>1, <2>2 DEF Apart
    <3>4. pg[o].type = "l" => \A v \in Values : v \in E[o] => M[v] = N[v]
      BY <3>3
    <3>5. E[o] \in SUBSET Values
      BY <1>1
    <3> DEFINE S == E[o]
               h == rk[o]
               node == pg[o]
    <3> HIDE DEF S, h, node, D
    <3>6. PageOK(node, S, h, E, rk, N, D, MaxKeys) /\ S \in SUBSET Values
      BY <3>2, <3>5 DEF S, h, node
    <3>7. node.type = "l" => \A v \in Values : v \in S => M[v] = N[v]
      BY <3>4 DEF S, node
    <3>8. PageOK(node, S, h, E, rk, M, D, MaxKeys)
      BY <1>6, <3>6, <3>7, PageKeeps
    <3>9. QED
      BY <1>2, <2>2, <3>1, <3>8 DEF S, h, node
  <2>3. QED
    BY <2>1, <2>2
<1>8. QED
  BY <1>1, <1>2, <1>4, <1>5, <1>7 DEF Tree, pg2

-----------------------------------------------------------------------------
(* A node with one more key. *)

\* Keys are integers.
LEMMA KeyInts ==
  ASSUME NEW K \in Seq(Values)
  PROVE  Len(K) \in Nat /\ \A k \in 1 .. Len(K) : K[k] \in Values /\ K[k] \in Int
<1>1. Len(K) \in Nat
  BY LenProperties
<1>2. ASSUME NEW k \in 1 .. Len(K) PROVE K[k] \in Values /\ K[k] \in Int
  <2>1. K[k] \in Values
    BY ElementOfSeq
  <2>2. QED
    BY <2>1, ValuesInt
<1>3. QED
  BY <1>1, <1>2

\* The page q was cut at key, and its second half new is not hung into the tree yet.
Cleft(E, F, rk, q, new, key) ==
  /\ E[q] = {v \in F[q] : v < key} /\ E[new] = {v \in F[q] : ~ (v < key)}
  /\ key \in F[q] /\ \E v \in F[q] : v < key
  /\ rk[new] = rk[q]
Pending(E, F, rk, q, new, key, m) ==
  /\ q \in 0 .. m - 1 /\ new \in 0 .. m - 1 /\ q # 0 /\ new # 0 /\ new # q
  /\ \A o \in 0 .. m - 1 : o # q /\ o # new => F[o] = E[o]
  /\ Cleft(E, F, rk, q, new, key)

\* One more key, between the keys on either side of its place.
Wedged(L, K, i, key) ==
  /\ InsertedAt(L, K, Values, i, key)
  /\ \A k \in 1 .. i - 1 : K[k] < key
  /\ \A k \in i .. Len(K) : key < K[k]

\* A key wedged in between others keeps them ascending.
LEMMA WedgedOrder ==
  ASSUME NEW K \in Seq(Values), Ordered(K), NEW i \in 1 .. Len(K) + 1, NEW key \in Values,
         NEW L, Wedged(L, K, i, key)
  PROVE  Ordered(L)
<1> DEFINE n == Len(K)
<1>1. n \in Nat /\ i \in Nat /\ i <= n + 1 /\ \A k \in 1 .. n : K[k] \in Int
  <2>1. n \in Nat /\ \A k \in 1 .. n : K[k] \in Int
    BY KeyInts
  <2>2. i \in Nat /\ 1 <= i /\ i <= n + 1
    BY <2>1
  <2>3. key \in Int
    BY ValuesInt
  <2>4. QED
    BY <2>1, <2>2, <2>3
<1>2. /\ Len(L) = n + 1 /\ L[i] = key /\ \A k \in 1 .. i - 1 : L[k] = K[k]
      /\ \A k \in i .. n : L[k + 1] = K[k]
      /\ \A k \in 1 .. i - 1 : K[k] < key
      /\ \A k \in i .. n : key < K[k]
  BY DEF Wedged, InsertedAt
<1>3. \A a, b \in 1 .. n : a < b => K[a] < K[b]
  BY DEF Ordered
<1> HIDE DEF n
<1>4. ASSUME NEW a \in 1 .. n + 1, NEW b \in 1 .. n + 1, a < b PROVE L[a] < L[b]
  <2>1. CASE b < i
    <3>1. a \in 1 .. i - 1 /\ b \in 1 .. i - 1 /\ a \in 1 .. n /\ b \in 1 .. n
      BY <1>1, <1>4, <2>1
    <3>2. QED
      BY <1>2, <1>3, <1>4, <3>1
  <2>2. CASE b = i
    <3>1. a \in 1 .. i - 1
      BY <1>1, <1>4, <2>2
    <3>2. QED
      BY <1>2, <2>2, <3>1
  <2>3. CASE b > i /\ a < i
    <3>1. a \in 1 .. i - 1 /\ b - 1 \in i .. n /\ b - 1 + 1 = b /\ a \in 1 .. n /\ b - 1 \in 1 .. n /\ a < b - 1
      BY <1>1, <2>3
    <3>2. L[b] = K[b - 1] /\ L[a] = K[a]
      BY <1>2, <3>1
    <3>3. QED
      BY <1>3, <3>1, <3>2
  <2>4. CASE b > i /\ a = i
    <3>1. b - 1 \in i .. n /\ b - 1 + 1 = b
      BY <1>1, <2>4
    <3>2. L[b] = K[b - 1] /\ L[a] = key /\ key < K[b - 1]
      BY <1>2, <2>4, <3>1
    <3>3. QED
      BY <3>2
  <2>5. CASE b > i /\ a > i
    <3>1. /\ b - 1 \in i .. n /\ b - 1 + 1 = b /\ a - 1 \in i .. n /\ a - 1 + 1 = a
          /\ a - 1 < b - 1 /\ a - 1 \in 1 .. n /\ b - 1 \in 1 .. n
      BY <1>1, <1>4, <2>5
    <3>2. L[b] = K[b - 1] /\ L[a] = K[a - 1]
      BY <1>2, <3>1
    <3>3. QED
      BY <1>3, <3>1, <3>2
  <2>6. QED
    BY <1>1, <1>4, <2>1, <2>2, <2>3, <2>4, <2>5
<1>5. QED
  BY <1>2, <1>4 DEF Ordered

\* The place of a value after a key was wedged in.
LEMMA WedgedSlots ==
  ASSUME NEW K \in Seq(Values), NEW i \in 1 .. Len(K) + 1, NEW key \in Values,
         NEW L, Wedged(L, K, i, key), NEW v \in Int
  PROVE  /\ \A j \in 1 .. i - 1 : InSlot(L, j, v) <=> InSlot(K, j, v)
         /\ InSlot(L, i, v) <=> InSlot(K, i, v) /\ v < key
         /\ InSlot(L, i + 1, v) <=> InSlot(K, i, v) /\ ~ (v < key)
         /\ \A j \in i + 1 .. Len(K) + 1 : InSlot(L, j + 1, v) <=> InSlot(K, j, v)
<1> DEFINE n == Len(K)
<1>1. n \in Nat /\ i \in Nat /\ (\A k \in 1 .. n : K[k] \in Int) /\ key \in Int /\ 1 <= i /\ i <= n + 1
  <2>1. n \in Nat /\ \A k \in 1 .. n : K[k] \in Int
    BY KeyInts
  <2>2. i \in Nat /\ 1 <= i /\ i <= n + 1
    BY <2>1
  <2>3. key \in Int
    BY ValuesInt
  <2>4. QED
    BY <2>1, <2>2, <2>3
<1>2. /\ Len(L) = n + 1 /\ L[i] = key /\ \A k \in 1 .. i - 1 : L[k] = K[k]
      /\ \A k \in i .. n : L[k + 1] = K[k]
      /\ \A k \in 1 .. i - 1 : K[k] < key
      /\ \A k \in i .. n : key < K[k]
  BY DEF Wedged, InsertedAt
<1> HIDE DEF n
<1>3. ASSUME NEW j \in 1 .. i - 1 PROVE InSlot(L, j, v) <=> InSlot(K, j, v)
  <2>1. j <= n /\ j <= n + 1 /\ j \in Int
    BY <1>1
  <2>2. L[j] = K[j] /\ (j > 1 => L[j - 1] = K[j - 1])
    BY <1>1, <1>2
  <2>3. QED
    BY <1>2, <2>1, <2>2 DEF InSlot, n
<1>4. InSlot(L, i, v) <=> InSlot(K, i, v) /\ v < key
  <2>1. i > 1 => L[i - 1] = K[i - 1]
    BY <1>1, <1>2
  <2>2. i <= Len(L) /\ L[i] = key
    BY <1>1, <1>2
  <2>3. v < key => (i <= n => v < K[i])
    BY <1>1, <1>2
  <2>4. QED
    BY <2>1, <2>2, <2>3 DEF InSlot, n
<1>5. InSlot(L, i + 1, v) <=> InSlot(K, i, v) /\ ~ (v < key)
  <2>1. i + 1 > 1 /\ L[i + 1 - 1] = key
    BY <1>1, <1>2
  <2>2. i + 1 <= Len(L) <=> i <= n
    BY <1>1, <1>2
  <2>3. i <= n => L[i + 1] = K[i]
    BY <1>1, <1>2
  <2>4. ~ (v < key) <=> key <= v
    BY <1>1
  <2>5. key <= v => (i > 1 => K[i - 1] <= v)
    <3>1. i > 1 => K[i - 1] < key /\ K[i - 1] \in Int
      BY <1>1, <1>2
    <3>2. QED
      BY <1>1, <3>1
  <2>6. QED
    BY <2>1, <2>2, <2>3, <2>4, <2>5 DEF InSlot, n
<1>6. ASSUME NEW j \in i + 1 .. n + 1 PROVE InSlot(L, j + 1, v) <=> InSlot(K, j, v)
  <2>1. j > 1 /\ j + 1 > 1 /\ j \in Int
    BY <1>1
  <2>2. L[j + 1 - 1] = K[j - 1]
    <3>1. j - 1 \in i .. n /\ j - 1 + 1 = j /\ j + 1 - 1 = j
      BY <1>1
    <3>2. QED
      BY <1>2, <3>1
  <2>3. j + 1 <= Len(L) <=> j <= n
    BY <1>1, <1>2
  <2>4. j <= n => L[j + 1] = K[j]
    BY <1>1, <1>2
  <2>5. QED
    BY <2>1, <2>2, <2>3, <2>4 DEF InSlot, n
<1>7. QED
  BY <1>3, <1>4, <1>5, <1>6 DEF n

OthersSame(E, F, n, i) == \A j \in 1 .. Len(n.ptr) : j # i => E[n.ptr[j]] = F[n.ptr[j]]

\* The node with the key of a cut page and its second half.
LEMMA AddedNode ==
  ASSUME NEW n, NEW S \in SUBSET Values, NEW h, NEW F, NEW rk, NEW D, IntOK(n, S, h, F, rk, D),
         NEW i \in 1 .. Len(n.ptr), NEW q, n.ptr[i] = q, NEW new \in D, NEW key,
         NEW E, OthersSame(E, F, n, i), Cleft(E, F, rk, q, new, key),
         NEW K2, InsertedAt(K2, n.key, Values, i, key), NEW T2, InsertedAt(T2, n.ptr, D, i + 1, new)
  PROVE  IntOK(Node(K2, T2), S, h, E, rk, D)
<1> DEFINE K == n.key
           T == n.ptr
           m == Len(K)
           n2 == Node(K2, T2)
<1>1. /\ K \in Seq(Values) /\ T \in Seq(D) /\ Len(T) = m + 1 /\ m >= 1 /\ Ordered(K)
      /\ \A k \in 1 .. m : K[k] \in S
      /\ \A j \in 1 .. m + 1 : F[T[j]] = Region(S, K, j) /\ rk[T[j]] < h
  BY DEF IntOK
<1>2. m \in Nat /\ i \in 1 .. m + 1 /\ (\A k \in 1 .. m : K[k] \in Int) /\ i \in Nat
  <2>1. m \in Nat /\ \A k \in 1 .. m : K[k] \in Int
    BY <1>1, KeyInts
  <2>2. i \in 1 .. m + 1
    BY <1>1
  <2>3. QED
    BY <2>1, <2>2
<1>20. /\ key \in F[q] /\ (\E v \in F[q] : v < key) /\ rk[new] = rk[q]
       /\ E[q] = {v \in F[q] : v < key} /\ E[new] = {v \in F[q] : ~ (v < key)}
  BY DEF Cleft
<1>3. key \in S /\ InSlot(K, i, key) /\ key \in Int /\ key \in Values
  <2>1. F[q] = Region(S, K, i)
    BY <1>1, <1>2
  <2>2. QED
    BY <1>20, <2>1, ValuesInt DEF Region
<1>4. PICK w \in F[q] : w < key
  BY <1>20
<1>5. w \in S /\ InSlot(K, i, w) /\ w \in Int
  <2>1. F[q] = Region(S, K, i)
    BY <1>1, <1>2
  <2>2. QED
    BY <1>4, <2>1, ValuesInt DEF Region
<1>6. n2.key = K2 /\ n2.ptr = T2 /\ n2 = Node(n2.key, n2.ptr)
  BY DEF Node
<1> HIDE DEF m, n2, K, T
<1>7. \A k \in 1 .. i - 1 : K[k] < key
  <2>1. ASSUME NEW k \in 1 .. i - 1 PROVE K[k] < key
    <3>1. i > 1 /\ i - 1 \in 1 .. m /\ k \in 1 .. m
      BY <1>2
    <3>2. K[i - 1] <= w
      BY <1>5, <3>1 DEF InSlot
    <3>3. K[k] <= K[i - 1]
      <4>1. CASE k = i - 1
        BY <1>2, <3>1, <4>1
      <4>2. CASE k # i - 1
        <5>1. k < i - 1
          BY <1>2, <4>2
        <5>2. K[k] < K[i - 1]
          BY <1>1, <3>1, <5>1 DEF Ordered, m
        <5>3. QED
          BY <1>2, <3>1, <5>2
      <4>3. QED
        BY <4>1, <4>2
    <3>4. K[k] \in Int /\ K[i - 1] \in Int
      BY <1>2, <3>1
    <3>5. QED
      BY <1>3, <1>4, <1>5, <3>2, <3>3, <3>4
  <2>2. QED
    BY <2>1
<1>8. \A k \in i .. m : key < K[k]
  <2>1. ASSUME NEW k \in i .. m PROVE key < K[k]
    <3>1. i <= m /\ i \in 1 .. m /\ k \in 1 .. m
      BY <1>2
    <3>2. key < K[i]
      BY <1>3, <3>1 DEF InSlot, m
    <3>3. K[i] <= K[k]
      <4>1. CASE k = i
        BY <1>2, <3>1, <4>1
      <4>2. CASE k # i
        <5>1. i < k
          BY <1>2, <4>2
        <5>2. K[i] < K[k]
          BY <1>1, <3>1, <5>1 DEF Ordered, m
        <5>3. QED
          BY <1>2, <3>1, <5>2
      <4>3. QED
        BY <4>1, <4>2
    <3>4. K[k] \in Int /\ K[i] \in Int
      BY <1>2, <3>1
    <3>5. QED
      BY <1>3, <3>2, <3>3, <3>4
  <2>2. QED
    BY <2>1
<1>9. Wedged(K2, K, i, key)
  BY <1>7, <1>8 DEF Wedged, m, K
<1>10. /\ K2 \in Seq(Values) /\ Len(K2) = m + 1 /\ K2[i] = key
       /\ \A k \in 1 .. i - 1 : K2[k] = K[k]
       /\ \A k \in i .. m : K2[k + 1] = K[k]
  BY DEF InsertedAt, m, K
<1>11. /\ T2 \in Seq(D) /\ Len(T2) = m + 2 /\ T2[i + 1] = new
       /\ \A k \in 1 .. i : T2[k] = T[k]
       /\ \A k \in i + 1 .. m + 1 : T2[k + 1] = T[k]
  <2>1. i + 1 - 1 = i /\ Len(T) + 1 = m + 2
    BY <1>1, <1>2
  <2>2. QED
    BY <1>1, <2>1 DEF InsertedAt, T
<1>12. Ordered(K2)
  BY <1>1, <1>2, <1>3, <1>9, WedgedOrder DEF m
<1>13. \A k \in 1 .. m + 1 : K2[k] \in S
  <2>1. ASSUME NEW k \in 1 .. m + 1 PROVE K2[k] \in S
    <3>1. CASE k < i
      <4>1. k \in 1 .. i - 1 /\ k \in 1 .. m
        BY <1>2, <3>1
      <4>2. QED
        BY <1>1, <1>10, <4>1
    <3>2. CASE k = i
      BY <1>3, <1>10, <3>2
    <3>3. CASE k > i
      <4>1. k - 1 \in i .. m /\ k - 1 + 1 = k /\ k - 1 \in 1 .. m
        BY <1>2, <3>3
      <4>2. QED
        BY <1>1, <1>10, <4>1
    <3>4. QED
      BY <1>2, <3>1, <3>2, <3>3
  <2>2. QED
    BY <2>1
<1>14. S \subseteq Int
  BY ValuesInt
<1>15. ASSUME NEW v \in S
       PROVE  /\ \A j \in 1 .. i - 1 : InSlot(K2, j, v) <=> InSlot(K, j, v)
              /\ InSlot(K2, i, v) <=> InSlot(K, i, v) /\ v < key
              /\ InSlot(K2, i + 1, v) <=> InSlot(K, i, v) /\ ~ (v < key)
              /\ \A j \in i + 1 .. m + 1 : InSlot(K2, j + 1, v) <=> InSlot(K, j, v)
  <2>1. v \in Int
    BY <1>14
  <2>2. QED
    BY <1>1, <1>2, <1>3, <1>9, <2>1, WedgedSlots DEF m
<1>16. /\ \A j \in 1 .. m + 1 : j # i => E[T[j]] = F[T[j]]
       /\ T[i] = q
  BY <1>1, <1>2 DEF T, OthersSame
<1>17. ASSUME NEW j \in 1 .. m + 2 PROVE E[T2[j]] = Region(S, K2, j) /\ rk[T2[j]] < h
  <2>1. CASE j < i
    <3>1. j \in 1 .. i - 1 /\ j \in 1 .. i /\ j \in 1 .. m + 1 /\ j # i
      BY <1>2, <2>1
    <3>2. E[T2[j]] = Region(S, K, j) /\ rk[T2[j]] < h
      BY <1>1, <1>11, <1>16, <3>1
    <3>3. Region(S, K2, j) = Region(S, K, j)
      BY <1>15, <3>1 DEF Region
    <3>4. QED
      BY <3>2, <3>3
  <2>2. CASE j = i
    <3>1. T2[j] = q /\ F[q] = Region(S, K, i) /\ rk[q] < h
      BY <1>1, <1>2, <1>11, <1>16, <2>2
    <3>2. Region(S, K2, i) = {v \in Region(S, K, i) : v < key}
      BY <1>15 DEF Region
    <3>3. QED
      BY <1>20, <2>2, <3>1, <3>2
  <2>3. CASE j = i + 1
    <3>1. T2[j] = new /\ F[q] = Region(S, K, i) /\ rk[new] < h
      BY <1>1, <1>2, <1>11, <1>16, <1>20, <2>3
    <3>2. Region(S, K2, i + 1) = {v \in Region(S, K, i) : ~ (v < key)}
      BY <1>15 DEF Region
    <3>3. QED
      BY <1>20, <2>3, <3>1, <3>2
  <2>4. CASE j > i + 1
    <3> DEFINE g == j - 1
    <3>1. g \in i + 1 .. m + 1 /\ g + 1 = j /\ g \in 1 .. m + 1 /\ g # i
      BY <1>2, <2>4
    <3> HIDE DEF g
    <3>2. T2[g + 1] = T[g] /\ E[T[g]] = F[T[g]] /\ F[T[g]] = Region(S, K, g) /\ rk[T[g]] < h
      BY <1>1, <1>11, <1>16, <3>1
    <3>3. Region(S, K2, g + 1) = Region(S, K, g)
      BY <1>15, <3>1 DEF Region
    <3>4. QED
      BY <3>1, <3>2, <3>3
  <2>5. QED
    BY <1>2, <2>1, <2>2, <2>3, <2>4
<1>18. Len(K2) >= 1 /\ Len(T2) = Len(K2) + 1
  BY <1>2, <1>10, <1>11
<1>19. QED
  BY <1>6, <1>10, <1>11, <1>12, <1>13, <1>17, <1>18 DEF IntOK, n2

\* The pages below a page are other pages, each below one place only.
KidFacts(pg, m, new, p) ==
  /\ Kids(pg[p]) \in Seq(0 .. m - 1)
  /\ \A i \in 1 .. Len(Kids(pg[p])) :
       /\ Kids(pg[p])[i] \in 0 .. m - 1 /\ Kids(pg[p])[i] # 0 /\ Kids(pg[p])[i] # new
       /\ \A o \in 0 .. m - 1 : \A j \in 1 .. Len(Kids(pg[o])) :
            Kids(pg[p])[i] = Kids(pg[o])[j] => p = o /\ i = j

\* The pages below a page are of the tree.
LEMMA TreeKids ==
  ASSUME NEW pg, NEW m, NEW E, NEW F, NEW rk, NEW N, NEW x, NEW new, Tree(pg, m, E, F, rk, N, x, new),
         NEW p \in 0 .. m - 1
  PROVE  KidFacts(pg, m, new, p)
<1> DEFINE D == 0 .. m - 1
           K == KidsOf(pg, D)
<1>1. Hangs(K, D, {0, new})
  BY DEF Tree
<1>2. \A o \in D : K[o] = Kids(pg[o])
  BY DEF KidsOf
<1> HIDE DEF K, D
<1>3. p \in D
  BY DEF D
<1>4. K[p] \in Seq(D)
  BY <1>1, <1>3 DEF Hangs
<1>5. \A i \in 1 .. Len(K[p]) : K[p][i] \in D
  BY <1>4, ElementOfSeq
<1>6. \A i \in 1 .. Len(K[p]) : K[p][i] # 0 /\ K[p][i] # new
  BY <1>1, <1>3 DEF Hangs
<1>7. \A i \in 1 .. Len(K[p]) : \A o \in D : \A j \in 1 .. Len(K[o]) : K[p][i] = K[o][j] => p = o /\ i = j
  BY <1>1, <1>3 DEF Hangs
<1>8. QED
  BY <1>2, <1>3, <1>4, <1>5, <1>6, <1>7 DEF D, KidFacts

AddedFacts(n2, pg, m, E, rk, N, p) ==
  /\ Tree([pg EXCEPT ![p] = n2], m, E, E, rk, N, p, 0)
  /\ n2.type = "i" /\ Len(n2.key) = Len(pg[p].key) + 1

\* A node with the new key and page is good, and all hang once.
LEMMA AddedIs ==
  ASSUME NEW pg, NEW m, NEW E, NEW F, NEW rk, NEW N, NEW new, Tree(pg, m, E, F, rk, N, -1, new),
         NEW q, NEW key, Pending(E, F, rk, q, new, key, m),
         NEW p \in 0 .. m - 1, pg[p].type = "i", NEW i \in 1 .. Len(pg[p].ptr), pg[p].ptr[i] = q
  PROVE  AddedFacts(AM_AddtoIntPage(pg[p], key, new, i - 1), pg, m, E, rk, N, p)
<1> DEFINE D == 0 .. m - 1
           n == pg[p]
           S == E[p]
           h == rk[p]
           i1 == i - 1
           K2 == InsertAt(n.key, i, key)
           T2 == InsertAt(n.ptr, i + 1, new)
           n2 == Node(K2, T2)
           pg2 == [pg EXCEPT ![p] = n2]
<1>1. /\ m \in Nat \ {0} /\ pg = [o \in D |-> pg[o]] /\ E \in [D -> SUBSET Values] /\ rk \in [D -> Nat]
      /\ E[0] = Values /\ Apart(pg, E, D) /\ Hangs(KidsOf(pg, D), D, {0, new})
      /\ \A o \in D : PageOK(pg[o], E[o], rk[o], F, rk, N, D, IF o = -1 THEN MaxKeys + 1 ELSE MaxKeys)
  BY DEF Tree
<1>2. /\ q \in D /\ new \in D /\ q # 0 /\ new # 0 /\ new # q
      /\ \A o \in D : o # q /\ o # new => F[o] = E[o]
      /\ key \in F[q] /\ Cleft(E, F, rk, q, new, key)
  BY DEF Pending, Cleft
<1>3. MaxKeys \in Nat
  BY AMAssumption
<1>4. IntOK(n, S, h, F, rk, D) /\ Len(n.key) <= MaxKeys /\ S \in SUBSET Values /\ Kids(n) = n.ptr
  <2>1. p # -1
    BY <1>1
  <2>2. PageOK(n, S, h, F, rk, N, D, MaxKeys)
    BY <1>1, <2>1
  <2>3. QED
    BY <1>1, <2>2 DEF PageOK, Kids
<1>5. /\ n.key \in Seq(Values) /\ n.ptr \in Seq(D) /\ Len(n.ptr) = Len(n.key) + 1 /\ Len(n.key) \in Nat
      /\ F[q] = Region(S, n.key, i) /\ i \in 1 .. Len(n.key) + 1
  <2>1. n.key \in Seq(Values) /\ n.ptr \in Seq(D) /\ Len(n.ptr) = Len(n.key) + 1 /\ F[n.ptr[i]] = Region(S, n.key, i)
    BY <1>4 DEF IntOK
  <2>2. Len(n.key) \in Nat
    BY <2>1, LenProperties
  <2>3. QED
    BY <2>1, <2>2
<1>6. key \in Values
  BY <1>2, <1>4, <1>5 DEF Region
<1>7. InsertedAt(K2, n.key, Values, i, key)
  BY <1>5, <1>6, InsertAtIs
<1>8. InsertedAt(T2, n.ptr, D, i + 1, new)
  <2> DEFINE j == i + 1
  <2>1. j \in 1 .. Len(n.ptr) + 1
    BY <1>5
  <2> HIDE DEF j, D
  <2>2. InsertedAt(InsertAt(n.ptr, j, new), n.ptr, D, j, new)
    BY <1>2, <1>5, <2>1, InsertAtIs
  <2>3. QED
    BY <2>2 DEF j
<1>9. AM_AddtoIntPage(n, key, new, i1) = n2
  <2>1. i1 + 1 = i /\ i1 + 2 = i + 1
    BY <1>5
  <2> HIDE DEF i1
  <2>2. QED
    BY <2>1 DEF AM_AddtoIntPage
<1>10. \A o \in D : \A j \in 1 .. Len(Kids(pg[o])) :
         /\ Kids(pg[o])[j] \in D /\ Kids(pg[o])[j] # 0 /\ Kids(pg[o])[j] # new
         /\ Kids(pg[o])[j] = q => o = p /\ j = i
  <2>1. ASSUME NEW o \in D, NEW j \in 1 .. Len(Kids(pg[o]))
        PROVE  /\ Kids(pg[o])[j] \in D /\ Kids(pg[o])[j] # 0 /\ Kids(pg[o])[j] # new
               /\ Kids(pg[o])[j] = q => o = p /\ j = i
    <3>1. i \in 1 .. Len(Kids(pg[p])) /\ Kids(pg[p])[i] = q
      BY <1>4
    <3>2. KidFacts(pg, m, new, o)
      BY TreeKids
    <3>3. QED
      BY <3>1, <3>2 DEF KidFacts
  <2>2. QED
    BY <2>1
<1>11. OthersSame(E, F, n, i)
  <2>1. ASSUME NEW j \in 1 .. Len(n.ptr), j # i PROVE E[n.ptr[j]] = F[n.ptr[j]]
    <3>1. Kids(pg[p]) = n.ptr /\ p \in D
      BY <1>4
    <3> HIDE DEF n, D
    <3>2. n.ptr[j] \in D /\ n.ptr[j] # new /\ n.ptr[j] # q
      BY <1>10, <2>1, <3>1
    <3>3. QED
      BY <1>2, <3>2
  <2>2. QED
    BY <2>1 DEF OthersSame
<1> HIDE DEF K2, T2, D, n, S, h
<1>12. IntOK(n2, S, h, E, rk, D)
  <2>1. n.ptr[i] = q /\ i \in 1 .. Len(n.ptr)
    BY DEF n
  <2>2. QED
    BY <1>2, <1>4, <1>7, <1>8, <1>11, <2>1, AddedNode
<1>13. n2.type = "i" /\ n2.key = K2 /\ n2.ptr = T2
  BY DEF Node
<1> HIDE DEF n2
<1>14. Len(n2.key) = Len(n.key) + 1
  BY <1>7, <1>13 DEF InsertedAt
<1>15. pg2 = [o \in D |-> pg2[o]] /\ pg2[p] = n2 /\ \A o \in D : o # p => pg2[o] = pg[o]
  BY <1>1 DEF D
<1> HIDE DEF pg2
<1>16. p \in D /\ \A o \in D : pg2[o].type = pg[o].type
  BY <1>13, <1>15 DEF D
<1>17. Apart(pg2, E, D)
  BY <1>1, <1>16 DEF Apart
<1>18. ASSUME NEW o \in D PROVE PageOK(pg2[o], E[o], rk[o], E, rk, N, D, IF o = p THEN MaxKeys + 1 ELSE MaxKeys)
  <2>1. CASE o = p
    <3>1. Len(n2.key) <= MaxKeys + 1
      BY <1>3, <1>4, <1>5, <1>14
    <3>2. PageOK(n2, S, h, E, rk, N, D, MaxKeys + 1)
      BY <1>12, <1>13, <3>1 DEF PageOK
    <3>3. QED
      BY <1>15, <2>1, <3>2 DEF S, h
  <2>2. CASE o # p
    <3>1. o # -1
      BY <1>1 DEF D
    <3> DEFINE node == pg[o]
               R == E[o]
               k == rk[o]
    <3>2. PageOK(node, R, k, F, rk, N, D, MaxKeys) /\ R \in SUBSET Values
      BY <1>1, <3>1
    <3>3. \A j \in 1 .. Len(Kids(node)) : E[Kids(node)[j]] = F[Kids(node)[j]]
      BY <1>2, <1>10, <2>2
    <3> HIDE DEF node, R, k
    <3>4. PageOK(node, R, k, E, rk, N, D, MaxKeys)
      BY <1>3, <3>2, <3>3, PageKeeps
    <3>5. QED
      BY <1>15, <2>2, <3>4 DEF node, R, k
  <2>3. QED
    BY <2>1, <2>2
<1>19. Hangs(KidsOf(pg2, D), D, {0, 0})
  <2> DEFINE K == KidsOf(pg, D)
             L == KidsOf(pg2, D)
             j == i + 1
             top == {0, new}
  <2>1. L[p] = T2 /\ K[p] = n.ptr /\ \A o \in D : o # p => L[o] = K[o]
    BY <1>4, <1>13, <1>15, <1>16 DEF KidsOf, Kids, n
  <2>2. Hangs(K, D, top) /\ new \in top
    BY <1>1
  <2>3. j \in 1 .. Len(K[p]) + 1
    BY <1>5, <2>1
  <2>4. InsertedAt(L[p], K[p], D, j, new)
    BY <1>8, <2>1
  <2> HIDE DEF K, L, top, j
  <2>5. Hung(L, K, D, p, j, new)
    BY <2>1, <2>4 DEF Hung
  <2>6. Hangs(L, D, top \ {new})
    BY <1>2, <1>16, <2>2, <2>3, <2>5, HungIs
  <2>7. top \ {new} = {0, 0}
    BY <1>2 DEF top
  <2>8. QED
    BY <2>6, <2>7 DEF L
<1>20. Tree(pg2, m, E, E, rk, N, p, 0)
  BY <1>1, <1>15, <1>17, <1>18, <1>19 DEF Tree, D
<1>21. QED
  BY <1>9, <1>13, <1>14, <1>20 DEF AddedFacts, pg2, n

-----------------------------------------------------------------------------
(* A page cut in two. *)

\* The pages a and b share out what is below n.
KidsCut(a, b, n, D) ==
  /\ Kids(a) \in Seq(D) /\ Kids(b) \in Seq(D) /\ Len(Kids(a)) + Len(Kids(b)) = Len(Kids(n))
  /\ \A k \in 1 .. Len(Kids(a)) : Kids(a)[k] = Kids(n)[k]
  /\ \A k \in 1 .. Len(Kids(b)) : Kids(b)[k] = Kids(n)[Len(Kids(a)) + k]
\* They are the page n, of the values S, cut at key.
Cut(a, b, key, n, S, h, E, rk, M, D, D2) ==
  /\ a.type = n.type /\ b.type = n.type
  /\ PageOK(a, {v \in S : v < key}, h, E, rk, M, D2, MaxKeys)
  /\ PageOK(b, {v \in S : ~ (v < key)}, h, E, rk, M, D2, MaxKeys)
  /\ key \in S /\ \E v \in S : v < key
  /\ KidsCut(a, b, n, D)
OthersHold(pg, E, N, M, p, m) ==
  \A o \in 0 .. m - 1 : o # p /\ pg[o].type = "l" => \A v \in Values : v \in E[o] => M[v] = N[v]

CutPages(pg, m, p, a, b) == [o \in 0 .. m |-> IF o = p THEN a ELSE IF o = m THEN b ELSE pg[o]]
CutRegs(E, m, p, key) ==
  [o \in 0 .. m |-> IF o = p THEN {v \in E[p] : v < key}
                    ELSE IF o = m THEN {v \in E[p] : ~ (v < key)} ELSE E[o]]
CutFor(E, m) == [o \in 0 .. m |-> IF o = m THEN {} ELSE E[o]]
CutRanks(rk, m, p) == [o \in 0 .. m |-> IF o = m THEN rk[p] ELSE rk[o]]

AgreeBelow(node, G, rg, F, rk) ==
  \A i \in 1 .. Len(Kids(node)) : G[Kids(node)[i]] = F[Kids(node)[i]] /\ rg[Kids(node)[i]] = rk[Kids(node)[i]]
AgreeOn(node, S, M, N) == node.type = "l" => \A v \in Values : v \in S => M[v] = N[v]

\* A page that nothing below has changed for stays good.
LEMMA PageKept ==
  ASSUME NEW node, NEW S \in SUBSET Values, NEW h, NEW F, NEW rk, NEW N, NEW D,
         PageOK(node, S, h, F, rk, N, D, MaxKeys),
         NEW G, NEW rg, NEW M, NEW D2, D \subseteq D2, AgreeBelow(node, G, rg, F, rk), AgreeOn(node, S, M, N)
  PROVE  PageOK(node, S, h, G, rg, M, D2, MaxKeys)
<1>1. MaxKeys \in Int /\ MaxKeys <= MaxKeys
  BY AMAssumption
<1>2. \A i \in 1 .. Len(Kids(node)) : G[Kids(node)[i]] = F[Kids(node)[i]] /\ rg[Kids(node)[i]] = rk[Kids(node)[i]]
  BY DEF AgreeBelow
<1>3. node.type = "l" => \A v \in Values : v \in S => M[v] = N[v]
  BY DEF AgreeOn
<1>4. QED
  BY <1>1, <1>2, <1>3, PageKeeps

SameBelow(F, rg, E, rk, m) == \A o \in 0 .. m - 1 : o # 0 => F[o] = E[o] /\ rg[o] = rk[o]
Stays(pg, E, rk, o, F, rg, M, D2) == PageOK(pg[o], E[o], rk[o], F, rg, M, D2, MaxKeys)

\* A page that stays as it is in a tree that changes elsewhere.
LEMMA PageStays ==
  ASSUME NEW pg, NEW m, NEW E, NEW rk, NEW N, NEW x, Tree(pg, m, E, E, rk, N, x, 0),
         NEW p, x = -1 \/ x = p, NEW M, OthersHold(pg, E, N, M, p, m),
         NEW F, NEW rg, SameBelow(F, rg, E, rk, m),
         NEW D2, 0 .. m - 1 \subseteq D2, NEW o \in 0 .. m - 1, o # p
  PROVE  Stays(pg, E, rk, o, F, rg, M, D2)
<1> DEFINE node == pg[o]
           S == E[o]
           h == rk[o]
           D == 0 .. m - 1
<1>1. MaxKeys \in Int
  BY AMAssumption
<1>2. m \in Nat /\ o # -1 /\ o # x
  BY DEF Tree
<1>3. PageOK(node, S, h, E, rk, N, D, MaxKeys) /\ S \in SUBSET Values
  BY <1>2 DEF Tree
<1>4. KidFacts(pg, m, 0, o)
  BY TreeKids
<1>5. AgreeBelow(node, F, rg, E, rk)
  BY <1>4 DEF KidFacts, SameBelow, AgreeBelow
<1>6. AgreeOn(node, S, M, N)
  BY DEF OthersHold, AgreeOn
<1> HIDE DEF node, S, h
<1>7. D \subseteq D2
  OBVIOUS
<1> HIDE DEF D
<1>8. PageOK(node, S, h, F, rg, M, D2, MaxKeys)
  BY <1>3, <1>5, <1>6, <1>7, PageKept
<1>9. QED
  BY <1>8 DEF node, S, h, Stays

\* And a half of the page that was cut.
LEMMA HalfStays ==
  ASSUME NEW pg, NEW m, NEW E, NEW rk, NEW N, NEW x, Tree(pg, m, E, E, rk, N, x, 0),
         NEW p \in 0 .. m - 1, NEW M, NEW D2, NEW S \in SUBSET Values, NEW h, NEW a,
         PageOK(a, S, h, E, rk, M, D2, MaxKeys),
         \A k \in 1 .. Len(Kids(a)) : \E j \in 1 .. Len(Kids(pg[p])) : Kids(a)[k] = Kids(pg[p])[j],
         NEW F, NEW rg, SameBelow(F, rg, E, rk, m)
  PROVE  PageOK(a, S, h, F, rg, M, D2, MaxKeys)
<1>1. MaxKeys \in Int
  BY AMAssumption
<1>2. KidFacts(pg, m, 0, p)
  BY TreeKids
<1>3. AgreeBelow(a, F, rg, E, rk)
  <2>1. ASSUME NEW i \in 1 .. Len(Kids(a)) PROVE F[Kids(a)[i]] = E[Kids(a)[i]] /\ rg[Kids(a)[i]] = rk[Kids(a)[i]]
    <3>1. PICK j \in 1 .. Len(Kids(pg[p])) : Kids(a)[i] = Kids(pg[p])[j]
      OBVIOUS
    <3>2. Kids(pg[p])[j] \in 0 .. m - 1 /\ Kids(pg[p])[j] # 0
      BY <1>2 DEF KidFacts
    <3>3. QED
      BY <3>1, <3>2 DEF SameBelow
  <2>2. QED
    BY <2>1 DEF AgreeBelow
<1>4. AgreeOn(a, S, M, M) /\ D2 \subseteq D2
  BY DEF AgreeOn
<1>5. QED
  BY <1>3, <1>4, PageKept

\* Both halves of a page stay good in the new tree.
LEMMA CutHalves ==
  ASSUME NEW a, NEW b, NEW n, NEW D, NEW E, KidsCut(a, b, n, D), Kids(n) \in Seq(E)
  PROVE  /\ \A k \in 1 .. Len(Kids(a)) : \E j \in 1 .. Len(Kids(n)) : Kids(a)[k] = Kids(n)[j]
         /\ \A k \in 1 .. Len(Kids(b)) : \E j \in 1 .. Len(Kids(n)) : Kids(b)[k] = Kids(n)[j]
         /\ Len(Kids(a)) \in 0 .. Len(Kids(n)) /\ Len(Kids(b)) = Len(Kids(n)) - Len(Kids(a))
<1>1. /\ Len(Kids(a)) \in Nat /\ Len(Kids(b)) \in Nat /\ Len(Kids(n)) \in Nat
      /\ Len(Kids(a)) + Len(Kids(b)) = Len(Kids(n))
  BY LenProperties DEF KidsCut
<1>2. ASSUME NEW k \in 1 .. Len(Kids(a)) PROVE \E j \in 1 .. Len(Kids(n)) : Kids(a)[k] = Kids(n)[j]
  <2>1. k \in 1 .. Len(Kids(n)) /\ Kids(a)[k] = Kids(n)[k]
    BY <1>1 DEF KidsCut
  <2>2. QED
    BY <2>1
<1>3. ASSUME NEW k \in 1 .. Len(Kids(b)) PROVE \E j \in 1 .. Len(Kids(n)) : Kids(b)[k] = Kids(n)[j]
  <2>1. Len(Kids(a)) + k \in 1 .. Len(Kids(n)) /\ Kids(b)[k] = Kids(n)[Len(Kids(a)) + k]
    BY <1>1 DEF KidsCut
  <2>2. QED
    BY <2>1
<1>4. QED
  BY <1>1, <1>2, <1>3

CutFacts(pg, m, E, rk, M, p, a, b, key) ==
  /\ Tree(CutPages(pg, m, p, a, b), m + 1, CutRegs(E, m, p, key), CutFor(E, m), CutRanks(rk, m, p), M, -1, m)
  /\ Pending(CutRegs(E, m, p, key), CutFor(E, m), CutRanks(rk, m, p), p, m, key, m + 1)

\* A page other than the root cut in two: the second half is a new page to be hung in.
LEMMA CutIs ==
  ASSUME NEW pg, NEW m, NEW E, NEW rk, NEW N, NEW x, Tree(pg, m, E, E, rk, N, x, 0),
         NEW p \in 0 .. m - 1, p # 0, x = -1 \/ x = p, NEW M, OthersHold(pg, E, N, M, p, m),
         NEW a, NEW b, NEW key, Cut(a, b, key, pg[p], E[p], rk[p], E, rk, M, 0 .. m - 1, 0 .. m)
  PROVE  CutFacts(pg, m, E, rk, M, p, a, b, key)
<1> DEFINE D == 0 .. m - 1
           D2 == 0 .. m
           n == pg[p]
           S == E[p]
           h == rk[p]
           pg2 == CutPages(pg, m, p, a, b)
           E2 == CutRegs(E, m, p, key)
           F2 == CutFor(E, m)
           rk2 == CutRanks(rk, m, p)
           A == {v \in S : v < key}
           B == {v \in S : ~ (v < key)}
<1>1. /\ m \in Nat \ {0} /\ pg = [o \in D |-> pg[o]] /\ E \in [D -> SUBSET Values] /\ rk \in [D -> Nat]
      /\ E[0] = Values /\ Apart(pg, E, D) /\ Hangs(KidsOf(pg, D), D, {0, 0})
  BY DEF Tree
<1>2. 0 .. m + 1 - 1 = D2 /\ D \subseteq D2 /\ m \in D2 /\ m \notin D /\ D2 = D \cup {m} /\ 0 \in D /\ m + 1 \in Nat \ {0}
  BY <1>1
<1>3. S \in SUBSET Values /\ A \in SUBSET Values /\ B \in SUBSET Values /\ h \in Nat
  BY <1>1
<1>4. /\ a.type = n.type /\ b.type = n.type /\ key \in S /\ (\E v \in S : v < key) /\ KidsCut(a, b, n, D)
      /\ PageOK(a, A, h, E, rk, M, D2, MaxKeys) /\ PageOK(b, B, h, E, rk, M, D2, MaxKeys)
  BY DEF Cut
<1>5. /\ pg2 = [o \in D2 |-> pg2[o]] /\ pg2[p] = a /\ pg2[m] = b /\ \A o \in D : o # p => pg2[o] = pg[o]
  BY <1>1, <1>2 DEF CutPages
<1>6. /\ E2[p] = A /\ E2[m] = B /\ (\A o \in D : o # p => E2[o] = E[o]) /\ E2 = [o \in D2 |-> E2[o]]
  BY <1>1, <1>2 DEF CutRegs
<1>7. (\A o \in D : F2[o] = E[o]) /\ F2[m] = {} /\ F2 = [o \in D2 |-> F2[o]]
  BY <1>1, <1>2 DEF CutFor
<1>8. (\A o \in D : rk2[o] = rk[o]) /\ rk2[m] = h /\ rk2 = [o \in D2 |-> rk2[o]]
  BY <1>1, <1>2 DEF CutRanks
<1>9. p \in D /\ KidFacts(pg, m, 0, p)
  BY TreeKids
<1>10. Kids(n) \in Seq(D)
  BY <1>9 DEF KidFacts
<1>11. /\ \A k \in 1 .. Len(Kids(a)) : \E j \in 1 .. Len(Kids(n)) : Kids(a)[k] = Kids(n)[j]
       /\ \A k \in 1 .. Len(Kids(b)) : \E j \in 1 .. Len(Kids(n)) : Kids(b)[k] = Kids(n)[j]
       /\ Len(Kids(a)) \in 0 .. Len(Kids(n)) /\ Len(Kids(b)) = Len(Kids(n)) - Len(Kids(a))
  BY <1>4, <1>10, CutHalves
<1>12. SameBelow(F2, rk2, E, rk, m)
  BY <1>7, <1>8 DEF SameBelow
<1> HIDE DEF A, B, pg2, E2, F2, rk2, S, h, n, D2
<1>13. PageOK(a, A, h, F2, rk2, M, D2, MaxKeys) /\ PageOK(b, B, h, F2, rk2, M, D2, MaxKeys)
  <2>1. \A k \in 1 .. Len(Kids(a)) : \E j \in 1 .. Len(Kids(pg[p])) : Kids(a)[k] = Kids(pg[p])[j]
    BY <1>11 DEF n
  <2>2. \A k \in 1 .. Len(Kids(b)) : \E j \in 1 .. Len(Kids(pg[p])) : Kids(b)[k] = Kids(pg[p])[j]
    BY <1>11 DEF n
  <2>3. PageOK(a, A, h, F2, rk2, M, D2, MaxKeys)
    BY <1>3, <1>4, <1>12, <2>1, HalfStays
  <2>4. PageOK(b, B, h, F2, rk2, M, D2, MaxKeys)
    BY <1>3, <1>4, <1>12, <2>2, HalfStays
  <2>5. QED
    BY <2>3, <2>4
<1>14. ASSUME NEW o \in D, o # p PROVE PageOK(pg[o], E[o], rk[o], F2, rk2, M, D2, MaxKeys)
  <2>1. 0 .. m - 1 \subseteq D2 /\ o \in 0 .. m - 1 /\ (x = -1 \/ x = p)
    BY <1>2
  <2> HIDE DEF D
  <2>2. Stays(pg, E, rk, o, F2, rk2, M, D2)
    BY <1>12, <1>14, <2>1, PageStays
  <2>3. QED
    BY <2>2 DEF Stays
<1>15. ASSUME NEW o \in D2
       PROVE  PageOK(pg2[o], E2[o], rk2[o], F2, rk2, M, D2, IF o = -1 THEN MaxKeys + 1 ELSE MaxKeys)
  <2>1. o # -1
    BY <1>1 DEF D2
  <2>2. CASE o = p
    BY <1>5, <1>6, <1>8, <1>9, <1>13, <2>1, <2>2 DEF h
  <2>3. CASE o = m
    BY <1>5, <1>6, <1>8, <1>13, <2>1, <2>3
  <2>4. CASE o # p /\ o # m
    <3>1. o \in D
      BY <1>2, <2>4
    <3>2. PageOK(pg[o], E[o], rk[o], F2, rk2, M, D2, MaxKeys)
      BY <1>14, <2>4, <3>1
    <3>3. pg2[o] = pg[o] /\ E2[o] = E[o] /\ rk2[o] = rk[o]
      BY <1>5, <1>6, <1>8, <2>4, <3>1
    <3>4. QED
      BY <2>1, <3>2, <3>3
  <2>5. QED
    BY <2>2, <2>3, <2>4
<1>16. A \cap B = {} /\ A \subseteq S /\ B \subseteq S
  BY DEF A, B
<1>17. Apart(pg2, E2, D2)
  <2>1. ASSUME NEW o \in D2, NEW q \in D2, o # q, pg2[o].type = "l", pg2[q].type = "l" PROVE E2[o] \cap E2[q] = {}
    <3>1. \A w \in D : w # p /\ pg[w].type = "l" /\ n.type = "l" => E[w] \cap S = {}
      BY <1>1, <1>9 DEF Apart, n, S
    <3>2. \A w \in D2 : w \in D \/ w = m
      BY <1>2
    <3>3. CASE o \in {p, m} /\ q \in {p, m}
      BY <1>6, <1>16, <2>1, <3>3
    <3>4. CASE o \in {p, m} /\ q \notin {p, m}
      <4>1. q \in D /\ q # p /\ pg[q].type = "l" /\ n.type = "l" /\ E2[q] = E[q]
        BY <1>4, <1>5, <1>6, <2>1, <3>2, <3>4
      <4>2. E2[o] \subseteq S
        BY <1>6, <1>16, <3>4
      <4>3. QED
        BY <3>1, <4>1, <4>2
    <3>5. CASE o \notin {p, m} /\ q \in {p, m}
      <4>1. o \in D /\ o # p /\ pg[o].type = "l" /\ n.type = "l" /\ E2[o] = E[o]
        BY <1>4, <1>5, <1>6, <2>1, <3>2, <3>5
      <4>2. E2[q] \subseteq S
        BY <1>6, <1>16, <3>5
      <4>3. QED
        BY <3>1, <4>1, <4>2
    <3>6. CASE o \notin {p, m} /\ q \notin {p, m}
      <4>1. o \in D /\ q \in D /\ o # p /\ q # p
        BY <3>2, <3>6
      <4>2. pg[o].type = "l" /\ pg[q].type = "l" /\ E2[o] = E[o] /\ E2[q] = E[q]
        BY <1>5, <1>6, <2>1, <4>1
      <4>3. QED
        BY <1>1, <2>1, <4>1, <4>2 DEF Apart
    <3>7. QED
      BY <3>3, <3>4, <3>5, <3>6
  <2>2. QED
    BY <2>1 DEF Apart
<1>18. Hangs(KidsOf(pg2, D2), D2, {0, m})
  <2> DEFINE K == KidsOf(pg, D)
             L == KidsOf(pg2, D2)
             c == Len(Kids(a))
             top == {0, 0}
  <2>1. L[p] = Kids(a) /\ L[m] = Kids(b) /\ K[p] = Kids(n) /\ \A o \in D : o # p => L[o] = K[o]
    BY <1>2, <1>5, <1>9 DEF KidsOf, n
  <2>2. Hangs(K, D, top)
    BY <1>1
  <2>3. c \in 0 .. Len(K[p])
    BY <1>11, <2>1
  <2>4. /\ L[p] \in Seq(D) /\ Len(L[p]) = c /\ \A k \in 1 .. c : L[p][k] = K[p][k]
        /\ L[m] \in Seq(D) /\ Len(L[m]) = Len(K[p]) - c
        /\ \A k \in 1 .. Len(K[p]) - c : L[m][k] = K[p][c + k]
    <3>1. /\ Kids(a) \in Seq(D) /\ Kids(b) \in Seq(D)
          /\ \A k \in 1 .. Len(Kids(a)) : Kids(a)[k] = Kids(n)[k]
          /\ \A k \in 1 .. Len(Kids(b)) : Kids(b)[k] = Kids(n)[Len(Kids(a)) + k]
      BY <1>4 DEF KidsCut
    <3>2. Len(Kids(b)) = Len(Kids(n)) - Len(Kids(a))
      BY <1>11
    <3> HIDE DEF D, K, L
    <3>3. QED
      BY <2>1, <3>1, <3>2
  <2> HIDE DEF K, L, c, top, D
  <2>5. Shared(L, K, D, p, m, c)
    BY <2>1, <2>4 DEF Shared
  <2>6. Hangs(L, D \cup {m}, top \cup {m})
    BY <1>2, <1>9, <2>2, <2>3, <2>5, SharedIs
  <2>7. top \cup {m} = {0, m}
    BY DEF top
  <2>8. QED
    BY <1>2, <2>6, <2>7 DEF L
<1>19. E2[0] = Values
  BY <1>1, <1>2, <1>6
<1>20. E2 \in [D2 -> SUBSET Values] /\ F2 \in [D2 -> SUBSET Values] /\ rk2 \in [D2 -> Nat]
  <2>1. \A o \in D2 : E2[o] \in SUBSET Values /\ F2[o] \in SUBSET Values /\ rk2[o] \in Nat
    BY <1>1, <1>2, <1>3, <1>6, <1>7, <1>8
  <2>2. QED
    BY <1>6, <1>7, <1>8, <2>1
<1>21. Tree(pg2, m + 1, E2, F2, rk2, M, -1, m)
  <2> DEFINE mm == m + 1
  <2>1. 0 .. mm - 1 = D2 /\ mm \in Nat \ {0}
    BY <1>2
  <2> HIDE DEF mm, D
  <2>2. Tree(pg2, mm, E2, F2, rk2, M, -1, m)
    BY <1>5, <1>15, <1>17, <1>18, <1>19, <1>20, <2>1 DEF Tree
  <2>3. QED
    BY <2>2 DEF mm
<1>22. Cleft(E2, F2, rk2, p, m, key)
  BY <1>4, <1>6, <1>7, <1>8, <1>9 DEF Cleft, A, B, S, h
<1>23. Pending(E2, F2, rk2, p, m, key, m + 1)
  <2>1. \A o \in D2 : o # p /\ o # m => F2[o] = E2[o]
    BY <1>2, <1>6, <1>7
  <2>2. p \in D2 /\ m \in D2 /\ m # 0 /\ m # p
    BY <1>1, <1>2, <1>9
  <2>3. QED
    BY <1>2, <1>22, <2>1, <2>2 DEF Pending
<1>24. QED
  BY <1>21, <1>23 DEF CutFacts, pg2, E2, F2, rk2

-----------------------------------------------------------------------------
(* The root cut in two. *)

\* The root cut: its halves are two more pages, below it.
RootPages(pg, m, a, b, key) ==
  [o \in 0 .. m + 1 |-> IF o = 0 THEN Node(<<key>>, <<m + 1, m>>)
                        ELSE IF o = m THEN b ELSE IF o = m + 1 THEN a ELSE pg[o]]
RootRegs(E, m, key) ==
  [o \in 0 .. m + 1 |-> IF o = 0 THEN Values ELSE IF o = m THEN {v \in Values : ~ (v < key)}
                        ELSE IF o = m + 1 THEN {v \in Values : v < key} ELSE E[o]]
RootRanks(rk, m) ==
  [o \in 0 .. m + 1 |-> IF o = 0 THEN rk[0] + 1 ELSE IF o = m \/ o = m + 1 THEN rk[0] ELSE rk[o]]
NewRoot(m, key) == Node(<<key>>, <<m + 1, m>>)

\* The new root has one key and two pages below it.
LEMMA NewRootIs ==
  ASSUME NEW m \in Nat, NEW key \in Values, NEW F, NEW rk, NEW D, m \in D, m + 1 \in D,
         NEW h \in Nat, F[m] = {v \in Values : ~ (v < key)}, F[m + 1] = {v \in Values : v < key},
         rk[m] = h, rk[m + 1] = h, NEW N
  PROVE  PageOK(NewRoot(m, key), Values, h + 1, F, rk, N, D, MaxKeys)
<1> DEFINE n == NewRoot(m, key)
           K == <<key>>
           T == <<m + 1, m>>
<1>1. n.key = K /\ n.ptr = T /\ n.type = "i" /\ n = Node(n.key, n.ptr)
  BY DEF NewRoot, Node
<1>2. K \in Seq(Values) /\ Len(K) = 1 /\ K[1] = key /\ T \in Seq(D) /\ Len(T) = 2 /\ T[1] = m + 1 /\ T[2] = m
  OBVIOUS
<1> HIDE DEF n, K, T
<1>3. Ordered(K)
  BY <1>2 DEF Ordered
<1>4. \A v \in Values : v \in Int
  BY ValuesInt
<1>5. key \in Int
  BY ValuesInt
<1>6. Region(Values, K, 1) = {v \in Values : v < key} /\ Region(Values, K, 2) = {v \in Values : ~ (v < key)}
  <2>1. ASSUME NEW v \in Values PROVE (InSlot(K, 1, v) <=> v < key) /\ (InSlot(K, 2, v) <=> ~ (v < key))
    <3>1. v \in Int
      BY <1>4
    <3>2. QED
      BY <1>2, <1>5, <3>1 DEF InSlot
  <2>2. QED
    BY <2>1 DEF Region
<1>7. \A i \in 1 .. Len(T) : F[T[i]] = Region(Values, K, i) /\ rk[T[i]] < h + 1
  <2>1. \A i \in 1 .. Len(T) : i = 1 \/ i = 2
    BY <1>2
  <2>2. h < h + 1
    OBVIOUS
  <2>3. QED
    BY <1>2, <1>6, <2>1, <2>2
<1>8. IntOK(n, Values, h + 1, F, rk, D)
  <2>1. \A i \in 1 .. Len(K) : K[i] \in Values
    BY <1>2
  <2>2. Len(T) = Len(K) + 1 /\ Len(K) >= 1
    BY <1>2
  <2>3. QED
    BY <1>1, <1>2, <1>3, <1>7, <2>1, <2>2 DEF IntOK
<1>9. Len(n.key) <= MaxKeys
  BY <1>1, <1>2, AMAssumption
<1>10. QED
  BY <1>1, <1>8, <1>9 DEF PageOK, n

RootFacts(pg, m, E, rk, M, a, b, key) ==
  Tree(RootPages(pg, m, a, b, key), m + 2, RootRegs(E, m, key), RootRegs(E, m, key), RootRanks(rk, m), M, -1, 0)

\* The root cut: its halves hang below a new root.
LEMMA RootIs ==
  ASSUME NEW pg, NEW m, NEW E, NEW rk, NEW N, NEW x, Tree(pg, m, E, E, rk, N, x, 0),
         x = -1 \/ x = 0, NEW M, OthersHold(pg, E, N, M, 0, m),
         NEW a, NEW b, NEW key, Cut(a, b, key, pg[0], E[0], rk[0], E, rk, M, 0 .. m - 1, 0 .. m + 1)
  PROVE  RootFacts(pg, m, E, rk, M, a, b, key)
<1> DEFINE D == 0 .. m - 1
           D2 == 0 .. m + 1
           n == pg[0]
           h == rk[0]
           mx == m + 1
           pg2 == RootPages(pg, m, a, b, key)
           E2 == RootRegs(E, m, key)
           rk2 == RootRanks(rk, m)
           A == {v \in Values : v < key}
           B == {v \in Values : ~ (v < key)}
<1>1. /\ m \in Nat \ {0} /\ pg = [o \in D |-> pg[o]] /\ E \in [D -> SUBSET Values] /\ rk \in [D -> Nat]
      /\ E[0] = Values /\ Apart(pg, E, D) /\ Hangs(KidsOf(pg, D), D, {0, 0})
  BY DEF Tree
<1>2. /\ D \subseteq D2 /\ m \in D2 /\ m \notin D /\ mx \in D2 /\ mx \notin D /\ m # mx /\ D2 = D \cup {mx, m}
      /\ 0 \in D /\ m # 0 /\ mx # 0 /\ 0 \in D2
  BY <1>1
<1>3. A \in SUBSET Values /\ B \in SUBSET Values /\ h \in Nat
  BY <1>1, <1>2
<1>4. /\ a.type = n.type /\ b.type = n.type /\ key \in Values /\ KidsCut(a, b, n, D)
      /\ PageOK(a, A, h, E, rk, M, D2, MaxKeys) /\ PageOK(b, B, h, E, rk, M, D2, MaxKeys)
  BY <1>1 DEF Cut
<1>5. /\ pg2 = [o \in D2 |-> pg2[o]] /\ pg2[0] = NewRoot(m, key) /\ pg2[m] = b /\ pg2[mx] = a
      /\ \A o \in D : o # 0 => pg2[o] = pg[o]
  BY <1>1, <1>2 DEF RootPages, NewRoot
<1>6. E2[0] = Values /\ E2[mx] = A /\ E2[m] = B /\ (\A o \in D : o # 0 => E2[o] = E[o]) /\ E2 = [o \in D2 |-> E2[o]]
  BY <1>1, <1>2 DEF RootRegs
<1>7. /\ rk2[0] = h + 1 /\ rk2[m] = h /\ rk2[mx] = h /\ (\A o \in D : o # 0 => rk2[o] = rk[o])
      /\ rk2 = [o \in D2 |-> rk2[o]]
  BY <1>1, <1>2 DEF RootRanks
<1>8. 0 \in 0 .. m - 1
  BY <1>2
<1>9. KidFacts(pg, m, 0, 0)
  BY <1>8, TreeKids
<1>10. Kids(n) \in Seq(D)
  BY <1>9 DEF KidFacts
<1>11. /\ \A k \in 1 .. Len(Kids(a)) : \E j \in 1 .. Len(Kids(n)) : Kids(a)[k] = Kids(n)[j]
       /\ \A k \in 1 .. Len(Kids(b)) : \E j \in 1 .. Len(Kids(n)) : Kids(b)[k] = Kids(n)[j]
       /\ Len(Kids(a)) \in 0 .. Len(Kids(n)) /\ Len(Kids(b)) = Len(Kids(n)) - Len(Kids(a))
  BY <1>4, <1>10, CutHalves
<1>12. SameBelow(E2, rk2, E, rk, m)
  BY <1>6, <1>7 DEF SameBelow
<1> HIDE DEF A, B, pg2, E2, rk2, h, D2
<1>13. PageOK(a, A, h, E2, rk2, M, D2, MaxKeys) /\ PageOK(b, B, h, E2, rk2, M, D2, MaxKeys)
  <2> DEFINE r == 0
  <2>1. \A k \in 1 .. Len(Kids(a)) : \E j \in 1 .. Len(Kids(pg[r])) : Kids(a)[k] = Kids(pg[r])[j]
    BY <1>11
  <2>2. \A k \in 1 .. Len(Kids(b)) : \E j \in 1 .. Len(Kids(pg[r])) : Kids(b)[k] = Kids(pg[r])[j]
    BY <1>11
  <2>3. r \in 0 .. m - 1
    BY <1>8
  <2> HIDE DEF n, r, D
  <2>4. PageOK(a, A, h, E2, rk2, M, D2, MaxKeys)
    BY <1>3, <1>4, <1>12, <2>1, <2>3, HalfStays
  <2>5. PageOK(b, B, h, E2, rk2, M, D2, MaxKeys)
    BY <1>3, <1>4, <1>12, <2>2, <2>3, HalfStays
  <2>6. QED
    BY <2>4, <2>5
<1>14. ASSUME NEW o \in D, o # 0 PROVE PageOK(pg[o], E[o], rk[o], E2, rk2, M, D2, MaxKeys)
  <2> DEFINE r == 0
  <2>1. 0 .. m - 1 \subseteq D2 /\ o \in 0 .. m - 1 /\ (x = -1 \/ x = r) /\ OthersHold(pg, E, N, M, r, m) /\ o # r
    BY <1>2, <1>14
  <2> HIDE DEF D, r
  <2>2. Stays(pg, E, rk, o, E2, rk2, M, D2)
    BY <1>12, <2>1, PageStays
  <2>3. QED
    BY <2>2 DEF Stays
<1>15. PageOK(pg2[0], Values, h + 1, E2, rk2, M, D2, MaxKeys)
  <2>1. PageOK(NewRoot(m, key), Values, h + 1, E2, rk2, M, D2, MaxKeys)
    BY <1>1, <1>2, <1>3, <1>4, <1>6, <1>7, NewRootIs DEF A, B
  <2>2. QED
    BY <1>5, <2>1
<1>16. ASSUME NEW o \in D2
       PROVE  PageOK(pg2[o], E2[o], rk2[o], E2, rk2, M, D2, IF o = -1 THEN MaxKeys + 1 ELSE MaxKeys)
  <2>1. o # -1
    BY <1>1 DEF D2
  <2>2. CASE o = 0
    BY <1>6, <1>7, <1>15, <2>1, <2>2
  <2>3. CASE o = m
    BY <1>5, <1>6, <1>7, <1>13, <2>1, <2>3
  <2>4. CASE o = mx
    BY <1>5, <1>6, <1>7, <1>13, <2>1, <2>4
  <2>5. CASE o # 0 /\ o # m /\ o # mx
    <3>1. o \in D
      BY <1>2, <2>5
    <3>2. PageOK(pg[o], E[o], rk[o], E2, rk2, M, D2, MaxKeys)
      BY <1>14, <2>5, <3>1
    <3>3. pg2[o] = pg[o] /\ E2[o] = E[o] /\ rk2[o] = rk[o]
      BY <1>5, <1>6, <1>7, <2>5, <3>1
    <3>4. QED
      BY <2>1, <3>2, <3>3
  <2>6. QED
    BY <2>2, <2>3, <2>4, <2>5
<1>17. A \cap B = {} /\ A \subseteq Values /\ B \subseteq Values
  BY DEF A, B
<1>18. Apart(pg2, E2, D2)
  <2>1. ASSUME NEW o \in D2, NEW q \in D2, o # q, pg2[o].type = "l", pg2[q].type = "l" PROVE E2[o] \cap E2[q] = {}
    <3>1. \A w \in D : w # 0 /\ pg[w].type = "l" /\ n.type = "l" => E[w] = {}
      <4>1. ASSUME NEW w \in D, w # 0, pg[w].type = "l", n.type = "l" PROVE E[w] = {}
        <5>1. E[w] \cap E[0] = {}
          BY <1>1, <1>2, <4>1 DEF Apart
        <5>2. E[w] \subseteq Values
          BY <1>1
        <5>3. QED
          BY <1>1, <5>1, <5>2
      <4>2. QED
        BY <4>1
    <3>2. \A w \in D2 : w \in D \/ w = m \/ w = mx
      BY <1>2
    <3>3. o # 0 /\ q # 0
      BY <1>5, <2>1 DEF NewRoot, Node
    <3>4. CASE o \in {mx, m} /\ q \in {mx, m}
      BY <1>6, <1>17, <2>1, <3>4
    <3>5. CASE o \in {mx, m} /\ q \notin {mx, m}
      <4>1. q \in D /\ pg[q].type = "l" /\ n.type = "l" /\ E2[q] = E[q]
        BY <1>4, <1>5, <1>6, <2>1, <3>2, <3>3, <3>5
      <4>2. QED
        BY <3>1, <3>3, <4>1
    <3>6. CASE o \notin {mx, m} /\ q \in {mx, m}
      <4>1. o \in D /\ pg[o].type = "l" /\ n.type = "l" /\ E2[o] = E[o]
        BY <1>4, <1>5, <1>6, <2>1, <3>2, <3>3, <3>6
      <4>2. QED
        BY <3>1, <3>3, <4>1
    <3>7. CASE o \notin {mx, m} /\ q \notin {mx, m}
      <4>1. o \in D /\ q \in D
        BY <3>2, <3>7
      <4>2. pg[o].type = "l" /\ pg[q].type = "l" /\ E2[o] = E[o] /\ E2[q] = E[q]
        BY <1>5, <1>6, <2>1, <3>3, <4>1
      <4>3. QED
        BY <1>1, <2>1, <4>1, <4>2 DEF Apart
    <3>8. QED
      BY <3>4, <3>5, <3>6, <3>7
  <2>2. QED
    BY <2>1 DEF Apart
<1>19. Hangs(KidsOf(pg2, D2), D2, {0, 0})
  <2> DEFINE K == KidsOf(pg, D)
             L == KidsOf(pg2, D2)
             c == Len(Kids(a))
             r == 0
  <2>1. L[mx] = Kids(a) /\ L[m] = Kids(b) /\ K[r] = Kids(n) /\ \A o \in D : o # r => L[o] = K[o]
    BY <1>2, <1>5 DEF KidsOf
  <2>2. L[r] = <<mx, m>>
    BY <1>2, <1>5 DEF KidsOf, Kids, NewRoot, Node
  <2>3. Hangs(K, D, {r}) /\ r \in D
    <3>1. {0, 0} = {0}
      OBVIOUS
    <3>2. QED
      BY <1>1, <1>2, <3>1
  <2>4. c \in 0 .. Len(K[r])
    BY <1>11, <2>1
  <2>5. /\ L[mx] \in Seq(D) /\ Len(L[mx]) = c /\ \A k \in 1 .. c : L[mx][k] = K[r][k]
        /\ L[m] \in Seq(D) /\ Len(L[m]) = Len(K[r]) - c
        /\ \A k \in 1 .. Len(K[r]) - c : L[m][k] = K[r][c + k]
    <3>1. /\ Kids(a) \in Seq(D) /\ Kids(b) \in Seq(D)
          /\ \A k \in 1 .. Len(Kids(a)) : Kids(a)[k] = Kids(n)[k]
          /\ \A k \in 1 .. Len(Kids(b)) : Kids(b)[k] = Kids(n)[Len(Kids(a)) + k]
      BY <1>4 DEF KidsCut
    <3>2. Len(Kids(b)) = Len(Kids(n)) - Len(Kids(a))
      BY <1>11
    <3> HIDE DEF D, K, L, n, r
    <3>3. QED
      BY <2>1, <3>1, <3>2
  <2> HIDE DEF K, L, c, r, D, mx
  <2>6. Rooted(L, K, D, r, mx, m, c)
    BY <2>1, <2>2, <2>5 DEF Rooted
  <2>7. Hangs(L, D \cup {mx, m}, {r})
    BY <1>2, <2>3, <2>4, <2>6, RootedIs
  <2>8. {r} = {0, 0}
    BY DEF r
  <2>9. QED
    BY <1>2, <2>7, <2>8 DEF L
<1>20. E2 \in [D2 -> SUBSET Values] /\ rk2 \in [D2 -> Nat]
  <2>1. ASSUME NEW o \in D2 PROVE E2[o] \in SUBSET Values /\ rk2[o] \in Nat
    <3>1. CASE o = 0
      BY <1>3, <1>6, <1>7, <3>1
    <3>2. CASE o = m
      BY <1>3, <1>6, <1>7, <3>2
    <3>3. CASE o = mx
      BY <1>3, <1>6, <1>7, <3>3
    <3>4. CASE o # 0 /\ o # m /\ o # mx
      <4>1. o \in D
        BY <1>2, <3>4
      <4>2. E[o] \in SUBSET Values /\ rk[o] \in Nat
        BY <1>1, <4>1
      <4>3. QED
        BY <1>6, <1>7, <3>4, <4>1, <4>2
    <3>5. QED
      BY <3>1, <3>2, <3>3, <3>4
  <2>2. QED
    BY <1>6, <1>7, <2>1
<1>21. Tree(pg2, m + 2, E2, E2, rk2, M, -1, 0)
  <2> DEFINE mm == m + 2
  <2>1. 0 .. mm - 1 = D2 /\ mm \in Nat \ {0}
    BY <1>1 DEF D2
  <2> HIDE DEF mm, D
  <2>2. Tree(pg2, mm, E2, E2, rk2, M, -1, 0)
    BY <1>5, <1>6, <1>16, <1>18, <1>19, <1>20, <2>1 DEF Tree
  <2>3. QED
    BY <2>2 DEF mm
<1>22. QED
  BY <1>21 DEF RootFacts, pg2, E2, rk2

-----------------------------------------------------------------------------
(* A leaf cut in two. *)

\* What is held under a key of a leaf is of the values of the leaf.
LEMMA HeldIn ==
  ASSUME NEW M \in Counts, NEW T, NEW l, LeafOK(l, On(M, T)), NEW i \in 1 .. l.numKeys
  PROVE  l.key[i].val \in T
<1> DEFINE v == l.key[i].val
           N == On(M, T)
<1>1. v \in Values
  BY TypedIs
<1>2. PICK r \in RecIds : N[v][r] # 0
  BY HeldKey
<1>3. N[v] = IF v \in T THEN M[v] ELSE None
  BY <1>1, OnIs
<1>4. QED
  BY <1>2, <1>3, NoneIs

LeafHalves(s, new, l, S, h, E, rk, M, D, D2) ==
  Cut([s.first EXCEPT !.nextLeafPage = new], s.second, s.second.key[1].val, l, S, h, E, rk, M, D, D2)

\* The halves of SplitLeaf are a cut of the leaf.
LEMMA LeafCut ==
  ASSUME NEW l, NEW S \in SUBSET Values, NEW N \in Counts, LeafOK(l, On(N, S)), NEW D, NEW D2, D \subseteq D2,
         l.nextLeafPage \in {AM_NULL_PAGE} \cup D, NEW v \in Values, v \in S, NEW r \in RecIds,
         Small(Plus(N, v, r)), NEW index, NEW found, Spot(l, v, index, found), l.numKeys >= 2,
         NEW new \in D2, NEW h, NEW E, NEW rk
  PROVE  LeafHalves(SplitLeaf(l, v, r, index, found), new, l, S, h, E, rk, Plus(N, v, r), D, D2)
<1> DEFINE M == Plus(N, v, r)
           NS == On(N, S)
           s == SplitLeaf(l, v, r, index, found)
           f == s.first
           g == s.second
           key == g.key[1].val
           a == [f EXCEPT !.nextLeafPage = new]
           A == {w \in S : w < key}
           B == {w \in S : ~ (w < key)}
<1>1. M \in Counts /\ NS \in Counts /\ On(M, S) = Plus(NS, v, r) /\ Small(On(M, S))
  BY PlusIs, OnIs, OnPlus
<1>2. Small(Plus(NS, v, r))
  BY <1>1
<1>3. SplitFacts(f, g, l, NS, v, r)
  <2> HIDE DEF NS
  <2>1. LeafOK(l, NS)
    BY DEF NS
  <2>2. QED
    BY <1>1, <1>2, <2>1, SplitIs
<1> HIDE DEF s
<1>4. /\ f.numKeys \in Nat \ {0} /\ g.numKeys \in Nat \ {0} /\ g.nextLeafPage = l.nextLeafPage
      /\ key \in Values /\ LeafOK(f, Low(On(M, S), key)) /\ LeafOK(g, High(On(M, S), key))
  BY <1>1, <1>3 DEF SplitFacts
<1>5. Low(On(M, S), key) = On(M, A) /\ High(On(M, S), key) = On(M, B)
  <2> DEFINE k == key
  <2> HIDE DEF k, M
  <2>1. Low(On(M, S), k) = On(M, {w \in S : w < k}) /\ High(On(M, S), k) = On(M, {w \in S : ~ (w < k)})
    BY <1>1, OnHalves
  <2>2. QED
    BY <2>1 DEF k
<1> HIDE DEF M, A, B, NS
<1>6. LeafOK(f, On(M, A)) /\ LeafOK(g, On(M, B))
  BY <1>4, <1>5
<1> HIDE DEF f, g
<1>7. 1 \in 1 .. f.numKeys /\ 1 \in 1 .. g.numKeys
  BY <1>4
<1>8. f.key[1].val \in A /\ g.key[1].val \in B
  <2> DEFINE i == 1
  <2>1. i \in 1 .. f.numKeys /\ i \in 1 .. g.numKeys
    BY <1>7
  <2> HIDE DEF i
  <2>2. f.key[i].val \in A
    BY <1>1, <1>6, <2>1, HeldIn
  <2>3. g.key[i].val \in B
    BY <1>1, <1>6, <2>1, HeldIn
  <2>4. QED
    BY <2>2, <2>3 DEF i
<1>9. key \in S /\ \E w \in S : w < key
  BY <1>8 DEF A, B
<1>10. LeafOK(a, On(M, A)) /\ a.nextLeafPage = new /\ a.type = "l"
  <2> DEFINE K == On(M, A)
  <2>1. LeafOK(f, K)
    BY <1>6
  <2> HIDE DEF K
  <2>2. LeafOK(a, K) /\ a.nextLeafPage = new /\ a.type = "l"
    BY <2>1, NextLeafIs
  <2>3. QED
    BY <2>2 DEF K
<1>11. g.type = "l" /\ l.type = "l"
  BY <1>6, TypedIs DEF LeafTyped
<1> HIDE DEF a
<1>12. PageOK(a, A, h, E, rk, M, D2, MaxKeys)
  BY <1>10 DEF PageOK
<1>13. PageOK(g, B, h, E, rk, M, D2, MaxKeys)
  BY <1>4, <1>6, <1>11 DEF PageOK
<1>14. KidsCut(a, g, l, D)
  <2>1. Kids(a) = <<>> /\ Kids(g) = <<>> /\ Kids(l) = <<>>
    BY <1>10, <1>11 DEF Kids
  <2>2. <<>> \in Seq(D) /\ Len(<<>>) = 0
    OBVIOUS
  <2>3. QED
    BY <2>1, <2>2 DEF KidsCut
<1>15. Cut(a, g, key, l, S, h, E, rk, M, D, D2)
  BY <1>9, <1>10, <1>11, <1>12, <1>13, <1>14 DEF Cut, A, B
<1>16. QED
  BY <1>15 DEF LeafHalves, a, f, g, s, M

-----------------------------------------------------------------------------
(* An internal node cut in two. *)

\* The keys K before and behind the key at c.
Before(L, K, c) == Len(L) = c - 1 /\ \A k \in 1 .. c - 1 : L[k] = K[k]
Behind(L, K, c) == Len(L) = Len(K) - c /\ \A k \in 1 .. Len(K) - c : L[k] = K[c + k]

BeforeFacts(L, K, c, S) ==
  /\ Ordered(L) /\ \A i \in 1 .. Len(L) : L[i] < K[c]
  /\ \A i \in 1 .. c : Region({v \in S : v < K[c]}, L, i) = Region(S, K, i)

\* The keys before c ascend and keep their places.
LEMMA BeforeKeys ==
  ASSUME NEW K \in Seq(Values), Ordered(K), NEW c \in 1 .. Len(K), c > 1, NEW L, Before(L, K, c),
         NEW S, S \subseteq Values
  PROVE  BeforeFacts(L, K, c, S)
<1> DEFINE n == Len(K)
           x == K[c]
<1>1. n \in Nat /\ c \in Nat /\ c <= n /\ \A k \in 1 .. n : K[k] \in Int
  BY KeyInts
<1>2. \A i, j \in 1 .. n : i < j => K[i] < K[j]
  BY DEF Ordered
<1>3. Len(L) = c - 1 /\ \A k \in 1 .. c - 1 : L[k] = K[k] /\ k \in 1 .. n /\ K[k] < x
  BY <1>1, <1>2 DEF Before
<1>4. Ordered(L)
  BY <1>1, <1>2, <1>3 DEF Ordered
<1>5. ASSUME NEW i \in 1 .. c PROVE Region({v \in S : v < x}, L, i) = Region(S, K, i)
  <2>1. ASSUME NEW v \in S PROVE (v < x /\ InSlot(L, i, v)) <=> InSlot(K, i, v)
    <3>1. v \in Int /\ x \in Int /\ i \in Nat
      BY <1>1, ValuesInt
    <3>2. i > 1 => i - 1 \in 1 .. c - 1 /\ L[i - 1] = K[i - 1]
      BY <1>1, <1>3
    <3>3. CASE i = c
      <4>1. ~ (i <= Len(L)) /\ i <= n
        BY <1>1, <1>3, <3>3
      <4>2. QED
        BY <3>2, <3>3, <4>1 DEF InSlot
    <3>4. CASE i # c
      <4>1. i <= Len(L) /\ i <= n /\ L[i] = K[i] /\ K[i] < x /\ K[i] \in Int
        BY <1>1, <1>3, <3>4
      <4>2. v < K[i] => v < x
        BY <3>1, <4>1
      <4>3. QED
        BY <3>2, <4>1, <4>2 DEF InSlot
    <3>5. QED
      BY <3>3, <3>4
  <2>2. QED
    BY <2>1 DEF Region
<1>6. QED
  BY <1>3, <1>4, <1>5 DEF BeforeFacts

BehindFacts(L, K, c, S) ==
  /\ Ordered(L) /\ \A i \in 1 .. Len(L) : K[c] < L[i]
  /\ \A i \in 1 .. Len(K) + 1 - c : Region({v \in S : ~ (v < K[c])}, L, i) = Region(S, K, c + i)

\* The keys behind c ascend and keep their places.
LEMMA BehindKeys ==
  ASSUME NEW K \in Seq(Values), Ordered(K), NEW c \in 1 .. Len(K), NEW L, Behind(L, K, c),
         NEW S, S \subseteq Values
  PROVE  BehindFacts(L, K, c, S)
<1> DEFINE n == Len(K)
           x == K[c]
<1>1. n \in Nat /\ c \in Nat /\ c >= 1 /\ c <= n /\ \A k \in 1 .. n : K[k] \in Int
  BY KeyInts
<1>2. \A i, j \in 1 .. n : i < j => K[i] < K[j]
  BY DEF Ordered
<1>3. Len(L) = n - c /\ \A k \in 1 .. n - c : L[k] = K[c + k] /\ c + k \in 1 .. n /\ x < K[c + k]
  <2>1. ASSUME NEW k \in 1 .. n - c PROVE c + k \in 1 .. n /\ c < c + k
    BY <1>1
  <2>2. QED
    BY <1>2, <2>1 DEF Behind
<1> HIDE DEF n
<1>4. ASSUME NEW i \in 1 .. n - c, NEW j \in 1 .. n - c, i < j PROVE L[i] < L[j]
  <2>1. c + i \in 1 .. n /\ c + j \in 1 .. n /\ c + i < c + j
    BY <1>1, <1>4
  <2>2. QED
    BY <1>2, <1>3, <2>1
<1>5. ASSUME NEW i \in 1 .. n + 1 - c PROVE Region({v \in S : ~ (v < x)}, L, i) = Region(S, K, c + i)
  <2>1. ASSUME NEW v \in S PROVE (~ (v < x) /\ InSlot(L, i, v)) <=> InSlot(K, c + i, v)
    <3>1. v \in Int /\ x \in Int /\ i \in Nat /\ i >= 1 /\ i <= n + 1 - c
      BY <1>1, ValuesInt
    <3>2. c + i > 1 /\ c + i - 1 = c + (i - 1) /\ (i <= Len(L) <=> c + i <= Len(K))
      BY <1>1, <1>3, <3>1 DEF n
    <3>3. i <= Len(L) => L[i] = K[c + i]
      BY <1>1, <1>3, <3>1
    <3>4. CASE i = 1
      <4>1. c + i - 1 = c /\ ~ (i > 1)
        BY <1>1, <3>4
      <4>2. ~ (v < x) <=> K[c] <= v
        BY <3>1
      <4>3. QED
        BY <3>2, <3>3, <4>1, <4>2 DEF InSlot
    <3>5. CASE i # 1
      <4>1. i > 1 /\ i - 1 \in 1 .. n - c
        BY <1>1, <3>1, <3>5
      <4>2. L[i - 1] = K[c + (i - 1)] /\ x < K[c + (i - 1)] /\ K[c + (i - 1)] \in Int
        BY <1>1, <1>3, <4>1
      <4>3. K[c + (i - 1)] <= v => ~ (v < x)
        BY <3>1, <4>2
      <4>4. QED
        BY <3>2, <3>3, <4>1, <4>2, <4>3 DEF InSlot
    <3>6. QED
      BY <3>4, <3>5
  <2>2. QED
    BY <2>1 DEF Region
<1>6. QED
  BY <1>3, <1>4, <1>5 DEF Ordered, BehindFacts, n

IntHalves(n) ==
  LET half == MaxKeys \div 2
  IN  [first  |-> Node(SubSeq(n.key, 1, half), SubSeq(n.ptr, 1, half + 1)),
       up     |-> n.key[half + 1],
       second |-> Node(SubSeq(n.key, half + 2, MaxKeys + 1), SubSeq(n.ptr, half + 2, MaxKeys + 2))]

\* The halves of AM_SplitIntNode.
LEMMA HalvesAre ==
  ASSUME NEW n, NEW value, NEW new, NEW offset
  PROVE  AM_SplitIntNode(n, value, new, offset) = IntHalves(AM_AddtoIntPage(n, value, new, offset))
BY DEF AM_SplitIntNode, IntHalves

\* One side of an internal node with the key at c taken out.
LEMMA SideOK ==
  ASSUME NEW K, NEW T, NEW S, NEW h, NEW F, NEW rk, NEW D, NEW M, K \in Seq(Values), T \in Seq(D),
         Len(T) = Len(K) + 1, Len(K) >= 1, Len(K) <= MaxKeys, Ordered(K),
         \A i \in 1 .. Len(K) : K[i] \in S,
         \A i \in 1 .. Len(T) : F[T[i]] = Region(S, K, i) /\ rk[T[i]] < h
  PROVE  PageOK(Node(K, T), S, h, F, rk, M, D, MaxKeys)
<1> DEFINE n == Node(K, T)
<1>1. n.key = K /\ n.ptr = T /\ n.type = "i" /\ n = Node(n.key, n.ptr)
  BY DEF Node
<1> HIDE DEF n
<1>2. IntOK(n, S, h, F, rk, D)
  BY <1>1 DEF IntOK
<1>3. QED
  BY <1>1, <1>2 DEF PageOK, n

NodeCut(s, n, S, h, F, rk, M, D, D2) == Cut(s.first, s.second, s.up, n, S, h, F, rk, M, D, D2)

\* The halves of AM_SplitIntNode are a cut of the full node and the new key.
LEMMA IntCut ==
  ASSUME NEW n, NEW S \in SUBSET Values, NEW h, NEW F, NEW rk, NEW D, IntOK(n, S, h, F, rk, D),
         n.type = "i", Len(n.key) = MaxKeys + 1, NEW D2, D \subseteq D2, NEW M
  PROVE  NodeCut(IntHalves(n), n, S, h, F, rk, M, D, D2)
<1> DEFINE half == MaxKeys \div 2
           c == half + 1
           K == n.key
           T == n.ptr
           x == K[c]
           K1 == SubSeq(K, 1, half)
           T1 == SubSeq(T, 1, half + 1)
           K2 == SubSeq(K, half + 2, MaxKeys + 1)
           T2 == SubSeq(T, half + 2, MaxKeys + 2)
           A == {v \in S : v < x}
           B == {v \in S : ~ (v < x)}
<1>1. half \in Nat /\ half >= 1 /\ MaxKeys = 2 * half /\ MaxKeys \in Nat
  BY AMAssumption
<1>2. /\ K \in Seq(Values) /\ T \in Seq(D) /\ Len(T) = Len(K) + 1 /\ Ordered(K)
      /\ \A i \in 1 .. Len(K) : K[i] \in S
      /\ \A i \in 1 .. Len(T) : F[T[i]] = Region(S, K, i) /\ rk[T[i]] < h
  BY DEF IntOK
<1>3. /\ Len(K) = 2 * half + 1 /\ Len(T) = 2 * half + 2 /\ c \in 1 .. Len(K) /\ c > 1 /\ c \in Nat /\ c = half + 1
      /\ MaxKeys + 1 = 2 * half + 1 /\ MaxKeys + 2 = 2 * half + 2
  BY <1>1, <1>2
<1> HIDE DEF half, c, K, T
<1>4. Piece(K1, K, Values, 1, half)
  BY <1>1, <1>2, <1>3, PieceIs
<1>5. Piece(T1, T, D, 1, half + 1)
  BY <1>1, <1>2, <1>3, PieceIs
<1>6. Piece(K2, K, Values, half + 2, MaxKeys + 1)
  BY <1>1, <1>2, <1>3, PieceIs
<1>7. Piece(T2, T, D, half + 2, MaxKeys + 2)
  BY <1>1, <1>2, <1>3, PieceIs
<1> HIDE DEF K1, K2, T1, T2
<1>8. /\ K1 \in Seq(Values) /\ Len(K1) = half /\ \A k \in 1 .. half : K1[k] = K[k]
      /\ T1 \in Seq(D) /\ Len(T1) = half + 1 /\ \A k \in 1 .. half + 1 : T1[k] = T[k]
  <2>1. \A k \in 1 .. half + 1 : 1 + k - 1 = k
    BY <1>1
  <2>2. half - 1 + 1 = half /\ half + 1 - 1 + 1 = half + 1 /\ \A k \in 1 .. half : 1 + k - 1 = k
    BY <1>1
  <2>3. QED
    BY <1>4, <1>5, <2>1, <2>2 DEF Piece
<1>9. /\ K2 \in Seq(Values) /\ Len(K2) = half /\ \A k \in 1 .. half : K2[k] = K[c + k]
      /\ T2 \in Seq(D) /\ Len(T2) = half + 1 /\ \A k \in 1 .. half + 1 : T2[k] = T[c + k]
  <2>1. \A k \in 1 .. half + 1 : half + 2 + k - 1 = c + k
    BY <1>1, <1>3
  <2>2. MaxKeys + 1 - (half + 2) + 1 = half /\ MaxKeys + 2 - (half + 2) + 1 = half + 1
        /\ \A k \in 1 .. half : half + 2 + k - 1 = c + k
    BY <1>1, <1>3
  <2> DEFINE w == half + 2
             u == MaxKeys + 1
             y == MaxKeys + 2
             q == half + 1
  <2> HIDE DEF w, u, y, q
  <2>8. u - w + 1 = half /\ y - w + 1 = q
    BY <1>1 DEF w, u, y, q
  <2>9. Piece(K2, K, Values, w, u) /\ Piece(T2, T, D, w, y)
    BY <1>6, <1>7 DEF w, u, y
  <2>3. Piece(K2, K, Values, w, u) /\ Piece(T2, T, D, w, y) /\ u - w + 1 = half /\ y - w + 1 = q
    BY <2>8, <2>9
  <2>4. /\ K2 \in Seq(Values) /\ Len(K2) = half /\ \A k \in 1 .. half : K2[k] = K[w + k - 1]
        /\ T2 \in Seq(D) /\ Len(T2) = q /\ \A k \in 1 .. q : T2[k] = T[w + k - 1]
    BY <2>3 DEF Piece
  <2>5. \A k \in 1 .. half : K2[k] = K[c + k]
    BY <2>2, <2>4 DEF w
  <2>6. \A k \in 1 .. half + 1 : T2[k] = T[c + k]
    BY <2>1, <2>4 DEF w, q
  <2>7. QED
    BY <2>4, <2>5, <2>6 DEF q
<1>10. Before(K1, K, c) /\ Behind(K2, K, c)
  <2>1. c - 1 = half /\ Len(K) - c = half
    BY <1>1, <1>3
  <2>2. QED
    BY <1>8, <1>9, <2>1 DEF Before, Behind
<1>11. /\ Ordered(K1) /\ \A i \in 1 .. Len(K1) : K1[i] < x
       /\ \A i \in 1 .. c : Region(A, K1, i) = Region(S, K, i)
  <2>1. S \subseteq Values
    OBVIOUS
  <2>2. BeforeFacts(K1, K, c, S)
    BY <1>2, <1>3, <1>10, <2>1, BeforeKeys
  <2>3. QED
    BY <2>2 DEF BeforeFacts
<1>12. /\ Ordered(K2) /\ \A i \in 1 .. Len(K2) : x < K2[i]
       /\ \A i \in 1 .. Len(K) + 1 - c : Region(B, K2, i) = Region(S, K, c + i)
  <2>1. S \subseteq Values
    OBVIOUS
  <2>2. BehindFacts(K2, K, c, S)
    BY <1>2, <1>3, <1>10, <2>1, BehindKeys
  <2>3. QED
    BY <2>2 DEF BehindFacts
<1>13. \A k \in 1 .. half : k \in 1 .. Len(K) /\ c + k \in 1 .. Len(K)
  BY <1>1, <1>3
<1>14. \A i \in 1 .. Len(K1) : K1[i] \in A
  BY <1>2, <1>8, <1>11, <1>13
<1>15. \A i \in 1 .. Len(K2) : K2[i] \in B
  <2>1. ASSUME NEW i \in 1 .. Len(K2) PROVE ~ (K2[i] < x) /\ K2[i] \in S
    <3>1. K2[i] = K[c + i] /\ c + i \in 1 .. Len(K)
      BY <1>9, <1>13
    <3>2. K2[i] \in Int /\ x \in Int /\ x < K2[i]
      BY <1>2, <1>3, <1>12, <3>1, KeyInts
    <3>3. QED
      BY <1>2, <3>1, <3>2
  <2>2. QED
    BY <2>1
<1>16. x \in S /\ \E v \in S : v < x
  <2>1. 1 \in 1 .. Len(K1)
    BY <1>1, <1>8
  <2>2. K1[1] \in A
    BY <1>14, <2>1
  <2>3. QED
    BY <1>2, <1>3, <2>2
<1>17. \A i \in 1 .. Len(T1) : F[T1[i]] = Region(A, K1, i) /\ rk[T1[i]] < h
  <2>1. ASSUME NEW i \in 1 .. half + 1 PROVE F[T1[i]] = Region(A, K1, i) /\ rk[T1[i]] < h
    <3>1. T1[i] = T[i] /\ i \in 1 .. Len(T) /\ i \in 1 .. c
      BY <1>1, <1>3, <1>8
    <3>2. QED
      BY <1>2, <1>11, <3>1
  <2>2. QED
    BY <1>8, <2>1
<1>18. \A i \in 1 .. Len(T2) : F[T2[i]] = Region(B, K2, i) /\ rk[T2[i]] < h
  <2>1. ASSUME NEW i \in 1 .. half + 1 PROVE F[T2[i]] = Region(B, K2, i) /\ rk[T2[i]] < h
    <3>1. T2[i] = T[c + i] /\ c + i \in 1 .. Len(T) /\ i \in 1 .. Len(K) + 1 - c
      BY <1>1, <1>3, <1>9
    <3>2. QED
      BY <1>2, <1>12, <3>1
  <2>2. QED
    BY <1>9, <2>1
<1>19. T1 \in Seq(D2) /\ T2 \in Seq(D2)
  BY <1>8, <1>9, SeqMonotonic
<1> HIDE DEF A, B, x
<1>20. PageOK(Node(K1, T1), A, h, F, rk, M, D2, MaxKeys)
  <2>1. Len(T1) = Len(K1) + 1 /\ Len(K1) >= 1 /\ Len(K1) <= MaxKeys
    BY <1>1, <1>8
  <2>2. QED
    BY <1>8, <1>11, <1>14, <1>17, <1>19, <2>1, SideOK
<1>21. PageOK(Node(K2, T2), B, h, F, rk, M, D2, MaxKeys)
  <2>1. Len(T2) = Len(K2) + 1 /\ Len(K2) >= 1 /\ Len(K2) <= MaxKeys
    BY <1>1, <1>9
  <2>2. QED
    BY <1>9, <1>12, <1>15, <1>18, <1>19, <2>1, SideOK
<1>22. KidsCut(Node(K1, T1), Node(K2, T2), n, D)
  <2> DEFINE a == Node(K1, T1)
             b == Node(K2, T2)
  <2>1. Kids(a) = T1 /\ Kids(b) = T2 /\ Kids(n) = T
    BY DEF Kids, Node, T
  <2> HIDE DEF a, b
  <2>2. Len(T1) + Len(T2) = Len(T) /\ Len(T1) = c
    BY <1>1, <1>3, <1>8, <1>9
  <2>3. \A k \in 1 .. Len(T1) : T1[k] = T[k]
    BY <1>3, <1>8, <2>2
  <2>4. \A k \in 1 .. Len(T2) : T2[k] = T[Len(T1) + k]
    BY <1>3, <1>9, <2>2
  <2>5. KidsCut(a, b, n, D)
    BY <1>8, <1>9, <2>1, <2>2, <2>3, <2>4 DEF KidsCut
  <2>6. QED
    BY <2>5 DEF a, b
<1>23. IntHalves(n).first = Node(K1, T1) /\ IntHalves(n).second = Node(K2, T2) /\ IntHalves(n).up = x
  BY DEF IntHalves, half, c, K, T, K1, K2, T1, T2, x
<1>24. Node(K1, T1).type = "i" /\ Node(K2, T2).type = "i"
  BY DEF Node
<1>25. Cut(Node(K1, T1), Node(K2, T2), x, n, S, h, F, rk, M, D, D2)
  BY <1>16, <1>20, <1>21, <1>22, <1>24 DEF Cut, A, B
<1>26. QED
  BY <1>23, <1>25 DEF NodeCut

-----------------------------------------------------------------------------
(* The pages allocated. *)

PagesAre(pg, m) == m \in Nat \ {0} /\ pg = [o \in 0 .. m - 1 |-> pg[o]]

\* The pages are as many as their numbers say.
LEMMA PageCount ==
  ASSUME NEW pg, NEW m, PagesAre(pg, m)
  PROVE  DOMAIN pg = 0 .. m - 1 /\ Cardinality(DOMAIN pg) = m
<1>1. m \in Nat \ {0} /\ DOMAIN pg = 0 .. m - 1
  BY DEF PagesAre
<1>2. Cardinality(0 .. m - 1) = m
  <2>1. 0 \in Int /\ m - 1 \in Int
    BY <1>1
  <2>2. Cardinality(0 .. m - 1) = IF 0 > m - 1 THEN 0 ELSE m - 1 - 0 + 1
    BY <2>1, FS_Interval
  <2>3. QED
    BY <1>1, <2>2
<1>3. QED
  BY <1>1, <1>2

\* Allocated with one page.
LEMMA OneAllocated ==
  ASSUME NEW pg, NEW m, PagesAre(pg, m), NEW p \in 0 .. m - 1, NEW a, NEW b
  PROVE  [Allocated(pg, <<b>>) EXCEPT ![p] = a] = CutPages(pg, m, p, a, b)
<1> DEFINE x == Allocated(pg, <<b>>)
           D == 0 .. m - 1
<1>1. m \in Nat \ {0} /\ DOMAIN pg = D /\ Cardinality(DOMAIN pg) = m
  BY PageCount DEF PagesAre
<1>2. Len(<<b>>) = 1 /\ <<b>>[1] = b
  OBVIOUS
<1>3. m + 1 - 1 = m /\ m - m + 1 = 1
  BY <1>1
<1>4. x = [o \in 0 .. m |-> IF o \in D THEN pg[o] ELSE <<b>>[o - m + 1]]
  BY <1>1, <1>2, <1>3 DEF Allocated
<1>5. \A o \in 0 .. m : x[o] = IF o \in D THEN pg[o] ELSE b
  <2>1. ASSUME NEW o \in 0 .. m PROVE x[o] = IF o \in D THEN pg[o] ELSE b
    <3>1. CASE o \in D
      BY <1>4, <3>1
    <3>2. CASE o \notin D
      <4>1. o = m
        BY <1>1, <3>2
      <4>2. x[o] = <<b>>[o - m + 1]
        BY <1>4, <3>2
      <4>3. o - m + 1 = 1
        BY <1>1, <4>1
      <4>4. QED
        BY <1>2, <3>2, <4>2, <4>3
    <3>3. QED
      BY <3>1, <3>2
  <2>2. QED
    BY <2>1
<1>6. DOMAIN x = 0 .. m
  BY <1>4
<1> HIDE DEF x
<1>7. [x EXCEPT ![p] = a] = [o \in 0 .. m |-> IF o = p THEN a ELSE x[o]]
  BY <1>6
<1>8. \A o \in 0 .. m : (IF o = p THEN a ELSE x[o]) = (IF o = p THEN a ELSE IF o = m THEN b ELSE pg[o])
  <2>1. \A o \in 0 .. m : o \in D <=> o # m
    BY <1>1
  <2>2. QED
    BY <1>5, <2>1
<1>9. QED
  BY <1>7, <1>8 DEF CutPages, x

\* Allocated with two pages.
LEMMA TwoAllocated ==
  ASSUME NEW pg, NEW m, PagesAre(pg, m), NEW a, NEW b, NEW key
  PROVE  [Allocated(pg, <<b, a>>) EXCEPT ![0] = Node(<<key>>, <<m + 1, m>>)] = RootPages(pg, m, a, b, key)
<1> DEFINE x == Allocated(pg, <<b, a>>)
           r == Node(<<key>>, <<m + 1, m>>)
           D == 0 .. m - 1
<1>1. m \in Nat \ {0} /\ DOMAIN pg = D /\ Cardinality(DOMAIN pg) = m
  BY PageCount DEF PagesAre
<1>2. Len(<<b, a>>) = 2 /\ <<b, a>>[1] = b /\ <<b, a>>[2] = a
  OBVIOUS
<1>3. m + 2 - 1 = m + 1 /\ m - m + 1 = 1 /\ m + 1 - m + 1 = 2
  BY <1>1
<1>4. x = [o \in 0 .. m + 1 |-> IF o \in D THEN pg[o] ELSE <<b, a>>[o - m + 1]]
  BY <1>1, <1>2, <1>3 DEF Allocated
<1>5. \A o \in 0 .. m + 1 : x[o] = IF o = m THEN b ELSE IF o = m + 1 THEN a ELSE pg[o]
  <2>1. ASSUME NEW o \in 0 .. m + 1 PROVE x[o] = IF o = m THEN b ELSE IF o = m + 1 THEN a ELSE pg[o]
    <3>1. CASE o \in D
      <4>1. o # m /\ o # m + 1
        BY <1>1, <3>1
      <4>2. QED
        BY <1>4, <3>1, <4>1
    <3>2. CASE o = m
      <4>1. o \notin D /\ o - m + 1 = 1
        BY <1>1, <3>2
      <4>2. x[o] = <<b, a>>[o - m + 1]
        BY <1>4, <4>1
      <4>3. QED
        BY <1>2, <3>2, <4>1, <4>2
    <3>3. CASE o = m + 1
      <4>1. o \notin D /\ o - m + 1 = 2 /\ o # m
        BY <1>1, <3>3
      <4>2. x[o] = <<b, a>>[o - m + 1]
        BY <1>4, <4>1
      <4>3. QED
        BY <1>2, <3>3, <4>1, <4>2
    <3>4. o \in D \/ o = m \/ o = m + 1
      BY <1>1
    <3>5. QED
      BY <3>1, <3>2, <3>3, <3>4
  <2>2. QED
    BY <2>1
<1>6. DOMAIN x = 0 .. m + 1
  BY <1>4
<1> HIDE DEF x, r
<1>7. [x EXCEPT ![0] = r] = [o \in 0 .. m + 1 |-> IF o = 0 THEN r ELSE x[o]]
  BY <1>1, <1>6
<1>8. \A o \in 0 .. m + 1 : (IF o = 0 THEN r ELSE x[o])
         = (IF o = 0 THEN r ELSE IF o = m THEN b ELSE IF o = m + 1 THEN a ELSE pg[o])
  BY <1>5
<1>9. QED
  BY <1>7, <1>8 DEF RootPages, x, r

\* What the page that is cut was is no matter.
AnywayFacts(pg, m, p, n, a, b, key) ==
  LET x == [pg EXCEPT ![p] = n]
  IN  /\ CutPages(x, m, p, a, b) = CutPages(pg, m, p, a, b)
      /\ p = 0 => RootPages(x, m, a, b, key) = RootPages(pg, m, a, b, key)

\* A page cut in two, be it the root or not.
LEMMA CutAnyway ==
  ASSUME NEW pg, NEW m, PagesAre(pg, m), NEW p \in 0 .. m - 1, NEW n, NEW a, NEW b, NEW key
  PROVE  AnywayFacts(pg, m, p, n, a, b, key)
<1> DEFINE x == [pg EXCEPT ![p] = n]
<1>1. m \in Nat \ {0} /\ DOMAIN pg = 0 .. m - 1
  BY DEF PagesAre
<1>2. x[p] = n /\ \A o \in 0 .. m - 1 : o # p => x[o] = pg[o]
  BY <1>1
<1> HIDE DEF x
<1>4. \A o \in 0 .. m : o = p \/ o = m \/ x[o] = pg[o]
  BY <1>1, <1>2
<1>5. p = 0 => \A o \in 0 .. m + 1 : o = 0 \/ o = m \/ o = m + 1 \/ x[o] = pg[o]
  BY <1>1, <1>2
<1>6. CutPages(x, m, p, a, b) = CutPages(pg, m, p, a, b)
  BY <1>4 DEF CutPages
<1>7. p = 0 => RootPages(x, m, a, b, key) = RootPages(pg, m, a, b, key)
  BY <1>5 DEF RootPages
<1>8. QED
  BY <1>6, <1>7 DEF AnywayFacts, x

-----------------------------------------------------------------------------
(* The way from the root to a page. *)

\* The pages on a way of j steps to the page q.
WayAt(way, j, q, h) == IF h <= j THEN way[h].pageNumber ELSE q
StepDown(pg, way, j, q, h) ==
  LET p == WayAt(way, j, q, h)
      i == way[h].offset + 1
  IN  /\ way[h].offset \in Nat /\ pg[p].type = "i" /\ i \in 1 .. Len(pg[p].ptr)
      /\ pg[p].ptr[i] = WayAt(way, j, q, h + 1)
\* A way from the page top down to the page q.
WayTo(pg, m, way, j, q, top) ==
  /\ \A h \in 1 .. j + 1 : WayAt(way, j, q, h) \in 0 .. m - 1
  /\ WayAt(way, j, q, 1) = top
  /\ \A g, h \in 1 .. j + 1 : g < h => WayAt(way, j, q, g) # WayAt(way, j, q, h)
  /\ \A h \in 1 .. j : StepDown(pg, way, j, q, h)

\* The way without its last page.
LEMMA WayShorter ==
  ASSUME NEW pg, NEW m \in Nat, NEW way, NEW j \in Nat, j # 0, NEW q, NEW top, WayTo(pg, m, way, j, q, top),
         NEW p, p = way[j].pageNumber, NEW pg2, NEW m2 \in Nat, m <= m2,
         \A o \in 0 .. m - 1 : o # p => pg2[o] = pg[o]
  PROVE  WayTo(pg2, m2, way, j - 1, p, top)
<1> DEFINE i == j - 1
<1>1. i \in Nat /\ i + 1 = j /\ 1 .. i \subseteq 1 .. j /\ 1 .. i + 1 \subseteq 1 .. j + 1
  OBVIOUS
<1> HIDE DEF i
<1>2. \A h \in 1 .. i + 1 : WayAt(way, i, p, h) = WayAt(way, j, q, h) /\ WayAt(way, i, p, h) = way[h].pageNumber
  BY <1>1 DEF WayAt
<1>3. 0 .. m - 1 \subseteq 0 .. m2 - 1
  OBVIOUS
<1>4. \A h \in 1 .. i + 1 : WayAt(way, i, p, h) \in 0 .. m2 - 1
  BY <1>1, <1>2, <1>3 DEF WayTo
<1>5. WayAt(way, i, p, 1) = top
  <2>1. 1 \in 1 .. i + 1
    BY <1>1
  <2>2. QED
    BY <1>2, <2>1 DEF WayTo
<1>6. \A g, h \in 1 .. i + 1 : g < h => WayAt(way, i, p, g) # WayAt(way, i, p, h)
  BY <1>1, <1>2 DEF WayTo
<1>7. ASSUME NEW h \in 1 .. i PROVE StepDown(pg2, way, i, p, h)
  <2>1. h \in 1 .. j /\ h \in 1 .. i + 1 /\ h + 1 \in 1 .. i + 1 /\ h < j /\ j \in 1 .. i + 1 /\ j \in 1 .. j + 1 /\ h \in 1 .. j + 1
    BY <1>1
  <2>2. StepDown(pg, way, j, q, h)
    BY <2>1 DEF WayTo
  <2>3. WayAt(way, j, q, j) = p
    BY <1>1 DEF WayAt
  <2>4. WayAt(way, j, q, h) # p /\ WayAt(way, j, q, h) \in 0 .. m - 1
    BY <2>1, <2>3 DEF WayTo
  <2>5. WayAt(way, i, p, h) = WayAt(way, j, q, h) /\ WayAt(way, i, p, h + 1) = WayAt(way, j, q, h + 1)
    BY <1>2, <2>1
  <2>6. pg2[WayAt(way, j, q, h)] = pg[WayAt(way, j, q, h)]
    BY <2>4
  <2>7. QED
    BY <2>2, <2>5, <2>6 DEF StepDown
<1>8. WayTo(pg2, m2, way, i, p, top)
  BY <1>4, <1>5, <1>6, <1>7 DEF WayTo
<1>9. QED
  BY <1>8 DEF i

-----------------------------------------------------------------------------
(* One level up. *)

State(pg, new, key, done) == [page |-> pg, pageNum |-> new, key |-> key, done |-> done]
Room(pg, new, key, top) ==
  State([pg EXCEPT ![top.pageNumber] = AM_AddtoIntPage(pg[top.pageNumber], key, new, top.offset)], new, key, TRUE)
NewTop(pg, new, key, top) ==
  LET halves == AM_SplitIntNode(pg[top.pageNumber], key, new, top.offset)
      m == Cardinality(DOMAIN pg)
  IN  State([Allocated(pg, <<halves.second, halves.first>>)
               EXCEPT ![top.pageNumber] = Node(<<halves.up>>, <<m + 1, m>>)], new, key, TRUE)
NextUp(pg, new, key, top) ==
  LET halves == AM_SplitIntNode(pg[top.pageNumber], key, new, top.offset)
  IN  State([Allocated(pg, <<halves.second>>) EXCEPT ![top.pageNumber] = halves.first],
            Cardinality(DOMAIN pg), halves.up, FALSE)
SetDone(s, x, d) == [s EXCEPT !.page = x, !.done = d]
SetNext(s, x, y, z) == [s EXCEPT !.page = x, !.key = y, !.pageNum = z]

\* The fields of a state of AM_AddtoParent.
LEMMA StateSet ==
  ASSUME NEW pg, NEW new, NEW key, NEW done, NEW x, NEW y, NEW z, NEW d
  PROVE  /\ SetDone(State(pg, new, key, done), x, d) = State(x, new, key, d)
         /\ SetNext(State(pg, new, key, done), x, y, z) = State(x, z, y, done)
<1> DEFINE s == State(pg, new, key, done)
<1>1. [s EXCEPT !.page = x] = State(x, new, key, done)
  BY DEF State
<1>2. [State(x, new, key, done) EXCEPT !.done = d] = State(x, new, key, d)
  BY DEF State
<1>3. [State(x, new, key, done) EXCEPT !.key = y] = State(x, new, y, done)
  BY DEF State
<1>4. [State(x, new, y, done) EXCEPT !.pageNum = z] = State(x, z, y, done)
  BY DEF State
<1> HIDE DEF s
<1>5. [s EXCEPT !.page = x, !.done = d] = [[s EXCEPT !.page = x] EXCEPT !.done = d]
  OBVIOUS
<1>6. [s EXCEPT !.page = x, !.key = y, !.pageNum = z]
        = [[[s EXCEPT !.page = x] EXCEPT !.key = y] EXCEPT !.pageNum = z]
  OBVIOUS
<1>7. QED
  BY <1>1, <1>2, <1>3, <1>4, <1>5, <1>6 DEF SetDone, SetNext, s

\* AddtoParentStep, by its cases.
LEMMA StepForm ==
  ASSUME NEW pg, NEW new, NEW key, NEW top
  PROVE  AddtoParentStep(State(pg, new, key, FALSE), top)
           = IF Len(pg[top.pageNumber].key) < MaxKeys THEN Room(pg, new, key, top)
             ELSE IF top.pageNumber = 0 THEN NewTop(pg, new, key, top) ELSE NextUp(pg, new, key, top)
<1> DEFINE s == State(pg, new, key, FALSE)
           p == top.pageNumber
           halves == AM_SplitIntNode(pg[p], key, new, top.offset)
<1>1. s.page = pg /\ s.pageNum = new /\ s.key = key
  BY DEF State
<1>2. \A x : SetDone(s, x, TRUE) = State(x, new, key, TRUE)
  <2> DEFINE yes == TRUE
             no == FALSE
             r == State(pg, new, key, no)
  <2> HIDE DEF yes, no
  <2>1. \A x : SetDone(r, x, yes) = State(x, new, key, yes)
    BY StateSet
  <2>2. QED
    BY <2>1 DEF yes, no
<1>3. \A x, y, z : SetNext(s, x, y, z) = State(x, z, y, FALSE)
  <2> DEFINE no == FALSE
             r == State(pg, new, key, no)
  <2> HIDE DEF no
  <2>1. \A x, y, z : SetNext(r, x, y, z) = State(x, z, y, no)
    BY StateSet
  <2>2. QED
    BY <2>1 DEF no
<1> HIDE DEF s
<1>5. CASE Len(pg[p].key) < MaxKeys
  <2> DEFINE x == AM_AddtoIntPage(pg[p], key, new, top.offset)
  <2>1. AddtoParentStep(s, top) = [s EXCEPT !.page[p] = x, !.done = TRUE]
    BY <1>1, <1>5 DEF AddtoParentStep
  <2> HIDE DEF x
  <2>2. [s EXCEPT !.page[p] = x, !.done = TRUE] = SetDone(s, [s.page EXCEPT ![p] = x], TRUE)
    BY DEF SetDone
  <2> DEFINE w == [pg EXCEPT ![p] = x]
  <2>3. AddtoParentStep(s, top) = SetDone(s, w, TRUE)
    BY <1>1, <2>1, <2>2
  <2> HIDE DEF w
  <2>4. AddtoParentStep(s, top) = State(w, new, key, TRUE)
    BY <1>2, <2>3
  <2>5. QED
    BY <1>5, <2>4 DEF Room, w, x, s
<1>6. CASE ~ (Len(pg[p].key) < MaxKeys) /\ p = 0
  <2> DEFINE m == Cardinality(DOMAIN pg)
             w == [Allocated(pg, <<halves.second, halves.first>>) EXCEPT ![p] = Node(<<halves.up>>, <<m + 1, m>>)]
  <2>1. AddtoParentStep(s, top) = SetDone(s, w, TRUE)
    BY <1>1, <1>6 DEF AddtoParentStep, AM_RootPageNum, SetDone
  <2> HIDE DEF w
  <2>2. AddtoParentStep(s, top) = State(w, new, key, TRUE)
    BY <1>2, <2>1
  <2>3. QED
    BY <1>6, <2>2 DEF NewTop, w, s
<1>7. CASE ~ (Len(pg[p].key) < MaxKeys) /\ p # 0
  <2> DEFINE m == Cardinality(DOMAIN pg)
             w == [Allocated(pg, <<halves.second>>) EXCEPT ![p] = halves.first]
             y == halves.up
  <2>1. AddtoParentStep(s, top) = SetNext(s, w, y, m)
    BY <1>1, <1>7 DEF AddtoParentStep, AM_RootPageNum, SetNext
  <2> HIDE DEF w, m, y
  <2>2. AddtoParentStep(s, top) = State(w, m, y, FALSE)
    BY <1>3, <2>1
  <2>3. QED
    BY <1>7, <2>2 DEF NextUp, w, m, y, s
<1>8. QED
  BY <1>5, <1>6, <1>7

-----------------------------------------------------------------------------
(* The chain of the leaves. *)

\* The values from the least of S on, and those behind all of S.
From(S) == {v \in Values : \E w \in S : w <= v}
Above(S) == {v \in Values : \A w \in S : w < v}
\* S is not empty and has no gap.
Run(S) == S # {} /\ S \subseteq Values /\ \A u, w \in S : \A v \in Values : u <= v /\ v <= w => v \in S

\* Values are ordered as integers are.
LEMMA ValueOrder == Values \subseteq Int
  BY ValuesInt

RunCutFacts(S, A, B) ==
  Run(A) /\ Run(B) /\ From(A) = From(S) /\ Above(A) = From(B) /\ Above(B) = Above(S)

\* A run of values cut at a key: the second part begins behind the first.
LEMMA RunCut ==
  ASSUME NEW S, Run(S), NEW key \in S, \E v \in S : v < key
  PROVE  RunCutFacts(S, {v \in S : v < key}, {v \in S : ~ (v < key)})
<1> DEFINE A == {v \in S : v < key}
           B == {v \in S : ~ (v < key)}
<1>1. S \subseteq Values /\ Values \subseteq Int /\ key \in Int /\ S \subseteq Int
  BY ValueOrder DEF Run
<1>2. \A u, w \in S : \A v \in Values : u <= v /\ v <= w => v \in S
  BY DEF Run
<1>3. key \in B
  BY <1>1
<1>4. PICK least \in A : TRUE
  OBVIOUS
<1>5. Run(A)
  <2>1. ASSUME NEW u \in A, NEW w \in A, NEW v \in Values, u <= v, v <= w PROVE v \in A
    <3>1. v \in S
      BY <1>2, <2>1
    <3>2. u \in Int /\ v \in Int /\ w \in Int /\ w < key
      BY <1>1
    <3>3. v < key
      BY <1>1, <2>1, <3>2
    <3>4. QED
      BY <3>1, <3>3
  <2>2. QED
    BY <1>1, <1>4, <2>1 DEF Run
<1>6. Run(B)
  <2>1. ASSUME NEW u \in B, NEW w \in B, NEW v \in Values, u <= v, v <= w PROVE v \in B
    <3>1. v \in S
      BY <1>2, <2>1
    <3>2. u \in Int /\ v \in Int /\ w \in Int /\ ~ (u < key)
      BY <1>1
    <3>3. ~ (v < key)
      BY <1>1, <2>1, <3>2
    <3>4. QED
      BY <3>1, <3>3
  <2>2. QED
    BY <1>1, <1>3, <2>1 DEF Run
<1>7. From(A) = From(S)
  <2>1. ASSUME NEW v \in Values, NEW w \in S, w <= v PROVE \E u \in A : u <= v
    <3>1. CASE w < key
      BY <2>1, <3>1
    <3>2. CASE ~ (w < key)
      <4>1. least \in Int /\ least < key /\ w \in Int /\ v \in Int
        BY <1>1
      <4>2. least <= v
        BY <1>1, <2>1, <3>2, <4>1
      <4>3. QED
        BY <4>2
    <3>3. QED
      BY <3>1, <3>2
  <2>2. QED
    BY <2>1 DEF From
<1>8. Above(A) = From(B)
  <2>1. ASSUME NEW v \in Values, \A w \in A : w < v PROVE \E u \in B : u <= v
    <3>1. least \in Int /\ least < v /\ v \in Int
      BY <1>1, <2>1
    <3>2. CASE v < key
      <4>1. least <= v /\ v <= key
        BY <1>1, <3>1, <3>2
      <4>2. v \in S
        BY <1>2, <4>1
      <4>3. v \in A
        BY <3>2, <4>2
      <4>4. v < v
        BY <2>1, <4>3
      <4>5. QED
        BY <3>1, <4>4
    <3>3. CASE ~ (v < key)
      BY <1>1, <1>3, <3>1, <3>3
    <3>4. QED
      BY <3>2, <3>3
  <2>2. ASSUME NEW v \in Values, NEW u \in B, u <= v, NEW w \in A PROVE w < v
    <3>1. u \in Int /\ v \in Int /\ w \in Int /\ w < key /\ ~ (u < key)
      BY <1>1
    <3>2. QED
      BY <1>1, <2>2, <3>1
  <2>3. QED
    BY <2>1, <2>2 DEF From, Above
<1>9. Above(B) = Above(S)
  <2>1. ASSUME NEW v \in Values, \A w \in B : w < v, NEW w \in S PROVE w < v
    <3>1. key < v /\ v \in Int /\ w \in Int
      BY <1>1, <1>3, <2>1
    <3>2. CASE w < key
      BY <1>1, <3>1, <3>2
    <3>3. CASE ~ (w < key)
      BY <2>1, <3>3
    <3>4. QED
      BY <3>2, <3>3
  <2>2. QED
    BY <2>1 DEF Above
<1>10. QED
  BY <1>5, <1>6, <1>7, <1>8, <1>9 DEF RunCutFacts

\* The leaf of the values S has next behind it.
LinkOK(next, S, pg, E, m) ==
  /\ Run(S)
  /\ \/ next = AM_NULL_PAGE /\ Above(S) = {}
     \/ next \in 0 .. m - 1 /\ pg[next].type = "l" /\ Above(S) = From(E[next])
FirstOK(pg, E, m) ==
  IF pg[0].type = "l" THEN m = 1
  ELSE 2 \in 0 .. m - 1 /\ pg[2].type = "l" /\ From(E[2]) = Values
\* The leaves are chained in the order of their values, from page 0 or 2.
Linked(pg, m, E) ==
  /\ \A p \in 0 .. m - 1 : pg[p].type = "l" => LinkOK(pg[p].nextLeafPage, E[p], pg, E, m)
  /\ FirstOK(pg, E, m)

\* The leaves are the same.
SameLeaves(pg, m, E, pg2, m2, E2) ==
  /\ \A o \in 0 .. m - 1 : pg[o].type = "l" =>
       o \in 0 .. m2 - 1 /\ pg2[o].type = "l" /\ pg2[o].nextLeafPage = pg[o].nextLeafPage /\ E2[o] = E[o]
  /\ \A o \in 0 .. m2 - 1 : pg2[o].type = "l" => o \in 0 .. m - 1 /\ pg[o].type = "l"
  /\ 0 \in 0 .. m - 1 /\ 0 \in 0 .. m2 - 1 /\ (pg[0].type = "l" => m2 = m)

\* The chain is kept when the leaves are the same.
LEMMA LinkedSame ==
  ASSUME NEW pg, NEW m, NEW E, NEW pg2, NEW m2, NEW E2, Linked(pg, m, E), SameLeaves(pg, m, E, pg2, m2, E2)
  PROVE  Linked(pg2, m2, E2)
<1>1. ASSUME NEW p \in 0 .. m2 - 1, pg2[p].type = "l" PROVE LinkOK(pg2[p].nextLeafPage, E2[p], pg2, E2, m2)
  <2>1. p \in 0 .. m - 1 /\ pg[p].type = "l"
    BY <1>1 DEF SameLeaves
  <2>2. pg2[p].nextLeafPage = pg[p].nextLeafPage /\ E2[p] = E[p]
    BY <2>1 DEF SameLeaves
  <2>3. LinkOK(pg[p].nextLeafPage, E[p], pg, E, m)
    BY <2>1 DEF Linked
  <2> DEFINE n == pg[p].nextLeafPage
             S == E[p]
  <2> HIDE DEF n, S
  <2>4. LinkOK(n, S, pg, E, m)
    BY <2>3 DEF n, S
  <2>5. LinkOK(n, S, pg2, E2, m2)
    BY <2>4 DEF LinkOK, SameLeaves
  <2>6. QED
    BY <2>2, <2>5 DEF n, S
<1>2. FirstOK(pg2, E2, m2)
  <2>1. pg2[0].type = "l" <=> pg[0].type = "l"
    BY DEF SameLeaves
  <2>2. FirstOK(pg, E, m)
    BY DEF Linked
  <2>3. CASE pg[0].type = "l"
    BY <2>1, <2>2, <2>3 DEF FirstOK, SameLeaves
  <2>4. CASE pg[0].type # "l"
    <3> DEFINE o == 2
    <3>1. o \in 0 .. m - 1 /\ pg[o].type = "l" /\ From(E[o]) = Values
      BY <2>2, <2>4 DEF FirstOK
    <3> HIDE DEF o
    <3>2. o \in 0 .. m2 - 1 /\ pg2[o].type = "l" /\ E2[o] = E[o]
      BY <3>1 DEF SameLeaves
    <3>3. o \in 0 .. m2 - 1 /\ pg2[o].type = "l" /\ From(E2[o]) = Values
      BY <3>1, <3>2
    <3>4. QED
      BY <2>1, <2>4, <3>3 DEF FirstOK, o
  <2>5. QED
    BY <2>3, <2>4
<1>3. QED
  BY <1>1, <1>2 DEF Linked

\* The halves of the leaf l, chained as AM_SplitLeaf chains them.
HalvesChained(a, b, l, new) ==
  a.type = "l" /\ b.type = "l" /\ l.type = "l" /\ a.nextLeafPage = new /\ b.nextLeafPage = l.nextLeafPage

\* A leaf cut in two and chained as AM_SplitLeaf does keeps the chain.
LEMMA LinkedCut ==
  ASSUME NEW pg, NEW m \in Nat \ {0}, NEW E, Linked(pg, m, E), NEW p \in 0 .. m - 1, p # 0,
         NEW a, NEW b, HalvesChained(a, b, pg[p], m), NEW key \in E[p], \E v \in E[p] : v < key
  PROVE  Linked(CutPages(pg, m, p, a, b), m + 1, CutRegs(E, m, p, key))
<1> DEFINE S == E[p]
           A == {v \in S : v < key}
           B == {v \in S : ~ (v < key)}
           pg2 == CutPages(pg, m, p, a, b)
           E2 == CutRegs(E, m, p, key)
           D == 0 .. m - 1
           D2 == 0 .. m
           old == pg[p].nextLeafPage
<1>1. pg[p].type = "l" /\ a.type = "l" /\ b.type = "l" /\ a.nextLeafPage = m /\ b.nextLeafPage = old
  BY DEF HalvesChained
<1>2. LinkOK(old, S, pg, E, m)
  BY <1>1 DEF Linked
<1>3. RunCutFacts(S, A, B)
  <2>1. Run(S)
    BY <1>2 DEF LinkOK
  <2> HIDE DEF S
  <2>2. key \in S /\ \E v \in S : v < key
    BY DEF S
  <2>3. QED
    BY <2>1, <2>2, RunCut
<1>4. /\ m \in D2 /\ p \in D2 /\ m # p /\ m + 1 - 1 = m /\ \A o \in D : o \in D2 /\ o # m
      /\ \A o \in D2 : o = m \/ o \in D
  OBVIOUS
<1>5. /\ pg2[p] = a /\ pg2[m] = b /\ E2[p] = A /\ E2[m] = B
      /\ \A o \in D : o # p => pg2[o] = pg[o] /\ E2[o] = E[o]
  BY <1>4 DEF CutPages, CutRegs
<1> HIDE DEF A, B, pg2, E2, D2
<1>6. /\ Run(A) /\ Run(B) /\ From(A) = From(S) /\ Above(A) = From(B) /\ Above(B) = Above(S)
  BY <1>3 DEF RunCutFacts
<1>7. \A o \in D : pg[o].type = "l" => pg2[o].type = "l" /\ From(E2[o]) = From(E[o])
  BY <1>1, <1>5, <1>6
<1>8. ASSUME NEW next, NEW T, LinkOK(next, T, pg, E, m) PROVE LinkOK(next, T, pg2, E2, m + 1)
  <2>1. CASE next = AM_NULL_PAGE
    <3>1. ~ (AM_NULL_PAGE \in 0 .. m - 1)
      BY DEF AM_NULL_PAGE
    <3>2. QED
      BY <1>8, <2>1, <3>1 DEF LinkOK
  <2>2. CASE next # AM_NULL_PAGE
    <3>1. next \in D /\ pg[next].type = "l" /\ Above(T) = From(E[next]) /\ Run(T)
      BY <1>8, <2>2 DEF LinkOK
    <3>2. next \in D2 /\ pg2[next].type = "l" /\ Above(T) = From(E2[next])
      BY <1>4, <1>7, <3>1
    <3>3. QED
      BY <1>4, <3>1, <3>2 DEF LinkOK, D2
  <2>3. QED
    BY <2>1, <2>2
<1>9. ASSUME NEW o \in D2, pg2[o].type = "l" PROVE LinkOK(pg2[o].nextLeafPage, E2[o], pg2, E2, m + 1)
  <2>1. CASE o = p
    <3>1. m \in 0 .. m + 1 - 1 /\ pg2[m].type = "l" /\ Above(A) = From(E2[m])
      BY <1>1, <1>4, <1>5, <1>6 DEF D2
    <3>2. LinkOK(m, A, pg2, E2, m + 1)
      BY <1>6, <3>1 DEF LinkOK
    <3>3. QED
      BY <1>1, <1>5, <2>1, <3>2
  <2>2. CASE o = m
    <3> HIDE DEF S, old
    <3>1. LinkOK(old, B, pg, E, m)
      BY <1>2, <1>6 DEF LinkOK
    <3>2. LinkOK(old, B, pg2, E2, m + 1)
      BY <1>8, <3>1
    <3>3. QED
      BY <1>1, <1>5, <2>2, <3>2
  <2>3. CASE o # p /\ o # m
    <3>1. o \in D /\ pg2[o] = pg[o] /\ E2[o] = E[o]
      BY <1>4, <1>5, <2>3
    <3>2. LinkOK(pg[o].nextLeafPage, E[o], pg, E, m)
      BY <1>9, <3>1 DEF Linked
    <3> DEFINE next == pg[o].nextLeafPage
               T == E[o]
    <3>3. LinkOK(next, T, pg, E, m)
      BY <3>2
    <3> HIDE DEF next, T
    <3>4. LinkOK(next, T, pg2, E2, m + 1)
      BY <1>8, <3>3
    <3>5. QED
      BY <3>1, <3>4 DEF next, T
  <2>4. QED
    BY <2>1, <2>2, <2>3
<1>10. FirstOK(pg2, E2, m + 1)
  <2>1. FirstOK(pg, E, m) /\ 0 \in D
    BY DEF Linked
  <2>2. pg[0].type # "l"
    <3>1. m # 1
      BY DEF D
    <3>2. QED
      BY <2>1, <3>1 DEF FirstOK
  <2>3. pg2[0] = pg[0]
    BY <1>5, <2>1
  <2> DEFINE o == 2
  <2>4. o \in D /\ pg[o].type = "l" /\ From(E[o]) = Values
    BY <2>1, <2>2 DEF FirstOK
  <2> HIDE DEF o
  <2>5. o \in D2 /\ pg2[o].type = "l" /\ From(E2[o]) = Values
    BY <1>4, <1>7, <2>4
  <2>6. QED
    BY <1>4, <2>2, <2>3, <2>5 DEF FirstOK, o, D2
<1>11. Linked(pg2, m + 1, E2)
  BY <1>4, <1>9, <1>10 DEF Linked, D2
<1>12. QED
  BY <1>11 DEF pg2, E2

\* The root that was a leaf, cut: its halves are pages 1 and 2, and 2 is the first.
LEMMA LinkedRoot ==
  ASSUME NEW pg, NEW m, NEW E, Linked(pg, m, E), E[0] = Values, NEW a, NEW b, HalvesChained(a, b, pg[0], m),
         NEW key \in Values, \E v \in Values : v < key
  PROVE  Linked(RootPages(pg, m, a, b, key), m + 2, RootRegs(E, m, key))
<1> DEFINE S == Values
           A == {v \in S : v < key}
           B == {v \in S : ~ (v < key)}
           pg2 == RootPages(pg, m, a, b, key)
           E2 == RootRegs(E, m, key)
           old == pg[0].nextLeafPage
<1>1. pg[0].type = "l" /\ a.type = "l" /\ b.type = "l" /\ a.nextLeafPage = m /\ b.nextLeafPage = old
  BY DEF HalvesChained
<1>2. m = 1
  BY <1>1 DEF Linked, FirstOK
<1>3. LinkOK(old, S, pg, E, m)
  <2>1. 0 \in 0 .. m - 1
    BY <1>2
  <2>2. LinkOK(pg[0].nextLeafPage, E[0], pg, E, m)
    BY <1>1, <2>1 DEF Linked
  <2>3. QED
    BY <2>2
<1>4. RunCutFacts(S, A, B)
  <2>1. Run(S)
    BY <1>3 DEF LinkOK
  <2> HIDE DEF S
  <2>2. key \in S /\ \E v \in S : v < key
    BY DEF S
  <2>3. QED
    BY <2>1, <2>2, RunCut
<1>5. 0 .. m + 2 - 1 = {0, 1, 2} /\ 0 .. m + 1 = {0, 1, 2}
  BY <1>2
<1>6. pg2[0] = Node(<<key>>, <<m + 1, m>>) /\ pg2[1] = b /\ pg2[2] = a /\ E2[1] = B /\ E2[2] = A
  BY <1>2, <1>5 DEF RootPages, RootRegs
<1>7. pg2[0].type # "l"
  BY <1>6 DEF Node
<1>8. /\ Run(A) /\ Run(B) /\ From(A) = From(S) /\ Above(A) = From(B) /\ Above(B) = Above(S)
  BY <1>4 DEF RunCutFacts
<1>9. Run(S) /\ Above(S) = {} /\ From(S) = Values
  <2>1. Run(S)
    BY <1>3 DEF LinkOK
  <2>2. \A v \in Values : v \in Int /\ v <= v /\ ~ (v < v)
    BY ValueOrder
  <2>3. QED
    BY <2>1, <2>2 DEF Above, From
<1>10. old = AM_NULL_PAGE
  <2>1. CASE old \in 0 .. m - 1
    <3>1. (old = 0 /\ Above(S) = From(Values)) \/ old = AM_NULL_PAGE
      BY <1>2, <1>3, <2>1 DEF LinkOK
    <3>2. Values # {}
      BY <1>9 DEF Run
    <3>3. QED
      BY <1>9, <3>1, <3>2
  <2>2. CASE old \notin 0 .. m - 1
    BY <1>3, <2>2 DEF LinkOK
  <2>3. QED
    BY <2>1, <2>2
<1> DEFINE m2 == m + 2
           D2 == 0 .. m2 - 1
<1>11. D2 = {0, 1, 2}
  BY <1>2
<1> HIDE DEF A, B, pg2, E2, S, D2, m2
<1>12. m \in D2 /\ 2 \in D2 /\ (\A o \in D2 : o = 0 \/ o = 1 \/ o = 2)
  BY <1>2, <1>11
<1>13. Above(A) = From(E2[m]) /\ pg2[m].type = "l"
  BY <1>1, <1>2, <1>6, <1>8
<1>14. LinkOK(m, A, pg2, E2, m2)
  BY <1>8, <1>12, <1>13 DEF LinkOK, D2
<1>15. LinkOK(old, B, pg2, E2, m2)
  BY <1>8, <1>9, <1>10 DEF LinkOK
<1>16. FirstOK(pg2, E2, m2)
  <2>1. pg2[2].type = "l" /\ From(E2[2]) = Values
    BY <1>1, <1>6, <1>8, <1>9
  <2>2. QED
    BY <1>7, <1>12, <2>1 DEF FirstOK, D2
<1>17. ASSUME NEW o \in D2, pg2[o].type = "l" PROVE LinkOK(pg2[o].nextLeafPage, E2[o], pg2, E2, m2)
  <2>1. o = 1 \/ o = 2
    BY <1>7, <1>12, <1>17
  <2>2. QED
    BY <1>1, <1>6, <1>14, <1>15, <2>1
<1>18. Linked(pg2, m2, E2)
  BY <1>16, <1>17 DEF Linked, D2
<1>19. QED
  BY <1>18 DEF pg2, E2, m2

\* A leaf with the same page behind it, or one internal node for another.
LEMMA LinkedReplaced ==
  ASSUME NEW pg, NEW m \in Nat \ {0}, NEW E, Linked(pg, m, E), DOMAIN pg = 0 .. m - 1, NEW p \in 0 .. m - 1,
         NEW l, l.type = pg[p].type, pg[p].type = "l" => l.nextLeafPage = pg[p].nextLeafPage
  PROVE  Linked([pg EXCEPT ![p] = l], m, E)
<1> DEFINE pg2 == [pg EXCEPT ![p] = l]
<1>1. pg2[p] = l /\ \A o \in 0 .. m - 1 : o # p => pg2[o] = pg[o]
  OBVIOUS
<1> HIDE DEF pg2
<1>2. SameLeaves(pg, m, E, pg2, m, E)
  BY <1>1 DEF SameLeaves
<1>3. Linked(pg2, m, E)
  BY <1>2, LinkedSame
<1>4. QED
  BY <1>3 DEF pg2

\* Internal nodes cut.
LEMMA LinkedNodeCut ==
  ASSUME NEW pg, NEW m \in Nat \ {0}, NEW E, Linked(pg, m, E), NEW p \in 0 .. m - 1,
         NEW a, NEW b, NEW key, pg[p].type # "l", a.type # "l", b.type # "l"
  PROVE  /\ Linked(CutPages(pg, m, p, a, b), m + 1, CutRegs(E, m, p, key))
         /\ p = 0 => Linked(RootPages(pg, m, a, b, key), m + 2, RootRegs(E, m, key))
<1> DEFINE D == 0 .. m - 1
<1>1. 0 \in D /\ \A o \in D : o \in 0 .. m /\ o \in 0 .. m + 1 /\ o # m /\ o # m + 1
  OBVIOUS
<1>2. \A o \in 0 .. m : o = m \/ o \in D
  OBVIOUS
<1>3. \A o \in 0 .. m + 1 : o = m \/ o = m + 1 \/ o \in D
  OBVIOUS
<1>4. m + 1 - 1 = m /\ m + 2 - 1 = m + 1
  OBVIOUS
<1>5. pg[0].type # "l"
  <2>1. FirstOK(pg, E, m)
    BY DEF Linked
  <2>2. CASE pg[0].type = "l"
    <3>1. p = 0
      BY <2>1, <2>2 DEF FirstOK
    <3>2. QED
      BY <2>2, <3>1
  <2>3. QED
    BY <2>2
<1>6. SameLeaves(pg, m, E, CutPages(pg, m, p, a, b), m + 1, CutRegs(E, m, p, key))
  <2> DEFINE pg2 == CutPages(pg, m, p, a, b)
             E2 == CutRegs(E, m, p, key)
             m2 == m + 1
  <2>1. /\ pg2[p] = a /\ pg2[m] = b
        /\ \A o \in D : o # p => pg2[o] = pg[o] /\ E2[o] = E[o]
    BY <1>1 DEF CutPages, CutRegs
  <2>2. 0 .. m2 - 1 = 0 .. m
    BY <1>4
  <2> HIDE DEF pg2, E2, m2
  <2>3. \A o \in 0 .. m2 - 1 : pg2[o].type = "l" => o \in 0 .. m - 1 /\ pg[o].type = "l"
    BY <1>2, <2>1, <2>2
  <2>4. SameLeaves(pg, m, E, pg2, m2, E2)
    BY <1>1, <1>5, <2>1, <2>2, <2>3 DEF SameLeaves
  <2>5. QED
    BY <2>4 DEF pg2, E2, m2
<1>7. ASSUME p = 0 PROVE SameLeaves(pg, m, E, RootPages(pg, m, a, b, key), m + 2, RootRegs(E, m, key))
  <2> DEFINE pg2 == RootPages(pg, m, a, b, key)
             E2 == RootRegs(E, m, key)
             m2 == m + 2
  <2>1. /\ pg2[0].type = "i" /\ pg2[m] = b /\ pg2[m + 1] = a
        /\ \A o \in D : o # 0 => pg2[o] = pg[o] /\ E2[o] = E[o]
    <3>1. pg2[0] = Node(<<key>>, <<m + 1, m>>)
      BY <1>1 DEF RootPages
    <3>2. QED
      BY <1>1, <3>1 DEF RootPages, RootRegs, Node
  <2>2. 0 .. m2 - 1 = 0 .. m + 1
    BY <1>4
  <2> HIDE DEF pg2, E2, m2
  <2>3. \A o \in 0 .. m2 - 1 : pg2[o].type = "l" => o \in 0 .. m - 1 /\ pg[o].type = "l"
    BY <1>3, <2>1, <2>2
  <2>4. SameLeaves(pg, m, E, pg2, m2, E2)
    BY <1>1, <1>5, <2>1, <2>2, <2>3 DEF SameLeaves
  <2>5. QED
    BY <2>4 DEF pg2, E2, m2
<1>8. Linked(CutPages(pg, m, p, a, b), m + 1, CutRegs(E, m, p, key))
  <2> DEFINE pg2 == CutPages(pg, m, p, a, b)
             E2 == CutRegs(E, m, p, key)
             m2 == m + 1
  <2>1. SameLeaves(pg, m, E, pg2, m2, E2)
    BY <1>6
  <2> HIDE DEF pg2, E2, m2
  <2>2. Linked(pg2, m2, E2)
    BY <2>1, LinkedSame
  <2>3. QED
    BY <2>2 DEF pg2, E2, m2
<1>9. ASSUME p = 0 PROVE Linked(RootPages(pg, m, a, b, key), m + 2, RootRegs(E, m, key))
  <2> DEFINE pg2 == RootPages(pg, m, a, b, key)
             E2 == RootRegs(E, m, key)
             m2 == m + 2
  <2>1. SameLeaves(pg, m, E, pg2, m2, E2)
    BY <1>7, <1>9
  <2> HIDE DEF pg2, E2, m2
  <2>2. Linked(pg2, m2, E2)
    BY <2>1, LinkedSame
  <2>3. QED
    BY <2>2 DEF pg2, E2, m2
<1>10. QED
  BY <1>8, <1>9

-----------------------------------------------------------------------------
(* The way up: AM_AddtoParent. *)

\* The way up is at an end, with a tree that holds M, or j pages of the way are left.
Grown(pg, m, M, least) == m >= least /\ \E E, rk : Tree(pg, m, E, E, rk, M, -1, 0) /\ Linked(pg, m, E)
Growing(pg, m, new, key, way, j, M, least) ==
  /\ m >= least
  /\ \E E, F, rk, q : /\ Tree(pg, m, E, F, rk, M, -1, new) /\ Pending(E, F, rk, q, new, key, m)
                      /\ WayTo(pg, m, way, j, q, 0) /\ Linked(pg, m, E)
Risen(s, way, j, M, least) ==
  \E pg, new, key, m :
    \/ s = State(pg, new, key, TRUE) /\ Grown(pg, m, M, least)
    \/ s = State(pg, new, key, FALSE) /\ Growing(pg, m, new, key, way, j, M, least)

\* The pages of a tree are numbered from 0.
LEMMA TreePages ==
  ASSUME NEW pg, NEW m, NEW E, NEW F, NEW rk, NEW N, NEW x, NEW new, Tree(pg, m, E, F, rk, N, x, new)
  PROVE  PagesAre(pg, m) /\ m \in Nat \ {0} /\ DOMAIN pg = 0 .. m - 1 /\ Cardinality(DOMAIN pg) = m
<1>1. PagesAre(pg, m)
  BY DEF Tree, PagesAre
<1>2. QED
  BY <1>1, PageCount DEF PagesAre

\* A page that may have a key too many has not.
LEMMA TreeFits ==
  ASSUME NEW pg, NEW m, NEW E, NEW F, NEW rk, NEW N, NEW x, NEW new, Tree(pg, m, E, F, rk, N, x, new),
         x \in 0 .. m - 1 => pg[x].type = "i" /\ Len(pg[x].key) <= MaxKeys
  PROVE  Tree(pg, m, E, F, rk, N, -1, new)
<1> DEFINE D == 0 .. m - 1
<1>1. ASSUME NEW o \in D PROVE PageOK(pg[o], E[o], rk[o], F, rk, N, D, MaxKeys)
  <2>1. PageOK(pg[o], E[o], rk[o], F, rk, N, D, IF o = x THEN MaxKeys + 1 ELSE MaxKeys)
    BY DEF Tree
  <2>2. CASE o = x
    BY <2>1, <2>2 DEF PageOK
  <2>3. CASE o # x
    BY <2>1, <2>3
  <2>4. QED
    BY <2>2, <2>3
<1>2. \A o \in D : o # -1
  BY DEF Tree
<1>3. \A o \in D : PageOK(pg[o], E[o], rk[o], F, rk, N, D, IF o = -1 THEN MaxKeys + 1 ELSE MaxKeys)
  BY <1>1, <1>2
<1>4. QED
  BY <1>3 DEF Tree

\* The same entries of every value are the same entries.
LEMMA HoldSame ==
  ASSUME NEW pg, NEW E, NEW N, NEW p, NEW m
  PROVE  OthersHold(pg, E, N, N, p, m)
BY DEF OthersHold

\* A step of AM_AddtoParent leads from one state of the way up to the next, or ends with a tree.
LEMMA RiseIs ==
  ASSUME NEW pg, NEW m, NEW new, NEW key, NEW way, NEW j \in Nat, j # 0, NEW M, NEW least \in Nat,
         Growing(pg, m, new, key, way, j, M, least)
  PROVE  Risen(AddtoParentStep(State(pg, new, key, FALSE), way[j]), way, j - 1, M, least)
<1>1. PICK E, F, rk, q : /\ Tree(pg, m, E, F, rk, M, -1, new) /\ Pending(E, F, rk, q, new, key, m)
                         /\ WayTo(pg, m, way, j, q, 0) /\ Linked(pg, m, E)
  BY DEF Growing
<1> DEFINE top == way[j]
           p == top.pageNumber
           off == top.offset
           n == pg[p]
           i == off + 1
           n2 == AM_AddtoIntPage(n, key, new, off)
           pg1 == [pg EXCEPT ![p] = n2]
           s == AddtoParentStep(State(pg, new, key, FALSE), top)
<1>2. m >= least /\ m \in Nat \ {0} /\ PagesAre(pg, m) /\ Cardinality(DOMAIN pg) = m
  BY <1>1, TreePages DEF Growing
<1>3. WayAt(way, j, q, j) = p /\ WayAt(way, j, q, j + 1) = q
  BY DEF WayAt
<1>4. p \in 0 .. m - 1 /\ off \in Nat /\ n.type = "i" /\ i \in 1 .. Len(n.ptr) /\ n.ptr[i] = q
  <2>1. j \in 1 .. j + 1 /\ j \in 1 .. j
    OBVIOUS
  <2>2. StepDown(pg, way, j, q, j) /\ WayAt(way, j, q, j) \in 0 .. m - 1
    BY <1>1, <2>1 DEF WayTo
  <2>3. QED
    BY <1>3, <2>2 DEF StepDown
<1>5. i - 1 = off
  BY <1>4
<1> HIDE DEF i, off, p
<1>6. AddedFacts(AM_AddtoIntPage(n, key, new, i - 1), pg, m, E, rk, M, p)
  BY <1>1, <1>4, AddedIs
<1>7. AddedFacts(n2, pg, m, E, rk, M, p)
  BY <1>5, <1>6
<1> HIDE DEF n2
<1>8. /\ Tree(pg1, m, E, E, rk, M, p, 0) /\ n2.type = "i" /\ Len(n2.key) = Len(n.key) + 1
      /\ pg1[p] = n2 /\ DOMAIN pg = 0 .. m - 1
  BY <1>2, <1>4, <1>7 DEF AddedFacts, PagesAre
<1>9. Len(n.key) \in Nat /\ Len(n.key) <= MaxKeys /\ MaxKeys \in Nat
  <2>1. n.type # "l"
    BY <1>4
  <2>2. IntOK(n, E[p], rk[p], F, rk, 0 .. m - 1) /\ Len(n.key) <= IF p = -1 THEN MaxKeys + 1 ELSE MaxKeys
    BY <1>1, <1>4, <2>1, TreeInt
  <2>3. p # -1
    BY <1>4
  <2>4. QED
    BY <2>2, <2>3, LenProperties, AMAssumption DEF IntOK
<1>10. E \in [0 .. m - 1 -> SUBSET Values]
  BY <1>1 DEF Tree
<1>11. s = IF Len(n.key) < MaxKeys THEN Room(pg, new, key, top)
             ELSE IF p = 0 THEN NewTop(pg, new, key, top) ELSE NextUp(pg, new, key, top)
  BY StepForm DEF p
<1>20. Linked(pg1, m, E)
  BY <1>1, <1>2, <1>4, <1>8, LinkedReplaced
<1>12. CASE Len(n.key) < MaxKeys
  <2>1. s = State(pg1, new, key, TRUE)
    BY <1>11, <1>12 DEF Room, n2, p, off
  <2>2. Len(pg1[p].key) <= MaxKeys /\ pg1[p].type = "i"
    BY <1>8, <1>9, <1>12
  <2> HIDE DEF pg1
  <2>3. Tree(pg1, m, E, E, rk, M, -1, 0)
    <3> DEFINE r == 0
    <3> HIDE DEF r
    <3>1. Tree(pg1, m, E, E, rk, M, p, r)
      BY <1>8 DEF r
    <3>2. Tree(pg1, m, E, E, rk, M, -1, r)
      BY <2>2, <3>1, TreeFits
    <3>3. QED
      BY <3>2 DEF r
  <2>4. Grown(pg1, m, M, least)
    BY <1>2, <1>20, <2>3 DEF Grown, pg1
  <2>5. QED
    BY <2>1, <2>4 DEF Risen
<1> DEFINE D == 0 .. m - 1
           D2 == 0 .. m
           D3 == 0 .. m + 1
           H == IntHalves(n2)
           a == H.first
           b == H.second
           up == H.up
<1>13. ASSUME ~ (Len(n.key) < MaxKeys)
       PROVE  /\ Cut(a, b, up, pg1[p], E[p], rk[p], E, rk, M, D, D2)
              /\ Cut(a, b, up, pg1[p], E[p], rk[p], E, rk, M, D, D3)
  <2>1. Len(n2.key) = MaxKeys + 1
    BY <1>8, <1>9, <1>13
  <2>2. IntOK(n2, E[p], rk[p], E, rk, D)
    <3> DEFINE r == 0
    <3>1. Tree(pg1, m, E, E, rk, M, p, r) /\ pg1[p].type # "l"
      BY <1>8
    <3> HIDE DEF pg1, r
    <3>2. IntOK(pg1[p], E[p], rk[p], E, rk, 0 .. m - 1)
      BY <1>4, <3>1, TreeInt
    <3>3. QED
      BY <1>8, <3>2
  <2>3. E[p] \in SUBSET Values
    BY <1>4, <1>10
  <2>4. D \subseteq D2 /\ D \subseteq D3
    BY <1>2
  <2> DEFINE S == E[p]
             h == rk[p]
  <2> HIDE DEF S, h, D, D2, D3, H
  <2>5. S \in SUBSET Values /\ IntOK(n2, S, h, E, rk, D)
    BY <2>2, <2>3 DEF S, h
  <2>6. NodeCut(IntHalves(n2), n2, S, h, E, rk, M, D, D2) /\ NodeCut(IntHalves(n2), n2, S, h, E, rk, M, D, D3)
    BY <1>8, <2>1, <2>4, <2>5, IntCut
  <2>7. QED
    BY <1>8, <2>6 DEF NodeCut, H, S, h
<1>21. ASSUME ~ (Len(n.key) < MaxKeys)
       PROVE  /\ Linked(CutPages(pg1, m, p, a, b), m + 1, CutRegs(E, m, p, up))
              /\ p = 0 => Linked(RootPages(pg1, m, a, b, up), m + 2, RootRegs(E, m, up))
  <2>1. a.type # "l" /\ b.type # "l" /\ pg1[p].type # "l"
    BY <1>8, <1>13, <1>21 DEF Cut
  <2> HIDE DEF pg1, a, b, up
  <2>2. QED
    BY <1>2, <1>4, <1>20, <2>1, LinkedNodeCut
<1>14. H = AM_SplitIntNode(n, key, new, off)
  BY HalvesAre DEF n2
<1>15. OthersHold(pg1, E, M, M, p, m)
  BY HoldSame
<1> HIDE DEF H
<1>16. CASE ~ (Len(n.key) < MaxKeys) /\ p = 0
  <2> DEFINE mx == m + 1
  <2>1. s = State([Allocated(pg, <<b, a>>) EXCEPT ![p] = Node(<<up>>, <<m + 1, m>>)], new, key, TRUE)
    BY <1>2, <1>11, <1>14, <1>16 DEF NewTop, p, off
  <2>2. [Allocated(pg, <<b, a>>) EXCEPT ![0] = Node(<<up>>, <<m + 1, m>>)] = RootPages(pg, m, a, b, up)
    BY <1>2, TwoAllocated
  <2>3. RootPages(pg1, m, a, b, up) = RootPages(pg, m, a, b, up)
    <3> HIDE DEF a, b, up
    <3>1. AnywayFacts(pg, m, p, n2, a, b, up)
      BY <1>2, <1>4, CutAnyway
    <3>2. QED
      BY <1>16, <3>1 DEF AnywayFacts
  <2>4. s = State(RootPages(pg1, m, a, b, up), new, key, TRUE)
    BY <1>16, <2>1, <2>2, <2>3
  <2>5. RootFacts(pg1, m, E, rk, M, a, b, up)
    <3> DEFINE r == 0
    <3>1. /\ Tree(pg1, m, E, E, rk, M, 0, 0) /\ OthersHold(pg1, E, M, M, 0, m)
          /\ Cut(a, b, up, pg1[0], E[0], rk[0], E, rk, M, 0 .. m - 1, 0 .. m + 1)
      BY <1>8, <1>13, <1>15, <1>16
    <3> HIDE DEF pg1, a, b, up
    <3>2. \A x : x = 0 => x = -1 \/ x = 0
      OBVIOUS
    <3>3. QED
      BY <3>1, <3>2, RootIs
  <2> HIDE DEF pg1, a, b, up
  <2>6. Grown(RootPages(pg1, m, a, b, up), m + 2, M, least)
    <3>1. m + 2 >= least
      BY <1>2
    <3>2. Linked(RootPages(pg1, m, a, b, up), m + 2, RootRegs(E, m, up))
      BY <1>16, <1>21 DEF a, b, up, pg1
    <3>3. QED
      BY <2>5, <3>1, <3>2 DEF RootFacts, Grown
  <2>7. QED
    BY <2>4, <2>6 DEF Risen
<1>17. CASE ~ (Len(n.key) < MaxKeys) /\ p # 0
  <2>1. s = State([Allocated(pg, <<b>>) EXCEPT ![p] = a], m, up, FALSE)
    BY <1>2, <1>11, <1>14, <1>17 DEF NextUp, p, off
  <2>2. [Allocated(pg, <<b>>) EXCEPT ![p] = a] = CutPages(pg, m, p, a, b)
    BY <1>2, <1>4, OneAllocated
  <2>3. CutPages(pg1, m, p, a, b) = CutPages(pg, m, p, a, b)
    <3> HIDE DEF a, b, up
    <3>1. AnywayFacts(pg, m, p, n2, a, b, up)
      BY <1>2, <1>4, CutAnyway
    <3>2. QED
      BY <3>1 DEF AnywayFacts
  <2> DEFINE pg2 == CutPages(pg1, m, p, a, b)
             mx == m + 1
  <2>4. s = State(pg2, m, up, FALSE)
    BY <2>1, <2>2, <2>3
  <2>5. CutFacts(pg1, m, E, rk, M, p, a, b, up)
    <3>1. /\ Tree(pg1, m, E, E, rk, M, p, 0) /\ OthersHold(pg1, E, M, M, p, m)
          /\ Cut(a, b, up, pg1[p], E[p], rk[p], E, rk, M, 0 .. m - 1, 0 .. m)
      BY <1>8, <1>13, <1>15, <1>17
    <3> HIDE DEF pg1, a, b, up
    <3>2. p # 0 /\ (p = -1 \/ p = p)
      BY <1>17
    <3>3. QED
      BY <1>4, <3>1, <3>2, CutIs
  <2>6. \A o \in 0 .. m - 1 : o # p => pg2[o] = pg[o]
    BY <1>2, <2>3 DEF CutPages
  <2> HIDE DEF pg1, a, b, up, pg2
  <2>7. WayTo(pg2, mx, way, j - 1, p, 0)
    <3>1. mx \in Nat /\ m <= mx /\ m \in Nat
      BY <1>2
    <3>2. p = way[j].pageNumber
      BY DEF p
    <3> DEFINE r == 0
    <3>3. WayTo(pg, m, way, j, q, r)
      BY <1>1
    <3> HIDE DEF mx, r
    <3>4. WayTo(pg2, mx, way, j - 1, p, r)
      BY <2>6, <3>1, <3>2, <3>3, WayShorter
    <3>5. QED
      BY <3>4 DEF r
  <2>8. Growing(pg2, mx, m, up, way, j - 1, M, least)
    <3> DEFINE i1 == j - 1
    <3>1. mx >= least
      BY <1>2
    <3> HIDE DEF i1
    <3>2. /\ Tree(pg2, mx, CutRegs(E, m, p, up), CutFor(E, m), CutRanks(rk, m, p), M, -1, m)
          /\ Pending(CutRegs(E, m, p, up), CutFor(E, m), CutRanks(rk, m, p), p, m, up, mx)
          /\ Linked(pg2, mx, CutRegs(E, m, p, up))
      BY <1>17, <1>21, <2>5 DEF CutFacts, pg2, a, b, up, pg1
    <3> HIDE DEF mx
    <3>3. Growing(pg2, mx, m, up, way, i1, M, least)
      BY <2>7, <3>1, <3>2 DEF Growing, i1
    <3>4. QED
      BY <3>3 DEF i1
  <2>9. QED
    BY <2>4, <2>8 DEF Risen
<1>18. QED
  BY <1>12, <1>16, <1>17

-----------------------------------------------------------------------------
(* Recursions over the tree. *)

\* There is a bound of all ranks.
LEMMA RankBound ==
  ASSUME NEW m \in Nat, NEW rk \in [0 .. m - 1 -> Nat]
  PROVE  \E h \in Nat : \A p \in 0 .. m - 1 : rk[p] < h
<1> DEFINE T == {k \in Nat : \E h \in Nat : \A p \in 0 .. m - 1 : p < k => rk[p] < h}
<1>1. 0 \in T
  <2>1. \A p \in 0 .. m - 1 : ~ (p < 0)
    OBVIOUS
  <2>2. QED
    BY <2>1
<1>2. ASSUME NEW k \in Nat, k \in T PROVE k + 1 \in T
  <2>1. PICK h \in Nat : \A p \in 0 .. m - 1 : p < k => rk[p] < h
    BY <1>2
  <2>2. CASE k \in 0 .. m - 1
    <3>1. rk[k] \in Nat
      BY <2>2
    <3> DEFINE g == h + rk[k] + 1
    <3>2. g \in Nat /\ rk[k] < g /\ \A x \in Nat : x < h => x < g
      BY <3>1
    <3> HIDE DEF g
    <3>3. ASSUME NEW p \in 0 .. m - 1, p < k + 1 PROVE rk[p] < g
      <4>1. p = k \/ p < k
        BY <3>3
      <4>2. rk[p] \in Nat
        OBVIOUS
      <4>3. QED
        BY <2>1, <3>2, <4>1, <4>2
    <3>4. \A p \in 0 .. m - 1 : p < k + 1 => rk[p] < g
      BY <3>3
    <3>5. k + 1 \in Nat
      OBVIOUS
    <3>6. QED
      BY <3>2, <3>4, <3>5
  <2>3. CASE k \notin 0 .. m - 1
    <3>1. \A p \in 0 .. m - 1 : p < k + 1 => p < k
      BY <2>3
    <3>2. \A p \in 0 .. m - 1 : p < k + 1 => rk[p] < h
      BY <2>1, <3>1
    <3>3. k + 1 \in Nat
      OBVIOUS
    <3>4. QED
      BY <3>2, <3>3
  <2>4. QED
    BY <2>2, <2>3
<1>3. Nat \subseteq T
  <2> HIDE DEF T
  <2>1. QED
    BY <1>1, <1>2, SetInduction
<1>4. m \in T
  BY <1>3
<1>5. \A p \in 0 .. m - 1 : p < m
  OBVIOUS
<1>6. QED
  BY <1>4, <1>5

\* One turn of a walk from page to page that ends in the pages of stop.
Walk(f, p, stop, base, ext, nxt) == IF p \in stop THEN base[p] ELSE ext[<<p, f[nxt[p]]>>]
Walks(f, D, stop, base, ext, nxt) == \A p \in D : f[p] = Walk(f, p, stop, base, ext, nxt)

\* Walks that go down the ranks have an end: the recursion has a solution.
LEMMA WalkExists ==
  ASSUME NEW D, NEW R, NEW stop, NEW base \in [D -> R], NEW ext \in [D \X R -> R], NEW nxt, NEW rk \in [D -> Nat],
         \A p \in D : p \notin stop => nxt[p] \in D /\ rk[nxt[p]] < rk[p],
         NEW top \in Nat, \A p \in D : rk[p] < top
  PROVE  \E f \in [D -> R] : Walks(f, D, stop, base, ext, nxt)
<1> DEFINE Turns(f, p) == f[p] = Walk(f, p, stop, base, ext, nxt)
           T == {h \in Nat : \E f \in [D -> R] : \A p \in D : rk[p] < h => Turns(f, p)}
<1>1. 0 \in T
  <2>1. \A p \in D : ~ (rk[p] < 0)
    OBVIOUS
  <2>2. QED
    BY <2>1
<1>2. ASSUME NEW h \in Nat, h \in T PROVE h + 1 \in T
  <2>1. PICK f \in [D -> R] : \A p \in D : rk[p] < h => Turns(f, p)
    BY <1>2
  <2> DEFINE g == [p \in D |-> IF rk[p] < h THEN f[p] ELSE Walk(f, p, stop, base, ext, nxt)]
  <2>2. g \in [D -> R]
    <3>1. ASSUME NEW p \in D, ~ (rk[p] < h) PROVE Walk(f, p, stop, base, ext, nxt) \in R
      BY DEF Walk
    <3>2. QED
      BY <3>1
  <2>3. \A p \in D : (rk[p] < h => g[p] = f[p]) /\ (~ (rk[p] < h) => g[p] = Walk(f, p, stop, base, ext, nxt))
    OBVIOUS
  <2> HIDE DEF g
  <2>4. ASSUME NEW p \in D, rk[p] < h + 1 PROVE Turns(g, p)
    <3>1. rk[p] \in Nat
      OBVIOUS
    <3>2. g[p] = Walk(f, p, stop, base, ext, nxt)
      BY <2>1, <2>3
    <3>3. CASE p \in stop
      BY <3>2, <3>3 DEF Walk
    <3>4. CASE p \notin stop
      <4>1. nxt[p] \in D /\ rk[nxt[p]] < rk[p] /\ rk[nxt[p]] \in Nat
        BY <3>4
      <4>2. rk[nxt[p]] < h
        BY <2>4, <3>1, <4>1
      <4>3. g[nxt[p]] = f[nxt[p]]
        BY <2>3, <4>1, <4>2
      <4>4. QED
        BY <3>2, <4>3 DEF Walk
    <3>5. QED
      BY <3>3, <3>4
  <2>5. QED
    BY <2>2, <2>4
<1>3. Nat \subseteq T
  <2> HIDE DEF T
  <2>1. QED
    BY <1>1, <1>2, SetInduction
<1>4. top \in T
  BY <1>3
<1>5. QED
  BY <1>4 DEF Walks

-----------------------------------------------------------------------------
(* The way down: AM_Search. *)

StepAt(m) == [pageNumber : 0 .. m - 1, offset : Nat]

\* A way with a page on top of it.
LEMMA WayLonger ==
  ASSUME NEW m \in Nat, NEW pg, NEW way \in Seq(StepAt(m)), NEW q, NEW c, WayTo(pg, m, way, Len(way), q, c),
         NEW p \in 0 .. m - 1, pg[p].type = "i", NEW i \in Nat, i + 1 \in 1 .. Len(pg[p].ptr), pg[p].ptr[i + 1] = c,
         \A h \in 1 .. Len(way) + 1 : WayAt(way, Len(way), q, h) # p
  PROVE  LET w == With([pageNumber |-> p, offset |-> i], way)
         IN  w \in Seq(StepAt(m)) /\ WayTo(pg, m, w, Len(w), q, p) /\ Len(w) = Len(way) + 1
<1> DEFINE j == Len(way)
           b == [pageNumber |-> p, offset |-> i]
           w == With(b, way)
<1>1. j \in Nat /\ b \in StepAt(m) /\ b.pageNumber = p /\ b.offset = i
  BY LenProperties DEF StepAt
<1> HIDE DEF b
<1>2. /\ w \in Seq(StepAt(m)) /\ Len(w) = j + 1
      /\ w = [k \in 1 .. j + 1 |-> IF k = 1 THEN b ELSE way[k - 1]]
  BY <1>1, WithIs
<1> HIDE DEF w, j
<1>3. w[1] = b /\ \A h \in 1 .. j : w[h + 1] = way[h]
  <2>1. 1 \in 1 .. j + 1 /\ \A h \in 1 .. j : h + 1 \in 1 .. j + 1 /\ h + 1 # 1 /\ (h + 1) - 1 = h
    BY <1>1
  <2>2. QED
    BY <1>2, <2>1
<1>4. WayAt(w, j + 1, q, 1) = p
  <2>1. 1 <= j + 1
    BY <1>1
  <2>2. QED
    BY <1>1, <1>3, <2>1 DEF WayAt
<1>5. ASSUME NEW h \in 1 .. j + 1 PROVE WayAt(w, j + 1, q, h + 1) = WayAt(way, j, q, h)
  <2>1. h <= j <=> h + 1 <= j + 1
    BY <1>1
  <2>2. h <= j => h \in 1 .. j
    BY <1>1
  <2>3. QED
    BY <1>3, <2>1, <2>2 DEF WayAt
<1>6. \A h \in 1 .. j + 2 : h = 1 \/ \E k \in 1 .. j + 1 : h = k + 1
  <2>1. ASSUME NEW h \in 1 .. j + 2, h # 1 PROVE \E k \in 1 .. j + 1 : h = k + 1
    <3>1. h - 1 \in 1 .. j + 1 /\ h = (h - 1) + 1
      BY <1>1, <2>1
    <3>2. QED
      BY <3>1
  <2>2. QED
    BY <2>1
<1>7. \A h \in 1 .. j + 2 : WayAt(w, j + 1, q, h) \in 0 .. m - 1
  <2>1. \A k \in 1 .. j + 1 : WayAt(way, j, q, k) \in 0 .. m - 1
    BY DEF WayTo, j
  <2>2. QED
    BY <1>4, <1>5, <1>6, <2>1
<1>8. \A g, h \in 1 .. j + 2 : g < h => WayAt(w, j + 1, q, g) # WayAt(w, j + 1, q, h)
  <2>1. \A k, n \in 1 .. j + 1 : k < n => WayAt(way, j, q, k) # WayAt(way, j, q, n)
    BY DEF WayTo, j
  <2>2. ASSUME NEW g \in 1 .. j + 2, NEW h \in 1 .. j + 2, g < h PROVE WayAt(w, j + 1, q, g) # WayAt(w, j + 1, q, h)
    <3>1. h # 1
      BY <2>2
    <3>2. PICK n \in 1 .. j + 1 : h = n + 1
      BY <1>6, <3>1
    <3>3. CASE g = 1
      BY <1>4, <1>5, <3>2, <3>3 DEF j
    <3>4. CASE g # 1
      <4>1. PICK k \in 1 .. j + 1 : g = k + 1
        BY <1>6, <3>4
      <4>2. k < n
        BY <1>1, <2>2, <3>2, <4>1
      <4>3. QED
        BY <1>5, <2>1, <3>2, <4>1, <4>2
    <3>5. QED
      BY <3>3, <3>4
  <2>3. QED
    BY <2>2
<1>9. ASSUME NEW h \in 1 .. j + 1 PROVE StepDown(pg, w, j + 1, q, h)
  <2>1. CASE h = 1
    <3>1. WayAt(way, j, q, 1) = c
      BY DEF WayTo, j
    <3>2. 1 \in 1 .. j + 1
      BY <1>1
    <3>3. WayAt(w, j + 1, q, 1 + 1) = c
      BY <1>5, <3>1, <3>2
    <3>4. QED
      BY <1>1, <1>3, <1>4, <2>1, <3>3 DEF StepDown
  <2>2. CASE h # 1
    <3>1. h - 1 \in 1 .. j /\ (h - 1) + 1 = h /\ h \in 1 .. j + 1 /\ h - 1 \in 1 .. j + 1
      BY <1>1, <2>2
    <3> DEFINE k == h - 1
    <3>2. k \in 1 .. j /\ k + 1 = h /\ k \in 1 .. j + 1 /\ k + 1 \in 1 .. j + 1
      BY <3>1
    <3> HIDE DEF k
    <3>3. StepDown(pg, way, j, q, k)
      BY <3>2 DEF WayTo, j
    <3>4. WayAt(w, j + 1, q, h) = WayAt(way, j, q, k) /\ WayAt(w, j + 1, q, h + 1) = WayAt(way, j, q, k + 1) /\ w[h] = way[k]
      BY <1>3, <1>5, <3>2
    <3>5. QED
      BY <3>3, <3>4 DEF StepDown
  <2>3. QED
    BY <2>1, <2>2
<1>10. (j + 1) + 1 = j + 2
  BY <1>1
<1>11. WayTo(pg, m, w, j + 1, q, p)
  BY <1>4, <1>7, <1>8, <1>9, <1>10 DEF WayTo
<1>12. QED
  BY <1>2, <1>11 DEF w, b, j

\* Where a search goes from a page, and from there.
NextDown(pg, value, p) == pg[p].ptr[AM_BinSearch(pg[p].key, value) + 1]
DownFacts(pg, m, E, rk, value, p) ==
  LET i == AM_BinSearch(pg[p].key, value)
      c == NextDown(pg, value, p)
  IN  /\ pg[p].type = "i" /\ i \in Nat /\ i + 1 \in 1 .. Len(pg[p].ptr) /\ c \in 0 .. m - 1 /\ rk[c] < rk[p]
      /\ value \in E[p] => value \in E[c]

\* From an internal node a search goes on to a page for the value.
LEMMA DownIs ==
  ASSUME NEW pg, NEW m, NEW E, NEW rk, NEW N, Tree(pg, m, E, E, rk, N, -1, 0), NEW p \in 0 .. m - 1,
         pg[p].type # "l", NEW value \in Values
  PROVE  DownFacts(pg, m, E, rk, value, p)
<1> DEFINE K == pg[p].key
           P == pg[p].ptr
           i == AM_BinSearch(K, value)
<1>1. pg[p].type = "i" /\ IntOK(pg[p], E[p], rk[p], E, rk, 0 .. m - 1)
  BY TreeInt
<1>2. /\ K \in Seq(Values) /\ P \in Seq(0 .. m - 1) /\ Len(P) = Len(K) + 1 /\ Ordered(K)
      /\ \A k \in 1 .. Len(P) : E[P[k]] = Region(E[p], K, k) /\ rk[P[k]] < rk[p]
  BY <1>1 DEF IntOK
<1>3. K \in Seq(Int) /\ value \in Int
  BY <1>2, ValuesInt, SeqMonotonic
<1> HIDE DEF K, P
<1>4. PlaceFacts(K, value, i)
  BY <1>2, <1>3, PlaceIs
<1>5. Len(K) \in Nat /\ i \in 0 .. Len(K) /\ InSlot(K, i + 1, value)
  BY <1>2, <1>4, LenProperties DEF PlaceFacts
<1> HIDE DEF i
<1>6. i \in Nat /\ i + 1 \in 1 .. Len(P)
  BY <1>2, <1>5
<1>7. P[i + 1] \in 0 .. m - 1
  BY <1>2, <1>6, ElementOfSeq
<1>8. value \in E[p] => value \in E[P[i + 1]]
  BY <1>2, <1>5, <1>6 DEF Region
<1>9. QED
  BY <1>1, <1>2, <1>6, <1>7, <1>8 DEF DownFacts, NextDown, i, K, P

Answers(m) == [rc : {"AME_OK", "AME_PF"}, way : Seq(StepAt(m)), pageNum : 0 .. m - 1]
Answer(rc, way, p) == [rc |-> rc, way |-> way, pageNum |-> p]

\* An answer with one page more on its way.
LEMMA AnswerIs ==
  ASSUME NEW m, NEW r \in Answers(m), NEW b \in StepAt(m)
  PROVE  LET a == [r EXCEPT !.way = <<b>> \o @]
         IN  a \in Answers(m) /\ a.way = With(b, r.way) /\ a.rc = r.rc /\ a.pageNum = r.pageNum
<1> DEFINE w == With(b, r.way)
           a == [r EXCEPT !.way = <<b>> \o @]
<1>1. r.way \in Seq(StepAt(m))
  BY DEF Answers
<1>2. w \in Seq(StepAt(m))
  BY <1>1, WithIs
<1>3. a = [r EXCEPT !.way = w]
  BY DEF With
<1> HIDE DEF w
<1>4. a \in Answers(m) /\ a.way = w /\ a.rc = r.rc /\ a.pageNum = r.pageNum
  BY <1>2, <1>3 DEF Answers
<1>5. QED
  BY <1>4 DEF w

\* What a search says, from the page p on.
Arrives(s, pg, m, E, rk, value, p) ==
  value \in E[p] /\ s.rc = "AME_OK" =>
    /\ pg[s.pageNum].type = "l" /\ value \in E[s.pageNum]
    /\ WayTo(pg, m, s.way, Len(s.way), s.pageNum, p)
    /\ \A h \in 1 .. Len(s.way) + 1 : rk[WayAt(s.way, Len(s.way), s.pageNum, h)] <= rk[p]

Prefixed(v, b, Q) == v = [i \in 1 .. Len(Q) + 1 |-> IF i = 1 THEN b ELSE Q[i - 1]]

\* A sequence with b in front, as a function.
LEMMA WithAs ==
  ASSUME NEW S, NEW Q \in Seq(S), NEW b \in S
  PROVE  Prefixed(With(b, Q), b, Q)
BY WithIs DEF Prefixed

\* A search that arrives from the page below arrives from the page.
LEMMA ArrivesNext ==
  ASSUME NEW pg, NEW m, NEW E, NEW rk, NEW N, Tree(pg, m, E, E, rk, N, -1, 0), NEW p \in 0 .. m - 1,
         pg[p].type # "l", NEW value \in Values, NEW s \in Answers(m),
         Arrives(s, pg, m, E, rk, value, NextDown(pg, value, p)),
         NEW a \in Answers(m),
         a.way = With([pageNumber |-> p, offset |-> AM_BinSearch(pg[p].key, value)], s.way),
         a.rc = s.rc, a.pageNum = s.pageNum
  PROVE  Arrives(a, pg, m, E, rk, value, p)
<1> DEFINE i == AM_BinSearch(pg[p].key, value)
           c == NextDown(pg, value, p)
           j == Len(s.way)
           q == s.pageNum
           b == [pageNumber |-> p, offset |-> i]
<1> SUFFICES ASSUME value \in E[p], a.rc = "AME_OK"
             PROVE  /\ pg[q].type = "l" /\ value \in E[q] /\ WayTo(pg, m, a.way, Len(a.way), q, p)
                    /\ \A h \in 1 .. Len(a.way) + 1 : rk[WayAt(a.way, Len(a.way), q, h)] <= rk[p]
  BY DEF Arrives
<1>1. /\ pg[p].type = "i" /\ i \in Nat /\ i + 1 \in 1 .. Len(pg[p].ptr) /\ c \in 0 .. m - 1 /\ rk[c] < rk[p]
      /\ value \in E[c] /\ pg[p].ptr[i + 1] = c
  BY DownIs DEF DownFacts, NextDown
<1>2. /\ pg[q].type = "l" /\ value \in E[q] /\ WayTo(pg, m, s.way, j, q, c)
      /\ \A h \in 1 .. j + 1 : rk[WayAt(s.way, j, q, h)] <= rk[c]
  BY <1>1 DEF Arrives
<1>3. s.way \in Seq(StepAt(m)) /\ j \in Nat /\ m \in Nat /\ rk \in [0 .. m - 1 -> Nat] /\ q \in 0 .. m - 1
  BY LenProperties DEF Answers, Tree
<1> HIDE DEF i, c, b
<1>4. ASSUME NEW h \in 1 .. j + 1 PROVE WayAt(s.way, j, q, h) # p /\ rk[WayAt(s.way, j, q, h)] <= rk[p]
  <2> DEFINE x == WayAt(s.way, j, q, h)
  <2>1. x \in 0 .. m - 1 /\ rk[x] <= rk[c]
    BY <1>2 DEF WayTo
  <2>2. rk[x] \in Nat /\ rk[c] \in Nat /\ rk[p] \in Nat
    BY <1>1, <1>3, <2>1
  <2> HIDE DEF x
  <2>3. rk[x] < rk[p]
    BY <1>1, <2>1, <2>2
  <2>4. x # p /\ rk[x] <= rk[p]
    BY <2>2, <2>3
  <2>5. QED
    BY <2>4 DEF x
<1> DEFINE w == s.way
           v == With(b, w)
<1>5. v \in Seq(StepAt(m)) /\ WayTo(pg, m, v, Len(v), q, p) /\ Len(v) = j + 1
  <2>1. w \in Seq(StepAt(m)) /\ WayTo(pg, m, w, Len(w), q, c) /\ \A h \in 1 .. Len(w) + 1 : WayAt(w, Len(w), q, h) # p
    BY <1>2, <1>3, <1>4
  <2> HIDE DEF w, j, q
  <2>2. v \in Seq(StepAt(m)) /\ WayTo(pg, m, v, Len(v), q, p) /\ Len(v) = Len(w) + 1
    BY <1>1, <1>3, <2>1, WayLonger, SMTT(30) DEF b
  <2>3. QED
    BY <2>2 DEF j, w
<1>6. a.way = v
  BY DEF b, i
<1> HIDE DEF v
<1>7. ASSUME NEW h \in 1 .. (j + 1) + 1 PROVE rk[WayAt(v, j + 1, q, h)] <= rk[p]
  <2>1. v = [k \in 1 .. j + 1 |-> IF k = 1 THEN b ELSE w[k - 1]]
    <3>1. b \in StepAt(m)
      BY <1>1 DEF b, StepAt
    <3> DEFINE S == StepAt(m)
    <3>2. w \in Seq(S) /\ j = Len(w) /\ b \in S
      BY <1>3, <3>1
    <3> HIDE DEF w, j, S
    <3>3. Prefixed(v, b, w)
      BY <3>2, WithAs DEF v
    <3>4. QED
      BY <3>2, <3>3 DEF Prefixed
  <2>2. rk[p] \in Nat
    BY <1>3
  <2>3. CASE h = 1
    <3>1. WayAt(v, j + 1, q, h) = p
      <4>1. 1 <= j + 1 /\ 1 \in 1 .. j + 1
        BY <1>3
      <4>2. v[1] = b
        BY <2>1, <4>1
      <4>3. QED
        BY <2>3, <4>1, <4>2 DEF WayAt, b
    <3>2. QED
      BY <2>2, <3>1
  <2>4. CASE h # 1
    <3> DEFINE g == h - 1
    <3>1. g \in 1 .. j + 1 /\ (h <= j + 1 <=> g <= j) /\ (h <= j + 1 => h \in 1 .. j + 1)
      BY <1>3, <2>4, SMTT(30)
    <3>2. WayAt(v, j + 1, q, h) = WayAt(w, j, q, g)
      BY <2>1, <2>4, <3>1 DEF WayAt
    <3> HIDE DEF g
    <3>3. QED
      BY <1>4, <3>1, <3>2
  <2>5. QED
    BY <2>3, <2>4
<1>8. QED
  BY <1>2, <1>5, <1>6, <1>7

SearchTurn(f, p, value) ==
  IF p \in fixed THEN Answer("AME_PF", <<>>, p)
  ELSE IF IsLeaf(p) THEN Answer("AME_OK", <<>>, p)
  ELSE [f[NextDown(page, value, p)] EXCEPT
          !.way = <<[pageNumber |-> p, offset |-> AM_BinSearch(page[p].key, value)]>> \o @]
IsSearch(f, value) == f = [p \in DOMAIN page |-> SearchTurn(f, p, value)]

\* AM_Search as the solution of its recursion.
LEMMA SearchForm ==
  ASSUME NEW value
  PROVE  AM_Search(value) = (CHOOSE f : IsSearch(f, value))[0]
BY DEF AM_Search, IsSearch, SearchTurn, Answer, NextDown, AM_RootPageNum

\* It has one.
LEMMA SearchWalks ==
  ASSUME NEW m, NEW E, NEW rk, NEW N, Tree(page, m, E, E, rk, N, -1, 0), NEW value \in Values
  PROVE  \E f \in [0 .. m - 1 -> Answers(m)] : IsSearch(f, value)
<1> DEFINE D == 0 .. m - 1
           R == Answers(m)
           stop == {p \in D : p \in fixed \/ page[p].type = "l"}
           base == [p \in D |-> IF p \in fixed THEN Answer("AME_PF", <<>>, p) ELSE Answer("AME_OK", <<>>, p)]
           step == [p \in D |-> [pageNumber |-> p, offset |-> IF p \in stop THEN 0 ELSE AM_BinSearch(page[p].key, value)]]
           ext == [x \in D \X R |-> [x[2] EXCEPT !.way = <<step[x[1]]>> \o @]]
           nxt == [p \in D |-> NextDown(page, value, p)]
<1>1. m \in Nat \ {0} /\ rk \in [D -> Nat] /\ DOMAIN page = D
  BY TreePages DEF Tree
<1>2. \A p \in D : p \notin stop =>
        /\ AM_BinSearch(page[p].key, value) \in Nat /\ NextDown(page, value, p) \in D
        /\ rk[NextDown(page, value, p)] < rk[p]
  <2>1. ASSUME NEW p \in D, p \notin stop PROVE DownFacts(page, m, E, rk, value, p)
    BY <2>1, DownIs
  <2>2. QED
    BY <2>1 DEF DownFacts
<1>3. base \in [D -> R]
  <2>1. \A p \in D : Answer("AME_PF", <<>>, p) \in R /\ Answer("AME_OK", <<>>, p) \in R
    BY DEF Answer, Answers
  <2>2. QED
    BY <2>1
<1>4. \A p \in D : step[p] \in StepAt(m)
  BY <1>2 DEF StepAt
<1>5. ext \in [D \X R -> R]
  <2>1. ASSUME NEW x \in D \X R PROVE [x[2] EXCEPT !.way = <<step[x[1]]>> \o @] \in R
    <3> DEFINE b == step[x[1]]
               r == x[2]
    <3>1. b \in StepAt(m) /\ r \in Answers(m)
      BY <1>4
    <3> HIDE DEF b, r
    <3>2. [r EXCEPT !.way = <<b>> \o @] \in Answers(m)
      BY <3>1, AnswerIs
    <3>3. QED
      BY <3>2 DEF b, r
  <2>2. QED
    BY <2>1
<1>6. \A p \in D : p \notin stop => nxt[p] \in D /\ rk[nxt[p]] < rk[p]
  BY <1>2
<1>7. PICK top \in Nat : \A p \in D : rk[p] < top
  BY <1>1, RankBound
<1>8. \A x \in D \X R : ext[x] = [x[2] EXCEPT !.way = <<step[x[1]]>> \o @]
  OBVIOUS
<1> HIDE DEF ext, nxt, base, R, D
<1>9. PICK f \in [D -> R] : Walks(f, D, stop, base, ext, nxt)
  <2> HIDE DEF stop
  <2>1. QED
    BY <1>1, <1>3, <1>5, <1>6, <1>7, WalkExists
<1>10. ASSUME NEW p \in D PROVE f[p] = SearchTurn(f, p, value)
  <2>1. f[p] = Walk(f, p, stop, base, ext, nxt)
    BY <1>9 DEF Walks
  <2>2. CASE p \in stop
    BY <2>1, <2>2 DEF Walk, base, SearchTurn, IsLeaf
  <2>3. CASE p \notin stop
    <3> DEFINE c == nxt[p]
    <3>1. c = NextDown(page, value, p) /\ c \in D
      BY <1>2, <2>3 DEF nxt
    <3> HIDE DEF c
    <3>2. f[p] = ext[<<p, f[c]>>]
      BY <2>1, <2>3 DEF Walk, c
    <3>3. <<p, f[c]>> \in D \X R /\ <<p, f[c]>>[1] = p /\ <<p, f[c]>>[2] = f[c]
      BY <3>1
    <3>4. f[p] = [f[c] EXCEPT !.way = <<step[p]>> \o @]
      BY <1>8, <3>2, <3>3
    <3>5. step[p] = [pageNumber |-> p, offset |-> AM_BinSearch(page[p].key, value)]
      BY <2>3
    <3> HIDE DEF step
    <3>6. p \notin fixed /\ ~ IsLeaf(p)
      BY <2>3 DEF IsLeaf
    <3>7. QED
      BY <3>1, <3>4, <3>5, <3>6 DEF SearchTurn
  <2>4. QED
    BY <2>2, <2>3
<1>11. f = [p \in DOMAIN page |-> f[p]]
  BY <1>1, <1>9 DEF D
<1>12. IsSearch(f, value)
  BY <1>1, <1>10, <1>11 DEF IsSearch, D
<1>13. QED
  BY <1>9, <1>12 DEF D, R

SearchOK(s, m, E, value) ==
  /\ s \in Answers(m)
  /\ s.rc = "AME_OK" =>
       page[s.pageNum].type = "l" /\ value \in E[s.pageNum] /\ WayTo(page, m, s.way, Len(s.way), s.pageNum, 0)

\* AM_Search ends at the leaf of the value, with the way down to it.
LEMMA SearchDown ==
  ASSUME NEW m, NEW E, NEW rk, NEW N, Tree(page, m, E, E, rk, N, -1, 0), NEW value \in Values
  PROVE  SearchOK(AM_Search(value), m, E, value)
<1> DEFINE D == 0 .. m - 1
           F == CHOOSE f : IsSearch(f, value)
           T == {h \in Nat : \A p \in D : rk[p] < h => F[p] \in Answers(m) /\ Arrives(F[p], page, m, E, rk, value, p)}
<1>1. m \in Nat \ {0} /\ rk \in [D -> Nat] /\ DOMAIN page = D /\ E[0] = Values
  BY TreePages DEF Tree
<1>2. IsSearch(F, value)
  BY SearchWalks
<1> HIDE DEF F
<1>3. \A p \in D : F[p] = SearchTurn(F, p, value)
  BY <1>1, <1>2 DEF IsSearch
<1>4. 0 \in T
  <2>1. \A p \in D : ~ (rk[p] < 0)
    BY <1>1
  <2>2. QED
    BY <2>1
<1>5. ASSUME NEW h \in Nat, h \in T PROVE h + 1 \in T
  <2>1. ASSUME NEW p \in D, rk[p] < h + 1 PROVE F[p] \in Answers(m) /\ Arrives(F[p], page, m, E, rk, value, p)
    <3>1. CASE p \in fixed
      <4>1. F[p] = Answer("AME_PF", <<>>, p)
        BY <1>3, <3>1 DEF SearchTurn
      <4>2. QED
        BY <4>1 DEF Answer, Answers, Arrives
    <3>2. CASE p \notin fixed /\ IsLeaf(p)
      <4>1. F[p] = Answer("AME_OK", <<>>, p)
        BY <1>3, <3>2 DEF SearchTurn
      <4> DEFINE a == Answer("AME_OK", <<>>, p)
      <4>2. a \in Answers(m) /\ a.way = <<>> /\ a.pageNum = p
        BY DEF Answer, Answers
      <4> HIDE DEF a
      <4>3. Len(<<>>) = 0 /\ \A x \in 1 .. 0 + 1 : x = 1 /\ ~ (x <= 0)
        OBVIOUS
      <4>4. \A x \in 1 .. 0 + 1 : WayAt(<<>>, 0, p, x) = p
        BY <4>3 DEF WayAt
      <4>5. WayTo(page, m, <<>>, 0, p, p)
        <5>1. 1 \in 1 .. 0 + 1
          OBVIOUS
        <5>2. \A x, y \in 1 .. 0 + 1 : ~ (x < y)
          OBVIOUS
        <5>3. \A x \in 1 .. 0 : FALSE
          OBVIOUS
        <5>4. QED
          BY <4>4, <5>1, <5>2, <5>3 DEF WayTo
      <4>6. rk[p] <= rk[p]
        BY <1>1
      <4>7. Arrives(a, page, m, E, rk, value, p)
        BY <3>2, <4>2, <4>3, <4>4, <4>5, <4>6 DEF Arrives, IsLeaf
      <4>8. QED
        BY <4>1, <4>2, <4>7 DEF a
    <3>3. CASE p \notin fixed /\ ~ IsLeaf(p)
      <4> DEFINE c == NextDown(page, value, p)
                 i == AM_BinSearch(page[p].key, value)
                 b == [pageNumber |-> p, offset |-> i]
                 r == F[c]
                 a == [r EXCEPT !.way = <<b>> \o @]
      <4>1. DownFacts(page, m, E, rk, value, p) /\ page[p].type # "l"
        BY <3>3, DownIs DEF IsLeaf
      <4>2. c \in D /\ rk[c] < rk[p] /\ i \in Nat
        BY <4>1 DEF DownFacts
      <4>3. rk[c] < h
        <5>1. rk[c] \in Nat /\ rk[p] \in Nat
          BY <1>1, <4>2
        <5>2. QED
          BY <2>1, <4>2, <5>1
      <4>4. r \in Answers(m) /\ Arrives(r, page, m, E, rk, value, c)
        BY <1>5, <4>2, <4>3
      <4>5. F[p] = a
        BY <1>3, <3>3 DEF SearchTurn
      <4>6. b \in StepAt(m)
        BY <4>2 DEF StepAt
      <4> HIDE DEF b, r, c, T
      <4>7. a \in Answers(m) /\ a.way = With(b, r.way) /\ a.rc = r.rc /\ a.pageNum = r.pageNum
        BY <4>4, <4>6, AnswerIs
      <4> HIDE DEF a
      <4>8. Arrives(a, page, m, E, rk, value, p)
        BY <4>1, <4>4, <4>7, ArrivesNext DEF b, c
      <4>9. QED
        BY <4>5, <4>7, <4>8
    <3>4. QED
      BY <3>1, <3>2, <3>3
  <2>2. QED
    BY <2>1
<1>6. Nat \subseteq T
  <2> HIDE DEF T
  <2>1. QED
    BY <1>4, <1>5, SetInduction
<1>7. 0 \in D
  BY <1>1
<1>8. F[0] \in Answers(m) /\ Arrives(F[0], page, m, E, rk, value, 0)
  <2>1. rk[0] \in Nat
    BY <1>1, <1>7
  <2> DEFINE h == rk[0] + 1
  <2>2. h \in Nat /\ rk[0] < h
    BY <2>1
  <2> HIDE DEF h
  <2>3. h \in T
    BY <1>6, <2>2
  <2>4. QED
    BY <1>7, <2>2, <2>3
<1>9. AM_Search(value) = F[0]
  BY SearchForm DEF F
<1>10. QED
  BY <1>1, <1>8, <1>9 DEF SearchOK, Arrives

-----------------------------------------------------------------------------
(* What a search comes upon. *)

FoundTurn(f, p, value) == IF IsLeaf(p) THEN p ELSE f[NextDown(page, value, p)]
IsFound(f, value) == f = [p \in DOMAIN page |-> FoundTurn(f, p, value)]
LeafFor(value) == (CHOOSE f : IsFound(f, value))[0]

\* Found as the solution of its recursion.
LEMMA FoundForm ==
  ASSUME NEW value
  PROVE  LET l == page[LeafFor(value)]
             at == AM_SearchLeaf(l, value)
         IN  Found(value) = IF at.found THEN RecsAt(l, at.index) ELSE <<>>
BY DEF Found, LeafFor, IsFound, FoundTurn, NextDown, AM_RootPageNum

\* It has one.
LEMMA FoundWalks ==
  ASSUME NEW m, NEW E, NEW rk, NEW N, Tree(page, m, E, E, rk, N, -1, 0), NEW value \in Values
  PROVE  \E f \in [0 .. m - 1 -> 0 .. m - 1] : IsFound(f, value)
<1> DEFINE D == 0 .. m - 1
           stop == {p \in D : page[p].type = "l"}
           base == [p \in D |-> p]
           ext == [x \in D \X D |-> x[2]]
           nxt == [p \in D |-> NextDown(page, value, p)]
<1>1. m \in Nat \ {0} /\ rk \in [D -> Nat] /\ DOMAIN page = D
  BY TreePages DEF Tree
<1>2. \A p \in D : p \notin stop => NextDown(page, value, p) \in D /\ rk[NextDown(page, value, p)] < rk[p]
  <2>1. ASSUME NEW p \in D, p \notin stop PROVE DownFacts(page, m, E, rk, value, p)
    BY <2>1, DownIs
  <2>2. QED
    BY <2>1 DEF DownFacts
<1>3. base \in [D -> D] /\ ext \in [D \X D -> D]
  OBVIOUS
<1>4. \A p \in D : p \notin stop => nxt[p] \in D /\ rk[nxt[p]] < rk[p]
  BY <1>2
<1>5. PICK top \in Nat : \A p \in D : rk[p] < top
  BY <1>1, RankBound
<1>6. \A x \in D \X D : ext[x] = x[2]
  OBVIOUS
<1> HIDE DEF ext, nxt, base, D
<1>7. PICK f \in [D -> D] : Walks(f, D, stop, base, ext, nxt)
  <2> HIDE DEF stop
  <2>1. QED
    BY <1>1, <1>3, <1>4, <1>5, WalkExists
<1>8. ASSUME NEW p \in D PROVE f[p] = FoundTurn(f, p, value)
  <2>1. f[p] = Walk(f, p, stop, base, ext, nxt)
    BY <1>7 DEF Walks
  <2>2. CASE p \in stop
    BY <2>1, <2>2 DEF Walk, base, FoundTurn, IsLeaf
  <2>3. CASE p \notin stop
    <3> DEFINE c == nxt[p]
    <3>1. c = NextDown(page, value, p) /\ c \in D
      BY <1>2, <2>3 DEF nxt
    <3> HIDE DEF c
    <3>2. f[p] = ext[<<p, f[c]>>]
      BY <2>1, <2>3 DEF Walk, c
    <3>3. <<p, f[c]>> \in D \X D /\ <<p, f[c]>>[2] = f[c]
      BY <3>1
    <3>4. f[p] = f[c] /\ ~ IsLeaf(p)
      BY <1>6, <2>3, <3>2, <3>3 DEF IsLeaf
    <3>5. QED
      BY <3>1, <3>4 DEF FoundTurn
  <2>4. QED
    BY <2>2, <2>3
<1>9. f = [p \in DOMAIN page |-> f[p]]
  BY <1>1, <1>7
<1>10. IsFound(f, value)
  BY <1>1, <1>8, <1>9 DEF IsFound
<1>11. QED
  BY <1>7, <1>10 DEF D

LeafForOK(m, E, value) ==
  LeafFor(value) \in 0 .. m - 1 /\ page[LeafFor(value)].type = "l" /\ value \in E[LeafFor(value)]

\* It ends at the leaf of the value.
LEMMA LeafForIs ==
  ASSUME NEW m, NEW E, NEW rk, NEW N, Tree(page, m, E, E, rk, N, -1, 0), NEW value \in Values
  PROVE  LeafForOK(m, E, value)
<1> DEFINE D == 0 .. m - 1
           F == CHOOSE f : IsFound(f, value)
           Good(p) == F[p] \in D /\ page[F[p]].type = "l" /\ (value \in E[p] => value \in E[F[p]])
           T == {h \in Nat : \A p \in D : rk[p] < h => Good(p)}
<1>1. m \in Nat \ {0} /\ rk \in [D -> Nat] /\ DOMAIN page = D /\ E[0] = Values
  BY TreePages DEF Tree
<1>2. IsFound(F, value)
  BY FoundWalks
<1>3. LeafFor(value) = F[0]
  BY DEF LeafFor
<1> HIDE DEF F
<1>4. \A p \in D : F[p] = FoundTurn(F, p, value)
  BY <1>1, <1>2 DEF IsFound
<1>5. 0 \in T
  <2>1. \A p \in D : ~ (rk[p] < 0)
    BY <1>1
  <2>2. QED
    BY <2>1
<1>6. ASSUME NEW h \in Nat, h \in T PROVE h + 1 \in T
  <2>1. ASSUME NEW p \in D, rk[p] < h + 1 PROVE Good(p)
    <3>1. CASE IsLeaf(p)
      BY <1>4, <3>1 DEF FoundTurn, IsLeaf
    <3>2. CASE ~ IsLeaf(p)
      <4> DEFINE c == NextDown(page, value, p)
      <4>1. DownFacts(page, m, E, rk, value, p)
        BY <3>2, DownIs DEF IsLeaf
      <4>2. c \in D /\ rk[c] < rk[p] /\ (value \in E[p] => value \in E[c])
        BY <4>1 DEF DownFacts
      <4>3. rk[c] < h
        <5>1. rk[c] \in Nat /\ rk[p] \in Nat
          BY <1>1, <4>2
        <5>2. QED
          BY <2>1, <4>2, <5>1
      <4>4. Good(c)
        BY <1>6, <4>2, <4>3
      <4>5. F[p] = F[c]
        BY <1>4, <3>2 DEF FoundTurn
      <4> HIDE DEF c
      <4>6. QED
        BY <4>2, <4>4, <4>5
    <3>3. QED
      BY <3>1, <3>2
  <2>2. QED
    BY <2>1
<1>7. Nat \subseteq T
  <2> HIDE DEF T
  <2>1. QED
    BY <1>5, <1>6, SetInduction
<1>8. 0 \in D
  BY <1>1
<1>9. Good(0)
  <2>1. rk[0] \in Nat
    BY <1>1, <1>8
  <2> DEFINE h == rk[0] + 1
  <2>2. h \in Nat /\ rk[0] < h
    BY <2>1
  <2> HIDE DEF h
  <2>3. h \in T
    BY <1>7, <2>2
  <2>4. QED
    BY <1>8, <2>2, <2>3
<1>10. QED
  BY <1>1, <1>3, <1>9 DEF LeafForOK

\* What is found of a value in a tree is what the tree holds of it.
LEMMA FoundHolds ==
  ASSUME NEW m, NEW E, NEW rk, NEW N \in Counts, Tree(page, m, E, E, rk, N, -1, 0), NEW value \in Values,
         NEW r \in RecIds
  PROVE  RecCount(Found(value), r) = N[value][r]
<1> DEFINE p == LeafFor(value)
           l == page[p]
           at == AM_SearchLeaf(l, value)
           S == E[p]
           M == On(N, S)
<1>1. p \in 0 .. m - 1 /\ l.type = "l" /\ value \in S
  BY LeafForIs DEF LeafForOK
<1>2. LeafOK(l, M)
  <2> DEFINE x == -1
             new == 0
  <2> HIDE DEF x, new, p
  <2>1. Tree(page, m, E, E, rk, N, x, new)
    BY DEF x, new
  <2>2. QED
    BY <1>1, <2>1, TreeLeaf
<1>3. M[value] = N[value]
  BY <1>1 DEF On
<1>4. Found(value) = IF at.found THEN RecsAt(l, at.index) ELSE <<>>
  BY FoundForm
<1> HIDE DEF l, M, p
<1>5. SearchFacts(l, M, value, at)
  BY <1>2, SearchIs
<1> HIDE DEF at
<1>6. CASE at.found
  BY <1>3, <1>4, <1>5, <1>6 DEF SearchFacts
<1>7. CASE ~ at.found
  <2>1. N[value][r] = 0 /\ Found(value) = <<>>
    BY <1>3, <1>4, <1>5, <1>7 DEF SearchFacts
  <2>2. {j \in DOMAIN <<>> : <<>>[j] = r} = {}
    OBVIOUS
  <2>3. QED
    BY <2>1, <2>2, FS_EmptySet DEF RecCount
<1>8. QED
  BY <1>6, <1>7

-----------------------------------------------------------------------------
(* AM_AddtoParent from the leaf to its end. *)

\* What the loop of AM_AddtoParent comes to at its k-th level.
Level(f, k, s, way) ==
  IF k = 0 THEN s ELSE IF f[k - 1].done THEN f[k - 1] ELSE AddtoParentStep(f[k - 1], way[Len(way) - k + 1])
Levels(f, n, s, way) == f = [k \in 0 .. n |-> Level(f, k, s, way)]

\* AM_AddtoParent as the solution of its recursion.
LEMMA ParentForm ==
  ASSUME NEW pg, NEW new, NEW key, NEW way
  PROVE  AM_AddtoParent(pg, new, key, way)
           = (CHOOSE f : Levels(f, Len(way), State(pg, new, key, FALSE), way))[Len(way)].page
BY DEF AM_AddtoParent, Levels, Level, State

\* It has one.
LEMMA LevelsExist ==
  ASSUME NEW n \in Nat, NEW s, NEW way
  PROVE  \E f : Levels(f, n, s, way)
<1> DEFINE T == {k \in Nat : \E f : Levels(f, k, s, way)}
<1>1. 0 \in T
  <2> DEFINE f == [k \in 0 .. 0 |-> s]
  <2>1. \A k \in 0 .. 0 : k = 0
    OBVIOUS
  <2>2. \A k \in 0 .. 0 : Level(f, k, s, way) = s
    BY <2>1 DEF Level
  <2>3. f = [k \in 0 .. 0 |-> Level(f, k, s, way)]
    BY <2>2
  <2> HIDE DEF f
  <2>4. Levels(f, 0, s, way)
    BY <2>3 DEF Levels
  <2>5. QED
    BY <2>4
<1>2. ASSUME NEW k \in Nat, k \in T PROVE k + 1 \in T
  <2>1. PICK f : Levels(f, k, s, way)
    BY <1>2
  <2> DEFINE g == [h \in 0 .. k + 1 |-> IF h <= k THEN f[h] ELSE Level(f, k + 1, s, way)]
  <2>2. \A h \in 0 .. k : f[h] = Level(f, h, s, way) /\ h \in 0 .. k + 1 /\ h <= k
    BY <2>1 DEF Levels
  <2>3. \A h \in 0 .. k : g[h] = f[h]
    BY <2>2
  <2>4. k + 1 \in 0 .. k + 1 /\ ~ (k + 1 <= k)
    OBVIOUS
  <2>5. g[k + 1] = Level(f, k + 1, s, way) /\ DOMAIN g = 0 .. k + 1 /\ g = [h \in 0 .. k + 1 |-> g[h]]
    BY <2>4
  <2> HIDE DEF g
  <2>6. ASSUME NEW h \in 0 .. k + 1 PROVE g[h] = Level(g, h, s, way)
    <3>1. h # 0 => h - 1 \in 0 .. k
      OBVIOUS
    <3>2. Level(g, h, s, way) = Level(f, h, s, way)
      BY <2>3, <3>1 DEF Level
    <3>3. CASE h = k + 1
      BY <2>5, <3>2, <3>3
    <3>4. CASE h # k + 1
      <4>1. h \in 0 .. k
        BY <3>4
      <4>2. QED
        BY <2>2, <2>3, <3>2, <4>1
    <3>5. QED
      BY <3>3, <3>4
  <2>7. g = [h \in 0 .. k + 1 |-> Level(g, h, s, way)]
    BY <2>5, <2>6
  <2>8. Levels(g, k + 1, s, way)
    BY <2>7 DEF Levels
  <2>9. QED
    BY <2>8
<1>3. Nat \subseteq T
  <2> HIDE DEF T
  <2>1. QED
    BY <1>1, <1>2, SetInduction
<1>4. QED
  BY <1>3

\* At the end of the way the tree is whole.
LEMMA ParentIs ==
  ASSUME NEW pg, NEW m, NEW new, NEW key, NEW W, NEW way \in Seq(W), NEW M, NEW least \in Nat,
         Growing(pg, m, new, key, way, Len(way), M, least)
  PROVE  \E m2 : Grown(AM_AddtoParent(pg, new, key, way), m2, M, least)
<1> DEFINE n == Len(way)
           s == State(pg, new, key, FALSE)
           F == CHOOSE f : Levels(f, n, s, way)
           T == {k \in Nat : k <= n => Risen(F[k], way, n - k, M, least)}
<1>1. n \in Nat
  BY LenProperties
<1>2. Levels(F, n, s, way)
  BY <1>1, LevelsExist
<1>3. AM_AddtoParent(pg, new, key, way) = F[n].page
  BY ParentForm
<1> HIDE DEF F
<1>4. \A k \in 0 .. n : F[k] = Level(F, k, s, way)
  BY <1>2 DEF Levels
<1>5. 0 \in T
  <2>1. F[0] = s /\ n - 0 = n
    <3>1. 0 \in 0 .. n /\ n - 0 = n
      BY <1>1
    <3> HIDE DEF s, n
    <3>2. F[0] = Level(F, 0, s, way)
      BY <1>4, <3>1
    <3>3. QED
      BY <3>1, <3>2 DEF Level
  <2>2. Risen(s, way, n, M, least)
    BY DEF Risen
  <2>3. QED
    BY <2>1, <2>2
<1> HIDE DEF s
<1>6. ASSUME NEW k \in Nat, k \in T PROVE k + 1 \in T
  <2> SUFFICES ASSUME k + 1 <= n PROVE Risen(F[k + 1], way, n - (k + 1), M, least)
    OBVIOUS
  <2> DEFINE j == n - k
             a == F[k]
             k1 == k + 1
  <2>1. /\ k <= n /\ j \in Nat /\ j # 0 /\ k1 \in 0 .. n /\ k1 # 0 /\ k1 - 1 = k /\ n - k1 = j - 1
        /\ n - k1 + 1 = j
    BY <1>1
  <2>2. Risen(a, way, j, M, least)
    BY <1>6, <2>1
  <2>3. F[k1] = IF a.done THEN a ELSE AddtoParentStep(a, way[j])
    BY <1>4, <2>1 DEF Level
  <2>4. PICK x, y, z, w : \/ a = State(x, y, z, TRUE) /\ Grown(x, w, M, least)
                          \/ a = State(x, y, z, FALSE) /\ Growing(x, w, y, z, way, j, M, least)
    BY <2>2 DEF Risen
  <2> HIDE DEF j, a, k1, n
  <2>5. CASE a = State(x, y, z, TRUE) /\ Grown(x, w, M, least)
    <3>1. a.done
      BY <2>5 DEF State
    <3>2. Risen(a, way, j - 1, M, least)
      BY <2>5 DEF Risen
    <3>3. Risen(F[k1], way, n - k1, M, least)
      BY <2>1, <2>3, <3>1, <3>2
    <3>4. QED
      BY <3>3 DEF k1, n
  <2>6. CASE a = State(x, y, z, FALSE) /\ Growing(x, w, y, z, way, j, M, least)
    <3>1. ~ a.done
      BY <2>6 DEF State
    <3>2. Risen(AddtoParentStep(State(x, y, z, FALSE), way[j]), way, j - 1, M, least)
      BY <2>1, <2>6, RiseIs
    <3>3. Risen(F[k1], way, n - k1, M, least)
      BY <2>1, <2>3, <2>6, <3>1, <3>2
    <3>4. QED
      BY <3>3 DEF k1, n
  <2>7. QED
    BY <2>4, <2>5, <2>6
<1>7. Nat \subseteq T
  <2> HIDE DEF T
  <2>1. QED
    BY <1>5, <1>6, SetInduction
<1>8. Risen(F[n], way, 0, M, least)
  <2>1. n \in T /\ n <= n /\ n - n = 0
    BY <1>1, <1>7
  <2>2. QED
    BY <2>1
<1>9. PICK x, y, z, w : \/ F[n] = State(x, y, z, TRUE) /\ Grown(x, w, M, least)
                        \/ F[n] = State(x, y, z, FALSE) /\ Growing(x, w, y, z, way, 0, M, least)
  BY <1>8 DEF Risen
<1>10. ASSUME Growing(x, w, y, z, way, 0, M, least) PROVE FALSE
  <2>1. PICK E, G, rk, q : Pending(E, G, rk, q, y, z, w) /\ WayTo(x, w, way, 0, q, 0)
    BY <1>10 DEF Growing
  <2>2. WayAt(way, 0, q, 1) = q
    BY DEF WayAt
  <2>3. QED
    BY <2>1, <2>2 DEF WayTo, Pending
<1>11. F[n].page = x /\ Grown(x, w, M, least)
  BY <1>9, <1>10 DEF State
<1>12. QED
  BY <1>3, <1>11

-----------------------------------------------------------------------------
(* AM_SplitLeaf. *)

\* A way whose last page only changes.
LEMMA WayKept ==
  ASSUME NEW pg, NEW m \in Nat, NEW way, NEW j \in Nat, NEW q, NEW top, WayTo(pg, m, way, j, q, top),
         NEW pg2, NEW m2 \in Nat, m <= m2, \A o \in 0 .. m - 1 : o # q => pg2[o] = pg[o]
  PROVE  WayTo(pg2, m2, way, j, q, top)
<1>1. 0 .. m - 1 \subseteq 0 .. m2 - 1
  OBVIOUS
<1>2. \A h \in 1 .. j + 1 : WayAt(way, j, q, h) \in 0 .. m2 - 1
  BY <1>1 DEF WayTo
<1>3. ASSUME NEW h \in 1 .. j PROVE StepDown(pg2, way, j, q, h)
  <2>1. h \in 1 .. j + 1 /\ j + 1 \in 1 .. j + 1 /\ h < j + 1 /\ ~ (j + 1 <= j)
    OBVIOUS
  <2>2. StepDown(pg, way, j, q, h)
    BY DEF WayTo
  <2>3. WayAt(way, j, q, j + 1) = q
    BY <2>1 DEF WayAt
  <2>4. WayAt(way, j, q, h) # q /\ WayAt(way, j, q, h) \in 0 .. m - 1
    BY <2>1, <2>3 DEF WayTo
  <2>5. pg2[WayAt(way, j, q, h)] = pg[WayAt(way, j, q, h)]
    BY <2>4
  <2>6. QED
    BY <2>2, <2>5 DEF StepDown
<1>4. QED
  BY <1>2, <1>3 DEF WayTo

\* Another leaf holds nothing of a value of the leaf p.
LEMMA OthersPlus ==
  ASSUME NEW pg, NEW m, NEW E, NEW rk, NEW N \in Counts, Tree(pg, m, E, E, rk, N, -1, 0),
         NEW p \in 0 .. m - 1, pg[p].type = "l", NEW v \in Values, v \in E[p], NEW r \in RecIds
  PROVE  OthersHold(pg, E, N, Plus(N, v, r), p, m)
<1> DEFINE M == Plus(N, v, r)
<1>1. \A w \in Values : w # v => M[w] = N[w]
  BY DEF Plus, Counts
<1> HIDE DEF M
<1>2. ASSUME NEW o \in 0 .. m - 1, o # p, pg[o].type = "l" PROVE v \notin E[o]
  <2>1. E[o] \cap E[p] = {}
    BY <1>2 DEF Tree, Apart
  <2>2. QED
    BY <2>1
<1>3. QED
  BY <1>1, <1>2 DEF OthersHold, M

SplitPages(p, new, s, way) ==
  LET first == [s.first EXCEPT !.nextLeafPage = new]
      key == s.second.key[1].val
  IN  IF p = 0 THEN [Allocated(page, <<s.second, first>>) EXCEPT ![p] = Node(<<key>>, <<new + 1, new>>)]
      ELSE AM_AddtoParent([Allocated(page, <<s.second>>) EXCEPT ![p] = first], new, key, way)

\* AM_SplitLeaf, by its cases.
LEMMA SplitForm ==
  ASSUME NEW p, NEW value, NEW recId, NEW index, NEW found, NEW way
  PROVE  AM_SplitLeaf(p, value, recId, index, found, way)
           = SplitPages(p, NumPages, SplitLeaf(page[p], value, recId, index, found), way)
BY DEF AM_SplitLeaf, SplitPages, AM_RootPageNum

\* The halves are leaves, the second with what was behind the leaf.
HalvesForm(s, new, l) == HalvesChained([s.first EXCEPT !.nextLeafPage = new], s.second, l, new)

\* The halves as AM_SplitLeaf chains them.
LEMMA HalvesFormIs ==
  ASSUME NEW l, NEW S \in SUBSET Values, NEW N \in Counts, LeafOK(l, On(N, S)), NEW v \in Values, v \in S,
         NEW r \in RecIds, Small(Plus(N, v, r)), NEW index, NEW found, Spot(l, v, index, found), l.numKeys >= 2,
         NEW new
  PROVE  HalvesForm(SplitLeaf(l, v, r, index, found), new, l)
<1> DEFINE M == Plus(N, v, r)
           NS == On(N, S)
           s == SplitLeaf(l, v, r, index, found)
           f == s.first
           g == s.second
           key == g.key[1].val
           a == [f EXCEPT !.nextLeafPage = new]
<1>1. M \in Counts /\ NS \in Counts /\ On(M, S) = Plus(NS, v, r) /\ Small(On(M, S))
  BY PlusIs, OnIs, OnPlus
<1>2. Small(Plus(NS, v, r))
  BY <1>1
<1>3. SplitFacts(f, g, l, NS, v, r)
  <2> HIDE DEF NS
  <2>1. LeafOK(l, NS)
    BY DEF NS
  <2>2. QED
    BY <1>1, <1>2, <2>1, SplitIs
<1> HIDE DEF s
<1>4. g.nextLeafPage = l.nextLeafPage /\ LeafOK(f, Low(Plus(NS, v, r), key)) /\ LeafOK(g, High(Plus(NS, v, r), key))
  BY <1>3 DEF SplitFacts
<1> DEFINE K1 == Low(Plus(NS, v, r), key)
           K2 == High(Plus(NS, v, r), key)
<1>5. LeafOK(f, K1) /\ LeafOK(g, K2) /\ LeafOK(l, NS)
  BY <1>4
<1> HIDE DEF f, g, K1, K2, NS
<1>6. a.nextLeafPage = new /\ a.type = "l"
  BY <1>5, NextLeafIs
<1>7. g.type = "l" /\ l.type = "l"
  BY <1>5, TypedIs DEF LeafTyped
<1>8. QED
  BY <1>4, <1>6, <1>7 DEF HalvesForm, HalvesChained, f, g, s

\* AM_SplitLeaf makes a tree that holds the new entry as well.
LEMMA SplitGrows ==
  ASSUME NEW m, NEW E, NEW rk, NEW N \in Counts, Tree(page, m, E, E, rk, N, -1, 0),
         Linked(page, m, E), NEW p \in 0 .. m - 1, page[p].type = "l", NEW v \in Values, v \in E[p], NEW r \in RecIds,
         Small(Plus(N, v, r)), NEW index, NEW found, Spot(page[p], v, index, found), page[p].numKeys >= 2,
         NEW W, NEW way \in Seq(W), WayTo(page, m, way, Len(way), p, 0)
  PROVE  \E m2 : Grown(AM_SplitLeaf(p, v, r, index, found, way), m2, Plus(N, v, r), m)
<1> DEFINE M == Plus(N, v, r)
           l == page[p]
           s == SplitLeaf(l, v, r, index, found)
           a == [s.first EXCEPT !.nextLeafPage = m]
           b == s.second
           key == b.key[1].val
           S == E[p]
           h == rk[p]
           D == 0 .. m - 1
           D2 == 0 .. m
           D3 == 0 .. m + 1
<1>1. m \in Nat \ {0} /\ PagesAre(page, m) /\ NumPages = m
  BY TreePages DEF NumPages
<1>2. AM_SplitLeaf(p, v, r, index, found, way) = SplitPages(p, m, s, way)
  BY <1>1, SplitForm
<1>3. LeafOK(l, On(N, S)) /\ l.nextLeafPage \in {AM_NULL_PAGE} \cup D
  <2> DEFINE x == -1
             new == 0
  <2>1. Tree(page, m, E, E, rk, N, x, new)
    OBVIOUS
  <2> HIDE DEF x, new
  <2>2. QED
    BY <2>1, TreeLeaf
<1>4. S \in SUBSET Values /\ D \subseteq D2 /\ D \subseteq D3 /\ m \in D2 /\ m \in D3
  BY <1>1 DEF Tree
<1>5. Cut(a, b, key, l, S, h, E, rk, M, D, D2) /\ Cut(a, b, key, l, S, h, E, rk, M, D, D3)
  <2>1. v \in S /\ Spot(l, v, index, found) /\ l.numKeys >= 2 /\ Small(Plus(N, v, r))
    OBVIOUS
  <2> HIDE DEF l, S, D, D2, D3, h
  <2>2. LeafHalves(SplitLeaf(l, v, r, index, found), m, l, S, h, E, rk, Plus(N, v, r), D, D2)
    BY <1>3, <1>4, <2>1, LeafCut
  <2>3. LeafHalves(SplitLeaf(l, v, r, index, found), m, l, S, h, E, rk, Plus(N, v, r), D, D3)
    BY <1>3, <1>4, <2>1, LeafCut
  <2>4. QED
    BY <2>2, <2>3 DEF LeafHalves
<1>10. HalvesChained(a, b, l, m) /\ key \in S /\ \E w \in S : w < key
  <2>1. HalvesForm(s, m, l)
    <3>1. v \in S /\ Spot(l, v, index, found) /\ l.numKeys >= 2 /\ Small(Plus(N, v, r))
      OBVIOUS
    <3> HIDE DEF l, S
    <3>2. HalvesForm(SplitLeaf(l, v, r, index, found), m, l)
      BY <1>3, <1>4, <3>1, HalvesFormIs
    <3>3. QED
      BY <3>2
  <2>2. QED
    BY <1>5, <2>1 DEF Cut, HalvesForm
<1>6. OthersHold(page, E, N, M, p, m)
  BY OthersPlus
<1>7. CASE p = 0
  <2>1. SplitPages(p, m, s, way) = RootPages(page, m, a, b, key)
    <3>1. SplitPages(p, m, s, way) = [Allocated(page, <<b, a>>) EXCEPT ![0] = Node(<<key>>, <<m + 1, m>>)]
      BY <1>7 DEF SplitPages
    <3> HIDE DEF a, b, key
    <3>2. QED
      BY <1>1, <3>1, TwoAllocated
  <2>2. RootFacts(page, m, E, rk, M, a, b, key)
    <3>1. /\ OthersHold(page, E, N, M, 0, m)
          /\ Cut(a, b, key, page[0], E[0], rk[0], E, rk, M, 0 .. m - 1, 0 .. m + 1)
      BY <1>5, <1>6, <1>7
    <3> DEFINE x == -1
    <3>2. x = -1 \/ x = 0
      OBVIOUS
    <3>3. Tree(page, m, E, E, rk, N, x, 0)
      OBVIOUS
    <3> HIDE DEF a, b, key, M, x
    <3>4. QED
      BY <3>1, <3>2, <3>3, RootIs
  <2> HIDE DEF a, b, key, M
  <2>3. Grown(RootPages(page, m, a, b, key), m + 2, M, m)
    <3>1. m + 2 >= m
      BY <1>1
    <3>2. E[0] = Values
      BY DEF Tree
    <3>3. Linked(RootPages(page, m, a, b, key), m + 2, RootRegs(E, m, key))
      <4>1. HalvesChained(a, b, page[0], m) /\ key \in Values /\ \E w \in Values : w < key
        BY <1>7, <1>10, <3>2 DEF a, b, key
      <4>2. QED
        BY <3>2, <4>1, LinkedRoot
    <3>4. QED
      BY <2>2, <3>1, <3>3 DEF RootFacts, Grown
  <2>4. QED
    BY <1>2, <2>1, <2>3 DEF M
<1>8. CASE p # 0
  <2> DEFINE pg2 == CutPages(page, m, p, a, b)
             mx == m + 1
             n == Len(way)
  <2>1. SplitPages(p, m, s, way) = AM_AddtoParent(pg2, m, key, way)
    <3>1. SplitPages(p, m, s, way) = AM_AddtoParent([Allocated(page, <<b>>) EXCEPT ![p] = a], m, key, way)
      BY <1>8 DEF SplitPages
    <3>2. [Allocated(page, <<b>>) EXCEPT ![p] = a] = pg2
      <4> HIDE DEF a, b
      <4>1. QED
        BY <1>1, OneAllocated
    <3>3. QED
      BY <3>1, <3>2
  <2>2. CutFacts(page, m, E, rk, M, p, a, b, key)
    <3> DEFINE x == -1
    <3>1. x = -1 \/ x = p
      OBVIOUS
    <3>2. /\ Tree(page, m, E, E, rk, N, x, 0)
          /\ Cut(a, b, key, page[p], E[p], rk[p], E, rk, M, 0 .. m - 1, 0 .. m)
      BY <1>5
    <3> HIDE DEF a, b, key, M, x
    <3>3. QED
      BY <1>6, <1>8, <3>1, <3>2, CutIs
  <2>3. \A o \in 0 .. m - 1 : o # p => pg2[o] = page[o]
    BY <1>1 DEF CutPages
  <2>4. mx \in Nat /\ m <= mx /\ m \in Nat /\ mx >= m /\ n \in Nat
    BY <1>1, LenProperties
  <2> HIDE DEF a, b, key, M, pg2
  <2>5. WayTo(pg2, mx, way, n, p, 0)
    <3> DEFINE top == 0
    <3>1. WayTo(page, m, way, n, p, top)
      OBVIOUS
    <3> HIDE DEF top, mx, n
    <3>2. WayTo(pg2, mx, way, n, p, top)
      BY <2>3, <2>4, <3>1, WayKept
    <3>3. QED
      BY <3>2 DEF top
  <2>6. Growing(pg2, mx, m, key, way, n, M, m)
    <3>1. /\ Tree(pg2, mx, CutRegs(E, m, p, key), CutFor(E, m), CutRanks(rk, m, p), M, -1, m)
          /\ Pending(CutRegs(E, m, p, key), CutFor(E, m), CutRanks(rk, m, p), p, m, key, mx)
      BY <2>2 DEF CutFacts, pg2
    <3>3. Linked(pg2, mx, CutRegs(E, m, p, key))
      <4>1. HalvesChained(a, b, page[p], m) /\ key \in E[p] /\ (\E w \in E[p] : w < key) /\ m \in Nat \ {0}
        BY <1>1, <1>10 DEF a, b, key
      <4>2. QED
        BY <1>8, <4>1, LinkedCut DEF pg2
    <3> HIDE DEF mx, n
    <3>2. QED
      BY <2>4, <2>5, <3>1, <3>3 DEF Growing
  <2>7. \E m2 : Grown(AM_AddtoParent(pg2, m, key, way), m2, M, m)
    <3> HIDE DEF mx
    <3>1. QED
      BY <2>4, <2>6, ParentIs
  <2>8. QED
    BY <1>2, <2>1, <2>7 DEF M
<1>9. QED
  BY <1>7, <1>8

-----------------------------------------------------------------------------
(* The inductive invariant. *)

\* A tree holds what the callers were told, whatever they left fixed and on the stack.
HoldsAcked == \E m, E, rk : Tree(page, m, E, E, rk, acked, -1, 0) /\ Linked(page, m, E)
TreeInv == acked \in Counts /\ Small(acked) /\ NumPages <= MaxPages /\ HoldsAcked
WholeInv ==
  /\ TreeInv
  /\ fixed \subseteq DOMAIN page
  /\ stack \in Seq([pageNumber : DOMAIN page, offset : Nat])
\* Of an index that was damaged, nothing is claimed.
AMInv == damaged \in BOOLEAN /\ (~ damaged => WholeInv)

\* An entry has a value and a record identifier.
LEMMA PairIs ==
  ASSUME NEW pair \in Pairs
  PROVE  pair[1] \in Values /\ pair[2] \in RecIds /\ pair[2] \in RecsOf(pair[1])
<1>1. pair[1] \in Values /\ pair[2] \in RecIds
  BY DEF Values, RecIds
<1>2. pair = <<pair[1], pair[2]>>
  BY AMAssumption
<1>3. QED
  BY <1>1, <1>2 DEF RecsOf

\* At first nothing is held.
LEMMA ZerosAre == Zeros \in Counts /\ Small(Zeros) /\ On(Zeros, Values) = Zeros
<1>1. Zeros \in Counts
  BY DEF Zeros, Counts
<1>2. Small(Zeros)
  BY AMAssumption DEF Zeros, Small
<1>3. On(Zeros, Values) = Zeros
  BY DEF On, Zeros
<1>4. QED
  BY <1>1, <1>2, <1>3

\* At first the tree is one empty leaf.
LEMMA InitTree ==
  ASSUME NEW pg, pg = [p \in {0} |-> EmptyLeaf]
  PROVE  \E m, E, rk : Tree(pg, m, E, E, rk, Zeros, -1, 0) /\ Linked(pg, m, E)
<1> DEFINE D == 0 .. 1 - 1
           E == [p \in D |-> Values]
           rk == [p \in D |-> 0]
<1>1. D = {0} /\ pg[0] = EmptyLeaf /\ DOMAIN pg = {0} /\ pg = [p \in D |-> pg[p]]
  OBVIOUS
<1>2. EmptyLeaf.type = "l" /\ EmptyLeaf.nextLeafPage = AM_NULL_PAGE
  BY DEF EmptyLeaf
<1>3. Values # {}
  BY AMAssumption DEF Values
<1>4. LeafOK(EmptyLeaf, On(Zeros, Values))
  BY <1>3, EmptyLeafIs, ZerosAre
<1>5. E \in [D -> SUBSET Values] /\ rk \in [D -> Nat] /\ E[0] = Values
  BY <1>1
<1>6. \A p \in D : p = 0
  BY <1>1
<1> HIDE DEF D, E, rk
<1>7. ASSUME NEW p \in D PROVE PageOK(pg[p], E[p], rk[p], E, rk, Zeros, D, IF p = -1 THEN MaxKeys + 1 ELSE MaxKeys)
  BY <1>1, <1>2, <1>4, <1>5, <1>6 DEF PageOK
<1>8. Apart(pg, E, D)
  BY <1>6 DEF Apart
<1>9. Hangs(KidsOf(pg, D), D, {0, 0})
  <2> DEFINE K == KidsOf(pg, D)
  <2>1. \A p \in D : K[p] = <<>>
    BY <1>1, <1>2, <1>6 DEF KidsOf, Kids
  <2> HIDE DEF K
  <2>2. \A p \in D : K[p] \in Seq(D) /\ ~ (\E i \in 1 .. Len(K[p]) : TRUE)
    <3>1. <<>> \in Seq(D) /\ ~ (\E i \in 1 .. Len(<<>>) : TRUE)
      OBVIOUS
    <3>2. QED
      BY <2>1, <3>1
  <2>3. QED
    BY <1>6, <2>2 DEF Hangs, K
<1>10. Tree(pg, 1, E, E, rk, Zeros, -1, 0)
  <2> DEFINE m == 1
  <2>1. 0 .. m - 1 = D /\ m \in Nat \ {0}
    BY DEF D
  <2> HIDE DEF m
  <2>2. Tree(pg, m, E, E, rk, Zeros, -1, 0)
    BY <1>1, <1>5, <1>7, <1>8, <1>9, <2>1 DEF Tree
  <2>3. QED
    BY <2>2 DEF m
<1>11. Linked(pg, 1, E)
  <2> DEFINE S == Values
  <2>1. Run(S) /\ Above(S) = {}
    <3>1. \A v \in Values : ~ (v < v)
      BY ValueOrder
    <3>2. QED
      BY <1>3, <3>1 DEF Run, Above
  <2>2. E[0] = S /\ pg[0].type = "l" /\ pg[0].nextLeafPage = AM_NULL_PAGE
    BY <1>1, <1>2, <1>5
  <2> DEFINE m == 1
  <2>3. \A p \in 0 .. m - 1 : p = 0
    OBVIOUS
  <2> HIDE DEF S
  <2>4. LinkOK(AM_NULL_PAGE, S, pg, E, m)
    BY <2>1 DEF LinkOK
  <2>5. FirstOK(pg, E, m)
    BY <2>2 DEF FirstOK
  <2> HIDE DEF m
  <2>6. Linked(pg, m, E)
    BY <2>2, <2>3, <2>4, <2>5 DEF Linked
  <2>7. QED
    BY <2>6 DEF m
<1>12. QED
  BY <1>10, <1>11

\* The invariant holds at first.
LEMMA InitHolds == Init => AMInv
<1> SUFFICES ASSUME Init PROVE AMInv
  OBVIOUS
<1>1. page = [p \in {0} |-> EmptyLeaf] /\ fixed = {} /\ stack = <<>> /\ acked = Zeros
  BY DEF Init, AM_RootPageNum, Zeros
<1>2. HoldsAcked
  BY <1>1, InitTree DEF HoldsAcked
<1>3. NumPages <= MaxPages
  <2>1. DOMAIN page = {0}
    BY <1>1
  <2>2. Cardinality({0}) = 1
    BY FS_Singleton
  <2>3. QED
    BY <2>1, <2>2, AMAssumption DEF NumPages
<1>4. QED
  <2>1. TreeInv
    BY <1>1, <1>2, <1>3, ZerosAre DEF TreeInv
  <2>2. <<>> \in Seq([pageNumber : DOMAIN page, offset : Nat])
    OBVIOUS
  <2>3. QED
    BY <1>1, <2>1, <2>2 DEF AMInv, WholeInv, Init

\* One entry more, within the bounds.
LEMMA SmallPlus ==
  ASSUME NEW N \in Counts, Small(N), NEW v \in Values, NEW r \in RecsOf(v), N[v][r] < MaxCopies
  PROVE  Small(Plus(N, v, r)) /\ Plus(N, v, r) \in Counts
<1>1. r \in RecIds
  BY DEF RecsOf
<1>2. /\ Plus(N, v, r) \in Counts
      /\ \A w \in Values : \A s \in RecIds :
           Plus(N, v, r)[w][s] = IF w = v /\ s = r THEN N[w][s] + 1 ELSE N[w][s]
  BY <1>1, PlusIs
<1>3. N[v][r] \in Nat /\ MaxCopies \in Nat
  BY <1>1, AMAssumption DEF Counts
<1>4. N[v][r] + 1 <= MaxCopies
  BY <1>3
<1>5. QED
  BY <1>2, <1>4 DEF Small

\* With an entry fewer, no value has too many.
LEMMA SmallMinus ==
  ASSUME NEW N \in Counts, Small(N), NEW v \in Values, NEW r \in RecIds, NEW S, v \in S,
         Minus(On(N, S), v, r) \in Counts
  PROVE  Minus(N, v, r) \in Counts /\ Small(Minus(N, v, r))
<1> DEFINE M == On(N, S)
           K == Minus(N, v, r)
<1>1. M \in Counts /\ M[v] = N[v]
  BY OnIs
<1> HIDE DEF M
<1>2. M[v][r] - 1 \in Nat
  <2>1. Minus(M, v, r)[v][r] = M[v][r] - 1
    BY <1>1 DEF Minus, Counts
  <2>2. Minus(M, v, r) \in Counts
    BY DEF M
  <2>3. Minus(M, v, r)[v][r] \in Nat
    BY <2>2 DEF Counts
  <2>4. QED
    BY <2>1, <2>3
<1>3. N[v][r] - 1 \in Nat
  BY <1>1, <1>2
<1>4. \A w \in Values : \A s \in RecIds : N[w][s] \in Nat /\ K[w][s] = IF w = v /\ s = r THEN N[w][s] - 1 ELSE N[w][s]
  BY DEF Minus, Counts
<1>5. K = [w \in Values |-> K[w]] /\ \A w \in Values : K[w] = [s \in RecIds |-> K[w][s]]
  BY DEF Minus, Counts
<1> HIDE DEF K
<1>6. K \in Counts
  BY <1>3, <1>4, <1>5 DEF Counts
<1>7. ASSUME NEW w \in Values, NEW s \in RecIds PROVE K[w][s] <= IF s \in RecsOf(w) THEN MaxCopies ELSE 0
  <2>1. N[w][s] <= IF s \in RecsOf(w) THEN MaxCopies ELSE 0
    BY DEF Small
  <2>2. K[w][s] <= N[w][s] /\ K[w][s] \in Int /\ N[w][s] \in Int
    BY <1>4
  <2>3. MaxCopies \in Int
    BY AMAssumption
  <2>4. QED
    BY <2>1, <2>2, <2>3
<1>8. QED
  BY <1>6, <1>7 DEF Small, K

-----------------------------------------------------------------------------
(* The calls. *)

SameOff(M, N, S) == \A w \in Values : w \notin S => M[w] = N[w]

\* One entry more changes the entries of one value only.
LEMMA SameOffIs ==
  ASSUME NEW N \in Counts, NEW S, NEW v \in Values, v \in S, NEW r \in RecIds
  PROVE  SameOff(Plus(N, v, r), N, S) /\ SameOff(Minus(N, v, r), N, S)
<1>1. \A w \in Values : w # v => Plus(N, v, r)[w] = N[w]
  BY DEF Plus, Counts
<1>2. \A w \in Values : w # v => Minus(N, v, r)[w] = N[w]
  BY DEF Minus, Counts
<1>3. QED
  BY <1>1, <1>2 DEF SameOff

\* A leaf of the tree with another leaf in its place that holds one entry more.
LEMMA LeafGrows ==
  ASSUME NEW m, NEW E, NEW rk, NEW N \in Counts, Tree(page, m, E, E, rk, N, -1, 0),
         NEW p \in 0 .. m - 1, page[p].type = "l", NEW v \in Values, v \in E[p], NEW r \in RecIds,
         NEW index, NEW found, NEW k, Inserted(k, page[p], On(N, E[p]), v, r, index, found), Linked(page, m, E)
  PROVE  Tree([page EXCEPT ![p] = k], m, E, E, rk, Plus(N, v, r), -1, 0) /\ Linked([page EXCEPT ![p] = k], m, E)
<1> DEFINE M == Plus(N, v, r)
           S == E[p]
<1>1. On(M, S) = Plus(On(N, S), v, r)
  BY OnPlus
<1>2. k.nextLeafPage = page[p].nextLeafPage /\ LeafOK(k, On(M, S))
  BY <1>1 DEF Inserted
<1>3. SameOff(M, N, S)
  BY SameOffIs
<1> HIDE DEF M, S
<1>4. k.type = "l"
  BY <1>2, TypedIs DEF LeafTyped
<1>5. Tree([page EXCEPT ![p] = k], m, E, E, rk, M, -1, 0)
  BY <1>2, <1>3, <1>4, LeafReplaced DEF S, SameOff
<1>6. Linked([page EXCEPT ![p] = k], m, E)
  <2>1. m \in Nat \ {0} /\ DOMAIN page = 0 .. m - 1
    BY TreePages
  <2>2. QED
    BY <1>2, <1>4, <2>1, LinkedReplaced
<1>7. QED
  BY <1>5, <1>6 DEF M

\* The pages after an entry was put into the leaf p, or the leaf split.
AfterPut(put, p, v, r, index, found, way) ==
  IF put.done THEN [page EXCEPT ![p] = put.leaf] ELSE AM_SplitLeaf(p, v, r, index, found, way)

\* AM_InsertintoLeaf, or the split in its stead, makes a tree that holds the entry as well,
\* unless it compacts a range of no keys.
LEMMA PutGrows ==
  ASSUME NEW m, NEW E, NEW rk, NEW N \in Counts, Small(N), Tree(page, m, E, E, rk, N, -1, 0), Linked(page, m, E),
         NEW p \in 0 .. m - 1, page[p].type = "l", NEW v \in Values, v \in E[p], NEW r \in RecsOf(v),
         N[v][r] < MaxCopies, NEW index, NEW found, Spot(page[p], v, index, found),
         NEW W, NEW way \in Seq(W), WayTo(page, m, way, Len(way), p, 0),
         NEW put, put = AM_InsertintoLeaf(page[p], v, r, index, found),
         ~ CompactsNothing(page[p], found, put.done)
  PROVE  \E m2 : Grown(AfterPut(put, p, v, r, index, found, way), m2, Plus(N, v, r), m)
<1> DEFINE l == page[p]
           S == E[p]
           K == On(N, S)
<1>1. r \in RecIds
  BY DEF RecsOf
<1>2. Small(Plus(N, v, r)) /\ Plus(N, v, r) \in Counts
  BY SmallPlus
<1>3. K \in Counts /\ LeafOK(l, K)
  BY OnIs, TreeLeaf
<1>4. Small(Plus(K, v, r))
  <2> DEFINE P == Plus(N, v, r)
  <2>1. On(P, S) = Plus(K, v, r)
    BY <1>1, OnPlus
  <2>2. P \in Counts /\ Small(P)
    BY <1>2
  <2> HIDE DEF P
  <2>3. Small(On(P, S))
    BY <2>2, OnIs
  <2>4. QED
    BY <2>1, <2>3
<1> HIDE DEF l, S, K
<1>5. Spot(l, v, index, found)
  BY DEF l
<1>6. InsertFacts(AM_InsertintoLeaf(l, v, r, index, found), l, K, v, r, index, found)
  BY <1>1, <1>3, <1>4, <1>5, InsertinIs
<1>7. InsertFacts(put, l, K, v, r, index, found) /\ ~ CompactsNothing(l, found, put.done)
  BY <1>6 DEF l
<1>8. CASE put.done
  <2>1. Inserted(put.leaf, page[p], On(N, E[p]), v, r, index, found)
    BY <1>7, <1>8 DEF InsertFacts, l, K, S
  <2> DEFINE k == put.leaf
             P == [page EXCEPT ![p] = k]
             M == Plus(N, v, r)
  <2>2. Inserted(k, page[p], On(N, E[p]), v, r, index, found)
    BY <2>1
  <2> HIDE DEF k
  <2>3. Tree(P, m, E, E, rk, M, -1, 0) /\ Linked(P, m, E)
    BY <1>1, <2>2, LeafGrows
  <2>4. m \in Nat
    BY TreePages
  <2> HIDE DEF P, M
  <2>5. Grown(P, m, M, m)
    BY <2>3, <2>4 DEF Grown
  <2>6. P = AfterPut(put, p, v, r, index, found, way)
    BY <1>8 DEF AfterPut, P, k
  <2>7. QED
    BY <2>5, <2>6 DEF M
<1>9. CASE ~ put.done
  <2>1. page[p].numKeys >= 2
    BY <1>7, <1>9 DEF InsertFacts, l
  <2>2. \E m2 : Grown(AM_SplitLeaf(p, v, r, index, found, way), m2, Plus(N, v, r), m)
    BY <1>1, <1>2, <2>1, SplitGrows
  <2>3. QED
    BY <1>9, <2>2 DEF AfterPut
<1>10. QED
  BY <1>8, <1>9

\* A leaf of the tree with an entry removed.
LEMMA RemovedShrinks ==
  ASSUME NEW m, NEW E, NEW rk, NEW N \in Counts, Small(N), Tree(page, m, E, E, rk, N, -1, 0), Linked(page, m, E),
         NEW p \in 0 .. m - 1, page[p].type = "l", NEW v \in Values, v \in E[p], NEW r \in RecIds,
         NEW index, Spot(page[p], v, index, TRUE), r \in ToSet(RecsAt(page[p], index))
  PROVE  /\ Minus(N, v, r) \in Counts /\ Small(Minus(N, v, r))
         /\ Tree([page EXCEPT ![p] = Removed(page[p], index, r)], m, E, E, rk, Minus(N, v, r), -1, 0)
         /\ Linked([page EXCEPT ![p] = Removed(page[p], index, r)], m, E)
<1> DEFINE l == page[p]
           S == E[p]
           K == On(N, S)
           M == Minus(N, v, r)
           k == Removed(l, index, r)
<1>1. K \in Counts /\ LeafOK(l, K)
  BY OnIs, TreeLeaf
<1>2. index \in 1 .. l.numKeys /\ l.key[index].val = v
  BY DEF Spot
<1>3. On(M, S) = Minus(K, v, r)
  BY OnMinus
<1>4. SameOff(M, N, S)
  BY SameOffIs
<1> HIDE DEF K
<1>5. RemovedFacts(k, l, K, index, r)
  <2> HIDE DEF l, k
  <2>1. r \in ToSet(RecsAt(l, index))
    BY DEF l
  <2>2. RemovedFacts(Removed(l, index, r), l, K, index, r)
    BY <1>1, <1>2, <2>1, RemovedIs
  <2>3. QED
    BY <2>2 DEF k
<1> HIDE DEF l, S, M, k
<1>6. k.nextLeafPage = l.nextLeafPage /\ Minus(K, v, r) \in Counts /\ LeafOK(k, On(M, S))
  BY <1>2, <1>3, <1>5 DEF RemovedFacts
<1>7. M \in Counts /\ Small(M)
  BY <1>6, SmallMinus DEF K, M, S
<1>8. k.type = "l"
  BY <1>6, TypedIs DEF LeafTyped
<1>9. Tree([page EXCEPT ![p] = k], m, E, E, rk, M, -1, 0)
  BY <1>4, <1>6, <1>8, LeafReplaced DEF S, l, SameOff
<1>10. Linked([page EXCEPT ![p] = k], m, E)
  <2>1. m \in Nat \ {0} /\ DOMAIN page = 0 .. m - 1 /\ page[p].type = "l" /\ k.nextLeafPage = page[p].nextLeafPage
    BY <1>6, TreePages DEF l
  <2>2. QED
    BY <1>8, <2>1, LinkedReplaced
<1>11. QED
  BY <1>7, <1>9, <1>10 DEF M, k, l

\* The invariant of two values rather than of the variables.
InvOf(pg, ac) ==
  /\ ac \in Counts /\ Small(ac)
  /\ Cardinality(DOMAIN pg) <= MaxPages
  /\ \E m, E, rk : Tree(pg, m, E, E, rk, ac, -1, 0) /\ Linked(pg, m, E)

\* The invariant and InvOf.
LEMMA InvOfIs == (TreeInv <=> InvOf(page, acked)) /\ (TreeInv' <=> InvOf(page', acked'))
  BY DEF TreeInv, InvOf, HoldsAcked, NumPages

\* A tree that holds the acknowledged entries keeps the invariant.
LEMMA GrownHolds ==
  ASSUME NEW pg, NEW m \in Nat, NEW M \in Counts, Small(M), NEW least \in Nat, m >= least,
         Grown(pg, m, M, least), Cardinality(DOMAIN pg) <= MaxPages
  PROVE  InvOf(pg, M) /\ 0 .. least - 1 \subseteq DOMAIN pg
<1>1. PICK E, rk : Tree(pg, m, E, E, rk, M, -1, 0) /\ Linked(pg, m, E)
  BY DEF Grown
<1>2. DOMAIN pg = 0 .. m - 1
  BY <1>1, TreePages
<1>3. 0 .. least - 1 \subseteq DOMAIN pg
  BY <1>2
<1>4. QED
  BY <1>1, <1>3 DEF InvOf

\* A search that PF refuses a page is a part of one that it does not.
LEMMA SearchesDown ==
  ASSUME NEW m, NEW E, NEW rk, NEW N, Tree(page, m, E, E, rk, N, -1, 0), NEW value \in Values,
         NEW s \in Searches(value)
  PROVE  SearchOK(s, m, E, value)
<1> DEFINE a == AM_Search(value)
           W == StepAt(m)
<1>1. SearchOK(a, m, E, value)
  BY SearchDown
<1>2. s = a \/ \E n \in 0 .. Len(a.way) : s = [a EXCEPT !.rc = "AME_PF", !.way = SubSeq(@, 1, n)]
  BY DEF Searches
<1> HIDE DEF a
<1>3. CASE s = a
  BY <1>1, <1>3
<1>4. ASSUME NEW n \in 0 .. Len(a.way), s = [a EXCEPT !.rc = "AME_PF", !.way = SubSeq(@, 1, n)]
      PROVE  SearchOK(s, m, E, value)
  <2>1. a \in Answers(m)
    BY <1>1 DEF SearchOK
  <2> DEFINE w == a.way
             t == SubSeq(w, 1, n)
  <2>2. w \in Seq(W) /\ a.pageNum \in 0 .. m - 1
    BY <2>1 DEF Answers
  <2>3. n \in 0 .. Len(w)
    OBVIOUS
  <2>4. t \in Seq(W)
    <3> HIDE DEF w, W
    <3>1. Len(w) \in Nat /\ \A x \in 1 .. Len(w) : w[x] \in W
      BY <2>2, LenProperties, ElementOfSeq
    <3>2. \A x \in 1 .. n : x \in 1 .. Len(w)
      BY <2>3, <3>1
    <3>3. QED
      BY <2>2, <2>3, <3>1, <3>2, SubSeqProperties
  <2>5. s = Answer("AME_PF", t, a.pageNum)
    BY <1>4, <2>1 DEF Answer, Answers
  <2> HIDE DEF t, w
  <2>6. s \in Answers(m) /\ s.rc = "AME_PF"
    BY <2>2, <2>4, <2>5 DEF Answer, Answers
  <2>7. QED
    BY <2>6 DEF SearchOK
<1>5. QED
  BY <1>2, <1>3, <1>4

\* What a search pushes are pages of the index, and it ends at one.
LEMMA SearchAnswers ==
  ASSUME NEW m, NEW E, NEW rk, NEW N, Tree(page, m, E, E, rk, N, -1, 0), NEW value \in Values,
         NEW s \in Searches(value), NEW st, st \in Seq(StepAt(m)), stack = st
  PROVE  Pushed(s) \in Seq(StepAt(m)) /\ s.pageNum \in 0 .. m - 1
<1>1. s \in Answers(m)
  BY SearchesDown DEF SearchOK
<1>2. s.way \in Seq(StepAt(m)) /\ s.pageNum \in 0 .. m - 1
  BY <1>1 DEF Answers
<1> DEFINE W == StepAt(m)
           way == s.way
<1> HIDE DEF W, way
<1>3. way \in Seq(W) /\ st \in Seq(W)
  BY <1>2 DEF W, way
<1>4. st \o way \in Seq(W)
  BY <1>3, ConcatProperties
<1>5. Pushed(s) = IF Len(st) < MaxStack THEN st \o way ELSE st
  BY DEF Pushed, way
<1>6. QED
  BY <1>2, <1>3, <1>4, <1>5 DEF W

\* What AM_InsertEntry does after the search s, if it does not damage the index: nothing but
\* leave a page, or the insertion.
Left(s) == page' = page /\ acked' = acked /\ (fixed' = fixed \/ fixed' = fixed \cup {s.pageNum})
Insertion(s, v, r, index, found, put) ==
  /\ s.rc = "AME_OK" /\ ~ CompactsNothing(page[s.pageNum], found, put.done)
  /\ page' = AfterPut(put, s.pageNum, v, r, index, found, s.way)
  /\ Cardinality(DOMAIN page') <= MaxPages
  /\ acked' = [acked EXCEPT ![v][r] = @ + 1] /\ fixed' = fixed
InsertBy(s, v, r) ==
  LET at == AM_SearchLeaf(page[s.pageNum], v)
      put == AM_InsertintoLeaf(page[s.pageNum], v, r, at.index, at.found)
  IN  /\ acked[v][r] < MaxCopies /\ stack' = <<>>
      /\ Left(s) \/ Insertion(s, v, r, at.index, at.found, put)

\* AM_InsertEntry inserts the entry, leaves a page, or damages the index.
LEMMA InsertDoes ==
  ASSUME NEW v, NEW r, AM_InsertEntry(v, r), ~ damaged'
  PROVE  \E s \in Searches(v) : InsertBy(s, v, r)
  BY DEF AM_InsertEntry, InsertBy, Left, Insertion, AfterPut

\* AM_InsertEntry keeps the invariant, unless it damages the index.
LEMMA InsertHolds ==
  ASSUME TreeInv, NEW v \in Values, NEW r \in RecsOf(v), AM_InsertEntry(v, r), ~ damaged'
  PROVE  /\ TreeInv' /\ DOMAIN page \subseteq DOMAIN page' /\ stack' = <<>>
         /\ fixed' = fixed \/ \E p \in DOMAIN page : fixed' = fixed \cup {p}
<1>0. PICK s \in Searches(v) : InsertBy(s, v, r)
  BY InsertDoes
<1> DEFINE p == s.pageNum
           at == AM_SearchLeaf(page[p], v)
           index == at.index
           found == at.found
           put == AM_InsertintoLeaf(page[p], v, r, index, found)
           way == s.way
<1>1. PICK m, E, rk : Tree(page, m, E, E, rk, acked, -1, 0) /\ Linked(page, m, E)
  BY DEF TreeInv, HoldsAcked
<1>2. m \in Nat \ {0} /\ DOMAIN page = 0 .. m - 1
  BY <1>1, TreePages
<1>3. SearchOK(s, m, E, v)
  BY <1>1, SearchesDown
<1>4. acked \in Counts /\ Small(acked)
  BY DEF TreeInv
<1>5. /\ acked[v][r] < MaxCopies /\ stack' = <<>>
      /\ Left(s) \/ Insertion(s, v, r, index, found, put)
  BY <1>0 DEF InsertBy
<1>6. CASE Left(s)
  <2>1. page' = page /\ acked' = acked /\ stack' = <<>>
    BY <1>5, <1>6 DEF Left
  <2>2. InvOf(page, acked)
    BY InvOfIs
  <2>3. s.pageNum \in DOMAIN page
    BY <1>2, <1>3 DEF SearchOK, Answers
  <2>4. fixed' = fixed \/ fixed' = fixed \cup {s.pageNum}
    BY <1>6 DEF Left
  <2>5. TreeInv'
    BY <2>1, <2>2, InvOfIs
  <2>6. QED
    BY <2>1, <2>3, <2>4, <2>5
<1>7. CASE Insertion(s, v, r, index, found, put)
  <2>0. s.rc = "AME_OK" /\ ~ CompactsNothing(page[p], found, put.done) /\ fixed' = fixed
    BY <1>7 DEF Insertion
  <2>1. page' = AfterPut(put, p, v, r, index, found, way) /\ Cardinality(DOMAIN page') <= MaxPages
    BY <1>7 DEF Insertion
  <2>2. acked' = Plus(acked, v, r)
    BY <1>7 DEF Plus, Insertion
  <2>3. /\ page[p].type = "l" /\ v \in E[p] /\ WayTo(page, m, way, Len(way), p, 0)
        /\ p \in 0 .. m - 1 /\ way \in Seq(StepAt(m))
    <3>1. s \in Answers(m)
      BY <1>3 DEF SearchOK
    <3>2. p \in 0 .. m - 1 /\ way \in Seq(StepAt(m))
      BY <3>1 DEF Answers
    <3>3. QED
      BY <1>3, <2>0, <3>2 DEF SearchOK
  <2>4. Spot(page[p], v, index, found)
    <3>1. LeafOK(page[p], On(acked, E[p]))
      BY <1>1, <2>3, TreeLeaf
    <3>2. SearchFacts(page[p], On(acked, E[p]), v, AM_SearchLeaf(page[p], v))
      BY <3>1, SearchIs
    <3>3. QED
      BY <3>2 DEF SearchFacts
  <2>5. acked[v][r] < MaxCopies
    BY <1>5
  <2>6. put = AM_InsertintoLeaf(page[p], v, r, index, found)
    OBVIOUS
  <2> HIDE DEF p, way, index, found, put
  <2> DEFINE ac == acked
  <2>7. ac \in Counts /\ Small(ac) /\ Tree(page, m, E, E, rk, ac, -1, 0) /\ ac[v][r] < MaxCopies
        /\ Linked(page, m, E)
    BY <1>1, <1>4, <2>5
  <2> HIDE DEF ac
  <2>8. \E m2 : Grown(AfterPut(put, p, v, r, index, found, way), m2, Plus(ac, v, r), m)
    BY <2>0, <2>3, <2>4, <2>6, <2>7, PutGrows
  <2>9. PICK m2 : Grown(page', m2, acked', m)
    BY <2>1, <2>2, <2>8 DEF ac
  <2>10. acked' \in Counts /\ Small(acked')
    <3>1. Small(Plus(ac, v, r)) /\ Plus(ac, v, r) \in Counts
      BY <2>7, SmallPlus
    <3>2. QED
      BY <2>2, <3>1 DEF ac
  <2>11. m2 \in Nat /\ m2 >= m
    <3>1. PICK F, rg : Tree(page', m2, F, F, rg, acked', -1, 0)
      BY <2>9 DEF Grown
    <3>2. m2 \in Nat \ {0}
      BY <3>1, TreePages
    <3>3. QED
      BY <2>9, <3>2 DEF Grown
  <2> DEFINE pg == page'
             aa == acked'
  <2>12. /\ aa \in Counts /\ Small(aa) /\ Grown(pg, m2, aa, m) /\ Cardinality(DOMAIN pg) <= MaxPages
    BY <2>1, <2>9, <2>10
  <2> HIDE DEF pg, aa
  <2>13. InvOf(pg, aa) /\ 0 .. m - 1 \subseteq DOMAIN pg
    BY <1>2, <2>11, <2>12, GrownHolds
  <2>14. QED
    BY <1>2, <1>5, <2>0, <2>13, InvOfIs DEF pg, aa
<1>8. QED
  BY <1>5, <1>6, <1>7

\* What AM_DeleteEntry does: nothing but leave a page and a way, or the removal.
Refused(s) ==
  /\ page' = page /\ acked' = acked /\ stack' = Pushed(s)
  /\ fixed' = fixed \/ fixed' = fixed \cup {s.pageNum}
Removal(s, v, r, index, found) ==
  /\ s.rc = "AME_OK" /\ found /\ r \in ToSet(RecsAt(page[s.pageNum], index))
  /\ page' = [page EXCEPT ![s.pageNum] = Removed(page[s.pageNum], index, r)]
  /\ acked' = Minus(acked, v, r)
  /\ stack' = <<>> /\ fixed' = fixed

\* AM_DeleteEntry removes the entry, or leaves a page and a way.
DeleteBy(s, v, r) ==
  LET at == AM_SearchLeaf(page[s.pageNum], v)
  IN  Refused(s) \/ Removal(s, v, r, at.index, at.found)
LEMMA DeleteDoes ==
  ASSUME NEW v, NEW r, AM_DeleteEntry(v, r)
  PROVE  \E s \in Searches(v) : DeleteBy(s, v, r)
  BY DEF AM_DeleteEntry, DeleteBy, Minus, Refused, Removal

\* AM_DeleteEntry keeps the invariant.
LEMMA DeleteHolds ==
  ASSUME TreeInv, NEW v \in Values, NEW r \in RecIds, AM_DeleteEntry(v, r)
  PROVE  TreeInv' /\ DOMAIN page' = DOMAIN page
<1>0. PICK s \in Searches(v) : DeleteBy(s, v, r)
  BY DeleteDoes
<1> DEFINE p == s.pageNum
           at == AM_SearchLeaf(page[p], v)
           index == at.index
           found == at.found
<1>1. PICK m, E, rk : Tree(page, m, E, E, rk, acked, -1, 0) /\ Linked(page, m, E)
  BY DEF TreeInv, HoldsAcked
<1>2. m \in Nat \ {0} /\ DOMAIN page = 0 .. m - 1
  BY <1>1, TreePages
<1>3. SearchOK(s, m, E, v)
  BY <1>1, SearchesDown
<1>4. acked \in Counts /\ Small(acked)
  BY DEF TreeInv
<1>5. p \in 0 .. m - 1
  BY <1>3 DEF SearchOK, Answers
<1>6. Refused(s) \/ Removal(s, v, r, index, found)
  BY <1>0 DEF DeleteBy
<1>7. CASE Refused(s)
  <2>1. InvOf(page, acked)
    BY InvOfIs
  <2>2. QED
    BY <1>7, <2>1, InvOfIs DEF Refused
<1>8. CASE Removal(s, v, r, index, found)
  <2>1. page[p].type = "l" /\ v \in E[p]
    BY <1>3, <1>8 DEF SearchOK, Removal
  <2>2. Spot(page[p], v, index, found)
    <3>1. LeafOK(page[p], On(acked, E[p]))
      BY <1>1, <1>5, <2>1, TreeLeaf
    <3>2. SearchFacts(page[p], On(acked, E[p]), v, AM_SearchLeaf(page[p], v))
      BY <3>1, SearchIs
    <3>3. QED
      BY <3>2 DEF SearchFacts
  <2>3. Spot(page[p], v, index, TRUE)
    BY <1>8, <2>2 DEF Spot, Removal
  <2>4. /\ r \in ToSet(RecsAt(page[p], index)) /\ acked' = Minus(acked, v, r)
        /\ page' = [page EXCEPT ![p] = Removed(page[p], index, r)]
    BY <1>8 DEF Removal
  <2> HIDE DEF p, index, found
  <2> DEFINE ac == acked
  <2>5. ac \in Counts /\ Small(ac) /\ Tree(page, m, E, E, rk, ac, -1, 0) /\ Linked(page, m, E)
    BY <1>1, <1>4
  <2> HIDE DEF ac
  <2>6. /\ Minus(ac, v, r) \in Counts /\ Small(Minus(ac, v, r))
        /\ Tree([page EXCEPT ![p] = Removed(page[p], index, r)], m, E, E, rk, Minus(ac, v, r), -1, 0)
        /\ Linked([page EXCEPT ![p] = Removed(page[p], index, r)], m, E)
    BY <1>5, <2>1, <2>3, <2>4, <2>5, RemovedShrinks
  <2>7. acked' \in Counts /\ Small(acked') /\ Tree(page', m, E, E, rk, acked', -1, 0) /\ Linked(page', m, E)
    BY <2>4, <2>6 DEF ac
  <2>8. DOMAIN page' = DOMAIN page
    BY <2>4
  <2>9. Cardinality(DOMAIN page') <= MaxPages
    BY <2>8 DEF TreeInv, NumPages
  <2>10. InvOf(page', acked')
    BY <2>7, <2>9 DEF InvOf
  <2>11. QED
    BY <2>8, <2>10, InvOfIs
<1>9. QED
  BY <1>6, <1>7, <1>8

\* What AM_DeleteEntry leaves are a page and a way.
LEMMA DeleteTyped ==
  ASSUME WholeInv, NEW v \in Values, NEW r \in RecIds, AM_DeleteEntry(v, r)
  PROVE  fixed' \subseteq DOMAIN page /\ stack' \in Seq([pageNumber : DOMAIN page, offset : Nat])
<1>0. PICK s \in Searches(v) : DeleteBy(s, v, r)
  BY DeleteDoes
<1> DEFINE at == AM_SearchLeaf(page[s.pageNum], v)
<1>1. PICK m, E, rk : Tree(page, m, E, E, rk, acked, -1, 0) /\ Linked(page, m, E)
  BY DEF WholeInv, TreeInv, HoldsAcked
<1>2. m \in Nat \ {0} /\ DOMAIN page = 0 .. m - 1
  BY <1>1, TreePages
<1>3. fixed \subseteq DOMAIN page /\ stack \in Seq(StepAt(m)) /\ TreeInv
  BY <1>2 DEF WholeInv, StepAt
<1>4. Refused(s) \/ Removal(s, v, r, at.index, at.found)
  BY <1>0 DEF DeleteBy
<1>5. Pushed(s) \in Seq(StepAt(m)) /\ s.pageNum \in 0 .. m - 1
  <2> DEFINE st == stack
             N == acked
  <2>1. st = stack /\ st \in Seq(StepAt(m)) /\ Tree(page, m, E, E, rk, N, -1, 0)
    BY <1>1, <1>3
  <2> HIDE DEF st, N
  <2>2. QED
    BY <2>1, SearchAnswers
<1> HIDE DEF at
<1>6. <<>> \in Seq(StepAt(m))
  OBVIOUS
<1>7. QED
  BY <1>2, <1>3, <1>4, <1>5, <1>6 DEF Refused, Removal, StepAt

-----------------------------------------------------------------------------
(* What always holds. *)

\* A call on a tree leaves one, or a damaged index, whatever calls before it left.
LEMMA CallHolds ==
  ASSUME TreeInv, NEW pair \in Pairs, AM_InsertEntry(pair[1], pair[2]) \/ AM_DeleteEntry(pair[1], pair[2]), ~ damaged'
  PROVE  TreeInv'
<1> DEFINE v == pair[1]
           r == pair[2]
<1>1. v \in Values /\ r \in RecsOf(v) /\ r \in RecIds
  BY PairIs
<1>2. AM_InsertEntry(v, r) \/ AM_DeleteEntry(v, r)
  OBVIOUS
<1> HIDE DEF v, r
<1>3. QED
  BY <1>1, <1>2, InsertHolds, DeleteHolds

\* A call is made on an index that is not damaged, and tells whether it is then.
LEMMA CallDamages ==
  ASSUME NEW v, NEW r, AM_InsertEntry(v, r) \/ AM_DeleteEntry(v, r), damaged \in BOOLEAN
  PROVE  damaged = FALSE /\ damaged' \in BOOLEAN
<1>1. ASSUME NEW l, NEW f, NEW d PROVE CompactsNothing(l, f, d) \in BOOLEAN
  BY DEF CompactsNothing
<1>2. CASE AM_InsertEntry(v, r)
  <2>1. damaged = FALSE
    BY <1>2 DEF AM_InsertEntry
  <2>2. damaged' = damaged \/ damaged' = TRUE \/ \E l, f, d : damaged' = CompactsNothing(l, f, d)
    BY <1>2 DEF AM_InsertEntry
  <2>3. QED
    BY <1>1, <2>1, <2>2
<1>3. CASE AM_DeleteEntry(v, r)
  BY <1>3 DEF AM_DeleteEntry
<1>4. QED
  BY <1>2, <1>3

\* A call keeps the invariant.
LEMMA CallKeepsInv ==
  ASSUME AMInv, NEW pair \in Pairs, AM_InsertEntry(pair[1], pair[2]) \/ AM_DeleteEntry(pair[1], pair[2])
  PROVE  AMInv'
<1> DEFINE v == pair[1]
           r == pair[2]
<1>1. v \in Values /\ r \in RecsOf(v) /\ r \in RecIds
  BY PairIs
<1>2. AM_InsertEntry(v, r) \/ AM_DeleteEntry(v, r)
  OBVIOUS
<1> HIDE DEF v, r
<1>3. damaged \in BOOLEAN
  BY DEF AMInv
<1>4. ~ damaged /\ damaged' \in BOOLEAN
  BY <1>2, <1>3, CallDamages
<1>5. WholeInv
  BY <1>4 DEF AMInv
<1>6. TreeInv /\ fixed \subseteq DOMAIN page
  BY <1>5 DEF WholeInv
<1>7. SUFFICES ASSUME ~ damaged' PROVE WholeInv'
  BY <1>4 DEF AMInv
<1>8. CASE AM_InsertEntry(v, r)
  <2>1. /\ TreeInv' /\ DOMAIN page \subseteq DOMAIN page' /\ stack' = <<>>
        /\ fixed' = fixed \/ \E p \in DOMAIN page : fixed' = fixed \cup {p}
    BY <1>1, <1>6, <1>7, <1>8, InsertHolds
  <2>2. <<>> \in Seq([pageNumber : DOMAIN page', offset : Nat])
    OBVIOUS
  <2>3. fixed' \subseteq DOMAIN page'
    BY <1>6, <2>1
  <2>4. QED
    BY <2>1, <2>2, <2>3 DEF WholeInv
<1>9. CASE AM_DeleteEntry(v, r)
  <2>1. TreeInv' /\ DOMAIN page' = DOMAIN page
    BY <1>1, <1>6, <1>9, DeleteHolds
  <2>2. fixed' \subseteq DOMAIN page /\ stack' \in Seq([pageNumber : DOMAIN page, offset : Nat])
    BY <1>1, <1>5, <1>9, DeleteTyped
  <2>3. QED
    BY <2>1, <2>2 DEF WholeInv
<1>10. QED
  BY <1>2, <1>8, <1>9

\* Every step keeps the invariant.
LEMMA NextHolds == AMInv /\ [Next]_vars => AMInv'
<1> SUFFICES ASSUME AMInv, [Next]_vars PROVE AMInv'
  OBVIOUS
<1>1. ASSUME NEW pair \in Pairs, AM_InsertEntry(pair[1], pair[2]) \/ AM_DeleteEntry(pair[1], pair[2]) PROVE AMInv'
  BY <1>1, CallKeepsInv
<1>2. CASE UNCHANGED vars
  <2>1. page' = page /\ fixed' = fixed /\ stack' = stack /\ acked' = acked /\ damaged' = damaged
    BY <1>2 DEF vars
  <2>2. TreeInv => TreeInv'
    BY <2>1, InvOfIs
  <2>3. QED
    BY <2>1, <2>2 DEF AMInv, WholeInv
<1>3. QED
  BY <1>1, <1>2 DEF Next

\* AMInv is inductive: whatever is inserted and deleted, in whatever order, and whatever page
\* PF refuses, the pages of the index are a tree that holds what the callers were told, chained
\* in order, unless the index is damaged.
THEOREM TreeAlways == Spec => []AMInv
<1>1. QED
  BY InitHolds, NextHolds, PTL DEF Spec

\* An insertion damages the index only if it is refused a page or a value has many copies.
Kept == FewCopies /\ Faults = {} => ~ damaged
LEMMA KeptHolds == AMInv /\ Kept /\ [Next]_vars => Kept'
<1> SUFFICES ASSUME AMInv, [Next]_vars, FewCopies, Faults = {}, ~ damaged PROVE ~ damaged'
  BY DEF Kept
<1>1. TreeInv
  BY DEF AMInv, WholeInv
<1>2. ASSUME NEW pair \in Pairs, AM_InsertEntry(pair[1], pair[2]) PROVE ~ damaged'
  <2> DEFINE v == pair[1]
             r == pair[2]
  <2>1. v \in Values /\ r \in RecsOf(v) /\ r \in RecIds
    BY PairIs
  <2>2. AM_InsertEntry(v, r)
    BY <1>2
  <2> HIDE DEF v, r
  <2>3. PICK s \in Searches(v) :
          LET at == AM_SearchLeaf(page[s.pageNum], v)
              put == AM_InsertintoLeaf(page[s.pageNum], v, r, at.index, at.found)
          IN  /\ acked[v][r] < MaxCopies
              /\ damaged' = damaged \/ (s.rc = "AME_OK" /\ damaged' = CompactsNothing(page[s.pageNum], at.found, put.done))
    BY <2>2 DEF AM_InsertEntry
  <2> DEFINE p == s.pageNum
             l == page[p]
             at == AM_SearchLeaf(l, v)
             put == AM_InsertintoLeaf(l, v, r, at.index, at.found)
  <2>4. CASE s.rc = "AME_OK" /\ damaged' = CompactsNothing(l, at.found, put.done)
    <3>1. PICK m, E, rk : Tree(page, m, E, E, rk, acked, -1, 0)
      BY <1>1 DEF TreeInv, HoldsAcked
    <3>2. SearchOK(s, m, E, v)
      BY <2>1, <3>1, SearchesDown
    <3>3. l.type = "l" /\ p \in 0 .. m - 1 /\ v \in E[p]
      BY <2>4, <3>2 DEF SearchOK, Answers
    <3> DEFINE S == E[p]
               K == On(acked, S)
    <3>4. acked \in Counts /\ Small(acked) /\ acked[v][r] < MaxCopies
      BY <1>1, <2>3 DEF TreeInv
    <3>5. K \in Counts /\ LeafOK(l, K)
      BY <3>1, <3>3, <3>4, OnIs, TreeLeaf
    <3>6. Small(Plus(K, v, r))
      <4> DEFINE N == acked
                 P == Plus(N, v, r)
      <4>1. N \in Counts /\ Small(N) /\ N[v][r] < MaxCopies
        BY <3>4
      <4> HIDE DEF N
      <4>2. P \in Counts /\ Small(P)
        BY <2>1, <4>1, SmallPlus
      <4>3. On(P, S) = Plus(On(N, S), v, r)
        BY <2>1, <3>3, <4>1, OnPlus
      <4> HIDE DEF P
      <4>4. Small(On(P, S))
        BY <4>2, OnIs
      <4>5. QED
        BY <4>3, <4>4 DEF N
    <3> HIDE DEF l, K, S
    <3>7. SearchFacts(l, K, v, at)
      BY <2>1, <3>5, SearchIs
    <3>8. Spot(l, v, at.index, at.found)
      BY <3>7 DEF SearchFacts
    <3> HIDE DEF at
    <3>9. InsertFacts(put, l, K, v, r, at.index, at.found)
      BY <2>1, <3>5, <3>6, <3>8, InsertinIs
    <3> HIDE DEF put
    <3>10. ~ CompactsNothing(l, at.found, put.done)
      BY <3>9 DEF InsertFacts
    <3>11. QED
      BY <2>4, <3>10
  <2>5. QED
    BY <2>3, <2>4
<1>3. ASSUME NEW pair \in Pairs, AM_DeleteEntry(pair[1], pair[2]) PROVE ~ damaged'
  BY <1>3 DEF AM_DeleteEntry
<1>4. CASE UNCHANGED vars
  BY <1>4 DEF vars
<1>5. QED
  BY <1>2, <1>3, <1>4 DEF Next

\* If PF refuses no page and no value has so many copies that its entries and another key do not
\* fit in a leaf, no sequence of insertions and deletions damages the index: no split is cut
\* short, and none compacts an empty range (aminsert.c:132).
THEOREM NeverDamaged == ASSUME FewCopies, Faults = {} PROVE Spec => []~ damaged
<1>1. Init => Kept
  BY DEF Init, Kept
<1>2. Spec => []Kept
  BY <1>1, TreeAlways, KeptHolds, PTL DEF Spec
<1>3. Kept => ~ damaged
  BY DEF Kept
<1>4. QED
  BY <1>2, <1>3, PTL

\* It says that the state is of its type,
LEMMA InvTyped == WholeInv => PagesTyped
<1> SUFFICES ASSUME WholeInv PROVE PagesTyped
  OBVIOUS
<1>1. PICK m, E, rk : Tree(page, m, E, E, rk, acked, -1, 0)
  BY DEF WholeInv, TreeInv, HoldsAcked
<1>2. m \in Nat \ {0} /\ DOMAIN page = 0 .. m - 1 /\ NumPages = m
  BY <1>1, TreePages DEF NumPages
<1>3. ASSUME NEW p \in DOMAIN page, IsLeaf(p)
      PROVE  /\ page[p].nextLeafPage \in {AM_NULL_PAGE} \cup DOMAIN page
             /\ LeafTyped(page[p])
  <2>1. LeafOK(page[p], On(acked, E[p])) /\ page[p].nextLeafPage \in {AM_NULL_PAGE} \cup DOMAIN page
    BY <1>1, <1>2, <1>3, TreeLeaf DEF IsLeaf
  <2>2. QED
    BY <2>1, TypedIs
<1>4. ASSUME NEW p \in DOMAIN page, ~ IsLeaf(p)
      PROVE  page[p].key \in Seq(Values) /\ page[p].ptr \in Seq(DOMAIN page)
  <2>1. IntOK(page[p], E[p], rk[p], E, rk, 0 .. m - 1)
    BY <1>1, <1>2, <1>4, TreeInt DEF IsLeaf
  <2>2. QED
    BY <1>2, <2>1 DEF IntOK
<1>5. acked \in [Values -> [RecIds -> Nat]]
  BY DEF WholeInv, TreeInv, Counts
<1>6. DOMAIN page = 0 .. NumPages - 1 /\ NumPages <= MaxPages
  BY <1>2 DEF WholeInv, TreeInv
<1>7. QED
  BY <1>3, <1>4, <1>5, <1>6 DEF PagesTyped, LeafTyped, WholeInv

\* that the leaves are sound,
LEMMA InvSound == TreeInv => EachLeafSound
<1> SUFFICES ASSUME TreeInv, NEW p \in DOMAIN page, IsLeaf(p) PROVE LeafSound(page[p])
  BY DEF EachLeafSound
<1>1. PICK m, E, rk : Tree(page, m, E, E, rk, acked, -1, 0)
  BY DEF TreeInv, HoldsAcked
<1>2. DOMAIN page = 0 .. m - 1
  BY <1>1, TreePages
<1>3. LeafOK(page[p], On(acked, E[p]))
  BY <1>1, <1>2, TreeLeaf DEF IsLeaf
<1>4. QED
  BY <1>3, SoundIs

\* and that searches find the acknowledged entries.
LEMMA InvFound == TreeInv => EntriesFound
<1> SUFFICES ASSUME TreeInv PROVE Entries = acked
  BY DEF EntriesFound
<1>1. PICK m, E, rk : Tree(page, m, E, E, rk, acked, -1, 0)
  BY DEF TreeInv, HoldsAcked
<1>2. acked \in Counts
  BY DEF TreeInv
<1>3. ASSUME NEW v \in Values, NEW r \in RecIds PROVE RecCount(Found(v), r) = acked[v][r]
  <2> DEFINE ac == acked
  <2>1. ac \in Counts /\ Tree(page, m, E, E, rk, ac, -1, 0)
    BY <1>1, <1>2
  <2> HIDE DEF ac
  <2>2. RecCount(Found(v), r) = ac[v][r]
    BY <2>1, FoundHolds
  <2>3. QED
    BY <2>2 DEF ac
<1>4. Entries = [v \in Values |-> [r \in RecIds |-> RecCount(Found(v), r)]]
  BY DEF Entries, RecCount
<1>5. acked = [v \in Values |-> [r \in RecIds |-> acked[v][r]]]
  BY <1>2 DEF Counts
<1>6. QED
  BY <1>3, <1>4, <1>5

\* The fields of all pages keep their types and ranges (am.h), unless the index is damaged.
THEOREM TypeAlwaysOK == Spec => []TypeOK
<1>1. AMInv => TypeOK
  BY InvTyped DEF AMInv, WholeInv, TypeOK
<1>2. QED
  BY <1>1, TreeAlways, PTL

\* No insertion, deletion, compaction or split makes a leaf lose a cell, share it between
\* lists or let keys and cells overlap (aminsert.c, amfns.c), unless it damages the index.
THEOREM LeavesAlwaysSound == Spec => []LeavesSound
<1>1. AMInv => LeavesSound
  BY InvSound DEF AMInv, WholeInv, LeavesSound
<1>2. QED
  BY <1>1, TreeAlways, PTL

\* Every entry whose insertion was answered AME_OK and that was not deleted since is found
\* by a search, as often as it was inserted, and no other (am.c, aminsert.c, amsearch.c),
\* however many entries a value has and whatever PF refuses: as long as no split was cut short
\* and none left a half without keys, the half an entry goes into has room for it (am.c:32).
THEOREM AckedAlwaysFound == Spec => []AckedFound
<1>1. AMInv => AckedFound
  BY InvFound DEF AMInv, WholeInv, AckedFound
<1>2. QED
  BY <1>1, TreeAlways, PTL

\* While PF refuses no page and no value has so many copies that its entries and another key
\* do not fit in a leaf, that is what callers can count on: an entry is found if and only if
\* they were told so (amfns.c:197).
THEOREM EntriesAlwaysFound == ASSUME FewCopies, Faults = {} PROVE Spec => []EntriesFound
<1>1. AckedFound /\ ~ damaged => EntriesFound
  BY DEF AckedFound
<1>2. QED
  BY <1>1, AckedAlwaysFound, NeverDamaged, PTL

-----------------------------------------------------------------------------
(* Lists of pages in order. *)

Ahead(R, S) == \A v \in R : \A w \in S : v < w
Holds(s, x) == \E i \in 1 .. Len(s) : s[i] = x
\* The pages s of Q are different, of rank below h and for values of R, and its leaves
\* are in the order of their values.
Listed(s, R, h, Q, pg, E, rk) ==
  /\ s \in Seq(Q)
  /\ \A i \in 1 .. Len(s) : E[s[i]] \subseteq R /\ E[s[i]] # {} /\ rk[s[i]] \in Nat /\ rk[s[i]] < h
  /\ \A i, j \in 1 .. Len(s) : i < j =>
       s[i] # s[j] /\ (pg[s[i]].type = "l" /\ pg[s[j]].type = "l" => Ahead(E[s[i]], E[s[j]]))

\* Parts of two sets one ahead of the other.
LEMMA AheadApart ==
  ASSUME NEW R, NEW S, Ahead(R, S), NEW G, NEW H, G \subseteq R, H \subseteq S, G # {}, R \subseteq Values
  PROVE  Ahead(G, H) /\ G # H
<1>1. Ahead(G, H)
  BY DEF Ahead
<1>2. PICK v \in G : v \in Int
  BY ValueOrder
<1>3. ~ (v < v)
  BY <1>2
<1>4. QED
  BY <1>1, <1>3 DEF Ahead

ConcatFacts(s, t, u, Q) ==
  /\ u \in Seq(Q) /\ Len(u) = Len(s) + Len(t)
  /\ \A i \in 1 .. Len(s) : u[i] = s[i]
  /\ \A i \in 1 .. Len(t) : u[Len(s) + i] = t[i]

\* Two sequences one after the other.
LEMMA ConcatIs ==
  ASSUME NEW Q, NEW s \in Seq(Q), NEW t \in Seq(Q)
  PROVE  ConcatFacts(s, t, s \o t, Q)
<1>1. /\ s \o t \in Seq(Q) /\ Len(s \o t) = Len(s) + Len(t)
      /\ \A i \in 1 .. Len(s) + Len(t) : (s \o t)[i] = IF i <= Len(s) THEN s[i] ELSE t[i - Len(s)]
  BY ConcatProperties
<1> DEFINE u == s \o t
           a == Len(s)
           b == Len(t)
<1>2. a \in Nat /\ b \in Nat
  BY LenProperties
<1> HIDE DEF u, a, b
<1>3. \A i \in 1 .. a : i \in 1 .. a + b /\ i <= a
  BY <1>2
<1>4. \A i \in 1 .. b : a + i \in 1 .. a + b /\ ~ (a + i <= a) /\ a + i - a = i
  BY <1>2
<1>5. u \in Seq(Q) /\ Len(u) = a + b /\ \A i \in 1 .. a + b : u[i] = IF i <= a THEN s[i] ELSE t[i - a]
  BY <1>1 DEF u, a, b
<1>6. ASSUME NEW i \in 1 .. a PROVE u[i] = s[i]
  BY <1>3, <1>5
<1>7. ASSUME NEW i \in 1 .. b PROVE u[a + i] = t[i]
  <2>1. PICK k \in 1 .. a + b : k = a + i
    BY <1>4
  <2>2. ~ (k <= a) /\ k - a = i
    BY <1>2, <2>1
  <2>3. u[k] = t[i]
    BY <1>5, <2>2
  <2>4. QED
    BY <2>1, <2>3
<1>8. QED
  BY <1>5, <1>6, <1>7 DEF ConcatFacts, u, a, b

\* A place in one or the other.
LEMMA SplitIndex ==
  ASSUME NEW a \in Nat, NEW b \in Nat, NEW i \in 1 .. a + b
  PROVE  i \in 1 .. a \/ \E k \in 1 .. b : i = a + k
<1>1. CASE i <= a
  BY <1>1
<1>2. CASE ~ (i <= a)
  <2>1. i - a \in 1 .. b /\ i = a + (i - a)
    BY <1>2
  <2>2. QED
    BY <2>1
<1>3. QED
  BY <1>1, <1>2

\* A list before one whose values come behind.
LEMMA ListedConcat ==
  ASSUME NEW s, NEW t, NEW R, NEW S, NEW h, NEW Q, NEW pg, NEW E, NEW rk,
         Listed(s, R, h, Q, pg, E, rk), Listed(t, S, h, Q, pg, E, rk), Ahead(R, S), R \subseteq Values
  PROVE  /\ Listed(s \o t, R \cup S, h, Q, pg, E, rk)
         /\ \A x : Holds(s, x) \/ Holds(t, x) => Holds(s \o t, x)
<1> DEFINE u == s \o t
           a == Len(s)
           b == Len(t)
<1>1. s \in Seq(Q) /\ t \in Seq(Q)
  BY DEF Listed
<1>2. ConcatFacts(s, t, u, Q)
  BY <1>1, ConcatIs
<1>3. a \in Nat /\ b \in Nat
  BY <1>1, LenProperties
<1> HIDE DEF u, a, b
<1>4. /\ u \in Seq(Q) /\ Len(u) = a + b
      /\ (\A i \in 1 .. a : u[i] = s[i]) /\ \A i \in 1 .. b : u[a + i] = t[i]
  BY <1>2 DEF ConcatFacts, a, b
<1>5. \A i \in 1 .. a + b : i \in 1 .. a \/ \E k \in 1 .. b : i = a + k
  BY <1>3, SplitIndex
<1>6. /\ \A i \in 1 .. a : E[s[i]] \subseteq R /\ E[s[i]] # {} /\ rk[s[i]] \in Nat /\ rk[s[i]] < h
      /\ \A i, j \in 1 .. a : i < j =>
           s[i] # s[j] /\ (pg[s[i]].type = "l" /\ pg[s[j]].type = "l" => Ahead(E[s[i]], E[s[j]]))
  BY DEF Listed, a
<1>7. /\ \A i \in 1 .. b : E[t[i]] \subseteq S /\ E[t[i]] # {} /\ rk[t[i]] \in Nat /\ rk[t[i]] < h
      /\ \A i, j \in 1 .. b : i < j =>
           t[i] # t[j] /\ (pg[t[i]].type = "l" /\ pg[t[j]].type = "l" => Ahead(E[t[i]], E[t[j]]))
  BY DEF Listed, b
<1>8. ASSUME NEW i \in 1 .. a + b
      PROVE  E[u[i]] \subseteq R \cup S /\ E[u[i]] # {} /\ rk[u[i]] \in Nat /\ rk[u[i]] < h
  <2>1. CASE i \in 1 .. a
    BY <1>4, <1>6, <2>1
  <2>2. CASE \E k \in 1 .. b : i = a + k
    BY <1>4, <1>7, <2>2
  <2>3. QED
    BY <1>5, <2>1, <2>2
<1>9. ASSUME NEW i \in 1 .. a + b, NEW j \in 1 .. a + b, i < j
      PROVE  u[i] # u[j] /\ (pg[u[i]].type = "l" /\ pg[u[j]].type = "l" => Ahead(E[u[i]], E[u[j]]))
  <2>1. CASE j \in 1 .. a
    <3>1. i \in 1 .. a
      BY <1>3, <1>9, <2>1
    <3>2. QED
      BY <1>4, <1>6, <1>9, <2>1, <3>1
  <2>2. ASSUME NEW k \in 1 .. b, j = a + k
        PROVE  u[i] # u[j] /\ (pg[u[i]].type = "l" /\ pg[u[j]].type = "l" => Ahead(E[u[i]], E[u[j]]))
    <3>1. CASE i \in 1 .. a
      <4>1. u[i] = s[i] /\ u[j] = t[k]
        BY <1>4, <2>2, <3>1
      <4> DEFINE G == E[s[i]]
                 H == E[t[k]]
      <4>2. G \subseteq R /\ H \subseteq S /\ G # {}
        BY <1>6, <1>7, <3>1
      <4>3. G # H => s[i] # t[k]
        OBVIOUS
      <4> HIDE DEF G, H
      <4>4. Ahead(G, H) /\ G # H
        BY <4>2, AheadApart
      <4>5. QED
        BY <4>1, <4>3, <4>4 DEF G, H
    <3>2. ASSUME NEW g \in 1 .. b, i = a + g
          PROVE  u[i] # u[j] /\ (pg[u[i]].type = "l" /\ pg[u[j]].type = "l" => Ahead(E[u[i]], E[u[j]]))
      <4>1. g < k
        BY <1>3, <1>9, <2>2, <3>2
      <4>2. u[i] = t[g] /\ u[j] = t[k]
        BY <1>4, <2>2, <3>2
      <4>3. QED
        BY <1>7, <4>1, <4>2
    <3>3. QED
      BY <1>5, <3>1, <3>2
  <2>3. QED
    BY <1>5, <2>1, <2>2
<1>10. ASSUME NEW x, Holds(s, x) \/ Holds(t, x) PROVE Holds(u, x)
  <2>1. CASE Holds(s, x)
    <3>1. PICK i \in 1 .. a : s[i] = x
      BY <2>1 DEF Holds, a
    <3>2. i \in 1 .. Len(u) /\ u[i] = x
      BY <1>3, <1>4, <3>1
    <3>3. QED
      BY <3>2 DEF Holds
  <2>2. CASE Holds(t, x)
    <3>1. PICK i \in 1 .. b : t[i] = x
      BY <2>2 DEF Holds, b
    <3>2. a + i \in 1 .. Len(u) /\ u[a + i] = x
      BY <1>3, <1>4, <3>1
    <3>3. QED
      BY <3>2 DEF Holds
  <2>3. QED
    BY <1>10, <2>1, <2>2
<1>11. Listed(u, R \cup S, h, Q, pg, E, rk)
  BY <1>4, <1>8, <1>9 DEF Listed
<1>12. QED
  BY <1>10, <1>11 DEF u

\* A list for more values.
LEMMA ListedMore ==
  ASSUME NEW s, NEW R, NEW h \in Nat, NEW Q, NEW pg, NEW E, NEW rk, Listed(s, R, h, Q, pg, E, rk),
         NEW S, R \subseteq S, NEW g \in Nat, h <= g
  PROVE  Listed(s, S, g, Q, pg, E, rk)
<1>1. \A i \in 1 .. Len(s) : rk[s[i]] \in Nat /\ rk[s[i]] < g
  BY DEF Listed
<1>2. QED
  BY <1>1 DEF Listed

\* One page, and one page before pages below it.
LEMMA ListedOne ==
  ASSUME NEW p, NEW Q, p \in Q, NEW pg, NEW E, NEW rk, E[p] # {}, rk[p] \in Nat
  PROVE  Listed(<<p>>, E[p], rk[p] + 1, Q, pg, E, rk) /\ Holds(<<p>>, p)
<1> DEFINE s == <<p>>
<1>1. s \in Seq(Q) /\ Len(s) = 1 /\ s[1] = p
  OBVIOUS
<1> HIDE DEF s
<1>2. \A i \in 1 .. Len(s) : i = 1
  BY <1>1
<1>3. 1 \in 1 .. Len(s)
  BY <1>1
<1>4. rk[p] < rk[p] + 1
  OBVIOUS
<1>5. Listed(s, E[p], rk[p] + 1, Q, pg, E, rk)
  BY <1>1, <1>2, <1>4 DEF Listed
<1>6. Holds(s, p)
  BY <1>1, <1>3 DEF Holds
<1>7. QED
  BY <1>5, <1>6 DEF s

\* A page before the list of those below it.
LEMMA ListedOver ==
  ASSUME NEW p, NEW Q, p \in Q, NEW pg, NEW E, NEW rk, E[p] # {}, rk[p] \in Nat, pg[p].type # "l",
         NEW t, Listed(t, E[p], rk[p], Q, pg, E, rk)
  PROVE  /\ Listed(<<p>> \o t, E[p], rk[p] + 1, Q, pg, E, rk)
         /\ \A x : x = p \/ Holds(t, x) => Holds(<<p>> \o t, x)
<1> DEFINE s == <<p>>
           u == s \o t
           b == Len(t)
           h == rk[p]
<1>1. s \in Seq(Q) /\ Len(s) = 1 /\ s[1] = p /\ t \in Seq(Q)
  BY DEF Listed
<1>2. ConcatFacts(s, t, u, Q)
  BY <1>1, ConcatIs
<1>3. b \in Nat /\ h \in Nat
  BY <1>1, LenProperties
<1> HIDE DEF u, b, s
<1>4. /\ u \in Seq(Q) /\ Len(u) = 1 + b
      /\ u[1] = p /\ \A i \in 1 .. b : u[1 + i] = t[i]
  <2>1. 1 \in 1 .. Len(s)
    BY <1>1
  <2>2. QED
    BY <1>1, <1>2, <2>1 DEF ConcatFacts, b
<1>5. ASSUME NEW i \in 1 .. 1 + b, i # 1 PROVE \E k \in 1 .. b : i = 1 + k
  <2>1. i - 1 \in 1 .. b /\ i = 1 + (i - 1)
    BY <1>3, <1>5
  <2>2. QED
    BY <2>1
<1>6. /\ \A i \in 1 .. b : E[t[i]] \subseteq E[p] /\ E[t[i]] # {} /\ rk[t[i]] \in Nat /\ rk[t[i]] < h
      /\ \A i, j \in 1 .. b : i < j =>
           t[i] # t[j] /\ (pg[t[i]].type = "l" /\ pg[t[j]].type = "l" => Ahead(E[t[i]], E[t[j]]))
  BY DEF Listed, b
<1>7. \A i \in 1 .. b : t[i] # p /\ rk[t[i]] < h + 1
  <2>1. ~ (h < h) /\ \A k \in Nat : k < h => k < h + 1
    BY <1>3
  <2>2. QED
    BY <1>6, <2>1
<1>8. ASSUME NEW i \in 1 .. 1 + b
      PROVE  E[u[i]] \subseteq E[p] /\ E[u[i]] # {} /\ rk[u[i]] \in Nat /\ rk[u[i]] < h + 1
  <2>1. CASE i = 1
    BY <1>3, <1>4, <2>1
  <2>2. CASE i # 1
    BY <1>4, <1>5, <1>6, <1>7, <2>2
  <2>3. QED
    BY <2>1, <2>2
<1>9. ASSUME NEW i \in 1 .. 1 + b, NEW j \in 1 .. 1 + b, i < j
      PROVE  u[i] # u[j] /\ (pg[u[i]].type = "l" /\ pg[u[j]].type = "l" => Ahead(E[u[i]], E[u[j]]))
  <2>1. PICK k \in 1 .. b : j = 1 + k
    BY <1>5, <1>9
  <2>2. CASE i = 1
    BY <1>4, <1>7, <2>1, <2>2
  <2>3. CASE i # 1
    <3>1. PICK g \in 1 .. b : i = 1 + g
      BY <1>5, <2>3
    <3>2. g < k
      BY <1>9, <2>1, <3>1
    <3>3. u[i] = t[g] /\ u[j] = t[k]
      BY <1>4, <2>1, <3>1
    <3>4. QED
      BY <1>6, <3>2, <3>3
  <2>4. QED
    BY <2>2, <2>3
<1>10. ASSUME NEW x, x = p \/ Holds(t, x) PROVE Holds(u, x)
  <2>1. CASE x = p
    <3>1. 1 \in 1 .. Len(u)
      BY <1>3, <1>4
    <3>2. QED
      BY <1>4, <2>1, <3>1 DEF Holds
  <2>2. CASE Holds(t, x)
    <3>1. PICK i \in 1 .. b : t[i] = x
      BY <2>2 DEF Holds, b
    <3>2. 1 + i \in 1 .. Len(u) /\ u[1 + i] = x
      BY <1>3, <1>4, <3>1
    <3>3. QED
      BY <3>2 DEF Holds
  <2>3. QED
    BY <1>10, <2>1, <2>2
<1>11. Listed(u, E[p], h + 1, Q, pg, E, rk)
  BY <1>4, <1>8, <1>9 DEF Listed
<1>12. QED
  BY <1>10, <1>11 DEF u, s

-----------------------------------------------------------------------------
(* FlattenSeq. *)

\* The first k of the sequences s as one.
Flat(f, k, s) == IF k = 1 THEN s[k] ELSE f[k - 1] \o s[k]
Flats(f, n, s) == f = [k \in 1 .. n |-> Flat(f, k, s)]

\* FlattenSeq as the solution of its recursion.
LEMMA FlatForm ==
  ASSUME NEW s, Len(s) # 0
  PROVE  FlattenSeq(s) = (CHOOSE f : Flats(f, Len(s), s))[Len(s)]
BY DEF FlattenSeq, Flats, Flat

\* It has one.
LEMMA FlatsExist ==
  ASSUME NEW n \in Nat, NEW s
  PROVE  \E f : Flats(f, n, s)
<1> DEFINE T == {k \in Nat : \E f : Flats(f, k, s)}
<1>1. 0 \in T
  <2> DEFINE f == [k \in 1 .. 0 |-> 0]
  <2>1. f = [k \in 1 .. 0 |-> Flat(f, k, s)]
    <3>1. \A k \in 1 .. 0 : FALSE
      OBVIOUS
    <3>2. \A k \in 1 .. 0 : Flat(f, k, s) = 0
      BY <3>1
    <3>3. QED
      BY <3>2
  <2> HIDE DEF f
  <2>2. Flats(f, 0, s)
    BY <2>1 DEF Flats
  <2>3. QED
    BY <2>2
<1>2. ASSUME NEW k \in Nat, k \in T PROVE k + 1 \in T
  <2>1. PICK f : Flats(f, k, s)
    BY <1>2
  <2> DEFINE g == [h \in 1 .. k + 1 |-> IF h <= k THEN f[h] ELSE Flat(f, k + 1, s)]
  <2>2. \A h \in 1 .. k : f[h] = Flat(f, h, s) /\ h \in 1 .. k + 1 /\ h <= k
    BY <2>1 DEF Flats
  <2>3. \A h \in 1 .. k : g[h] = f[h]
    BY <2>2
  <2>4. k + 1 \in 1 .. k + 1 /\ ~ (k + 1 <= k)
    OBVIOUS
  <2>5. g[k + 1] = Flat(f, k + 1, s) /\ DOMAIN g = 1 .. k + 1 /\ g = [h \in 1 .. k + 1 |-> g[h]]
    BY <2>4
  <2> HIDE DEF g
  <2>6. ASSUME NEW h \in 1 .. k + 1 PROVE g[h] = Flat(g, h, s)
    <3>1. h # 1 => h - 1 \in 1 .. k
      OBVIOUS
    <3>2. Flat(g, h, s) = Flat(f, h, s)
      BY <2>3, <3>1 DEF Flat
    <3>3. CASE h = k + 1
      BY <2>5, <3>2, <3>3
    <3>4. CASE h # k + 1
      <4>1. h \in 1 .. k
        BY <3>4
      <4>2. QED
        BY <2>2, <2>3, <3>2, <4>1
    <3>5. QED
      BY <3>3, <3>4
  <2>7. g = [h \in 1 .. k + 1 |-> Flat(g, h, s)]
    BY <2>5, <2>6
  <2>8. Flats(g, k + 1, s)
    BY <2>7 DEF Flats
  <2>9. QED
    BY <2>8
<1>3. Nat \subseteq T
  <2> HIDE DEF T
  <2>1. QED
    BY <1>1, <1>2, SetInduction
<1>4. QED
  BY <1>3

\* Lists one after the other, each ahead of those behind it.
LEMMA FlatListed ==
  ASSUME NEW n \in Nat \ {0}, NEW s, Len(s) = n, NEW G, NEW U, U \subseteq Values, NEW h \in Nat, NEW Q, NEW pg, NEW E, NEW rk,
         \A i \in 1 .. n : G[i] \subseteq U /\ Listed(s[i], G[i], h, Q, pg, E, rk),
         \A i, j \in 1 .. n : i < j => Ahead(G[i], G[j])
  PROVE  /\ Listed(FlattenSeq(s), U, h, Q, pg, E, rk)
         /\ \A i \in 1 .. n : \A x : Holds(s[i], x) => Holds(FlattenSeq(s), x)
<1> DEFINE F == CHOOSE f : Flats(f, n, s)
           Upto(k) == UNION {G[i] : i \in 1 .. k}
           Good(k) == /\ Listed(F[k], Upto(k), h, Q, pg, E, rk)
                      /\ \A i \in 1 .. k : \A x : Holds(s[i], x) => Holds(F[k], x)
           T == {k \in Nat : k \in 1 .. n => Good(k)}
<1>1. Flats(F, n, s)
  BY FlatsExist
<1>2. FlattenSeq(s) = F[n]
  BY FlatForm
<1> HIDE DEF F
<1>3. \A k \in 1 .. n : F[k] = Flat(F, k, s)
  BY <1>1 DEF Flats
<1>4. \A k \in Nat : \A v : v \in Upto(k) <=> \E i \in 1 .. k : v \in G[i]
  OBVIOUS
<1>5. 0 \in T
  OBVIOUS
<1>6. ASSUME NEW k \in Nat, k \in T, k + 1 \in 1 .. n PROVE Good(k + 1)
  <2>1. F[k + 1] = Flat(F, k + 1, s)
    BY <1>3, <1>6
  <2>2. CASE k = 0
    <3>1. F[1] = s[1]
      BY <2>1, <2>2 DEF Flat
    <3>2. \A i \in 1 .. 1 : i = 1
      OBVIOUS
    <3>3. Upto(1) = G[1]
      BY <3>2
    <3>4. Listed(s[1], G[1], h, Q, pg, E, rk)
      BY <1>6, <2>2
    <3> HIDE DEF Upto
    <3>5. Listed(F[1], Upto(1), h, Q, pg, E, rk)
      BY <3>1, <3>3, <3>4
    <3>6. \A i \in 1 .. 1 : \A x : Holds(s[i], x) => Holds(F[1], x)
      BY <3>1, <3>2
    <3>7. QED
      BY <2>2, <3>5, <3>6
  <2>3. CASE k # 0
    <3> DEFINE c == k + 1
               A == Upto(k)
               B == G[c]
               a == F[k]
               b == s[c]
    <3>1. k \in 1 .. n /\ c \in 1 .. n /\ \A i \in 1 .. k : i < c /\ i \in 1 .. n
      BY <1>6, <2>3
    <3>2. Good(k)
      BY <1>6, <3>1
    <3>3. F[c] = a \o b
      <4>1. c # 1 /\ c - 1 = k
        BY <2>3
      <4>2. QED
        BY <2>1, <4>1 DEF Flat
    <3>4. Ahead(A, B)
      <4>1. ASSUME NEW i \in 1 .. k PROVE Ahead(G[i], B)
        BY <3>1
      <4>2. QED
        BY <4>1, <1>4 DEF Ahead
    <3>5. A \subseteq Values
      BY <3>1, <1>4
    <3>6. Upto(c) = A \cup B
      <4>1. \A i : i \in 1 .. c <=> i \in 1 .. k \/ i = c
        OBVIOUS
      <4> HIDE DEF c
      <4>2. QED
        BY <4>1
    <3>7. Listed(b, B, h, Q, pg, E, rk)
      BY <3>1
    <3>8. Listed(a, A, h, Q, pg, E, rk) /\ \A i \in 1 .. k : \A x : Holds(s[i], x) => Holds(a, x)
      BY <3>2
    <3>9. \A i \in 1 .. c : i \in 1 .. k \/ i = c
      OBVIOUS
    <3> HIDE DEF Upto, A, B, a, b, c
    <3>10. /\ Listed(a \o b, A \cup B, h, Q, pg, E, rk)
           /\ \A x : Holds(a, x) \/ Holds(b, x) => Holds(a \o b, x)
      BY <3>4, <3>5, <3>7, <3>8, ListedConcat
    <3>11. Listed(F[c], Upto(c), h, Q, pg, E, rk)
      BY <3>3, <3>6, <3>10
    <3>12. ASSUME NEW i \in 1 .. c, NEW x, Holds(s[i], x) PROVE Holds(F[c], x)
      <4>1. CASE i \in 1 .. k
        BY <3>3, <3>8, <3>10, <3>12, <4>1
      <4>2. CASE i = c
        BY <3>3, <3>10, <3>12, <4>2 DEF b
      <4>3. QED
        BY <3>9, <4>1, <4>2
    <3>13. QED
      BY <3>11, <3>12 DEF c
  <2>4. QED
    BY <2>2, <2>3
<1>7. ASSUME NEW k \in Nat, k \in T PROVE k + 1 \in T
  <2> HIDE DEF Good
  <2>1. k + 1 \in 1 .. n => Good(k + 1)
    BY <1>6, <1>7
  <2>2. QED
    BY <2>1
<1>8. Nat \subseteq T
  <2> HIDE DEF T
  <2>1. QED
    BY <1>5, <1>7, SetInduction
<1>9. Good(n)
  <2> HIDE DEF Good
  <2>1. n \in T /\ n \in 1 .. n
    BY <1>8
  <2>2. QED
    BY <2>1
<1>10. Upto(n) \subseteq U
  OBVIOUS
<1>11. Listed(F[n], U, h, Q, pg, E, rk)
  <2> DEFINE W == Upto(n)
             a == F[n]
  <2>1. Listed(a, W, h, Q, pg, E, rk) /\ W \subseteq U /\ h <= h
    BY <1>9, <1>10
  <2> HIDE DEF W, a
  <2>2. Listed(a, U, h, Q, pg, E, rk)
    BY <2>1, ListedMore
  <2>3. QED
    BY <2>2 DEF a
<1>12. QED
  BY <1>2, <1>9, <1>11

-----------------------------------------------------------------------------
(* The pages below a page. *)

\* The pages below the page p, from those below its children.
KidLists(f, p) == [i \in DOMAIN page[p].ptr |-> f[page[p].ptr[i]]]
Own(p, types) == IF page[p].type \in types THEN <<p>> ELSE <<>>
BelowTurn(f, p, types) == Own(p, types) \o (IF IsLeaf(p) THEN <<>> ELSE FlattenSeq(KidLists(f, p)))
IsBelow(f, types) == f = [p \in DOMAIN page |-> BelowTurn(f, p, types)]

\* PagesBelow as the solution of its recursion.
LEMMA BelowForm ==
  ASSUME NEW types
  PROVE  PagesBelow(types) = CHOOSE f : IsBelow(f, types)
BY DEF PagesBelow, IsBelow, BelowTurn, Own, KidLists

\* The children of a page are nearer to the leaves.
Lower(p, D, rk) ==
  /\ page[p].ptr \in Seq(D) /\ DOMAIN page[p].ptr = 1 .. Len(page[p].ptr) /\ Len(page[p].ptr) \in Nat \ {0}
  /\ \A i \in 1 .. Len(page[p].ptr) : page[p].ptr[i] \in D /\ rk[page[p].ptr[i]] < rk[p]

\* An internal node has pages below it, all of lower rank.
LEMMA LowerIs ==
  ASSUME NEW m, NEW E, NEW rk, NEW N, Tree(page, m, E, E, rk, N, -1, 0), NEW p \in 0 .. m - 1, ~ IsLeaf(p)
  PROVE  Lower(p, 0 .. m - 1, rk)
<1> DEFINE x == -1
           new == 0
<1>1. Tree(page, m, E, E, rk, N, x, new) /\ page[p].type # "l"
  BY DEF IsLeaf
<1> HIDE DEF x, new
<1>2. IntOK(page[p], E[p], rk[p], E, rk, 0 .. m - 1)
  BY <1>1, TreeInt
<1> DEFINE ptr == page[p].ptr
           D == 0 .. m - 1
<1>3. /\ ptr \in Seq(D) /\ Len(ptr) = Len(page[p].key) + 1 /\ page[p].key \in Seq(Values)
      /\ \A i \in 1 .. Len(ptr) : rk[ptr[i]] < rk[p]
  BY <1>2 DEF IntOK
<1> HIDE DEF ptr, D
<1>4. Len(page[p].key) \in Nat
  BY <1>3, LenProperties
<1>5. DOMAIN ptr = 1 .. Len(ptr) /\ Len(ptr) \in Nat \ {0}
  BY <1>3, <1>4, LenProperties
<1>6. \A i \in 1 .. Len(ptr) : ptr[i] \in D
  BY <1>3, ElementOfSeq
<1>7. QED
  BY <1>3, <1>5, <1>6 DEF Lower, ptr, D

\* The recursion of PagesBelow has a solution.
LEMMA BelowExists ==
  ASSUME NEW m, NEW E, NEW rk, NEW N, Tree(page, m, E, E, rk, N, -1, 0), NEW types
  PROVE  \E f : IsBelow(f, types)
<1> DEFINE D == 0 .. m - 1
           Turns(f, p) == f[p] = BelowTurn(f, p, types)
           T == {h \in Nat : \E f : \A p \in D : rk[p] < h => Turns(f, p)}
<1>1. m \in Nat \ {0} /\ rk \in [D -> Nat] /\ DOMAIN page = D
  BY TreePages DEF Tree
<1>2. 0 \in T
  <2>1. \A p \in D : ~ (rk[p] < 0)
    BY <1>1
  <2>2. QED
    BY <2>1
<1>3. ASSUME NEW h \in Nat, h \in T PROVE h + 1 \in T
  <2>1. PICK f : \A p \in D : rk[p] < h => Turns(f, p)
    BY <1>3
  <2> DEFINE g == [p \in D |-> IF rk[p] < h THEN f[p] ELSE BelowTurn(f, p, types)]
  <2>2. \A p \in D : (rk[p] < h => g[p] = f[p]) /\ (~ (rk[p] < h) => g[p] = BelowTurn(f, p, types))
    OBVIOUS
  <2> HIDE DEF g
  <2>3. ASSUME NEW p \in D, rk[p] < h + 1 PROVE Turns(g, p)
    <3>1. g[p] = BelowTurn(f, p, types)
      BY <2>1, <2>2
    <3>2. CASE IsLeaf(p)
      BY <3>1, <3>2 DEF BelowTurn
    <3>3. CASE ~ IsLeaf(p)
      <4>1. Lower(p, D, rk)
        BY <3>3, LowerIs
      <4>2. ASSUME NEW i \in DOMAIN page[p].ptr PROVE f[page[p].ptr[i]] = g[page[p].ptr[i]]
        <5> DEFINE c == page[p].ptr[i]
        <5>1. c \in D /\ rk[c] < rk[p]
          BY <4>1, <4>2 DEF Lower
        <5> HIDE DEF c
        <5>2. rk[c] \in Nat /\ rk[p] \in Nat
          BY <1>1, <5>1
        <5>3. rk[c] < h
          BY <2>3, <5>1, <5>2
        <5>4. g[c] = f[c]
          BY <2>2, <5>1, <5>3
        <5>5. QED
          BY <5>4 DEF c
      <4>3. KidLists(f, p) = KidLists(g, p)
        BY <4>2 DEF KidLists
      <4>4. QED
        BY <3>1, <4>3 DEF BelowTurn
    <3>4. QED
      BY <3>2, <3>3
  <2>4. QED
    BY <2>3
<1>4. Nat \subseteq T
  <2> HIDE DEF T
  <2>1. QED
    BY <1>2, <1>3, SetInduction
<1>5. PICK top \in Nat : \A p \in D : rk[p] < top
  BY <1>1, RankBound
<1>6. PICK f : \A p \in D : rk[p] < top => Turns(f, p)
  BY <1>4
<1> DEFINE g == [p \in D |-> f[p]]
<1>7. ASSUME NEW p \in D PROVE g[p] = BelowTurn(g, p, types)
  <2>1. g[p] = BelowTurn(f, p, types)
    BY <1>5, <1>6
  <2>2. CASE IsLeaf(p)
    BY <2>1, <2>2 DEF BelowTurn
  <2>3. CASE ~ IsLeaf(p)
    <3>1. Lower(p, D, rk)
      BY <2>3, LowerIs
    <3>2. \A i \in DOMAIN page[p].ptr : f[page[p].ptr[i]] = g[page[p].ptr[i]]
      BY <3>1 DEF Lower
    <3>3. KidLists(f, p) = KidLists(g, p)
      BY <3>2 DEF KidLists
    <3>4. QED
      BY <2>1, <3>3 DEF BelowTurn
  <2>4. QED
    BY <2>2, <2>3
<1>8. g = [p \in D |-> BelowTurn(g, p, types)]
  <2>1. g = [p \in D |-> g[p]]
    OBVIOUS
  <2> HIDE DEF g
  <2>2. QED
    BY <1>7, <2>1
<1> HIDE DEF g
<1>9. QED
  BY <1>1, <1>8 DEF IsBelow

\* The pages of the types below every page are listed in order.
ListsOK(F, m, E, rk, Q) == \A p \in 0 .. m - 1 : Listed(F[p], E[p], rk[p] + 1, Q, page, E, rk)

\* The empty sequence before or behind another.
LEMMA EmptyBefore ==
  ASSUME NEW Q, NEW t \in Seq(Q)
  PROVE  <<>> \o t = t /\ t \o <<>> = t
BY ConcatEmptySeq

\* The values of a child are ahead of those of the next.
LEMMA RegionsAhead ==
  ASSUME NEW key \in Seq(Int), Ordered(key), NEW S, S \subseteq Int, NEW i \in 1 .. Len(key) + 1, NEW j \in 1 .. Len(key) + 1, i < j
  PROVE  Ahead(Region(S, key, i), Region(S, key, j))
<1>1. Len(key) \in Nat /\ \A h \in 1 .. Len(key) : key[h] \in Int
  BY LenProperties, ElementOfSeq
<1>2. i \in 1 .. Len(key) /\ j - 1 \in 1 .. Len(key) /\ i <= j - 1 /\ j > 1 /\ i <= Len(key)
  BY <1>1
<1>3. key[i] <= key[j - 1]
  <2>1. CASE i = j - 1
    BY <1>1, <1>2, <2>1
  <2>2. CASE i # j - 1
    <3>1. i < j - 1
      BY <1>2, <2>2
    <3>2. key[i] < key[j - 1]
      BY <1>2, <3>1 DEF Ordered
    <3>3. QED
      BY <1>1, <1>2, <3>2
  <2>3. QED
    BY <2>1, <2>2
<1>4. key[i] \in Int /\ key[j - 1] \in Int
  BY <1>1, <1>2
<1>5. ASSUME NEW v \in Region(S, key, i), NEW w \in Region(S, key, j) PROVE v < w
  <2>1. v \in Int /\ w \in Int
    BY DEF Region
  <2>2. v < key[i] /\ key[j - 1] <= w
    BY <1>2 DEF Region, InSlot
  <2>3. QED
    BY <1>3, <1>4, <2>1, <2>2
<1>6. QED
  BY <1>5 DEF Ahead

\* The pages of the types.
Those(types, m) == {p \in 0 .. m - 1 : page[p].type \in types}
\* The turn of an internal node keeps the order, and drops no page.
TurnFacts(u, f, p, m, E, rk, types) ==
  /\ Listed(u, E[p], rk[p] + 1, Those(types, m), page, E, rk)
  /\ page[p].type \in types => Holds(u, p)
  /\ ~ IsLeaf(p) =>
       \A i \in 1 .. Len(page[p].ptr) : \A x : Holds(f[page[p].ptr[i]], x) => Holds(u, x)

\* The list of a leaf is the leaf.
LEMMA LeafTurn ==
  ASSUME NEW m, NEW E, NEW rk \in [0 .. m - 1 -> Nat], NEW types, NEW p \in 0 .. m - 1, NEW f,
         E[p] # {}, IsLeaf(p), "l" \in types
  PROVE  TurnFacts(BelowTurn(f, p, types), f, p, m, E, rk, types)
<1> DEFINE Q == Those(types, m)
           u == BelowTurn(f, p, types)
           s == <<p>>
<1>1. p \in Q /\ rk[p] \in Nat
  BY DEF Those, IsLeaf
<1>2. s \in Seq(Q)
  BY <1>1
<1>3. u = s \o <<>>
  BY DEF BelowTurn, Own, IsLeaf
<1>4. u = s
  <2> HIDE DEF s, u, Q
  <2>1. QED
    BY <1>2, <1>3, EmptyBefore
<1>5. Listed(s, E[p], rk[p] + 1, Q, page, E, rk) /\ Holds(s, p)
  <2> DEFINE pg == page
  <2> HIDE DEF Q, pg
  <2>1. Listed(<<p>>, E[p], rk[p] + 1, Q, pg, E, rk) /\ Holds(<<p>>, p)
    BY <1>1, ListedOne
  <2>2. QED
    BY <2>1 DEF pg
<1> HIDE DEF s, u
<1>6. QED
  BY <1>4, <1>5 DEF TurnFacts, u

\* The lists below the children of a node, one after the other, are the list of the node.
LEMMA NodeTurn ==
  ASSUME NEW m, NEW E, NEW rk, NEW N, Tree(page, m, E, E, rk, N, -1, 0), NEW types, NEW p \in 0 .. m - 1, NEW f,
         ~ IsLeaf(p), \A q \in 0 .. m - 1 : E[q] # {},
         \A i \in 1 .. Len(page[p].ptr) :
           Listed(f[page[p].ptr[i]], E[page[p].ptr[i]], rk[page[p].ptr[i]] + 1, Those(types, m), page, E, rk)
  PROVE  TurnFacts(BelowTurn(f, p, types), f, p, m, E, rk, types)
<1> DEFINE x == -1
           new == 0
           D == 0 .. m - 1
           Q == Those(types, m)
           u == BelowTurn(f, p, types)
           s == KidLists(f, p)
           t == FlattenSeq(s)
           ptr == page[p].ptr
           key == page[p].key
           n == Len(ptr)
           G == [i \in 1 .. n |-> E[ptr[i]]]
           U == E[p]
           h == rk[p]
           pg == page
<1>1. Lower(p, D, rk)
  BY LowerIs
<1>2. IntOK(page[p], U, h, E, rk, D)
  <2>1. Tree(page, m, E, E, rk, N, x, new) /\ page[p].type # "l"
    BY DEF IsLeaf
  <2> HIDE DEF x, new, D, U, h
  <2>2. QED
    BY <2>1, TreeInt DEF D, U, h
<1>3. /\ n \in Nat \ {0} /\ DOMAIN ptr = 1 .. n
      /\ \A i \in 1 .. n : ptr[i] \in D /\ rk[ptr[i]] < h
  BY <1>1 DEF Lower
<1>4. /\ key \in Seq(Values) /\ Ordered(key) /\ n = Len(key) + 1
      /\ \A i \in 1 .. n : E[ptr[i]] = Region(U, key, i)
  BY <1>2 DEF IntOK
<1>5. h \in Nat /\ rk \in [D -> Nat] /\ U \subseteq Values /\ Values \subseteq Int /\ U # {}
  BY ValueOrder DEF Tree
<1>6. key \in Seq(Int)
  BY <1>4, <1>5, SeqMonotonic
<1>7. Len(s) = n /\ \A i \in 1 .. n : s[i] = f[ptr[i]]
  <2>1. s = [i \in 1 .. n |-> f[ptr[i]]]
    BY <1>3 DEF KidLists
  <2> HIDE DEF s, n, ptr
  <2>2. QED
    BY <1>3, <2>1
<1>8. \A i \in 1 .. n : G[i] = E[ptr[i]]
  OBVIOUS
<1>9. u = Own(p, types) \o t
  BY DEF BelowTurn
<1>10. \A i \in 1 .. n : Listed(f[ptr[i]], E[ptr[i]], rk[ptr[i]] + 1, Q, pg, E, rk)
  OBVIOUS
<1>11. page[p].type \in types <=> p \in Q
  BY DEF Those
<1>12. pg[p].type # "l"
  BY DEF IsLeaf
<1> HIDE DEF x, new, D, Q, u, s, t, ptr, key, n, G, U, h, pg
<1>13. ASSUME NEW i \in 1 .. n PROVE G[i] \subseteq U /\ Listed(s[i], G[i], h, Q, pg, E, rk)
  <2> DEFINE c == ptr[i]
             a == s[i]
             R == G[i]
             g == rk[c] + 1
  <2>1. Listed(a, R, g, Q, pg, E, rk)
    BY <1>7, <1>8, <1>10
  <2>2. R \subseteq U
    BY <1>4, <1>8 DEF Region
  <2>3. g \in Nat /\ g <= h
    <3>1. c \in D /\ rk[c] < h
      BY <1>3
    <3> HIDE DEF c
    <3>2. rk[c] \in Nat
      BY <1>5, <3>1
    <3>3. QED
      BY <1>5, <3>1, <3>2
  <2> HIDE DEF a, R, g
  <2>4. R \subseteq R
    OBVIOUS
  <2>5. Listed(a, R, h, Q, pg, E, rk)
    BY <1>5, <2>1, <2>3, <2>4, ListedMore
  <2>6. QED
    BY <2>2, <2>5 DEF a, R
<1>14. ASSUME NEW i \in 1 .. n, NEW j \in 1 .. n, i < j PROVE Ahead(G[i], G[j])
  <2>1. i \in 1 .. Len(key) + 1 /\ j \in 1 .. Len(key) + 1 /\ U \subseteq Int
    BY <1>4, <1>5
  <2>2. Ahead(Region(U, key, i), Region(U, key, j))
    BY <1>4, <1>6, <1>14, <2>1, RegionsAhead
  <2>3. QED
    BY <1>4, <1>8, <2>2
<1>15. /\ Listed(t, U, h, Q, pg, E, rk)
       /\ \A i \in 1 .. n : \A y : Holds(s[i], y) => Holds(t, y)
  <2>1. \A i \in 1 .. n : G[i] \subseteq U /\ Listed(s[i], G[i], h, Q, pg, E, rk)
    BY <1>13
  <2>2. \A i, j \in 1 .. n : i < j => Ahead(G[i], G[j])
    BY <1>14
  <2>3. /\ Listed(FlattenSeq(s), U, h, Q, pg, E, rk)
        /\ \A i \in 1 .. n : \A y : Holds(s[i], y) => Holds(FlattenSeq(s), y)
    BY <1>3, <1>5, <1>7, <2>1, <2>2, FlatListed
  <2>4. QED
    BY <2>3 DEF t
<1>16. /\ Listed(u, U, h + 1, Q, pg, E, rk)
       /\ p \in Q => Holds(u, p)
       /\ \A y : Holds(t, y) => Holds(u, y)
  <2>1. CASE p \in Q
    <3>1. u = <<p>> \o t
      BY <1>9, <1>11, <2>1 DEF Own
    <3>2. E[p] # {} /\ rk[p] \in Nat /\ Listed(t, E[p], rk[p], Q, pg, E, rk)
      BY <1>5, <1>15 DEF U, h
    <3>3. /\ Listed(<<p>> \o t, E[p], rk[p] + 1, Q, pg, E, rk)
          /\ \A y : y = p \/ Holds(t, y) => Holds(<<p>> \o t, y)
      BY <1>12, <2>1, <3>2, ListedOver
    <3>4. QED
      BY <3>1, <3>3 DEF U, h
  <2>2. CASE p \notin Q
    <3>1. u = <<>> \o t /\ t \in Seq(Q)
      BY <1>9, <1>11, <1>15, <2>2 DEF Own, Listed
    <3>2. u = t
      BY <3>1, EmptyBefore
    <3> DEFINE g == h + 1
    <3>3. g \in Nat /\ h <= g /\ U \subseteq U
      BY <1>5
    <3> HIDE DEF g
    <3>4. Listed(t, U, g, Q, pg, E, rk)
      BY <1>5, <1>15, <3>3, ListedMore
    <3>5. QED
      BY <1>15, <2>2, <3>2, <3>4 DEF g
  <2>3. QED
    BY <2>1, <2>2
<1>17. ASSUME NEW i \in 1 .. n, NEW y, Holds(f[ptr[i]], y) PROVE Holds(u, y)
  BY <1>7, <1>15, <1>16, <1>17
<1>18. Listed(u, E[p], rk[p] + 1, Those(types, m), page, E, rk)
  BY <1>16 DEF U, h, Q, pg
<1>19. page[p].type \in types => Holds(u, p)
  BY <1>11, <1>16
<1>20. \A i \in 1 .. Len(page[p].ptr) : \A y : Holds(f[page[p].ptr[i]], y) => Holds(u, y)
  BY <1>17 DEF ptr, n
<1>21. QED
  BY <1>18, <1>19, <1>20 DEF TurnFacts, u

\* All lists of PagesBelow are in order.
LEMMA BelowTurns ==
  ASSUME NEW m, NEW E, NEW rk, NEW N, Tree(page, m, E, E, rk, N, -1, 0), NEW types, "l" \in types,
         \A q \in 0 .. m - 1 : E[q] # {}
  PROVE  \A p \in 0 .. m - 1 : TurnFacts(PagesBelow(types)[p], PagesBelow(types), p, m, E, rk, types)
<1> DEFINE D == 0 .. m - 1
           F == PagesBelow(types)
           Good(p) == TurnFacts(F[p], F, p, m, E, rk, types)
           T == {h \in Nat : \A p \in D : rk[p] < h => Good(p)}
<1>1. m \in Nat \ {0} /\ rk \in [D -> Nat] /\ DOMAIN page = D
  BY TreePages DEF Tree
<1>2. IsBelow(F, types)
  BY BelowForm, BelowExists
<1> HIDE DEF F
<1>3. \A p \in D : F[p] = BelowTurn(F, p, types)
  BY <1>1, <1>2 DEF IsBelow
<1>4. 0 \in T
  <2>1. \A p \in D : ~ (rk[p] < 0)
    BY <1>1
  <2>2. QED
    BY <2>1
<1>5. ASSUME NEW h \in Nat, h \in T PROVE h + 1 \in T
  <2>1. ASSUME NEW p \in D, rk[p] < h + 1 PROVE Good(p)
    <3>1. TurnFacts(BelowTurn(F, p, types), F, p, m, E, rk, types)
      <4>1. CASE IsLeaf(p)
        BY <1>1, <4>1, LeafTurn
      <4>2. CASE ~ IsLeaf(p)
        <5>1. Lower(p, D, rk)
          BY <4>2, LowerIs
        <5>2. ASSUME NEW i \in 1 .. Len(page[p].ptr)
              PROVE  Listed(F[page[p].ptr[i]], E[page[p].ptr[i]], rk[page[p].ptr[i]] + 1, Those(types, m), page, E, rk)
          <6> DEFINE c == page[p].ptr[i]
          <6>1. c \in D /\ rk[c] < rk[p]
            BY <5>1, <5>2 DEF Lower
          <6> HIDE DEF c
          <6>2. rk[c] \in Nat /\ rk[p] \in Nat
            BY <1>1, <6>1
          <6>3. rk[c] < h
            BY <2>1, <6>1, <6>2
          <6>4. Good(c)
            BY <1>5, <6>1, <6>3
          <6>5. Listed(F[c], E[c], rk[c] + 1, Those(types, m), page, E, rk)
            BY <6>4 DEF TurnFacts
          <6>6. QED
            BY <6>5 DEF c
        <5>3. QED
          BY <4>2, <5>2, NodeTurn
      <4>3. QED
        BY <4>1, <4>2
    <3>2. QED
      BY <1>3, <3>1
  <2> HIDE DEF Good
  <2>2. QED
    BY <2>1
<1>6. Nat \subseteq T
  <2> HIDE DEF T
  <2>1. QED
    BY <1>4, <1>5, SetInduction
<1>7. PICK top \in Nat : \A p \in D : rk[p] < top
  BY <1>1, RankBound
<1> HIDE DEF Good
<1>8. \A p \in D : Good(p)
  BY <1>6, <1>7
<1>9. QED
  BY <1>8 DEF Good, F

\* The page above another.
LEMMA PageAbove ==
  ASSUME NEW m, NEW E, NEW rk, NEW N, Tree(page, m, E, E, rk, N, -1, 0), NEW q \in 0 .. m - 1, q # 0
  PROVE  \E p \in 0 .. m - 1 : /\ ~ IsLeaf(p) /\ rk[q] < rk[p]
                               /\ \E i \in 1 .. Len(page[p].ptr) : page[p].ptr[i] = q
<1> DEFINE D == 0 .. m - 1
           K == KidsOf(page, D)
<1>1. Hangs(K, D, {0, 0})
  BY DEF Tree
<1>2. q \notin {0, 0}
  OBVIOUS
<1>3. \A p \in D : K[p] = Kids(page[p])
  BY DEF KidsOf
<1> HIDE DEF K, D
<1>4. PICK p \in D : \E i \in 1 .. Len(K[p]) : K[p][i] = q
  BY <1>1, <1>2 DEF Hangs, D
<1>5. PICK i \in 1 .. Len(K[p]) : K[p][i] = q
  BY <1>4
<1>6. ~ IsLeaf(p)
  <2>1. ASSUME IsLeaf(p) PROVE FALSE
    <3>1. K[p] = <<>>
      BY <1>3, <2>1 DEF Kids, IsLeaf
    <3>2. Len(<<>>) = 0 /\ ~ (\E j \in 1 .. 0 : TRUE)
      OBVIOUS
    <3>3. QED
      BY <1>5, <3>1, <3>2
  <2>2. QED
    BY <2>1
<1>7. K[p] = page[p].ptr
  BY <1>3, <1>6 DEF Kids, IsLeaf
<1>8. i \in 1 .. Len(page[p].ptr) /\ page[p].ptr[i] = q
  BY <1>5, <1>7
<1>9. Lower(p, D, rk)
  BY <1>6, LowerIs DEF D
<1>10. rk[q] < rk[p]
  BY <1>8, <1>9 DEF Lower
<1>11. QED
  BY <1>6, <1>8, <1>10 DEF D

\* The root lists all pages of the types in order.
RootLists(L, m, E, rk, types) ==
  /\ \E h : Listed(L, Values, h, Those(types, m), page, E, rk)
  /\ \A p \in Those(types, m) : Holds(L, p)

\* That of the root has all pages.
LEMMA RootListsIs ==
  ASSUME NEW m, NEW E, NEW rk, NEW N, Tree(page, m, E, E, rk, N, -1, 0), NEW types, "l" \in types,
         \A q \in 0 .. m - 1 : E[q] # {}
  PROVE  RootLists(PagesBelow(types)[0], m, E, rk, types)
<1> DEFINE D == 0 .. m - 1
           F == PagesBelow(types)
           L == F[0]
<1>1. m \in Nat \ {0} /\ rk \in [D -> Nat] /\ 0 \in D /\ E[0] = Values
  BY DEF Tree
<1>2. \A p \in D : TurnFacts(F[p], F, p, m, E, rk, types)
  BY BelowTurns
<1> HIDE DEF F
<1>3. PICK top \in Nat : \A p \in D : rk[p] < top
  BY <1>1, RankBound
<1> DEFINE Good(q) == \A x : Holds(F[q], x) => Holds(L, x)
           T == {k \in Nat : \A q \in D : rk[q] + k >= top => Good(q)}
<1>4. 0 \in T
  <2>1. \A q \in D : ~ (rk[q] + 0 >= top)
    BY <1>1, <1>3
  <2>2. QED
    BY <2>1
<1>5. ASSUME NEW k \in Nat, k \in T PROVE k + 1 \in T
  <2>1. ASSUME NEW q \in D, rk[q] + (k + 1) >= top PROVE Good(q)
    <3>1. CASE q = 0
      BY <3>1
    <3>2. CASE q # 0
      <4>1. PICK p \in D : /\ ~ IsLeaf(p) /\ rk[q] < rk[p]
                           /\ \E i \in 1 .. Len(page[p].ptr) : page[p].ptr[i] = q
        BY <3>2, PageAbove
      <4>2. PICK i \in 1 .. Len(page[p].ptr) : page[p].ptr[i] = q
        BY <4>1
      <4>3. \A x : Holds(F[q], x) => Holds(F[p], x)
        BY <1>2, <4>1, <4>2 DEF TurnFacts
      <4>4. rk[p] + k >= top
        <5>1. rk[p] \in Nat /\ rk[q] \in Nat
          BY <1>1
        <5>2. QED
          BY <2>1, <4>1, <5>1
      <4>5. Good(p)
        BY <1>5, <4>4
      <4>6. QED
        BY <4>3, <4>5
    <3>3. QED
      BY <3>1, <3>2
  <2> HIDE DEF Good
  <2>2. QED
    BY <2>1
<1>6. Nat \subseteq T
  <2> HIDE DEF T
  <2>1. QED
    BY <1>4, <1>5, SetInduction
<1> HIDE DEF Good
<1>7. ASSUME NEW q \in D PROVE Good(q)
  <2>1. top \in T /\ rk[q] \in Nat
    BY <1>1, <1>6
  <2>2. rk[q] + top >= top
    BY <2>1
  <2>3. QED
    BY <2>1, <2>2
<1>8. ASSUME NEW p \in Those(types, m) PROVE Holds(L, p)
  <2>1. p \in D /\ page[p].type \in types
    BY DEF Those
  <2>2. Holds(F[p], p)
    BY <1>2, <2>1 DEF TurnFacts
  <2>3. QED
    BY <1>7, <2>1, <2>2 DEF Good
<1>9. Listed(L, Values, rk[0] + 1, Those(types, m), page, E, rk)
  BY <1>1, <1>2 DEF TurnFacts
<1>10. QED
  BY <1>8, <1>9 DEF RootLists, F

\* No page of a tree is for no values.
LEMMA SomeValues ==
  ASSUME NEW m, NEW E, NEW rk, NEW N, Tree(page, m, E, E, rk, N, -1, 0), Linked(page, m, E)
  PROVE  \A q \in 0 .. m - 1 : E[q] # {}
<1> SUFFICES ASSUME NEW q \in 0 .. m - 1 PROVE E[q] # {}
  OBVIOUS
<1>1. CASE page[q].type = "l"
  <2>1. LinkOK(page[q].nextLeafPage, E[q], page, E, m)
    BY <1>1 DEF Linked
  <2>2. QED
    BY <2>1 DEF LinkOK, Run
<1>2. CASE page[q].type # "l"
  <2> DEFINE x == -1
             new == 0
  <2> HIDE DEF x, new
  <2>1. Tree(page, m, E, E, rk, N, x, new)
    BY DEF x, new
  <2>2. IntOK(page[q], E[q], rk[q], E, rk, 0 .. m - 1)
    BY <1>2, <2>1, TreeInt
  <2>3. page[q].key \in Seq(Values) /\ Len(page[q].key) >= 1 /\ \A i \in 1 .. Len(page[q].key) : page[q].key[i] \in E[q]
    BY <2>2 DEF IntOK
  <2>4. Len(page[q].key) \in Nat
    BY <2>3, LenProperties
  <2>5. 1 \in 1 .. Len(page[q].key)
    BY <2>3, <2>4
  <2>6. QED
    BY <2>3, <2>5
<1>3. QED
  BY <1>1, <1>2

-----------------------------------------------------------------------------
(* A search tree. *)

\* The leaves below a page hold keys of its values only.
LeafKeys(m, E) ==
  \A q \in 0 .. m - 1 : page[q].type = "l" =>
    /\ page[q].numKeys \in Nat
    /\ \A i \in 1 .. page[q].numKeys : page[q].key[i].val \in E[q]

\* The keys of a leaf are of its values.
LEMMA LeafKeysAre ==
  ASSUME NEW m, NEW E, NEW rk, NEW N \in Counts, Tree(page, m, E, E, rk, N, -1, 0)
  PROVE  LeafKeys(m, E)
<1> SUFFICES ASSUME NEW q \in 0 .. m - 1, page[q].type = "l"
             PROVE  page[q].numKeys \in Nat /\ \A i \in 1 .. page[q].numKeys : page[q].key[i].val \in E[q]
  BY DEF LeafKeys
<1> DEFINE x == -1
           new == 0
           l == page[q]
           T == E[q]
<1>1. LeafOK(l, On(N, T))
  <2>1. Tree(page, m, E, E, rk, N, x, new)
    OBVIOUS
  <2> HIDE DEF x, new
  <2>2. QED
    BY <2>1, TreeLeaf
<1> HIDE DEF l, T
<1>2. l.numKeys \in Nat
  BY <1>1, TypedIs
<1>3. \A i \in 1 .. l.numKeys : l.key[i].val \in T
  BY <1>1, HeldIn
<1>4. QED
  BY <1>2, <1>3 DEF l, T

\* The keys in the leaves listed below a page are of the values of the page.
LEMMA ListedValues ==
  ASSUME NEW m, NEW E, NEW rk, LeafKeys(m, E), NEW s, NEW R, NEW h, Listed(s, R, h, Those({"l"}, m), page, E, rk),
         NEW v \in ValuesIn(s)
  PROVE  v \in R
<1> DEFINE Q == Those({"l"}, m)
<1>1. s \in Seq(Q) /\ \A i \in 1 .. Len(s) : E[s[i]] \subseteq R
  BY DEF Listed
<1> HIDE DEF Q
<1>2. DOMAIN s = 1 .. Len(s)
  BY <1>1, LenProperties
<1>3. PICK q \in ToSet(s) : v \in ToSet(KeysOf(page[q]))
  BY DEF ValuesIn
<1>4. PICK i \in 1 .. Len(s) : q = s[i]
  BY <1>2, <1>3 DEF ToSet
<1>5. q \in Q
  BY <1>1, <1>4, ElementOfSeq
<1>6. q \in 0 .. m - 1 /\ page[q].type = "l"
  BY <1>5 DEF Q, Those
<1>7. \A j \in 1 .. page[q].numKeys : page[q].key[j].val \in E[q]
  BY <1>6 DEF LeafKeys
<1>8. PICK j \in DOMAIN KeysOf(page[q]) : v = KeysOf(page[q])[j]
  BY <1>3 DEF ToSet
<1>9. j \in 1 .. page[q].numKeys /\ v = page[q].key[j].val
  BY <1>8 DEF KeysOf
<1>10. QED
  BY <1>1, <1>4, <1>7, <1>9

\* The keys of a leaf ascend.
LEMMA LeafAscends ==
  ASSUME NEW l, NEW N, LeafOK(l, N)
  PROVE  Ascending(KeysOf(l))
<1>1. PICK Q, c : Woven(l, Q, c) /\ HoldsBut(l, Q, N, 0)
  BY DEF LeafOK
<1>2. \A i, j \in 1 .. l.numKeys : i < j => l.key[i].val < l.key[j].val
  BY <1>1 DEF HoldsBut
<1>3. DOMAIN KeysOf(l) = 1 .. l.numKeys /\ \A i \in 1 .. l.numKeys : KeysOf(l)[i] = l.key[i].val
  BY DEF KeysOf
<1>4. QED
  BY <1>2, <1>3 DEF Ascending

\* What IsSearchTree says of an internal node.
Between2(p, leaves) ==
  /\ Ascending(page[p].key)
  /\ Len(page[p].key) \in 1 .. MaxKeys
  /\ Len(page[p].ptr) = Len(page[p].key) + 1
  /\ \A i \in DOMAIN page[p].key :
       /\ \A v \in ValuesIn(leaves[page[p].ptr[i]]) : v < page[p].key[i]
       /\ \A v \in ValuesIn(leaves[page[p].ptr[i + 1]]) : v >= page[p].key[i]
WholeTree(whole) == IsInjective(whole) /\ ToSet(whole) = DOMAIN page

\* The parts of IsSearchTree.
LEMMA SoundForm ==
  ASSUME WholeTree(PagesBelow({"l", "i"})[0]),
         \A p \in DOMAIN page : IsLeaf(p) => Ascending(KeysOf(page[p])),
         \A p \in DOMAIN page : ~ IsLeaf(p) => Between2(p, PagesBelow({"l"}))
  PROVE  IsSearchTree
<1> DEFINE leaves == PagesBelow({"l"})
           whole == PagesBelow({"l", "i"})[0]
<1>1. IsInjective(whole) /\ ToSet(whole) = DOMAIN page
  BY DEF WholeTree
<1>2. \A p \in DOMAIN page : ~ IsLeaf(p) => Between2(p, leaves)
  OBVIOUS
<1> HIDE DEF leaves, whole
<1>3. ASSUME NEW p \in DOMAIN page, ~ IsLeaf(p)
      PROVE  /\ Ascending(page[p].key)
             /\ Len(page[p].key) \in 1 .. MaxKeys
             /\ Len(page[p].ptr) = Len(page[p].key) + 1
             /\ \A i \in DOMAIN page[p].key :
                  /\ \A v \in ValuesIn(leaves[page[p].ptr[i]]) : v < page[p].key[i]
                  /\ \A v \in ValuesIn(leaves[page[p].ptr[i + 1]]) : v >= page[p].key[i]
  BY <1>2, <1>3 DEF Between2
<1>4. QED
  BY <1>1, <1>3 DEF IsSearchTree, AM_RootPageNum, leaves, whole

\* The keys below a child lie between those on either side of its pointer.
LEMMA NodeBetween ==
  ASSUME NEW m, NEW E, NEW rk, NEW N \in Counts, Tree(page, m, E, E, rk, N, -1, 0), Linked(page, m, E),
         NEW p \in 0 .. m - 1, ~ IsLeaf(p)
  PROVE  Between2(p, PagesBelow({"l"}))
<1> DEFINE x == -1
           new == 0
           D == 0 .. m - 1
           F == PagesBelow({"l"})
           Q == Those({"l"}, m)
           key == page[p].key
           ptr == page[p].ptr
           S == E[p]
<1>1. IntOK(page[p], S, rk[p], E, rk, D) /\ Len(key) <= MaxKeys
  <2>1. Tree(page, m, E, E, rk, N, x, new) /\ page[p].type # "l"
    BY DEF IsLeaf
  <2>2. p # x
    <3>1. p \in Nat
      BY DEF Tree
    <3>2. QED
      BY <3>1
  <2> HIDE DEF x, new
  <2>3. QED
    BY <2>1, <2>2, TreeInt
<1>2. /\ key \in Seq(Values) /\ ptr \in Seq(D) /\ Len(ptr) = Len(key) + 1 /\ Len(key) >= 1
      /\ Ordered(key) /\ \A i \in 1 .. Len(ptr) : E[ptr[i]] = Region(S, key, i)
  BY <1>1 DEF IntOK
<1>3. Lower(p, D, rk)
  BY LowerIs
<1>4. LeafKeys(m, E)
  BY LeafKeysAre
<1>5. \A q \in D : E[q] # {}
  BY SomeValues
<1>6. \A q \in D : Listed(F[q], E[q], rk[q] + 1, Q, page, E, rk)
  <2> DEFINE types == {"l"}
  <2>1. "l" \in types
    OBVIOUS
  <2> HIDE DEF types
  <2>2. \A q \in D : TurnFacts(PagesBelow(types)[q], PagesBelow(types), q, m, E, rk, types)
    BY <1>5, <2>1, BelowTurns
  <2>3. QED
    BY <2>2 DEF TurnFacts, types
<1>7. Len(key) \in Nat /\ DOMAIN key = 1 .. Len(key) /\ \A i \in 1 .. Len(key) : key[i] \in Values
  BY <1>2, LenProperties, ElementOfSeq
<1>8. Values \subseteq Int
  BY ValueOrder
<1>9. \A i \in 1 .. Len(ptr) : ptr[i] \in D
  BY <1>3 DEF Lower
<1> HIDE DEF F, Q, key, ptr, S, D
<1>10. ASSUME NEW i \in 1 .. Len(ptr), NEW v \in ValuesIn(F[ptr[i]]) PROVE v \in Region(S, key, i)
  <2> DEFINE c == ptr[i]
             s == F[c]
             R == E[c]
             h == rk[c] + 1
  <2>1. Listed(s, R, h, Those({"l"}, m), page, E, rk) /\ v \in ValuesIn(s)
    BY <1>6, <1>9 DEF Q
  <2> HIDE DEF s, R, h
  <2>2. v \in R
    BY <1>4, <2>1, ListedValues
  <2>3. QED
    BY <1>2, <2>2 DEF R
<1>11. ASSUME NEW i \in 1 .. Len(key), NEW v \in ValuesIn(F[ptr[i]]) PROVE v < key[i]
  <2>1. i \in 1 .. Len(ptr) /\ i <= Len(key)
    BY <1>2, <1>7
  <2>2. v \in Region(S, key, i)
    BY <1>10, <1>11, <2>1
  <2>3. QED
    BY <2>1, <2>2 DEF Region, InSlot
<1>12. ASSUME NEW i \in 1 .. Len(key), NEW v \in ValuesIn(F[ptr[i + 1]]) PROVE v >= key[i]
  <2> DEFINE j == i + 1
  <2>1. j \in 1 .. Len(ptr) /\ j > 1 /\ j - 1 = i
    BY <1>2, <1>7
  <2> HIDE DEF j
  <2>2. v \in Region(S, key, j)
    BY <1>10, <1>12, <2>1 DEF j
  <2>3. key[i] <= v /\ v \in S
    BY <2>1, <2>2 DEF Region, InSlot
  <2>4. v \in Int /\ key[i] \in Int
    <3>1. S \subseteq Values
      BY DEF Tree, S
    <3>2. QED
      BY <1>7, <1>8, <2>3, <3>1
  <2>5. QED
    BY <2>3, <2>4
<1>13. Ascending(key)
  BY <1>2, <1>7 DEF Ascending, Ordered
<1>14. Len(key) \in 1 .. MaxKeys
  BY <1>1, <1>2, <1>7, AMAssumption DEF key
<1>15. ASSUME NEW i \in DOMAIN key
       PROVE  /\ \A v \in ValuesIn(F[ptr[i]]) : v < key[i]
              /\ \A v \in ValuesIn(F[ptr[i + 1]]) : v >= key[i]
  BY <1>7, <1>11, <1>12
<1>16. QED
  BY <1>2, <1>13, <1>14, <1>15 DEF Between2, F, key, ptr

\* Every page is in the tree once.
LEMMA WholeIs ==
  ASSUME NEW m, NEW E, NEW rk, NEW N, Tree(page, m, E, E, rk, N, -1, 0), Linked(page, m, E)
  PROVE  WholeTree(PagesBelow({"l", "i"})[0])
<1> DEFINE types == {"l", "i"}
           s == PagesBelow(types)[0]
           D == 0 .. m - 1
           Q == Those(types, m)
<1>1. \A q \in D : E[q] # {}
  BY SomeValues
<1>2. RootLists(s, m, E, rk, types)
  <2>1. "l" \in types
    OBVIOUS
  <2> HIDE DEF types
  <2>2. QED
    BY <1>1, <2>1, RootListsIs
<1>3. Q = D
  <2>1. \A p \in D : page[p].type \in types
    BY DEF Tree, PageOK
  <2>2. QED
    BY <2>1 DEF Those
<1>4. DOMAIN page = D
  BY TreePages
<1> HIDE DEF s, D, Q, types
<1>5. PICK h : Listed(s, Values, h, Q, page, E, rk)
  BY <1>2 DEF RootLists, Q
<1>6. /\ s \in Seq(Q)
      /\ \A i, j \in 1 .. Len(s) : i < j => s[i] # s[j]
  BY <1>5 DEF Listed
<1>7. DOMAIN s = 1 .. Len(s) /\ Len(s) \in Nat
  BY <1>6, LenProperties
<1>8. IsInjective(s)
  <2>1. ASSUME NEW i \in 1 .. Len(s), NEW j \in 1 .. Len(s), s[i] = s[j] PROVE i = j
    <3>1. i < j \/ j < i \/ i = j
      BY <1>7
    <3>2. QED
      BY <1>6, <2>1, <3>1
  <2>2. QED
    BY <1>7, <2>1 DEF IsInjective
<1>9. \A p \in Q : \E i \in 1 .. Len(s) : s[i] = p
  BY <1>2 DEF RootLists, Holds, Q
<1>10. \A i \in 1 .. Len(s) : s[i] \in Q
  BY <1>6, ElementOfSeq
<1>11. ToSet(s) = Q
  BY <1>7, <1>9, <1>10 DEF ToSet
<1>12. QED
  BY <1>3, <1>4, <1>8, <1>11 DEF WholeTree, s, types

\* The invariant says that the tree is a search tree.
LEMMA InvSearchTree == TreeInv => IsSearchTree
<1> SUFFICES ASSUME TreeInv PROVE IsSearchTree
  OBVIOUS
<1>1. PICK m, E, rk : Tree(page, m, E, E, rk, acked, -1, 0) /\ Linked(page, m, E)
  BY DEF TreeInv, HoldsAcked
<1>2. DOMAIN page = 0 .. m - 1 /\ acked \in Counts
  BY <1>1, TreePages DEF TreeInv
<1> DEFINE N == acked
<1>3. Tree(page, m, E, E, rk, N, -1, 0) /\ N \in Counts
  BY <1>1, <1>2
<1> HIDE DEF N
<1>4. WholeTree(PagesBelow({"l", "i"})[0])
  BY <1>1, <1>3, WholeIs
<1>5. ASSUME NEW p \in DOMAIN page, IsLeaf(p) PROVE Ascending(KeysOf(page[p]))
  <2> DEFINE x == -1
             new == 0
  <2>1. Tree(page, m, E, E, rk, N, x, new) /\ page[p].type = "l"
    BY <1>3, <1>5 DEF IsLeaf
  <2> HIDE DEF x, new
  <2>2. LeafOK(page[p], On(N, E[p]))
    BY <1>2, <2>1, TreeLeaf
  <2>3. QED
    BY <2>2, LeafAscends
<1>6. ASSUME NEW p \in DOMAIN page, ~ IsLeaf(p) PROVE Between2(p, PagesBelow({"l"}))
  BY <1>1, <1>2, <1>3, <1>6, NodeBetween
<1>7. QED
  BY <1>4, <1>5, <1>6, SoundForm

\* The pages are always a search tree with every page in it once (am.c:94), unless the index
\* is damaged.
THEOREM TreeAlwaysSound == Spec => []TreeSound
<1>1. AMInv => TreeSound
  BY InvSearchTree DEF AMInv, WholeInv, TreeSound
<1>2. QED
  BY <1>1, TreeAlways, PTL

-----------------------------------------------------------------------------
(* The chain of the leaves and the order of the tree. *)

\* The leaves L in the order of the tree are in that of their chain, from first on.
ChainFacts(L, E, m) ==
  /\ L \in Seq(Those({"l"}, m))
  /\ \A p \in Those({"l"}, m) : Holds(L, p)
  /\ \A i, j \in 1 .. Len(L) : i < j => L[i] # L[j] /\ Ahead(E[L[i]], E[L[j]])
  /\ \A i \in 1 .. Len(L) : LinkOK(page[L[i]].nextLeafPage, E[L[i]], page, E, m)
ChainedUp(L) ==
  /\ Len(L) >= 1 /\ L[1] = GetLeftPageNum
  /\ \A i \in 1 .. Len(L) :
       page[L[i]].nextLeafPage = IF i = Len(L) THEN AM_NULL_PAGE ELSE L[i + 1]

\* The leaves listed from the root, and how each is chained.
LEMMA ChainFactsAre ==
  ASSUME NEW m, NEW E, NEW rk, NEW N, Tree(page, m, E, E, rk, N, -1, 0), Linked(page, m, E)
  PROVE  ChainFacts(PagesBelow({"l"})[0], E, m)
<1> DEFINE types == {"l"}
           L == PagesBelow(types)[0]
           Q == Those(types, m)
<1>1. \A q \in 0 .. m - 1 : E[q] # {}
  BY SomeValues
<1>2. RootLists(L, m, E, rk, types)
  <2>1. "l" \in types
    OBVIOUS
  <2> HIDE DEF types
  <2>2. QED
    BY <1>1, <2>1, RootListsIs
<1>3. \A q \in Q : q \in 0 .. m - 1 /\ page[q].type = "l"
  BY DEF Those
<1> HIDE DEF L, Q, types
<1>4. PICK h : Listed(L, Values, h, Q, page, E, rk)
  BY <1>2 DEF RootLists, Q
<1>5. L \in Seq(Q) /\ \A i, j \in 1 .. Len(L) : i < j =>
        L[i] # L[j] /\ (page[L[i]].type = "l" /\ page[L[j]].type = "l" => Ahead(E[L[i]], E[L[j]]))
  BY <1>4 DEF Listed
<1>6. \A i \in 1 .. Len(L) : L[i] \in Q
  BY <1>5, ElementOfSeq
<1>7. \A q \in Q : LinkOK(page[q].nextLeafPage, E[q], page, E, m)
  BY <1>3 DEF Linked
<1>8. \A q \in Q : Holds(L, q)
  BY <1>2 DEF RootLists, Q
<1>9. \A i, j \in 1 .. Len(L) : i < j => L[i] # L[j] /\ Ahead(E[L[i]], E[L[j]])
  BY <1>3, <1>5, <1>6
<1>10. \A i \in 1 .. Len(L) : LinkOK(page[L[i]].nextLeafPage, E[L[i]], page, E, m)
  BY <1>6, <1>7
<1>11. QED
  BY <1>5, <1>8, <1>9, <1>10 DEF ChainFacts, Q, L, types

\* Values before and behind.
LEMMA RunBehind ==
  ASSUME NEW S, NEW R, Run(S), Run(R), Ahead(S, R)
  PROVE  R \subseteq Above(S) /\ ~ (S \subseteq Above(R)) /\ ~ (S \subseteq Above(S))
<1>1. S # {} /\ R # {} /\ S \subseteq Values /\ R \subseteq Values /\ Values \subseteq Int
  BY ValueOrder DEF Run
<1>2. R \subseteq Above(S)
  BY <1>1 DEF Ahead, Above
<1>3. PICK v \in S : v \in Int
  BY <1>1
<1>4. PICK w \in R : w \in Int
  BY <1>1
<1>5. v < w
  BY DEF Ahead
<1>6. v \notin Above(R)
  <2>1. ~ (w < v)
    BY <1>3, <1>4, <1>5
  <2>2. QED
    BY <2>1 DEF Above
<1>7. v \notin Above(S)
  <2>1. ~ (v < v)
    BY <1>3
  <2>2. QED
    BY <2>1 DEF Above
<1>8. QED
  BY <1>2, <1>6, <1>7

\* A run is in the values from its least on, and not behind itself.
LEMMA RunFrom ==
  ASSUME NEW S, Run(S)
  PROVE  S \subseteq From(S) /\ ~ (S \subseteq Above(S))
<1>1. S # {} /\ S \subseteq Values /\ Values \subseteq Int
  BY ValueOrder DEF Run
<1>2. \A v \in S : v <= v /\ ~ (v < v)
  BY <1>1
<1>3. QED
  BY <1>1, <1>2 DEF From, Above

\* A run ahead of another is not in the values from the least of that on.
LEMMA FromAhead ==
  ASSUME NEW S, NEW R, Run(S), Run(R), Ahead(S, R)
  PROVE  ~ (S \subseteq From(R))
<1>1. S # {} /\ R # {} /\ S \subseteq Values /\ R \subseteq Values /\ Values \subseteq Int
  BY ValueOrder DEF Run
<1>2. PICK v \in S : v \in Int
  BY <1>1
<1>3. ASSUME NEW w \in R PROVE ~ (w <= v)
  <2>1. w \in Int /\ v < w
    BY <1>1 DEF Ahead
  <2>2. QED
    BY <1>2, <2>1
<1>4. QED
  BY <1>3 DEF From

\* Each leaf is chained to the next of the list: the values behind it begin there.
LEMMA NextInChain ==
  ASSUME NEW L, NEW E, NEW m, ChainFacts(L, E, m), NEW k \in 1 .. Len(L)
  PROVE  page[L[k]].nextLeafPage = IF k = Len(L) THEN AM_NULL_PAGE ELSE L[k + 1]
<1> DEFINE Q == Those({"l"}, m)
           n == Len(L)
           S == E[L[k]]
           next == page[L[k]].nextLeafPage
<1>1. L \in Seq(Q) /\ \A p \in Q : Holds(L, p)
  BY DEF ChainFacts
<1>2. \A i, j \in 1 .. n : i < j => Ahead(E[L[i]], E[L[j]])
  BY DEF ChainFacts
<1>3. LinkOK(next, S, page, E, m)
  BY DEF ChainFacts
<1>4. \A i \in 1 .. n : Run(E[L[i]])
  BY DEF ChainFacts, LinkOK
<1>5. n \in Nat
  BY <1>1, LenProperties
<1> HIDE DEF n, next, S
<1>6. ASSUME next = AM_NULL_PAGE, Above(S) = {}, k # n PROVE FALSE
  <2> DEFINE c == k + 1
             R == E[L[c]]
  <2>1. c \in 1 .. n /\ k < c /\ k \in 1 .. n
    BY <1>5, <1>6 DEF n
  <2>2. Run(S) /\ Run(R) /\ Ahead(S, R)
    BY <1>2, <1>4, <2>1 DEF S
  <2> HIDE DEF R
  <2>3. R \subseteq Above(S)
    BY <2>2, RunBehind
  <2>4. R # {}
    BY <2>2 DEF Run
  <2>5. QED
    BY <1>6, <2>3, <2>4
<1>7. ASSUME next \in 0 .. m - 1, page[next].type = "l", Above(S) = From(E[next])
      PROVE  k # n /\ next = L[k + 1]
  <2>1. next \in Q
    BY <1>7 DEF Those
  <2>2. PICK j \in 1 .. n : L[j] = next
    BY <1>1, <2>1 DEF Holds, n
  <2> DEFINE R == E[L[j]]
  <2>3. Above(S) = From(R) /\ Run(S) /\ Run(R) /\ k \in 1 .. n
    BY <1>4, <1>7, <2>2 DEF S, n
  <2>4. R \subseteq Above(S)
    <3> HIDE DEF R
    <3>1. QED
      BY <2>3, RunFrom
  <2>5. j # k
    <3>1. ASSUME j = k PROVE FALSE
      <4>1. S \subseteq Above(S)
        BY <2>4, <3>1 DEF S
      <4>2. QED
        BY <2>3, <4>1, RunFrom
    <3>2. QED
      BY <3>1
  <2>6. ~ (j < k)
    <3>1. ASSUME j < k PROVE FALSE
      <4>1. Ahead(R, S)
        BY <1>2, <2>3, <3>1 DEF S
      <4> HIDE DEF R
      <4>2. QED
        BY <2>3, <2>4, <4>1, RunBehind
    <3>2. QED
      BY <3>1
  <2> DEFINE c == k + 1
             U == E[L[c]]
  <2>7. k < j /\ c \in 1 .. n /\ k < c /\ (c # j => c < j) /\ k # n
    BY <1>5, <2>5, <2>6
  <2>8. c = j
    <3>1. ASSUME c # j PROVE FALSE
      <4>1. Ahead(S, U) /\ Ahead(U, R) /\ Run(U)
        BY <1>2, <1>4, <2>3, <2>7, <3>1 DEF S
      <4> HIDE DEF U, R
      <4>2. U \subseteq Above(S)
        BY <2>3, <4>1, RunBehind
      <4>3. ~ (U \subseteq From(R))
        BY <2>3, <4>1, FromAhead
      <4>4. QED
        BY <2>3, <4>2, <4>3
    <3>2. QED
      BY <3>1
  <2>9. QED
    BY <2>2, <2>7, <2>8
<1>8. \/ next = AM_NULL_PAGE /\ Above(S) = {}
      \/ next \in 0 .. m - 1 /\ page[next].type = "l" /\ Above(S) = From(E[next])
  BY <1>3 DEF LinkOK
<1>9. CASE next = AM_NULL_PAGE /\ Above(S) = {}
  <2>1. k = n
    BY <1>6, <1>9
  <2>2. QED
    BY <1>9, <2>1 DEF next, n
<1>10. CASE next \in 0 .. m - 1 /\ page[next].type = "l" /\ Above(S) = From(E[next])
  <2>1. k # n /\ next = L[k + 1]
    BY <1>7, <1>10
  <2>2. QED
    BY <2>1 DEF next, n
<1>11. QED
  BY <1>8, <1>9, <1>10

\* The list begins with the page that GetLeftPageNum takes.
LEMMA FirstInChain ==
  ASSUME NEW L, NEW E, NEW m \in Nat \ {0}, ChainFacts(L, E, m), FirstOK(page, E, m)
  PROVE  Len(L) >= 1 /\ L[1] = GetLeftPageNum
<1> DEFINE Q == Those({"l"}, m)
           n == Len(L)
           p == GetLeftPageNum
<1>1. L \in Seq(Q) /\ \A q \in Q : Holds(L, q)
  BY DEF ChainFacts
<1>2. \A i, j \in 1 .. n : i < j => L[i] # L[j] /\ Ahead(E[L[i]], E[L[j]])
  BY DEF ChainFacts
<1>3. \A i \in 1 .. n : Run(E[L[i]])
  BY DEF ChainFacts, LinkOK
<1>4. n \in Nat
  BY <1>1, LenProperties
<1>5. p \in Q /\ (IsLeaf(0) => m = 1 /\ p = 0) /\ (~ IsLeaf(0) => From(E[p]) = Values)
  <2>1. CASE IsLeaf(0)
    <3>1. p = 0 /\ m = 1 /\ 0 \in 0 .. m - 1
      BY <2>1 DEF GetLeftPageNum, AM_RootPageNum, FirstOK, IsLeaf
    <3>2. QED
      BY <2>1, <3>1 DEF Those, IsLeaf
  <2>2. CASE ~ IsLeaf(0)
    <3>1. p = 2 /\ 2 \in 0 .. m - 1 /\ page[2].type = "l" /\ From(E[2]) = Values
      BY <2>2 DEF GetLeftPageNum, AM_RootPageNum, FirstOK, IsLeaf
    <3>2. QED
      BY <2>2, <3>1 DEF Those
  <2>3. QED
    BY <2>1, <2>2
<1> HIDE DEF n, p
<1>6. PICK j \in 1 .. n : L[j] = p
  BY <1>1, <1>5 DEF Holds, n
<1>7. 1 \in 1 .. n /\ (j # 1 => 1 < j)
  BY <1>4, <1>6
<1>8. ASSUME j # 1 PROVE FALSE
  <2> DEFINE S == E[L[1]]
             R == E[L[j]]
  <2>1. L[1] # L[j] /\ Ahead(S, R) /\ Run(S) /\ Run(R)
    BY <1>2, <1>3, <1>7, <1>8
  <2>2. CASE IsLeaf(0)
    <3>1. L[1] \in Q /\ L[j] \in Q
      BY <1>1, <1>7, ElementOfSeq DEF n
    <3>2. \A q \in Q : q = 0
      BY <1>5, <2>2 DEF Those
    <3>3. QED
      BY <2>1, <3>1, <3>2
  <2>3. CASE ~ IsLeaf(0)
    <3>1. From(R) = Values
      BY <1>5, <1>6, <2>3
    <3> HIDE DEF S, R
    <3>2. ~ (S \subseteq From(R))
      BY <2>1, FromAhead
    <3>3. S \subseteq Values
      BY <2>1 DEF Run
    <3>4. QED
      BY <3>1, <3>2, <3>3
  <2>4. QED
    BY <2>2, <2>3
<1>9. QED
  BY <1>4, <1>6, <1>7, <1>8 DEF n, p

\* The leaves on the chain from a page on.
ChainPages == {AM_NULL_PAGE} \cup {q \in DOMAIN page : IsLeaf(q)}
FromTurn(f, p) == IF p = AM_NULL_PAGE THEN <<>> ELSE <<p>> \o f[page[p].nextLeafPage]
IsFrom(f) == f = [p \in ChainPages |-> FromTurn(f, p)]

\* LeavesChained as the solution of its recursion.
LEMMA ChainForm ==
  ASSUME (CHOOSE f : IsFrom(f))[GetLeftPageNum] = PagesBelow({"l"})[0]
  PROVE  LeavesChained
<1> DEFINE right == PagesBelow({"l"})[AM_RootPageNum]
<1>1. (CHOOSE f : IsFrom(f))[GetLeftPageNum] = right
  BY DEF AM_RootPageNum
<1> HIDE DEF right
<1>2. (CHOOSE f : f = [p \in {AM_NULL_PAGE} \cup {q \in DOMAIN page : IsLeaf(q)} |->
                          IF p = AM_NULL_PAGE THEN <<>> ELSE <<p>> \o f[page[p].nextLeafPage]])[GetLeftPageNum] = right
  BY <1>1 DEF IsFrom, FromTurn, ChainPages
<1>3. QED
  BY <1>2 DEF LeavesChained, right

\* The list L from its place k on; -1 is behind the last.
Rest(L, k) == SubSeq(L, k, Len(L))
PageAt(L, k) == IF k = Len(L) + 1 THEN AM_NULL_PAGE ELSE L[k]

\* A list from a place on.
LEMMA RestIs ==
  ASSUME NEW Q, NEW L \in Seq(Q)
  PROVE  /\ \A k \in 1 .. Len(L) : Rest(L, k) = <<L[k]>> \o Rest(L, k + 1)
         /\ Rest(L, Len(L) + 1) = <<>> /\ Rest(L, 1) = L
<1>1. Len(L) \in Nat
  BY LenProperties
<1>2. ASSUME NEW k \in 1 .. Len(L) PROVE Rest(L, k) = <<L[k]>> \o Rest(L, k + 1)
  <2>1. Len(L) \in k .. Len(L)
    BY <1>1
  <2>2. QED
    BY <2>1, SubSeqRecursiveFirst DEF Rest
<1>3. Rest(L, Len(L) + 1) = <<>>
  <2> DEFINE a == Len(L) + 1
             b == Len(L)
  <2>1. a \in Int /\ b \in Int /\ b < a
    BY <1>1
  <2> HIDE DEF a, b
  <2>2. SubSeq(L, a, b) = <<>>
    BY <2>1, SubSeqEmpty
  <2>3. QED
    BY <2>2 DEF Rest, a, b
<1>4. Rest(L, 1) = L
  BY SubSeqFull DEF Rest
<1>5. QED
  BY <1>2, <1>3, <1>4

\* The pages of the chain are those of the list.
Chained(L) ==
  /\ Len(L) \in Nat
  /\ \A i \in 1 .. Len(L) : L[i] \in ChainPages /\ L[i] # AM_NULL_PAGE
  /\ \A i, j \in 1 .. Len(L) : i # j => L[i] # L[j]
  /\ \A p \in ChainPages : p # AM_NULL_PAGE => \E i \in 1 .. Len(L) : L[i] = p

\* The chain followed from the first page is the list.
LEMMA FromIs ==
  ASSUME NEW Q, NEW L \in Seq(Q), Chained(L), ChainedUp(L), NEW f, IsFrom(f)
  PROVE  f[L[1]] = L
<1> DEFINE n == Len(L)
           T == {h \in Nat : \A k \in 1 .. n + 1 : k + h >= n + 1 => f[PageAt(L, k)] = Rest(L, k)}
<1>1. n \in Nat /\ n >= 1
  BY DEF Chained, ChainedUp
<1>2. \A p \in ChainPages : f[p] = FromTurn(f, p)
  BY DEF IsFrom
<1>3. \A i \in 1 .. n : L[i] \in ChainPages /\ L[i] # AM_NULL_PAGE
  BY DEF Chained
<1>4. \A i \in 1 .. n : page[L[i]].nextLeafPage = PageAt(L, i + 1)
  <2>1. ASSUME NEW i \in 1 .. n PROVE page[L[i]].nextLeafPage = PageAt(L, i + 1)
    <3>1. page[L[i]].nextLeafPage = IF i = n THEN AM_NULL_PAGE ELSE L[i + 1]
      BY DEF ChainedUp
    <3>2. i = n <=> i + 1 = n + 1
      BY <1>1
    <3>3. QED
      BY <3>1, <3>2 DEF PageAt
  <2>2. QED
    BY <2>1
<1>5. /\ \A k \in 1 .. n : Rest(L, k) = <<L[k]>> \o Rest(L, k + 1)
      /\ Rest(L, n + 1) = <<>> /\ Rest(L, 1) = L
  BY RestIs
<1> HIDE DEF n
<1>6. f[PageAt(L, n + 1)] = Rest(L, n + 1)
  <2>1. PageAt(L, n + 1) = AM_NULL_PAGE
    BY DEF PageAt, n
  <2>2. AM_NULL_PAGE \in ChainPages
    BY DEF ChainPages
  <2>3. f[AM_NULL_PAGE] = <<>>
    BY <1>2, <2>2 DEF FromTurn
  <2>4. QED
    BY <1>5, <2>1, <2>3
<1>7. 0 \in T
  <2>1. ASSUME NEW k \in 1 .. n + 1, k + 0 >= n + 1 PROVE k = n + 1
    BY <1>1, <2>1
  <2>2. QED
    BY <1>6, <2>1
<1>8. ASSUME NEW h \in Nat, h \in T PROVE h + 1 \in T
  <2>1. ASSUME NEW k \in 1 .. n + 1, k + (h + 1) >= n + 1 PROVE f[PageAt(L, k)] = Rest(L, k)
    <3>1. CASE k = n + 1
      BY <1>6, <3>1
    <3>2. CASE k # n + 1
      <4> DEFINE c == k + 1
      <4>1. k \in 1 .. n /\ c \in 1 .. n + 1 /\ c + h >= n + 1
        BY <1>1, <2>1, <3>2
      <4>2. PageAt(L, k) = L[k]
        BY <3>2 DEF PageAt, n
      <4>3. page[L[k]].nextLeafPage = PageAt(L, c) /\ Rest(L, k) = <<L[k]>> \o Rest(L, c)
        BY <1>4, <1>5, <4>1
      <4> HIDE DEF c
      <4>4. f[PageAt(L, c)] = Rest(L, c)
        BY <1>8, <4>1
      <4>5. f[L[k]] = <<L[k]>> \o f[page[L[k]].nextLeafPage]
        BY <1>2, <1>3, <4>1 DEF FromTurn
      <4>6. QED
        BY <4>2, <4>3, <4>4, <4>5
    <3>3. QED
      BY <3>1, <3>2
  <2>2. QED
    BY <2>1
<1>9. Nat \subseteq T
  <2> HIDE DEF T
  <2>1. QED
    BY <1>7, <1>8, SetInduction
<1>10. f[PageAt(L, 1)] = Rest(L, 1)
  <2>1. n \in T
    BY <1>1, <1>9
  <2>2. 1 \in 1 .. n + 1 /\ 1 + n >= n + 1
    BY <1>1
  <2>3. QED
    BY <2>1, <2>2
<1>11. PageAt(L, 1) = L[1]
  BY <1>1 DEF PageAt, n
<1>12. QED
  BY <1>5, <1>10, <1>11

\* The recursion along the chain has a solution.
LEMMA FromExists ==
  ASSUME NEW Q, NEW L \in Seq(Q), Chained(L), ChainedUp(L)
  PROVE  \E f : IsFrom(f)
<1> DEFINE n == Len(L)
           Place(p) == IF p = AM_NULL_PAGE THEN n + 1 ELSE CHOOSE i \in 1 .. n : L[i] = p
           f == [p \in ChainPages |-> Rest(L, Place(p))]
<1>1. n \in Nat /\ n >= 1
  BY DEF Chained, ChainedUp
<1>2. \A i \in 1 .. n : L[i] \in ChainPages /\ L[i] # AM_NULL_PAGE
  BY DEF Chained
<1>3. \A i, j \in 1 .. n : i # j => L[i] # L[j]
  BY DEF Chained
<1>4. \A p \in ChainPages : p # AM_NULL_PAGE => \E i \in 1 .. n : L[i] = p
  BY DEF Chained
<1>5. /\ \A k \in 1 .. n : Rest(L, k) = <<L[k]>> \o Rest(L, k + 1)
      /\ Rest(L, n + 1) = <<>> /\ Rest(L, 1) = L
  BY RestIs
<1>6. \A i \in 1 .. n : page[L[i]].nextLeafPage = IF i = n THEN AM_NULL_PAGE ELSE L[i + 1]
  BY DEF ChainedUp
<1>7. AM_NULL_PAGE \in ChainPages
  BY DEF ChainPages
<1> HIDE DEF n
<1>8. ASSUME NEW i \in 1 .. n PROVE Place(L[i]) = i
  <2> DEFINE c == CHOOSE j \in 1 .. n : L[j] = L[i]
  <2>1. c \in 1 .. n /\ L[c] = L[i]
    BY <1>8
  <2>2. Place(L[i]) = c
    BY <1>2
  <2> HIDE DEF c
  <2>3. c = i
    BY <1>3, <2>1
  <2>4. QED
    BY <2>2, <2>3
<1>9. Place(AM_NULL_PAGE) = n + 1
  OBVIOUS
<1>10. \A p \in ChainPages : f[p] = Rest(L, Place(p))
  OBVIOUS
<1> HIDE DEF Place
<1>11. f = [p \in ChainPages |-> f[p]]
  OBVIOUS
<1> HIDE DEF f
<1>12. ASSUME NEW p \in ChainPages PROVE f[p] = FromTurn(f, p)
  <2>1. CASE p = AM_NULL_PAGE
    BY <1>5, <1>9, <1>10, <2>1 DEF FromTurn
  <2>2. CASE p # AM_NULL_PAGE
    <3>1. PICK i \in 1 .. n : L[i] = p
      BY <1>4, <2>2
    <3>2. f[p] = <<p>> \o Rest(L, i + 1)
      BY <1>5, <1>8, <1>10, <3>1
    <3>3. f[page[p].nextLeafPage] = Rest(L, i + 1)
      <4>1. CASE i = n
        BY <1>6, <1>7, <1>9, <1>10, <3>1, <4>1
      <4>2. CASE i # n
        <5> DEFINE c == i + 1
        <5>1. c \in 1 .. n
          BY <1>1, <4>2
        <5>2. page[p].nextLeafPage = L[c]
          BY <1>6, <3>1, <4>2
        <5> HIDE DEF c
        <5>3. Place(L[c]) = c /\ L[c] \in ChainPages
          BY <1>2, <1>8, <5>1
        <5>4. f[L[c]] = Rest(L, c)
          BY <1>10, <5>3
        <5>5. QED
          BY <5>2, <5>4 DEF c
      <4>3. QED
        BY <4>1, <4>2
    <3>4. QED
      BY <2>2, <3>2, <3>3 DEF FromTurn
  <2>3. QED
    BY <2>1, <2>2
<1>13. IsFrom(f)
  BY <1>11, <1>12 DEF IsFrom
<1>14. QED
  BY <1>13

\* The invariant says that the chain is in order.
LEMMA InvChain == TreeInv => LeavesChained
<1> SUFFICES ASSUME TreeInv PROVE LeavesChained
  OBVIOUS
<1>1. PICK m, E, rk : Tree(page, m, E, E, rk, acked, -1, 0) /\ Linked(page, m, E)
  BY DEF TreeInv, HoldsAcked
<1>2. DOMAIN page = 0 .. m - 1 /\ m \in Nat \ {0} /\ FirstOK(page, E, m)
  BY <1>1, TreePages DEF Linked
<1> DEFINE N == acked
           L == PagesBelow({"l"})[0]
           Q == Those({"l"}, m)
<1>3. ChainFacts(L, E, m)
  <2>1. Tree(page, m, E, E, rk, N, -1, 0)
    BY <1>1
  <2> HIDE DEF N
  <2>2. QED
    BY <1>1, <2>1, ChainFactsAre
<1> HIDE DEF L
<1>4. ChainedUp(L)
  <2>1. Len(L) >= 1 /\ L[1] = GetLeftPageNum
    BY <1>2, <1>3, FirstInChain
  <2>2. \A i \in 1 .. Len(L) : page[L[i]].nextLeafPage = IF i = Len(L) THEN AM_NULL_PAGE ELSE L[i + 1]
    BY <1>3, NextInChain
  <2>3. QED
    BY <2>1, <2>2 DEF ChainedUp
<1>5. /\ L \in Seq(Q) /\ \A p \in Q : Holds(L, p)
      /\ \A i, j \in 1 .. Len(L) : i < j => L[i] # L[j]
  BY <1>3 DEF ChainFacts
<1>6. \A p : p \in Q <=> p \in DOMAIN page /\ IsLeaf(p)
  BY <1>2 DEF Those, IsLeaf
<1>7. \A p \in Q : p # AM_NULL_PAGE
  <2>1. \A p \in Q : p \in 0 .. m - 1
    BY DEF Those
  <2>2. QED
    BY <1>2, <2>1 DEF AM_NULL_PAGE
<1> HIDE DEF Q
<1>8. Chained(L)
  <2>1. Len(L) \in Nat
    BY <1>5, LenProperties
  <2>2. \A i \in 1 .. Len(L) : L[i] \in Q
    BY <1>5, ElementOfSeq
  <2>3. \A i, j \in 1 .. Len(L) : i # j => L[i] # L[j]
    <3>1. ASSUME NEW i \in 1 .. Len(L), NEW j \in 1 .. Len(L), i # j PROVE L[i] # L[j]
      <4>1. i < j \/ j < i
        BY <2>1, <3>1
      <4>2. QED
        BY <1>5, <4>1
    <3>2. QED
      BY <3>1
  <2>4. ASSUME NEW p \in ChainPages, p # AM_NULL_PAGE PROVE \E i \in 1 .. Len(L) : L[i] = p
    <3>1. p \in Q
      BY <1>6, <2>4 DEF ChainPages
    <3>2. QED
      BY <1>5, <3>1 DEF Holds
  <2>5. \A i \in 1 .. Len(L) : L[i] \in ChainPages /\ L[i] # AM_NULL_PAGE
    BY <1>6, <1>7, <2>2 DEF ChainPages
  <2>6. QED
    BY <2>1, <2>3, <2>4, <2>5 DEF Chained
<1> DEFINE f == CHOOSE g : IsFrom(g)
<1>9. IsFrom(f)
  BY <1>4, <1>5, <1>8, FromExists
<1> HIDE DEF f
<1>10. f[L[1]] = L
  BY <1>4, <1>5, <1>8, <1>9, FromIs
<1>11. f[GetLeftPageNum] = L
  BY <1>4, <1>10 DEF ChainedUp
<1>12. QED
  BY <1>11, ChainForm DEF f, L

\* The leaves are always chained in the order of the tree, from the page that
\* GetLeftPageNum takes for the leftmost (amscan.c:500), unless the index is damaged.
THEOREM ChainAlwaysInOrder == Spec => []ChainInOrder
<1>1. AMInv => ChainInOrder
  BY InvChain DEF AMInv, WholeInv, ChainInOrder
<1>2. QED
  BY <1>1, TreeAlways, PTL
=============================================================================
