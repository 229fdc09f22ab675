---------------------------- MODULE Chains_proofs ----------------------------
(***************************************************************************)
(* The pointers of buf.c and hash.c, unlinked and linked one by one, are at*)
(* every moment a sequence of frames and, for each bucket, a sequence of   *)
(* entries, and what the calls do to them is what PoolIndex says.          *)
(*                                                                         *)
(* The first part says what a walk along the pointers comes to, the second *)
(* what pointer surgery does to a linked sequence, the third has the       *)
(* operators of the code one by one, the fourth the calls.                 *)
(***************************************************************************)
EXTENDS PoolChains, SequenceTheorems, FiniteSetTheorems, WellFoundedInduction, TLAPS

-----------------------------------------------------------------------------
(* Walking along pointers. *)

\* Q is what is linked from head, there by nx and back by pv.
Follows(Q, head, nx) ==
  /\ head = IF Q = <<>> THEN NULL ELSE Q[1]
  /\ \A i \in 1 .. Len(Q) : nx[Q[i]] = IF i = Len(Q) THEN NULL ELSE Q[i + 1]
Linked(Q, head, nx, pv) ==
  /\ Follows(Q, head, nx)
  /\ \A i \in 1 .. Len(Q) : pv[Q[i]] = IF i = 1 THEN NULL ELSE Q[i - 1]

\* Induction over a set of naturals, from the least that is not in it.
LEMMA SetInduction ==
  ASSUME NEW T, 0 \in T, \A n \in Nat : n \in T => n + 1 \in T
  PROVE  Nat \subseteq T
<1> DEFINE D == {n \in Nat : n \notin T}
<1>1. SUFFICES ASSUME D # {} PROVE FALSE
  OBVIOUS
<1>2. PICK d \in D : \A y \in D : ~ (<<y, d>> \in OpToRel(<, Nat))
  BY <1>1, NatLessThanWellFounded, WFMin
<1>3. d \in Nat /\ d # 0 /\ d - 1 \in Nat
  OBVIOUS
<1>4. d - 1 \notin D
  <2>1. <<d - 1, d>> \in Nat \X Nat /\ d - 1 < d
    BY <1>3
  <2>2. QED
    BY <1>2, <2>1 DEF OpToRel
<1>5. d \in T
  <2>1. (d - 1) + 1 = d
    BY <1>3
  <2>2. QED
    BY <1>3, <1>4, <2>1
<1>6. QED
  BY <1>5

\* A sequence without repeats is no longer than the set it is over.
LEMMA InjectiveLen ==
  ASSUME NEW S, IsFiniteSet(S), NEW Q \in Seq(S), IsInjective(Q)
  PROVE  /\ Cardinality(S) \in Nat /\ Len(Q) <= Cardinality(S)
         /\ IsFiniteSet(Range(Q)) /\ Cardinality(Range(Q)) = Len(Q)
<1> DEFINE n == Len(Q)
<1>1. n \in Nat /\ DOMAIN Q = 1 .. n /\ \A i \in 1 .. n : Q[i] \in S
  BY LenProperties, ElementOfSeq
<1>2. IsFiniteSet(1 .. n) /\ Cardinality(1 .. n) = n
  <2>1. IsFiniteSet(1 .. n) /\ Cardinality(1 .. n) = IF 1 > n THEN 0 ELSE n - 1 + 1
    BY <1>1, FS_Interval
  <2>2. QED
    BY <1>1, <2>1
<1>3. Q \in [1 .. n -> Range(Q)] /\ Range(Q) \subseteq S
  <2>1. Q = [i \in 1 .. n |-> Q[i]]
    BY <1>1, LenProperties
  <2>2. QED
    BY <1>1, <2>1 DEF Range
<1>4. Q \in Bijection(1 .. n, Range(Q))
  <2>1. \A i, j \in 1 .. n : Q[i] = Q[j] => i = j
    BY <1>1 DEF IsInjective
  <2>2. \A y \in Range(Q) : \E i \in 1 .. n : Q[i] = y
    BY <1>1 DEF Range
  <2>3. QED
    BY <1>3, <2>1, <2>2 DEF Bijection, Injection, Surjection, IsInjective
<1>5. IsFiniteSet(Range(Q)) /\ Cardinality(Range(Q)) = n
  <2>1. ExistsBijection(1 .. n, Range(Q))
    BY <1>4 DEF ExistsBijection
  <2>2. QED
    BY <1>2, <2>1, FS_Bijection
<1>6. Cardinality(S) \in Nat /\ Cardinality(Range(Q)) <= Cardinality(S)
  BY <1>3, FS_Subset, FS_CardinalityType
<1>7. QED
  BY <1>5, <1>6

\* The path along pointers that link a sequence without repeats is that sequence.
LEMMA PathIs ==
  ASSUME NEW S, IsFiniteSet(S), NULL \notin S, NEW to, DOMAIN to = S,
         NEW Q \in Seq(S), IsInjective(Q), NEW p, Follows(Q, p, to)
  PROVE  Path(p, to) = Q
<1> DEFINE Step(q) == IF q = NULL THEN NULL ELSE to[q]
           at[n \in Nat] == IF n = 0 THEN p ELSE Step(at[n - 1])
           w == [n \in Nat |-> IF n < Len(Q) THEN Q[n + 1] ELSE NULL]
           reached == {n \in 0 .. Cardinality(S) - 1 : at[n] # NULL}
<1>1. Len(Q) \in Nat /\ DOMAIN Q = 1 .. Len(Q) /\ \A i \in 1 .. Len(Q) : Q[i] \in S /\ Q[i] # NULL
  BY LenProperties, ElementOfSeq
<1>2. w = [n \in Nat |-> IF n = 0 THEN p ELSE Step(w[n - 1])]
  <2>1. ASSUME NEW n \in Nat
        PROVE  w[n] = IF n = 0 THEN p ELSE Step(w[n - 1])
    <3>1. CASE n = 0
      <4>1. Q = <<>> <=> Len(Q) = 0
        BY EmptySeq, LenProperties
      <4>2. p = IF Len(Q) = 0 THEN NULL ELSE Q[1]
        BY <4>1 DEF Follows
      <4>3. QED
        BY <1>1, <3>1, <4>2
    <3>2. CASE n # 0
      <4>1. n - 1 \in Nat /\ (n - 1) + 1 = n
        BY <3>2
      <4>2. CASE n - 1 < Len(Q)
        <5>1. w[n - 1] = Q[n] /\ n \in 1 .. Len(Q)
          BY <1>1, <4>1, <4>2
        <5>2. Step(w[n - 1]) = to[Q[n]]
          BY <1>1, <5>1
        <5>3. to[Q[n]] = IF n = Len(Q) THEN NULL ELSE Q[n + 1]
          BY <5>1 DEF Follows
        <5>4. w[n] = IF n = Len(Q) THEN NULL ELSE Q[n + 1]
          BY <1>1, <5>1
        <5>5. QED
          BY <3>2, <5>2, <5>3, <5>4
      <4>3. CASE ~ (n - 1 < Len(Q))
        BY <1>1, <3>2, <4>1, <4>3
      <4>4. QED
        BY <4>2, <4>3
    <3>3. QED
      BY <3>1, <3>2
  <2>2. QED
    BY <2>1
<1>3. at = [n \in Nat |-> IF n = 0 THEN p ELSE Step(at[n - 1])]
  <2> DEFINE Eq(f) == f = [n \in Nat |-> IF n = 0 THEN p ELSE Step(f[n - 1])]
  <2>1. Eq(w)
    BY <1>2
  <2>2. at = CHOOSE f : Eq(f)
    OBVIOUS
  <2> HIDE DEF Eq, w, at
  <2>3. Eq(at)
    BY <2>1, <2>2
  <2>4. QED
    BY <2>3 DEF Eq
<1> HIDE DEF at
<1>4. \A n \in Nat : at[n] = w[n]
  <2> DEFINE T == {n \in Nat : at[n] = w[n]}
  <2>1. 0 \in T
    BY <1>2, <1>3
  <2>2. ASSUME NEW n \in Nat, n \in T
        PROVE  n + 1 \in T
    <3>1. n + 1 \in Nat /\ n + 1 # 0 /\ (n + 1) - 1 = n
      OBVIOUS
    <3>2. at[n + 1] = Step(at[n])
      BY <1>3, <3>1
    <3>3. w[n + 1] = Step(w[n])
      <4> HIDE DEF w
      <4>1. QED
        BY <1>2, <3>1
    <3>4. QED
      <4> HIDE DEF w
      <4>1. QED
        BY <2>2, <3>1, <3>2, <3>3
  <2> HIDE DEF T
  <2>3. Nat \subseteq T
    BY <2>1, <2>2, SetInduction
  <2>4. QED
    BY <2>3 DEF T
<1>5. reached = 0 .. Len(Q) - 1
  <2>1. Cardinality(S) \in Nat /\ Len(Q) <= Cardinality(S)
    BY InjectiveLen
  <2>2. \A n \in Nat : at[n] # NULL <=> n < Len(Q)
    BY <1>1, <1>4
  <2>3. QED
    BY <1>1, <2>1, <2>2
<1>6. Cardinality(reached) = Len(Q)
  <2>1. Cardinality(0 .. Len(Q) - 1) = IF 0 > Len(Q) - 1 THEN 0 ELSE (Len(Q) - 1) - 0 + 1
    BY <1>1, FS_Interval
  <2> HIDE DEF reached
  <2>2. QED
    BY <1>1, <1>5, <2>1
<1>7. Path(p, to) = [i \in 1 .. Cardinality(reached) |-> at[i - 1]]
  BY DEF Path, at
<1>8. \A i \in 1 .. Len(Q) : at[i - 1] = Q[i]
  <2>1. ASSUME NEW i \in 1 .. Len(Q)
        PROVE  at[i - 1] = Q[i]
    <3>1. i - 1 \in Nat /\ i - 1 < Len(Q) /\ (i - 1) + 1 = i
      BY <1>1
    <3>2. QED
      BY <1>4, <3>1
  <2>2. QED
    BY <2>1
<1>9. Q = [i \in 1 .. Len(Q) |-> Q[i]]
  BY LenProperties, <1>1
<1>10. QED
  <2> HIDE DEF reached, w
  <2>1. Path(p, to) = [i \in 1 .. Len(Q) |-> at[i - 1]]
    BY <1>6, <1>7
  <2>2. QED
    BY <1>8, <1>9, <2>1

-----------------------------------------------------------------------------
(* Linking and unlinking. *)

Without(Q, j) == [i \in 1 .. Len(Q) - 1 |-> IF i < j THEN Q[i] ELSE Q[i + 1]]
With(b, Q) == <<b>> \o Q

LEMMA WithProperties ==
  ASSUME NEW S, NEW Q \in Seq(S), IsInjective(Q), NEW b \in S, b \notin Range(Q)
  PROVE  /\ With(b, Q) \in Seq(S) /\ Len(With(b, Q)) = Len(Q) + 1
         /\ \A i \in 1 .. Len(Q) + 1 : With(b, Q)[i] = IF i = 1 THEN b ELSE Q[i - 1]
         /\ IsInjective(With(b, Q)) /\ Range(With(b, Q)) = Range(Q) \cup {b}
<1> DEFINE m == With(b, Q)
<1>1. Len(Q) \in Nat /\ DOMAIN Q = 1 .. Len(Q)
  BY LenProperties
<1>2. <<b>> \in Seq(S) /\ Len(<<b>>) = 1 /\ <<b>>[1] = b
  OBVIOUS
<1>3. /\ m \in Seq(S) /\ Len(m) = Len(<<b>>) + Len(Q)
      /\ \A i \in 1 .. Len(<<b>>) + Len(Q) :
           m[i] = IF i <= Len(<<b>>) THEN <<b>>[i] ELSE Q[i - Len(<<b>>)]
  BY <1>2, ConcatProperties DEF With
<1>4. /\ m \in Seq(S) /\ Len(m) = Len(Q) + 1
      /\ \A i \in 1 .. Len(Q) + 1 : m[i] = IF i = 1 THEN b ELSE Q[i - 1]
  <2> HIDE DEF m
  <2>1. ASSUME NEW i \in 1 .. Len(Q) + 1
        PROVE  m[i] = IF i = 1 THEN b ELSE Q[i - 1]
    <3>1. i \in 1 .. 1 + Len(Q) /\ (i <= 1 <=> i = 1)
      BY <1>1
    <3>2. m[i] = IF i <= 1 THEN <<b>>[i] ELSE Q[i - 1]
      BY <1>2, <1>3, <3>1
    <3>3. QED
      BY <1>2, <3>1, <3>2
  <2>2. Len(m) = Len(Q) + 1
    BY <1>1, <1>2, <1>3
  <2>3. QED
    BY <1>3, <2>1, <2>2
<1> HIDE DEF m
<1>5. DOMAIN m = 1 .. Len(Q) + 1
  BY <1>4, LenProperties
<1>6. \A i \in 1 .. Len(Q) + 1 : i = 1 \/ (i - 1 \in 1 .. Len(Q))
  BY <1>1
<1>7. \A i \in 1 .. Len(Q) : i + 1 \in 1 .. Len(Q) + 1 /\ m[i + 1] = Q[i]
  BY <1>1, <1>4
<1>8. IsInjective(m)
  <2>1. ASSUME NEW i \in 1 .. Len(Q) + 1, NEW j \in 1 .. Len(Q) + 1, m[i] = m[j]
        PROVE  i = j
    <3>1. CASE i = 1
      BY <1>1, <1>4, <1>6, <2>1, <3>1 DEF Range
    <3>2. CASE j = 1
      BY <1>1, <1>4, <1>6, <2>1, <3>2 DEF Range
    <3>3. CASE i # 1 /\ j # 1
      <4>1. Q[i - 1] = Q[j - 1] /\ i - 1 \in 1 .. Len(Q) /\ j - 1 \in 1 .. Len(Q)
        BY <1>4, <1>6, <2>1, <3>3
      <4>2. i - 1 = j - 1
        BY <1>1, <4>1 DEF IsInjective
      <4>3. QED
        BY <4>2
    <3>4. QED
      BY <3>1, <3>2, <3>3
  <2>2. QED
    BY <1>5, <2>1 DEF IsInjective
<1>9. Range(m) = Range(Q) \cup {b}
  <2>1. \A i \in DOMAIN m : m[i] \in Range(Q) \cup {b}
    BY <1>1, <1>4, <1>5, <1>6 DEF Range
  <2>2. b \in Range(m)
    BY <1>1, <1>4, <1>5 DEF Range
  <2>3. Range(Q) \subseteq Range(m)
    BY <1>1, <1>5, <1>7 DEF Range
  <2>4. QED
    BY <2>1, <2>2, <2>3 DEF Range
<1>10. QED
  BY <1>4, <1>8, <1>9 DEF m

LEMMA WithoutProperties ==
  ASSUME NEW S, NEW Q \in Seq(S), IsInjective(Q), NEW j \in 1 .. Len(Q)
  PROVE  /\ Without(Q, j) \in Seq(S) /\ Len(Without(Q, j)) = Len(Q) - 1
         /\ \A i \in 1 .. Len(Q) - 1 : Without(Q, j)[i] = IF i < j THEN Q[i] ELSE Q[i + 1]
         /\ IsInjective(Without(Q, j)) /\ Range(Without(Q, j)) = Range(Q) \ {Q[j]}
<1> DEFINE m == Without(Q, j)
           n == Len(Q) - 1
           up(i) == IF i < j THEN i ELSE i + 1
           down(i) == IF i < j THEN i ELSE i - 1
<1>1. Len(Q) \in Nat /\ DOMAIN Q = 1 .. Len(Q) /\ \A i \in 1 .. Len(Q) : Q[i] \in S
  BY LenProperties, ElementOfSeq
<1>2. n \in Nat
  BY <1>1
<1>3. \A i \in 1 .. n : up(i) \in 1 .. Len(Q) /\ up(i) # j /\ down(up(i)) = i
  BY <1>1
<1>4. \A i \in 1 .. Len(Q) : i # j => down(i) \in 1 .. n /\ up(down(i)) = i
  BY <1>1
<1>5. m = [i \in 1 .. n |-> Q[up(i)]]
  <2>1. \A i \in 1 .. n : (IF i < j THEN Q[i] ELSE Q[i + 1]) = Q[up(i)]
    OBVIOUS
  <2>2. QED
    BY <2>1 DEF Without
<1> HIDE DEF m, n, up, down
<1>6. m \in Seq(S) /\ Len(m) = n /\ DOMAIN m = 1 .. n
  <2>1. m \in [1 .. n -> S]
    BY <1>1, <1>3, <1>5
  <2>2. m \in Seq(S)
    BY <1>2, <2>1
  <2>3. QED
    BY <1>2, <1>5, <2>2, LenProperties
<1>7. IsInjective(m)
  BY <1>1, <1>3, <1>5, <1>6 DEF IsInjective
<1>8. Range(m) = Range(Q) \ {Q[j]}
  <2>1. \A i \in DOMAIN m : m[i] \in Range(Q) \ {Q[j]}
    BY <1>1, <1>3, <1>5, <1>6 DEF Range, IsInjective
  <2>2. ASSUME NEW x \in Range(Q) \ {Q[j]}
        PROVE  x \in Range(m)
    <3>1. PICK i \in 1 .. Len(Q) : x = Q[i] /\ i # j
      BY <1>1 DEF Range
    <3>2. QED
      BY <1>4, <1>5, <1>6, <3>1 DEF Range
  <2>3. QED
    BY <2>1, <2>2 DEF Range
<1>9. QED
  BY <1>5, <1>6, <1>7, <1>8 DEF m, n, up

\* What a node is linked to.
LEMMA LinkedFacts ==
  ASSUME NEW S, NULL \notin S, NEW Q \in Seq(S), IsInjective(Q),
         NEW head, NEW nx, NEW pv, Linked(Q, head, nx, pv)
  PROVE  /\ \A i \in 1 .. Len(Q) :
              /\ nx[Q[i]] \in Range(Q) \cup {NULL} /\ pv[Q[i]] \in Range(Q) \cup {NULL}
              /\ head = Q[i] <=> i = 1
              /\ nx[Q[i]] = NULL <=> i = Len(Q)
              /\ pv[Q[i]] = NULL <=> i = 1
              /\ \A h \in 1 .. Len(Q) : /\ nx[Q[i]] = Q[h] <=> h = i + 1
                                        /\ pv[Q[i]] = Q[h] <=> h = i - 1
         /\ head \in Range(Q) \cup {NULL} /\ (head = NULL <=> Q = <<>>)
<1> DEFINE n == Len(Q)
<1>1. /\ n \in Nat /\ DOMAIN Q = 1 .. n
      /\ \A i \in 1 .. n : Q[i] \in S /\ Q[i] # NULL /\ Q[i] \in Range(Q)
  BY LenProperties, ElementOfSeq DEF Range
<1>2. \A i, h \in 1 .. n : Q[i] = Q[h] <=> i = h
  BY <1>1 DEF IsInjective
<1>3. Q = <<>> <=> n = 0
  BY EmptySeq, LenProperties
<1>4. /\ head = IF n = 0 THEN NULL ELSE Q[1]
      /\ \A i \in 1 .. n : /\ nx[Q[i]] = IF i = n THEN NULL ELSE Q[i + 1]
                           /\ pv[Q[i]] = IF i = 1 THEN NULL ELSE Q[i - 1]
  BY <1>3 DEF Linked, Follows
<1> HIDE DEF n
<1>5. ASSUME NEW i \in 1 .. n
      PROVE  /\ nx[Q[i]] \in Range(Q) \cup {NULL} /\ pv[Q[i]] \in Range(Q) \cup {NULL}
             /\ head = Q[i] <=> i = 1
             /\ nx[Q[i]] = NULL <=> i = n
             /\ pv[Q[i]] = NULL <=> i = 1
             /\ \A h \in 1 .. n : /\ nx[Q[i]] = Q[h] <=> h = i + 1
                                  /\ pv[Q[i]] = Q[h] <=> h = i - 1
  <2>1. head = Q[1] /\ 1 \in 1 .. n
    BY <1>1, <1>4
  <2>2. nx[Q[i]] = IF i = n THEN NULL ELSE Q[i + 1]
    BY <1>4
  <2>3. pv[Q[i]] = IF i = 1 THEN NULL ELSE Q[i - 1]
    BY <1>4
  <2>4. i # n => i + 1 \in 1 .. n
    BY <1>1
  <2>5. i # 1 => i - 1 \in 1 .. n
    BY <1>1
  <2>6. head = Q[i] <=> i = 1
    BY <1>2, <2>1
  <2>7. \A h \in 1 .. n : nx[Q[i]] = Q[h] <=> h = i + 1
    <3>1. CASE i = n
      BY <1>1, <2>2, <3>1
    <3>2. CASE i # n
      BY <1>1, <1>2, <2>2, <2>4, <3>2
    <3>3. QED
      BY <3>1, <3>2
  <2>8. \A h \in 1 .. n : pv[Q[i]] = Q[h] <=> h = i - 1
    <3>1. CASE i = 1
      BY <1>1, <2>3, <3>1
    <3>2. CASE i # 1
      BY <1>1, <1>2, <2>3, <2>5, <3>2
    <3>3. QED
      BY <3>1, <3>2
  <2>9. QED
    BY <1>1, <2>2, <2>3, <2>4, <2>5, <2>6, <2>7, <2>8
<1>6. head \in Range(Q) \cup {NULL} /\ (head = NULL <=> Q = <<>>)
  <2>1. CASE n = 0
    BY <1>3, <1>4, <2>1
  <2>2. CASE n # 0
    <3>1. head = Q[1] /\ 1 \in 1 .. n
      BY <1>1, <1>4, <2>2
    <3>2. QED
      BY <1>1, <1>3, <2>2, <3>1
  <2>3. QED
    BY <2>1, <2>2
<1>7. QED
  BY <1>5, <1>6 DEF n

\* A node linked in front of the head.
LEMMA LinkFirst ==
  ASSUME NEW S, NULL \notin S, NEW Q \in Seq(S), IsInjective(Q),
         NEW head, NEW nx, NEW pv, Linked(Q, head, nx, pv),
         NEW b \in S, b \notin Range(Q), NEW nx2, NEW pv2,
         nx2[b] = head, pv2[b] = NULL,
         \A e \in Range(Q) : /\ nx2[e] = nx[e]
                             /\ pv2[e] = IF e = head THEN b ELSE pv[e]
  PROVE  Linked(With(b, Q), b, nx2, pv2)
<1> DEFINE m == With(b, Q)
           n == Len(Q)
<1>1. /\ n \in Nat /\ \A i \in 1 .. n : Q[i] \in Range(Q)
      /\ Len(m) = n + 1 /\ \A i \in 1 .. n + 1 : m[i] = IF i = 1 THEN b ELSE Q[i - 1]
  BY WithProperties, LenProperties DEF Range
<1>2. m # <<>> /\ m[1] = b
  <2>1. Len(m) # 0
    BY <1>1
  <2>2. QED
    BY <1>1, <2>1
<1>3. Q = <<>> <=> n = 0
  BY EmptySeq, LenProperties
<1>4. head = IF n = 0 THEN NULL ELSE Q[1]
  BY <1>3 DEF Linked, Follows
<1>5. \A i \in 1 .. n : /\ nx[Q[i]] = IF i = n THEN NULL ELSE Q[i + 1]
                        /\ pv[Q[i]] = IF i = 1 THEN NULL ELSE Q[i - 1]
                        /\ Q[i] = head <=> i = 1
  BY LinkedFacts DEF Linked, Follows
<1> HIDE DEF m, n
<1>6. ASSUME NEW i \in 1 .. n + 1
      PROVE  /\ nx2[m[i]] = IF i = n + 1 THEN NULL ELSE m[i + 1]
             /\ pv2[m[i]] = IF i = 1 THEN NULL ELSE m[i - 1]
  <2>1. CASE i = 1
    <3>1. m[1] = b
      BY <1>1
    <3>2. nx2[m[1]] = IF n = 0 THEN NULL ELSE Q[1]
      BY <1>4, <3>1
    <3>3. n # 0 => m[2] = Q[1]
      BY <1>1
    <3>4. QED
      BY <1>1, <2>1, <3>1, <3>2, <3>3
  <2>2. CASE i # 1
    <3>1. i - 1 \in 1 .. n /\ m[i] = Q[i - 1]
      BY <1>1, <2>2
    <3>2. nx2[m[i]] = IF i - 1 = n THEN NULL ELSE Q[(i - 1) + 1]
      BY <1>1, <1>5, <3>1
    <3>3. nx2[m[i]] = IF i = n + 1 THEN NULL ELSE m[i + 1]
      <4>1. i - 1 = n <=> i = n + 1
        BY <1>1
      <4>2. i # n + 1 => i + 1 \in 1 .. n + 1 /\ i + 1 # 1 /\ (i + 1) - 1 = (i - 1) + 1
        BY <1>1
      <4>3. i # n + 1 => m[i + 1] = Q[(i - 1) + 1]
        BY <1>1, <4>2
      <4>4. QED
        BY <3>2, <4>1, <4>3
    <3>4. pv2[m[i]] = IF i - 1 = 1 THEN b ELSE Q[(i - 1) - 1]
      <4>1. pv2[Q[i - 1]] = IF Q[i - 1] = head THEN b ELSE pv[Q[i - 1]]
        BY <1>1, <3>1
      <4>2. /\ pv[Q[i - 1]] = IF i - 1 = 1 THEN NULL ELSE Q[(i - 1) - 1]
            /\ Q[i - 1] = head <=> i - 1 = 1
        BY <1>5, <3>1
      <4>3. QED
        BY <3>1, <4>1, <4>2
    <3>5. m[i - 1] = IF i - 1 = 1 THEN b ELSE Q[(i - 1) - 1]
      <4>1. i - 1 \in 1 .. n + 1
        BY <1>1, <3>1
      <4>2. QED
        BY <1>1, <4>1
    <3>6. QED
      BY <2>2, <3>3, <3>4, <3>5
  <2>3. QED
    BY <2>1, <2>2
<1>7. QED
  BY <1>1, <1>2, <1>6 DEF Linked, Follows, m

\* A node unlinked: its neighbours are linked to each other.
LEMMA LinkOut ==
  ASSUME NEW S, NULL \notin S, NEW Q \in Seq(S), IsInjective(Q),
         NEW head, NEW nx, NEW pv, Linked(Q, head, nx, pv),
         NEW j \in 1 .. Len(Q), NEW nx2, NEW pv2,
         \A e \in Range(Q) \ {Q[j]} :
           /\ nx2[e] = IF e = pv[Q[j]] THEN nx[Q[j]] ELSE nx[e]
           /\ pv2[e] = IF e = nx[Q[j]] THEN pv[Q[j]] ELSE pv[e]
  PROVE  Linked(Without(Q, j), IF head = Q[j] THEN nx[Q[j]] ELSE head, nx2, pv2)
<1> DEFINE m == Without(Q, j)
           n == Len(Q)
           b == Q[j]
<1>1. /\ n \in Nat /\ \A i \in 1 .. n : Q[i] \in Range(Q)
      /\ Len(m) = n - 1 /\ \A i \in 1 .. n - 1 : m[i] = IF i < j THEN Q[i] ELSE Q[i + 1]
  <2>1. n \in Nat /\ DOMAIN Q = 1 .. n
    BY LenProperties
  <2>2. \A i \in 1 .. n : Q[i] \in Range(Q)
    BY <2>1 DEF Range
  <2>3. Len(m) = n - 1 /\ \A i \in 1 .. n - 1 : m[i] = IF i < j THEN Q[i] ELSE Q[i + 1]
    BY WithoutProperties
  <2>4. QED
    BY <2>1, <2>2, <2>3
<1>2. /\ j \in 1 .. n
      /\ \A i \in 1 .. n :
           /\ nx[Q[i]] = IF i = n THEN NULL ELSE Q[i + 1]
           /\ pv[Q[i]] = IF i = 1 THEN NULL ELSE Q[i - 1]
           /\ Q[i] = head <=> i = 1
           /\ Q[i] = b <=> i = j
           /\ Q[i] = pv[b] <=> i = j - 1
           /\ Q[i] = nx[b] <=> i = j + 1
  <2>1. \A i, h \in 1 .. n : Q[i] = Q[h] <=> i = h
    <3>1. DOMAIN Q = 1 .. n
      BY LenProperties
    <3>2. QED
      BY <3>1 DEF IsInjective
  <2>2. QED
    BY <2>1, LinkedFacts DEF Linked, Follows
<1>3. \A i \in 1 .. n : i # j =>
        /\ nx2[Q[i]] = IF i = j - 1 THEN nx[b] ELSE nx[Q[i]]
        /\ pv2[Q[i]] = IF i = j + 1 THEN pv[b] ELSE pv[Q[i]]
  <2>1. \A i \in 1 .. n : i # j => Q[i] \in Range(Q) \ {b}
    BY <1>1, <1>2
  <2>2. QED
    BY <1>2, <2>1
<1>4. m = <<>> <=> n = 1
  <2>1. m \in Seq(S)
    BY WithoutProperties
  <2>2. m = <<>> <=> Len(m) = 0
    BY <2>1, EmptySeq, LenProperties
  <2>3. QED
    BY <1>1, <1>2, <2>2
<1>5. (IF head = b THEN nx[b] ELSE head) = IF m = <<>> THEN NULL ELSE m[1]
  <2> HIDE DEF m, n, b
  <2>1. CASE j = 1
    <3>1. head = b /\ nx[b] = IF n = 1 THEN NULL ELSE Q[2]
      BY <1>2, <2>1 DEF b
    <3>2. n # 1 => m[1] = Q[2]
      BY <1>1, <1>2, <2>1
    <3>3. QED
      BY <1>4, <3>1, <3>2
  <2>2. CASE j # 1
    <3>1. head # b /\ n # 1 /\ 1 \in 1 .. n /\ Q[1] = head /\ 1 \in 1 .. n - 1 /\ 1 < j
      BY <1>1, <1>2, <2>2 DEF b
    <3>2. m[1] = Q[1]
      BY <1>1, <3>1
    <3>3. QED
      BY <1>4, <3>1, <3>2
  <2>3. QED
    BY <2>1, <2>2
<1>6. ASSUME NEW i \in 1 .. n - 1
      PROVE  /\ nx2[m[i]] = IF i = n - 1 THEN NULL ELSE m[i + 1]
             /\ pv2[m[i]] = IF i = 1 THEN NULL ELSE m[i - 1]
  <2>0. n \in Nat /\ i \in Nat /\ j \in Nat /\ 1 <= i /\ i <= n - 1 /\ 1 <= j /\ j <= n
    BY <1>1, <1>2
  <2>1. i # n - 1 => m[i + 1] = IF i + 1 < j THEN Q[i + 1] ELSE Q[(i + 1) + 1]
    <3>1. i # n - 1 => i + 1 \in 1 .. n - 1
      BY <2>0
    <3> HIDE DEF m, n, b
    <3>2. QED
      BY <1>1, <3>1
  <2>2. i # 1 => m[i - 1] = IF i - 1 < j THEN Q[i - 1] ELSE Q[(i - 1) + 1]
    <3>1. i # 1 => i - 1 \in 1 .. n - 1
      BY <2>0
    <3> HIDE DEF m, n, b
    <3>2. QED
      BY <1>1, <3>1
  <2>3. nx[b] = (IF j = n THEN NULL ELSE Q[j + 1]) /\ pv[b] = IF j = 1 THEN NULL ELSE Q[j - 1]
    BY <1>2
  <2> HIDE DEF m, n, b
  <2>4. CASE i < j
    <3>1. m[i] = Q[i] /\ i \in 1 .. n /\ i # j
      BY <1>1, <2>0, <2>4
    <3>2. /\ nx2[m[i]] = IF i = j - 1 THEN nx[b] ELSE nx[Q[i]]
          /\ pv2[m[i]] = IF i = j + 1 THEN pv[b] ELSE pv[Q[i]]
      BY <1>3, <3>1
    <3>3. /\ nx[Q[i]] = Q[i + 1]
          /\ pv[Q[i]] = IF i = 1 THEN NULL ELSE Q[i - 1]
      BY <1>2, <2>0, <3>1
    <3>4. nx2[m[i]] = IF i = n - 1 THEN NULL ELSE m[i + 1]
      <4>1. CASE i = j - 1
        <5>1. ~ (i + 1 < j) /\ (j = n <=> i = n - 1) /\ j + 1 = (i + 1) + 1
          BY <2>0, <4>1
        <5>2. QED
          BY <2>1, <2>3, <3>2, <4>1, <5>1
      <4>2. CASE i # j - 1
        <5>1. i + 1 < j /\ i # n - 1
          BY <2>0, <2>4, <4>2
        <5>2. QED
          BY <2>1, <3>2, <3>3, <4>2, <5>1
      <4>3. QED
        BY <4>1, <4>2
    <3>5. pv2[m[i]] = IF i = 1 THEN NULL ELSE m[i - 1]
      <4>1. i - 1 < j /\ i # j + 1
        BY <2>0, <2>4
      <4>2. QED
        BY <2>2, <3>2, <3>3, <4>1
    <3>6. QED
      BY <3>4, <3>5
  <2>5. CASE ~ (i < j)
    <3>1. m[i] = Q[i + 1] /\ i + 1 \in 1 .. n /\ i + 1 # j
      BY <1>1, <2>0, <2>5
    <3>2. /\ nx2[m[i]] = IF i + 1 = j - 1 THEN nx[b] ELSE nx[Q[i + 1]]
          /\ pv2[m[i]] = IF i + 1 = j + 1 THEN pv[b] ELSE pv[Q[i + 1]]
      BY <1>3, <3>1
    <3>3. /\ nx[Q[i + 1]] = IF i + 1 = n THEN NULL ELSE Q[(i + 1) + 1]
          /\ pv[Q[i + 1]] = Q[(i + 1) - 1]
      BY <1>2, <2>0, <3>1
    <3>4. nx2[m[i]] = IF i = n - 1 THEN NULL ELSE m[i + 1]
      <4>1. i + 1 # j - 1 /\ ~ (i + 1 < j) /\ (i + 1 = n <=> i = n - 1)
        BY <2>0, <2>5
      <4>2. QED
        BY <2>1, <3>2, <3>3, <4>1
    <3>5. pv2[m[i]] = IF i = 1 THEN NULL ELSE m[i - 1]
      <4>1. CASE i = j
        <5>1. i + 1 = j + 1 /\ (j = 1 <=> i = 1) /\ (i # 1 => i - 1 < j) /\ j - 1 = i - 1
          BY <2>0, <4>1
        <5>2. QED
          BY <2>2, <2>3, <3>2, <5>1
      <4>2. CASE i # j
        <5>1. i + 1 # j + 1 /\ i # 1 /\ ~ (i - 1 < j) /\ (i + 1) - 1 = (i - 1) + 1
          BY <2>0, <2>5, <4>2
        <5>2. QED
          BY <2>2, <3>2, <3>3, <5>1
      <4>3. QED
        BY <4>1, <4>2
    <3>6. QED
      BY <3>4, <3>5
  <2>6. QED
    BY <2>4, <2>5
<1>7. QED
  BY <1>1, <1>5, <1>6 DEF Linked, Follows, m

-----------------------------------------------------------------------------
(* What holds of the pointers t between the steps of a call. *)

\* The values of a PFbpage pointer and of a PFhash_entry pointer.
PFrame == Frames \cup {NULL}
PEntry == Entries \cup {NULL}
FrameRec == [nextpage : PFrame, prevpage : PFrame,
             key : Keys \cup {NoKey}, used : BOOLEAN]
EntryRec == [nextentry : PEntry, preventry : PEntry,
             key : Keys \cup {NoKey}, bpage : PFrame, used : BOOLEAN]
Typed(t) ==
  t \in [firstbpage : PFrame, lastbpage : PFrame, numbpage : 0 .. MaxBufs,
         frame : [Frames -> FrameRec], hashtbl : [0 .. HashSize - 1 -> PEntry],
         entry : [Entries -> EntryRec]]

Used(t) == {f \in Frames : t.frame[f].used}
Entered(t) == {e \in Entries : t.entry[e].used}
NextPage(t) == [f \in Frames |-> t.frame[f].nextpage]
PrevPage(t) == [f \in Frames |-> t.frame[f].prevpage]
NextEntry(t) == [e \in Entries |-> t.entry[e].nextentry]
PrevEntry(t) == [e \in Entries |-> t.entry[e].preventry]

\* The buffer list is L.
ListIs(t, L) ==
  /\ L \in Seq(Frames) /\ IsInjective(L)
  /\ Linked(L, t.firstbpage, NextPage(t), PrevPage(t))
  /\ t.lastbpage = IF L = <<>> THEN NULL ELSE L[Len(L)]
\* It has every frame that is in use, and the others are blank.
ListHalf(t, L) ==
  /\ ListIs(t, L)
  /\ Range(L) = Used(t) /\ t.numbpage = Len(L)
  /\ \A f \in Frames \ Used(t) : t.frame[f] = FreeFrame

\* The buckets are the sequences Q, and the entries in none of them are blank.
BucketsAre(t, Q) ==
  /\ Q \in [0 .. HashSize - 1 -> Seq(Entries)]
  /\ \A i \in 0 .. HashSize - 1 :
       /\ IsInjective(Q[i]) /\ Linked(Q[i], t.hashtbl[i], NextEntry(t), PrevEntry(t))
       /\ \A e \in Range(Q[i]) : t.entry[e].used /\ PFhash(t.entry[e].key) = i
  /\ \A e \in Entered(t) : t.entry[e].key \in Keys /\ e \in Range(Q[PFhash(t.entry[e].key)])
  /\ \A e \in Entries \ Entered(t) : t.entry[e] = FreeEntry
\* One entry for each frame in use, but for x, which a call is working on.
Match(t, x) ==
  /\ \A e \in Entered(t) : /\ t.entry[e].bpage \in Used(t) \ {x}
                           /\ t.frame[t.entry[e].bpage].key = t.entry[e].key
  /\ \A f \in Used(t) \ {x} : \E e \in Entered(t) : t.entry[e].bpage = f
  /\ \A d, e \in Entered(t) : t.entry[d].key = t.entry[e].key => d = e
HashHalf(t, x) == (\E Q : BucketsAre(t, Q)) /\ Match(t, x)

\* The pointers between two steps of a call: x is the frame it is working on, or NULL.
Sound(t, x, L) == Typed(t) /\ ListHalf(t, L) /\ HashHalf(t, x)

\* u has in its frames the pages that t has in them.
SameKeys(t, u) ==
  \A f \in Frames : u.frame[f].key = t.frame[f].key /\ u.frame[f].used = t.frame[f].used

\* What is said of the hash table looks at the frames that have an entry only, and
\* of them at the page they hold.
LEMMA HashHalfKept ==
  ASSUME NEW t, NEW u, NEW x, NEW y, HashHalf(t, x),
         u.hashtbl = t.hashtbl, u.entry = t.entry, Used(u) \ {y} = Used(t) \ {x},
         \A f \in Used(t) \ {x} : u.frame[f].key = t.frame[f].key
  PROVE  HashHalf(u, y)
<1>1. Entered(u) = Entered(t)
  BY DEF Entered
<1>2. Match(u, y)
  BY <1>1 DEF HashHalf, Match
<1>3. PICK Q : BucketsAre(t, Q)
  BY DEF HashHalf
<1>4. NextEntry(u) = NextEntry(t) /\ PrevEntry(u) = PrevEntry(t)
  BY DEF NextEntry, PrevEntry
<1>5. BucketsAre(u, Q)
  BY <1>1, <1>3, <1>4 DEF BucketsAre
<1>6. QED
  BY <1>2, <1>5 DEF HashHalf

\* What is said of the list looks at the frames that are in it only.
LEMMA ListIsKept ==
  ASSUME NEW t, NEW u, NEW L, ListIs(t, L),
         u.firstbpage = t.firstbpage, u.lastbpage = t.lastbpage,
         \A f \in Range(L) : /\ u.frame[f].nextpage = t.frame[f].nextpage
                             /\ u.frame[f].prevpage = t.frame[f].prevpage
  PROVE  ListIs(u, L)
<1>1. /\ L \in Seq(Frames) /\ IsInjective(L) /\ DOMAIN L = 1 .. Len(L)
      /\ Linked(L, t.firstbpage, NextPage(t), PrevPage(t))
  BY LenProperties DEF ListIs
<1>2. ASSUME NEW a \in 1 .. Len(L)
      PROVE  NextPage(u)[L[a]] = NextPage(t)[L[a]] /\ PrevPage(u)[L[a]] = PrevPage(t)[L[a]]
  <2>1. L[a] \in Range(L) /\ L[a] \in Frames
    BY <1>1, ElementOfSeq DEF Range
  <2>2. QED
    BY <2>1 DEF NextPage, PrevPage
<1>3. Linked(L, t.firstbpage, NextPage(u), PrevPage(u))
  <2> DEFINE nx == NextPage(t)
             pv == PrevPage(t)
             nx2 == NextPage(u)
             pv2 == PrevPage(u)
  <2>1. \A a \in 1 .. Len(L) : nx2[L[a]] = nx[L[a]] /\ pv2[L[a]] = pv[L[a]]
    BY <1>2
  <2>2. Linked(L, t.firstbpage, nx, pv)
    BY <1>1
  <2> HIDE DEF nx, pv, nx2, pv2
  <2>3. Linked(L, t.firstbpage, nx2, pv2)
    BY <2>1, <2>2 DEF Linked, Follows
  <2>4. QED
    BY <2>3 DEF nx2, pv2
<1>4. QED
  BY <1>1, <1>3 DEF ListIs

\* Writing one pointer changes that pointer (NULL->nextpage is never written).
LEMMA SetPage ==
  ASSUME NEW frame \in [Frames -> FrameRec], NEW f \in PFrame, NEW to \in PFrame
  PROVE  /\ SetNextpage(frame, f, to) \in [Frames -> FrameRec]
         /\ SetPrevpage(frame, f, to) \in [Frames -> FrameRec]
         /\ \A g \in Frames :
              /\ g # f => SetNextpage(frame, f, to)[g] = frame[g]
              /\ g # f => SetPrevpage(frame, f, to)[g] = frame[g]
              /\ SetNextpage(frame, f, to)[g].nextpage = IF g = f THEN to ELSE frame[g].nextpage
              /\ SetNextpage(frame, f, to)[g].prevpage = frame[g].prevpage
              /\ SetPrevpage(frame, f, to)[g].prevpage = IF g = f THEN to ELSE frame[g].prevpage
              /\ SetPrevpage(frame, f, to)[g].nextpage = frame[g].nextpage
              /\ SetNextpage(frame, f, to)[g].key = frame[g].key
              /\ SetNextpage(frame, f, to)[g].used = frame[g].used
              /\ SetPrevpage(frame, f, to)[g].key = frame[g].key
              /\ SetPrevpage(frame, f, to)[g].used = frame[g].used
<1>1. \A g \in Frames : g # NULL
  BY ChainsAssumption
<1>3. CASE f = NULL
  BY <1>1, <1>3 DEF SetNextpage, SetPrevpage
<1>4. CASE f # NULL
  BY <1>1, <1>4 DEF SetNextpage, SetPrevpage, FrameRec, PFrame
<1>5. QED
  BY <1>3, <1>4

LEMMA SetEntry ==
  ASSUME NEW entry \in [Entries -> EntryRec], NEW e \in PEntry, NEW to \in PEntry
  PROVE  /\ SetNextentry(entry, e, to) \in [Entries -> EntryRec]
         /\ SetPreventry(entry, e, to) \in [Entries -> EntryRec]
         /\ \A g \in Entries :
              /\ g # e => SetNextentry(entry, e, to)[g] = entry[g]
              /\ g # e => SetPreventry(entry, e, to)[g] = entry[g]
              /\ SetNextentry(entry, e, to)[g].nextentry = IF g = e THEN to ELSE entry[g].nextentry
              /\ SetNextentry(entry, e, to)[g].preventry = entry[g].preventry
              /\ SetPreventry(entry, e, to)[g].preventry = IF g = e THEN to ELSE entry[g].preventry
              /\ SetPreventry(entry, e, to)[g].nextentry = entry[g].nextentry
              /\ SetNextentry(entry, e, to)[g].key = entry[g].key
              /\ SetNextentry(entry, e, to)[g].bpage = entry[g].bpage
              /\ SetNextentry(entry, e, to)[g].used = entry[g].used
              /\ SetPreventry(entry, e, to)[g].key = entry[g].key
              /\ SetPreventry(entry, e, to)[g].bpage = entry[g].bpage
              /\ SetPreventry(entry, e, to)[g].used = entry[g].used
<1>1. \A g \in Entries : g # NULL
  BY ChainsAssumption
<1>3. CASE e = NULL
  BY <1>1, <1>3 DEF SetNextentry, SetPreventry
<1>4. CASE e # NULL
  BY <1>1, <1>4 DEF SetNextentry, SetPreventry, EntryRec, PEntry
<1>5. QED
  BY <1>3, <1>4

-----------------------------------------------------------------------------
(* The operators on the list. *)

\* What a list operator leaves alone: the hash table, the count, which pages are
\* where, and the frames that are not of S.
Elsewhere(t, u, S) ==
  /\ u.hashtbl = t.hashtbl /\ u.entry = t.entry /\ u.numbpage = t.numbpage
  /\ SameKeys(t, u)
  /\ \A f \in Frames \ S : u.frame[f] = t.frame[f]

LEMMA LinkHeadIs ==
  ASSUME NEW t, Typed(t), NEW L, ListIs(t, L), NEW b \in Frames, b \notin Range(L),
         NEW u, u = PFbufLinkHead(t, b)
  PROVE  Typed(u) /\ ListIs(u, With(b, L)) /\ Elsewhere(t, u, Range(L) \cup {b})
<1> DEFINE first == t.firstbpage
           fr1 == [t.frame EXCEPT ![b].nextpage = first, ![b].prevpage = NULL]
           fr == SetPrevpage(fr1, first, b)
<1>1. /\ t.frame \in [Frames -> FrameRec] /\ first \in PFrame
      /\ t.lastbpage \in PFrame
      /\ DOMAIN t = {"firstbpage", "lastbpage", "numbpage", "frame", "hashtbl", "entry"}
  BY DEF Typed
<1>2. L \in Seq(Frames) /\ IsInjective(L) /\ Linked(L, first, NextPage(t), PrevPage(t))
  BY DEF ListIs
<1>3. first \in Range(L) \cup {NULL} /\ (first = NULL <=> L = <<>>)
  BY <1>2, LinkedFacts, ChainsAssumption
<1>4. b # first /\ b # NULL
  BY <1>3, ChainsAssumption
<1>4a. b \in PFrame /\ NULL \in PFrame
  BY DEF PFrame
<1>5. /\ fr1 \in [Frames -> FrameRec]
      /\ fr1[b].nextpage = first /\ fr1[b].prevpage = NULL
      /\ fr1[b].key = t.frame[b].key /\ fr1[b].used = t.frame[b].used
      /\ \A f \in Frames : f # b => fr1[f] = t.frame[f]
  BY <1>1, <1>4a DEF FrameRec
<1> HIDE DEF fr1
<1>6. /\ fr \in [Frames -> FrameRec]
      /\ \A f \in Frames : f # first => fr[f] = fr1[f]
      /\ \A f \in Frames : /\ fr[f].nextpage = fr1[f].nextpage
                           /\ fr[f].prevpage = IF f = first THEN b ELSE fr1[f].prevpage
                           /\ fr[f].key = fr1[f].key /\ fr[f].used = fr1[f].used
  BY <1>1, <1>4a, <1>5, SetPage
<1>7. /\ u.frame = fr /\ u.firstbpage = b
      /\ u.lastbpage = (IF t.lastbpage = NULL THEN b ELSE t.lastbpage)
      /\ u.numbpage = t.numbpage /\ u.hashtbl = t.hashtbl /\ u.entry = t.entry
  BY <1>1 DEF PFbufLinkHead, fr1
<1>8. Typed(u)
  <2>1. u = [t EXCEPT !.frame = fr, !.firstbpage = b,
                      !.lastbpage = IF t.lastbpage = NULL THEN b ELSE t.lastbpage]
    BY DEF PFbufLinkHead, fr1
  <2> HIDE DEF fr
  <2>2. QED
    BY <1>1, <1>4a, <1>6, <2>1 DEF Typed
<1> HIDE DEF fr
<1>9. \A f \in Frames :
        /\ f # b => fr[f].nextpage = t.frame[f].nextpage
        /\ f # b => fr[f].prevpage = IF f = first THEN b ELSE t.frame[f].prevpage
        /\ fr[f].key = t.frame[f].key /\ fr[f].used = t.frame[f].used
  BY <1>4, <1>5, <1>6
<1>10. fr[b].nextpage = first /\ fr[b].prevpage = NULL
  BY <1>4, <1>5, <1>6
<1>11. Elsewhere(t, u, Range(L) \cup {b})
  BY <1>3, <1>5, <1>6, <1>7, <1>9, ChainsAssumption DEF Elsewhere, SameKeys
<1>12. /\ With(b, L) \in Seq(Frames) /\ IsInjective(With(b, L)) /\ Len(With(b, L)) = Len(L) + 1
       /\ \A i \in 1 .. Len(L) + 1 : With(b, L)[i] = IF i = 1 THEN b ELSE L[i - 1]
  BY <1>2, WithProperties
<1>13. Range(L) \subseteq Frames
  BY <1>2, RangeOfSeq
<1>14. Linked(With(b, L), b, NextPage(u), PrevPage(u))
  <2>1. NextPage(u)[b] = first /\ PrevPage(u)[b] = NULL
    BY <1>7, <1>10 DEF NextPage, PrevPage
  <2>2. \A e \in Range(L) : /\ NextPage(u)[e] = NextPage(t)[e]
                            /\ PrevPage(u)[e] = IF e = first THEN b ELSE PrevPage(t)[e]
    BY <1>7, <1>9, <1>13 DEF NextPage, PrevPage
  <2>3. QED
    BY <1>2, <2>1, <2>2, LinkFirst, ChainsAssumption
<1>15. u.lastbpage = IF With(b, L) = <<>> THEN NULL ELSE With(b, L)[Len(With(b, L))]
  <2> DEFINE n == Len(L)
  <2>1. n \in Nat /\ (L = <<>> <=> n = 0) /\ \A i \in 1 .. n : L[i] \in Frames
    BY <1>2, LenProperties, EmptySeq, ElementOfSeq
  <2>2. With(b, L) # <<>>
    BY <1>12, <2>1, EmptySeq
  <2>3. t.lastbpage = IF L = <<>> THEN NULL ELSE L[n]
    BY DEF ListIs
  <2> HIDE DEF n
  <2>4. CASE n = 0
    BY <1>7, <1>12, <2>1, <2>2, <2>3, <2>4 DEF n
  <2>5. CASE n # 0
    <3>1. n \in 1 .. n /\ n + 1 \in 1 .. n + 1 /\ n + 1 # 1 /\ (n + 1) - 1 = n
      BY <2>1, <2>5
    <3>2. t.lastbpage = L[n] /\ L[n] # NULL
      BY <2>1, <2>3, <2>5, <3>1, ChainsAssumption
    <3>3. With(b, L)[n + 1] = L[n]
      BY <1>12, <3>1 DEF n
    <3>4. QED
      BY <1>7, <1>12, <2>2, <3>2, <3>3 DEF n
  <2>6. QED
    BY <2>4, <2>5
<1>16. ListIs(u, With(b, L))
  BY <1>7, <1>12, <1>14, <1>15 DEF ListIs
<1>17. QED
  BY <1>8, <1>11, <1>16

\* What PFbufUnlink makes of the frames, next and prev being b's neighbours.
Rewired(frame, b, next, prev) ==
  [SetNextpage(SetPrevpage(frame, next, prev), prev, next)
     EXCEPT ![b].nextpage = NULL, ![b].prevpage = NULL]

LEMMA UnlinkFrames ==
  ASSUME NEW frame \in [Frames -> FrameRec], NEW b \in Frames,
         NEW next \in PFrame, NEW prev \in PFrame,
         NEW fr, fr = Rewired(frame, b, next, prev)
  PROVE  /\ fr \in [Frames -> FrameRec]
         /\ fr[b].nextpage = NULL /\ fr[b].prevpage = NULL
         /\ \A f \in Frames : fr[f].key = frame[f].key /\ fr[f].used = frame[f].used
         /\ \A f \in Frames \ {b, next, prev} : fr[f] = frame[f]
         /\ \A f \in Frames \ {b} :
              /\ fr[f].nextpage = IF f = prev THEN next ELSE frame[f].nextpage
              /\ fr[f].prevpage = IF f = next THEN prev ELSE frame[f].prevpage
<1> DEFINE fr1 == SetPrevpage(frame, next, prev)
           fr2 == SetNextpage(fr1, prev, next)
<1>0. fr = [fr2 EXCEPT ![b].nextpage = NULL, ![b].prevpage = NULL]
  BY DEF Rewired
<1>4. /\ fr1 \in [Frames -> FrameRec]
      /\ \A f \in Frames : f # next => fr1[f] = frame[f]
      /\ \A f \in Frames : /\ fr1[f].nextpage = frame[f].nextpage
                           /\ fr1[f].prevpage = IF f = next THEN prev ELSE frame[f].prevpage
                           /\ fr1[f].key = frame[f].key /\ fr1[f].used = frame[f].used
  BY SetPage
<1> HIDE DEF fr1
<1>5. /\ fr2 \in [Frames -> FrameRec]
      /\ \A f \in Frames : f # prev => fr2[f] = fr1[f]
      /\ \A f \in Frames : /\ fr2[f].nextpage = IF f = prev THEN next ELSE fr1[f].nextpage
                           /\ fr2[f].prevpage = fr1[f].prevpage
                           /\ fr2[f].key = fr1[f].key /\ fr2[f].used = fr1[f].used
  BY <1>4, SetPage
<1> HIDE DEF fr2
<1>6. /\ fr \in [Frames -> FrameRec]
      /\ \A f \in Frames : f # b => fr[f] = fr2[f]
      /\ fr[b].nextpage = NULL /\ fr[b].prevpage = NULL
      /\ fr[b].key = fr2[b].key /\ fr[b].used = fr2[b].used
  <2>1. NULL \in PFrame
    BY DEF PFrame
  <2>2. \A f \in Frames : f # b => fr[f] = fr2[f]
    BY <1>0, <1>5
  <2>3. fr[b] = [fr2[b] EXCEPT !.nextpage = NULL, !.prevpage = NULL]
    BY <1>0, <1>5
  <2>4. fr[b] = [nextpage |-> NULL, prevpage |-> NULL, key |-> fr2[b].key, used |-> fr2[b].used]
    <3>1. fr2[b] \in FrameRec
      BY <1>5
    <3>2. QED
      BY <2>3, <3>1 DEF FrameRec
  <2>5. fr[b] \in FrameRec
    <3>1. fr2[b] \in FrameRec
      BY <1>5
    <3>2. fr2[b].key \in Keys \cup {NoKey} /\ fr2[b].used \in BOOLEAN
      BY <3>1 DEF FrameRec
    <3>3. QED
      BY <2>1, <2>4, <3>2 DEF FrameRec
  <2>6. fr \in [Frames -> FrameRec]
    <3>1. fr = [f \in Frames |-> fr[f]]
      BY <1>0, <1>5
    <3>2. \A f \in Frames : fr[f] \in FrameRec
      BY <1>5, <2>2, <2>5
    <3>3. QED
      BY <3>1, <3>2
  <2>7. QED
    BY <2>2, <2>4, <2>6
<1>8. \A f \in Frames : fr[f].key = frame[f].key /\ fr[f].used = frame[f].used
  <2>1. fr[b].key = frame[b].key /\ fr[b].used = frame[b].used
    BY <1>4, <1>5, <1>6
  <2>2. QED
    BY <1>4, <1>5, <1>6, <2>1
<1>9. \A f \in Frames \ {b} :
        /\ fr[f].nextpage = IF f = prev THEN next ELSE frame[f].nextpage
        /\ fr[f].prevpage = IF f = next THEN prev ELSE frame[f].prevpage
  BY <1>4, <1>5, <1>6
<1>10. \A f \in Frames \ {b, next, prev} : fr[f] = frame[f]
  BY <1>4, <1>5, <1>6
<1>11. QED
  BY <1>6, <1>8, <1>9, <1>10

LEMMA UnlinkWrites ==
  ASSUME NEW t, Typed(t), NEW b \in Frames, NEW next, NEW prev,
         next = t.frame[b].nextpage, prev = t.frame[b].prevpage, next # b, prev # b,
         NEW u, u = PFbufUnlink(t, b)
  PROVE  /\ Typed(u)
         /\ u.firstbpage = (IF t.firstbpage = b THEN next ELSE t.firstbpage)
         /\ u.lastbpage = (IF t.lastbpage = b THEN prev ELSE t.lastbpage)
         /\ u.numbpage = t.numbpage /\ u.hashtbl = t.hashtbl /\ u.entry = t.entry
         /\ SameKeys(t, u)
         /\ u.frame[b].nextpage = NULL /\ u.frame[b].prevpage = NULL
         /\ \A f \in Frames \ {b, next, prev} : u.frame[f] = t.frame[f]
         /\ \A f \in Frames \ {b} :
              /\ u.frame[f].nextpage = IF f = prev THEN next ELSE t.frame[f].nextpage
              /\ u.frame[f].prevpage = IF f = next THEN prev ELSE t.frame[f].prevpage
<1> DEFINE frame == t.frame
           fr == Rewired(frame, b, next, prev)
<1>1. /\ t.frame \in [Frames -> FrameRec] /\ t.firstbpage \in PFrame
      /\ t.lastbpage \in PFrame
      /\ DOMAIN t = {"firstbpage", "lastbpage", "numbpage", "frame", "hashtbl", "entry"}
  BY DEF Typed
<1>2. next \in PFrame /\ prev \in PFrame
  BY <1>1 DEF FrameRec
<1>3. /\ u.frame = fr
      /\ u.firstbpage = (IF t.firstbpage = b THEN next ELSE t.firstbpage)
      /\ u.lastbpage = (IF t.lastbpage = b THEN prev ELSE t.lastbpage)
      /\ u.numbpage = t.numbpage /\ u.hashtbl = t.hashtbl /\ u.entry = t.entry
      /\ u = [t EXCEPT !.frame = fr, !.firstbpage = IF t.firstbpage = b THEN next ELSE t.firstbpage,
                       !.lastbpage = IF t.lastbpage = b THEN prev ELSE t.lastbpage]
  <2>1. u = [t EXCEPT !.firstbpage = IF t.firstbpage = b THEN next ELSE t.firstbpage,
                      !.lastbpage = IF t.lastbpage = b THEN prev ELSE t.lastbpage,
                      !.frame = fr]
    BY DEF PFbufUnlink, Rewired
  <2> HIDE DEF fr
  <2>2. QED
    BY <1>1, <2>1
<1>4. /\ fr \in [Frames -> FrameRec]
      /\ fr[b].nextpage = NULL /\ fr[b].prevpage = NULL
      /\ \A f \in Frames : fr[f].key = frame[f].key /\ fr[f].used = frame[f].used
      /\ \A f \in Frames \ {b, next, prev} : fr[f] = frame[f]
      /\ \A f \in Frames \ {b} :
           /\ fr[f].nextpage = IF f = prev THEN next ELSE frame[f].nextpage
           /\ fr[f].prevpage = IF f = next THEN prev ELSE frame[f].prevpage
  <2>1. frame \in [Frames -> FrameRec]
    BY <1>1
  <2>2. fr = Rewired(frame, b, next, prev)
    OBVIOUS
  <2> HIDE DEF frame, fr
  <2>3. QED
    BY <1>2, <2>1, <2>2, UnlinkFrames
<1> HIDE DEF fr
<1>5. Typed(u)
  BY <1>1, <1>2, <1>3, <1>4 DEF Typed
<1>6. QED
  BY <1>3, <1>4, <1>5 DEF SameKeys

LEMMA UnlinkIs ==
  ASSUME NEW t, Typed(t), NEW L, ListIs(t, L), NEW j \in 1 .. Len(L), NEW b, b = L[j],
         NEW u, u = PFbufUnlink(t, b)
  PROVE  /\ Typed(u) /\ ListIs(u, Without(L, j)) /\ Elsewhere(t, u, Range(L))
         /\ u.frame[b].nextpage = NULL /\ u.frame[b].prevpage = NULL
<1> DEFINE first == t.firstbpage
           next == t.frame[b].nextpage
           prev == t.frame[b].prevpage
           n == Len(L)
<1>1. /\ t.frame \in [Frames -> FrameRec] /\ first \in PFrame
      /\ t.lastbpage \in PFrame
      /\ DOMAIN t = {"firstbpage", "lastbpage", "numbpage", "frame", "hashtbl", "entry"}
  BY DEF Typed
<1>2. L \in Seq(Frames) /\ IsInjective(L) /\ Linked(L, first, NextPage(t), PrevPage(t))
  BY DEF ListIs
<1>3. /\ b \in Frames /\ b \in Range(L) /\ Range(L) \subseteq Frames
      /\ n \in Nat /\ DOMAIN L = 1 .. n
  BY <1>2, ElementOfSeq, LenProperties, RangeOfSeq DEF Range
<1>4. /\ next = NextPage(t)[L[j]] /\ prev = PrevPage(t)[L[j]]
      /\ next \in Range(L) \cup {NULL} /\ prev \in Range(L) \cup {NULL}
      /\ next # b /\ prev # b
      /\ next = NULL <=> j = n
      /\ prev = NULL <=> j = 1
      /\ prev # NULL => prev = L[j - 1]
  <2>1. next = NextPage(t)[L[j]] /\ prev = PrevPage(t)[L[j]]
    BY <1>3 DEF NextPage, PrevPage
  <2>2. /\ NextPage(t)[L[j]] \in Range(L) \cup {NULL} /\ PrevPage(t)[L[j]] \in Range(L) \cup {NULL}
        /\ NextPage(t)[L[j]] = NULL <=> j = n
        /\ PrevPage(t)[L[j]] = NULL <=> j = 1
        /\ NextPage(t)[L[j]] = L[j] <=> j = j + 1
        /\ PrevPage(t)[L[j]] = L[j] <=> j = j - 1
    BY <1>2, LinkedFacts, ChainsAssumption
  <2>3. j # j + 1 /\ j # j - 1
    BY <1>3
  <2>4. PrevPage(t)[L[j]] = IF j = 1 THEN NULL ELSE L[j - 1]
    BY <1>2 DEF Linked
  <2> HIDE DEF next, prev, n
  <2>5. QED
    BY <2>1, <2>2, <2>3, <2>4
<1>5. next \in PFrame /\ prev \in PFrame
  BY <1>3, <1>4 DEF PFrame
<1> HIDE DEF next, prev
<1>6. /\ Typed(u)
      /\ u.firstbpage = (IF first = b THEN next ELSE first)
      /\ u.lastbpage = (IF t.lastbpage = b THEN prev ELSE t.lastbpage)
      /\ u.numbpage = t.numbpage /\ u.hashtbl = t.hashtbl /\ u.entry = t.entry
      /\ SameKeys(t, u)
      /\ u.frame[b].nextpage = NULL /\ u.frame[b].prevpage = NULL
      /\ \A f \in Frames \ {b, next, prev} : u.frame[f] = t.frame[f]
      /\ \A f \in Frames \ {b} :
           /\ u.frame[f].nextpage = IF f = prev THEN next ELSE t.frame[f].nextpage
           /\ u.frame[f].prevpage = IF f = next THEN prev ELSE t.frame[f].prevpage
  <2>1. next = t.frame[b].nextpage /\ prev = t.frame[b].prevpage
    BY DEF next, prev
  <2>2. b \in Frames /\ next # b /\ prev # b
    BY <1>3, <1>4
  <2>3. QED
    BY <2>1, <2>2, UnlinkWrites
<1>15. Elsewhere(t, u, Range(L))
  <2>1. \A f \in Frames \ Range(L) : f # b /\ f # prev /\ f # next
    BY <1>3, <1>4, ChainsAssumption
  <2>2. QED
    BY <1>6, <2>1 DEF Elsewhere
<1>16. /\ Without(L, j) \in Seq(Frames) /\ IsInjective(Without(L, j)) /\ Len(Without(L, j)) = n - 1
       /\ \A i \in 1 .. n - 1 : Without(L, j)[i] = IF i < j THEN L[i] ELSE L[i + 1]
  BY <1>2, WithoutProperties
<1>17. Linked(Without(L, j), u.firstbpage, NextPage(u), PrevPage(u))
  <2>1. \A e \in Range(L) \ {L[j]} :
          /\ NextPage(u)[e] = IF e = PrevPage(t)[L[j]] THEN NextPage(t)[L[j]] ELSE NextPage(t)[e]
          /\ PrevPage(u)[e] = IF e = NextPage(t)[L[j]] THEN PrevPage(t)[L[j]] ELSE PrevPage(t)[e]
    <3>1. ASSUME NEW e \in Range(L) \ {L[j]}
          PROVE  /\ NextPage(u)[e] = IF e = prev THEN next ELSE NextPage(t)[e]
                 /\ PrevPage(u)[e] = IF e = next THEN prev ELSE PrevPage(t)[e]
      <4>1. e \in Frames \ {b}
        BY <1>3
      <4>2. /\ NextPage(u)[e] = u.frame[e].nextpage /\ PrevPage(u)[e] = u.frame[e].prevpage
            /\ NextPage(t)[e] = t.frame[e].nextpage /\ PrevPage(t)[e] = t.frame[e].prevpage
        BY <4>1 DEF NextPage, PrevPage
      <4>3. QED
        BY <1>6, <4>1, <4>2
    <3>2. QED
      BY <1>4, <3>1
  <2>2. Linked(Without(L, j), IF first = L[j] THEN NextPage(t)[L[j]] ELSE first,
               NextPage(u), PrevPage(u))
    BY <1>2, <2>1, LinkOut, ChainsAssumption
  <2>3. QED
    BY <1>4, <1>6, <2>2
<1>18. u.lastbpage = IF Without(L, j) = <<>> THEN NULL ELSE Without(L, j)[Len(Without(L, j))]
  <2>1. /\ j \in 1 .. n /\ (Without(L, j) = <<>> <=> n = 1)
        /\ t.lastbpage = L[n] /\ (L[n] = b <=> j = n)
    <3>1. j \in 1 .. n /\ L # <<>> /\ n \in 1 .. n
      BY <1>2, <1>3, LenProperties, EmptySeq
    <3>2. Without(L, j) = <<>> <=> n - 1 = 0
      BY <1>16, EmptySeq, LenProperties
    <3>3. t.lastbpage = L[n]
      BY <3>1 DEF ListIs
    <3>4. L[n] = L[j] <=> j = n
      BY <1>2, <1>3, <3>1 DEF IsInjective
    <3> HIDE DEF n
    <3>5. QED
      BY <1>3, <3>1, <3>2, <3>3, <3>4
  <2> HIDE DEF n
  <2>2. CASE j = n
    <3>1. u.lastbpage = prev
      BY <1>6, <2>1, <2>2
    <3>2. CASE n = 1
      BY <1>4, <2>1, <2>2, <3>1, <3>2
    <3>3. CASE n # 1
      <4>1. n - 1 \in 1 .. n - 1 /\ n - 1 < j
        BY <1>3, <2>1, <2>2, <3>3
      <4>2. Without(L, j)[n - 1] = L[n - 1]
        BY <1>16, <4>1
      <4>3. prev = L[n - 1]
        BY <1>4, <2>2, <3>3
      <4>4. QED
        BY <1>16, <2>1, <3>1, <3>3, <4>2, <4>3
    <3>4. QED
      BY <3>2, <3>3
  <2>3. CASE j # n
    <3>1. u.lastbpage = L[n]
      BY <1>6, <2>1, <2>3
    <3>2. n # 1 /\ n - 1 \in 1 .. n - 1 /\ ~ (n - 1 < j) /\ (n - 1) + 1 = n
      BY <1>3, <2>1, <2>3
    <3>3. Without(L, j)[n - 1] = L[n]
      BY <1>16, <3>2
    <3>4. QED
      BY <1>16, <2>1, <3>1, <3>2, <3>3
  <2>4. QED
    BY <2>2, <2>3
<1>19. ListIs(u, Without(L, j))
  BY <1>16, <1>17, <1>18 DEF ListIs
<1>20. QED
  BY <1>6, <1>15, <1>19

\* The list with its head taken off and put back.
LEMMA HeadBack ==
  ASSUME NEW S, NEW L \in Seq(S), IsInjective(L), L # <<>>
  PROVE  With(L[1], Without(L, 1)) = L
<1> DEFINE n == Len(L)
           m == Without(L, 1)
           w == With(L[1], m)
<1>1. n \in Nat /\ n # 0 /\ 1 \in 1 .. n
  BY LenProperties, EmptySeq
<1>2. /\ m \in Seq(S) /\ Len(m) = n - 1 /\ IsInjective(m) /\ L[1] \notin Range(m)
      /\ \A i \in 1 .. n - 1 : m[i] = IF i < 1 THEN L[i] ELSE L[i + 1]
  BY <1>1, WithoutProperties
<1>3. L[1] \in S
  BY <1>1, ElementOfSeq
<1> HIDE DEF m
<1>4. /\ w \in Seq(S) /\ Len(w) = Len(m) + 1
      /\ \A i \in 1 .. Len(m) + 1 : w[i] = IF i = 1 THEN L[1] ELSE m[i - 1]
  BY <1>2, <1>3, WithProperties
<1> HIDE DEF w, n
<1>5. Len(w) = n
  BY <1>1, <1>2, <1>4
<1>6. \A i \in 1 .. n : w[i] = L[i]
  <2>1. ASSUME NEW i \in 1 .. n, i # 1
        PROVE  w[i] = L[i]
    <3>1. i \in 1 .. Len(m) + 1 /\ i - 1 \in 1 .. n - 1 /\ ~ (i - 1 < 1) /\ (i - 1) + 1 = i
      BY <1>1, <1>2, <2>1
    <3>2. w[i] = m[i - 1] /\ m[i - 1] = L[i]
      BY <1>2, <1>4, <2>1, <3>1
    <3>3. QED
      BY <3>2
  <2>2. w[1] = L[1]
    <3>1. 1 \in 1 .. Len(m) + 1
      BY <1>1, <1>2
    <3>2. QED
      BY <1>4, <3>1
  <2>3. QED
    BY <2>1, <2>2
<1>7. QED
  BY <1>4, <1>5, <1>6, SeqEqual DEF n, w, m

-----------------------------------------------------------------------------
(* The operators on the hash table. *)

Buckets == 0 .. HashSize - 1

LEMMA HashInRange ==
  ASSUME NEW k \in Keys
  PROVE  PFhash(k) \in Buckets /\ k # NoKey
<1>1. k[1] \in Nat /\ k[2] \in Nat /\ HashSize \in Nat /\ HashSize > 0 /\ k = <<k[1], k[2]>>
  <2>1. PICK fd \in Fds, p \in Pages : k = <<fd, p>>
    BY DEF Keys
  <2>2. fd \in Nat /\ p \in Nat
    BY <2>1, ChainsAssumption
  <2>3. QED
    BY <2>1, <2>2, ChainsAssumption
<1>2. k # NoKey
  BY <1>1 DEF NoKey
<1> DEFINE n == k[1] + k[2]
<1>3. n \in Int
  BY <1>1
<1> HIDE DEF n
<1>4. n % HashSize \in 0 .. HashSize - 1
  BY <1>1, <1>3
<1>5. QED
  BY <1>2, <1>4 DEF PFhash, n, Buckets

\* The buckets are disjoint, and every entry has its place in one of them.
LEMMA BucketFacts ==
  ASSUME NEW t, NEW Q, BucketsAre(t, Q)
  PROVE  /\ \A i \in Buckets :
              /\ Q[i] \in Seq(Entries) /\ Len(Q[i]) \in Nat /\ IsInjective(Q[i])
              /\ Linked(Q[i], t.hashtbl[i], NextEntry(t), PrevEntry(t))
              /\ \A a \in 1 .. Len(Q[i]) :
                   /\ Q[i][a] \in Entries /\ Q[i][a] \in Range(Q[i]) /\ Q[i][a] \in Entered(t)
                   /\ t.entry[Q[i][a]].key \in Keys /\ PFhash(t.entry[Q[i][a]].key) = i
                   /\ t.entry[Q[i][a]].nextentry = IF a = Len(Q[i]) THEN NULL ELSE Q[i][a + 1]
         /\ \A i, h \in Buckets : \A a \in 1 .. Len(Q[i]), c \in 1 .. Len(Q[h]) :
              Q[i][a] = Q[h][c] => i = h /\ a = c
         /\ \A e \in Entered(t) : \E a \in 1 .. Len(Q[PFhash(t.entry[e].key)]) :
              Q[PFhash(t.entry[e].key)][a] = e
<1>1. ASSUME NEW i \in Buckets
      PROVE  /\ Q[i] \in Seq(Entries) /\ Len(Q[i]) \in Nat /\ IsInjective(Q[i])
             /\ DOMAIN Q[i] = 1 .. Len(Q[i])
             /\ Linked(Q[i], t.hashtbl[i], NextEntry(t), PrevEntry(t))
  <2>1. Q[i] \in Seq(Entries) /\ IsInjective(Q[i])
        /\ Linked(Q[i], t.hashtbl[i], NextEntry(t), PrevEntry(t))
    BY DEF BucketsAre, Buckets
  <2>2. QED
    BY <2>1, LenProperties
<1>2. ASSUME NEW i \in Buckets, NEW a \in 1 .. Len(Q[i])
      PROVE  /\ Q[i][a] \in Entries /\ Q[i][a] \in Range(Q[i]) /\ Q[i][a] \in Entered(t)
             /\ t.entry[Q[i][a]].key \in Keys /\ PFhash(t.entry[Q[i][a]].key) = i
             /\ t.entry[Q[i][a]].nextentry = IF a = Len(Q[i]) THEN NULL ELSE Q[i][a + 1]
  <2>1. Q[i][a] \in Range(Q[i]) /\ Q[i][a] \in Entries
    BY <1>1, ElementOfSeq DEF Range
  <2>2. t.entry[Q[i][a]].used /\ PFhash(t.entry[Q[i][a]].key) = i
    BY <2>1 DEF BucketsAre, Buckets
  <2>3. Q[i][a] \in Entered(t)
    BY <2>1, <2>2 DEF Entered
  <2>4. NextEntry(t)[Q[i][a]] = IF a = Len(Q[i]) THEN NULL ELSE Q[i][a + 1]
    BY <1>1 DEF Linked, Follows
  <2>5. t.entry[Q[i][a]].nextentry = NextEntry(t)[Q[i][a]]
    BY <2>1 DEF NextEntry
  <2>6. t.entry[Q[i][a]].key \in Keys
    BY <2>3 DEF BucketsAre
  <2>7. QED
    BY <2>1, <2>2, <2>3, <2>4, <2>5, <2>6
<1>3. ASSUME NEW i \in Buckets, NEW h \in Buckets,
             NEW a \in 1 .. Len(Q[i]), NEW c \in 1 .. Len(Q[h]), Q[i][a] = Q[h][c]
      PROVE  i = h /\ a = c
  <2>1. i = h
    BY <1>2, <1>3
  <2>2. a = c
    BY <1>1, <1>3, <2>1 DEF IsInjective
  <2>3. QED
    BY <2>1, <2>2
<1>4. ASSUME NEW e \in Entered(t)
      PROVE  \E a \in 1 .. Len(Q[PFhash(t.entry[e].key)]) : Q[PFhash(t.entry[e].key)][a] = e
  <2>1. t.entry[e].key \in Keys /\ e \in Range(Q[PFhash(t.entry[e].key)])
    BY DEF BucketsAre
  <2>2. PFhash(t.entry[e].key) \in Buckets
    BY <2>1, HashInRange
  <2>3. DOMAIN Q[PFhash(t.entry[e].key)] = 1 .. Len(Q[PFhash(t.entry[e].key)])
    BY <1>1, <2>2
  <2>4. QED
    BY <2>1, <2>3 DEF Range
<1>5. QED
  BY <1>1, <1>2, <1>3, <1>4

\* The walk of PFhashFind ends at the entry for page k, if there is one.
Walks(t, k, f) ==
  f = [e \in Entries \cup {NULL} |->
         IF e = NULL \/ t.entry[e].key = k THEN e ELSE f[t.entry[e].nextentry]]

LEMMA EntryOfIs ==
  ASSUME NEW t, Typed(t), NEW Q, BucketsAre(t, Q), NEW k \in Keys,
         \A d, e \in Entered(t) : t.entry[d].key = t.entry[e].key => d = e
  PROVE  /\ \A e \in Entered(t) : t.entry[e].key = k => EntryOf(t, k) = e
         /\ (\A e \in Entered(t) : t.entry[e].key # k) => EntryOf(t, k) = NULL
<1> DEFINE Key(e) == t.entry[e].key
           nx(e) == t.entry[e].nextentry
           Ahead(e) == \E i \in Buckets : \E a, c \in 1 .. Len(Q[i]) :
                          a <= c /\ Q[i][a] = e /\ Key(Q[i][c]) = k
           sought == IF \E e \in Entered(t) : Key(e) = k
                     THEN CHOOSE e \in Entered(t) : Key(e) = k ELSE NULL
           g == [e \in Entries \cup {NULL} |-> IF e # NULL /\ Ahead(e) THEN sought ELSE NULL]
           i0 == PFhash(k)
           C == Q[i0]
           n == Len(C)
<1>1. NULL \notin Entries /\ i0 \in Buckets /\ k # NoKey
  BY ChainsAssumption, HashInRange
<1>2. /\ \A i \in Buckets :
           /\ Len(Q[i]) \in Nat
           /\ \A a \in 1 .. Len(Q[i]) :
                /\ Q[i][a] \in Entries /\ Q[i][a] \in Entered(t)
                /\ nx(Q[i][a]) = IF a = Len(Q[i]) THEN NULL ELSE Q[i][a + 1]
      /\ \A i, h \in Buckets : \A a \in 1 .. Len(Q[i]), c \in 1 .. Len(Q[h]) :
           Q[i][a] = Q[h][c] => i = h /\ a = c
      /\ \A e \in Entered(t) : /\ e \in Entries /\ Key(e) \in Keys
                               /\ \E a \in 1 .. Len(Q[PFhash(Key(e))]) : Q[PFhash(Key(e))][a] = e
  <2>1. ASSUME NEW i \in Buckets
        PROVE  /\ Len(Q[i]) \in Nat
               /\ \A a \in 1 .. Len(Q[i]) :
                    /\ Q[i][a] \in Entries /\ Q[i][a] \in Entered(t)
                    /\ nx(Q[i][a]) = IF a = Len(Q[i]) THEN NULL ELSE Q[i][a + 1]
    BY BucketFacts
  <2>2. \A i, h \in Buckets : \A a \in 1 .. Len(Q[i]), c \in 1 .. Len(Q[h]) :
           Q[i][a] = Q[h][c] => i = h /\ a = c
    BY BucketFacts
  <2>3. \A e \in Entered(t) : \E a \in 1 .. Len(Q[PFhash(Key(e))]) : Q[PFhash(Key(e))][a] = e
    BY BucketFacts
  <2>4. \A e \in Entered(t) : e \in Entries /\ Key(e) \in Keys
    BY DEF Entered, BucketsAre
  <2> HIDE DEF nx, Key
  <2>5. QED
    BY <2>1, <2>2, <2>3, <2>4
<1>3. \A e \in Entries \ Entered(t) : Key(e) # k /\ nx(e) = NULL
  <2>1. \A e \in Entries \ Entered(t) : t.entry[e] = FreeEntry
    BY DEF BucketsAre
  <2>2. QED
    BY <1>1, <2>1 DEF FreeEntry
<1>4. \A e \in Entered(t) : Key(e) = k => sought = e
  OBVIOUS
<1>5. (\A e \in Entered(t) : Key(e) # k) => sought = NULL
  OBVIOUS
<1> HIDE DEF sought, nx, Key
<1>6. ASSUME NEW e \in Entries
      PROVE  g[e] = IF Key(e) = k THEN e ELSE g[nx(e)]
  <2>0. g[NULL] = NULL /\ g[e] = IF Ahead(e) THEN sought ELSE NULL
    BY <1>1
  <2>1. CASE e \notin Entered(t)
    <3>1. ~ Ahead(e)
      BY <1>2, <2>1
    <3>2. Key(e) # k /\ nx(e) = NULL
      BY <1>3, <2>1
    <3> HIDE DEF g, Ahead
    <3>3. QED
      BY <2>0, <3>1, <3>2
  <2>2. CASE e \in Entered(t) /\ Key(e) = k
    <3>1. PICK a \in 1 .. n : C[a] = e
      BY <1>2, <2>2
    <3>2. Ahead(e)
      BY <1>1, <1>2, <2>2, <3>1
    <3>3. sought = e
      BY <1>4, <2>2
    <3> HIDE DEF g, Ahead
    <3>4. QED
      BY <2>0, <2>2, <3>2, <3>3
  <2>3. CASE e \in Entered(t) /\ Key(e) # k
    <3>1. PICK i \in Buckets : \E a \in 1 .. Len(Q[i]) : Q[i][a] = e
      <4>1. PFhash(Key(e)) \in Buckets
        BY <1>2, <2>3, HashInRange
      <4>2. QED
        BY <1>2, <2>3, <4>1
    <3>2. PICK a \in 1 .. Len(Q[i]) : Q[i][a] = e
      BY <3>1
    <3>3. Len(Q[i]) \in Nat /\ nx(e) = IF a = Len(Q[i]) THEN NULL ELSE Q[i][a + 1]
      BY <1>2, <3>2
    <3> DEFINE m == Len(Q[i])
    <3>4. \A h \in Buckets, b \in Nat : b \in 1 .. Len(Q[h]) /\ Q[h][b] = e => h = i /\ b = a
      BY <1>2, <3>2
    <3>5. CASE a = m
      <4>1. ~ Ahead(e)
        <5>1. SUFFICES ASSUME NEW h \in Buckets, NEW b \in 1 .. Len(Q[h]), NEW c \in 1 .. Len(Q[h]),
                              b <= c, Q[h][b] = e, Key(Q[h][c]) = k
                       PROVE  FALSE
          OBVIOUS
        <5>2. Len(Q[h]) \in Nat
          BY <1>2
        <5>3. b \in Nat /\ c \in Nat
          BY <5>2
        <5>4. h = i /\ b = a
          BY <3>4, <5>1, <5>3
        <5>5. c = a
          BY <3>3, <3>5, <5>1, <5>3, <5>4
        <5>6. QED
          BY <2>3, <5>1, <5>4, <5>5
      <4>2. nx(e) = NULL
        BY <3>3, <3>5
      <4> HIDE DEF g, Ahead
      <4>3. QED
        BY <2>0, <2>3, <4>1, <4>2
    <3>6. CASE a # m
      <4>1. a + 1 \in 1 .. m /\ nx(e) = Q[i][a + 1] /\ Q[i][a + 1] \in Entries
        <5>1. a + 1 \in 1 .. m
          BY <3>3, <3>6
        <5>2. QED
          BY <1>2, <3>3, <3>6, <5>1
      <4>2. Ahead(e) <=> Ahead(nx(e))
        <5>1. ASSUME NEW h \in Buckets, NEW b \in 1 .. Len(Q[h]), NEW c \in 1 .. Len(Q[h]),
                     b <= c, Q[h][b] = e, Key(Q[h][c]) = k
              PROVE  Ahead(nx(e))
          <6>1. Len(Q[h]) \in Nat
            BY <1>2
          <6>2. b \in Nat /\ c \in Nat
            BY <6>1
          <6>3. h = i /\ b = a
            BY <3>4, <5>1, <6>2
          <6>4. c # a
            BY <2>3, <5>1, <6>3
          <6>5. a + 1 <= c
            BY <3>3, <5>1, <6>2, <6>3, <6>4
          <6>6. QED
            BY <4>1, <5>1, <6>3, <6>5
        <5>2. ASSUME NEW h \in Buckets, NEW b \in 1 .. Len(Q[h]), NEW c \in 1 .. Len(Q[h]),
                     b <= c, Q[h][b] = nx(e), Key(Q[h][c]) = k
              PROVE  Ahead(e)
          <6>1. h = i /\ b = a + 1
            BY <1>2, <4>1, <5>2
          <6>2. a <= c
            BY <3>3, <5>2, <6>1
          <6>3. QED
            BY <3>2, <5>2, <6>1, <6>2
        <5>3. QED
          BY <5>1, <5>2
      <4>3. nx(e) # NULL /\ nx(e) \in Entries
        BY <1>1, <4>1
      <4>4. g[nx(e)] = IF Ahead(nx(e)) THEN sought ELSE NULL
        BY <4>3
      <4> HIDE DEF g, Ahead
      <4>5. QED
        BY <2>0, <2>3, <4>2, <4>4
    <3>7. QED
      BY <3>5, <3>6
  <2>4. QED
    BY <2>1, <2>2, <2>3
<1>7. \E f : Walks(t, k, f)
  <2>1. g[NULL] = NULL
    BY <1>1
  <2>2. g = [e \in Entries \cup {NULL} |-> g[e]]
    OBVIOUS
  <2> HIDE DEF g
  <2>3. \A e \in Entries \cup {NULL} : g[e] = IF e = NULL \/ Key(e) = k THEN e ELSE g[nx(e)]
    BY <1>1, <1>6, <2>1
  <2>4. g = [e \in Entries \cup {NULL} |->
               IF e = NULL \/ t.entry[e].key = k THEN e ELSE g[t.entry[e].nextentry]]
    BY <2>2, <2>3 DEF Key, nx
  <2>5. QED
    BY <2>4 DEF Walks
<1> DEFINE from == CHOOSE f : Walks(t, k, f)
<1>8. EntryOf(t, k) = from[t.hashtbl[i0]]
  BY DEF EntryOf, Walks
<1>9. Walks(t, k, from)
  BY <1>7
<1> HIDE DEF from
<1>10. \A e \in Entries \cup {NULL} : from[e] = IF e = NULL \/ Key(e) = k THEN e ELSE from[nx(e)]
  BY <1>9 DEF Walks, Key, nx
<1>11. n \in Nat /\ \A a \in 1 .. n : C[a] \in Entries /\ nx(C[a]) = IF a = n THEN NULL ELSE C[a + 1]
  BY <1>1, <1>2
<1>12. \A a \in 1 .. n : from[C[a]] = g[C[a]]
  <2> DEFINE T == {m \in Nat : m < n => from[C[n - m]] = g[C[n - m]]}
  <2>0. g[NULL] = NULL /\ from[NULL] = NULL
    BY <1>1, <1>10
  <2> HIDE DEF C, n, g
  <2>1. 0 \in T
    <3>1. CASE n = 0
      BY <3>1
    <3>2. CASE n # 0
      <4>1. n \in 1 .. n /\ n - 0 = n
        BY <1>11, <3>2
      <4>2. C[n] \in Entries /\ nx(C[n]) = NULL
        BY <1>11, <4>1
      <4>3. from[C[n]] = g[C[n]]
        BY <1>1, <1>6, <1>10, <2>0, <4>2
      <4>4. QED
        BY <4>1, <4>3
    <3>3. QED
      BY <3>1, <3>2
  <2>2. ASSUME NEW m \in Nat, m \in T
        PROVE  m + 1 \in T
    <3>1. SUFFICES ASSUME m + 1 < n
                   PROVE  from[C[n - (m + 1)]] = g[C[n - (m + 1)]]
      OBVIOUS
    <3> DEFINE a == n - (m + 1)
    <3>2. a \in 1 .. n /\ a # n /\ a + 1 = n - m /\ m < n
      BY <1>11, <3>1
    <3>3. from[C[a + 1]] = g[C[a + 1]]
      BY <2>2, <3>2
    <3>4. C[a] \in Entries /\ nx(C[a]) = C[a + 1]
      BY <1>11, <3>2
    <3> HIDE DEF a
    <3>5. from[C[a]] = g[C[a]]
      BY <1>1, <1>6, <1>10, <3>3, <3>4
    <3>6. QED
      BY <3>5 DEF a
  <2> HIDE DEF T
  <2>3. Nat \subseteq T
    BY <2>1, <2>2, SetInduction
  <2>4. ASSUME NEW a \in 1 .. n
        PROVE  from[C[a]] = g[C[a]]
    <3>1. n - a \in Nat /\ n - a < n /\ n - (n - a) = a
      BY <1>11
    <3>2. QED
      BY <2>3, <3>1 DEF T
  <2>5. QED
    BY <2>4
<1>13. t.hashtbl[i0] = IF n = 0 THEN NULL ELSE C[1]
  <2>1. C \in Seq(Entries) /\ Linked(C, t.hashtbl[i0], NextEntry(t), PrevEntry(t))
    BY <1>1, BucketFacts
  <2>2. C = <<>> <=> n = 0
    BY <2>1, EmptySeq, LenProperties
  <2>3. QED
    BY <2>1, <2>2 DEF Linked, Follows
<1>14. ASSUME NEW e \in Entered(t), Key(e) = k
       PROVE  EntryOf(t, k) = e
  <2>1. PICK c \in 1 .. n : C[c] = e
    BY <1>2, <1>14
  <2>2. n # 0 /\ 1 \in 1 .. n /\ 1 <= c
    BY <1>11, <2>1
  <2>3. Ahead(C[1])
    BY <1>1, <1>14, <2>1, <2>2
  <2>4. C[1] \in Entries /\ C[1] # NULL
    BY <1>1, <1>11, <2>2
  <2>5. g[C[1]] = sought
    BY <2>3, <2>4
  <2> HIDE DEF g, C, n
  <2>6. from[t.hashtbl[i0]] = sought
    BY <1>12, <1>13, <2>2, <2>5
  <2>7. QED
    BY <1>4, <1>8, <1>14, <2>6
<1>15. ASSUME \A e \in Entered(t) : Key(e) # k
       PROVE  EntryOf(t, k) = NULL
  <2>1. CASE n = 0
    <3> HIDE DEF g, C, n
    <3>1. QED
      BY <1>8, <1>10, <1>13, <2>1
  <2>2. CASE n # 0
    <3>1. 1 \in 1 .. n
      BY <1>11, <2>2
    <3>2. g[C[1]] = NULL
      <4>1. C[1] \in Entries
        BY <1>11, <3>1
      <4>2. sought = NULL
        BY <1>5, <1>15
      <4>3. QED
        BY <4>1, <4>2
    <3> HIDE DEF g, C, n
    <3>3. QED
      BY <1>8, <1>12, <1>13, <2>2, <3>1, <3>2
  <2>3. QED
    BY <2>1, <2>2
<1>16. QED
  BY <1>14, <1>15 DEF Key

LEMMA LinkedSame ==
  ASSUME NEW Q, NEW head, NEW nx, NEW pv, NEW nx2, NEW pv2, Linked(Q, head, nx, pv),
         \A a \in 1 .. Len(Q) : nx2[Q[a]] = nx[Q[a]] /\ pv2[Q[a]] = pv[Q[a]]
  PROVE  Linked(Q, head, nx2, pv2)
BY DEF Linked, Follows

\* The tables with a new entry e for page k in frame b.
Inserted(t, k, b, e) ==
  [t EXCEPT !.entry = SetPreventry([@ EXCEPT ![e] =
                                      [nextentry |-> t.hashtbl[PFhash(k)], preventry |-> NULL,
                                       key |-> k, bpage |-> b, used |-> TRUE]],
                                   t.hashtbl[PFhash(k)], e),
            !.hashtbl[PFhash(k)] = e]
\* What no operator on the hash table changes.
SameList(t, u) ==
  /\ u.firstbpage = t.firstbpage /\ u.lastbpage = t.lastbpage
  /\ u.numbpage = t.numbpage /\ u.frame = t.frame

LEMMA InsertWrites ==
  ASSUME NEW t, Typed(t), NEW k \in Keys, NEW b \in Frames, NEW e \in Entries,
         NEW i, i = PFhash(k), NEW head, head = t.hashtbl[i], head # e,
         NEW u, u = Inserted(t, k, b, e)
  PROVE  /\ Typed(u) /\ SameList(t, u)
         /\ u.hashtbl = [t.hashtbl EXCEPT ![i] = e]
         /\ u.entry[e].nextentry = head /\ u.entry[e].preventry = NULL
         /\ u.entry[e].key = k /\ u.entry[e].bpage = b /\ u.entry[e].used
         /\ \A d \in Entries \ {e} :
              /\ u.entry[d].nextentry = t.entry[d].nextentry
              /\ u.entry[d].preventry = IF d = head THEN e ELSE t.entry[d].preventry
              /\ u.entry[d].key = t.entry[d].key /\ u.entry[d].bpage = t.entry[d].bpage
              /\ u.entry[d].used = t.entry[d].used
         /\ \A d \in Entries \ {e, head} : u.entry[d] = t.entry[d]
<1> DEFINE entry == t.entry
           new == [nextentry |-> head, preventry |-> NULL, key |-> k, bpage |-> b, used |-> TRUE]
           en1 == [entry EXCEPT ![e] = new]
           en == SetPreventry(en1, head, e)
<1>1. /\ entry \in [Entries -> EntryRec] /\ t.hashtbl \in [Buckets -> PEntry] /\ i \in Buckets
      /\ DOMAIN t = {"firstbpage", "lastbpage", "numbpage", "frame", "hashtbl", "entry"}
  BY HashInRange DEF Typed, Buckets
<1>2. head \in PEntry /\ e \in PEntry /\ NULL \in PEntry /\ b \in PFrame
  BY <1>1 DEF PEntry, PFrame
<1>3. new \in EntryRec
  BY <1>2 DEF EntryRec
<1>4. /\ u = [t EXCEPT !.entry = en, !.hashtbl[i] = e]
      /\ u = [t EXCEPT !.entry = en, !.hashtbl = [t.hashtbl EXCEPT ![i] = e]]
  BY <1>1 DEF Inserted
<1> HIDE DEF entry, new
<1>5. /\ en1 \in [Entries -> EntryRec] /\ en1[e] = new
      /\ \A d \in Entries \ {e} : en1[d] = entry[d]
  BY <1>1, <1>3
<1> HIDE DEF en1
<1>6. /\ en \in [Entries -> EntryRec]
      /\ \A d \in Entries : d # head => en[d] = en1[d]
      /\ \A d \in Entries : /\ en[d].preventry = IF d = head THEN e ELSE en1[d].preventry
                            /\ en[d].nextentry = en1[d].nextentry
                            /\ en[d].key = en1[d].key /\ en[d].bpage = en1[d].bpage
                            /\ en[d].used = en1[d].used
  BY <1>2, <1>5, SetEntry
<1> HIDE DEF en
<1>7. u.entry = en /\ u.hashtbl = [t.hashtbl EXCEPT ![i] = e] /\ SameList(t, u)
  BY <1>1, <1>4 DEF SameList
<1>8. Typed(u)
  <2>1. [t.hashtbl EXCEPT ![i] = e] \in [Buckets -> PEntry]
    BY <1>1, <1>2
  <2>2. QED
    BY <1>1, <1>4, <1>6, <2>1 DEF Typed, Buckets
<1>9. en[e] = new
  BY <1>5, <1>6
<1>10. en[e].nextentry = head /\ en[e].preventry = NULL /\ en[e].key = k /\ en[e].bpage = b /\ en[e].used
  BY <1>9 DEF new
<1>11. QED
  BY <1>5, <1>6, <1>7, <1>8, <1>10 DEF entry

LEMMA InsertIs ==
  ASSUME NEW t, Typed(t), NEW Q, BucketsAre(t, Q), NEW k \in Keys, NEW b \in Frames,
         NEW e \in Entries \ Entered(t), NEW u, u = Inserted(t, k, b, e)
  PROVE  /\ Typed(u) /\ SameList(t, u) /\ \E R : BucketsAre(u, R)
         /\ Entered(u) = Entered(t) \cup {e}
         /\ u.entry[e].key = k /\ u.entry[e].bpage = b
         /\ \A d \in Entered(t) : u.entry[d].key = t.entry[d].key /\ u.entry[d].bpage = t.entry[d].bpage
<1> DEFINE i == PFhash(k)
           head == t.hashtbl[i]
           R == [Q EXCEPT ![i] = With(e, Q[i])]
<1>0. i \in Buckets /\ NULL \notin Entries /\ Q \in [Buckets -> Seq(Entries)]
  BY HashInRange, ChainsAssumption DEF BucketsAre, Buckets
<1>1. /\ Q[i] \in Seq(Entries) /\ IsInjective(Q[i])
      /\ Linked(Q[i], head, NextEntry(t), PrevEntry(t))
  BY <1>0, BucketFacts
<1>2. e \notin Range(Q[i]) /\ \A h \in Buckets : e \notin Range(Q[h])
  <2>1. \A h \in Buckets : \A d \in Range(Q[h]) : t.entry[d].used
    BY DEF BucketsAre, Buckets
  <2>2. QED
    BY <1>0, <2>1 DEF Entered
<1>3. head \in Range(Q[i]) \cup {NULL} /\ head # e
  BY <1>0, <1>1, <1>2, LinkedFacts
<1>4. /\ Typed(u) /\ SameList(t, u)
      /\ u.hashtbl = [t.hashtbl EXCEPT ![i] = e]
      /\ u.entry[e].nextentry = head /\ u.entry[e].preventry = NULL
      /\ u.entry[e].key = k /\ u.entry[e].bpage = b /\ u.entry[e].used
      /\ \A d \in Entries \ {e} :
           /\ u.entry[d].nextentry = t.entry[d].nextentry
           /\ u.entry[d].preventry = IF d = head THEN e ELSE t.entry[d].preventry
           /\ u.entry[d].key = t.entry[d].key /\ u.entry[d].bpage = t.entry[d].bpage
           /\ u.entry[d].used = t.entry[d].used
      /\ \A d \in Entries \ {e, head} : u.entry[d] = t.entry[d]
  BY <1>3, InsertWrites
<1>5. Entered(u) = Entered(t) \cup {e}
  BY <1>4 DEF Entered
<1>6. t.hashtbl \in [Buckets -> PEntry]
  BY DEF Typed, Buckets
<1>7. \A h \in Buckets : /\ R[h] = IF h = i THEN With(e, Q[i]) ELSE Q[h]
                         /\ u.hashtbl[h] = IF h = i THEN e ELSE t.hashtbl[h]
  BY <1>0, <1>4, <1>6
<1>8. /\ With(e, Q[i]) \in Seq(Entries) /\ IsInjective(With(e, Q[i]))
      /\ Range(With(e, Q[i])) = Range(Q[i]) \cup {e}
  BY <1>1, <1>2, WithProperties
<1>9. R \in [Buckets -> Seq(Entries)]
  BY <1>0, <1>8
<1>10. /\ Range(R[i]) = Range(Q[i]) \cup {e}
       /\ \A h \in Buckets : h # i => Range(R[h]) = Range(Q[h])
  BY <1>0, <1>7, <1>8
<1> HIDE DEF R, i, head
<1>11. \A h \in Buckets : Range(Q[h]) \subseteq Entries \ {e}
  <2>1. ASSUME NEW h \in Buckets
        PROVE  Range(Q[h]) \subseteq Entries
    BY <1>0, RangeOfSeq
  <2>2. QED
    BY <1>2, <2>1
<1>12. ASSUME NEW h \in Buckets
       PROVE  /\ IsInjective(R[h]) /\ Linked(R[h], u.hashtbl[h], NextEntry(u), PrevEntry(u))
              /\ \A d \in Range(R[h]) : u.entry[d].used /\ PFhash(u.entry[d].key) = h
  <2>1. \A d \in Range(R[h]) : u.entry[d].used /\ PFhash(u.entry[d].key) = h
    <3>1. \A d \in Range(Q[h]) : t.entry[d].used /\ PFhash(t.entry[d].key) = h
      BY DEF BucketsAre, Buckets
    <3>2. \A d \in Range(Q[h]) : u.entry[d].used /\ PFhash(u.entry[d].key) = h
      BY <1>4, <1>11, <3>1
    <3>3. h = i => u.entry[e].used /\ PFhash(u.entry[e].key) = h
      BY <1>4 DEF i
    <3>4. QED
      BY <1>10, <3>2, <3>3
  <2>2. \A d \in Range(Q[h]) : /\ NextEntry(u)[d] = NextEntry(t)[d]
                               /\ PrevEntry(u)[d] = IF d = head THEN e ELSE PrevEntry(t)[d]
    BY <1>4, <1>11 DEF NextEntry, PrevEntry
  <2>3. CASE h = i
    <3>1. NextEntry(u)[e] = head /\ PrevEntry(u)[e] = NULL
      BY <1>4 DEF NextEntry, PrevEntry
    <3>2. Linked(With(e, Q[i]), e, NextEntry(u), PrevEntry(u))
      BY <1>0, <1>1, <1>2, <2>2, <2>3, <3>1, LinkFirst
    <3>3. QED
      BY <1>7, <1>8, <2>1, <2>3, <3>2
  <2>4. CASE h # i
    <3>1. IsInjective(Q[h]) /\ Linked(Q[h], t.hashtbl[h], NextEntry(t), PrevEntry(t))
      BY BucketFacts
    <3>2. ASSUME NEW a \in 1 .. Len(Q[h])
          PROVE  NextEntry(u)[Q[h][a]] = NextEntry(t)[Q[h][a]] /\ PrevEntry(u)[Q[h][a]] = PrevEntry(t)[Q[h][a]]
      <4>1. Q[h][a] \in Range(Q[h]) /\ PFhash(t.entry[Q[h][a]].key) = h
        BY BucketFacts
      <4>2. Q[h][a] # head
        <5>1. \A d \in Range(Q[i]) : PFhash(t.entry[d].key) = i
          BY <1>0 DEF BucketsAre, Buckets
        <5>2. NULL \notin Range(Q[h])
          BY <1>0, <1>11
        <5>3. QED
          BY <1>3, <2>4, <4>1, <5>1, <5>2
      <4>3. QED
        BY <2>2, <4>1, <4>2
    <3>3. Linked(Q[h], t.hashtbl[h], NextEntry(u), PrevEntry(u))
      BY <3>1, <3>2, LinkedSame
    <3>4. QED
      BY <1>7, <2>1, <2>4, <3>1, <3>3
  <2>5. QED
    BY <2>3, <2>4
<1>13. ASSUME NEW d \in Entered(u)
       PROVE  u.entry[d].key \in Keys /\ d \in Range(R[PFhash(u.entry[d].key)])
  <2>1. CASE d = e
    <3>1. u.entry[d].key = k /\ PFhash(u.entry[d].key) = i
      BY <1>4, <2>1 DEF i
    <3>2. e \in Range(R[i])
      BY <1>10
    <3>3. QED
      BY <2>1, <3>1, <3>2
  <2>2. CASE d # e
    <3>1. d \in Entered(t) /\ d \in Entries /\ u.entry[d].key = t.entry[d].key
      BY <1>4, <1>5, <2>2 DEF Entered
    <3>2. t.entry[d].key \in Keys /\ d \in Range(Q[PFhash(t.entry[d].key)])
      BY <3>1 DEF BucketsAre
    <3>3. PFhash(t.entry[d].key) \in Buckets
      BY <3>2, HashInRange
    <3>4. QED
      BY <1>10, <3>1, <3>2, <3>3
  <2>3. QED
    BY <2>1, <2>2
<1>14. \A d \in Entries \ Entered(u) : u.entry[d] = FreeEntry
  <2>1. ASSUME NEW d \in Entries \ Entered(u)
        PROVE  u.entry[d] = FreeEntry
    <3>1. d \notin Entered(t) /\ d # e
      BY <1>5
    <3>2. d # head
      <4>1. \A x \in Range(Q[i]) : x \in Entries /\ t.entry[x].used
        BY <1>0, <1>11 DEF BucketsAre, Buckets
      <4>2. QED
        BY <1>0, <1>3, <3>1, <4>1 DEF Entered
    <3>3. t.entry[d] = FreeEntry
      BY <3>1 DEF BucketsAre
    <3>4. QED
      BY <1>4, <3>1, <3>2, <3>3
  <2>2. QED
    BY <2>1
<1>15. BucketsAre(u, R)
  BY <1>9, <1>12, <1>13, <1>14 DEF BucketsAre, Buckets
<1>16. QED
  BY <1>4, <1>5, <1>15 DEF Entered

\* The tables without entry e for page k.
Deleted(t, k, e) ==
  LET next == t.entry[e].nextentry
      prev == t.entry[e].preventry
  IN  [t EXCEPT
         !.hashtbl[PFhash(k)] = IF @ = e THEN next ELSE @,
         !.entry = [SetPreventry(SetNextentry(@, prev, next), next, prev) EXCEPT ![e] = FreeEntry]]

LEMMA DeleteWrites ==
  ASSUME NEW t, Typed(t), NEW k \in Keys, NEW e \in Entries,
         NEW i, i = PFhash(k), NEW next, NEW prev,
         next = t.entry[e].nextentry, prev = t.entry[e].preventry,
         NEW u, u = Deleted(t, k, e)
  PROVE  /\ Typed(u) /\ SameList(t, u)
         /\ u.hashtbl = [t.hashtbl EXCEPT ![i] = IF t.hashtbl[i] = e THEN next ELSE t.hashtbl[i]]
         /\ u.entry[e] = FreeEntry
         /\ \A d \in Entries \ {e} :
              /\ u.entry[d].nextentry = IF d = prev THEN next ELSE t.entry[d].nextentry
              /\ u.entry[d].preventry = IF d = next THEN prev ELSE t.entry[d].preventry
              /\ u.entry[d].key = t.entry[d].key /\ u.entry[d].bpage = t.entry[d].bpage
              /\ u.entry[d].used = t.entry[d].used
         /\ \A d \in Entries \ {e, next, prev} : u.entry[d] = t.entry[d]
<1> DEFINE entry == t.entry
           en1 == SetNextentry(entry, prev, next)
           en2 == SetPreventry(en1, next, prev)
           en == [en2 EXCEPT ![e] = FreeEntry]
           ht == [t.hashtbl EXCEPT ![i] = IF t.hashtbl[i] = e THEN next ELSE t.hashtbl[i]]
<1>1. /\ entry \in [Entries -> EntryRec] /\ t.hashtbl \in [Buckets -> PEntry] /\ i \in Buckets
      /\ DOMAIN t = {"firstbpage", "lastbpage", "numbpage", "frame", "hashtbl", "entry"}
  BY HashInRange DEF Typed, Buckets
<1>2. next \in PEntry /\ prev \in PEntry /\ NULL \in PEntry /\ NULL \in PFrame
  BY <1>1 DEF PEntry, PFrame, EntryRec
<1>3. FreeEntry \in EntryRec
  BY <1>2 DEF EntryRec, FreeEntry
<1>4. u = [t EXCEPT !.hashtbl = ht, !.entry = en]
  BY <1>1 DEF Deleted
<1> HIDE DEF entry
<1>5. /\ en1 \in [Entries -> EntryRec]
      /\ \A d \in Entries : d # prev => en1[d] = entry[d]
      /\ \A d \in Entries : /\ en1[d].nextentry = IF d = prev THEN next ELSE entry[d].nextentry
                            /\ en1[d].preventry = entry[d].preventry
                            /\ en1[d].key = entry[d].key /\ en1[d].bpage = entry[d].bpage
                            /\ en1[d].used = entry[d].used
  BY <1>1, <1>2, SetEntry
<1> HIDE DEF en1
<1>6. /\ en2 \in [Entries -> EntryRec]
      /\ \A d \in Entries : d # next => en2[d] = en1[d]
      /\ \A d \in Entries : /\ en2[d].preventry = IF d = next THEN prev ELSE en1[d].preventry
                            /\ en2[d].nextentry = en1[d].nextentry
                            /\ en2[d].key = en1[d].key /\ en2[d].bpage = en1[d].bpage
                            /\ en2[d].used = en1[d].used
  BY <1>2, <1>5, SetEntry
<1> HIDE DEF en2
<1>7. /\ en \in [Entries -> EntryRec] /\ en[e] = FreeEntry
      /\ \A d \in Entries \ {e} : en[d] = en2[d]
  BY <1>3, <1>6
<1>8. ht \in [Buckets -> PEntry]
  BY <1>1, <1>2
<1> HIDE DEF en, ht
<1>9. Typed(u) /\ u.entry = en /\ u.hashtbl = ht /\ SameList(t, u)
  BY <1>1, <1>4, <1>7, <1>8 DEF Typed, SameList, Buckets
<1>10. QED
  BY <1>5, <1>6, <1>7, <1>9 DEF entry, ht

LEMMA DeleteIs ==
  ASSUME NEW t, Typed(t), NEW Q, BucketsAre(t, Q), NEW e \in Entered(t),
         NEW k, k = t.entry[e].key, NEW u, u = Deleted(t, k, e)
  PROVE  /\ Typed(u) /\ SameList(t, u) /\ \E R : BucketsAre(u, R)
         /\ Entered(u) = Entered(t) \ {e}
         /\ \A d \in Entered(u) : u.entry[d].key = t.entry[d].key /\ u.entry[d].bpage = t.entry[d].bpage
<1> DEFINE i == PFhash(k)
           next == t.entry[e].nextentry
           prev == t.entry[e].preventry
<1>0. /\ k \in Keys /\ i \in Buckets /\ NULL \notin Entries /\ e \in Entries
      /\ Q \in [Buckets -> Seq(Entries)]
  BY HashInRange, ChainsAssumption DEF BucketsAre, Buckets, Entered
<1>1. /\ Q[i] \in Seq(Entries) /\ IsInjective(Q[i])
      /\ Linked(Q[i], t.hashtbl[i], NextEntry(t), PrevEntry(t))
  BY <1>0, BucketFacts
<1>2. PICK j \in 1 .. Len(Q[i]) : Q[i][j] = e
  BY BucketFacts
<1> DEFINE R == [Q EXCEPT ![i] = Without(Q[i], j)]
<1>3. /\ next = NextEntry(t)[Q[i][j]] /\ prev = PrevEntry(t)[Q[i][j]]
      /\ next \in Range(Q[i]) \cup {NULL} /\ prev \in Range(Q[i]) \cup {NULL}
  <2>1. next = NextEntry(t)[Q[i][j]] /\ prev = PrevEntry(t)[Q[i][j]]
    BY <1>0, <1>2 DEF NextEntry, PrevEntry
  <2>2. /\ NextEntry(t)[Q[i][j]] \in Range(Q[i]) \cup {NULL}
        /\ PrevEntry(t)[Q[i][j]] \in Range(Q[i]) \cup {NULL}
    BY <1>0, <1>1, LinkedFacts
  <2>3. QED
    BY <2>1, <2>2
<1>4. /\ Typed(u) /\ SameList(t, u)
      /\ u.hashtbl = [t.hashtbl EXCEPT ![i] = IF t.hashtbl[i] = e THEN next ELSE t.hashtbl[i]]
      /\ u.entry[e] = FreeEntry
      /\ \A d \in Entries \ {e} :
           /\ u.entry[d].nextentry = IF d = prev THEN next ELSE t.entry[d].nextentry
           /\ u.entry[d].preventry = IF d = next THEN prev ELSE t.entry[d].preventry
           /\ u.entry[d].key = t.entry[d].key /\ u.entry[d].bpage = t.entry[d].bpage
           /\ u.entry[d].used = t.entry[d].used
      /\ \A d \in Entries \ {e, next, prev} : u.entry[d] = t.entry[d]
  BY <1>0, DeleteWrites
<1>5. Entered(u) = Entered(t) \ {e}
  <2>1. ~ u.entry[e].used
    BY <1>4 DEF FreeEntry
  <2>2. \A d \in Entries \ {e} : u.entry[d].used = t.entry[d].used
    BY <1>4
  <2>3. QED
    BY <2>1, <2>2 DEF Entered
<1>6. t.hashtbl \in [Buckets -> PEntry]
  BY DEF Typed, Buckets
<1>7. /\ \A h \in Buckets : h # i => R[h] = Q[h] /\ u.hashtbl[h] = t.hashtbl[h]
      /\ R[i] = Without(Q[i], j)
      /\ u.hashtbl[i] = IF t.hashtbl[i] = e THEN next ELSE t.hashtbl[i]
  BY <1>0, <1>4, <1>6
<1>8. /\ Without(Q[i], j) \in Seq(Entries) /\ IsInjective(Without(Q[i], j))
      /\ Range(Without(Q[i], j)) = Range(Q[i]) \ {e}
  BY <1>1, <1>2, WithoutProperties
<1>9. R \in [Buckets -> Seq(Entries)]
  BY <1>0, <1>8
<1>10. /\ Range(R[i]) = Range(Q[i]) \ {e}
       /\ \A h \in Buckets : h # i => Range(R[h]) = Range(Q[h])
  BY <1>0, <1>7, <1>8
<1> HIDE DEF R, i, next, prev
<1>11. /\ \A h \in Buckets : \A d \in Range(Q[h]) :
            d \in Entries /\ d # NULL /\ t.entry[d].used /\ PFhash(t.entry[d].key) = h
       /\ PFhash(t.entry[e].key) = i
  <2>1. ASSUME NEW h \in Buckets
        PROVE  Range(Q[h]) \subseteq Entries
    BY <1>0, RangeOfSeq
  <2>2. \A h \in Buckets : \A d \in Range(Q[h]) : t.entry[d].used /\ PFhash(t.entry[d].key) = h
    BY DEF BucketsAre, Buckets
  <2>3. QED
    BY <1>0, <2>1, <2>2 DEF i
<1>12. ASSUME NEW h \in Buckets
       PROVE  /\ IsInjective(R[h]) /\ Linked(R[h], u.hashtbl[h], NextEntry(u), PrevEntry(u))
              /\ \A d \in Range(R[h]) : u.entry[d].used /\ PFhash(u.entry[d].key) = h
  <2>0. \A d \in Range(R[h]) : d \in Range(Q[h]) /\ d # e
    BY <1>10, <1>11
  <2>1. \A d \in Range(R[h]) : u.entry[d].used /\ PFhash(u.entry[d].key) = h
    BY <1>4, <1>11, <2>0
  <2>2. \A d \in Range(Q[h]) \ {e} :
          /\ NextEntry(u)[d] = IF d = prev THEN next ELSE NextEntry(t)[d]
          /\ PrevEntry(u)[d] = IF d = next THEN prev ELSE PrevEntry(t)[d]
    BY <1>4, <1>11 DEF NextEntry, PrevEntry
  <2>3. CASE h = i
    <3>1. \A d \in Range(Q[i]) \ {Q[i][j]} :
            /\ NextEntry(u)[d] = IF d = PrevEntry(t)[Q[i][j]] THEN NextEntry(t)[Q[i][j]] ELSE NextEntry(t)[d]
            /\ PrevEntry(u)[d] = IF d = NextEntry(t)[Q[i][j]] THEN PrevEntry(t)[Q[i][j]] ELSE PrevEntry(t)[d]
      BY <1>2, <1>3, <2>2, <2>3
    <3>2. Linked(Without(Q[i], j), IF t.hashtbl[i] = Q[i][j] THEN NextEntry(t)[Q[i][j]] ELSE t.hashtbl[i],
                 NextEntry(u), PrevEntry(u))
      BY <1>1, <3>1, LinkOut, ChainsAssumption
    <3>3. Linked(R[i], u.hashtbl[i], NextEntry(u), PrevEntry(u))
      BY <1>2, <1>3, <1>7, <3>2
    <3>4. QED
      BY <1>7, <1>8, <2>1, <2>3, <3>3
  <2>4. CASE h # i
    <3>1. IsInjective(Q[h]) /\ Linked(Q[h], t.hashtbl[h], NextEntry(t), PrevEntry(t))
      BY BucketFacts
    <3>2. ASSUME NEW a \in 1 .. Len(Q[h])
          PROVE  NextEntry(u)[Q[h][a]] = NextEntry(t)[Q[h][a]] /\ PrevEntry(u)[Q[h][a]] = PrevEntry(t)[Q[h][a]]
      <4>1. Q[h][a] \in Range(Q[h]) /\ PFhash(t.entry[Q[h][a]].key) = h
        BY BucketFacts
      <4>2. Q[h][a] # e /\ Q[h][a] # prev /\ Q[h][a] # next
        BY <1>0, <1>3, <1>11, <2>4, <4>1
      <4>3. QED
        BY <2>2, <4>1, <4>2
    <3>3. Linked(Q[h], t.hashtbl[h], NextEntry(u), PrevEntry(u))
      BY <3>1, <3>2, LinkedSame
    <3>4. QED
      BY <1>7, <2>1, <2>4, <3>1, <3>3
  <2>5. QED
    BY <2>3, <2>4
<1>13. ASSUME NEW d \in Entered(u)
       PROVE  u.entry[d].key \in Keys /\ d \in Range(R[PFhash(u.entry[d].key)])
  <2>1. d \in Entered(t) /\ d \in Entries /\ d # e /\ u.entry[d].key = t.entry[d].key
    BY <1>4, <1>5 DEF Entered
  <2>2. t.entry[d].key \in Keys /\ d \in Range(Q[PFhash(t.entry[d].key)])
    BY <2>1 DEF BucketsAre
  <2>3. PFhash(t.entry[d].key) \in Buckets
    BY <2>2, HashInRange
  <2>4. QED
    BY <1>10, <2>1, <2>2, <2>3
<1>14. \A d \in Entries \ Entered(u) : u.entry[d] = FreeEntry
  <2>1. ASSUME NEW d \in Entries \ Entered(u), d # e
        PROVE  u.entry[d] = FreeEntry
    <3>1. d \notin Entered(t)
      BY <1>5, <2>1
    <3>2. d # next /\ d # prev
      <4>1. \A x \in Range(Q[i]) : x \in Entered(t)
        BY <1>0, <1>11 DEF Entered
      <4>2. QED
        BY <1>0, <1>3, <3>1, <4>1
    <3>3. t.entry[d] = FreeEntry
      BY <3>1 DEF BucketsAre
    <3>4. QED
      BY <1>4, <2>1, <3>2, <3>3
  <2>2. QED
    BY <1>4, <2>1
<1>15. BucketsAre(u, R)
  BY <1>9, <1>12, <1>13, <1>14 DEF BucketsAre, Buckets
<1>16. QED
  BY <1>4, <1>5, <1>15 DEF Entered

\* What PFhashFind answers.
LEMMA FindIs ==
  ASSUME NEW t, NEW x, Typed(t), HashHalf(t, x), NEW k \in Keys
  PROVE  /\ \A f \in Used(t) \ {x} : t.frame[f].key = k => PFhashFind(t, k) = f
         /\ PFhashFind(t, k) \in (Used(t) \ {x}) \cup {NULL}
         /\ PFhashFind(t, k) # NULL => t.frame[PFhashFind(t, k)].key = k
         /\ PFhashFind(t, k) = NULL <=> EntryOf(t, k) = NULL
         /\ EntryOf(t, k) # NULL => EntryOf(t, k) \in Entered(t) /\ t.entry[EntryOf(t, k)].key = k
         /\ \A e \in Entered(t) : t.entry[e].key = k => EntryOf(t, k) = e
<1>0. NULL \notin Frames /\ NULL \notin Entries /\ Used(t) \subseteq Frames /\ Entered(t) \subseteq Entries
  BY ChainsAssumption DEF Used, Entered
<1>1. PICK Q : BucketsAre(t, Q)
  BY DEF HashHalf
<1>2. /\ \A e \in Entered(t) : /\ t.entry[e].bpage \in Used(t) \ {x}
                              /\ t.frame[t.entry[e].bpage].key = t.entry[e].key
      /\ \A f \in Used(t) \ {x} : \E e \in Entered(t) : t.entry[e].bpage = f
      /\ \A d, e \in Entered(t) : t.entry[d].key = t.entry[e].key => d = e
  BY DEF HashHalf, Match
<1>3. /\ \A e \in Entered(t) : t.entry[e].key = k => EntryOf(t, k) = e
      /\ (\A e \in Entered(t) : t.entry[e].key # k) => EntryOf(t, k) = NULL
  BY <1>1, <1>2, EntryOfIs
<1>4. PFhashFind(t, k) = IF EntryOf(t, k) = NULL THEN NULL ELSE t.entry[EntryOf(t, k)].bpage
  BY DEF PFhashFind
<1>5. CASE \E e \in Entered(t) : t.entry[e].key = k
  <2>1. PICK e \in Entered(t) : t.entry[e].key = k
    BY <1>5
  <2>2. EntryOf(t, k) = e /\ e # NULL /\ t.entry[e].bpage # NULL
    BY <1>0, <1>2, <1>3, <2>1
  <2>3. \A f \in Used(t) \ {x} : t.frame[f].key = k => t.entry[e].bpage = f
    BY <1>2, <2>1
  <2>4. QED
    BY <1>2, <1>3, <1>4, <2>1, <2>2, <2>3
<1>6. CASE ~ \E e \in Entered(t) : t.entry[e].key = k
  <2>1. EntryOf(t, k) = NULL /\ PFhashFind(t, k) = NULL
    BY <1>3, <1>4, <1>6
  <2>2. \A f \in Used(t) \ {x} : t.frame[f].key # k
    BY <1>2, <1>6
  <2>3. QED
    BY <1>6, <2>1, <2>2
<1>7. QED
  BY <1>5, <1>6

-----------------------------------------------------------------------------
(* The pieces of the calls. *)

\* Of all frames at most b holds another page, or is used where it was not.
SameButFor(t, u, b) ==
  \A f \in Frames \ {b} : u.frame[f].key = t.frame[f].key /\ u.frame[f].used = t.frame[f].used

\* The hash entry of a page that is buffered goes.
LEMMA DropIs ==
  ASSUME NEW t, NEW L, Sound(t, NULL, L), NEW b \in Used(t),
         NEW u, u = PFhashDelete(t, t.frame[b].key)
  PROVE  Sound(u, b, L) /\ u.frame = t.frame /\ t.frame[b].key \in Keys
<1> DEFINE k == t.frame[b].key
<1>1. PICK Q : BucketsAre(t, Q)
  BY DEF Sound, HashHalf
<1>2. /\ \A d \in Entered(t) : /\ t.entry[d].bpage \in Used(t)
                               /\ t.frame[t.entry[d].bpage].key = t.entry[d].key
      /\ \A f \in Used(t) : \E d \in Entered(t) : t.entry[d].bpage = f
      /\ \A d, x \in Entered(t) : t.entry[d].key = t.entry[x].key => d = x
  BY ChainsAssumption DEF Sound, HashHalf, Match, Used
<1>3. PICK e \in Entered(t) : t.entry[e].bpage = b
  BY <1>2
<1>4. t.entry[e].key = k /\ k \in Keys /\ e # NULL
  BY <1>1, <1>2, <1>3, ChainsAssumption DEF BucketsAre, Entered
<1>5. EntryOf(t, k) = e
  BY <1>4, FindIs DEF Sound
<1>6. u = Deleted(t, k, e)
  BY <1>4, <1>5 DEF PFhashDelete, Deleted
<1> HIDE DEF k
<1>7. /\ Typed(u) /\ SameList(t, u) /\ \E R : BucketsAre(u, R)
      /\ Entered(u) = Entered(t) \ {e}
      /\ \A d \in Entered(u) : u.entry[d].key = t.entry[d].key /\ u.entry[d].bpage = t.entry[d].bpage
  BY <1>1, <1>4, <1>6, DeleteIs DEF Sound
<1>8. u.frame = t.frame /\ Used(u) = Used(t)
  BY <1>7 DEF SameList, Used
<1>9. Match(u, b)
  <2>1. ASSUME NEW d \in Entered(u)
        PROVE  /\ u.entry[d].bpage \in Used(u) \ {b}
               /\ u.frame[u.entry[d].bpage].key = u.entry[d].key
    <3>1. d \in Entered(t) /\ d # e
      BY <1>7
    <3>2. t.entry[d].key # k
      BY <1>2, <1>4, <3>1
    <3>3. t.entry[d].bpage # b
      BY <1>2, <3>1, <3>2 DEF k
    <3>4. QED
      BY <1>2, <1>7, <1>8, <3>1, <3>3
  <2>2. ASSUME NEW f \in Used(u) \ {b}
        PROVE  \E d \in Entered(u) : u.entry[d].bpage = f
    <3>1. PICK d \in Entered(t) : t.entry[d].bpage = f
      BY <1>2, <1>8
    <3>2. QED
      BY <1>3, <1>7, <3>1
  <2>3. \A d, x \in Entered(u) : u.entry[d].key = u.entry[x].key => d = x
    BY <1>2, <1>7
  <2>4. QED
    BY <2>1, <2>2, <2>3 DEF Match
<1>10. ListHalf(u, L)
  <2>1. NextPage(u) = NextPage(t) /\ PrevPage(u) = PrevPage(t)
    BY <1>8 DEF NextPage, PrevPage
  <2>2. QED
    BY <1>7, <1>8, <2>1 DEF Sound, ListHalf, ListIs, SameList
<1>11. QED
  BY <1>4, <1>7, <1>8, <1>9, <1>10 DEF Sound, HashHalf, k

\* An entry comes for the frame a call is working on.
LEMMA AddIs ==
  ASSUME NEW t, NEW L, NEW b \in Used(t), Sound(t, b, L), t.frame[b].key \in Keys,
         NEW u \in PFhashInsert(t, t.frame[b].key, b)
  PROVE  Sound(u, NULL, L) /\ u.frame = t.frame /\ EntryOf(t, t.frame[b].key) = NULL
<1> DEFINE k == t.frame[b].key
<1>1. PICK Q : BucketsAre(t, Q)
  BY DEF Sound, HashHalf
<1>2. /\ \A d \in Entered(t) : /\ t.entry[d].bpage \in Used(t) \ {b}
                               /\ t.frame[t.entry[d].bpage].key = t.entry[d].key
      /\ \A f \in Used(t) \ {b} : \E d \in Entered(t) : t.entry[d].bpage = f
      /\ \A d, x \in Entered(t) : t.entry[d].key = t.entry[x].key => d = x
  BY DEF Sound, HashHalf, Match
<1>3. EntryOf(t, k) = NULL /\ \E e \in Entries \ Entered(t) : u = Inserted(t, k, b, e)
  BY DEF PFhashInsert, Inserted, Entered
<1>4. PICK e \in Entries \ Entered(t) : u = Inserted(t, k, b, e)
  BY <1>3
<1>5. \A d \in Entered(t) : t.entry[d].key # k
  <2>1. \A d \in Entered(t) : t.entry[d].key = k => EntryOf(t, k) = d
    BY FindIs DEF Sound
  <2>2. QED
    BY <1>3, <2>1, ChainsAssumption DEF Entered
<1> HIDE DEF k
<1>6. b \in Frames /\ k \in Keys /\ Typed(t)
  BY DEF Used, k, Sound
<1>7. /\ Typed(u) /\ SameList(t, u) /\ \E R : BucketsAre(u, R)
      /\ Entered(u) = Entered(t) \cup {e}
      /\ u.entry[e].key = k /\ u.entry[e].bpage = b
      /\ \A d \in Entered(t) : u.entry[d].key = t.entry[d].key /\ u.entry[d].bpage = t.entry[d].bpage
  BY <1>1, <1>4, <1>6, InsertIs
<1>8. u.frame = t.frame /\ Used(u) = Used(t)
  BY <1>7 DEF SameList, Used
<1>9. Match(u, NULL)
  <2>1. ASSUME NEW d \in Entered(u)
        PROVE  /\ u.entry[d].bpage \in Used(u)
               /\ u.frame[u.entry[d].bpage].key = u.entry[d].key
    BY <1>2, <1>7, <1>8 DEF k
  <2>2. ASSUME NEW f \in Used(u)
        PROVE  \E d \in Entered(u) : u.entry[d].bpage = f
    BY <1>2, <1>7, <1>8
  <2>3. \A d, x \in Entered(u) : u.entry[d].key = u.entry[x].key => d = x
    BY <1>2, <1>5, <1>7
  <2>4. Used(u) \ {NULL} = Used(u)
    BY ChainsAssumption DEF Used
  <2>5. QED
    BY <2>1, <2>2, <2>3, <2>4 DEF Match
<1>10. ListHalf(u, L)
  <2>1. NextPage(u) = NextPage(t) /\ PrevPage(u) = PrevPage(t)
    BY <1>8 DEF NextPage, PrevPage
  <2>2. QED
    BY <1>7, <1>8, <2>1 DEF Sound, ListHalf, ListIs, SameList
<1>11. QED
  BY <1>3, <1>7, <1>8, <1>9, <1>10 DEF Sound, HashHalf, k

\* A frame a call is working on gets another page, or none.
Keyed(t, b, k) == [t EXCEPT !.frame[b].key = k]

LEMMA KeyIs ==
  ASSUME NEW t, NEW L, NEW b \in Used(t), Sound(t, b, L), NEW k, k \in Keys \/ k = NoKey,
         NEW u, u = Keyed(t, b, k)
  PROVE  Sound(u, b, L) /\ SameButFor(t, u, b) /\ u.frame[b].key = k /\ u.frame[b].used
<1>1. /\ t.frame \in [Frames -> FrameRec] /\ b \in Frames
      /\ DOMAIN t = {"firstbpage", "lastbpage", "numbpage", "frame", "hashtbl", "entry"}
  BY DEF Typed, Sound, Used
<1> DEFINE fr == [t.frame EXCEPT ![b].key = k]
<1>2. u = [t EXCEPT !.frame = fr]
  BY <1>1 DEF Keyed
<1>3. fr \in [Frames -> FrameRec]
  BY <1>1 DEF FrameRec
<1>4. \A f \in Frames : /\ fr[f].nextpage = t.frame[f].nextpage
                        /\ fr[f].prevpage = t.frame[f].prevpage
                        /\ fr[f].used = t.frame[f].used
                        /\ f # b => fr[f] = t.frame[f]
  BY <1>1 DEF FrameRec
<1>5. fr[b].key = k
  BY <1>1 DEF FrameRec
<1> HIDE DEF fr
<1>6. /\ Typed(u) /\ u.frame = fr
      /\ u.hashtbl = t.hashtbl /\ u.entry = t.entry /\ u.numbpage = t.numbpage
      /\ u.firstbpage = t.firstbpage /\ u.lastbpage = t.lastbpage
  BY <1>1, <1>2, <1>3 DEF Typed, Sound
<1>7. Used(u) = Used(t) /\ NextPage(u) = NextPage(t) /\ PrevPage(u) = PrevPage(t)
  BY <1>4, <1>6 DEF Used, NextPage, PrevPage
<1>8. ListHalf(u, L)
  <2>1. \A f \in Frames \ Used(u) : u.frame[f] = FreeFrame
    BY <1>4, <1>6, <1>7 DEF Sound, ListHalf
  <2>2. QED
    BY <1>6, <1>7, <2>1 DEF Sound, ListHalf, ListIs
<1>9. HashHalf(u, b)
  <2>1. \A f \in Used(t) \ {b} : u.frame[f].key = t.frame[f].key
    BY <1>4, <1>6 DEF Used
  <2>2. Used(u) \ {b} = Used(t) \ {b} /\ HashHalf(t, b)
    BY <1>7 DEF Sound
  <2>3. QED
    BY <1>6, <2>1, <2>2, HashHalfKept
<1>10. QED
  BY <1>1, <1>4, <1>5, <1>6, <1>8, <1>9 DEF Sound, SameButFor, Used

\* A frame is freed that no entry is for.
LEMMA FreedIs ==
  ASSUME NEW t, NEW L, NEW j \in 1 .. Len(L), NEW b, b = L[j], Sound(t, b, L),
         NEW u, u = Freed(t, b)
  PROVE  Sound(u, NULL, Without(L, j)) /\ SameButFor(t, u, b) /\ Used(u) = Used(t) \ {b}
<1> DEFINE v == PFbufUnlink(t, b)
           M == Without(L, j)
<1>1. /\ L \in Seq(Frames) /\ IsInjective(L) /\ Len(L) \in Nat /\ DOMAIN L = 1 .. Len(L)
      /\ ListIs(t, L) /\ Range(L) = Used(t) /\ t.numbpage = Len(L) /\ Typed(t) /\ HashHalf(t, b)
      /\ \A f \in Frames \ Used(t) : t.frame[f] = FreeFrame
  BY LenProperties DEF Sound, ListHalf, ListIs
<1>2. Typed(v) /\ ListIs(v, M) /\ Elsewhere(t, v, Range(L))
  BY <1>1, UnlinkIs
<1>3. /\ M \in Seq(Frames) /\ Len(M) = Len(L) - 1 /\ Range(M) = Range(L) \ {b}
  <2>1. L \in Seq(Frames) /\ IsInjective(L)
    BY <1>1
  <2>2. QED
    BY <2>1, WithoutProperties
<1>4. b \in Frames /\ b \in Used(t) /\ Used(t) \subseteq Frames
  BY <1>1 DEF Used, Range
<1>5. u = [v EXCEPT !.numbpage = @ - 1, !.frame[b] = FreeFrame]
  BY DEF Freed
<1> HIDE DEF v, M
<1>6. /\ v.frame \in [Frames -> FrameRec]
      /\ v.numbpage = Len(L) /\ v.numbpage \in 0 .. MaxBufs
      /\ DOMAIN v = {"firstbpage", "lastbpage", "numbpage", "frame", "hashtbl", "entry"}
  BY <1>1, <1>2 DEF Typed, Elsewhere
<1> DEFINE fr == [v.frame EXCEPT ![b] = FreeFrame]
<1>7. u = [v EXCEPT !.numbpage = v.numbpage - 1, !.frame = fr]
  BY <1>5, <1>6
<1>8. fr \in [Frames -> FrameRec] /\ fr[b] = FreeFrame /\ \A f \in Frames \ {b} : fr[f] = v.frame[f]
  <2>1. FreeFrame \in FrameRec
    BY DEF FreeFrame, FrameRec, PFrame
  <2>2. QED
    BY <1>4, <1>6, <2>1
<1> HIDE DEF fr
<1>9. v.numbpage - 1 \in 0 .. MaxBufs
  BY <1>1, <1>6, ChainsAssumption
<1>10. /\ Typed(u) /\ u.frame = fr /\ u.numbpage = Len(L) - 1
       /\ u.hashtbl = t.hashtbl /\ u.entry = t.entry
       /\ u.firstbpage = v.firstbpage /\ u.lastbpage = v.lastbpage
  BY <1>2, <1>6, <1>7, <1>8, <1>9 DEF Typed, Elsewhere
<1>11. ~ u.frame[b].used /\ \A f \in Frames \ {b} : /\ u.frame[f].used = t.frame[f].used
                                                   /\ u.frame[f].key = t.frame[f].key
  BY <1>2, <1>8, <1>10 DEF FreeFrame, Elsewhere, SameKeys
<1>12. Used(u) = Used(t) \ {b} /\ SameButFor(t, u, b)
  BY <1>11 DEF Used, SameButFor
<1>13. HashHalf(u, NULL)
  <2>1. \A f \in Used(t) \ {b} : u.frame[f].key = t.frame[f].key
    BY <1>4, <1>11
  <2>2. Used(u) \ {NULL} = Used(t) \ {b}
    BY <1>4, <1>12, ChainsAssumption
  <2>3. QED
    BY <1>1, <1>10, <2>1, <2>2, HashHalfKept
<1>14. ListHalf(u, M)
  <2>1. \A f \in Range(M) : /\ u.frame[f].nextpage = v.frame[f].nextpage
                            /\ u.frame[f].prevpage = v.frame[f].prevpage
    BY <1>1, <1>3, <1>4, <1>8, <1>10
  <2>2. ListIs(u, M)
    BY <1>2, <1>10, <2>1, ListIsKept
  <2>3. ASSUME NEW f \in Frames \ Used(u)
        PROVE  u.frame[f] = FreeFrame
    <3>1. CASE f = b
      BY <1>8, <1>10, <3>1
    <3>2. CASE f # b
      BY <1>1, <1>2, <1>8, <1>10, <1>12, <3>2 DEF Elsewhere
    <3>3. QED
      BY <3>1, <3>2
  <2>4. QED
    BY <1>1, <1>3, <1>10, <1>12, <2>2, <2>3 DEF ListHalf
<1>15. QED
  BY <1>10, <1>12, <1>13, <1>14 DEF Sound, M

\* A frame goes from its place to the head; on the way its page may be forgotten.
LEMMA MoveIs ==
  ASSUME NEW t, NEW L, NEW j \in 1 .. Len(L), NEW b, b = L[j], Typed(t), ListHalf(t, L),
         NEW v, Typed(v), NEW u, u = PFbufLinkHead(v, b),
         NEW o, o = PFbufUnlink(t, b),
         v.firstbpage = o.firstbpage, v.lastbpage = o.lastbpage, v.numbpage = o.numbpage,
         v.hashtbl = o.hashtbl, v.entry = o.entry,
         \A f \in Frames \ {b} : v.frame[f] = o.frame[f],
         v.frame[b].used = o.frame[b].used
  PROVE  /\ Typed(u) /\ ListHalf(u, With(b, Without(L, j)))
         /\ u.hashtbl = t.hashtbl /\ u.entry = t.entry /\ Used(u) = Used(t)
         /\ SameButFor(t, u, b) /\ u.frame[b].key = v.frame[b].key /\ u.frame[b].used
<1> DEFINE M == Without(L, j)
           W == With(b, M)
<1>1. /\ L \in Seq(Frames) /\ IsInjective(L) /\ Len(L) \in Nat /\ DOMAIN L = 1 .. Len(L)
      /\ ListIs(t, L) /\ Range(L) = Used(t) /\ t.numbpage = Len(L)
      /\ \A f \in Frames \ Used(t) : t.frame[f] = FreeFrame
  BY LenProperties DEF ListHalf, ListIs
<1>2. b \in Frames /\ b \in Used(t) /\ b \in Range(L) /\ Used(t) \subseteq Frames
  BY <1>1 DEF Used, Range
<1>3. Typed(o) /\ ListIs(o, M) /\ Elsewhere(t, o, Range(L))
  BY <1>1, UnlinkIs
<1>4. /\ M \in Seq(Frames) /\ IsInjective(M) /\ Len(M) = Len(L) - 1 /\ Range(M) = Range(L) \ {b}
  <2>1. L \in Seq(Frames) /\ IsInjective(L)
    BY <1>1
  <2>2. QED
    BY <2>1, WithoutProperties
<1>5. /\ Len(W) = Len(M) + 1 /\ Range(W) = Range(M) \cup {b}
  BY <1>2, <1>4, WithProperties
<1> HIDE DEF M, W
<1>6. ListIs(v, M)
  <2>1. \A f \in Range(M) : /\ v.frame[f].nextpage = o.frame[f].nextpage
                            /\ v.frame[f].prevpage = o.frame[f].prevpage
    BY <1>1, <1>2, <1>4
  <2>2. QED
    BY <1>3, <2>1, ListIsKept
<1>7. Typed(u) /\ ListIs(u, W) /\ Elsewhere(v, u, Range(M) \cup {b})
  BY <1>2, <1>4, <1>6, LinkHeadIs DEF W
<1>8. u.hashtbl = t.hashtbl /\ u.entry = t.entry /\ u.numbpage = t.numbpage
  BY <1>3, <1>7 DEF Elsewhere
<1>9. \A f \in Frames : /\ u.frame[f].used = t.frame[f].used
                        /\ f # b => u.frame[f].key = t.frame[f].key
  BY <1>3, <1>7 DEF Elsewhere, SameKeys
<1>10. u.frame[b].key = v.frame[b].key
  BY <1>2, <1>7 DEF Elsewhere, SameKeys
<1>11. Used(u) = Used(t)
  BY <1>9 DEF Used
<1>12. \A f \in Frames \ Used(u) : u.frame[f] = FreeFrame
  BY <1>1, <1>2, <1>3, <1>4, <1>7, <1>11 DEF Elsewhere
<1>13. ListHalf(u, W)
  BY <1>1, <1>2, <1>4, <1>5, <1>7, <1>8, <1>11, <1>12 DEF ListHalf
<1>14. QED
  BY <1>2, <1>7, <1>8, <1>9, <1>10, <1>11, <1>13 DEF SameButFor, Used, W, M

\* A frame comes from malloc and goes to the head.
LEMMA NewIs ==
  ASSUME NEW t, NEW L, Sound(t, NULL, L), t.numbpage < MaxBufs, NEW b \in Frames, b \notin Used(t),
         NEW u, u = PFbufLinkHead([t EXCEPT !.frame[b] = [FreeFrame EXCEPT !.used = TRUE],
                                            !.numbpage = @ + 1], b)
  PROVE  /\ Sound(u, b, With(b, L)) /\ SameButFor(t, u, b) /\ u.frame[b].used
         /\ u.frame[b].key = NoKey
<1> DEFINE W == With(b, L)
           new == [FreeFrame EXCEPT !.used = TRUE]
           fr == [t.frame EXCEPT ![b] = new]
           v == [t EXCEPT !.frame[b] = new, !.numbpage = @ + 1]
<1>1. /\ L \in Seq(Frames) /\ IsInjective(L) /\ Len(L) \in Nat /\ DOMAIN L = 1 .. Len(L)
      /\ ListIs(t, L) /\ Range(L) = Used(t) /\ t.numbpage = Len(L) /\ Typed(t) /\ HashHalf(t, NULL)
      /\ \A f \in Frames \ Used(t) : t.frame[f] = FreeFrame
  BY LenProperties DEF Sound, ListHalf, ListIs
<1>2. b \notin Range(L) /\ Used(t) \subseteq Frames
  BY <1>1 DEF Used
<1>3. /\ t.frame \in [Frames -> FrameRec] /\ t.numbpage \in 0 .. MaxBufs
      /\ DOMAIN t = {"firstbpage", "lastbpage", "numbpage", "frame", "hashtbl", "entry"}
  BY <1>1 DEF Typed
<1>4. new \in FrameRec /\ new.used /\ new.key = NoKey
  BY DEF FreeFrame, FrameRec, PFrame
<1>5. v = [t EXCEPT !.frame = fr, !.numbpage = t.numbpage + 1] /\ u = PFbufLinkHead(v, b)
  BY <1>3
<1> HIDE DEF new
<1>6. fr \in [Frames -> FrameRec] /\ fr[b] = new /\ \A f \in Frames \ {b} : fr[f] = t.frame[f]
  BY <1>3, <1>4
<1> HIDE DEF fr, v
<1>7. t.numbpage + 1 \in 0 .. MaxBufs
  BY <1>3, ChainsAssumption
<1>8. /\ Typed(v) /\ v.frame = fr /\ v.numbpage = t.numbpage + 1
      /\ v.hashtbl = t.hashtbl /\ v.entry = t.entry
      /\ v.firstbpage = t.firstbpage /\ v.lastbpage = t.lastbpage
  BY <1>1, <1>3, <1>5, <1>6, <1>7 DEF Typed
<1>9. ListIs(v, L)
  <2>1. \A f \in Range(L) : /\ v.frame[f].nextpage = t.frame[f].nextpage
                            /\ v.frame[f].prevpage = t.frame[f].prevpage
    BY <1>1, <1>2, <1>6, <1>8
  <2>2. QED
    BY <1>1, <1>8, <2>1, ListIsKept
<1>10. Typed(u) /\ ListIs(u, W) /\ Elsewhere(v, u, Range(L) \cup {b})
  BY <1>2, <1>5, <1>8, <1>9, LinkHeadIs
<1>11. Len(W) = Len(L) + 1 /\ Range(W) = Range(L) \cup {b}
  BY <1>1, <1>2, WithProperties
<1> HIDE DEF W
<1>12. /\ u.frame[b].used /\ u.frame[b].key = NoKey
       /\ \A f \in Frames \ {b} : /\ u.frame[f].used = t.frame[f].used
                                  /\ u.frame[f].key = t.frame[f].key
  BY <1>4, <1>6, <1>8, <1>10 DEF Elsewhere, SameKeys
<1>13. Used(u) = Used(t) \cup {b}
  BY <1>12 DEF Used
<1>14. u.hashtbl = t.hashtbl /\ u.entry = t.entry /\ u.numbpage = t.numbpage + 1
  BY <1>8, <1>10 DEF Elsewhere
<1>15. \A f \in Frames \ Used(u) : u.frame[f] = FreeFrame
  BY <1>1, <1>6, <1>8, <1>10, <1>13 DEF Elsewhere
<1>16. ListHalf(u, W)
  BY <1>1, <1>10, <1>11, <1>13, <1>14, <1>15 DEF ListHalf
<1>17. HashHalf(u, b)
  <2>1. \A f \in Used(t) \ {NULL} : u.frame[f].key = t.frame[f].key
    BY <1>2, <1>12
  <2>2. Used(u) \ {b} = Used(t) \ {NULL}
    BY <1>2, <1>13, ChainsAssumption
  <2>3. QED
    BY <1>1, <1>14, <2>1, <2>2, HashHalfKept
<1>18. QED
  BY <1>10, <1>12, <1>16, <1>17 DEF Sound, SameButFor, W

\* A head put on and taken off again.
LEMMA HeadOff ==
  ASSUME NEW S, NEW M \in Seq(S), IsInjective(M), NEW b \in S, b \notin Range(M)
  PROVE  Without(With(b, M), 1) = M
<1> DEFINE n == Len(M)
           w == With(b, M)
           x == Without(w, 1)
<1>1. n \in Nat
  BY LenProperties
<1>2. /\ w \in Seq(S) /\ IsInjective(w) /\ Len(w) = n + 1
      /\ \A i \in 1 .. n + 1 : w[i] = IF i = 1 THEN b ELSE M[i - 1]
  BY WithProperties
<1> HIDE DEF w, n
<1>3. 1 \in 1 .. Len(w)
  BY <1>1, <1>2
<1>4. /\ x \in Seq(S) /\ Len(x) = n
      /\ \A i \in 1 .. n : x[i] = w[i + 1]
  <2>1. /\ x \in Seq(S) /\ Len(x) = Len(w) - 1
        /\ \A i \in 1 .. Len(w) - 1 : x[i] = IF i < 1 THEN w[i] ELSE w[i + 1]
    BY <1>2, <1>3, WithoutProperties
  <2> HIDE DEF x
  <2>2. QED
    BY <1>1, <1>2, <2>1
<1> HIDE DEF x
<1>5. \A i \in 1 .. n : x[i] = M[i]
  <2>1. ASSUME NEW i \in 1 .. n
        PROVE  x[i] = M[i]
    <3>1. i + 1 \in 1 .. n + 1 /\ i + 1 # 1 /\ (i + 1) - 1 = i
      BY <1>1
    <3>2. QED
      BY <1>2, <1>4, <3>1
  <2>2. QED
    BY <2>1
<1>6. Len(x) = Len(M) /\ \A i \in 1 .. Len(M) : x[i] = M[i]
  BY <1>4, <1>5 DEF n
<1>7. x = M
  BY <1>4, <1>6, SeqEqual
<1>8. QED
  BY <1>7 DEF x, w

LEMMA HeadFreedIs ==
  ASSUME NEW t, NEW M \in Seq(Frames), IsInjective(M), NEW b \in Frames, b \notin Range(M),
         Sound(t, b, With(b, M)), NEW u, u = Freed(t, b)
  PROVE  Sound(u, NULL, M) /\ SameButFor(t, u, b) /\ Used(u) = Used(t) \ {b}
<1> DEFINE W == With(b, M)
<1>1. /\ Len(W) = Len(M) + 1 /\ Len(M) \in Nat
      /\ \A i \in 1 .. Len(M) + 1 : W[i] = IF i = 1 THEN b ELSE M[i - 1]
  BY WithProperties, LenProperties
<1>2. Without(W, 1) = M
  BY HeadOff
<1>3. Sound(t, b, W)
  OBVIOUS
<1> HIDE DEF W
<1>4. 1 \in 1 .. Len(W) /\ b = W[1]
  BY <1>1
<1>5. ASSUME NEW L, L = W, NEW j, j = 1
      PROVE  Sound(u, NULL, Without(L, j)) /\ SameButFor(t, u, b) /\ Used(u) = Used(t) \ {b}
  <2>1. j \in 1 .. Len(L) /\ b = L[j] /\ Sound(t, b, L)
    BY <1>3, <1>4, <1>5
  <2>2. QED
    BY <2>1, FreedIs
<1>6. Sound(u, NULL, Without(W, 1)) /\ SameButFor(t, u, b) /\ Used(u) = Used(t) \ {b}
  BY <1>5
<1>7. QED
  BY <1>2, <1>6

\* PFbufInternalAlloc: a new frame, or one taken from where it is in the list.
NewFrame(t, L, b, M) == b \notin Used(t) /\ M = L
Victim(t, L, b, M) ==
  t.frame[b].key \in Keys /\ \E j \in 1 .. Len(L) : b = L[j] /\ M = Without(L, j)

LEMMA TakenIs ==
  ASSUME NEW t, NEW L, Sound(t, NULL, L), NEW taken \in Taken(t), NEW b, b = taken.b,
         NEW u, u = taken.s
  PROVE  /\ b \in Frames /\ u.frame[b].used /\ SameButFor(t, u, b)
         /\ \E M : /\ Sound(u, b, With(b, M)) /\ M \in Seq(Frames) /\ IsInjective(M)
                   /\ b \notin Range(M) /\ (NewFrame(t, L, b, M) \/ Victim(t, L, b, M))
<1>1. /\ L \in Seq(Frames) /\ IsInjective(L) /\ DOMAIN L = 1 .. Len(L) /\ Range(L) = Used(t)
  BY LenProperties DEF Sound, ListHalf, ListIs
<1>2. CASE t.numbpage < MaxBufs
  <2>1. PICK c \in {f \in Frames : ~ t.frame[f].used} :
          taken = [b |-> c, s |-> PFbufLinkHead([t EXCEPT !.frame[c] = [FreeFrame EXCEPT !.used = TRUE],
                                                          !.numbpage = @ + 1], c)]
    BY <1>2 DEF Taken
  <2>2. /\ b \in Frames /\ b \notin Used(t)
        /\ u = PFbufLinkHead([t EXCEPT !.frame[b] = [FreeFrame EXCEPT !.used = TRUE],
                                       !.numbpage = @ + 1], b)
    BY <2>1 DEF Used
  <2>3. Sound(u, b, With(b, L)) /\ SameButFor(t, u, b) /\ u.frame[b].used
    BY <1>2, <2>2, NewIs
  <2>4. QED
    BY <1>1, <2>2, <2>3 DEF NewFrame
<1>3. CASE ~ (t.numbpage < MaxBufs)
  <2> DEFINE v == PFhashDelete(t, t.frame[b].key)
             o == PFbufUnlink(v, b)
             w == [o EXCEPT !.frame[b].key = NoKey]
  <2>1. PICK c \in {f \in Frames : t.frame[f].used} :
          taken = [b |-> c,
                   s |-> PFbufLinkHead([PFbufUnlink(PFhashDelete(t, t.frame[c].key), c)
                                          EXCEPT !.frame[c].key = NoKey], c)]
    BY <1>3 DEF Taken
  <2>2. b \in Used(t) /\ b \in Frames /\ u = PFbufLinkHead(w, b)
    BY <2>1 DEF Used
  <2>3. PICK j \in 1 .. Len(L) : b = L[j]
    BY <1>1, <2>2 DEF Range
  <2>4. Sound(v, b, L) /\ v.frame = t.frame /\ t.frame[b].key \in Keys
    BY <2>2, DropIs
  <2> HIDE DEF v
  <2>5. Typed(v) /\ ListHalf(v, L) /\ ListIs(v, L) /\ HashHalf(v, b) /\ Used(v) = Used(t)
    BY <2>4 DEF Sound, ListHalf, Used
  <2>6. Typed(o)
    BY <2>3, <2>5, UnlinkIs
  <2> HIDE DEF o
  <2>7. /\ Typed(w)
        /\ w.firstbpage = o.firstbpage /\ w.lastbpage = o.lastbpage /\ w.numbpage = o.numbpage
        /\ w.hashtbl = o.hashtbl /\ w.entry = o.entry
        /\ \A f \in Frames \ {b} : w.frame[f] = o.frame[f]
        /\ w.frame[b].used = o.frame[b].used /\ w.frame[b].key = NoKey
    <3> DEFINE fr == [o.frame EXCEPT ![b].key = NoKey]
    <3>1. /\ o.frame \in [Frames -> FrameRec]
          /\ DOMAIN o = {"firstbpage", "lastbpage", "numbpage", "frame", "hashtbl", "entry"}
      BY <2>6 DEF Typed
    <3>2. w = [o EXCEPT !.frame = fr]
      BY <3>1
    <3>3. /\ fr \in [Frames -> FrameRec] /\ fr[b].key = NoKey /\ fr[b].used = o.frame[b].used
          /\ \A f \in Frames \ {b} : fr[f] = o.frame[f]
      BY <2>2, <3>1 DEF FrameRec
    <3> HIDE DEF fr, w
    <3>4. QED
      BY <2>6, <3>1, <3>2, <3>3 DEF Typed
  <2> HIDE DEF w
  <2>8. /\ Typed(u) /\ ListHalf(u, With(b, Without(L, j)))
        /\ u.hashtbl = v.hashtbl /\ u.entry = v.entry /\ Used(u) = Used(v)
        /\ SameButFor(v, u, b) /\ u.frame[b].used
    BY <2>2, <2>3, <2>5, <2>7, MoveIs DEF o
  <2>9. HashHalf(u, b)
    <3>1. \A f \in Used(v) \ {b} : u.frame[f].key = v.frame[f].key
      BY <2>8 DEF SameButFor, Used
    <3>2. Used(u) \ {b} = Used(v) \ {b}
      BY <2>8
    <3>3. QED
      BY <2>5, <2>8, <3>1, <3>2, HashHalfKept
  <2>10. /\ Without(L, j) \in Seq(Frames) /\ IsInjective(Without(L, j))
         /\ b \notin Range(Without(L, j))
    <3>1. Range(Without(L, j)) = Range(L) \ {L[j]}
      BY <1>1, WithoutProperties
    <3>2. QED
      BY <1>1, <2>3, <3>1, WithoutProperties
  <2>11. SameButFor(t, u, b)
    BY <2>4, <2>8 DEF SameButFor
  <2>12. Sound(u, b, With(b, Without(L, j))) /\ Victim(t, L, b, Without(L, j))
    BY <2>3, <2>4, <2>8, <2>9 DEF Sound, Victim
  <2>13. QED
    BY <2>2, <2>8, <2>10, <2>11, <2>12
<1>4. QED
  BY <1>2, <1>3

\* What a call does that does not find its page: frame b holds it at the head of the
\* list, or there was no memory for the entry and b is freed.
LEMMA ServedIs ==
  ASSUME NEW t, NEW L, Sound(t, NULL, L), NEW k \in Keys, NEW taken \in Taken(t), NEW b, b = taken.b,
         NEW v, v = Keyed(taken.s, b, k),
         NEW u \in PFhashInsert(v, k, b) \cup {Freed(v, b)}
  PROVE  /\ b \in Frames /\ SameButFor(t, u, b)
         /\ \E M : /\ NewFrame(t, L, b, M) \/ Victim(t, L, b, M)
                   /\ \/ Sound(u, NULL, With(b, M)) /\ u.frame[b].used /\ u.frame[b].key = k
                      \/ Sound(u, NULL, M) /\ ~ u.frame[b].used
<1> DEFINE r == taken.s
<1>1. /\ b \in Frames /\ r.frame[b].used /\ SameButFor(t, r, b)
      /\ \E M : /\ Sound(r, b, With(b, M)) /\ M \in Seq(Frames) /\ IsInjective(M)
                /\ b \notin Range(M) /\ (NewFrame(t, L, b, M) \/ Victim(t, L, b, M))
  BY TakenIs
<1>2. PICK M : /\ Sound(r, b, With(b, M)) /\ M \in Seq(Frames) /\ IsInjective(M)
               /\ b \notin Range(M) /\ (NewFrame(t, L, b, M) \/ Victim(t, L, b, M))
  BY <1>1
<1> HIDE DEF r
<1>3. b \in Used(r) /\ v = Keyed(r, b, k)
  BY <1>1 DEF r, Used
<1>4. Sound(v, b, With(b, M)) /\ SameButFor(r, v, b) /\ v.frame[b].key = k /\ v.frame[b].used
  BY <1>2, <1>3, KeyIs
<1>5. b \in Used(v) /\ SameButFor(t, v, b)
  BY <1>1, <1>4 DEF Used, SameButFor
<1>6. CASE u \in PFhashInsert(v, k, b)
  <2>1. Sound(u, NULL, With(b, M)) /\ u.frame = v.frame
    BY <1>4, <1>5, <1>6, AddIs
  <2>2. QED
    BY <1>1, <1>2, <1>4, <1>5, <2>1 DEF SameButFor
<1>7. CASE u = Freed(v, b)
  <2>1. Sound(u, NULL, M) /\ SameButFor(v, u, b) /\ Used(u) = Used(v) \ {b}
    <3>1. M \in Seq(Frames) /\ IsInjective(M) /\ b \in Frames /\ b \notin Range(M)
      BY <1>1, <1>2
    <3>2. Sound(v, b, With(b, M))
      BY <1>4
    <3>3. QED
      BY <1>7, <3>1, <3>2, HeadFreedIs
  <2>2. ~ u.frame[b].used
    BY <1>1, <2>1 DEF Used
  <2>3. QED
    BY <1>1, <1>2, <1>5, <2>1, <2>2 DEF SameButFor
<1>8. QED
  BY <1>6, <1>7

\* What a call does that finds its page in frame b.
LEMMA HitIs ==
  ASSUME NEW t, NEW L, Sound(t, NULL, L), NEW b \in Used(t), NEW u, u = Hit(t, b)
  PROVE  /\ \A f \in Frames : u.frame[f].key = t.frame[f].key /\ u.frame[f].used = t.frame[f].used
         /\ \E j \in 1 .. Len(L) : b = L[j] /\ Sound(u, NULL, With(b, Without(L, j)))
<1>1. /\ L \in Seq(Frames) /\ IsInjective(L) /\ DOMAIN L = 1 .. Len(L) /\ Range(L) = Used(t)
      /\ ListHalf(t, L) /\ ListIs(t, L) /\ Typed(t) /\ HashHalf(t, NULL)
      /\ Linked(L, t.firstbpage, NextPage(t), PrevPage(t))
  BY LenProperties DEF Sound, ListHalf, ListIs
<1>2. PICK j \in 1 .. Len(L) : b = L[j]
  BY <1>1 DEF Range
<1>3. CASE t.firstbpage = b
  <2>1. j = 1 /\ L # <<>>
    BY <1>1, <1>2, <1>3, LinkedFacts, ChainsAssumption
  <2>2. With(b, Without(L, j)) = L
    BY <1>1, <1>2, <2>1, HeadBack
  <2>3. u = t
    BY <1>3 DEF Hit
  <2>4. QED
    BY <1>2, <2>2, <2>3
<1>4. CASE t.firstbpage # b
  <2> DEFINE o == PFbufUnlink(t, b)
  <2>1. u = PFbufLinkHead(o, b)
    BY <1>4 DEF Hit
  <2>2. Typed(o) /\ Elsewhere(t, o, Range(L))
    BY <1>1, <1>2, UnlinkIs
  <2> HIDE DEF o
  <2>3. /\ Typed(u) /\ ListHalf(u, With(b, Without(L, j)))
        /\ u.hashtbl = t.hashtbl /\ u.entry = t.entry /\ Used(u) = Used(t)
        /\ SameButFor(t, u, b) /\ u.frame[b].key = o.frame[b].key /\ u.frame[b].used
    BY <1>1, <1>2, <2>1, <2>2, MoveIs DEF o
  <2>4. \A f \in Frames : u.frame[f].key = t.frame[f].key /\ u.frame[f].used = t.frame[f].used
    BY <2>2, <2>3 DEF SameButFor, Elsewhere, SameKeys, Used
  <2>5. HashHalf(u, NULL)
    <3>1. \A f \in Used(t) \ {NULL} : u.frame[f].key = t.frame[f].key
      BY <2>4 DEF Used
    <3>2. Used(u) \ {NULL} = Used(t) \ {NULL}
      BY <2>3
    <3>3. QED
      BY <1>1, <2>3, <3>1, <3>2, HashHalfKept
  <2>6. QED
    BY <1>2, <2>3, <2>4, <2>5 DEF Sound
<1>5. QED
  BY <1>3, <1>4

\* A frame that is released.
LEMMA LostIs ==
  ASSUME NEW t, NEW L, Sound(t, NULL, L), NEW j \in 1 .. Len(L), NEW b, b = L[j],
         NEW u, u = Freed(PFhashDelete(t, t.frame[b].key), b)
  PROVE  /\ Sound(u, NULL, Without(L, j)) /\ SameButFor(t, u, b) /\ Used(u) = Used(t) \ {b}
         /\ b \in Used(t) /\ t.frame[b].key \in Keys
<1>1. b \in Used(t)
  BY LenProperties DEF Sound, ListHalf, ListIs, Range
<1> DEFINE v == PFhashDelete(t, t.frame[b].key)
<1>2. Sound(v, b, L) /\ v.frame = t.frame /\ t.frame[b].key \in Keys
  BY <1>1, DropIs
<1> HIDE DEF v
<1>3. u = Freed(v, b)
  BY DEF v
<1>4. Sound(u, NULL, Without(L, j)) /\ SameButFor(v, u, b) /\ Used(u) = Used(v) \ {b}
  BY <1>2, <1>3, FreedIs
<1>5. Used(v) = Used(t)
  BY <1>2 DEF Used
<1>6. QED
  BY <1>1, <1>2, <1>4, <1>5 DEF SameButFor

-----------------------------------------------------------------------------
(* The invariant. *)

\* PFbufReleaseFile stands on a frame of the list L, or has come to its end, and has
\* no frame of its file behind it.
WalkOn(L) ==
  /\ walk \in [fd : Fds, b : PFrame]
  /\ \E j \in 1 .. Len(L) + 1 :
       /\ walk.b = IF j = Len(L) + 1 THEN NULL ELSE L[j]
       /\ \A i \in 1 .. j - 1 : s.frame[L[i]].key[1] # walk.fd

ChainsInv == \E L : Sound(s, NULL, L) /\ (Idle \/ WalkOn(L))

LEMMA ChainsInvInit == Init => ChainsInv
<1> SUFFICES ASSUME Init
             PROVE  ChainsInv
  OBVIOUS
<1> DEFINE Q == [i \in 0 .. HashSize - 1 |-> <<>>]
           L == <<>>
<1>0. MaxBufs \in Nat \ {0} /\ HashSize \in Nat \ {0} /\ NULL \notin Frames /\ NULL \notin Entries
  BY ChainsAssumption
<1>1. /\ s.firstbpage = NULL /\ s.lastbpage = NULL /\ s.numbpage = 0
      /\ s.frame = [f \in Frames |-> FreeFrame]
      /\ s.hashtbl = [i \in 0 .. HashSize - 1 |-> NULL]
      /\ s.entry = [e \in Entries |-> FreeEntry]
      /\ Idle
  BY DEF Init, Idle
<1>2. /\ L \in Seq(Frames) /\ IsInjective(L) /\ Len(L) = 0 /\ Range(L) = {}
      /\ L \in Seq(Entries)
  BY DEF IsInjective, Range
<1>3. Typed(s)
  <2>1. FreeFrame \in FrameRec /\ FreeEntry \in EntryRec
    BY DEF FreeFrame, FreeEntry, FrameRec, EntryRec, PFrame, PEntry
  <2>2. NULL \in PFrame /\ NULL \in PEntry /\ 0 \in 0 .. MaxBufs
    BY <1>0 DEF PFrame, PEntry
  <2>3. QED
    BY <2>1, <2>2 DEF Init, Typed
<1>4. Used(s) = {} /\ Entered(s) = {}
  BY <1>1 DEF Used, Entered, FreeFrame, FreeEntry
<1>5. \A head, nx, pv : head = NULL => Linked(L, head, nx, pv)
  BY <1>2 DEF Linked, Follows
<1>6. ListHalf(s, L)
  <2>1. \A f \in Frames : s.frame[f] = FreeFrame
    BY <1>1
  <2>2. QED
    BY <1>1, <1>2, <1>4, <1>5, <2>1 DEF ListHalf, ListIs
<1>7. BucketsAre(s, Q)
  <2>1. Q \in [0 .. HashSize - 1 -> Seq(Entries)]
    OBVIOUS
  <2>2. ASSUME NEW i \in 0 .. HashSize - 1
        PROVE  /\ IsInjective(Q[i]) /\ Linked(Q[i], s.hashtbl[i], NextEntry(s), PrevEntry(s))
               /\ \A e \in Range(Q[i]) : s.entry[e].used /\ PFhash(s.entry[e].key) = i
    <3>1. Q[i] = <<>> /\ s.hashtbl[i] = NULL
      BY <1>1
    <3>2. QED
      BY <1>2, <1>5, <3>1
  <2>3. \A e \in Entries : s.entry[e] = FreeEntry
    BY <1>1
  <2>4. QED
    BY <1>4, <2>1, <2>2, <2>3 DEF BucketsAre
<1>8. Match(s, NULL)
  BY <1>4 DEF Match
<1>9. QED
  BY <1>1, <1>3, <1>6, <1>7, <1>8 DEF ChainsInv, Sound, HashHalf

\* The frames after the release of the one that PFbufReleaseFile stands on.
LEMMA ReleaseIs ==
  ASSUME NEW L, Sound(s, NULL, L), NEW j \in 1 .. Len(L), walk.b = L[j],
         walk \in [fd : Fds, b : PFrame],
         \A i \in 1 .. j - 1 : s.frame[L[i]].key[1] # walk.fd,
         s' = Freed(PFhashDelete(s, s.frame[walk.b].key), walk.b),
         walk' = [walk EXCEPT !.b = s.frame[@].nextpage]
  PROVE  ChainsInv'
<1> DEFINE b == L[j]
           M == Without(L, j)
           n == Len(L)
<1>1. /\ L \in Seq(Frames) /\ IsInjective(L) /\ n \in Nat /\ DOMAIN L = 1 .. n
      /\ Linked(L, s.firstbpage, NextPage(s), PrevPage(s)) /\ Range(L) = Used(s)
  BY LenProperties DEF Sound, ListHalf, ListIs
<1>2. Sound(s', NULL, M) /\ SameButFor(s, s', b)
  BY LostIs
<1>3. /\ M \in Seq(Frames) /\ Len(M) = n - 1
      /\ \A i \in 1 .. n - 1 : M[i] = IF i < j THEN L[i] ELSE L[i + 1]
  BY <1>1, WithoutProperties
<1>4. /\ \A i \in 1 .. n : L[i] \in Frames /\ L[i] # NULL
      /\ \A i \in 1 .. n : L[i] = b <=> i = j
  <2>1. \A i \in 1 .. n : L[i] \in Frames
    BY <1>1, ElementOfSeq
  <2>2. QED
    BY <1>1, <2>1, ChainsAssumption DEF IsInjective
<1>5. s.frame[b].nextpage = IF j = n THEN NULL ELSE L[j + 1]
  <2>1. NextPage(s)[L[j]] = IF j = n THEN NULL ELSE L[j + 1]
    BY <1>1 DEF Linked, Follows
  <2>2. QED
    BY <1>4, <2>1 DEF NextPage
<1>6. s.frame[b].nextpage = IF j = Len(M) + 1 THEN NULL ELSE M[j]
  <2>1. Len(M) + 1 = n
    BY <1>1, <1>3
  <2>2. CASE j = n
    BY <1>5, <2>1, <2>2
  <2>3. CASE j # n
    <3>1. j \in 1 .. n - 1 /\ ~ (j < j)
      BY <1>1, <2>3
    <3>2. M[j] = L[j + 1]
      BY <1>3, <3>1
    <3>3. QED
      BY <1>5, <2>1, <2>3, <3>2
  <2>4. QED
    BY <2>2, <2>3
<1>7. walk'.fd = walk.fd /\ walk'.b = s.frame[b].nextpage /\ walk' \in [fd : Fds, b : PFrame]
  <2>1. s.frame[b].nextpage \in PFrame
    <3>1. \A i \in 1 .. n : L[i] \in PFrame
      BY <1>4 DEF PFrame
    <3>2. NULL \in PFrame /\ (j # n => j + 1 \in 1 .. n)
      BY <1>1 DEF PFrame
    <3>3. QED
      BY <1>5, <3>1, <3>2
  <2>2. QED
    BY <2>1
<1>8. ASSUME NEW i \in 1 .. j - 1
      PROVE  s'.frame[M[i]].key[1] # walk'.fd
  <2>1. i \in 1 .. n - 1 /\ i \in 1 .. n /\ i < j /\ i # j
    BY <1>1
  <2>2. M[i] = L[i] /\ M[i] \in Frames \ {b}
    BY <1>3, <1>4, <2>1
  <2>3. s'.frame[M[i]].key = s.frame[L[i]].key
    BY <1>2, <2>2 DEF SameButFor
  <2>4. QED
    BY <1>7, <2>3
<1>9. j \in 1 .. Len(M) + 1
  BY <1>1, <1>3
<1> HIDE DEF M
<1>10. WalkOn(M)'
  BY <1>6, <1>7, <1>8, <1>9 DEF WalkOn
<1>11. QED
  BY <1>2, <1>10 DEF ChainsInv

\* One step to the next frame, past one that is of another file.
LEMMA PassIs ==
  ASSUME NEW L, Sound(s, NULL, L), NEW j \in 1 .. Len(L), walk.b = L[j],
         walk \in [fd : Fds, b : PFrame],
         \A i \in 1 .. j - 1 : s.frame[L[i]].key[1] # walk.fd,
         s.frame[walk.b].key[1] # walk.fd,
         s' = s, walk' = [walk EXCEPT !.b = s.frame[@].nextpage]
  PROVE  ChainsInv'
<1> DEFINE n == Len(L)
<1>1. /\ L \in Seq(Frames) /\ n \in Nat
      /\ Linked(L, s.firstbpage, NextPage(s), PrevPage(s))
  BY LenProperties DEF Sound, ListHalf, ListIs
<1>2. \A i \in 1 .. n : L[i] \in Frames
  BY <1>1, ElementOfSeq
<1>3. s.frame[walk.b].nextpage = IF j = n THEN NULL ELSE L[j + 1]
  <2>1. NextPage(s)[L[j]] = IF j = n THEN NULL ELSE L[j + 1]
    BY <1>1 DEF Linked, Follows
  <2>2. QED
    BY <1>2, <2>1 DEF NextPage
<1>4. walk'.fd = walk.fd /\ walk'.b = s.frame[walk.b].nextpage /\ walk' \in [fd : Fds, b : PFrame]
  <2>1. s.frame[walk.b].nextpage \in PFrame
    <3>1. \A i \in 1 .. n : L[i] \in PFrame
      BY <1>2 DEF PFrame
    <3>2. NULL \in PFrame /\ (j # n => j + 1 \in 1 .. n)
      BY <1>1 DEF PFrame
    <3>3. QED
      BY <1>3, <3>1, <3>2
  <2>2. QED
    BY <2>1
<1>5. j + 1 \in 1 .. n + 1 /\ (j + 1 = n + 1 <=> j = n) /\ (j + 1) - 1 = j
  BY <1>1
<1>6. \A i \in 1 .. (j + 1) - 1 : s.frame[L[i]].key[1] # walk.fd
  <2>1. ASSUME NEW i \in 1 .. j
        PROVE  s.frame[L[i]].key[1] # walk.fd
    <3>1. CASE i = j
      BY <3>1
    <3>2. CASE i # j
      <4>1. i \in 1 .. j - 1
        BY <1>1, <3>2
      <4>2. QED
        BY <4>1
    <3>3. QED
      BY <3>1, <3>2
  <2>2. QED
    BY <1>5, <2>1
<1>7. walk'.b = IF j + 1 = n + 1 THEN NULL ELSE L[j + 1]
  BY <1>3, <1>4, <1>5
<1>8. WalkOn(L)'
  BY <1>4, <1>5, <1>6, <1>7 DEF WalkOn
<1>9. QED
  BY <1>8 DEF ChainsInv

LEMMA ChainsInvStep == ChainsInv /\ [Next]_vars => ChainsInv'
<1> SUFFICES ASSUME ChainsInv, [Next]_vars
             PROVE  ChainsInv'
  OBVIOUS
<1>1. PICK L : Sound(s, NULL, L) /\ (Idle \/ WalkOn(L))
  BY DEF ChainsInv
<1>0. L \in Seq(Frames) /\ Len(L) \in Nat /\ DOMAIN L = 1 .. Len(L) /\ Range(L) = Used(s)
  BY <1>1, LenProperties DEF Sound, ListHalf, ListIs
<1>2. ASSUME Idle, UNCHANGED walk, NEW M, Sound(s', NULL, M)
      PROVE  ChainsInv'
  BY <1>2 DEF ChainsInv, Idle
<1>3. ASSUME NEW k \in Keys, Idle, UNCHANGED walk, NEW taken \in Taken(s),
             NEW t, t = [taken.s EXCEPT !.frame[taken.b].key = k],
             s' \in PFhashInsert(t, k, taken.b) \cup {Freed(t, taken.b)}
      PROVE  ChainsInv'
  <2>1. t = Keyed(taken.s, taken.b, k)
    BY <1>3 DEF Keyed
  <2>2. \E M : Sound(s', NULL, With(taken.b, M)) \/ Sound(s', NULL, M)
    BY <1>1, <1>3, <2>1, ServedIs
  <2>3. QED
    BY <1>2, <1>3, <2>2
<1>4. ASSUME NEW k \in Keys, PFbufGet(k)
      PROVE  ChainsInv'
  <2>1. Idle /\ UNCHANGED walk
    BY <1>4 DEF PFbufGet
  <2>2. CASE PFhashFind(s, k) # NULL
    <3>1. PFhashFind(s, k) \in Used(s)
      BY <1>1, <2>2, FindIs DEF Sound
    <3>2. s' = Hit(s, PFhashFind(s, k))
      BY <1>4, <2>2 DEF PFbufGet
    <3>3. \E M : Sound(s', NULL, M)
      BY <1>1, <3>1, <3>2, HitIs
    <3>4. QED
      BY <1>2, <2>1, <3>3
  <2>3. CASE PFhashFind(s, k) = NULL
    BY <1>3, <1>4, <2>1, <2>3 DEF PFbufGet
  <2>4. QED
    BY <2>2, <2>3
<1>5. ASSUME NEW k \in Keys, PFbufAlloc(k)
      PROVE  ChainsInv'
  BY <1>3, <1>5 DEF PFbufAlloc
<1>6. ASSUME NEW fd \in Fds, PFbufReleaseFile(fd)
      PROVE  ChainsInv'
  <2>1. s' = s /\ walk' = [fd |-> fd, b |-> s.firstbpage]
    BY <1>6 DEF PFbufReleaseFile
  <2>2. s.firstbpage \in PFrame
    BY <1>1 DEF Sound, Typed
  <2>3. s.firstbpage = IF 1 = Len(L) + 1 THEN NULL ELSE L[1]
    <3>1. L = <<>> <=> 1 = Len(L) + 1
      BY <1>0, EmptySeq, LenProperties
    <3>2. QED
      BY <1>1, <3>1 DEF Sound, ListHalf, ListIs, Linked, Follows
  <2>4. WalkOn(L)'
    <3>1. 1 \in 1 .. Len(L) + 1 /\ \A i \in 1 .. 1 - 1 : FALSE
      BY <1>0
    <3>2. QED
      BY <2>1, <2>2, <2>3, <3>1 DEF WalkOn
  <2>5. QED
    BY <1>1, <2>1, <2>4 DEF ChainsInv
<1>7. CASE ReleaseStep
  <2>1. ~ Idle /\ WalkOn(L)
    BY <1>1, <1>7 DEF ReleaseStep
  <2>2. PICK j \in 1 .. Len(L) + 1 :
          /\ walk.b = IF j = Len(L) + 1 THEN NULL ELSE L[j]
          /\ \A i \in 1 .. j - 1 : s.frame[L[i]].key[1] # walk.fd
    BY <2>1 DEF WalkOn
  <2>3. ASSUME walk' = NoWalk, UNCHANGED s
        PROVE  ChainsInv'
    BY <1>1, <2>3 DEF ChainsInv, Idle
  <2>4. CASE walk.b = NULL
    BY <1>7, <2>3, <2>4 DEF ReleaseStep
  <2>5. CASE walk.b # NULL
    <3>1. j \in 1 .. Len(L) /\ walk.b = L[j] /\ walk \in [fd : Fds, b : PFrame]
      BY <1>0, <2>1, <2>2, <2>5 DEF WalkOn
    <3>2. CASE s.frame[walk.b].key[1] # walk.fd
      <4>1. s' = s /\ walk' = [walk EXCEPT !.b = s.frame[@].nextpage]
        BY <1>7, <2>5, <3>2 DEF ReleaseStep
      <4>2. QED
        BY <1>1, <2>2, <3>1, <3>2, <4>1, PassIs
    <3>3. CASE s.frame[walk.b].key[1] = walk.fd
      <4>1. \/ /\ s' = Freed(PFhashDelete(s, s.frame[walk.b].key), walk.b)
               /\ walk' = [walk EXCEPT !.b = s.frame[@].nextpage]
            \/ walk' = NoWalk /\ UNCHANGED s
        BY <1>7, <2>5, <3>3 DEF ReleaseStep
      <4>2. CASE /\ s' = Freed(PFhashDelete(s, s.frame[walk.b].key), walk.b)
                 /\ walk' = [walk EXCEPT !.b = s.frame[@].nextpage]
        BY <1>1, <2>2, <3>1, <4>2, ReleaseIs
      <4>3. QED
        BY <2>3, <4>1, <4>2
    <3>4. QED
      BY <3>2, <3>3
  <2>6. QED
    BY <2>4, <2>5
<1>8. CASE UNCHANGED vars
  <2>1. s' = s /\ walk' = walk
    BY <1>8 DEF vars
  <2>2. QED
    BY <1>1, <2>1 DEF ChainsInv, WalkOn, Idle
<1>9. QED
  BY <1>4, <1>5, <1>6, <1>7, <1>8 DEF Next

LEMMA ChainsInvHolds == Spec => []ChainsInv
BY ChainsInvInit, ChainsInvStep, PTL DEF Spec

-----------------------------------------------------------------------------
(* What the invariant says of the properties. *)

LEMMA ListOf ==
  ASSUME NEW t, NEW L, Sound(t, NULL, L)
  PROVE  /\ Path(t.firstbpage, NextPage(t)) = L
         /\ L \in Seq(Frames) /\ IsInjective(L) /\ Len(L) \in Nat
         /\ DOMAIN L = 1 .. Len(L) /\ Range(L) = Used(t)
         /\ Linked(L, t.firstbpage, NextPage(t), PrevPage(t))
<1>1. /\ L \in Seq(Frames) /\ IsInjective(L) /\ Range(L) = Used(t)
      /\ Linked(L, t.firstbpage, NextPage(t), PrevPage(t))
  BY DEF Sound, ListHalf, ListIs
<1>2. Follows(L, t.firstbpage, NextPage(t)) /\ DOMAIN NextPage(t) = Frames
  BY <1>1 DEF Linked, NextPage
<1>3. Path(t.firstbpage, NextPage(t)) = L
  BY <1>1, <1>2, PathIs, ChainsAssumption
<1>4. QED
  BY <1>1, <1>3, LenProperties

LEMMA ListIsThere ==
  ASSUME NEW L, Sound(s, NULL, L)
  PROVE  /\ List = L /\ L \in Seq(Frames) /\ IsInjective(L) /\ Len(L) \in Nat
         /\ DOMAIN L = 1 .. Len(L) /\ Range(L) = Used(s) /\ UsedFrames = Used(s)
         /\ Linked(L, s.firstbpage, NextPage(s), PrevPage(s))
<1>1. List = Path(s.firstbpage, NextPage(s)) /\ UsedFrames = Used(s)
  BY DEF List, NextPage, Used, UsedFrames
<1>2. QED
  BY <1>1, ListOf

LEMMA ListSoundFollows == ChainsInv => ListSound
<1> SUFFICES ASSUME ChainsInv
             PROVE  ListSound
  OBVIOUS
<1>1. PICK L : Sound(s, NULL, L)
  BY DEF ChainsInv
<1>2. /\ List = L /\ IsInjective(L) /\ DOMAIN L = 1 .. Len(L) /\ Range(L) = UsedFrames
      /\ Linked(L, s.firstbpage, NextPage(s), PrevPage(s))
  BY <1>1, ListIsThere
<1>3. Mirrored(L, [f \in Frames |-> s.frame[f].prevpage])
  BY <1>2 DEF Mirrored, Linked, PrevPage
<1>4. s.lastbpage = (IF L = <<>> THEN NULL ELSE L[Len(L)]) /\ s.numbpage = Len(L)
  BY <1>1 DEF Sound, ListHalf, ListIs
<1>5. QED
  BY <1>2, <1>3, <1>4 DEF ListSound

LEMMA EntriesCounted ==
  ASSUME NEW L, Sound(s, NULL, L)
  PROVE  Cardinality(Entered(s)) = Len(L)
<1> DEFINE E == Entered(s)
           U == Used(s)
           g == [e \in E |-> s.entry[e].bpage]
<1>1. /\ \A e \in E : /\ s.entry[e].bpage \in U
                      /\ s.frame[s.entry[e].bpage].key = s.entry[e].key
      /\ \A f \in U : \E e \in E : s.entry[e].bpage = f
      /\ \A d, e \in E : s.entry[d].key = s.entry[e].key => d = e
  BY ChainsAssumption DEF Sound, HashHalf, Match, Used
<1>2. IsFiniteSet(E)
  BY FS_Subset, ChainsAssumption DEF Entered
<1> HIDE DEF E, U
<1>3. g \in Bijection(E, U)
  <2>1. g \in [E -> U]
    BY <1>1
  <2>2. \A d, e \in E : g[d] = g[e] => d = e
    BY <1>1
  <2>3. \A f \in U : \E e \in E : g[e] = f
    BY <1>1
  <2>4. QED
    BY <2>1, <2>2, <2>3 DEF Bijection, Injection, Surjection, IsInjective
<1>4. Cardinality(U) = Cardinality(E)
  BY <1>2, <1>3, FS_Bijection DEF ExistsBijection
<1>5. Cardinality(U) = Len(L)
  <2>1. L \in Seq(Frames) /\ IsInjective(L) /\ Range(L) = U
    BY ListIsThere DEF U
  <2>2. Cardinality(Range(L)) = Len(L)
    BY <2>1, InjectiveLen, ChainsAssumption
  <2>3. QED
    BY <2>1, <2>2
<1>6. QED
  BY <1>4, <1>5 DEF E

LEMMA ChainsSoundFollows == ChainsInv => ChainsSound
<1> SUFFICES ASSUME ChainsInv
             PROVE  ChainsSound
  OBVIOUS
<1>1. PICK L : Sound(s, NULL, L)
  BY DEF ChainsInv
<1>2. PICK Q : BucketsAre(s, Q)
  BY <1>1 DEF Sound, HashHalf
<1>3. DOMAIN s.hashtbl = Buckets /\ UsedEntries = Entered(s)
  BY <1>1 DEF Sound, Typed, Buckets, UsedEntries, Entered
<1>4. ASSUME NEW i \in Buckets
      PROVE  /\ Bucket(i) = Q[i] /\ Q[i] \in Seq(Entries) /\ IsInjective(Q[i])
             /\ DOMAIN Q[i] = 1 .. Len(Q[i])
             /\ Linked(Q[i], s.hashtbl[i], NextEntry(s), PrevEntry(s))
  <2>1. /\ Q[i] \in Seq(Entries) /\ IsInjective(Q[i])
        /\ Linked(Q[i], s.hashtbl[i], NextEntry(s), PrevEntry(s))
    BY <1>2, BucketFacts
  <2>2. Follows(Q[i], s.hashtbl[i], NextEntry(s)) /\ DOMAIN NextEntry(s) = Entries
    BY <2>1 DEF Linked, NextEntry
  <2>3. Path(s.hashtbl[i], NextEntry(s)) = Q[i]
    BY <2>1, <2>2, PathIs, ChainsAssumption
  <2>4. QED
    BY <2>1, <2>3, LenProperties DEF Bucket, NextEntry
<1>5. ASSUME NEW i \in Buckets
      PROVE  /\ IsInjective(Bucket(i))
             /\ Mirrored(Bucket(i), [e \in Entries |-> s.entry[e].preventry])
             /\ \A e \in Range(Bucket(i)) : PFhash(s.entry[e].key) = i
  <2>1. Mirrored(Q[i], [e \in Entries |-> s.entry[e].preventry])
    BY <1>4 DEF Mirrored, Linked, PrevEntry
  <2>2. \A e \in Range(Q[i]) : PFhash(s.entry[e].key) = i
    BY <1>2 DEF BucketsAre, Buckets
  <2>3. QED
    BY <1>4, <2>1, <2>2
<1>6. UsedEntries = UNION {Range(Bucket(i)) : i \in Buckets}
  <2>1. ASSUME NEW e \in Entered(s)
        PROVE  \E i \in Buckets : e \in Range(Bucket(i))
    <3>1. s.entry[e].key \in Keys /\ e \in Range(Q[PFhash(s.entry[e].key)])
      BY <1>2 DEF BucketsAre
    <3>2. PFhash(s.entry[e].key) \in Buckets
      BY <3>1, HashInRange
    <3>3. QED
      BY <1>4, <3>1, <3>2
  <2>2. ASSUME NEW i \in Buckets, NEW e \in Range(Bucket(i))
        PROVE  e \in Entered(s)
    <3>1. e \in Range(Q[i]) /\ Q[i] \in Seq(Entries)
      BY <1>4
    <3>2. e \in Entries
      BY <3>1, RangeOfSeq
    <3>3. s.entry[e].used
      BY <1>2, <3>1 DEF BucketsAre, Buckets
    <3>4. QED
      BY <3>2, <3>3 DEF Entered
  <2>3. QED
    BY <1>3, <2>1, <2>2
<1>7. \A e \in UsedEntries : s.frame[s.entry[e].bpage].key = s.entry[e].key
  BY <1>1, <1>3 DEF Sound, HashHalf, Match
<1>8. Cardinality(UsedEntries) = Len(List)
  BY <1>1, <1>3, EntriesCounted, ListIsThere
<1>9. QED
  BY <1>3, <1>5, <1>6, <1>7, <1>8 DEF ChainsSound

LEMMA NothingPassedFollows == ChainsInv => NothingPassed
<1> SUFFICES ASSUME ChainsInv
             PROVE  NothingPassed
  OBVIOUS
<1>1. PICK L : Sound(s, NULL, L) /\ (Idle \/ WalkOn(L))
  BY DEF ChainsInv
<1>2. SUFFICES ASSUME ~ Idle, NEW f \in UsedFrames, s.frame[f].key[1] = walk.fd
               PROVE  f \in Range(Path(walk.b, NextPage(s)))
  BY DEF NothingPassed, NextPage
<1> DEFINE n == Len(L)
<1>3. /\ L \in Seq(Frames) /\ IsInjective(L) /\ n \in Nat /\ DOMAIN L = 1 .. n
      /\ Range(L) = UsedFrames /\ Linked(L, s.firstbpage, NextPage(s), PrevPage(s))
  BY <1>1, ListIsThere
<1>4. PICK j \in 1 .. n + 1 : /\ walk.b = IF j = n + 1 THEN NULL ELSE L[j]
                              /\ \A i \in 1 .. j - 1 : s.frame[L[i]].key[1] # walk.fd
  BY <1>1, <1>2 DEF WalkOn
<1>5. PICK i \in 1 .. n : L[i] = f
  BY <1>2, <1>3 DEF Range
<1>6. j <= i /\ j \in 1 .. n
  <2>1. i \notin 1 .. j - 1
    BY <1>2, <1>4, <1>5
  <2>2. QED
    BY <1>3, <2>1
<1> DEFINE m == n + 1 - j
           B == [a \in 1 .. m |-> L[a + j - 1]]
<1>7. m \in Nat /\ m # 0 /\ \A a \in 1 .. m : a + j - 1 \in 1 .. n
  BY <1>3, <1>6
<1>8. \A a \in 1 .. n : L[a] \in Frames
  BY <1>3, ElementOfSeq
<1>9. B \in Seq(Frames) /\ Len(B) = m /\ DOMAIN B = 1 .. m
  <2>1. \A a \in 1 .. m : L[a + j - 1] \in Frames
    BY <1>7, <1>8
  <2>2. B = [a \in 1 .. m |-> L[a + j - 1]]
    OBVIOUS
  <2> HIDE DEF m, B
  <2>3. B \in [1 .. m -> Frames]
    BY <2>1, <2>2
  <2>4. B \in Seq(Frames) /\ DOMAIN B = 1 .. m
    BY <1>7, <2>3
  <2>5. QED
    BY <1>7, <2>4, LenProperties
<1>10. \A a \in 1 .. m : B[a] = L[a + j - 1]
  OBVIOUS
<1> HIDE DEF B
<1>11. IsInjective(B)
  <2>1. ASSUME NEW a \in 1 .. m, NEW c \in 1 .. m, B[a] = B[c]
        PROVE  a = c
    <3>1. L[a + j - 1] = L[c + j - 1]
      BY <1>10, <2>1
    <3>2. a + j - 1 = c + j - 1
      BY <1>3, <1>7, <3>1 DEF IsInjective
    <3>3. QED
      BY <1>7, <3>2
  <2>2. QED
    BY <1>9, <2>1 DEF IsInjective
<1>12. Follows(B, walk.b, NextPage(s))
  <2>1. walk.b = B[1] /\ B # <<>>
    <3>1. 1 \in 1 .. m /\ 1 + j - 1 = j /\ j # n + 1
      BY <1>6, <1>7
    <3>2. B # <<>>
      BY <1>7, <1>9, EmptySeq, LenProperties
    <3>3. QED
      BY <1>4, <1>10, <3>1, <3>2
  <2>2. ASSUME NEW a \in 1 .. m
        PROVE  NextPage(s)[B[a]] = IF a = m THEN NULL ELSE B[a + 1]
    <3>1. /\ a + j - 1 \in 1 .. n /\ (a + j - 1 = n <=> a = m) /\ (a + j - 1) + 1 = (a + 1) + j - 1
          /\ (a # m => a + 1 \in 1 .. m)
      BY <1>6, <1>7
    <3>2. NextPage(s)[L[a + j - 1]] = IF a + j - 1 = n THEN NULL ELSE L[(a + j - 1) + 1]
      BY <1>3, <3>1 DEF Linked, Follows
    <3>3. QED
      BY <1>10, <3>1, <3>2
  <2>3. QED
    BY <1>9, <2>1, <2>2 DEF Follows
<1>13. Path(walk.b, NextPage(s)) = B
  <2>1. DOMAIN NextPage(s) = Frames
    BY DEF NextPage
  <2>2. QED
    BY <1>9, <1>11, <1>12, <2>1, PathIs, ChainsAssumption
<1>14. f \in Range(B)
  <2>1. i - j + 1 \in 1 .. m /\ (i - j + 1) + j - 1 = i
    BY <1>6
  <2>2. B[i - j + 1] = L[i]
    BY <1>10, <2>1
  <2>3. QED
    BY <1>5, <1>9, <2>1, <2>2 DEF Range
<1>15. QED
  BY <1>13, <1>14

LEMMA TypeOKFollows == ChainsInv => TypeOK
<1> SUFFICES ASSUME ChainsInv
             PROVE  TypeOK
  OBVIOUS
<1> DEFINE frames == UsedFrames \cup {NULL}
           entries == UsedEntries \cup {NULL}
<1>1. PICK L : Sound(s, NULL, L) /\ (Idle \/ WalkOn(L))
  BY DEF ChainsInv
<1>2. PICK Q : BucketsAre(s, Q)
  BY <1>1 DEF Sound, HashHalf
<1>3. /\ L \in Seq(Frames) /\ IsInjective(L) /\ DOMAIN L = 1 .. Len(L)
      /\ Range(L) = UsedFrames /\ UsedFrames = Used(s)
      /\ Linked(L, s.firstbpage, NextPage(s), PrevPage(s))
  BY <1>1, ListIsThere
<1>4. Typed(s) /\ Entered(s) = UsedEntries
  BY <1>1 DEF Sound, Entered, UsedEntries
<1>5. s.firstbpage \in frames
  BY <1>3, LinkedFacts, ChainsAssumption
<1>6. s.lastbpage \in frames
  <2>1. s.lastbpage = IF L = <<>> THEN NULL ELSE L[Len(L)]
    BY <1>1 DEF Sound, ListHalf, ListIs
  <2>2. L # <<>> => Len(L) \in 1 .. Len(L)
    BY <1>3, EmptySeq, LenProperties
  <2>3. QED
    BY <1>3, <2>1, <2>2 DEF Range
<1>7. walk.b \in frames /\ walk \in [fd : Fds \cup {-1}, b : frames]
  <2>1. CASE Idle
    BY <2>1 DEF Idle, NoWalk
  <2>2. CASE WalkOn(L)
    <3>1. walk \in [fd : Fds, b : PFrame]
      BY <2>2 DEF WalkOn
    <3>2. walk.b \in frames
      <4>1. PICK j \in 1 .. Len(L) + 1 : walk.b = IF j = Len(L) + 1 THEN NULL ELSE L[j]
        BY <2>2 DEF WalkOn
      <4>2. Len(L) \in Nat
        BY <1>3, LenProperties
      <4>3. CASE j = Len(L) + 1
        BY <4>1, <4>3
      <4>4. CASE j # Len(L) + 1
        <5>1. j \in 1 .. Len(L)
          BY <4>2, <4>4
        <5>2. QED
          BY <1>3, <4>1, <4>4, <5>1 DEF Range
      <4>5. QED
        BY <4>3, <4>4
    <3>3. QED
      BY <3>1, <3>2
  <2>3. QED
    BY <1>1, <2>1, <2>2
<1>8. ASSUME NEW f \in Frames
      PROVE  s.frame[f].nextpage \in frames /\ s.frame[f].prevpage \in frames
  <2>1. CASE f \in Used(s)
    <3>1. PICK i \in 1 .. Len(L) : L[i] = f
      BY <1>3, <2>1 DEF Range
    <3>2. NextPage(s)[L[i]] \in Range(L) \cup {NULL} /\ PrevPage(s)[L[i]] \in Range(L) \cup {NULL}
      BY <1>3, LinkedFacts, ChainsAssumption
    <3>3. QED
      BY <1>3, <3>1, <3>2 DEF NextPage, PrevPage
  <2>2. CASE f \notin Used(s)
    <3>1. s.frame[f] = FreeFrame
      BY <1>1, <2>2 DEF Sound, ListHalf
    <3>2. QED
      BY <3>1 DEF FreeFrame
  <2>3. QED
    BY <2>1, <2>2
<1>9. \A i \in Buckets : \A d \in Range(Q[i]) : d \in UsedEntries
  <2>1. ASSUME NEW i \in Buckets, NEW d \in Range(Q[i])
        PROVE  d \in UsedEntries
    <3>1. Q[i] \in Seq(Entries) /\ s.entry[d].used
      BY <1>2 DEF BucketsAre, Buckets
    <3>2. d \in Entries
      BY <3>1, RangeOfSeq
    <3>3. QED
      BY <3>1, <3>2 DEF UsedEntries
  <2>2. QED
    BY <2>1
<1>10. ASSUME NEW i \in Buckets
       PROVE  s.hashtbl[i] \in entries
  <2>1. Q[i] \in Seq(Entries) /\ IsInjective(Q[i]) /\ Linked(Q[i], s.hashtbl[i], NextEntry(s), PrevEntry(s))
    BY <1>2, BucketFacts
  <2>2. s.hashtbl[i] \in Range(Q[i]) \cup {NULL}
    BY <2>1, LinkedFacts, ChainsAssumption
  <2>3. QED
    BY <1>9, <2>2
<1>11. ASSUME NEW e \in Entries
       PROVE  /\ s.entry[e].nextentry \in entries /\ s.entry[e].preventry \in entries
              /\ s.entry[e].bpage \in frames
  <2>1. CASE e \in Entered(s)
    <3>1. PFhash(s.entry[e].key) \in Buckets
      <4>1. s.entry[e].key \in Keys
        BY <1>2, <2>1 DEF BucketsAre
      <4>2. QED
        BY <4>1, HashInRange
    <3>2. PICK i \in Buckets : \E a \in 1 .. Len(Q[i]) : Q[i][a] = e
      BY <1>2, <2>1, <3>1, BucketFacts
    <3>3. PICK a \in 1 .. Len(Q[i]) : Q[i][a] = e
      BY <3>2
    <3>4. Q[i] \in Seq(Entries) /\ IsInjective(Q[i]) /\ Linked(Q[i], s.hashtbl[i], NextEntry(s), PrevEntry(s))
      BY <1>2, BucketFacts
    <3>5. /\ NextEntry(s)[Q[i][a]] \in Range(Q[i]) \cup {NULL}
          /\ PrevEntry(s)[Q[i][a]] \in Range(Q[i]) \cup {NULL}
      BY <3>4, LinkedFacts, ChainsAssumption
    <3>6. s.entry[e].bpage \in Used(s)
      BY <1>1, <2>1 DEF Sound, HashHalf, Match
    <3>7. s.entry[e].nextentry = NextEntry(s)[Q[i][a]] /\ s.entry[e].preventry = PrevEntry(s)[Q[i][a]]
      BY <3>3 DEF NextEntry, PrevEntry
    <3>8. QED
      BY <1>3, <1>9, <3>5, <3>6, <3>7
  <2>2. CASE e \notin Entered(s)
    <3>1. s.entry[e] = FreeEntry
      BY <1>2, <2>2 DEF BucketsAre
    <3>2. QED
      BY <3>1 DEF FreeEntry
  <2>3. QED
    BY <2>1, <2>2
<1> HIDE DEF frames, entries
<1>12. s.frame \in [Frames -> [nextpage : frames, prevpage : frames,
                               key : Keys \cup {NoKey}, used : BOOLEAN]]
  <2>1. s.frame \in [Frames -> FrameRec]
    BY <1>4 DEF Typed
  <2>2. ASSUME NEW f \in Frames
        PROVE  s.frame[f] \in [nextpage : frames, prevpage : frames,
                               key : Keys \cup {NoKey}, used : BOOLEAN]
    BY <1>8, <2>1 DEF FrameRec
  <2>3. QED
    BY <2>1, <2>2
<1>13. s.hashtbl \in [0 .. HashSize - 1 -> entries]
  BY <1>4, <1>10 DEF Typed, Buckets
<1>14. s.entry \in [Entries -> [nextentry : entries, preventry : entries,
                                key : Keys \cup {NoKey}, bpage : frames, used : BOOLEAN]]
  <2>1. s.entry \in [Entries -> EntryRec]
    BY <1>4 DEF Typed
  <2>2. ASSUME NEW e \in Entries
        PROVE  s.entry[e] \in [nextentry : entries, preventry : entries,
                               key : Keys \cup {NoKey}, bpage : frames, used : BOOLEAN]
    BY <1>11, <2>1 DEF EntryRec
  <2>3. QED
    BY <2>1, <2>2
<1>15. s.numbpage \in 0 .. MaxBufs
  BY <1>4 DEF Typed
<1>16. QED
  BY <1>5, <1>6, <1>7, <1>12, <1>13, <1>14, <1>15 DEF TypeOK, frames, entries

-----------------------------------------------------------------------------
(* The properties. *)

\* No pointer of buf.c or hash.c leads to memory that was freed, for every number of
\* buffers and of buckets.
THEOREM PointersTyped == Spec => []TypeOK
BY ChainsInvHolds, TypeOKFollows, PTL

\* However frames are linked, unlinked and moved (buf.c:72-163), the list is one list
\* over all frames in use, the same there and back, as long as PFnumbpage says.
THEOREM ListStaysSound == Spec => []ListSound
BY ChainsInvHolds, ListSoundFollows, PTL

\* The chains of the hash table are disjoint, each entry is where its page hashes to
\* and for a frame that holds that page, and there is one for each frame.
THEOREM ChainsStaySound == Spec => []ChainsSound
BY ChainsInvHolds, ChainsSoundFollows, PTL

\* PFbufReleaseFile, which frees the frame it stands on, passes no frame of its file.
THEOREM WalkPassesNothing == Spec => []NothingPassed
BY ChainsInvHolds, NothingPassedFollows, PTL

-----------------------------------------------------------------------------
(* What PoolIndex says of the calls. *)

\* The list operators of BufOps.
LEMMA IndexOps ==
  ASSUME NEW L \in Seq(Frames), IsInjective(L), NEW b \in Frames
  PROVE  /\ Index!Ops!PFbufLinkHead(L, b) = With(b, L)
         /\ \A j \in 1 .. Len(L) : b = L[j] =>
              /\ Index!Ops!PFbufUnlink(L, b) = Without(L, j)
              /\ Index!Ops!MoveToHead(L, b) = With(b, Without(L, j))
<1>1. \A M : Index!Ops!PFbufLinkHead(M, b) = With(b, M)
  BY DEF Index!Ops!PFbufLinkHead, With, Index!Ops!Cons
<1>2. ASSUME NEW j \in 1 .. Len(L), b = L[j]
      PROVE  Index!Ops!PFbufUnlink(L, b) = Without(L, j)
  <2> DEFINE n == Len(L)
             A == SubSeq(L, 1, j - 1)
             C == SubSeq(L, j + 1, n)
             W == Without(L, j)
  <2>1. n \in Nat /\ DOMAIN L = 1 .. n /\ \A i \in 1 .. n : L[i] \in Frames
    BY LenProperties, ElementOfSeq
  <2>2. Index!Ops!Position(L, b) = j
    <3>1. \A i \in 1 .. n : L[i] = b <=> i = j
      BY <1>2, <2>1 DEF IsInjective
    <3>2. QED
      BY <2>1, <3>1 DEF Index!Ops!Position
  <2>3. Index!Ops!PFbufUnlink(L, b) = A \o C
    BY <2>2 DEF Index!Ops!PFbufUnlink, Index!Ops!RemoveAt
  <2>4. /\ W \in Seq(Frames) /\ Len(W) = n - 1
        /\ \A i \in 1 .. n - 1 : W[i] = IF i < j THEN L[i] ELSE L[i + 1]
    BY WithoutProperties
  <2>5. A \in Seq(Frames) /\ Len(A) = j - 1 /\ \A i \in 1 .. j - 1 : A[i] = L[i]
    BY <2>1
  <2>6. C \in Seq(Frames) /\ Len(C) = n - j /\ \A i \in 1 .. n - j : C[i] = L[i + j]
    BY <2>1
  <2> HIDE DEF n, A, C, W
  <2>7. A \o C = W
    <3>1. /\ A \o C \in Seq(Frames) /\ Len(A \o C) = Len(A) + Len(C)
          /\ \A i \in 1 .. Len(A) + Len(C) :
               (A \o C)[i] = IF i <= Len(A) THEN A[i] ELSE C[i - Len(A)]
      BY <2>5, <2>6, ConcatProperties
    <3>2. Len(A) + Len(C) = n - 1
      BY <2>1, <2>5, <2>6
    <3>3. ASSUME NEW i \in 1 .. n - 1
          PROVE  (A \o C)[i] = W[i]
      <4>0. j \in 1 .. n /\ n \in Nat
        BY <2>1 DEF n
      <4>1. CASE i < j
        <5>1. i \in 1 .. j - 1 /\ i <= Len(A)
          BY <2>5, <4>0, <4>1
        <5>2. QED
          BY <2>4, <2>5, <3>1, <3>2, <4>1, <5>1
      <4>2. CASE ~ (i < j)
        <5>1. i - (j - 1) \in 1 .. n - j /\ ~ (i <= j - 1) /\ i - (j - 1) + j = i + 1
          BY <4>0, <4>2
        <5>2. (A \o C)[i] = C[i - (j - 1)]
          BY <2>5, <3>1, <3>2, <5>1
        <5>3. QED
          BY <2>4, <2>6, <4>2, <5>1, <5>2
      <4>3. QED
        BY <4>1, <4>2
    <3>4. Len(A \o C) = Len(W) /\ \A i \in 1 .. Len(A \o C) : (A \o C)[i] = W[i]
      BY <2>4, <3>1, <3>2, <3>3
    <3>5. QED
      BY <2>4, <3>1, <3>4, SeqEqual
  <2>8. QED
    BY <2>3, <2>7 DEF W
<1>3. ASSUME NEW j \in 1 .. Len(L), b = L[j]
      PROVE  Index!Ops!MoveToHead(L, b) = With(b, Without(L, j))
  BY <1>1, <1>2, <1>3 DEF Index!Ops!MoveToHead
<1>4. QED
  BY <1>1, <1>2, <1>3

\* The map from pages to frames that the hash table is, and that the frames are.
Table(t) == [k \in Keys |-> PFhashFind(t, k)]
Holds(t, f, k) == t.frame[f].used /\ t.frame[f].key = k

LEMMA TableIs ==
  ASSUME NEW t, NEW L, Sound(t, NULL, L), NEW k \in Keys
  PROVE  /\ Table(t)[k] = PFhashFind(t, k)
         /\ Table(t)[k] \in Frames \cup {NULL}
         /\ \A f \in Frames : Table(t)[k] = f <=> Holds(t, f, k)
<1>1. Table(t)[k] = PFhashFind(t, k)
  BY DEF Table
<1>2. /\ \A f \in Used(t) \ {NULL} : t.frame[f].key = k => PFhashFind(t, k) = f
      /\ PFhashFind(t, k) \in (Used(t) \ {NULL}) \cup {NULL}
      /\ PFhashFind(t, k) # NULL => t.frame[PFhashFind(t, k)].key = k
  BY FindIs DEF Sound
<1>3. NULL \notin Frames /\ \A f : f \in Used(t) <=> f \in Frames /\ t.frame[f].used
  BY ChainsAssumption DEF Used
<1>4. QED
  BY <1>1, <1>2, <1>3 DEF Holds

LEMMA TableSame ==
  ASSUME NEW t, NEW L, Sound(t, NULL, L), NEW u, NEW M, Sound(u, NULL, M), NEW k \in Keys,
         \A f \in Frames : Holds(u, f, k) <=> Holds(t, f, k)
  PROVE  Table(u)[k] = Table(t)[k]
<1>1. /\ Table(t)[k] \in Frames \cup {NULL}
      /\ \A f \in Frames : Table(t)[k] = f <=> Holds(t, f, k)
  BY TableIs
<1>2. /\ Table(u)[k] \in Frames \cup {NULL}
      /\ \A f \in Frames : Table(u)[k] = f <=> Holds(u, f, k)
  BY TableIs
<1>3. QED
  BY <1>1, <1>2

\* A page comes into a frame of its own.
LEMMA TableAdded ==
  ASSUME NEW t, NEW L, Sound(t, NULL, L), NEW u, NEW M, Sound(u, NULL, M), NEW k \in Keys,
         NEW b \in Frames, SameButFor(t, u, b),
         ~ t.frame[b].used, u.frame[b].used, u.frame[b].key = k
  PROVE  Table(u) = [Table(t) EXCEPT ![k] = b]
<1>1. Table(u)[k] = b
  BY TableIs DEF Holds
<1>2. ASSUME NEW h \in Keys, h # k
      PROVE  Table(u)[h] = Table(t)[h]
  <2>1. \A f \in Frames : Holds(u, f, h) <=> Holds(t, f, h)
    BY <1>2 DEF Holds, SameButFor
  <2>2. QED
    BY <2>1, TableSame
<1>3. /\ Table(u) = [h \in Keys |-> Table(u)[h]]
      /\ [Table(t) EXCEPT ![k] = b] = [h \in Keys |-> IF h = k THEN b ELSE Table(t)[h]]
  BY DEF Table
<1>4. QED
  BY <1>1, <1>2, <1>3

\* A page goes, and its frame with it.
LEMMA TableLost ==
  ASSUME NEW t, NEW L, Sound(t, NULL, L), NEW u, NEW M, Sound(u, NULL, M), NEW old \in Keys,
         NEW b \in Frames, SameButFor(t, u, b),
         t.frame[b].used, t.frame[b].key = old, ~ u.frame[b].used
  PROVE  Table(u) = [Table(t) EXCEPT ![old] = NULL] /\ Table(t)[old] = b
<1>1. Table(t)[old] = b
  BY TableIs DEF Holds
<1>2. Table(u)[old] = NULL
  <2>1. ASSUME NEW f \in Frames, Holds(u, f, old)
        PROVE  FALSE
    <3>1. f # b /\ Holds(t, f, old)
      BY <2>1 DEF Holds, SameButFor
    <3>2. Table(t)[old] = f
      BY <3>1, TableIs
    <3>3. QED
      BY <1>1, <3>1, <3>2
  <2>2. /\ Table(u)[old] \in Frames \cup {NULL}
        /\ \A f \in Frames : Table(u)[old] = f <=> Holds(u, f, old)
    BY TableIs
  <2>3. QED
    BY <2>1, <2>2
<1>3. ASSUME NEW h \in Keys, h # old
      PROVE  Table(u)[h] = Table(t)[h]
  <2>1. \A f \in Frames : Holds(u, f, h) <=> Holds(t, f, h)
    BY <1>3 DEF Holds, SameButFor
  <2>2. QED
    BY <2>1, TableSame
<1>4. /\ Table(u) = [h \in Keys |-> Table(u)[h]]
      /\ [Table(t) EXCEPT ![old] = NULL] = [h \in Keys |-> IF h = old THEN NULL ELSE Table(t)[h]]
  BY DEF Table
<1>5. QED
  BY <1>1, <1>2, <1>3, <1>4

\* A page comes into the frame of another.
LEMMA TableReplaced ==
  ASSUME NEW t, NEW L, Sound(t, NULL, L), NEW u, NEW M, Sound(u, NULL, M), NEW old \in Keys,
         NEW k \in Keys, NEW b \in Frames, SameButFor(t, u, b), Table(t)[k] = NULL,
         t.frame[b].used, t.frame[b].key = old, u.frame[b].used, u.frame[b].key = k
  PROVE  Table(u) = [Table(t) EXCEPT ![old] = NULL, ![k] = b] /\ Table(t)[old] = b
<1>1. Table(t)[old] = b
  BY TableIs DEF Holds
<1>2. old # k
  BY <1>1, ChainsAssumption
<1>3. Table(u)[k] = b
  BY TableIs DEF Holds
<1>4. Table(u)[old] = NULL
  <2>1. ASSUME NEW f \in Frames, Holds(u, f, old)
        PROVE  FALSE
    <3>1. f # b /\ Holds(t, f, old)
      BY <1>2, <2>1 DEF Holds, SameButFor
    <3>2. Table(t)[old] = f
      BY <3>1, TableIs
    <3>3. QED
      BY <1>1, <3>1, <3>2
  <2>2. /\ Table(u)[old] \in Frames \cup {NULL}
        /\ \A f \in Frames : Table(u)[old] = f <=> Holds(u, f, old)
    BY TableIs
  <2>3. QED
    BY <2>1, <2>2
<1>5. ASSUME NEW h \in Keys, h # old, h # k
      PROVE  Table(u)[h] = Table(t)[h]
  <2>1. \A f \in Frames : Holds(u, f, h) <=> Holds(t, f, h)
    BY <1>5 DEF Holds, SameButFor
  <2>2. QED
    BY <2>1, TableSame
<1>6. /\ Table(u) = [h \in Keys |-> Table(u)[h]]
      /\ [Table(t) EXCEPT ![old] = NULL, ![k] = b] =
           [h \in Keys |-> IF h = k THEN b ELSE IF h = old THEN NULL ELSE Table(t)[h]]
  BY DEF Table
<1>7. QED
  BY <1>1, <1>2, <1>3, <1>4, <1>5, <1>6

LEMMA IndexStep == ChainsInv /\ [Next]_vars => [Index!Next]_(Index!vars)
<1> SUFFICES ASSUME ChainsInv, [Next]_vars
             PROVE  [Index!Next]_(Index!vars)
  OBVIOUS
<1> DEFINE H == [k \in Keys |-> PFhashFind(s, k)]
<1>0. /\ H = Table(s) /\ H' = Table(s') /\ Index!Keys = Keys
      /\ Index!vars = <<List, H>> /\ Index!vars' = <<List', H'>>
  BY DEF Table, Index!Keys, Keys, Index!vars
<1>1. PICK L : Sound(s, NULL, L) /\ (Idle \/ WalkOn(L))
  BY DEF ChainsInv
<1>2. /\ List = L /\ L \in Seq(Frames) /\ IsInjective(L) /\ Len(L) \in Nat
      /\ DOMAIN L = 1 .. Len(L) /\ Range(L) = Used(s)
  BY <1>1, ListIsThere
<1>3. ASSUME NEW M, Sound(s', NULL, M)
      PROVE  List' = M
  BY <1>3, ListOf DEF List, NextPage
<1>4. \A f : f \in Used(s) <=> f \in Frames /\ s.frame[f].used
  BY DEF Used
<1> HIDE DEF H
<1>5. ASSUME UNCHANGED s
      PROVE  UNCHANGED Index!vars
  <2>1. List' = List /\ H' = H
    BY <1>5 DEF List, H
  <2>2. QED
    BY <1>0, <2>1
<1>6. ASSUME NEW k \in Keys, PFhashFind(s, k) = NULL, NEW taken \in Taken(s),
             NEW t, t = [taken.s EXCEPT !.frame[taken.b].key = k],
             s' \in PFhashInsert(t, k, taken.b) \cup {Freed(t, taken.b)}
      PROVE  [Index!Next]_(Index!vars)
  <2> DEFINE b == taken.b
  <2>0. t = Keyed(taken.s, b, k)
    BY <1>6 DEF Keyed
  <2>1. /\ b \in Frames /\ SameButFor(s, s', b)
        /\ \E M : /\ NewFrame(s, L, b, M) \/ Victim(s, L, b, M)
                  /\ \/ Sound(s', NULL, With(b, M)) /\ s'.frame[b].used /\ s'.frame[b].key = k
                     \/ Sound(s', NULL, M) /\ ~ s'.frame[b].used
    BY <1>1, <1>6, <2>0, ServedIs
  <2> HIDE DEF b
  <2>2. PICK M : /\ NewFrame(s, L, b, M) \/ Victim(s, L, b, M)
                 /\ \/ Sound(s', NULL, With(b, M)) /\ s'.frame[b].used /\ s'.frame[b].key = k
                    \/ Sound(s', NULL, M) /\ ~ s'.frame[b].used
    BY <2>1
  <2>3. H[k] = NULL
    BY <1>0, <1>1, <1>6, TableIs
  <2>4. CASE NewFrame(s, L, b, M)
    <3>1. ~ s.frame[b].used /\ M = L
      BY <1>4, <2>1, <2>4 DEF NewFrame
    <3>2. CASE Sound(s', NULL, With(b, M)) /\ s'.frame[b].used /\ s'.frame[b].key = k
      <4>1. Table(s') = [Table(s) EXCEPT ![k] = b]
        BY <1>1, <2>1, <3>1, <3>2, TableAdded
      <4>2. List' = Index!Ops!PFbufLinkHead(List, b)
        BY <1>2, <1>3, <2>1, <3>1, <3>2, IndexOps
      <4>3. \A i \in DOMAIN List : List[i] # b
        BY <1>2, <1>4, <3>1 DEF Range
      <4>4. Index!Enter(k, b)
        BY <1>0, <2>3, <4>1, <4>2, <4>3 DEF Index!Enter, H
      <4>5. QED
        BY <1>0, <2>1, <4>4 DEF Index!Next
    <3>3. CASE Sound(s', NULL, M) /\ ~ s'.frame[b].used
      <4>1. ASSUME NEW h \in Keys
            PROVE  Table(s')[h] = Table(s)[h]
        <5>1. \A f \in Frames : Holds(s', f, h) <=> Holds(s, f, h)
          BY <2>1, <3>1, <3>3 DEF Holds, SameButFor
        <5>2. QED
          BY <1>1, <3>3, <5>1, TableSame
      <4>2. Table(s') = Table(s)
        BY <4>1 DEF Table
      <4>3. List' = List
        BY <1>2, <1>3, <3>1, <3>3
      <4>4. QED
        BY <1>0, <4>2, <4>3
    <3>4. QED
      BY <2>2, <3>2, <3>3
  <2>5. CASE Victim(s, L, b, M)
    <3> DEFINE old == s.frame[b].key
    <3>1. PICK j \in 1 .. Len(L) : b = L[j] /\ M = Without(L, j)
      BY <2>5 DEF Victim
    <3>2. old \in Keys /\ s.frame[b].used
      BY <1>2, <1>4, <2>5, <3>1 DEF Victim, Range
    <3> HIDE DEF old
    <3>3. s.frame[b].key = old /\ b # NULL
      BY <2>1, ChainsAssumption DEF old
    <3>4. CASE Sound(s', NULL, With(b, M)) /\ s'.frame[b].used /\ s'.frame[b].key = k
      <4>1. Table(s') = [Table(s) EXCEPT ![old] = NULL, ![k] = b] /\ Table(s)[old] = b
        BY <1>0, <1>1, <2>1, <2>3, <3>2, <3>3, <3>4, TableReplaced
      <4>2. List' = Index!Ops!MoveToHead(List, b)
        BY <1>2, <1>3, <2>1, <3>1, <3>4, IndexOps
      <4>3. Index!Replace(old, k)
        BY <1>0, <2>3, <3>3, <4>1, <4>2 DEF Index!Replace, H
      <4>4. QED
        BY <1>0, <3>2, <4>3 DEF Index!Next
    <3>5. CASE Sound(s', NULL, M) /\ ~ s'.frame[b].used
      <4>1. Table(s') = [Table(s) EXCEPT ![old] = NULL] /\ Table(s)[old] = b
        BY <1>1, <2>1, <3>2, <3>3, <3>5, TableLost
      <4>2. List' = Index!Ops!PFbufUnlink(List, b)
        BY <1>2, <1>3, <2>1, <3>1, <3>5, IndexOps
      <4>3. Index!Lose(old)
        BY <1>0, <3>3, <4>1, <4>2 DEF Index!Lose, H
      <4>4. QED
        BY <1>0, <3>2, <4>3 DEF Index!Next
    <3>6. QED
      BY <2>2, <3>4, <3>5
  <2>6. QED
    BY <2>2, <2>4, <2>5
<1>7. ASSUME NEW k \in Keys, PFbufGet(k)
      PROVE  [Index!Next]_(Index!vars)
  <2>1. CASE PFhashFind(s, k) # NULL
    <3> DEFINE b == PFhashFind(s, k)
    <3>1. b \in Used(s) /\ b \in Frames /\ s' = Hit(s, b)
      BY <1>1, <1>4, <1>7, <2>1, FindIs DEF Sound, PFbufGet
    <3>2. H[k] = b /\ b # NULL
      BY <1>0, <1>1, <2>1, TableIs
    <3> HIDE DEF b
    <3>3. /\ \A f \in Frames : s'.frame[f].key = s.frame[f].key /\ s'.frame[f].used = s.frame[f].used
          /\ \E j \in 1 .. Len(L) : b = L[j] /\ Sound(s', NULL, With(b, Without(L, j)))
      BY <1>1, <3>1, HitIs
    <3>4. PICK j \in 1 .. Len(L) : b = L[j] /\ Sound(s', NULL, With(b, Without(L, j)))
      BY <3>3
    <3>5. ASSUME NEW h \in Keys
          PROVE  Table(s')[h] = Table(s)[h]
      <4>1. \A f \in Frames : Holds(s', f, h) <=> Holds(s, f, h)
        BY <3>3 DEF Holds
      <4>2. QED
        BY <1>1, <3>4, <4>1, TableSame
    <3>6. Table(s') = Table(s)
      BY <3>5 DEF Table
    <3>7. List' = Index!Ops!MoveToHead(List, b)
      BY <1>2, <1>3, <3>1, <3>4, IndexOps
    <3>8. Index!Ask(k)
      BY <1>0, <3>2, <3>6, <3>7 DEF Index!Ask, H
    <3>9. QED
      BY <1>0, <3>8 DEF Index!Next
  <2>2. CASE PFhashFind(s, k) = NULL
    BY <1>6, <1>7, <2>2 DEF PFbufGet
  <2>3. QED
    BY <2>1, <2>2
<1>8. ASSUME NEW k \in Keys, PFbufAlloc(k)
      PROVE  [Index!Next]_(Index!vars)
  BY <1>6, <1>8 DEF PFbufAlloc
<1>9. ASSUME NEW fd \in Fds, PFbufReleaseFile(fd)
      PROVE  [Index!Next]_(Index!vars)
  BY <1>5, <1>9 DEF PFbufReleaseFile
<1>10. CASE ReleaseStep
  <2>1. CASE UNCHANGED s
    BY <1>5, <2>1
  <2>2. CASE ~ UNCHANGED s
    <3> DEFINE b == walk.b
               old == s.frame[b].key
    <3>1. ~ Idle /\ b # NULL /\ s' = Freed(PFhashDelete(s, s.frame[b].key), b)
      BY <1>10, <2>2 DEF ReleaseStep
    <3>2. PICK j \in 1 .. Len(L) : b = L[j]
      <4>1. PICK j \in 1 .. Len(L) + 1 : b = IF j = Len(L) + 1 THEN NULL ELSE L[j]
        BY <1>1, <3>1 DEF WalkOn
      <4>2. j \in 1 .. Len(L) /\ b = L[j]
        BY <1>2, <3>1, <4>1
      <4>3. QED
        BY <4>2
    <3> HIDE DEF b
    <3>3. /\ Sound(s', NULL, Without(L, j)) /\ SameButFor(s, s', b) /\ Used(s') = Used(s) \ {b}
          /\ b \in Used(s) /\ s.frame[b].key \in Keys
      BY <1>1, <3>1, <3>2, LostIs
    <3>4. b \in Frames /\ s.frame[b].used /\ ~ s'.frame[b].used /\ b # NULL
      BY <3>3, ChainsAssumption DEF Used
    <3>5. s.frame[b].key = old /\ old \in Keys
      BY <3>3
    <3> HIDE DEF old
    <3>6. Table(s') = [Table(s) EXCEPT ![old] = NULL] /\ Table(s)[old] = b
      BY <1>1, <3>3, <3>4, <3>5, TableLost
    <3>7. List' = Index!Ops!PFbufUnlink(List, b)
      BY <1>2, <1>3, <3>2, <3>3, <3>4, IndexOps
    <3>8. Index!Lose(old)
      BY <1>0, <3>4, <3>6, <3>7 DEF Index!Lose, H
    <3>9. QED
      BY <1>0, <3>5, <3>8 DEF Index!Next
  <2>3. QED
    BY <2>1, <2>2
<1>11. CASE UNCHANGED vars
  BY <1>5, <1>11 DEF vars
<1>12. QED
  BY <1>7, <1>8, <1>9, <1>10, <1>11 DEF Next

LEMMA IndexInit == Init => Index!Init
<1> SUFFICES ASSUME Init
             PROVE  Index!Init
  OBVIOUS
<1>1. ChainsInv
  BY ChainsInvInit
<1>2. PICK L : Sound(s, NULL, L)
  BY <1>1 DEF ChainsInv
<1>3. Used(s) = {}
  BY DEF Init, Used, FreeFrame
<1>4. List = <<>>
  <2>1. List = L /\ L \in Seq(Frames) /\ Range(L) = {}
    BY <1>2, <1>3, ListIsThere
  <2>2. Len(L) \in Nat /\ DOMAIN L = 1 .. Len(L) /\ DOMAIN L = {}
    BY <2>1, LenProperties DEF Range
  <2>3. Len(L) = 0
    <3>1. Len(L) # 0 => 1 \in 1 .. Len(L)
      BY <2>2
    <3>2. QED
      BY <2>2, <3>1
  <2>4. QED
    BY <2>1, <2>3, EmptySeq, LenProperties
<1>5. [k \in Keys |-> PFhashFind(s, k)] = [k \in Keys |-> NULL]
  <2>1. ASSUME NEW k \in Keys
        PROVE  PFhashFind(s, k) = NULL
    BY <1>2, <1>3, FindIs DEF Sound
  <2>2. QED
    BY <2>1
<1>6. QED
  BY <1>4, <1>5 DEF Index!Init, Index!Keys, Keys

\* The doubly linked list and the hash chains do what the sequence and the map do
\* that BufOps has in their place, call by call, failed calls included.
THEOREM PointersImplementIndex == Spec => IndexSpec
<1>1. Init => Index!Init
  BY IndexInit
<1>2. ChainsInv /\ [Next]_vars => [Index!Next]_(Index!vars)
  BY IndexStep
<1>3. QED
  BY <1>1, <1>2, ChainsInvHolds, PTL DEF Spec, IndexSpec, Index!Spec
=============================================================================
