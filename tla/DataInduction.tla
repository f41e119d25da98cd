--------------------------- MODULE DataInduction ---------------------------
(* Induction over data, stated with sets: the natural numbers, the subsets *)
(* of a finite set, what FlattenSeq makes of a sequence of sequences, and  *)
(* sums over a finite set (MapThenSumSet), split and changed term by term. *)
EXTENDS Integers, FiniteSets, FiniteSetsExt, SequencesExt, SequenceTheorems,
        FiniteSetTheorems, WellFoundedInduction, TLAPS

LEMMA LeastNat ==
    ASSUME NEW T \in SUBSET Nat, T # {}
    PROVE  \E m \in T : \A k \in T : m <= k
<1> DEFINE R == OpToRel(<, Nat)
<1>1. \A x \in Nat, y \in Nat : <<x, y>> \in R <=> x < y
    BY DEF OpToRel
<1>2. IsWellFoundedOn(R, Nat)
    BY NatLessThanWellFounded
<1> HIDE DEF R
<1>3. PICK m \in T : \A k \in T : ~ (<<k, m>> \in R)
    BY <1>2, WFMin
<1>4. \A k \in T : ~(k < m)
    BY <1>1, <1>3
<1> QED BY <1>3, <1>4

(* A set that has 0 and the successor of each of its members has them all. *)
LEMMA NatSetInduction ==
    ASSUME NEW T, 0 \in T, \A n \in Nat : n \in T => n + 1 \in T
    PROVE  Nat \subseteq T
<1>1. SUFFICES ASSUME Nat \ T # {} PROVE FALSE
    OBVIOUS
<1>2. PICK m \in Nat \ T : \A k \in Nat \ T : m <= k
    BY <1>1, LeastNat
<1>3. m # 0 /\ m - 1 \in Nat
    BY <1>2
<1>4. m - 1 \in T
    BY <1>2, <1>3
<1> QED BY <1>2, <1>3, <1>4

(* The greatest of numbers that have a bound.                              *)
LEMMA GreatestNat ==
    ASSUME NEW N \in Nat, NEW T \in SUBSET (0..N), T # {}
    PROVE  Max(T) \in T /\ \A k \in T : k <= Max(T)
<1> DEFINE D == {N - k : k \in T}
<1>1. \A k \in T : k \in Nat /\ k <= N /\ N - k \in Nat
    OBVIOUS
<1>0. D \in SUBSET Nat /\ D # {}
    BY <1>1
<1>2. PICK d \in D : \A e \in D : d <= e
  <2> HIDE DEF D
  <2> QED BY <1>0, LeastNat
<1>3. PICK m \in T : d = N - m
    BY <1>2
<1>4. \A k \in T : m >= k
  <2> SUFFICES ASSUME NEW k \in T PROVE m >= k
      OBVIOUS
  <2>1. N - m <= N - k
      BY <1>2, <1>3
  <2> QED BY <1>1, <2>1
<1>5. \E x \in T : \A y \in T : x >= y
    BY <1>4
<1>6. Max(T) \in T /\ \A y \in T : Max(T) >= y
    BY <1>5 DEF Max
<1> QED BY <1>6

(* What RemoveAt leaves of a sequence.                                     *)
LEMMA RemovedAt ==
    ASSUME NEW Z, NEW q \in Seq(Z), NEW m \in 1..Len(q)
    PROVE  /\ RemoveAt(q, m) \in Seq(Z) /\ DOMAIN RemoveAt(q, m) = 1..(Len(q) - 1)
           /\ \A i \in 1..(Len(q) - 1) :
                 /\ RemoveAt(q, m)[i] = q[IF i < m THEN i ELSE i + 1]
                 /\ (IF i < m THEN i ELSE i + 1) \in (1..Len(q)) \ {m}
<1> DEFINE p == RemoveAt(q, m)
           L == Len(q)
           Old(i) == IF i < m THEN i ELSE i + 1
<1>1. L \in Nat /\ DOMAIN q = 1..L /\ m \in 1..L /\ q \in Seq(Z)
    OBVIOUS
<1>2. p = SubSeq(q, 1, m - 1) \o SubSeq(q, m + 1, L)
    BY DEF RemoveAt
<1>3. /\ SubSeq(q, 1, m - 1) \in Seq(Z) /\ Len(SubSeq(q, 1, m - 1)) = m - 1
      /\ \A i \in 1..(m - 1) : SubSeq(q, 1, m - 1)[i] = q[i]
  <2>1. \A i \in 1..(m - 1) : q[i] \in Z
      BY <1>1
  <2>2. \A i \in 1..(m - 1) : i \in 1..L
      BY <1>1
  <2>3. /\ SubSeq(q, 1, m - 1) \in Seq(Z)
        /\ Len(SubSeq(q, 1, m - 1)) = IF 1 <= m - 1 THEN (m - 1) - 1 + 1 ELSE 0
        /\ \A i \in 1 .. (m - 1) - 1 + 1 : SubSeq(q, 1, m - 1)[i] = q[1 + i - 1]
      BY <1>1, <2>2, SubSeqProperties
  <2> QED BY <1>1, <2>3
<1>4. /\ SubSeq(q, m + 1, L) \in Seq(Z) /\ Len(SubSeq(q, m + 1, L)) = L - m
      /\ \A i \in 1..(L - m) : SubSeq(q, m + 1, L)[i] = q[m + i]
  <2> DEFINE k == m + 1
  <2>1. k \in Int /\ L \in Int /\ \A i \in k..L : i \in 1..L
      BY <1>1
  <2>2. \A i \in k..L : q[i] \in Z
      BY <1>1, <2>1
  <2> HIDE DEF k
  <2>3. /\ SubSeq(q, k, L) \in Seq(Z)
        /\ Len(SubSeq(q, k, L)) = IF k <= L THEN L - k + 1 ELSE 0
        /\ \A i \in 1 .. L - k + 1 : SubSeq(q, k, L)[i] = q[k + i - 1]
      BY <2>1, <2>2, SubSeqProperties
  <2>4. k = m + 1
      BY DEF k
  <2>5. \A i \in 1..(L - m) : i \in 1..(L - k + 1) /\ k + i - 1 = m + i
      BY <1>1, <2>4
  <2>6. (IF k <= L THEN L - k + 1 ELSE 0) = L - m
    <3>1. m \in Nat /\ L \in Nat /\ m <= L
        BY <1>1
    <3>2. CASE m = L
        BY <3>1, <3>2, <2>4
    <3>3. CASE m < L
        BY <3>1, <3>3, <2>4
    <3> QED BY <3>1, <3>2, <3>3
  <2>7. SubSeq(q, m + 1, L) = SubSeq(q, k, L)
      BY <2>4
  <2> QED BY <2>3, <2>5, <2>6, <2>7
<1>5. /\ p \in Seq(Z) /\ DOMAIN p = 1..(L - 1)
      /\ \A i \in 1..(L - 1) : p[i] = q[Old(i)] /\ Old(i) \in DOMAIN q \ {m}
  <2> DEFINE s == SubSeq(q, 1, m - 1)
             t == SubSeq(q, m + 1, L)
  <2>1. s \in Seq(Z) /\ t \in Seq(Z) /\ Len(s) = m - 1 /\ Len(t) = L - m /\ p = s \o t
      BY <1>2, <1>3, <1>4
  <2>2. /\ \A i \in 1..(m - 1) : s[i] = q[i]
        /\ \A i \in 1..(L - m) : t[i] = q[m + i]
      BY <1>3, <1>4
  <2> HIDE DEF s, t
  <2>0. /\ p \in Seq(Z) /\ Len(p) = Len(s) + Len(t)
        /\ \A i \in 1 .. Len(s) + Len(t) :
              p[i] = IF i <= Len(s) THEN s[i] ELSE t[i - Len(s)]
    <3>1. s \in Seq(Z) /\ t \in Seq(Z)
        BY <2>1
    <3>2. /\ s \o t \in Seq(Z) /\ Len(s \o t) = Len(s) + Len(t)
          /\ \A i \in 1 .. Len(s) + Len(t) :
                (s \o t)[i] = IF i <= Len(s) THEN s[i] ELSE t[i - Len(s)]
        BY ONLY <3>1, ConcatProperties
    <3>3. p = s \o t
        BY <2>1
    <3> QED BY ONLY <3>2, <3>3
  <2>3. p \in Seq(Z) /\ Len(p) = L - 1 /\ Len(s) + Len(t) = L - 1
    <3>1. Len(s) = m - 1 /\ Len(t) = L - m
        BY <2>1
    <3>2. m \in Int /\ L \in Int
        BY <1>1
    <3>3. Len(s) + Len(t) = L - 1
        BY <3>1, <3>2
    <3> QED BY <2>0, <3>3
  <2>4. \A i \in 1..(L - 1) : p[i] = IF i <= m - 1 THEN s[i] ELSE t[i - (m - 1)]
    <3>1. Len(s) = m - 1 /\ Len(s) + Len(t) = L - 1
        BY <2>1, <2>3
    <3>2. \A i \in 1 .. (L - 1) : p[i] = IF i <= Len(s) THEN s[i] ELSE t[i - Len(s)]
        BY <2>0, <3>1
    <3> QED BY <3>1, <3>2
  <2>5. \A i \in 1..(L - 1) : p[i] = q[Old(i)] /\ Old(i) \in DOMAIN q \ {m}
    <3> SUFFICES ASSUME NEW i \in 1..(L - 1)
                 PROVE  p[i] = q[Old(i)] /\ Old(i) \in DOMAIN q \ {m}
        OBVIOUS
    <3>1. CASE i < m
        BY <1>1, <2>2, <2>4, <3>1
    <3>2. CASE ~(i < m)
      <4>1. i - (m - 1) \in 1..(L - m) /\ m + (i - (m - 1)) = i + 1
          BY <1>1, <3>2
      <4> QED BY <1>1, <2>2, <2>4, <3>2, <4>1
    <3> QED BY <3>1, <3>2
  <2>6. DOMAIN p = 1..(L - 1)
      BY <1>1, <2>3
  <2> QED BY <2>3, <2>5, <2>6
<1> QED BY <1>1, <1>5

(* What FlattenSeq makes of a sequence of members of F is in F, when F is  *)
(* closed under concatenation.                                             *)
LEMMA FlattenInto ==
    ASSUME NEW F, \A a, b \in F : a \o b \in F, NEW ss \in Seq(F), ss # <<>>
    PROVE  FlattenSeq(ss) \in F
<1> DEFINE N == Len(ss)
           At(g, i) == IF i = 1 THEN ss[i] ELSE g[i - 1] \o ss[i]
           Upto(n) == {g \in [1..n -> F] : g = [i \in 1..n |-> At(g, i)]}
           T == {n \in Nat : n \in 1..N => Upto(n) # {}}
           flat == CHOOSE g : g = [i \in 1..N |-> At(g, i)]
           U == {n \in Nat : n \in 1..N => flat[n] \in F}
<1>1. N \in Nat /\ N # 0 /\ \A i \in 1..N : ss[i] \in F
    OBVIOUS
<1>2. 0 \in T
    OBVIOUS
<1>3. ASSUME NEW n \in Nat, n \in T PROVE n + 1 \in T
    <2>1. CASE n = 0
        <3> DEFINE h == [i \in 1..1 |-> ss[i]]
        <3>1. h \in Upto(1)
            BY <1>1
        <3> HIDE DEF Upto
        <3>2. Upto(n + 1) # {}
            BY <2>1, <3>1
        <3> QED BY <3>2
    <2>2. CASE n # 0 /\ n + 1 \in 1..N
        <3>1. Upto(n) # {}
            <4> HIDE DEF Upto
            <4> QED BY <2>2, <1>1, <1>3
        <3>2. PICK g \in [1..n -> F] : g = [i \in 1..n |-> At(g, i)]
            BY <3>1
        <3> DEFINE h == [i \in 1..(n + 1) |-> IF i = n + 1 THEN g[n] \o ss[i] ELSE g[i]]
        <3>3. \A i \in 1..n : g[i] = At(g, i) /\ g[i] \in F
            <4> HIDE DEF At
            <4> QED BY <3>2
        <3>4. \A i \in 1..(n + 1) : /\ i = n + 1 => h[i] = g[n] \o ss[i]
                                    /\ i # n + 1 => h[i] = g[i] /\ i \in 1..n
            <4>1. \A i \in 1..(n + 1) : i # n + 1 => i \in 1..n
                OBVIOUS
            <4> QED BY <4>1
        <3>5. h = [i \in 1..(n + 1) |-> h[i]]
            OBVIOUS
        <3> HIDE DEF h
        <3>6. n \in 1..n /\ n + 1 \in 1..(n + 1) /\ n + 1 # 1 /\ (n + 1) - 1 = n
            BY <2>2
        <3>7. ASSUME NEW i \in 1..(n + 1) PROVE h[i] = At(h, i) /\ h[i] \in F
            <4>1. CASE i = n + 1
                <5>1. h[n] = g[n]
                    BY <3>4, <3>6
                <5>2. h[i] = g[n] \o ss[i] /\ g[n] \in F /\ ss[i] \in F
                    BY <1>1, <2>2, <3>3, <3>4, <3>6, <4>1
                <5> QED BY <3>6, <4>1, <5>1, <5>2
            <4>2. CASE i # n + 1
                <5>1. i \in 1..n /\ h[i] = g[i] /\ g[i] \in F /\ g[i] = At(g, i)
                    BY <3>3, <3>4, <4>2
                <5>2. i # 1 => h[i - 1] = g[i - 1]
                    <6>1. i # 1 => i - 1 \in 1..(n + 1) /\ i - 1 # n + 1
                        BY <5>1
                    <6> QED BY <3>4, <6>1
                <5> QED BY <5>1, <5>2
            <4> QED BY <4>1, <4>2
        <3>8. h = [i \in 1..(n + 1) |-> At(h, i)] /\ h \in [1..(n + 1) -> F]
            <4> HIDE DEF At
            <4> QED BY <3>5, <3>7
        <3>9. Upto(n + 1) # {}
            <4> HIDE DEF At
            <4> QED BY <3>8
        <3> HIDE DEF Upto
        <3> QED BY <3>9
    <2>3. CASE n + 1 \notin 1..N
        <3> HIDE DEF Upto
        <3> QED BY <2>3
    <2> QED BY <2>1, <2>2, <2>3
<1>4. N \in T
    <2> HIDE DEF T
    <2> QED BY <1>1, <1>2, <1>3, NatSetInduction
<1>5. flat = [i \in 1..N |-> At(flat, i)]
    <2> HIDE DEF At
    <2>1. PICK g : g = [i \in 1..N |-> At(g, i)]
        BY <1>1, <1>4
    <2> QED BY <2>1
<1>6. ASSUME NEW n \in Nat, n \in U PROVE n + 1 \in U
    <2> HIDE DEF flat
    <2>1. SUFFICES ASSUME n + 1 \in 1..N PROVE flat[n + 1] \in F
        OBVIOUS
    <2>2. flat[n + 1] = At(flat, n + 1)
        BY <1>5, <2>1
    <2> QED BY <1>1, <1>6, <2>1, <2>2
<1>7. N \in U
    <2>1. 0 \in U
        OBVIOUS
    <2> HIDE DEF U
    <2> QED BY <1>1, <1>6, <2>1, NatSetInduction
<1>8. FlattenSeq(ss) = flat[N]
    BY <1>1 DEF FlattenSeq
<1> QED BY <1>1, <1>7, <1>8

-----------------------------------------------------------------------------
(* Sums over a finite set, in any order: the community modules' folds go   *)
(* through the set by an element CHOOSE picks.                             *)

AnyOf(s) == CHOOSE x \in s : TRUE

SumStep(g, F, s) == IF s = {} THEN 0 ELSE F[AnyOf(s)] + g[s \ {AnyOf(s)}]

IsSumTable(g, F, S) == g = [s \in SUBSET S |-> SumStep(g, F, s)]

SumFn(F, S) == MapThenSumSet(LAMBDA x : F[x], S)

LEMMA SmallerSet ==
    ASSUME NEW S, IsFiniteSet(S)
    PROVE  /\ \A x \in S : /\ IsFiniteSet(S \ {x}) /\ Cardinality(S \ {x}) = Cardinality(S) - 1
           /\ Cardinality(S) \in Nat
           /\ S # {} => AnyOf(S) \in S
           /\ Cardinality(S) = 0 <=> S = {}
    BY FS_RemoveElement, FS_CardinalityType, FS_EmptySet DEF AnyOf

LEMMA SumTableExists ==
    ASSUME NEW S, IsFiniteSet(S), NEW F, \A x \in S : F[x] \in Int
    PROVE  \E g \in [SUBSET S -> Int] : IsSumTable(g, F, S)
<1> DEFINE Small(n) == {s \in SUBSET S : Cardinality(s) <= n}
           T == {n \in Nat : \E g \in [Small(n) -> Int] : g = [s \in Small(n) |-> SumStep(g, F, s)]}
<1>1. \A s \in SUBSET S : IsFiniteSet(s) /\ Cardinality(s) \in Nat
                          /\ Cardinality(s) <= Cardinality(S)
    BY FS_Subset, FS_CardinalityType
<1>2. 0 \in T
  <2> DEFINE g == [s \in Small(0) |-> 0]
  <2>1. \A s \in Small(0) : s = {}
      BY <1>1, SmallerSet
  <2>2. g = [s \in Small(0) |-> SumStep(g, F, s)]
      BY <2>1 DEF SumStep
  <2>3. g \in [Small(0) -> Int]
      OBVIOUS
  <2> HIDE DEF g, Small
  <2> QED BY <2>2, <2>3
<1>3. ASSUME NEW n \in Nat, n \in T PROVE n + 1 \in T
  <2>1. PICK g \in [Small(n) -> Int] : g = [s \in Small(n) |-> SumStep(g, F, s)]
    <3> HIDE DEF Small
    <3> QED BY <1>3
  <2> DEFINE h == [s \in Small(n + 1) |-> SumStep(g, F, s)]
  <2>2. ASSUME NEW s \in Small(n + 1), s # {}
        PROVE  s \ {AnyOf(s)} \in Small(n) /\ AnyOf(s) \in S
    <3>1. AnyOf(s) \in s /\ Cardinality(s \ {AnyOf(s)}) = Cardinality(s) - 1
          /\ Cardinality(s) \in Nat
        BY <1>1, <2>2, SmallerSet
    <3> QED BY <2>2, <3>1
  <2>3. \A s \in Small(n) : g[s] = SumStep(g, F, s) /\ s \in Small(n + 1) /\ g[s] \in Int
    <3>1. \A s \in Small(n) : s \in Small(n + 1)
        BY <1>1
    <3> HIDE DEF Small
    <3> QED BY <2>1, <3>1
  <2>4. \A s \in Small(n + 1) : h[s] = SumStep(g, F, s)
      OBVIOUS
  <2>5. h = [s \in Small(n + 1) |-> h[s]]
      OBVIOUS
  <2> HIDE DEF h, Small
  <2>6. ASSUME NEW s \in Small(n + 1) PROVE h[s] = SumStep(h, F, s) /\ h[s] \in Int
    <3>1. h[s] = SumStep(g, F, s)
        BY <2>4
    <3>2. CASE s = {}
        BY <3>1, <3>2 DEF SumStep
    <3>3. CASE s # {}
      <4>1. s \ {AnyOf(s)} \in Small(n) /\ AnyOf(s) \in S /\ s \ {AnyOf(s)} \in Small(n + 1)
            /\ g[s \ {AnyOf(s)}] \in Int
          BY <2>2, <2>3, <3>3
      <4>2. h[s \ {AnyOf(s)}] = g[s \ {AnyOf(s)}]
          BY <2>3, <2>4, <4>1
      <4> QED BY <3>1, <3>3, <4>1, <4>2 DEF SumStep
    <3> QED BY <3>2, <3>3
  <2>7. h = [s \in Small(n + 1) |-> SumStep(h, F, s)]
      BY <2>5, <2>6
  <2>8. h \in [Small(n + 1) -> Int]
      BY <2>5, <2>6
  <2> QED BY <2>7, <2>8
<1>4. Cardinality(S) \in T
  <2> HIDE DEF T
  <2> QED BY <1>1, <1>2, <1>3, NatSetInduction
<1>5. Small(Cardinality(S)) = SUBSET S
    BY <1>1
<1> HIDE DEF Small
<1> QED BY <1>4, <1>5 DEF IsSumTable

LEMMA SumTablesAgree ==
    ASSUME NEW S, NEW R, NEW U, IsFiniteSet(U), U \subseteq S, U \subseteq R,
           NEW F, NEW G, \A x \in U : F[x] = G[x],
           NEW g, IsSumTable(g, F, S), NEW h, IsSumTable(h, G, R)
    PROVE  g[U] = h[U]
<1> DEFINE T == {n \in Nat : \A s \in SUBSET U : Cardinality(s) <= n => g[s] = h[s]}
<1>1. \A s \in SUBSET U : IsFiniteSet(s) /\ Cardinality(s) \in Nat
    BY FS_Subset, FS_CardinalityType
<1>2. \A s \in SUBSET U : g[s] = SumStep(g, F, s) /\ h[s] = SumStep(h, G, s)
    BY DEF IsSumTable
<1>3. 0 \in T
  <2>1. \A s \in SUBSET U : Cardinality(s) <= 0 => s = {}
    <3>1. \A s \in SUBSET U : Cardinality(s) = 0 <=> s = {}
        BY <1>1, SmallerSet
    <3> QED BY <1>1, <3>1
  <2>2. g[{}] = 0 /\ h[{}] = 0
      BY <1>2 DEF SumStep
  <2> QED BY <2>1, <2>2
<1>4. ASSUME NEW n \in Nat, n \in T PROVE n + 1 \in T
  <2>1. ASSUME NEW s \in SUBSET U, Cardinality(s) <= n + 1 PROVE g[s] = h[s]
    <3>1. CASE s = {}
        BY <1>2, <3>1 DEF SumStep
    <3>2. CASE s # {}
      <4>1. AnyOf(s) \in s /\ Cardinality(s \ {AnyOf(s)}) <= n
          BY <1>1, <2>1, <3>2, SmallerSet
      <4>2. g[s \ {AnyOf(s)}] = h[s \ {AnyOf(s)}] /\ F[AnyOf(s)] = G[AnyOf(s)]
          BY <1>4, <4>1
      <4> QED BY <1>2, <3>2, <4>2 DEF SumStep
    <3> QED BY <3>1, <3>2
  <2> QED BY <2>1
<1>5. Cardinality(U) \in T
  <2> HIDE DEF T
  <2> QED BY <1>1, <1>3, <1>4, NatSetInduction
<1> QED BY <1>1, <1>5

(* The sum is what any table says.                                         *)
LEMMA SumIsTables ==
    ASSUME NEW S, IsFiniteSet(S), NEW F, \A x \in S : F[x] \in Int,
           NEW R, S \subseteq R, NEW g, IsSumTable(g, F, R)
    PROVE  SumFn(F, S) = g[S]
<1> DEFINE h == CHOOSE h : IsSumTable(h, F, S)
<1>1. IsSumTable(h, F, S)
    BY SumTableExists
<1>2. SumFn(F, S) = h[S]
    BY DEF SumFn, MapThenSumSet, MapThenFoldSet, IsSumTable, SumStep, AnyOf
<1> HIDE DEF h
<1> QED BY <1>1, <1>2, SumTablesAgree

LEMMA SumType ==
    ASSUME NEW S, IsFiniteSet(S), NEW F, \A x \in S : F[x] \in Int
    PROVE  SumFn(F, S) \in Int
<1>1. PICK g \in [SUBSET S -> Int] : IsSumTable(g, F, S)
    BY SumTableExists
<1> QED BY <1>1, SumIsTables

LEMMA SumEmpty == \A F : SumFn(F, {}) = 0
<1> SUFFICES ASSUME NEW F PROVE SumFn(F, {}) = 0
    OBVIOUS
<1>1. IsFiniteSet({})
    BY FS_EmptySet
<1>2. PICK g \in [SUBSET {} -> Int] : IsSumTable(g, F, {})
    BY <1>1, SumTableExists
<1>3. SumFn(F, {}) = g[{}]
    BY <1>1, <1>2, SumIsTables
<1> QED BY <1>2, <1>3 DEF IsSumTable, SumStep

LEMMA SumCong ==
    ASSUME NEW S, IsFiniteSet(S), NEW F, NEW G, \A x \in S : F[x] = G[x] /\ F[x] \in Int
    PROVE  SumFn(F, S) = SumFn(G, S)
<1>1. PICK g \in [SUBSET S -> Int] : IsSumTable(g, F, S)
    BY SumTableExists
<1>2. PICK h \in [SUBSET S -> Int] : IsSumTable(h, G, S)
    BY SumTableExists
<1>3. SumFn(F, S) = g[S] /\ SumFn(G, S) = h[S]
    BY <1>1, <1>2, SumIsTables
<1> QED BY <1>1, <1>2, <1>3, SumTablesAgree

(* Any member may be taken out first.                                      *)
LEMMA SumRemove ==
    ASSUME NEW S, IsFiniteSet(S), NEW F, \A x \in S : F[x] \in Int, NEW x \in S
    PROVE  SumFn(F, S) = F[x] + SumFn(F, S \ {x})
<1>1. PICK g \in [SUBSET S -> Int] : IsSumTable(g, F, S)
    BY SumTableExists
<1> DEFINE T == {n \in Nat : \A s \in SUBSET S : Cardinality(s) <= n =>
                                \A y \in s : g[s] = F[y] + g[s \ {y}]}
<1>2. \A s \in SUBSET S : IsFiniteSet(s) /\ Cardinality(s) \in Nat /\ g[s] \in Int
    BY FS_Subset, FS_CardinalityType
<1>3. \A s \in SUBSET S : s # {} => /\ g[s] = F[AnyOf(s)] + g[s \ {AnyOf(s)}]
                                    /\ AnyOf(s) \in s
    BY <1>1 DEF IsSumTable, SumStep, AnyOf
<1>4. 0 \in T
  <2>1. \A s \in SUBSET S : Cardinality(s) <= 0 => s = {}
      BY <1>2, SmallerSet
  <2> QED BY <2>1
<1>5. ASSUME NEW n \in Nat, n \in T PROVE n + 1 \in T
  <2>1. ASSUME NEW s \in SUBSET S, Cardinality(s) <= n + 1, NEW y \in s
        PROVE  g[s] = F[y] + g[s \ {y}]
    <3> DEFINE p == AnyOf(s)
    <3>1. p \in s /\ g[s] = F[p] + g[s \ {p}]
        BY <1>3
    <3> HIDE DEF p
    <3>2. CASE y = p
        BY <3>1, <3>2
    <3>3. CASE y # p
      <4>1. /\ Cardinality(s \ {p}) <= n /\ Cardinality(s \ {y}) <= n
            /\ y \in s \ {p} /\ p \in s \ {y} /\ s \ {p} \in SUBSET S /\ s \ {y} \in SUBSET S
        <5>1. Cardinality(s \ {p}) = Cardinality(s) - 1 /\ Cardinality(s \ {y}) = Cardinality(s) - 1
            BY <1>2, <3>1, SmallerSet
        <5>2. Cardinality(s) \in Nat
            BY <1>2
        <5> QED BY <2>1, <3>1, <3>3, <5>1, <5>2
      <4>2. g[s \ {p}] = F[y] + g[(s \ {p}) \ {y}] /\ g[s \ {y}] = F[p] + g[(s \ {y}) \ {p}]
          BY <1>5, <4>1
      <4>3. (s \ {p}) \ {y} = (s \ {y}) \ {p} /\ (s \ {p}) \ {y} \in SUBSET S
          OBVIOUS
      <4>4. g[(s \ {p}) \ {y}] \in Int /\ F[p] \in Int /\ F[y] \in Int
          BY <1>2, <3>1, <4>3
      <4> DEFINE u == g[(s \ {p}) \ {y}]
      <4>5. u \in Int /\ g[s] = F[p] + (F[y] + u) /\ g[s \ {y}] = F[p] + u
          BY <3>1, <4>2, <4>3, <4>4
      <4> HIDE DEF u
      <4> QED BY <4>4, <4>5
    <3> QED BY <3>2, <3>3
  <2> QED BY <2>1
<1>6. Cardinality(S) \in T
  <2> HIDE DEF T
  <2> QED BY <1>2, <1>4, <1>5, NatSetInduction
<1>7. g[S] = F[x] + g[S \ {x}]
    BY <1>2, <1>6
<1>8. IsFiniteSet(S \ {x})
    BY SmallerSet
<1>9. SumFn(F, S) = g[S] /\ SumFn(F, S \ {x}) = g[S \ {x}]
    BY <1>1, <1>8, SumIsTables
<1> QED BY <1>7, <1>9

LEMMA SumAdd ==
    ASSUME NEW S, IsFiniteSet(S), NEW F, NEW x, x \notin S, \A y \in S \cup {x} : F[y] \in Int
    PROVE  SumFn(F, S \cup {x}) = F[x] + SumFn(F, S)
<1>1. (S \cup {x}) \ {x} = S /\ IsFiniteSet(S \cup {x})
    BY FS_AddElement
<1> DEFINE R == S \cup {x}
<1>2. x \in R /\ R \ {x} = S /\ IsFiniteSet(R) /\ \A y \in R : F[y] \in Int
    BY <1>1
<1> HIDE DEF R
<1>3. SumFn(F, R) = F[x] + SumFn(F, R \ {x})
    BY <1>2, SumRemove
<1> QED BY <1>2, <1>3 DEF R

LEMMA SumSplit ==
    ASSUME NEW S, NEW R, IsFiniteSet(S), IsFiniteSet(R), S \cap R = {},
           NEW F, \A x \in S \cup R : F[x] \in Int
    PROVE  SumFn(F, S \cup R) = SumFn(F, S) + SumFn(F, R)
<1> DEFINE T == {n \in Nat : \A s \in SUBSET S : Cardinality(s) <= n =>
                                SumFn(F, s \cup R) = SumFn(F, s) + SumFn(F, R)}
<1>1. \A s \in SUBSET S : IsFiniteSet(s) /\ Cardinality(s) \in Nat /\ IsFiniteSet(s \cup R)
    BY FS_Subset, FS_CardinalityType, FS_Union
<1>2. SumFn(F, R) \in Int
    BY SumType
<1>3. 0 \in T
  <2>1. \A s \in SUBSET S : Cardinality(s) <= 0 => s = {}
    <3> TAKE s \in SUBSET S
    <3>1. Cardinality(s) \in Nat /\ (Cardinality(s) = 0 <=> s = {})
        BY <1>1, SmallerSet
    <3> QED BY <3>1
  <2>2. {} \cup R = R
      OBVIOUS
  <2> QED BY <1>2, <2>1, <2>2, SumEmpty
<1>4. ASSUME NEW n \in Nat, n \in T PROVE n + 1 \in T
  <2>1. ASSUME NEW s \in SUBSET S, Cardinality(s) <= n + 1
        PROVE  SumFn(F, s \cup R) = SumFn(F, s) + SumFn(F, R)
    <3>1. CASE s = {}
      <4>1. Cardinality(s) <= n
          BY <1>1, <3>1, SmallerSet
      <4> QED BY <1>4, <4>1
    <3>2. CASE s # {}
      <4>1. PICK p \in s : TRUE
          BY <3>2
      <4> DEFINE t == s \ {p}
      <4>2. Cardinality(t) <= n /\ t \in SUBSET S /\ IsFiniteSet(t)
        <5>1. Cardinality(t) = Cardinality(s) - 1 /\ IsFiniteSet(t)
            BY <1>1, <4>1, SmallerSet
        <5>2. Cardinality(s) \in Nat
            BY <1>1
        <5> QED BY <2>1, <5>1, <5>2
      <4>3. SumFn(F, t \cup R) = SumFn(F, t) + SumFn(F, R)
        <5> HIDE DEF t
        <5> QED BY <1>4, <4>2
      <4>4. SumFn(F, s) = F[p] + SumFn(F, t)
          BY <1>1, <4>1, SumRemove
      <4>5. (s \cup R) \ {p} = t \cup R
          BY <4>1
      <4>6. SumFn(F, s \cup R) = F[p] + SumFn(F, (s \cup R) \ {p})
        <5> DEFINE V == s \cup R
        <5>1. p \in V /\ IsFiniteSet(V) /\ \A x \in V : F[x] \in Int
            BY <1>1
        <5> HIDE DEF V
        <5>2. SumFn(F, V) = F[p] + SumFn(F, V \ {p})
            BY <5>1, SumRemove
        <5> QED BY <5>2 DEF V
      <4>7. SumFn(F, t) \in Int /\ F[p] \in Int
          BY <4>1, <4>2, SumType
      <4> HIDE DEF t
      <4>8. SumFn(F, s \cup R) = F[p] + (SumFn(F, t) + SumFn(F, R))
          BY <4>3, <4>5, <4>6
      <4> QED BY <1>2, <4>4, <4>7, <4>8
    <3> QED BY <3>1, <3>2
  <2> QED BY <2>1
<1>5. Cardinality(S) \in T
  <2> HIDE DEF T
  <2> QED BY <1>1, <1>3, <1>4, NatSetInduction
<1> QED BY <1>1, <1>5

LEMMA SumNatural ==
    ASSUME NEW S, IsFiniteSet(S), NEW F, \A x \in S : F[x] \in Nat
    PROVE  SumFn(F, S) \in Nat
<1> DEFINE T == {n \in Nat : \A s \in SUBSET S : Cardinality(s) <= n => SumFn(F, s) \in Nat}
<1>1. \A s \in SUBSET S : IsFiniteSet(s) /\ Cardinality(s) \in Nat
    BY FS_Subset, FS_CardinalityType
<1>2. 0 \in T
  <2>1. \A s \in SUBSET S : Cardinality(s) <= 0 => s = {}
    <3>1. \A s \in SUBSET S : Cardinality(s) = 0 <=> s = {}
        BY <1>1, SmallerSet
    <3> QED BY <1>1, <3>1
  <2> QED BY <2>1, SumEmpty
<1>3. ASSUME NEW n \in Nat, n \in T PROVE n + 1 \in T
  <2>1. ASSUME NEW s \in SUBSET S, Cardinality(s) <= n + 1 PROVE SumFn(F, s) \in Nat
    <3>1. CASE s = {}
        BY <3>1, SumEmpty
    <3>2. CASE s # {}
      <4>1. PICK p \in s : TRUE
          BY <3>2
      <4>2. Cardinality(s \ {p}) <= n
          BY <1>1, <2>1, <4>1, SmallerSet
      <4>3. SumFn(F, s) = F[p] + SumFn(F, s \ {p})
          BY <1>1, <4>1, SumRemove
      <4> QED BY <1>3, <4>2, <4>3
    <3> QED BY <3>1, <3>2
  <2> QED BY <2>1
<1>4. Cardinality(S) \in T
  <2> HIDE DEF T
  <2> QED BY <1>1, <1>2, <1>3, NatSetInduction
<1> QED BY <1>1, <1>4

(* A part of a sum of natural numbers is no more than the whole.           *)
LEMMA SumWithin ==
    ASSUME NEW S, NEW R, IsFiniteSet(R), S \subseteq R, NEW F, \A x \in R : F[x] \in Nat
    PROVE  /\ SumFn(F, S) \in Nat /\ SumFn(F, R) \in Nat
           /\ SumFn(F, S) <= SumFn(F, R)
<1>1. IsFiniteSet(S) /\ IsFiniteSet(R \ S)
    BY FS_Subset
<1>2. S \cap (R \ S) = {} /\ S \cup (R \ S) = R /\ \A x \in S \cup (R \ S) : F[x] \in Int
    OBVIOUS
<1>3. SumFn(F, S \cup (R \ S)) = SumFn(F, S) + SumFn(F, R \ S)
  <2> DEFINE Q == R \ S
  <2>1. IsFiniteSet(S) /\ IsFiniteSet(Q) /\ S \cap Q = {} /\ \A x \in S \cup Q : F[x] \in Int
      BY <1>1, <1>2
  <2> HIDE DEF Q
  <2>2. SumFn(F, S \cup Q) = SumFn(F, S) + SumFn(F, Q)
      BY <2>1, SumSplit
  <2> QED BY <2>2 DEF Q
<1>4. SumFn(F, S) \in Nat /\ SumFn(F, R \ S) \in Nat
    BY <1>1, SumNatural
<1>5. SumFn(F, R) = SumFn(F, S) + SumFn(F, R \ S)
    BY <1>2, <1>3
<1> QED BY <1>4, <1>5

(* A sum may be taken member by member.                                    *)
LEMMA SumMinus ==
    ASSUME NEW S, IsFiniteSet(S), NEW F, NEW G, NEW H,
           \A x \in S : F[x] \in Int /\ G[x] \in Int /\ H[x] = F[x] - G[x]
    PROVE  SumFn(H, S) = SumFn(F, S) - SumFn(G, S)
<1> DEFINE T == {n \in Nat : \A s \in SUBSET S : Cardinality(s) <= n =>
                                SumFn(H, s) = SumFn(F, s) - SumFn(G, s)}
<1>1. \A s \in SUBSET S : IsFiniteSet(s) /\ Cardinality(s) \in Nat
    BY FS_Subset, FS_CardinalityType
<1>2. \A x \in S : F[x] \in Int /\ G[x] \in Int /\ H[x] \in Int /\ H[x] = F[x] - G[x]
    OBVIOUS
<1>3. 0 \in T
  <2>1. \A s \in SUBSET S : Cardinality(s) <= 0 => s = {}
    <3>1. \A s \in SUBSET S : Cardinality(s) = 0 <=> s = {}
        BY <1>1, SmallerSet
    <3> QED BY <1>1, <3>1
  <2>2. SumFn(F, {}) = 0 /\ SumFn(G, {}) = 0 /\ SumFn(H, {}) = 0
      BY SumEmpty
  <2> QED BY <2>1, <2>2
<1>4. ASSUME NEW n \in Nat, n \in T PROVE n + 1 \in T
  <2>1. ASSUME NEW s \in SUBSET S, Cardinality(s) <= n + 1
        PROVE  SumFn(H, s) = SumFn(F, s) - SumFn(G, s)
    <3>1. CASE s = {}
        BY <3>1, SumEmpty
    <3>2. CASE s # {}
      <4>1. PICK p \in s : TRUE
          BY <3>2
      <4> DEFINE t == s \ {p}
      <4>2. Cardinality(t) <= n /\ t \in SUBSET S /\ IsFiniteSet(t)
        <5>1. Cardinality(t) = Cardinality(s) - 1 /\ IsFiniteSet(t)
            BY <1>1, <4>1, SmallerSet
        <5>2. Cardinality(s) \in Nat
            BY <1>1
        <5> QED BY <2>1, <5>1, <5>2
      <4>3. SumFn(F, s) = F[p] + SumFn(F, t) /\ SumFn(G, s) = G[p] + SumFn(G, t)
            /\ SumFn(H, s) = H[p] + SumFn(H, t)
        <5>1. IsFiniteSet(s) /\ p \in S
            BY <1>1, <4>1
        <5>2. \A x \in s : F[x] \in Int /\ G[x] \in Int /\ H[x] \in Int
            BY <1>2
        <5>3. SumFn(F, s) = F[p] + SumFn(F, s \ {p})
            BY <4>1, <5>1, <5>2, SumRemove
        <5>4. SumFn(G, s) = G[p] + SumFn(G, s \ {p})
            BY <4>1, <5>1, <5>2, SumRemove
        <5>5. SumFn(H, s) = H[p] + SumFn(H, s \ {p})
            BY <4>1, <5>1, <5>2, SumRemove
        <5> QED BY <5>3, <5>4, <5>5
      <4> HIDE DEF t
      <4>4. SumFn(H, t) = SumFn(F, t) - SumFn(G, t)
          BY <1>4, <4>2
      <4>5. SumFn(F, t) \in Int /\ SumFn(G, t) \in Int
        <5>1. \A x \in t : F[x] \in Int /\ G[x] \in Int
            BY <1>2, <4>2
        <5>2. SumFn(F, t) \in Int
            BY <4>2, <5>1, SumType
        <5>3. SumFn(G, t) \in Int
            BY <4>2, <5>1, SumType
        <5> QED BY <5>2, <5>3
      <4>6. F[p] \in Int /\ G[p] \in Int /\ H[p] = F[p] - G[p]
          BY <1>2, <4>1
      <4> QED BY <4>3, <4>4, <4>5, <4>6
    <3> QED BY <3>1, <3>2
  <2> QED BY <2>1
<1>5. Cardinality(S) \in T
  <2> HIDE DEF T
  <2> QED BY <1>1, <1>3, <1>4, NatSetInduction
<1> QED BY <1>1, <1>5

LEMMA SumNegate ==
    ASSUME NEW S, IsFiniteSet(S), NEW F, NEW G,
           \A x \in S : F[x] \in Int /\ G[x] = -F[x]
    PROVE  SumFn(G, S) = -SumFn(F, S) /\ SumFn(F, S) \in Int
<1> DEFINE Z == [x \in S |-> 0]
<1>1. \A x \in S : Z[x] = 0
    OBVIOUS
<1> HIDE DEF Z
<1>2. SumFn(Z, S) = SumFn(Z, S) - SumFn(Z, S)
  <2>1. \A x \in S : Z[x] \in Int /\ Z[x] \in Int /\ Z[x] = Z[x] - Z[x]
      BY <1>1
  <2> QED BY <2>1, SumMinus
<1>3. SumFn(G, S) = SumFn(Z, S) - SumFn(F, S)
  <2>1. \A x \in S : Z[x] \in Int /\ F[x] \in Int /\ G[x] = Z[x] - F[x]
      BY <1>1
  <2> QED BY <2>1, SumMinus
<1>4. SumFn(Z, S) \in Int /\ SumFn(F, S) \in Int
  <2>1. \A x \in S : Z[x] \in Int /\ F[x] \in Int
      BY <1>1
  <2>2. SumFn(Z, S) \in Int
      BY <2>1, SumType
  <2>3. SumFn(F, S) \in Int
      BY <2>1, SumType
  <2> QED BY <2>2, <2>3
<1> QED BY <1>2, <1>3, <1>4

(* What is paired off one to one with its opposite comes to nothing.       *)
LEMMA SumCancels ==
    ASSUME NEW S, IsFiniteSet(S), NEW T, NEW F,
           \A x \in S : F[x] \in Int /\ F[T[x]] = -F[x],
           \A x, y \in S : T[x] = T[y] => x = y
    PROVE  LET R == {T[x] : x \in S}
           IN  /\ IsFiniteSet(R) /\ SumFn(F, R) \in Int
               /\ SumFn(F, S) \in Int /\ SumFn(F, R) = -SumFn(F, S)
<1> DEFINE Of(s) == {T[x] : x \in s}
           K == {n \in Nat : \A s \in SUBSET S : Cardinality(s) <= n =>
                                IsFiniteSet(Of(s)) /\ SumFn(F, Of(s)) = -SumFn(F, s)}
<1>1. \A s \in SUBSET S : IsFiniteSet(s) /\ Cardinality(s) \in Nat
    BY FS_Subset, FS_CardinalityType
<1>2. 0 \in K
  <2>1. \A s \in SUBSET S : Cardinality(s) <= 0 => s = {}
    <3>1. \A s \in SUBSET S : Cardinality(s) = 0 <=> s = {}
        BY <1>1, SmallerSet
    <3> QED BY <1>1, <3>1
  <2>2. Of({}) = {} /\ IsFiniteSet({}) /\ SumFn(F, {}) = 0
      BY SumEmpty, FS_EmptySet
  <2> HIDE DEF Of
  <2> QED BY <2>1, <2>2
<1>3. ASSUME NEW n \in Nat, n \in K PROVE n + 1 \in K
  <2>1. ASSUME NEW s \in SUBSET S, Cardinality(s) <= n + 1
        PROVE  IsFiniteSet(Of(s)) /\ SumFn(F, Of(s)) = -SumFn(F, s)
    <3>1. CASE s = {}
      <4>1. Of({}) = {} /\ IsFiniteSet({}) /\ SumFn(F, {}) = 0
          BY SumEmpty, FS_EmptySet
      <4> HIDE DEF Of
      <4> QED BY <3>1, <4>1
    <3>2. CASE s # {}
      <4>1. PICK p \in s : TRUE
          BY <3>2
      <4> DEFINE t == s \ {p}
      <4>2. Cardinality(t) <= n /\ t \in SUBSET S /\ IsFiniteSet(t)
        <5>1. Cardinality(t) = Cardinality(s) - 1 /\ IsFiniteSet(t)
            BY <1>1, <4>1, SmallerSet
        <5>2. Cardinality(s) \in Nat
            BY <1>1
        <5> QED BY <2>1, <5>1, <5>2
      <4>3. IsFiniteSet(Of(t)) /\ SumFn(F, Of(t)) = -SumFn(F, t)
        <5> HIDE DEF Of, t
        <5> QED BY <1>3, <4>2
      <4>4. Of(s) = Of(t) \cup {T[p]} /\ T[p] \notin Of(t)
        <5>1. \A x \in s : x = p \/ x \in t
            OBVIOUS
        <5>2. \A x \in t : x \in s /\ x \in S /\ p \in S /\ x # p
            BY <4>1
        <5> HIDE DEF t
        <5> QED BY <4>1, <5>1, <5>2
      <4>5. \A y \in Of(t) \cup {T[p]} : F[y] \in Int
          BY <4>1, <4>2
      <4>6. SumFn(F, s) = F[p] + SumFn(F, t)
        <5>1. IsFiniteSet(s) /\ \A x \in s : F[x] \in Int
            BY <1>1
        <5> QED BY <4>1, <5>1, SumRemove
      <4>7. IsFiniteSet(Of(s)) /\ SumFn(F, Of(s)) = F[T[p]] + SumFn(F, Of(t))
        <5> DEFINE U == Of(t)  y == T[p]
        <5>1. IsFiniteSet(U) /\ y \notin U /\ \A x \in U \cup {y} : F[x] \in Int
            BY <4>3, <4>4, <4>5
        <5>2. Of(s) = U \cup {y}
            BY <4>4
        <5> HIDE DEF U, y
        <5>3. SumFn(F, U \cup {y}) = F[y] + SumFn(F, U)
            BY <5>1, SumAdd
        <5>4. IsFiniteSet(U \cup {y})
            BY <5>1, FS_AddElement
        <5>5. SumFn(F, Of(s)) = F[y] + SumFn(F, U) /\ IsFiniteSet(Of(s))
          <6> HIDE DEF Of
          <6> QED BY <5>2, <5>3, <5>4
        <5> QED BY <5>5 DEF U, y
      <4>8. F[p] \in Int /\ F[T[p]] = -F[p] /\ SumFn(F, t) \in Int
        <5>1. \A x \in t : F[x] \in Int
            BY <4>2
        <5>2. SumFn(F, t) \in Int
            BY <4>2, <5>1, SumType
        <5> QED BY <4>1, <5>2
      <4> HIDE DEF Of, t
      <4> QED BY <4>3, <4>6, <4>7, <4>8
    <3> QED BY <3>1, <3>2
  <2> HIDE DEF Of
  <2> QED BY <2>1
<1>4. Cardinality(S) \in K
  <2> HIDE DEF K
  <2> QED BY <1>1, <1>2, <1>3, NatSetInduction
<1>5. IsFiniteSet(Of(S)) /\ SumFn(F, Of(S)) = -SumFn(F, S)
  <2> HIDE DEF Of
  <2> QED BY <1>1, <1>4
<1>6. SumFn(F, S) \in Int
    BY SumType
<1> QED BY <1>5, <1>6

(* A sum may be taken drawer by drawer.                                    *)
LEMMA SumByKey ==
    ASSUME NEW X, IsFiniteSet(X), NEW F, \A x \in X : F[x] \in Int, NEW key,
           NEW J, IsFiniteSet(J), NEW G, NEW D,
           \A j \in J : /\ G[j] = SumFn(F, D[j])
                       /\ \A x : x \in D[j] <=> x \in X /\ key[x] = j,
           NEW U, \A x : x \in U <=> x \in X /\ key[x] \in J
    PROVE  SumFn(G, J) = SumFn(F, U)
<1> DEFINE In(s) == {x \in X : key[x] \in s}
           K == {n \in Nat : \A s \in SUBSET J : Cardinality(s) <= n =>
                                SumFn(G, s) = SumFn(F, In(s))}
<1>1. \A s \in SUBSET J : IsFiniteSet(s) /\ Cardinality(s) \in Nat
    BY FS_Subset, FS_CardinalityType
<1>2. \A s : IsFiniteSet(In(s)) /\ SumFn(F, In(s)) \in Int /\ \A x \in In(s) : F[x] \in Int
  <2> TAKE s
  <2> DEFINE V == In(s)
  <2>1. IsFiniteSet(V) /\ \A x \in V : F[x] \in Int
      BY FS_Subset
  <2> HIDE DEF V
  <2>2. SumFn(F, V) \in Int
      BY <2>1, SumType
  <2> QED BY <2>1, <2>2 DEF V
<1>3. \A j \in J : G[j] = SumFn(F, In({j})) /\ G[j] \in Int
  <2> TAKE j \in J
  <2>1. In({j}) = D[j]
    <3>1. \A x : x \in In({j}) <=> x \in D[j]
        OBVIOUS
    <3> HIDE DEF In
    <3> QED BY <3>1
  <2>2. G[j] = SumFn(F, In({j}))
      BY <2>1
  <2> HIDE DEF In
  <2> QED BY <1>2, <2>2
<1>4. In({}) = {}
    OBVIOUS
<1>5. \A s, t : In(s \cup t) = In(s) \cup In(t)
    OBVIOUS
<1>6. \A s, t : s \cap t = {} => In(s) \cap In(t) = {}
    OBVIOUS
<1> HIDE DEF In
<1>7. 0 \in K
  <2>1. \A s \in SUBSET J : Cardinality(s) <= 0 => s = {}
    <3>1. \A s \in SUBSET J : Cardinality(s) = 0 <=> s = {}
        BY <1>1, SmallerSet
    <3> QED BY <1>1, <3>1
  <2>2. SumFn(G, {}) = 0 /\ SumFn(F, {}) = 0
      BY SumEmpty
  <2> QED BY <1>4, <2>1, <2>2
<1>8. ASSUME NEW n \in Nat, n \in K PROVE n + 1 \in K
  <2>1. ASSUME NEW s \in SUBSET J, Cardinality(s) <= n + 1
        PROVE  SumFn(G, s) = SumFn(F, In(s))
    <3>1. CASE s = {}
        BY <1>4, <3>1, SumEmpty
    <3>2. CASE s # {}
      <4>1. PICK p \in s : TRUE
          BY <3>2
      <4> DEFINE t == s \ {p}
      <4>2. Cardinality(t) <= n /\ t \in SUBSET J /\ IsFiniteSet(t)
        <5>1. Cardinality(t) = Cardinality(s) - 1 /\ IsFiniteSet(t)
            BY <1>1, <4>1, SmallerSet
        <5>2. Cardinality(s) \in Nat
            BY <1>1
        <5> QED BY <2>1, <5>1, <5>2
      <4>3. SumFn(G, s) = G[p] + SumFn(G, t)
        <5>1. IsFiniteSet(s) /\ \A x \in s : G[x] \in Int
            BY <1>1, <1>3
        <5> QED BY <4>1, <5>1, SumRemove
      <4>4. s = {p} \cup t /\ {p} \cap t = {}
          BY <4>1
      <4> HIDE DEF t
      <4>5. SumFn(G, t) = SumFn(F, In(t))
          BY <1>8, <4>2
      <4>6. SumFn(F, In(s)) = SumFn(F, In({p})) + SumFn(F, In(t))
        <5> DEFINE A == In({p})  B == In(t)
        <5>1. In(s) = A \cup B /\ A \cap B = {}
            BY <1>5, <1>6, <4>4
        <5>2. IsFiniteSet(A) /\ IsFiniteSet(B) /\ \A x \in A \cup B : F[x] \in Int
            BY <1>2
        <5> HIDE DEF A, B
        <5>3. SumFn(F, A \cup B) = SumFn(F, A) + SumFn(F, B)
            BY <5>1, <5>2, SumSplit
        <5> QED BY <5>1, <5>3 DEF A, B
      <4>7. G[p] = SumFn(F, In({p}))
          BY <1>3, <4>1
      <4> QED BY <4>3, <4>5, <4>6, <4>7
    <3> QED BY <3>1, <3>2
  <2> QED BY <2>1
<1>9. Cardinality(J) \in K
  <2> HIDE DEF K
  <2> QED BY <1>1, <1>7, <1>8, NatSetInduction
<1>10. SumFn(G, J) = SumFn(F, In(J))
    BY <1>1, <1>9
<1>11. In(J) = U
  <2>1. \A x : x \in In(J) <=> x \in U
      BY DEF In
  <2> QED BY <2>1
<1> QED BY <1>10, <1>11
=============================================================================
