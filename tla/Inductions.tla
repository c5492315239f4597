----------------------------- MODULE Inductions -----------------------------
(***************************************************************************)
(* What the other proofs need of induction: over the naturals, over the    *)
(* subsets of a finite set, and for the operators of the community modules *)
(* that are defined by recursion.  A property is a set here, since it may  *)
(* not be an operator.                                                     *)
(***************************************************************************)
EXTENDS Integers, Sequences, SequencesExt, FiniteSetTheorems, SequenceTheorems, TLAPS

--------------------------------------------------------------------------
(* Induction over the naturals.                                            *)

LEMMA LessIsWellFounded ==
    IsWellFoundedOn({p \in Nat \X Nat : p[1] < p[2]}, Nat)
<1>1. {p \in Nat \X Nat : p[1] < p[2]} = OpToRel(<, Nat)
  BY DEF OpToRel
<1> QED BY <1>1, NatLessThanWellFounded

LEMMA UpFromZero ==
    ASSUME NEW S, 0 \in S, \A n \in Nat : n \in S => n + 1 \in S
    PROVE  Nat \subseteq S
<1> DEFINE T == Nat \ S
<1> SUFFICES ASSUME T # {} PROVE FALSE
  OBVIOUS
<1>1. PICK x \in T : \A y \in T : ~(<<y, x>> \in {p \in Nat \X Nat : p[1] < p[2]})
  <2>1. T \subseteq Nat
    OBVIOUS
  <2> HIDE DEF T
  <2> QED BY LessIsWellFounded, <2>1, WFMin
<1>2. x \in Nat /\ x # 0 /\ x - 1 \in Nat /\ x - 1 < x
  OBVIOUS
<1>3. x - 1 \in S
  BY <1>1, <1>2
<1> QED BY <1>2, <1>3

\* A set of naturals has a least element.
LEMMA LeastOfSome ==
    ASSUME NEW s \in SUBSET Nat, s # {}
    PROVE  \E k \in s : \A l \in s : k <= l
<1>1. PICK k \in s : \A l \in s : ~(<<l, k>> \in {p \in Nat \X Nat : p[1] < p[2]})
  BY LessIsWellFounded, WFMin
<1>2. ASSUME NEW l \in s PROVE k <= l
  <2>1. k \in Nat /\ l \in Nat /\ <<l, k>>[1] = l /\ <<l, k>>[2] = k
    OBVIOUS
  <2>2. ~(l < k)
    BY <1>1, <2>1
  <2> QED BY <2>1, <2>2
<1> QED BY <1>2

--------------------------------------------------------------------------
(* Induction over the subsets of a finite set.                             *)

\* A property of {} that any set inherits from the set without one of its
\* elements holds of every finite set.
LEMMA UpFromEmpty ==
    ASSUME NEW S, IsFiniteSet(S), NEW Q, {} \in Q,
           \A s \in SUBSET S : s # {} => \E x \in s : (s \ {x} \in Q => s \in Q)
    PROVE  SUBSET S \subseteq Q
<1> DEFINE N == {n \in Nat : \A s \in SUBSET S : Cardinality(s) = n => s \in Q}
<1>1. \A s \in SUBSET S : IsFiniteSet(s) /\ Cardinality(s) \in Nat
  BY FS_Subset, FS_CardinalityType
<1>2. 0 \in N
  BY <1>1, FS_EmptySet
<1>3. ASSUME NEW n \in Nat, n \in N PROVE n + 1 \in N
  <2>1. SUFFICES ASSUME NEW s \in SUBSET S, Cardinality(s) = n + 1 PROVE s \in Q
    OBVIOUS
  <2>2. s # {}
    BY <2>1, FS_EmptySet
  <2>3. PICK x \in s : s \ {x} \in Q => s \in Q
    BY <2>2
  <2>4. Cardinality(s \ {x}) = n /\ s \ {x} \in SUBSET S
    <3>1. Cardinality(s \ {x}) = Cardinality(s) - 1
      BY <1>1, <2>3, FS_RemoveElement
    <3> HIDE DEF N
    <3> QED BY <2>1, <3>1
  <2> QED BY <1>3, <2>3, <2>4
<1>4. Nat \subseteq N
  <2> HIDE DEF N
  <2> QED BY <1>2, <1>3, UpFromZero
<1> QED BY <1>1, <1>4

\* A fold over the subsets of a finite set, which takes out the element picked
\* and steps over it.
FoldInputs(S, V, base, step, pick) ==
    /\ IsFiniteSet(S) /\ base \in V
    /\ \A s \in SUBSET S : s # {} => pick[s] \in s
    /\ \A x \in S : \A v \in V : step[<<x, v>>] \in V
Folds(it, S, V, base, step, pick) ==
    /\ it \in [SUBSET S -> V]
    /\ \A s \in SUBSET S :
          it[s] = IF s = {} THEN base
                  ELSE step[<<pick[s], it[s \ {pick[s]}]>>]

LEMMA FoldExists ==
    ASSUME NEW S, NEW V, NEW base, NEW step, NEW pick,
           FoldInputs(S, V, base, step, pick)
    PROVE  \E it : Folds(it, S, V, base, step, pick)
<1> USE DEF FoldInputs
<1> DEFINE upTo(n) == {s \in SUBSET S : Cardinality(s) <= n}
           defines(it, n) ==
              \A s \in upTo(n) :
                 it[s] = IF s = {} THEN base
                         ELSE step[<<pick[s], it[s \ {pick[s]}]>>]
           N == {n \in Nat : \E it \in [upTo(n) -> V] : defines(it, n)}
<1>1. \A s \in SUBSET S : IsFiniteSet(s) /\ Cardinality(s) \in Nat
  BY FS_Subset, FS_CardinalityType
<1>2. \A s \in SUBSET S : s # {} =>
          /\ s \ {pick[s]} \in SUBSET S
          /\ Cardinality(s \ {pick[s]}) = Cardinality(s) - 1
  BY <1>1, FS_RemoveElement
<1>3. 0 \in N
  <2>1. \A s \in upTo(0) : s = {}
    BY <1>1, FS_EmptySet
  <2>2. [s \in upTo(0) |-> base] \in [upTo(0) -> V]
    OBVIOUS
  <2>3. defines([s \in upTo(0) |-> base], 0)
    BY <2>1
  <2> QED BY <2>2, <2>3
<1>4. ASSUME NEW n \in Nat, n \in N PROVE n + 1 \in N
  <2>1. PICK f \in [upTo(n) -> V] : defines(f, n)
    BY <1>4
  <2> DEFINE g == [s \in upTo(n + 1) |->
                      IF s \in upTo(n) THEN f[s]
                      ELSE step[<<pick[s], f[s \ {pick[s]}]>>]]
  <2>2. \A s \in upTo(n + 1) : s # {} => s \ {pick[s]} \in upTo(n)
    <3> TAKE s \in upTo(n + 1)
    <3> HAVE s # {}
    <3>1. Cardinality(s) \in Nat /\ Cardinality(s) <= n + 1
      BY <1>1
    <3> QED BY <1>2, <3>1
  <2>3. \A s \in upTo(n + 1) : s \notin upTo(n) => s # {}
    <3>1. {} \in upTo(n)
      BY FS_EmptySet
    <3> HIDE DEF upTo
    <3> QED BY <3>1
  <2>4. \A s \in upTo(n) : s \in upTo(n + 1)
    BY <1>1
  <2>5. g \in [upTo(n + 1) -> V]
    <3> SUFFICES ASSUME NEW s \in upTo(n + 1) PROVE g[s] \in V
      OBVIOUS
    <3>1. CASE s \in upTo(n)
      BY <2>1, <3>1
    <3>2. CASE s \notin upTo(n)
      <4>1. s # {} /\ pick[s] \in S /\ f[s \ {pick[s]}] \in V
        BY <2>1, <2>2, <2>3, <3>2
      <4> QED BY <3>2, <4>1
    <3> QED BY <3>1, <3>2
  <2>6. defines(g, n + 1)
    <3> SUFFICES ASSUME NEW s \in upTo(n + 1)
                 PROVE  g[s] = IF s = {} THEN base
                               ELSE step[<<pick[s], g[s \ {pick[s]}]>>]
      OBVIOUS
    <3>1. s # {} => g[s \ {pick[s]}] = f[s \ {pick[s]}]
      BY <2>2, <2>4
    <3>2. CASE s \in upTo(n)
      BY <2>1, <3>1, <3>2
    <3>3. CASE s \notin upTo(n)
      BY <2>3, <3>1, <3>3
    <3> QED BY <3>2, <3>3
  <2>7. \E it \in [upTo(n + 1) -> V] : defines(it, n + 1)
    <3> HIDE DEF g, defines
    <3> QED BY <2>5, <2>6
  <2> HIDE DEF defines, upTo
  <2> QED BY <2>7
<1>5. Cardinality(S) \in N
  <2>1. Nat \subseteq N
    <3> HIDE DEF N
    <3> QED BY <1>3, <1>4, UpFromZero
  <2> HIDE DEF N
  <2> QED BY <2>1, <1>1
<1>6. upTo(Cardinality(S)) = SUBSET S
  BY FS_Subset
<1> QED BY <1>5, <1>6 DEF Folds

\* Folds from the left take the greatest index first.
LEMMA MaxOfSome ==
    ASSUME NEW n \in Nat, NEW s \in SUBSET (1 .. n), s # {}
    PROVE  Max(s) \in s /\ \A y \in s : y <= Max(s)
<1> DEFINE T == {k \in Nat : \A y \in s : y <= k}
<1>1. n \in T /\ T \subseteq Nat
  OBVIOUS
<1>2. PICK k \in T : \A j \in T : ~(<<j, k>> \in {p \in Nat \X Nat : p[1] < p[2]})
  <2> HIDE DEF T
  <2> QED BY <1>1, LessIsWellFounded, WFMin
<1>3. k \in s
  <2> SUFFICES ASSUME k \notin s PROVE FALSE
    OBVIOUS
  <2>1. PICK y \in s : TRUE
    OBVIOUS
  <2>2. k \in Nat /\ y \in 1 .. n /\ y <= k
    BY <1>2, <2>1
  <2>3. k - 1 \in Nat /\ k - 1 < k /\ k - 1 \in T
    BY <1>2, <2>2
  <2> QED BY <1>2, <2>2, <2>3
<1>4. \E x \in s : \A y \in s : x >= y
  BY <1>2, <1>3
<1>5. Max(s) \in s /\ \A y \in s : Max(s) >= y
  BY <1>4 DEF Max
<1> QED BY <1>5

--------------------------------------------------------------------------
(* Folds from the left, and what else goes along a sequence.               *)

LEMMA TopOfInterval ==
    ASSUME NEW n \in Nat, NEW k \in 1 .. n
    PROVE  /\ 1 .. k \in SUBSET (1 .. n) /\ 1 .. k # {}
           /\ Max(1 .. k) = k /\ (1 .. k) \ {k} = 1 .. k - 1
           /\ k \in Nat /\ k - 1 \in 0 .. n
<1>1. k \in Nat /\ 1 <= k /\ k \in 1 .. k /\ k - 1 \in 0 .. n
  OBVIOUS
<1>2. 1 .. k \in SUBSET (1 .. n) /\ 1 .. k \in SUBSET (1 .. k)
  OBVIOUS
<1>3. 1 .. k # {}
  BY <1>1
<1>4. Max(1 .. k) \in 1 .. k /\ k <= Max(1 .. k)
  BY <1>1, <1>2, <1>3, MaxOfSome
<1>5. (1 .. k) \ {k} = 1 .. k - 1
  BY <1>1
<1> QED BY <1>1, <1>2, <1>3, <1>4, <1>5

LEMMA TopWithin ==
    ASSUME NEW n \in Nat, NEW s \in SUBSET (1 .. n), n \in s
    PROVE  Max(s) = n
<1>1. Max(s) \in s /\ n <= Max(s)
  <2>1. s # {}
    OBVIOUS
  <2> QED BY <2>1, MaxOfSome
<1>2. Max(s) \in 1 .. n
  BY <1>1
<1> QED BY <1>1, <1>2

\* A fold that takes the last element of the sequence first exists.
LeftFolds(it, n, V, base, step) ==
    /\ it \in [SUBSET (1 .. n) -> V]
    /\ \A s \in SUBSET (1 .. n) :
          /\ s = {} => it[s] = base
          /\ s # {} => /\ Max(s) \in 1 .. n /\ it[s \ {Max(s)}] \in V
                      /\ it[s] = step[<<Max(s), it[s \ {Max(s)}]>>]
LEMMA LeftFoldExists ==
    ASSUME NEW n \in Nat, NEW V, NEW base \in V, NEW step,
           \A k \in 1 .. n : \A v \in V : step[<<k, v>>] \in V
    PROVE  \E g : LeftFolds(g, n, V, base, step)
<1> DEFINE D == 1 .. n
           pick == [s \in SUBSET D |-> Max(s)]
<1>1. \A s \in SUBSET D : s # {} => Max(s) \in s /\ pick[s] = Max(s)
  BY MaxOfSome
<1>2. FoldInputs(D, V, base, step, pick)
  <2> HIDE DEF pick
  <2>1. IsFiniteSet(D)
    <3>1. IsFiniteSet(1 .. n)
      BY FS_Interval
    <3> QED BY <3>1
  <2> QED BY <1>1, <2>1 DEF FoldInputs
<1>3. PICK g : Folds(g, D, V, base, step, pick)
  <2> HIDE DEF pick, D
  <2> QED BY <1>2, FoldExists
<1>4. g \in [SUBSET D -> V]
  BY <1>3 DEF Folds
<1>5. ASSUME NEW s \in SUBSET D
      PROVE  /\ s = {} => g[s] = base
             /\ s # {} => /\ Max(s) \in D /\ g[s \ {Max(s)}] \in V
                         /\ g[s] = step[<<Max(s), g[s \ {Max(s)}]>>]
  <2> HIDE DEF pick, D
  <2>1. s = {} => g[s] = base
    BY <1>3 DEF Folds
  <2>2. CASE s # {}
    <3>1. Max(s) \in D /\ s \ {Max(s)} \in SUBSET D /\ pick[s] = Max(s)
      BY <1>1, <2>2
    <3>2. g[s] = step[<<pick[s], g[s \ {pick[s]}]>>]
      BY <1>3, <2>2 DEF Folds
    <3> QED BY <1>4, <2>2, <3>1, <3>2
  <2> QED BY <2>1, <2>2
<1> HIDE DEF pick
<1> QED BY <1>4, <1>5 DEF LeftFolds

\* What holds of the first member of a chain and is handed on holds of all.
LEMMA ChainStays ==
    ASSUME NEW n \in Nat, NEW V, NEW chain, chain[0] \in V,
           \A k \in 1 .. n : chain[k - 1] \in V => chain[k] \in V
    PROVE  \A k \in 0 .. n : chain[k] \in V
<1> DEFINE S == {k \in Nat : k \in 0 .. n => chain[k] \in V}
<1>1. 0 \in S
  OBVIOUS
<1>2. ASSUME NEW k \in Nat, k \in S PROVE k + 1 \in S
  <2>1. SUFFICES ASSUME k + 1 \in 0 .. n PROVE chain[k + 1] \in V
    OBVIOUS
  <2>2. k \in 0 .. n /\ k + 1 \in 1 .. n /\ (k + 1) - 1 = k
    BY <2>1
  <2>3. chain[k] \in V
    BY <1>2, <2>2
  <2>4. chain[(k + 1) - 1] \in V => chain[k + 1] \in V
    BY <2>2
  <2> QED BY <2>2, <2>3, <2>4
<1>3. Nat \subseteq S
  <2> HIDE DEF S
  <2> QED BY <1>1, <1>2, UpFromZero
<1> QED BY <1>3

\* Sequences are joined one after the other.
LEMMA FlattenRuns ==
    ASSUME NEW S, NEW ss \in Seq(Seq(S)), Len(ss) # 0
    PROVE  \E flat :
              /\ FlattenSeq(ss) = flat[Len(ss)]
              /\ flat[1] = ss[1]
              /\ \A k \in 2 .. Len(ss) : flat[k] = flat[k - 1] \o ss[k]
              /\ \A k \in 1 .. Len(ss) : flat[k] \in Seq(S)
<1> DEFINE n == Len(ss)
           body(g, i) == IF i = 1 THEN ss[i] ELSE g[i - 1] \o ss[i]
           flat == CHOOSE g : g = [i \in 1 .. n |-> body(g, i)]
<1>1. n \in Nat /\ n >= 1 /\ \A i \in 1 .. n : ss[i] \in Seq(S)
  BY LenProperties, ElementOfSeq
<1>2. FlattenSeq(ss) = flat[n]
  BY DEF FlattenSeq
<1>3. \E g : g = [i \in 1 .. n |-> body(g, i)]
  <2> DEFINE D == 1 .. n
             step == [p \in D \X Seq(S) |-> p[2] \o ss[p[1]]]
  <2> HIDE DEF n
  <2>1. \A k \in D : \A v \in Seq(S) : /\ step[<<k, v>>] = v \o ss[k]
                                       /\ v \o ss[k] \in Seq(S)
    BY <1>1, ConcatProperties
  <2>2. <<>> \in Seq(S)
    BY EmptySeq
  <2> HIDE DEF step, flat
  <2>8. n \in Nat /\ \A k \in D : \A v \in Seq(S) : step[<<k, v>>] \in Seq(S)
    BY <1>1, <2>1
  <2>3. PICK it \in [SUBSET D -> Seq(S)] :
           \A s \in SUBSET D :
              /\ s = {} => it[s] = <<>>
              /\ s # {} => /\ Max(s) \in D /\ it[s \ {Max(s)}] \in Seq(S)
                          /\ it[s] = step[<<Max(s), it[s \ {Max(s)}]>>]
    <3> DEFINE V == Seq(S)
               none == <<>>
    <3>1. none \in V /\ \A k \in 1 .. n : \A v \in V : step[<<k, v>>] \in V
      BY <2>2, <2>8
    <3> HIDE DEF V, none
    <3>2. \E it : LeftFolds(it, n, V, none, step)
      BY <2>8, <3>1, LeftFoldExists
    <3> QED BY <3>2 DEF V, none, LeftFolds
  <2> DEFINE g == [i \in 1 .. n |-> it[1 .. i]]
  <2>4. \A i \in 1 .. n : it[1 .. i] = it[1 .. i - 1] \o ss[i]
    <3> TAKE i \in 1 .. n
    <3>1. /\ 1 .. i \in SUBSET D /\ 1 .. i # {} /\ Max(1 .. i) = i
          /\ (1 .. i) \ {i} = 1 .. i - 1
      BY <1>1, TopOfInterval
    <3>2. it[1 .. i] = step[<<i, it[1 .. i - 1]>>] /\ it[1 .. i - 1] \in Seq(S)
      BY <2>3, <3>1
    <3> QED BY <2>1, <3>2 DEF D
  <2>5. it[1 .. 0] = <<>>
    <3>1. 1 .. 0 = {}
      OBVIOUS
    <3> QED BY <2>3, <3>1
  <2>6. \A i \in 1 .. n : g[i] = body(g, i)
    <3> TAKE i \in 1 .. n
    <3>1. CASE i = 1
      <4>1. i - 1 = 0
        BY <3>1
      <4>2. g[i] = <<>> \o ss[i]
        BY <2>4, <2>5, <4>1
      <4> QED BY <1>1, <3>1, <4>2, ConcatEmptySeq
    <3>2. CASE i # 1
      <4>1. i - 1 \in 1 .. n
        BY <1>1, <3>2
      <4> QED BY <2>4, <3>2, <4>1
    <3> QED BY <3>1, <3>2
  <2>7. g = [i \in 1 .. n |-> body(g, i)]
    <3> HIDE DEF body
    <3> QED BY <2>6
  <2> QED BY <2>7
<1>4. flat = [i \in 1 .. n |-> body(flat, i)]
  <2> HIDE DEF body, n
  <2> QED BY <1>3
<1>5. flat[1] = ss[1] /\ \A k \in 2 .. n : flat[k] = flat[k - 1] \o ss[k]
  <2> HIDE DEF flat
  <2>1. \A i \in 1 .. n : flat[i] = body(flat, i)
    BY <1>4
  <2>2. flat[1] = ss[1]
    BY <1>1, <2>1
  <2>3. \A k \in 2 .. n : k \in 1 .. n /\ k # 1
    BY <1>1
  <2> QED BY <2>1, <2>2, <2>3
<1>6. \A k \in 1 .. n : flat[k] \in Seq(S)
  <2> HIDE DEF flat, n
  <2> DEFINE chain == [k \in 0 .. n |-> IF k = 0 THEN <<>> ELSE flat[k]]
  <2>1. chain[0] \in Seq(S)
    BY <1>1, EmptySeq
  <2>2. \A k \in 1 .. n : chain[k - 1] \in Seq(S) => chain[k] \in Seq(S)
    <3> TAKE k \in 1 .. n
    <3>1. chain[k] = flat[k]
      BY <1>1
    <3>2. CASE k = 1
      BY <1>1, <1>5, <3>1, <3>2
    <3>3. CASE k # 1
      <4>1. k \in 2 .. n /\ k - 1 \in 0 .. n /\ k - 1 # 0
        BY <1>1, <3>3
      <4>2. chain[k - 1] = flat[k - 1] /\ flat[k] = flat[k - 1] \o ss[k]
        BY <1>5, <4>1
      <4>3. ss[k] \in Seq(S)
        BY <1>1
      <4> HIDE DEF chain
      <4> QED BY <3>1, <4>2, <4>3, ConcatProperties
    <3> QED BY <3>2, <3>3
  <2>3. \A k \in 0 .. n : chain[k] \in Seq(S)
    <3> HIDE DEF chain
    <3> QED BY <1>1, <2>1, <2>2, ChainStays
  <2>4. \A k \in 1 .. n : chain[k] = flat[k] /\ k \in 0 .. n
    BY <1>1
  <2> QED BY <2>3, <2>4
<1> HIDE DEF flat
<1> QED BY <1>2, <1>5, <1>6

\* The places of what two sequences hold in their concatenation.
LEMMA ConcatPlaces ==
    ASSUME NEW S, NEW s \in Seq(S), NEW t \in Seq(S),
           NEW m \in Nat, NEW n \in Nat, m = Len(s), n = Len(t)
    PROVE  /\ s \o t \in Seq(S) /\ Len(s \o t) = m + n
           /\ \A i \in 1 .. m : (s \o t)[i] = s[i]
           /\ \A i \in 1 .. n : (s \o t)[m + i] = t[i]
<1>1. /\ s \o t \in Seq(S) /\ Len(s \o t) = m + n
      /\ \A i \in 1 .. m + n : (s \o t)[i] = IF i <= m THEN s[i] ELSE t[i - m]
  BY ConcatProperties
<1>2. \A i \in 1 .. m : i \in 1 .. m + n /\ i <= m
  OBVIOUS
<1>3. \A i \in 1 .. n : m + i \in 1 .. m + n /\ ~(m + i <= m) /\ (m + i) - m = i
  OBVIOUS
<1> QED BY <1>1, <1>2, <1>3

LEMMA Prepended ==
    ASSUME NEW S, NEW x \in S, NEW s \in Seq(S), NEW t \in Seq(S), NEW n \in Nat,
           n = Len(s), Len(t) = 1 + n, t[1] = x,
           \A i \in 1 .. n : t[1 + i] = s[i]
    PROVE  <<x>> \o s = t
<1> DEFINE h == <<x>>
           one == 1
           c == h \o s
<1>1. h \in Seq(S) /\ one = Len(h) /\ h[1] = x /\ one \in Nat
  OBVIOUS
<1>2. /\ c \in Seq(S) /\ Len(c) = one + n
      /\ \A i \in 1 .. one : c[i] = h[i]
      /\ \A i \in 1 .. n : c[one + i] = s[i]
  <2> HIDE DEF h, one
  <2> QED BY <1>1, ConcatPlaces
<1> HIDE DEF h, c
<1>3. Len(c) = Len(t) /\ Len(c) = 1 + n
  BY <1>2
<1>4. \A i \in 1 .. 1 + n : c[i] = t[i]
  <2> TAKE i \in 1 .. 1 + n
  <2>1. CASE i = 1
    BY <1>1, <1>2, <2>1
  <2>2. CASE i # 1
    <3>1. i - 1 \in 1 .. n /\ 1 + (i - 1) = i
      BY <2>2
    <3> QED BY <1>2, <3>1
  <2> QED BY <2>1, <2>2
<1>5. c = t
  BY <1>2, <1>3, <1>4, SeqEqual
<1> QED BY <1>5 DEF c, h

\* Where each of the sequences joined begins and ends.
Ends(ss, at) ==
    /\ at \in [0 .. Len(ss) -> Nat]
    /\ at[0] = 0
    /\ \A k \in 1 .. Len(ss) : at[k] = at[k - 1] + Len(ss[k])

LEMMA JoinedRuns ==
    ASSUME NEW S, NEW ss \in Seq(Seq(S)), NEW at, Ends(ss, at)
    PROVE  /\ FlattenSeq(ss) \in Seq(S)
           /\ Len(FlattenSeq(ss)) = at[Len(ss)]
           /\ \A k \in 1 .. Len(ss) : \A i \in 1 .. Len(ss[k]) :
                 FlattenSeq(ss)[at[k - 1] + i] = ss[k][i]
<1> DEFINE n == Len(ss)
<1>1. n \in Nat /\ \A k \in 1 .. n : ss[k] \in Seq(S) /\ Len(ss[k]) \in Nat
  BY LenProperties, ElementOfSeq
<1>2. /\ at[0] = 0 /\ \A k \in 0 .. n : at[k] \in Nat
      /\ \A k \in 1 .. n : at[k] = at[k - 1] + Len(ss[k])
  BY DEF Ends
<1>3. CASE n = 0
  <2>1. ss = <<>>
    BY <1>3, EmptySeq
  <2>2. FlattenSeq(ss) = <<>>
    BY <2>1 DEF FlattenSeq
  <2> QED BY <1>2, <1>3, <2>2, EmptySeq
<1>4. CASE n # 0
  <2>1. PICK flat :
           /\ FlattenSeq(ss) = flat[n] /\ flat[1] = ss[1]
           /\ \A k \in 2 .. n : flat[k] = flat[k - 1] \o ss[k]
           /\ \A k \in 1 .. n : flat[k] \in Seq(S)
    BY <1>4, FlattenRuns
  <2> DEFINE upTo(m) ==
                /\ Len(flat[m]) = at[m]
                /\ \A k \in 1 .. m :
                      /\ at[k] <= at[m]
                      /\ \A i \in 1 .. Len(ss[k]) : flat[m][at[k - 1] + i] = ss[k][i]
             V == {m \in 0 .. n : m # 0 => upTo(m)}
             chain == [m \in 0 .. n |-> m]
  <2> HIDE DEF n
  <2>2. upTo(1)
    <3>1. 1 \in 1 .. n /\ 1 - 1 = 0 /\ \A k \in 1 .. 1 : k = 1
      BY <1>1, <1>4
    <3>2. at[1] = Len(ss[1])
      BY <1>1, <1>2, <3>1
    <3>3. \A i \in 1 .. Len(ss[1]) : 0 + i = i
      BY <1>1, <3>1
    <3> QED BY <1>1, <1>2, <2>1, <3>1, <3>2, <3>3
  <2>3. ASSUME NEW m \in 2 .. n, upTo(m - 1) PROVE upTo(m)
    <3>1. /\ m \in 1 .. n /\ m - 1 \in 1 .. n /\ m - 1 \in 0 .. n /\ m \in 0 .. n
          /\ m \in Nat /\ n \in Nat
      BY <1>1
    <3>2. PICK l \in Nat : l = Len(ss[m])
      BY <1>1, <3>1
    <3>3. PICK e \in Nat : e = at[m - 1]
      BY <1>2, <3>1
    <3>4. /\ flat[m] = flat[m - 1] \o ss[m] /\ flat[m - 1] \in Seq(S) /\ ss[m] \in Seq(S)
          /\ Len(flat[m - 1]) = e /\ at[m] = e + l
      <4>1. flat[m] = flat[m - 1] \o ss[m] /\ flat[m - 1] \in Seq(S) /\ ss[m] \in Seq(S)
        BY <1>1, <2>1, <3>1
      <4>2. Len(flat[m - 1]) = e
        BY <2>3, <3>3
      <4>3. at[m] = at[m - 1] + Len(ss[m])
        BY <1>2, <3>1
      <4> QED BY <3>2, <3>3, <4>1, <4>2, <4>3
    <3>5. /\ Len(flat[m]) = e + l
          /\ \A i \in 1 .. e : flat[m][i] = flat[m - 1][i]
          /\ \A i \in 1 .. l : flat[m][e + i] = ss[m][i]
      <4> DEFINE x == flat[m - 1]
                 y == ss[m]
      <4>1. x \in Seq(S) /\ y \in Seq(S) /\ e = Len(x) /\ l = Len(y) /\ flat[m] = x \o y
        BY <3>2, <3>4
      <4> HIDE DEF x, y
      <4>2. /\ Len(x \o y) = e + l
            /\ \A i \in 1 .. e : (x \o y)[i] = x[i]
            /\ \A i \in 1 .. l : (x \o y)[e + i] = y[i]
        BY <4>1, ConcatPlaces
      <4> QED BY <4>1, <4>2 DEF x, y
    <3>6. ASSUME NEW k \in 1 .. m
          PROVE  /\ at[k] <= at[m]
                 /\ \A i \in 1 .. Len(ss[k]) : flat[m][at[k - 1] + i] = ss[k][i]
      <4>1. CASE k = m
        <5>1. at[m] \in Nat
          BY <3>4
        <5>2. \A i \in 1 .. Len(ss[m]) : flat[m][at[m - 1] + i] = ss[m][i]
          BY <3>2, <3>3, <3>5
        <5>3. at[m] <= at[m]
          BY <5>1
        <5> QED BY ONLY <4>1, <5>2, <5>3
      <4>2. CASE k # m
        <5>1. k \in 1 .. m - 1 /\ k \in 1 .. n /\ k \in 0 .. n /\ k - 1 \in 0 .. n
          BY <3>1, <4>2
        <5>2. PICK o \in Nat : o = at[k - 1]
          BY <1>2, <5>1
        <5>3. PICK j \in Nat : j = Len(ss[k])
          BY <1>1, <5>1
        <5>4. at[k] = o + j /\ o + j <= e
          BY <1>2, <2>3, <3>3, <5>1, <5>2, <5>3
        <5>5. at[k] <= at[m]
          BY <3>4, <5>4
        <5>6. \A i \in 1 .. j : o + i \in 1 .. e
          BY <5>4
        <5>7. \A i \in 1 .. j : flat[m - 1][o + i] = ss[k][i]
          BY <2>3, <5>1, <5>2, <5>3
        <5> QED BY <3>5, <5>2, <5>3, <5>5, <5>6, <5>7
      <4> QED BY <4>1, <4>2
    <3> QED BY <3>4, <3>5, <3>6
  <2>4. chain[0] \in V
    BY <1>1
  <2>5. ASSUME NEW m \in 1 .. n, chain[m - 1] \in V PROVE chain[m] \in V
    <3>1. m \in 0 .. n /\ m - 1 \in 0 .. n /\ (m = 1 \/ (m \in 2 .. n /\ m - 1 # 0))
      BY <1>1
    <3>2. m - 1 # 0 => upTo(m - 1)
      BY <2>5, <3>1
    <3> HIDE DEF upTo
    <3> QED BY <2>2, <2>3, <3>1, <3>2
  <2>6. n \in 0 .. n /\ n # 0 /\ chain[n] = n
    BY <1>1, <1>4
  <2>7. upTo(n)
    <3> HIDE DEF upTo
    <3>1. \A m \in 0 .. n : chain[m] \in V
      <4> HIDE DEF chain, V
      <4> QED BY <1>1, <2>4, <2>5, ChainStays
    <3> QED BY <2>6, <3>1
  <2>8. n \in 1 .. n
    BY <1>1, <1>4
  <2> QED BY <2>1, <2>7, <2>8 DEF n
<1> QED BY <1>3, <1>4

\* A recursion along a sequence of positions, each with a later one to go on
\* from, has a solution.
Descends(f, n, V, base, next, step) ==
    /\ f \in [0 .. n -> V] /\ f[n] = base
    /\ \A p \in 0 .. n - 1 : f[p] = step[<<p, f[next[p]]>>]
LEMMA DescentExists ==
    ASSUME NEW n \in Nat, NEW V, NEW base \in V, NEW next, NEW step,
           \A p \in 0 .. n - 1 : next[p] \in p + 1 .. n,
           \A p \in 0 .. n - 1 : \A v \in V : step[<<p, v>>] \in V
    PROVE  \E f : Descends(f, n, V, base, next, step)
<1> DEFINE solves(f, k) ==
              /\ f \in [n - k .. n -> V] /\ f[n] = base
              /\ \A p \in n - k .. n - 1 : f[p] = step[<<p, f[next[p]]>>]
           S == {k \in Nat : k <= n => \E f : solves(f, k)}
<1>1. 0 \in S
  <2>1. solves([p \in n .. n |-> base], 0)
    BY SMT
  <2> QED BY <2>1
<1>2. ASSUME NEW k \in Nat, k \in S PROVE k + 1 \in S
  <2> HIDE DEF solves
  <2> SUFFICES ASSUME k + 1 <= n PROVE \E f : solves(f, k + 1)
    OBVIOUS
  <2>8. k <= n
    OBVIOUS
  <2>9. \E f : solves(f, k)
    BY <1>2, <2>8
  <2> USE DEF solves
  <2>1. PICK f : solves(f, k)
    BY <2>9
  <2> DEFINE q == n - (k + 1)
             h == [p \in q .. n |-> IF p = q THEN step[<<q, f[next[q]]>>] ELSE f[p]]
  <2>2. /\ q \in 0 .. n - 1 /\ n - k = q + 1 /\ q # n /\ n \in q .. n
        /\ \A p \in q .. n : p = q \/ (p # q /\ p \in n - k .. n)
        /\ \A p \in q .. n - 1 : p = q \/ (p # q /\ p \in n - k .. n - 1)
    OBVIOUS
  <2>3. next[q] \in n - k .. n /\ f[next[q]] \in V /\ next[q] # q
    BY <2>1, <2>2
  <2>4. h \in [q .. n -> V]
    <3> SUFFICES ASSUME NEW p \in q .. n PROVE h[p] \in V
      OBVIOUS
    <3> HIDE DEF q
    <3> QED BY <2>1, <2>2, <2>3
  <2>5. h[n] = base
    <3> HIDE DEF q
    <3> QED BY <2>1, <2>2
  <2>6. ASSUME NEW p \in q .. n - 1 PROVE h[p] = step[<<p, h[next[p]]>>]
    <3>1. next[p] \in p + 1 .. n /\ p \in 0 .. n - 1
      BY <2>2
    <3>2. next[p] \in q .. n /\ next[p] # q
      BY <2>2, <3>1
    <3> HIDE DEF q
    <3>3. h[next[p]] = f[next[p]]
      BY <3>2
    <3>4. CASE p = q
      <4>1. q \in q .. n
        BY <2>2
      <4>2. h[q] = step[<<q, f[next[q]]>>]
        BY <4>1
      <4> HIDE DEF h
      <4> QED BY <3>3, <3>4, <4>2
    <3>5. CASE p # q
      <4>1. p \in n - k .. n - 1 /\ p \in q .. n
        BY <2>2, <3>1, <3>5
      <4> QED BY <2>1, <3>3, <3>5, <4>1
    <3> QED BY <3>4, <3>5
  <2>7. solves(h, k + 1)
    <3> HIDE DEF h
    <3> QED BY <2>4, <2>5, <2>6
  <2> QED BY <2>7
<1>3. Nat \subseteq S
  <2> HIDE DEF S
  <2> QED BY <1>1, <1>2, UpFromZero
<1>4. PICK f : solves(f, n)
  BY <1>3
<1>5. n - n = 0
  OBVIOUS
<1>6. Descends(f, n, V, base, next, step)
  BY <1>4, <1>5 DEF Descends
<1> QED BY <1>6

--------------------------------------------------------------------------
(* Sequences given place by place, and without one of their elements.      *)

\* Any sequence given place by place.
LEMMA MadeSeq ==
    ASSUME NEW n \in Nat, NEW f, f = [k \in 1 .. n |-> f[k]]
    PROVE  f \in Seq({f[k] : k \in 1 .. n}) /\ Len(f) = n
<1>1. f \in [1 .. n -> {f[k] : k \in 1 .. n}]
  OBVIOUS
<1> QED BY <1>1, SeqDef, LenProperties

\* r is s, of n elements, without the element at i.
Without(r, S, s, n, i) ==
    /\ r \in Seq(S) /\ Len(r) = n - 1
    /\ \A j \in 1 .. i - 1 : r[j] = s[j]
    /\ \A j \in i .. n - 1 : r[j] = s[j + 1]

LEMMA RemoveAtPlaces ==
    ASSUME NEW S, NEW s \in Seq(S), NEW n \in Nat, n = Len(s), NEW i \in 1 .. n
    PROVE  Without(RemoveAt(s, i), S, s, n, i)
<1> DEFINE x == SubSeq(s, 1, i - 1)
           y == SubSeq(s, i + 1, n)
<1>0. i - 1 \in Nat /\ n - i \in Nat
  OBVIOUS
<1>10. PICK l \in Nat : l = i - 1
  BY <1>0
<1>11. PICK m \in Nat : m = n - i
  BY <1>0
<1>1. l = i - 1 /\ m = n - i
  BY <1>10, <1>11
<1>2. \A j \in 1 .. n : s[j] \in S
  BY ElementOfSeq
<1>3. x \in Seq(S) /\ l = Len(x) /\ \A j \in 1 .. l : x[j] = s[j]
  <2>1. 1 \in Int /\ i - 1 \in Int /\ \A j \in 1 .. i - 1 : s[j] \in S
    BY <1>2
  <2>2. /\ x \in Seq(S) /\ Len(x) = IF 1 <= i - 1 THEN (i - 1) - 1 + 1 ELSE 0
        /\ \A j \in 1 .. (i - 1) - 1 + 1 : x[j] = s[1 + j - 1]
    BY <2>1, SubSeqProperties
  <2>3. (i - 1) - 1 + 1 = l /\ (~(1 <= i - 1) => l = 0)
        /\ \A j \in 1 .. l : 1 + j - 1 = j
    BY <1>1
  <2> HIDE DEF x
  <2> QED BY <2>2, <2>3
<1>4. y \in Seq(S) /\ m = Len(y) /\ \A j \in 1 .. m : y[j] = s[i + j]
  <2>1. i + 1 \in Int /\ n \in Int /\ \A j \in i + 1 .. n : s[j] \in S
    BY <1>2
  <2>2. /\ y \in Seq(S) /\ Len(y) = IF i + 1 <= n THEN n - (i + 1) + 1 ELSE 0
        /\ \A j \in 1 .. n - (i + 1) + 1 : y[j] = s[(i + 1) + j - 1]
    BY <2>1, SubSeqProperties
  <2>3. n - (i + 1) + 1 = m /\ (~(i + 1 <= n) => m = 0)
        /\ \A j \in 1 .. m : (i + 1) + j - 1 = i + j
    BY <1>1
  <2> HIDE DEF y
  <2> QED BY <2>2, <2>3
<1> DEFINE r == RemoveAt(s, i)
<1>5. r = x \o y
  BY DEF RemoveAt
<1> HIDE DEF x, y
<1>6. /\ x \o y \in Seq(S) /\ Len(x \o y) = l + m
      /\ \A j \in 1 .. l : (x \o y)[j] = x[j]
      /\ \A j \in 1 .. m : (x \o y)[l + j] = y[j]
  <2>1. x \in Seq(S) /\ y \in Seq(S) /\ l = Len(x) /\ m = Len(y)
    BY <1>3, <1>4
  <2> QED BY <2>1, ConcatPlaces
<1>7. ASSUME NEW j \in i .. n - 1 PROVE r[j] = s[j + 1]
  <2>1. j - l \in 1 .. m /\ l + (j - l) = j /\ i + (j - l) = j + 1
    BY <1>1
  <2>2. (x \o y)[l + (j - l)] = y[j - l] /\ y[j - l] = s[i + (j - l)]
    BY <1>4, <1>6, <2>1
  <2> QED BY <1>5, <2>1, <2>2
<1>8. ASSUME NEW j \in 1 .. i - 1 PROVE r[j] = s[j]
  <2>1. j \in 1 .. l
    BY <1>1
  <2> QED BY <1>3, <1>5, <1>6, <2>1
<1>9. l + m = n - 1
  BY <1>1
<1>12. r \in Seq(S) /\ Len(r) = n - 1
  BY <1>5, <1>6, <1>9
<1> HIDE DEF r
<1>13. Without(r, S, s, n, i)
  BY <1>7, <1>8, <1>12 DEF Without
<1> QED BY <1>13 DEF r
==========================================================================
