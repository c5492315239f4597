---------------------------- MODULE XqmxVmProofs ----------------------------
(***************************************************************************)
(* Models and the handlers that look inside them, for every word width,    *)
(* register file, program and host.  The operators of Xqmx keep models     *)
(* well formed: each coefficient has one place, a key in normal form, and  *)
(* is a word other than zero; expansions fold over the terms they add and  *)
(* energies over the coefficients.  Of the handlers nothing is assumed but *)
(* that a host passes in models: AnyModel gives the two constants of XqVm  *)
(* their largest value.                                                    *)
(***************************************************************************)
EXTENDS Tracer, XqVmProofs

--------------------------------------------------------------------------
(* The folds of the models: what sums, products and sequences of terms are. *)
(* A fold is chosen as a function that satisfies its equation; one exists.  *)

LEMMA SumInInt ==
    ASSUME NEW f, IsFiniteSet(DOMAIN f), \A x \in DOMAIN f : f[x] \in Int
    PROVE  SumFunction(f) \in Int
<1> DEFINE D == DOMAIN f
           first(s) == CHOOSE x \in s : TRUE
           body(g, s) == IF s = {} THEN 0 ELSE f[first(s)] + g[s \ {first(s)}]
           it == CHOOSE g : g = [s \in SUBSET D |-> body(g, s)]
<1>1. SumFunction(f) = it[D]
  BY DEF SumFunction, SumFunctionOnSet, FoldFunctionOnSet, MapThenFoldSet
<1>2. \E g : g = [s \in SUBSET D |-> body(g, s)]
  <2> DEFINE pick == [s \in SUBSET D |-> first(s)]
             step == [p \in D \X Int |-> f[p[1]] + p[2]]
  <2>1. \A s \in SUBSET D : s # {} => pick[s] \in s
    OBVIOUS
  <2>2. \A x \in D : \A v \in Int : step[<<x, v>>] = f[x] + v /\ f[x] + v \in Int
    OBVIOUS
  <2>3. PICK g : Folds(g, D, Int, 0, step, pick)
    <3>1. FoldInputs(D, Int, 0, step, pick)
      BY <2>1, <2>2 DEF FoldInputs
    <3> HIDE DEF pick, step, D
    <3> QED BY <3>1, FoldExists
  <2>4. \A s \in SUBSET D : g[s] = body(g, s)
    <3> TAKE s \in SUBSET D
    <3>1. CASE s = {}
      BY <2>3, <3>1 DEF Folds
    <3>2. CASE s # {}
      <4>1. first(s) \in D /\ pick[s] = first(s) /\ g[s \ {first(s)}] \in Int
        BY <2>3, <3>2 DEF Folds
      <4> HIDE DEF pick, step, first
      <4> QED BY <2>2, <2>3, <3>2, <4>1 DEF Folds
    <3> QED BY <3>1, <3>2
  <2>5. g = [s \in SUBSET D |-> body(g, s)]
    <3> HIDE DEF body
    <3> QED BY <2>3, <2>4 DEF Folds
  <2> QED BY <2>5
<1>3. it = [s \in SUBSET D |-> body(it, s)]
  <2> HIDE DEF body
  <2> QED BY <1>2
<1>4. SUBSET D \subseteq {s \in SUBSET D : it[s] \in Int}
  <2> DEFINE Q == {s \in SUBSET D : it[s] \in Int}
  <2> HIDE DEF it
  <2>1. {} \in Q
    BY <1>3
  <2>2. ASSUME NEW s \in SUBSET D, s # {}
        PROVE  first(s) \in s /\ (s \ {first(s)} \in Q => s \in Q)
    <3>1. first(s) \in s
      BY <2>2
    <3>2. it[s] = f[first(s)] + it[s \ {first(s)}]
      BY <1>3, <2>2
    <3> HIDE DEF first
    <3> QED BY <3>1, <3>2
  <2>3. SUBSET D \subseteq Q
    <3>1. IsFiniteSet(D)
      OBVIOUS
    <3>2. \A s \in SUBSET D :
             s # {} => \E x \in s : (s \ {x} \in Q => s \in Q)
      <4> HIDE DEF Q, first, D
      <4> QED BY <2>2
    <3> HIDE DEF Q, D
    <3> QED BY <2>1, <3>1, <3>2, UpFromEmpty, Zenon
  <2> QED BY <2>3 DEF Q
<1> QED BY <1>1, <1>4

LEMMA MonomialInInt ==
    ASSUME NEW x, NEW key, IsFiniteSet(DOMAIN key),
           \A k \in DOMAIN key : x[key[k] + 1] \in Int
    PROVE  Monomial(key, x) \in Int
<1> DEFINE D == DOMAIN key
           first(s) == CHOOSE k \in s : TRUE
           body(g, s) == IF s = {} THEN 1 ELSE x[key[first(s)] + 1] * g[s \ {first(s)}]
           it == CHOOSE g : g = [s \in SUBSET D |-> body(g, s)]
<1>1. Monomial(key, x) = it[D]
  BY DEF Monomial, FoldFunction, FoldFunctionOnSet, MapThenFoldSet
<1>2. \E g : g = [s \in SUBSET D |-> body(g, s)]
  <2> DEFINE pick == [s \in SUBSET D |-> first(s)]
             step == [p \in D \X Int |-> x[key[p[1]] + 1] * p[2]]
  <2>1. \A s \in SUBSET D : s # {} => pick[s] \in s
    OBVIOUS
  <2>2. \A k \in D : \A v \in Int : /\ step[<<k, v>>] = x[key[k] + 1] * v
                                   /\ x[key[k] + 1] * v \in Int
    OBVIOUS
  <2>3. PICK g : Folds(g, D, Int, 1, step, pick)
    <3>1. FoldInputs(D, Int, 1, step, pick)
      BY <2>1, <2>2 DEF FoldInputs
    <3> HIDE DEF pick, step, D
    <3> QED BY <3>1, FoldExists
  <2>4. \A s \in SUBSET D : g[s] = body(g, s)
    <3> TAKE s \in SUBSET D
    <3>1. CASE s = {}
      BY <2>3, <3>1 DEF Folds
    <3>2. CASE s # {}
      <4>1. first(s) \in D /\ pick[s] = first(s) /\ g[s \ {first(s)}] \in Int
        BY <2>3, <3>2 DEF Folds
      <4> HIDE DEF pick, step, first
      <4> QED BY <2>2, <2>3, <3>2, <4>1 DEF Folds
    <3> QED BY <3>1, <3>2
  <2>5. g = [s \in SUBSET D |-> body(g, s)]
    <3> HIDE DEF body
    <3> QED BY <2>3, <2>4 DEF Folds
  <2> QED BY <2>5
<1>3. it = [s \in SUBSET D |-> body(it, s)]
  <2> HIDE DEF body
  <2> QED BY <1>2
<1>4. SUBSET D \subseteq {s \in SUBSET D : it[s] \in Int}
  <2> DEFINE Q == {s \in SUBSET D : it[s] \in Int}
  <2> HIDE DEF it
  <2>1. {} \in Q
    BY <1>3
  <2>2. ASSUME NEW s \in SUBSET D, s # {}
        PROVE  first(s) \in s /\ (s \ {first(s)} \in Q => s \in Q)
    <3>1. first(s) \in s
      BY <2>2
    <3>2. it[s] = x[key[first(s)] + 1] * it[s \ {first(s)}]
      BY <1>3, <2>2
    <3> HIDE DEF first
    <3> QED BY <3>1, <3>2
  <2>3. SUBSET D \subseteq Q
    <3>1. IsFiniteSet(D)
      OBVIOUS
    <3>2. \A s \in SUBSET D :
             s # {} => \E k \in s : (s \ {k} \in Q => s \in Q)
      <4> HIDE DEF Q, first, D
      <4> QED BY <2>2
    <3> HIDE DEF Q, D
    <3> QED BY <2>1, <3>1, <3>2, UpFromEmpty, Zenon
  <2> QED BY <2>3 DEF Q
<1> QED BY <1>1, <1>4

--------------------------------------------------------------------------
(* Models and samples a program or a host can make: keys in normal form,   *)
(* no coefficient that is zero, finitely many of them, and a grid of words. *)

Keys == {<<i>> : i \in Nat} \cup {p \in Nat \X Nat : p[1] <= p[2]}
Coefs == UNION {[K -> Word \ {0}] : K \in {K \in SUBSET Keys : IsFiniteSet(K)}}
Domains == {<<"Binary">>, <<"Spin">>} \cup {<<"Discrete", k>> : k \in Word}
ModelSet == [domain : Domains, size : Nat, coef : Coefs,
             rows : 0 .. MaxWord, cols : 0 .. MaxWord]
SampleSet == [domain : Domains, values : Seq(Word),
              rows : 0 .. MaxWord, cols : 0 .. MaxWord]

LEMMA CoefsAre ==
    \A f : f \in Coefs <=> /\ IsFiniteSet(DOMAIN f) /\ DOMAIN f \subseteq Keys
                           /\ f \in [DOMAIN f -> Word \ {0}]
BY DEF Coefs

LEMMA NewInSets ==
    ASSUME NEW domain \in Domains
    PROVE  /\ \A size \in Nat : NewModel(domain, size) \in ModelSet
           /\ \A values \in Seq(Word) : NewSample(domain, values) \in SampleSet
<1>1. 0 \in 0 .. MaxWord
  BY WordIsInterval DEF MaxWord
<1>2. <<>> \in Coefs
  <2>1. DOMAIN <<>> = {} /\ <<>> \in [{} -> Word \ {0}]
    OBVIOUS
  <2> QED BY <2>1, FS_EmptySet, CoefsAre
<1> QED BY <1>1, <1>2 DEF NewModel, NewSample, ModelSet, SampleSet

LEMMA KeysAreKeys ==
    ASSUME NEW i \in Nat, NEW j \in Nat
    PROVE  LinearKey(i) \in Keys /\ QuadKey(i, j) \in Keys
<1>1. LinearKey(i) \in Keys
  BY DEF LinearKey, Keys
<1>2. CASE i <= j
  BY <1>1, <1>2 DEF QuadKey, Keys
<1>3. CASE ~(i <= j)
  BY <1>1, <1>3 DEF QuadKey, Keys
<1> QED BY <1>2, <1>3

LEMMA NoKeyIsEmpty == <<>> \notin Keys
<1>1. \A i \in Nat : <<i>> # <<>>
  <2> TAKE i \in Nat
  <2>1. Len(<<i>>) = 1 /\ Len(<<>>) = 0
    OBVIOUS
  <2> QED BY <2>1
<1>2. \A p \in Nat \X Nat : p # <<>>
  <2> TAKE p \in Nat \X Nat
  <2>1. PICK i \in Nat, j \in Nat : p = <<i, j>>
    OBVIOUS
  <2>2. Len(<<i, j>>) = 2 /\ Len(<<>>) = 0
    OBVIOUS
  <2> QED BY <2>1, <2>2
<1> QED BY <1>1, <1>2 DEF Keys

LEMMA CoefInWord ==
    ASSUME NEW m \in ModelSet, NEW key PROVE Coef(m, key) \in Word
<1>1. 0 \in Word /\ m.coef \in Coefs
  BY WordIsInterval DEF ModelSet
<1> QED BY <1>1, CoefsAre DEF Coef

\* A coefficient that is set to zero goes, under whatever key.
LEMMA WithCoefOK ==
    ASSUME NEW m \in ModelSet, NEW v \in Word, NEW key, key \in Keys \/ v = 0
    PROVE  WithCoef(m, key, v) \in ModelSet
<1> DEFINE f == m.coef
           keys == IF v = 0 THEN DOMAIN f \ {key} ELSE DOMAIN f \cup {key}
           g == [k \in keys |-> IF k = key THEN v ELSE f[k]]
<1>1. /\ f \in Coefs /\ IsFiniteSet(DOMAIN f) /\ DOMAIN f \subseteq Keys
      /\ \A k \in DOMAIN f : f[k] \in Word \ {0}
  BY CoefsAre DEF ModelSet
<1>2. IsFiniteSet(keys) /\ keys \subseteq Keys
  BY <1>1, FS_Difference, FS_Singleton, FS_Union
<1>3. g \in [keys -> Word \ {0}]
  <2> HIDE DEF f
  <2> QED BY <1>1
<1>4. g \in Coefs
  <2> HIDE DEF keys, g
  <2> QED BY <1>2, <1>3, CoefsAre
<1> HIDE DEF g
<1> QED BY <1>4 DEF WithCoef, ModelSet, g

--------------------------------------------------------------------------
(* The terms of an expansion, and what adding them makes of a model.       *)

LEMMA AddressInNat == ASSUME NEW x \in Int PROVE Address(x) \in Nat
<1>1. Half \in Nat \ {0}
  BY WordIsInterval
<1> QED BY <1>1 DEF Address

\* A term without a key is a value computed between two others: it adds zero.
TermSet == {t \in [key : Keys \cup {<<>>}, steps : Seq(Int), wide : SUBSET Int] :
               /\ t.steps # <<>>
               /\ t.key = <<>> => t.steps[Len(t.steps)] = 0}

LEMMA TermsAreTerms ==
    ASSUME NEW i \in Int, NEW j \in Int, NEW deltas \in Seq(Int), deltas # <<>>
    PROVE  LinearTerm(i, deltas) \in TermSet /\ QuadTerm(i, j, deltas) \in TermSet
<1>1. Address(i) \in Nat /\ Address(j) \in Nat
  BY AddressInNat
<1>2. /\ LinearKey(Address(i)) \in Keys
      /\ QuadKey(Address(i), Address(j)) \in Keys
  BY <1>1, KeysAreKeys
<1> QED BY <1>2, NoKeyIsEmpty DEF LinearTerm, QuadTerm, Term, TermSet

LEMMA ComputeIsTerm == ASSUME NEW x \in Int PROVE Compute(x) \in TermSet
<1>1. /\ <<x, 0>> \in Seq(Int) /\ <<x, 0>> # <<>>
      /\ <<x, 0>>[Len(<<x, 0>>)] = 0
  <2>1. Len(<<x, 0>>) = 2 /\ Len(<<>>) = 0
    OBVIOUS
  <2> QED BY <2>1
<1> QED BY <1>1 DEF Compute, Term, TermSet

LEMMA AddTermOK ==
    ASSUME NEW m \in ModelSet, NEW t \in TermSet PROVE AddTerm(m, t) \in ModelSet
<1> DEFINE d == t.steps[Len(t.steps)]
           v == Wrap(Coef(m, t.key) + d)
<1>1. d \in Int /\ Coef(m, t.key) \in Int
  <2>1. Len(t.steps) \in 1 .. Len(t.steps) /\ t.steps \in Seq(Int)
    BY LenProperties, EmptySeq DEF TermSet
  <2>2. d \in Int
    BY <2>1, ElementOfSeq
  <2> QED BY <2>2, CoefInWord, WordIsInterval
<1>2. v \in Word
  BY <1>1, WrapInWord
<1>3. t.key \in Keys \/ v = 0
  <2>1. CASE t.key = <<>>
    <3>1. Coef(m, t.key) = 0 /\ d = 0
      BY <2>1, NoKeyIsEmpty, CoefsAre DEF Coef, ModelSet, TermSet
    <3>2. (0 + Half) % (2 * Half) = Half
      BY WordIsInterval
    <3> QED BY <3>1, <3>2, WordIsInterval DEF Wrap
  <2> QED BY <2>1 DEF TermSet
<1> QED BY <1>2, <1>3, WithCoefOK DEF AddTerm

\* Whatever the terms, and whether one of them panics, a model stays a model.
LEMMA ExpandOK ==
    ASSUME NEW m \in ModelSet, NEW terms \in Seq(TermSet), NEW checks \in BOOLEAN
    PROVE  Expand(m, terms, checks).model \in ModelSet
<1> DEFINE D == DOMAIN terms
           V == [model : ModelSet, panic : BOOLEAN]
           base == [model |-> m, panic |-> FALSE]
           after(acc, t) == IF acc.panic \/ (checks /\ TermPanics(acc.model, t))
                            THEN [acc EXCEPT !.panic = TRUE]
                            ELSE [acc EXCEPT !.model = AddTerm(@, t)]
           body(g, s) == IF s = {} THEN base
                         ELSE after(g[s \ {Max(s)}], terms[Max(s)])
           it == CHOOSE g : g = [s \in SUBSET D |-> body(g, s)]
<1>1. Expand(m, terms, checks) = it[D]
  BY DEF Expand, FoldLeft, MapThenFoldSet
<1>2. IsFiniteSet(D) /\ base \in V
  <2>1. D = 1 .. Len(terms) /\ Len(terms) \in Nat
    BY LenProperties
  <2> QED BY <2>1, FS_Interval
<1>3. \A s \in SUBSET D : s # {} => Max(s) \in s
  BY MaxOfSome, LenProperties
<1>4. \A k \in D : \A acc \in V : after(acc, terms[k]) \in V
  <2> TAKE k \in D
  <2> TAKE acc \in V
  <2>1. terms[k] \in TermSet
    BY LenProperties, ElementOfSeq
  <2>2. AddTerm(acc.model, terms[k]) \in ModelSet
    BY <2>1, AddTermOK
  <2> QED BY <2>2
<1>5. \E g : g = [s \in SUBSET D |-> body(g, s)]
  <2> DEFINE pick == [s \in SUBSET D |-> Max(s)]
             step == [p \in D \X V |-> after(p[2], terms[p[1]])]
  <2> HIDE DEF after, base, D, V
  <2>1. \A k \in D : \A v \in V : step[<<k, v>>] = after(v, terms[k])
    OBVIOUS
  <2>2. PICK g : Folds(g, D, V, base, step, pick)
    <3>1. \A s \in SUBSET D : s # {} => pick[s] \in s
      BY <1>3
    <3>2. \A k \in D : \A v \in V : step[<<k, v>>] \in V
      BY <1>4, <2>1
    <3> HIDE DEF pick, step
    <3>3. FoldInputs(D, V, base, step, pick)
      BY <1>2, <3>1, <3>2 DEF FoldInputs
    <3> QED BY <3>3, FoldExists
  <2>3. \A s \in SUBSET D : g[s] = body(g, s)
    <3> TAKE s \in SUBSET D
    <3>1. CASE s = {}
      BY <2>2, <3>1 DEF Folds
    <3>2. CASE s # {}
      <4>1. Max(s) \in D /\ pick[s] = Max(s) /\ g[s \ {Max(s)}] \in V
        BY <1>3, <2>2, <3>2 DEF Folds
      <4> HIDE DEF pick, step
      <4> QED BY <2>1, <2>2, <3>2, <4>1 DEF Folds
    <3> QED BY <3>1, <3>2
  <2>4. g = [s \in SUBSET D |-> body(g, s)]
    <3> HIDE DEF body
    <3> QED BY <2>2, <2>3 DEF Folds
  <2> QED BY <2>4
<1>6. it = [s \in SUBSET D |-> body(it, s)]
  <2> HIDE DEF body, D
  <2> QED BY <1>5
<1>7. SUBSET D \subseteq {s \in SUBSET D : it[s] \in V}
  <2> DEFINE Q == {s \in SUBSET D : it[s] \in V}
  <2> HIDE DEF it, after, base, V, D
  <2>1. {} \in Q
    BY <1>2, <1>6
  <2>2. \A s \in SUBSET D :
           s # {} => \E k \in s : (s \ {k} \in Q => s \in Q)
    <3> SUFFICES ASSUME NEW s \in SUBSET D, s # {}
                 PROVE  Max(s) \in s /\ (s \ {Max(s)} \in Q => s \in Q)
      OBVIOUS
    <3>1. Max(s) \in s /\ Max(s) \in D
      BY <1>3
    <3>2. it[s] = after(it[s \ {Max(s)}], terms[Max(s)])
      BY <1>6
    <3> QED BY <1>4, <3>1, <3>2
  <2> HIDE DEF Q
  <2>3. SUBSET D \subseteq Q
    BY <1>2, <2>1, <2>2, UpFromEmpty, Zenon
  <2> QED BY <2>3 DEF Q
<1> QED BY <1>1, <1>7

\* The pairs an expansion visits are pairs of its indices.
LEMMA FlattenInSeq ==
    ASSUME NEW S, NEW ss \in Seq(Seq(S)) PROVE FlattenSeq(ss) \in Seq(S)
<1>1. Len(ss) \in Nat
  BY LenProperties
<1>2. CASE Len(ss) = 0
  <2>1. ss = <<>>
    BY <1>2, EmptySeq
  <2> QED BY <1>2, <2>1, EmptySeq DEF FlattenSeq
<1>3. CASE Len(ss) # 0
  <2>1. Len(ss) \in 1 .. Len(ss)
    BY <1>1, <1>3
  <2> QED BY <1>3, <2>1, FlattenRuns
<1> QED BY <1>2, <1>3

LEMMA PairsInSeq ==
    ASSUME NEW n \in Nat PROVE PairsOf(n) \in Seq((1 .. n) \X (1 .. n))
<1> DEFINE P == (1 .. n) \X (1 .. n)
           row(k) == [l \in 1 .. n - k |-> <<k, k + l>>]
<1>1. ASSUME NEW k \in 1 .. n PROVE row(k) \in Seq(P)
  <2>1. n - k \in Nat
    OBVIOUS
  <2>2. \A l \in 1 .. n - k : <<k, k + l>> \in P
    OBVIOUS
  <2>3. row(k) \in [1 .. n - k -> P]
    <3> HIDE DEF P
    <3> QED BY <2>2
  <2> HIDE DEF row, P
  <2> QED BY <2>1, <2>3, SeqDef
<1>2. [k \in 1 .. n |-> row(k)] \in Seq(Seq(P))
  <2> HIDE DEF row, P
  <2>1. [k \in 1 .. n |-> row(k)] \in [1 .. n -> Seq(P)]
    BY <1>1
  <2> QED BY <2>1, SeqDef
<1>3. PairsOf(n) = FlattenSeq([k \in 1 .. n |-> row(k)])
  BY DEF PairsOf
<1> HIDE DEF row, P
<1>4. PairsOf(n) \in Seq(P)
  BY <1>2, <1>3, FlattenInSeq
<1> QED BY <1>4 DEF P

\* What each constraint expands to is a sequence of terms.
LEMMA ListOf ==
    ASSUME NEW S, NEW n \in Nat, NEW f, DOMAIN f = 1 .. n,
           f = [k \in DOMAIN f |-> f[k]], \A k \in 1 .. n : f[k] \in S
    PROVE  f \in Seq(S)
<1>1. f \in [1 .. n -> S]
  OBVIOUS
<1> QED BY <1>1, SeqDef

LEMMA PairAt ==
    ASSUME NEW n \in Nat, NEW q \in 1 .. Len(PairsOf(n))
    PROVE  PairsOf(n)[q][1] \in 1 .. n /\ PairsOf(n)[q][2] \in 1 .. n
<1>1. PairsOf(n)[q] \in (1 .. n) \X (1 .. n)
  BY PairsInSeq, ElementOfSeq
<1> QED BY <1>1

LEMMA EqualityTermsOK ==
    ASSUME NEW indices \in Seq(Int), NEW coeffs \in Seq(Int),
           Len(indices) = Len(coeffs), NEW b \in Int, NEW penalty \in Int
    PROVE  EqualityTerms(indices, coeffs, b, penalty) \in Seq(TermSet)
<1> DEFINE n == Len(indices)
           pair == PairsOf(n)
           linear == [k \in 1 .. n |->
               LinearTerm(indices[k],
                   <<penalty * coeffs[k], coeffs[k] - 2 * b,
                     penalty * coeffs[k] * (coeffs[k] - 2 * b)>>)]
           quad == [q \in 1 .. Len(pair) |->
               QuadTerm(indices[pair[q][1]], indices[pair[q][2]],
                   <<2 * penalty * coeffs[pair[q][1]],
                     2 * penalty * coeffs[pair[q][1]] * coeffs[pair[q][2]]>>)]
<1>1. /\ n \in Nat
      /\ \A k \in 1 .. n : indices[k] \in Int /\ coeffs[k] \in Int
  BY LenProperties, ElementOfSeq
<1>2. Len(pair) \in Nat
  BY <1>1, PairsInSeq, LenProperties
<1>3. linear \in Seq(TermSet)
  <2>1. \A k \in 1 .. n : linear[k] \in TermSet
    <3> TAKE k \in 1 .. n
    <3> DEFINE i == indices[k]
               c == coeffs[k]
               deltas == <<penalty * c, c - 2 * b, penalty * c * (c - 2 * b)>>
    <3>1. i \in Int /\ c \in Int
      BY <1>1
    <3> HIDE DEF i, c
    <3>2. deltas \in Seq(Int) /\ deltas # <<>>
      <4>1. /\ penalty * c \in Int /\ c - 2 * b \in Int
            /\ penalty * c * (c - 2 * b) \in Int
        BY <3>1
      <4>2. Len(deltas) = 3 /\ Len(<<>>) = 0
        OBVIOUS
      <4> QED BY <4>1, <4>2
    <3> HIDE DEF deltas
    <3>3. LinearTerm(i, deltas) \in TermSet
      BY <3>1, <3>2, TermsAreTerms
    <3> QED BY <3>3 DEF i, c, deltas
  <2> HIDE DEF n
  <2>2. DOMAIN linear = 1 .. n /\ linear = [k \in DOMAIN linear |-> linear[k]]
    OBVIOUS
  <2> HIDE DEF linear
  <2> QED BY <1>1, <2>1, <2>2, ListOf
<1>4. quad \in Seq(TermSet)
  <2>1. \A q \in 1 .. Len(pair) : quad[q] \in TermSet
    <3> TAKE q \in 1 .. Len(pair)
    <3> DEFINE k == pair[q][1]
               l == pair[q][2]
               i == indices[k]
               j == indices[l]
               c == coeffs[k]
               d == coeffs[l]
               deltas == <<2 * penalty * c, 2 * penalty * c * d>>
    <3>1. i \in Int /\ j \in Int /\ c \in Int /\ d \in Int
      <4>1. k \in 1 .. n /\ l \in 1 .. n
        BY <1>1, PairAt
      <4> HIDE DEF k, l, n
      <4> QED BY <1>1, <4>1
    <3> HIDE DEF i, j, c, d
    <3>2. deltas \in Seq(Int) /\ deltas # <<>>
      <4>1. 2 * penalty * c \in Int /\ 2 * penalty * c * d \in Int
        BY <3>1
      <4>2. Len(deltas) = 2 /\ Len(<<>>) = 0
        OBVIOUS
      <4> QED BY <4>1, <4>2
    <3> HIDE DEF deltas
    <3>3. QuadTerm(i, j, deltas) \in TermSet
      BY <3>1, <3>2, TermsAreTerms
    <3> QED BY <3>3 DEF i, j, c, d, deltas
  <2> HIDE DEF pair
  <2>2. DOMAIN quad = 1 .. Len(pair) /\ quad = [k \in DOMAIN quad |-> quad[k]]
    OBVIOUS
  <2> HIDE DEF quad
  <2> QED BY <1>2, <2>1, <2>2, ListOf
<1>5. <<Compute(2 * b)>> \in Seq(TermSet) /\ <<Compute(2 * penalty)>> \in Seq(TermSet)
  <2>1. 2 * b \in Int /\ 2 * penalty \in Int
    OBVIOUS
  <2> QED BY <2>1, ComputeIsTerm
<1>6. EqualityTerms(indices, coeffs, b, penalty)
        = ((<<Compute(2 * b)>> \o linear) \o <<Compute(2 * penalty)>>) \o quad
  BY DEF EqualityTerms
<1> HIDE DEF linear, quad
<1> QED BY <1>3, <1>4, <1>5, <1>6, ConcatProperties

LEMMA OneHotTermsOK ==
    ASSUME NEW cells \in Seq(Int), NEW penalty \in Int
    PROVE  OneHotTerms(cells, penalty) \in Seq(TermSet)
<1> DEFINE n == Len(cells)
           pair == PairsOf(n)
           linear == [k \in 1 .. n |-> LinearTerm(cells[k], <<-penalty>>)]
           quad == [q \in 1 .. Len(pair) |->
               QuadTerm(cells[pair[q][1]], cells[pair[q][2]], <<2 * penalty>>)]
<1>1. n \in Nat /\ \A k \in 1 .. n : cells[k] \in Int
  BY LenProperties, ElementOfSeq
<1>2. Len(pair) \in Nat
  BY <1>1, PairsInSeq, LenProperties
<1>3. /\ <<-penalty>> \in Seq(Int) /\ <<-penalty>> # <<>>
      /\ <<2 * penalty>> \in Seq(Int) /\ <<2 * penalty>> # <<>>
  <2>1. -penalty \in Int /\ 2 * penalty \in Int
    OBVIOUS
  <2>2. \A x : Len(<<x>>) = 1 /\ Len(<<>>) = 0
    OBVIOUS
  <2> QED BY <2>1, <2>2
<1>4. linear \in Seq(TermSet)
  <2>1. \A k \in 1 .. n : linear[k] \in TermSet
    BY <1>1, <1>3, TermsAreTerms
  <2> HIDE DEF n
  <2>2. DOMAIN linear = 1 .. n /\ linear = [k \in DOMAIN linear |-> linear[k]]
    OBVIOUS
  <2> HIDE DEF linear
  <2> QED BY <1>1, <2>1, <2>2, ListOf
<1>5. quad \in Seq(TermSet)
  <2>1. \A q \in 1 .. Len(pair) : quad[q] \in TermSet
    <3> TAKE q \in 1 .. Len(pair)
    <3>1. pair[q][1] \in 1 .. n /\ pair[q][2] \in 1 .. n
      BY <1>1, PairAt
    <3>2. cells[pair[q][1]] \in Int /\ cells[pair[q][2]] \in Int
      <4> HIDE DEF n
      <4> QED BY <1>1, <3>1
    <3> HIDE DEF pair
    <3> QED BY <1>3, <3>2, TermsAreTerms
  <2> HIDE DEF pair
  <2>2. DOMAIN quad = 1 .. Len(pair) /\ quad = [k \in DOMAIN quad |-> quad[k]]
    OBVIOUS
  <2> HIDE DEF quad
  <2> QED BY <1>2, <2>1, <2>2, ListOf
<1>6. OneHotTerms(cells, penalty) = linear \o quad
  BY DEF OneHotTerms
<1> HIDE DEF linear, quad
<1> QED BY <1>4, <1>5, <1>6, ConcatProperties

LEMMA SomeTermsOK ==
    ASSUME NEW i \in Int, NEW j \in Int, NEW w \in Int, NEW p \in Int
    PROVE  /\ <<QuadTerm(i, j, <<p>>)>> \in Seq(TermSet)
           /\ ExcludeTerms(i, j, p) \in Seq(TermSet)
           /\ ImpliesTerms(i, j, p) \in Seq(TermSet)
           /\ ReduceTerms(i, j, w, p) \in Seq(TermSet)
<1>1. \A x \in Int : <<x>> \in Seq(Int) /\ <<x>> # <<>>
  <2> TAKE x \in Int
  <2>1. Len(<<x>>) = 1 /\ Len(<<>>) = 0
    OBVIOUS
  <2> QED BY <2>1
<1>2. -p \in Int /\ -2 * p \in Int /\ 3 * p \in Int
  OBVIOUS
<1>3. \A a \in Int : \A b \in Int : \A x \in Int :
         LinearTerm(a, <<x>>) \in TermSet /\ QuadTerm(a, b, <<x>>) \in TermSet
  BY <1>1, TermsAreTerms
<1>4. \A s, t, u, v \in TermSet :
         /\ <<s>> \in Seq(TermSet) /\ <<s, t>> \in Seq(TermSet)
         /\ <<s, t, u, v>> \in Seq(TermSet)
  OBVIOUS
<1> QED BY <1>2, <1>3, <1>4 DEF ExcludeTerms, ImpliesTerms, ReduceTerms

LEMMA CellsInSeq ==
    ASSUME NEW grid, grid.rows \in Nat, grid.cols \in Nat, NEW n \in Int
    PROVE  /\ RowCells(grid, n) \in Seq(Int) /\ Len(RowCells(grid, n)) = grid.cols
           /\ ColCells(grid, n) \in Seq(Int) /\ Len(ColCells(grid, n)) = grid.rows
<1> DEFINE rows == grid.rows
           cols == grid.cols
<1>1. \A c \in 1 .. cols : n * cols + c - 1 \in Int
  <2>1. n * cols \in Int
    OBVIOUS
  <2> HIDE DEF rows
  <2> QED BY <2>1
<1>2. \A r \in 1 .. rows : (r - 1) * cols + n \in Int
  <2> TAKE r \in 1 .. rows
  <2>1. r - 1 \in Int
    OBVIOUS
  <2>2. (r - 1) * cols \in Int
    BY <2>1
  <2> QED BY <2>2
<1>3. RowCells(grid, n) \in [1 .. cols -> Int]
  BY <1>1 DEF RowCells
<1>4. ColCells(grid, n) \in [1 .. rows -> Int]
  BY <1>2 DEF ColCells
<1> QED BY <1>3, <1>4, SeqDef, LenProperties

\* The energy of a sample that has the model's size.
LEMMA EnergyInWord ==
    ASSUME NEW m \in ModelSet, NEW values \in Seq(Word), Len(values) = m.size,
           InRange(m)
    PROVE  Energy(m, values) \in Word
<1> DEFINE f == [key \in DOMAIN m.coef |-> m.coef[key] * Monomial(key, values)]
<1>1. /\ IsFiniteSet(DOMAIN m.coef) /\ DOMAIN m.coef \subseteq Keys
      /\ \A key \in DOMAIN m.coef : m.coef[key] \in Int
  BY CoefsAre, WordIsInterval DEF ModelSet
<1>2. ASSUME NEW key \in DOMAIN m.coef PROVE Monomial(key, values) \in Int
  <2>1. key \in Keys
    BY <1>1
  <2>2. /\ DOMAIN key = 1 .. 1 \/ DOMAIN key = 1 .. 2
        /\ \A k \in DOMAIN key : key[k] \in Nat
    BY <2>1 DEF Keys
  <2>3. IsFiniteSet(DOMAIN key)
    <3>1. \A n \in Nat : IsFiniteSet(1 .. n)
      BY FS_Interval
    <3>2. PICK n \in Nat : DOMAIN key = 1 .. n
      BY <2>2
    <3> QED BY <3>1, <3>2
  <2>4. \A k \in DOMAIN key : values[key[k] + 1] \in Int
    <3> TAKE k \in DOMAIN key
    <3>1. key[k] \in Nat /\ key[k] < m.size /\ m.size \in Nat
      BY <2>2 DEF InRange, ModelSet
    <3>2. key[k] + 1 \in 1 .. Len(values)
      BY <3>1
    <3> QED BY <3>2, ElementOfSeq, WordIsInterval
  <2> QED BY <2>3, <2>4, MonomialInInt
<1>3. \A key \in DOMAIN f : f[key] \in Int
  BY <1>1, <1>2
<1>4. SumFunction(f) \in Int
  <2>1. DOMAIN f = DOMAIN m.coef
    OBVIOUS
  <2> HIDE DEF f
  <2> QED BY <1>1, <1>3, <2>1, SumInInt
<1>5. Hamiltonian(m, values) = SumFunction(f)
  BY DEF Hamiltonian
<1> QED BY <1>4, <1>5, WrapInWord DEF Energy

\* The slack variables: their number and what an inequality is made of.
LEMMA SumOfWords ==
    ASSUME NEW s \in Seq(Int) PROVE SumFunction(s) \in Int
<1>1. DOMAIN s = 1 .. Len(s) /\ Len(s) \in Nat
  BY LenProperties
<1>2. IsFiniteSet(DOMAIN s) /\ \A k \in DOMAIN s : s[k] \in Int
  BY <1>1, FS_Interval, ElementOfSeq
<1> QED BY <1>2, SumInInt

LEMMA SlacksInSeq ==
    ASSUME NEW start \in Int, NEW n \in 0 .. WordBits
    PROVE  /\ SlackIndices(start, n) \in Seq(Int) /\ Len(SlackIndices(start, n)) = n
           /\ SlackCoeffs(n) \in Seq(Int) /\ Len(SlackCoeffs(n)) = n
<1>1. n \in Nat
  BY WordIsInterval
<1>2. \A i \in 1 .. n : start + i - 1 \in Int
  OBVIOUS
<1>3. \A i \in 1 .. n : -(2 ^ (i - 1)) \in Int
  <2> TAKE i \in 1 .. n
  <2>1. i - 1 \in 0 .. WordBits
    BY WordIsInterval
  <2>2. 2 ^ (i - 1) \in Nat
    BY <2>1, PowerOfBit
  <2> QED BY <2>2
<1>4. SlackIndices(start, n) \in [1 .. n -> Int]
  BY <1>2 DEF SlackIndices
<1>5. SlackCoeffs(n) \in [1 .. n -> Int]
  BY <1>3 DEF SlackCoeffs
<1> QED BY <1>1, <1>4, <1>5, SeqDef, LenProperties

--------------------------------------------------------------------------
(* The handlers.                                                           *)

AnyModel == Models = ModelSet /\ Samples = SampleSet

LEMMA ModelValues ==
    ASSUME AnyModel
    PROVE  /\ \A m \in ModelSet : ModelVal(m) \in RegVal
           /\ \A s \in SampleSet : SampleVal(s) \in RegVal
           /\ \A v \in RegVal :
                 /\ IsModel(v) => v.model \in ModelSet /\ v = ModelVal(v.model)
                 /\ v.tag = "Sample" => v.sample \in SampleSet
                                        /\ v = SampleVal(v.sample)
                 /\ IsVecInt(v) => v.ints \in Seq(Word)
BY DEF AnyModel, RegVal, ModelVal, SampleVal, IsModel, IsVecInt

LEMMA ModelNeeds ==
    /\ \A op \in {"BQMX", "SQMX", "BSMX", "SSMX", "GETLINE", "ROWSUM", "COLSUM"} :
          Needs(op) = 1
    /\ \A op \in {"XQMX", "XSMX", "SETLINE", "ADDLINE", "GETQUAD", "RESIZE",
                  "ROWFIND", "COLFIND", "ONEHOTR", "ONEHOTC", "EQUALITY",
                  "ATLEAST", "ATLEASTW"} : Needs(op) = 2
    /\ \A op \in {"SETQUAD", "ADDQUAD", "EXCLUDE", "IMPLIES", "REDUCE"} :
          Needs(op) = 3
BY DEF Needs, NeedOne, NeedTwo, NeedThree, UnaryOps, BinaryOps

\* The registers an instruction names, and what is in them.
LEMMA Named ==
    ASSUME TypeOK, NEW ops, Executing(ops)
    PROVE  /\ Current.r1 \in Reg /\ Current.r2 \in Reg /\ Current.r3 \in Reg
           /\ regs[Current.r1] \in RegVal /\ regs[Current.r2] \in RegVal
           /\ regs[Current.r3] \in RegVal
BY HandlerStart DEF TypeOK, RegsOK, VmInstr

\* The two ways a handler ends that writes a register or fails before it does.
LEMMA Stowed ==
    ASSUME TypeOK, NEW ops, Executing(ops), NEW v \in RegVal,
           Stow(Current.r1, v), Continue \/ \E e \in VmErrors : Fault(e)
    PROVE  RegsOK' /\ ControlOK'
BY Named, RegisterSet, Outcomes DEF Stow

LEMMA FaultedKeeping ==
    ASSUME TypeOK, NEW ops, Executing(ops), NEW e \in VmErrors,
           FaultKeepingRegs(e)
    PROVE  RegsOK' /\ ControlOK'
BY Kept, Outcomes DEF FaultKeepingRegs

LEMMA Added ==
    ASSUME AnyModel, TypeOK, NEW ops, Executing(ops), NEW m \in ModelSet,
           NEW terms \in Seq(TermSet), Add(Current.r1, m, terms)
    PROVE  RegsOK' /\ ControlOK'
<1> DEFINE result == Expand(m, terms, OverflowChecks)
<1>1. OverflowChecks \in BOOLEAN
  BY VmAssumption
<1>2. result.model \in ModelSet
  BY <1>1, ExpandOK
<1>3. ModelVal(result.model) \in RegVal
  BY <1>2, ModelValues
<1>4. Stow(Current.r1, ModelVal(result.model))
  BY DEF Add
<1>5. Continue \/ Fault("Panic")
  BY DEF Add
<1> HIDE DEF result
<1> QED BY <1>3, <1>4, <1>5, Stowed DEF VmErrors

LEMMA WordsAreInts ==
    /\ Word \subseteq Int /\ Seq(Word) \subseteq Seq(Int)
    /\ 0 \in Word /\ 1 \in Word /\ -1 \in Word
    /\ MaxWord \in Word /\ MaxWord \in Nat
    /\ \A x \in Word : x <= MaxWord
<1>1. Word \subseteq Int
  BY WordIsInterval
<1>2. ASSUME NEW s \in Seq(Word) PROVE s \in Seq(Int)
  <2>1. s \in [1 .. Len(s) -> Word] /\ Len(s) \in Nat
    BY LenProperties
  <2>2. s \in [1 .. Len(s) -> Int]
    BY <1>1, <2>1
  <2> QED BY <2>1, <2>2, SeqDef
<1> QED BY <1>1, <1>2, WordIsInterval DEF MaxWord

--------------------------------------------------------------------------
(* Allocation and coefficient access.                                     *)

LEMMA ModelUnderflowOK == ASSUME TypeOK, ModelUnderflow PROVE TypeOK'
<1>1. ControlOK' /\ RegsOK' /\ LoopsOK' /\ SlotsOK'
  BY DEF TypeOK, ControlOK, WellFormed, RegsOK, LoopsOK, SlotsOK, ModelUnderflow,
         Fault, VmErrors, hostVars
<1>2. StackOK'
  <2>1. <<>> \in Seq(Word) /\ Len(<<>>) = 0
    BY EmptySeq
  <2> QED BY <2>1, LimitIsNat DEF StackOK, ModelUnderflow
<1> QED BY <1>1, <1>2 DEF TypeOK

\* Sizes popped from the stack, and samples of a value.
LEMMA SizeInNat == ASSUME NEW x \in Word PROVE SizeOf(x) \in Nat
BY WordIsInterval DEF SizeOf

LEMMA SameValues ==
    ASSUME NEW n \in Nat, NEW v \in Word PROVE [i \in 1 .. n |-> v] \in Seq(Word)
OBVIOUS

LEMMA AllocateOK == ASSUME AnyModel, TypeOK, ExecAllocate PROVE TypeOK'
<1> DEFINE size == SizeOf(Operand(1))
           domain == IF Current.op \in {"BQMX", "BSMX"} THEN "Binary" ELSE "Spin"
           value == IF domain = "Binary" THEN 0 ELSE -1
           v == IF Current.op \in ModelAllocators
                THEN ModelVal(NewModel(<<domain>>, size))
                ELSE SampleVal(NewSample(<<domain>>, [i \in 1 .. size |-> value]))
<1> DEFINE ops == {"BQMX", "SQMX", "BSMX", "SSMX"}
<1>1. Executing(ops) /\ UNCHANGED <<loopStack, outputs>> /\ Stow(Current.r1, v)
      /\ Continue /\ stack' = Rest(1)
  BY DEF ExecAllocate
<1>2. Needs(Current.op) = 1
  BY <1>1, HandlerStart, ModelNeeds
<1>3. Operand(1) \in Word /\ StackOK'
  BY <1>1, <1>2, Operands
<1>4. v \in RegVal
  <2>1. size \in Nat /\ value \in Word /\ <<domain>> \in Domains
    BY <1>3, SizeInNat, WordsAreInts DEF Domains
  <2> HIDE DEF size, value, domain
  <2>2. [i \in 1 .. size |-> value] \in Seq(Word)
    BY <2>1, SameValues
  <2> QED BY <2>1, <2>2, NewInSets, ModelValues
<1> HIDE DEF v
<1>5. RegsOK' /\ ControlOK'
  BY <1>1, <1>4, Stowed
<1> QED BY <1>1, <1>3, <1>5, Assembled

LEMMA AllocateDiscreteOK ==
    ASSUME AnyModel, TypeOK, ExecAllocateDiscrete PROVE TypeOK'
<1> DEFINE k == Operand(1)
           size == SizeOf(Operand(2))
           v == IF Current.op = "XQMX"
                THEN ModelVal(NewModel(<<"Discrete", k>>, size))
                ELSE SampleVal(NewSample(<<"Discrete", k>>, [i \in 1 .. size |-> 0]))
           ops == {"XQMX", "XSMX"}
<1>1. Executing(ops) /\ UNCHANGED <<loopStack, outputs>> /\ stack' = Rest(2)
  BY DEF ExecAllocateDiscrete
<1>2. Needs(Current.op) = 2
  BY <1>1, HandlerStart, ModelNeeds
<1>3. Operand(1) \in Word /\ Operand(2) \in Word /\ StackOK'
  BY <1>1, <1>2, Operands
<1>4. v \in RegVal
  <2>1. size \in Nat /\ 0 \in Word /\ <<"Discrete", k>> \in Domains
    BY <1>3, SizeInNat, WordsAreInts DEF Domains
  <2> HIDE DEF size, k
  <2>2. [i \in 1 .. size |-> 0] \in Seq(Word)
    BY <2>1, SameValues
  <2> QED BY <2>1, <2>2, NewInSets, ModelValues
<1>5. FaultKeepingRegs("InvalidDiscreteK") \/ (Stow(Current.r1, v) /\ Continue)
  BY DEF ExecAllocateDiscrete
<1> HIDE DEF v
<1>6. RegsOK' /\ ControlOK'
  BY <1>1, <1>4, <1>5, Stowed, FaultedKeeping DEF VmErrors
<1> QED BY <1>1, <1>3, <1>6, Assembled

\* What models and samples have in common.
LEMMA GridFacts ==
    ASSUME AnyModel, NEW v \in RegVal, IsGrid(v)
    PROVE  /\ GridSize(v) \in Nat
           /\ GridOf(v).rows \in 0 .. MaxWord /\ GridOf(v).cols \in 0 .. MaxWord
           /\ \A i \in Nat : LinearAt(v, i) \in Word
<1>1. CASE IsModel(v)
  <2>1. v.model \in ModelSet
    BY <1>1, ModelValues
  <2>2. \A i \in Nat : Coef(v.model, LinearKey(i)) \in Word
    BY <2>1, CoefInWord
  <2>3. v.model.size \in Nat /\ v.model.rows \in 0 .. MaxWord
        /\ v.model.cols \in 0 .. MaxWord
    BY <2>1 DEF ModelSet
  <2> QED BY <1>1, <2>2, <2>3 DEF GridSize, GridOf, LinearAt
<1>2. CASE ~IsModel(v)
  <2>1. v.sample \in SampleSet
    BY <1>2, ModelValues DEF IsGrid, IsModel
  <2>2. /\ v.sample.values \in Seq(Word) /\ v.sample.rows \in 0 .. MaxWord
        /\ v.sample.cols \in 0 .. MaxWord /\ Len(v.sample.values) \in Nat
    BY <2>1, LenProperties DEF SampleSet
  <2>3. ASSUME NEW i \in Nat PROVE LinearAt(v, i) \in Word
    <3>1. CASE i < Len(v.sample.values)
      <4>1. i + 1 \in 1 .. Len(v.sample.values)
        BY <2>2, <3>1
      <4>2. v.sample.values[i + 1] \in Word
        BY <2>2, <4>1, ElementOfSeq
      <4> QED BY <1>2, <3>1, <4>2 DEF LinearAt
    <3>2. CASE ~(i < Len(v.sample.values))
      BY <1>2, <3>2, WordsAreInts DEF LinearAt
    <3> QED BY <3>1, <3>2
  <2> QED BY <1>2, <2>2, <2>3 DEF GridSize, GridOf
<1> QED BY <1>1, <1>2

LEMMA WithLinearOK ==
    ASSUME AnyModel, NEW v \in RegVal, IsGrid(v), NEW i \in Nat,
           i < GridSize(v), NEW x \in Word
    PROVE  WithLinear(v, i, x) \in RegVal
<1>1. CASE IsModel(v)
  <2>1. WithCoef(v.model, LinearKey(i), x) \in ModelSet
    BY <1>1, ModelValues, KeysAreKeys, WithCoefOK
  <2> QED BY <1>1, <2>1, ModelValues DEF WithLinear
<1>2. CASE ~IsModel(v)
  <2> DEFINE s == v.sample  values == [s.values EXCEPT ![i + 1] = x]
  <2>1. s \in SampleSet /\ v = SampleVal(s)
    BY <1>2, ModelValues DEF IsGrid, IsModel
  <2>2. s.values \in Seq(Word) /\ Len(s.values) \in Nat /\ i < Len(s.values)
    BY <1>2, <2>1, LenProperties DEF SampleSet, GridSize
  <2>3. i + 1 \in 1 .. Len(s.values)
    BY <2>2
  <2>4. values \in Seq(Word)
    BY <2>2, <2>3, ExceptSeq
  <2> HIDE DEF values
  <2>5. [s EXCEPT !.values = values] \in SampleSet
    BY <2>1, <2>4 DEF SampleSet
  <2>6. WithLinear(v, i, x) = SampleVal([s EXCEPT !.values = values])
    <3>1. WithLinear(v, i, x) = [v EXCEPT !.sample.values[i + 1] = x]
      BY <1>2 DEF WithLinear
    <3>2. [v EXCEPT !.sample.values[i + 1] = x]
          = [v EXCEPT !.sample = [s EXCEPT !.values = [s.values EXCEPT ![i + 1] = x]]]
      OBVIOUS
    <3> HIDE DEF s
    <3>3. \A t : [v EXCEPT !.sample = t] = SampleVal(t)
      BY <2>1 DEF SampleVal
    <3> QED BY <3>1, <3>2, <3>3 DEF values
  <2> QED BY <2>5, <2>6, ModelValues
<1> QED BY <1>1, <1>2

LEMMA IndexInNat ==
    ASSUME NEW i \in Word, NEW n \in Nat, InBounds(i, n)
    PROVE  i \in Nat /\ i < n
BY WordsAreInts DEF InBounds

LEMMA GetLineOK == ASSUME AnyModel, TypeOK, ExecGetLine PROVE TypeOK'
<1> DEFINE v == regs[Current.r1]
           i == Operand(1)
<1>1. Executing({"GETLINE"}) /\ UNCHANGED <<regs, loopStack, outputs>>
  BY DEF ExecGetLine
<1>2. Needs(Current.op) = 1
  BY <1>1, HandlerStart, ModelNeeds
<1>3. /\ i \in Word /\ (stack' = Rest(1) => StackOK')
      /\ \A x \in Word : stack' = Append(Rest(1), x) => StackOK'
  BY <1>1, <1>2, Operands
<1>4. ControlOK'
  BY <1>1, Outcomes DEF ExecGetLine, VmErrors
<1>5. StackOK'
  <2>1. CASE IsGrid(v) /\ InBounds(i, GridSize(v))
    <3>1. v \in RegVal
      BY <1>1, Named
    <3>2. LinearAt(v, i) \in Word
      BY <1>3, <2>1, <3>1, GridFacts, IndexInNat
    <3> QED BY <1>3, <2>1, <3>2 DEF ExecGetLine
  <2>2. CASE ~(IsGrid(v) /\ InBounds(i, GridSize(v)))
    BY <1>3, <2>2 DEF ExecGetLine
  <2> QED BY <2>1, <2>2
<1> QED BY <1>1, <1>4, <1>5, Kept, Assembled

LEMMA SetLineOK == ASSUME AnyModel, TypeOK, ExecSetLine PROVE TypeOK'
<1> DEFINE v == regs[Current.r1]
           i == Operand(2)
           x == IF Current.op = "SETLINE" THEN Operand(1)
                ELSE LinearAt(v, i) + Operand(1)
           ops == {"SETLINE", "ADDLINE"}
<1>1. Executing(ops) /\ UNCHANGED <<loopStack, outputs>> /\ stack' = Rest(2)
  BY DEF ExecSetLine
<1>2. Needs(Current.op) = 2
  BY <1>1, HandlerStart, ModelNeeds
<1>3. Operand(1) \in Word /\ i \in Word /\ StackOK'
  BY <1>1, <1>2, Operands
<1>4. v \in RegVal
  BY <1>1, Named
<1>5. \/ \E e \in VmErrors : FaultKeepingRegs(e)
      \/ /\ IsGrid(v) /\ InBounds(i, GridSize(v))
         /\ Stow(Current.r1, WithLinear(v, i, Wrap(x))) /\ Continue
  BY DEF ExecSetLine, VmErrors
<1>6. CASE \E e \in VmErrors : FaultKeepingRegs(e)
  BY <1>1, <1>3, <1>6, FaultedKeeping, Assembled
<1>7. CASE /\ IsGrid(v) /\ InBounds(i, GridSize(v))
           /\ Stow(Current.r1, WithLinear(v, i, Wrap(x))) /\ Continue
  <2>1. i \in Nat /\ i < GridSize(v) /\ LinearAt(v, i) \in Word
    BY <1>3, <1>4, <1>7, GridFacts, IndexInNat
  <2>2. x \in Int
    <3>1. Operand(1) \in Int /\ LinearAt(v, i) \in Int
      BY <1>3, <2>1, WordsAreInts
    <3> QED BY <3>1
  <2>3. Wrap(x) \in Word
    BY <2>2, WrapInWord
  <2>4. WithLinear(v, i, Wrap(x)) \in RegVal
    BY <1>4, <1>7, <2>1, <2>3, WithLinearOK
  <2>5. RegsOK' /\ ControlOK'
    BY <1>1, <1>7, <2>4, Stowed
  <2> QED BY <1>1, <1>3, <2>5, Assembled
<1> QED BY <1>5, <1>6, <1>7

LEMMA GetQuadOK == ASSUME AnyModel, TypeOK, ExecGetQuad PROVE TypeOK'
<1> DEFINE v == regs[Current.r1]
           key == QuadKey(Operand(2), Operand(1))
<1>1. Executing({"GETQUAD"}) /\ UNCHANGED <<regs, loopStack, outputs>>
  BY DEF ExecGetQuad
<1>2. Needs(Current.op) = 2
  BY <1>1, HandlerStart, ModelNeeds
<1>3. /\ (stack' = Rest(2) => StackOK')
      /\ \A x \in Word : stack' = Append(Rest(2), x) => StackOK'
  BY <1>1, <1>2, Operands
<1>4. ControlOK'
  BY <1>1, Outcomes DEF ExecGetQuad, VmErrors
<1>5. stack' = Rest(2) \/ (IsModel(v) /\ stack' = Append(Rest(2), Coef(v.model, key)))
  BY DEF ExecGetQuad
<1>6. IsModel(v) => Coef(v.model, key) \in Word
  BY <1>1, Named, ModelValues, CoefInWord
<1>7. StackOK'
  BY <1>3, <1>5, <1>6
<1> QED BY <1>1, <1>4, <1>7, Kept, Assembled

LEMMA SetQuadOK == ASSUME AnyModel, TypeOK, ExecSetQuad PROVE TypeOK'
<1> DEFINE v == regs[Current.r1]
           i == Operand(3)
           j == Operand(2)
           m == WithCoef(v.model, QuadKey(i, j), Operand(1))
<1>1. Executing({"SETQUAD"}) /\ UNCHANGED <<loopStack, outputs>> /\ stack' = Rest(3)
  BY DEF ExecSetQuad
<1>2. Needs(Current.op) = 3
  BY <1>1, HandlerStart, ModelNeeds
<1>3. Operand(1) \in Word /\ i \in Word /\ j \in Word /\ StackOK'
  BY <1>1, <1>2, Operands
<1>4. \/ \E e \in VmErrors : FaultKeepingRegs(e)
      \/ /\ IsModel(v) /\ ~(i < 0 \/ j < 0)
         /\ Stow(Current.r1, ModelVal(m)) /\ Continue
  BY DEF ExecSetQuad, VmErrors
<1>5. CASE \E e \in VmErrors : FaultKeepingRegs(e)
  BY <1>1, <1>3, <1>5, FaultedKeeping, Assembled
<1>6. CASE /\ IsModel(v) /\ ~(i < 0 \/ j < 0)
           /\ Stow(Current.r1, ModelVal(m)) /\ Continue
  <2>1. i \in Nat /\ j \in Nat
    <3>1. i \in Int /\ j \in Int
      BY <1>3, WordsAreInts
    <3> QED BY <1>6, <3>1
  <2>2. v.model \in ModelSet
    BY <1>1, <1>6, Named, ModelValues
  <2>3. ModelVal(m) \in RegVal
    BY <1>3, <2>1, <2>2, KeysAreKeys, WithCoefOK, ModelValues
  <2> HIDE DEF m
  <2>4. RegsOK' /\ ControlOK'
    BY <1>1, <1>6, <2>3, Stowed
  <2> QED BY <1>1, <1>3, <2>4, Assembled
<1> QED BY <1>4, <1>5, <1>6

LEMMA AddPairOK == ASSUME AnyModel, TypeOK, ExecAddPair PROVE TypeOK'
<1> DEFINE v == regs[Current.r1]
           i == Operand(3)
           j == Operand(2)
           terms == PairTerms(Current.op, i, j, Operand(1))
           ops == {"ADDQUAD", "EXCLUDE", "IMPLIES"}
<1>1. Executing(ops) /\ UNCHANGED <<loopStack, outputs>> /\ stack' = Rest(3)
  BY DEF ExecAddPair
<1>2. Needs(Current.op) = 3
  BY <1>1, HandlerStart, ModelNeeds
<1>3. Operand(1) \in Word /\ i \in Word /\ j \in Word /\ StackOK'
  BY <1>1, <1>2, Operands
<1>4. \/ \E e \in VmErrors : FaultKeepingRegs(e)
      \/ IsModel(v) /\ Add(Current.r1, v.model, terms)
  BY DEF ExecAddPair, VmErrors
<1>5. terms \in Seq(TermSet)
  <2>1. Operand(1) \in Int /\ i \in Int /\ j \in Int
    BY <1>3, WordsAreInts
  <2>2. CASE Current.op = "ADDQUAD"
    BY <2>1, <2>2, SomeTermsOK DEF PairTerms
  <2>3. CASE Current.op = "EXCLUDE"
    BY <2>1, <2>3, SomeTermsOK DEF PairTerms
  <2>4. CASE Current.op = "IMPLIES"
    BY <2>1, <2>4, SomeTermsOK DEF PairTerms
  <2> QED BY <1>1, <2>2, <2>3, <2>4, HandlerStart
<1> HIDE DEF terms
<1>6. IsModel(v) => v.model \in ModelSet
  BY <1>1, Named, ModelValues
<1>7. RegsOK' /\ ControlOK'
  BY <1>1, <1>4, <1>5, <1>6, FaultedKeeping, Added
<1> QED BY <1>1, <1>3, <1>7, Assembled

--------------------------------------------------------------------------
(* The grid.                                                              *)

LEMMA ResizeOK == ASSUME AnyModel, TypeOK, ExecResize PROVE TypeOK'
<1> DEFINE v == regs[Current.r1]
           rows == Operand(2)
           cols == Operand(1)
           new == IF IsModel(v)
                  THEN ModelVal([v.model EXCEPT !.rows = rows, !.cols = cols])
                  ELSE SampleVal([v.sample EXCEPT !.rows = rows, !.cols = cols])
<1>1. Executing({"RESIZE"}) /\ UNCHANGED <<loopStack, outputs>> /\ stack' = Rest(2)
  BY DEF ExecResize
<1>2. Needs(Current.op) = 2
  BY <1>1, HandlerStart, ModelNeeds
<1>3. cols \in Word /\ rows \in Word /\ StackOK'
  BY <1>1, <1>2, Operands
<1>4. v \in RegVal
  BY <1>1, Named
<1>5. \/ \E e \in VmErrors : FaultKeepingRegs(e)
      \/ /\ ~(rows <= 0 \/ cols <= 0) /\ IsGrid(v)
         /\ Stow(Current.r1, new) /\ Continue
  BY DEF ExecResize, VmErrors
<1>6. CASE \E e \in VmErrors : FaultKeepingRegs(e)
  BY <1>1, <1>3, <1>6, FaultedKeeping, Assembled
<1>7. CASE /\ ~(rows <= 0 \/ cols <= 0) /\ IsGrid(v)
           /\ Stow(Current.r1, new) /\ Continue
  <2>1. rows \in 0 .. MaxWord /\ cols \in 0 .. MaxWord
    BY <1>3, <1>7, WordIsInterval DEF MaxWord
  <2>2. new \in RegVal
    <3> HIDE DEF rows, cols
    <3>1. CASE IsModel(v)
      <4>1. v.model \in ModelSet
        BY <1>4, <3>1, ModelValues
      <4>2. [v.model EXCEPT !.rows = rows, !.cols = cols] \in ModelSet
        BY <2>1, <4>1 DEF ModelSet
      <4> QED BY <3>1, <4>2, ModelValues
    <3>2. CASE ~IsModel(v)
      <4>1. v.sample \in SampleSet
        BY <1>4, <1>7, <3>2, ModelValues DEF IsGrid, IsModel
      <4>2. [v.sample EXCEPT !.rows = rows, !.cols = cols] \in SampleSet
        BY <2>1, <4>1 DEF SampleSet
      <4> QED BY <3>2, <4>2, ModelValues
    <3> QED BY <3>1, <3>2
  <2> HIDE DEF new
  <2>3. RegsOK' /\ ControlOK'
    BY <1>1, <1>7, <2>2, Stowed
  <2> QED BY <1>1, <1>3, <2>3, Assembled
<1> QED BY <1>5, <1>6, <1>7

\* The cells of a row or a column of a model or a sample.
LEMMA CellsOK ==
    ASSUME NEW grid, grid.rows \in 0 .. MaxWord, grid.cols \in 0 .. MaxWord,
           NEW n \in Word, NEW op
    PROVE  /\ Cells(op, grid, n) \in Seq(Int)
           /\ Len(Cells(op, grid, n)) \in 0 .. MaxWord
           /\ DOMAIN Cells(op, grid, n) = 1 .. Len(Cells(op, grid, n))
<1>1. grid.rows \in Nat /\ grid.cols \in Nat /\ n \in Int
  BY WordsAreInts
<1>2. CASE IsRowOp(op)
  BY <1>1, <1>2, CellsInSeq, LenProperties DEF Cells
<1>3. CASE ~IsRowOp(op)
  BY <1>1, <1>3, CellsInSeq, LenProperties DEF Cells
<1> QED BY <1>2, <1>3

LEMMA FindOK == ASSUME AnyModel, TypeOK, ExecFind PROVE TypeOK'
<1> DEFINE v == regs[Current.r1]
           cells == Cells(Current.op, GridOf(v), Operand(2))
           lost(k) == OverflowChecks /\ AddressOverflows(cells[k])
           stops == {k \in DOMAIN cells :
                        lost(k) \/ LinearAt(v, Address(cells[k])) = Operand(1)}
           first == CHOOSE k \in stops : \A l \in stops : k <= l
           ops == {"ROWFIND", "COLFIND"}
<1>1. Executing(ops) /\ UNCHANGED <<regs, loopStack, outputs>>
  BY DEF ExecFind
<1>2. Needs(Current.op) = 2
  BY <1>1, HandlerStart, ModelNeeds
<1>3. /\ Operand(2) \in Word /\ (stack' = Rest(2) => StackOK')
      /\ \A x \in Word : stack' = Append(Rest(2), x) => StackOK'
  BY <1>1, <1>2, Operands
<1>4. ControlOK'
  BY <1>1, Outcomes DEF ExecFind, VmErrors
<1>5. \/ stack' = Rest(2)
      \/ stack' = Append(Rest(2), -1)
      \/ IsGrid(v) /\ stops # {} /\ stack' = Append(Rest(2), first - 1)
  BY DEF ExecFind
<1>6. ASSUME IsGrid(v), stops # {} PROVE first - 1 \in Word
  <2>1. /\ cells \in Seq(Int) /\ Len(cells) \in 0 .. MaxWord
        /\ DOMAIN cells = 1 .. Len(cells)
    BY <1>1, <1>3, <1>6, Named, GridFacts, CellsOK
  <2>2. stops \subseteq 1 .. Len(cells) /\ stops \subseteq Nat
    BY <2>1
  <2> HIDE DEF stops
  <2>3. \E k \in stops : \A l \in stops : k <= l
    BY <1>6, <2>2, LeastOfSome
  <2>4. first \in stops
    BY <2>3
  <2> HIDE DEF first
  <2>5. first - 1 \in Int /\ 0 <= first - 1 /\ first - 1 <= MaxWord
    BY <2>1, <2>2, <2>4, WordsAreInts
  <2> QED BY <2>5, WordIsInterval DEF MaxWord
<1> HIDE DEF stops, first
<1>7. StackOK'
  BY <1>3, <1>5, <1>6, WordsAreInts
<1> QED BY <1>1, <1>4, <1>7, Kept, Assembled

LEMMA SumOK == ASSUME AnyModel, TypeOK, ExecSum PROVE TypeOK'
<1> DEFINE v == regs[Current.r1]
           cells == Cells(Current.op, GridOf(v), Operand(1))
           values == [k \in DOMAIN cells |-> LinearAt(v, Address(cells[k]))]
           ops == {"ROWSUM", "COLSUM"}
<1>1. Executing(ops) /\ UNCHANGED <<regs, loopStack, outputs>>
  BY DEF ExecSum
<1>2. Needs(Current.op) = 1
  BY <1>1, HandlerStart, ModelNeeds
<1>3. /\ Operand(1) \in Word /\ (stack' = Rest(1) => StackOK')
      /\ \A x \in Word : stack' = Append(Rest(1), x) => StackOK'
  BY <1>1, <1>2, Operands
<1>4. ControlOK'
  BY <1>1, Outcomes DEF ExecSum, VmErrors
<1>5. \/ stack' = Rest(1)
      \/ IsGrid(v) /\ stack' = Append(Rest(1), Wrap(SumFunction(values)))
  BY DEF ExecSum
<1>6. ASSUME IsGrid(v) PROVE Wrap(SumFunction(values)) \in Word
  <2>1. v \in RegVal
    BY <1>1, Named
  <2>2. cells \in Seq(Int) /\ DOMAIN cells = 1 .. Len(cells) /\ Len(cells) \in Nat
    <3>1. GridOf(v).rows \in 0 .. MaxWord /\ GridOf(v).cols \in 0 .. MaxWord
      BY <1>6, <2>1, GridFacts
    <3>2. /\ cells \in Seq(Int) /\ Len(cells) \in 0 .. MaxWord
          /\ DOMAIN cells = 1 .. Len(cells)
      BY <1>3, <3>1, CellsOK
    <3> QED BY <3>2
  <2> HIDE DEF cells, v
  <2>3. ASSUME NEW k \in 1 .. Len(cells)
        PROVE  LinearAt(v, Address(cells[k])) \in Int
    <3>1. cells[k] \in Int
      BY <2>2, ElementOfSeq
    <3>2. Address(cells[k]) \in Nat
      BY <3>1, AddressInNat
    <3> QED BY <1>6, <2>1, <3>2, GridFacts, WordsAreInts
  <2>4. values \in Seq(Int)
    BY <2>2, <2>3
  <2> HIDE DEF values
  <2>5. SumFunction(values) \in Int
    BY <2>4, SumOfWords
  <2> QED BY <2>5, WrapInWord
<1> HIDE DEF values
<1>7. StackOK'
  BY <1>3, <1>5, <1>6
<1> QED BY <1>1, <1>4, <1>7, Kept, Assembled

LEMMA OneHotOK == ASSUME AnyModel, TypeOK, ExecOneHot PROVE TypeOK'
<1> DEFINE v == regs[Current.r1]
           cells == Cells(Current.op, v.model, Operand(2))
           terms == OneHotTerms(cells, Operand(1))
           ops == {"ONEHOTR", "ONEHOTC"}
<1>1. Executing(ops) /\ UNCHANGED <<loopStack, outputs>> /\ stack' = Rest(2)
  BY DEF ExecOneHot
<1>2. Needs(Current.op) = 2
  BY <1>1, HandlerStart, ModelNeeds
<1>3. Operand(1) \in Word /\ Operand(2) \in Word /\ StackOK'
  BY <1>1, <1>2, Operands
<1>4. \/ \E e \in VmErrors : FaultKeepingRegs(e)
      \/ IsModel(v) /\ Add(Current.r1, v.model, terms)
  BY DEF ExecOneHot, VmErrors
<1>5. ASSUME IsModel(v) PROVE v.model \in ModelSet /\ terms \in Seq(TermSet)
  <2>1. v.model \in ModelSet
    BY <1>1, <1>5, Named, ModelValues
  <2>2. v.model.rows \in 0 .. MaxWord /\ v.model.cols \in 0 .. MaxWord
    BY <2>1 DEF ModelSet
  <2>3. cells \in Seq(Int)
    BY <1>3, <2>2, CellsOK
  <2> HIDE DEF cells
  <2>4. terms \in Seq(TermSet)
    BY <1>3, <2>3, OneHotTermsOK, WordsAreInts
  <2> QED BY <2>1, <2>4
<1> HIDE DEF terms
<1>6. RegsOK' /\ ControlOK'
  BY <1>1, <1>4, <1>5, FaultedKeeping, Added
<1> QED BY <1>1, <1>3, <1>6, Assembled

--------------------------------------------------------------------------
(* The constraints over vectors.                                          *)

\* EQUALITY grows a model to the size its largest index asks for, and there
\* is a largest one.
LEMMA GrownOK ==
    ASSUME NEW m \in ModelSet, NEW indices \in Seq(Word)
    PROVE  GrownFor(m, indices) \in ModelSet
<1> DEFINE largest == CHOOSE k \in DOMAIN indices :
                          \A l \in DOMAIN indices : indices[l] <= indices[k]
           needed == Wrap(indices[largest] + 1)
<1>1. DOMAIN indices = 1 .. Len(indices) /\ Len(indices) \in Nat
  BY LenProperties
<1>2. CASE indices = <<>>
  BY <1>2 DEF GrownFor
<1>3. CASE indices # <<>>
  <2> DEFINE slack == {MaxWord - indices[k] : k \in DOMAIN indices}
  <2>1. \A k \in DOMAIN indices : indices[k] \in Int /\ indices[k] <= MaxWord
    <3> TAKE k \in DOMAIN indices
    <3>1. indices[k] \in Word
      BY <1>1, ElementOfSeq
    <3> QED BY <3>1, WordsAreInts
  <2>2. slack \subseteq Nat
    BY <2>1, WordsAreInts
  <2>3. slack # {}
    <3>1. Len(indices) # 0
      BY <1>3, EmptySeq
    <3>2. 1 \in DOMAIN indices
      BY <1>1, <3>1
    <3> QED BY <3>2
  <2>4. PICK least \in slack : \A d \in slack : least <= d
    <3> HIDE DEF slack
    <3> QED BY <2>2, <2>3, LeastOfSome
  <2>5. PICK k \in DOMAIN indices : least = MaxWord - indices[k]
    BY <2>4
  <2>6. \A l \in DOMAIN indices : indices[l] <= indices[k]
    <3> TAKE l \in DOMAIN indices
    <3>1. MaxWord - indices[k] <= MaxWord - indices[l]
      BY <2>4, <2>5
    <3> QED BY <2>1, <3>1, WordsAreInts
  <2>7. largest \in DOMAIN indices
    BY <2>5, <2>6
  <2> HIDE DEF largest
  <2>8. indices[largest] + 1 \in Int
    BY <2>1, <2>7
  <2>9. needed \in Int
    BY <2>8, WrapInWord, WordIsInterval
  <2>10. m.size \in Nat
    BY DEF ModelSet
  <2> HIDE DEF needed
  <2>11. CASE needed > m.size
    <3>1. needed \in Nat
      BY <2>9, <2>10, <2>11
    <3>2. [m EXCEPT !.size = needed] \in ModelSet
      BY <3>1 DEF ModelSet
    <3>3. GrownFor(m, indices) = [m EXCEPT !.size = needed]
      BY <1>3, <2>11 DEF GrownFor, needed, largest
    <3> QED BY <3>2, <3>3
  <2>12. CASE ~(needed > m.size)
    BY <2>12 DEF GrownFor, needed, largest
  <2> QED BY <2>11, <2>12
<1> QED BY <1>2, <1>3

LEMMA EqualityOK == ASSUME AnyModel, TypeOK, ExecEquality PROVE TypeOK'
<1> DEFINE v == regs[Current.r1]
           indices == regs[Current.r2].ints
           coeffs == regs[Current.r3].ints
           grown == GrownFor(v.model, indices)
           terms == EqualityTerms(indices, coeffs, Operand(2), Operand(1))
           ready == /\ IsModel(v) /\ IsVecInt(regs[Current.r2])
                    /\ IsVecInt(regs[Current.r3]) /\ Len(indices) = Len(coeffs)
<1>1. Executing({"EQUALITY"}) /\ UNCHANGED <<loopStack, outputs>> /\ stack' = Rest(2)
  BY DEF ExecEquality
<1>2. Needs(Current.op) = 2
  BY <1>1, HandlerStart, ModelNeeds
<1>3. Operand(1) \in Word /\ Operand(2) \in Word /\ StackOK'
  BY <1>1, <1>2, Operands
<1>4. \/ \E e \in VmErrors : FaultKeepingRegs(e)
      \/ ready /\ Stow(Current.r1, ModelVal(grown)) /\ Fault("IndexOutOfBounds")
      \/ ready /\ Add(Current.r1, grown, terms)
  BY DEF ExecEquality, VmErrors
<1>5. ASSUME ready PROVE grown \in ModelSet /\ terms \in Seq(TermSet)
  <2>1. v.model \in ModelSet /\ indices \in Seq(Word) /\ coeffs \in Seq(Word)
    BY <1>1, <1>5, Named, ModelValues
  <2>2. indices \in Seq(Int) /\ coeffs \in Seq(Int)
    BY <2>1, WordsAreInts
  <2>3. Operand(1) \in Int /\ Operand(2) \in Int
    BY <1>3, WordsAreInts
  <2>4. Len(indices) = Len(coeffs)
    BY <1>5
  <2> HIDE DEF indices, coeffs
  <2> QED BY <2>1, <2>2, <2>3, <2>4, GrownOK, EqualityTermsOK
<1> HIDE DEF grown, terms
<1>6. ASSUME ready PROVE ModelVal(grown) \in RegVal
  BY <1>5, <1>6, ModelValues
<1>7. RegsOK' /\ ControlOK'
  <2>1. CASE \E e \in VmErrors : FaultKeepingRegs(e)
    BY <1>1, <2>1, FaultedKeeping
  <2>2. CASE ready /\ Stow(Current.r1, ModelVal(grown)) /\ Fault("IndexOutOfBounds")
    <3>1. \E e \in VmErrors : Fault(e)
      BY <2>2 DEF VmErrors
    <3> QED BY <1>1, <1>6, <2>2, <3>1, Stowed
  <2>3. CASE ready /\ Add(Current.r1, grown, terms)
    BY <1>1, <1>5, <2>3, Added
  <2> QED BY <1>4, <2>1, <2>2, <2>3
<1> QED BY <1>1, <1>3, <1>7, Assembled

\* What ATLEAST and ATLEASTW share: the slack variables they append are at
\* most as many as a word has bits.
LEMMA AddAtLeastOK ==
    ASSUME AnyModel, TypeOK, NEW ops, Executing(ops), NEW m \in ModelSet,
           NEW indices \in Seq(Int), NEW weights \in Seq(Int),
           Len(indices) = Len(weights), NEW k \in Int, NEW penalty \in Int,
           AddAtLeast(Current.r1, m, indices, weights, k, penalty)
    PROVE  RegsOK' /\ ControlOK'
<1> DEFINE excess == Wrap(SumFunction(weights) - k)
           n == IF excess <= 0 THEN 0 ELSE SlackBits(excess)
           grown == [m EXCEPT !.size = @ + n]
           terms == EqualityTerms(indices \o SlackIndices(m.size, n),
                                  weights \o SlackCoeffs(n), k, penalty)
<1>1. FaultKeepingRegs("IndexOutOfBounds") \/ Add(Current.r1, grown, terms)
  BY DEF AddAtLeast
<1>2. n \in 0 .. WordBits
  <2>1. SumFunction(weights) - k \in Int
    <3>1. SumFunction(weights) \in Int
      BY SumOfWords
    <3> QED BY <3>1
  <2>2. excess \in Word
    BY <2>1, WrapInWord
  <2>3. SlackBits(excess) \in 0 .. WordBits - 1
    BY <2>2, BitLenInWord DEF SlackBits
  <2> QED BY <2>3, WordIsInterval
<1> HIDE DEF n
<1>3. m.size \in Nat
  BY DEF ModelSet
<1>4. grown \in ModelSet
  <2>1. m.size + n \in Nat
    BY <1>2, <1>3
  <2> QED BY <2>1 DEF ModelSet
<1>5. terms \in Seq(TermSet)
  <2> DEFINE si == SlackIndices(m.size, n)  sc == SlackCoeffs(n)
  <2>1. /\ si \in Seq(Int) /\ sc \in Seq(Int) /\ Len(si) = Len(sc)
    BY <1>2, <1>3, SlacksInSeq
  <2> HIDE DEF si, sc
  <2>2. /\ indices \o si \in Seq(Int) /\ weights \o sc \in Seq(Int)
        /\ Len(indices \o si) = Len(weights \o sc)
    <3>1. /\ indices \o si \in Seq(Int) /\ weights \o sc \in Seq(Int)
          /\ Len(indices \o si) = Len(indices) + Len(si)
          /\ Len(weights \o sc) = Len(weights) + Len(sc)
      BY <2>1, ConcatProperties
    <3> QED BY <2>1, <3>1
  <2>3. EqualityTerms(indices \o si, weights \o sc, k, penalty) \in Seq(TermSet)
    BY <2>2, EqualityTermsOK
  <2> QED BY <2>3 DEF si, sc
<1> HIDE DEF grown, terms
<1> QED BY <1>1, <1>4, <1>5, Added, FaultedKeeping DEF VmErrors

LEMMA AtLeastOK == ASSUME AnyModel, TypeOK, ExecAtLeast PROVE TypeOK'
<1> DEFINE v == regs[Current.r1]
           indices == regs[Current.r2].ints
           ones == [i \in DOMAIN indices |-> 1]
<1>1. Executing({"ATLEAST"}) /\ UNCHANGED <<loopStack, outputs>> /\ stack' = Rest(2)
  BY DEF ExecAtLeast
<1>2. Needs(Current.op) = 2
  BY <1>1, HandlerStart, ModelNeeds
<1>3. Operand(1) \in Word /\ Operand(2) \in Word /\ StackOK'
  BY <1>1, <1>2, Operands
<1>4. \/ \E e \in VmErrors : FaultKeepingRegs(e)
      \/ /\ IsVecInt(regs[Current.r2]) /\ IsModel(v)
         /\ AddAtLeast(Current.r1, v.model, indices, ones, Operand(2), Operand(1))
  BY DEF ExecAtLeast, VmErrors
<1>5. CASE \E e \in VmErrors : FaultKeepingRegs(e)
  BY <1>1, <1>3, <1>5, FaultedKeeping, Assembled
<1>6. CASE /\ IsVecInt(regs[Current.r2]) /\ IsModel(v)
           /\ AddAtLeast(Current.r1, v.model, indices, ones, Operand(2), Operand(1))
  <2>1. v.model \in ModelSet /\ indices \in Seq(Word)
    BY <1>1, <1>6, Named, ModelValues
  <2>2. indices \in Seq(Int) /\ Operand(1) \in Int /\ Operand(2) \in Int
    BY <1>3, <2>1, WordsAreInts
  <2> HIDE DEF indices
  <2>3. DOMAIN indices = 1 .. Len(indices) /\ Len(indices) \in Nat
    BY <2>2, LenProperties
  <2>4. ones \in Seq(Int) /\ Len(ones) = Len(indices)
    BY <2>3
  <2> HIDE DEF ones
  <2>5. RegsOK' /\ ControlOK'
    BY <1>1, <1>6, <2>1, <2>2, <2>4, AddAtLeastOK
  <2> QED BY <1>1, <1>3, <2>5, Assembled
<1> QED BY <1>4, <1>5, <1>6

LEMMA AtLeastWOK == ASSUME AnyModel, TypeOK, ExecAtLeastW PROVE TypeOK'
<1> DEFINE v == regs[Current.r1]
           indices == regs[Current.r2].ints
           weights == regs[Current.r3].ints
           ready == /\ IsVecInt(regs[Current.r2]) /\ IsVecInt(regs[Current.r3])
                    /\ Len(indices) = Len(weights) /\ IsModel(v)
<1>1. Executing({"ATLEASTW"}) /\ UNCHANGED <<loopStack, outputs>> /\ stack' = Rest(2)
  BY DEF ExecAtLeastW
<1>2. Needs(Current.op) = 2
  BY <1>1, HandlerStart, ModelNeeds
<1>3. Operand(1) \in Word /\ Operand(2) \in Word /\ StackOK'
  BY <1>1, <1>2, Operands
<1>4. \/ \E e \in VmErrors : FaultKeepingRegs(e)
      \/ /\ ready
         /\ AddAtLeast(Current.r1, v.model, indices, weights, Operand(2), Operand(1))
  BY DEF ExecAtLeastW, VmErrors
<1>5. CASE \E e \in VmErrors : FaultKeepingRegs(e)
  BY <1>1, <1>3, <1>5, FaultedKeeping, Assembled
<1>6. CASE /\ ready
           /\ AddAtLeast(Current.r1, v.model, indices, weights, Operand(2), Operand(1))
  <2>1. v.model \in ModelSet /\ indices \in Seq(Word) /\ weights \in Seq(Word)
    BY <1>1, <1>6, Named, ModelValues
  <2>2. /\ indices \in Seq(Int) /\ weights \in Seq(Int)
        /\ Operand(1) \in Int /\ Operand(2) \in Int
    BY <1>3, <2>1, WordsAreInts
  <2>3. RegsOK' /\ ControlOK'
    BY <1>1, <1>6, <2>1, <2>2, AddAtLeastOK
  <2> QED BY <1>1, <1>3, <2>3, Assembled
<1> QED BY <1>4, <1>5, <1>6

LEMMA ReduceOK == ASSUME AnyModel, TypeOK, ExecReduce PROVE TypeOK'
<1> DEFINE v == regs[Current.r1]
           a == Operand(3)
           b == Operand(2)
           w == v.model.size
           larger == [v.model EXCEPT !.size = @ + 1]
           terms == ReduceTerms(a, b, w, Operand(1))
           result == Expand(larger, terms, OverflowChecks)
           index == IF w > MaxWord THEN MaxWord ELSE w
<1>1. Executing({"REDUCE"}) /\ UNCHANGED <<loopStack, outputs>>
  BY DEF ExecReduce
<1>2. Needs(Current.op) = 3
  BY <1>1, HandlerStart, ModelNeeds
<1>3. /\ Operand(1) \in Word /\ a \in Word /\ b \in Word
      /\ (stack' = Rest(3) => StackOK')
      /\ \A x \in Word : stack' = Append(Rest(3), x) => StackOK'
  BY <1>1, <1>2, Operands
<1>4. \/ stack' = Rest(3) /\ \E e \in VmErrors : FaultKeepingRegs(e)
      \/ /\ IsModel(v) /\ Stow(Current.r1, ModelVal(result.model))
         /\ \/ stack' = Rest(3) /\ Fault("Panic")
            \/ stack' = Append(Rest(3), index) /\ Continue
  BY DEF ExecReduce, VmErrors
<1>5. CASE stack' = Rest(3) /\ \E e \in VmErrors : FaultKeepingRegs(e)
  BY <1>1, <1>3, <1>5, FaultedKeeping, Assembled
<1>6. CASE /\ IsModel(v) /\ Stow(Current.r1, ModelVal(result.model))
           /\ \/ stack' = Rest(3) /\ Fault("Panic")
              \/ stack' = Append(Rest(3), index) /\ Continue
  <2>1. v.model \in ModelSet /\ w \in Nat
    BY <1>1, <1>6, Named, ModelValues DEF ModelSet
  <2>2. larger \in ModelSet
    BY <2>1 DEF ModelSet
  <2>3. index \in Word
    <3>1. index \in 0 .. MaxWord
      BY <2>1, WordsAreInts
    <3> QED BY <3>1, WordIsInterval DEF MaxWord
  <2>4. terms \in Seq(TermSet)
    <3>1. Operand(1) \in Int /\ a \in Int /\ b \in Int /\ w \in Int
      <4>1. Operand(1) \in Int /\ a \in Int /\ b \in Int
        BY <1>3, WordsAreInts
      <4> QED BY <2>1, <4>1
    <3> QED BY <3>1, SomeTermsOK
  <2> HIDE DEF larger, terms
  <2>5. ModelVal(result.model) \in RegVal
    <3>1. OverflowChecks \in BOOLEAN
      BY VmAssumption
    <3>2. result.model \in ModelSet
      BY <2>2, <2>4, <3>1, ExpandOK
    <3> QED BY <3>2, ModelValues
  <2> HIDE DEF result, index
  <2>6. Continue \/ \E e \in VmErrors : Fault(e)
    BY <1>6 DEF VmErrors
  <2>7. RegsOK' /\ ControlOK'
    BY <1>1, <1>6, <2>5, <2>6, Stowed
  <2>8. StackOK'
    BY <1>3, <1>6, <2>3
  <2> QED BY <1>1, <2>7, <2>8, Assembled
<1> QED BY <1>4, <1>5, <1>6

LEMMA EnergyOK == ASSUME AnyModel, TypeOK, ExecEnergy PROVE TypeOK'
<1> DEFINE m == regs[Current.r1]
           s == regs[Current.r2]
<1>1. Executing({"ENERGY"}) /\ UNCHANGED <<regs, loopStack, outputs>>
  BY DEF ExecEnergy
<1>2. stack \in Seq(Word) /\ Len(stack) <= StackLimit
  BY DEF TypeOK, StackOK
<1>3. \/ UNCHANGED stack /\ \E e \in VmErrors : Fault(e)
      \/ /\ s.tag = "Sample" /\ IsModel(m) /\ EnergyDefined(m.model, s.sample)
         /\ Push(Energy(m.model, s.sample.values), stack)
  BY DEF ExecEnergy, VmErrors
<1>4. ControlOK' /\ StackOK'
  <2>1. CASE UNCHANGED stack /\ \E e \in VmErrors : Fault(e)
    BY <1>1, <2>1, Kept, Outcomes
  <2>2. CASE /\ s.tag = "Sample" /\ IsModel(m) /\ EnergyDefined(m.model, s.sample)
             /\ Push(Energy(m.model, s.sample.values), stack)
    <3>1. m.model \in ModelSet /\ s.sample \in SampleSet
      BY <1>1, <2>2, Named, ModelValues
    <3>2. s.sample.values \in Seq(Word)
      BY <3>1 DEF SampleSet
    <3>3. Energy(m.model, s.sample.values) \in Word
      BY <2>2, <3>1, <3>2, EnergyInWord DEF EnergyDefined
    <3> QED BY <1>1, <1>2, <2>2, <3>3, Pushed
  <2> QED BY <1>3, <2>1, <2>2
<1> QED BY <1>1, <1>4, Kept, Assembled

--------------------------------------------------------------------------
(* Type correctness.                                                      *)

LEMMA ModelStepOK == ASSUME AnyModel, TypeOK, ModelStep PROVE TypeOK'
BY ModelUnderflowOK, AllocateOK, AllocateDiscreteOK, GetLineOK, SetLineOK,
   GetQuadOK, SetQuadOK, AddPairOK, ResizeOK, FindOK, SumOK, OneHotOK, EqualityOK,
   AtLeastOK, AtLeastWOK, ReduceOK, EnergyOK
   DEF ModelStep

LEMMA XqmxPreservesTypeOK ==
    ASSUME AnyModel PROVE TypeOK /\ [XqmxNext]_vmVars => TypeOK'
<1> SUFFICES ASSUME TypeOK, [XqmxNext]_vmVars PROVE TypeOK'
  OBVIOUS
<1>1. CASE [Next]_vmVars
  BY <1>1, NextPreservesTypeOK
<1>2. CASE ModelStep
  BY <1>2, ModelStepOK
<1> QED BY <1>1, <1>2 DEF XqmxNext, XqmxStep, Next

LEMMA ModelSetIsOK == ASSUME NEW m \in ModelSet PROVE ModelOK(m)
<1>1. /\ m.size \in Nat /\ m.rows \in Nat /\ m.cols \in Nat /\ m.coef \in Coefs
  BY WordsAreInts DEF ModelSet
<1>2. ASSUME NEW key \in DOMAIN m.coef
      PROVE  /\ Len(key) \in {1, 2} /\ \A k \in DOMAIN key : key[k] \in Nat
             /\ Len(key) = 2 => key[1] <= key[2]
             /\ m.coef[key] \in Word \ {0}
  <2>1. key \in Keys /\ m.coef[key] \in Word \ {0}
    BY <1>1, <1>2, CoefsAre
  <2>2. CASE \E i \in Nat : key = <<i>>
    BY <2>1, <2>2
  <2>3. CASE key \in Nat \X Nat /\ key[1] <= key[2]
    <3>1. PICK i \in Nat, j \in Nat : key = <<i, j>>
      BY <2>3
    <3>2. Len(key) = 2 /\ DOMAIN key = {1, 2}
      BY <3>1
    <3> QED BY <2>1, <2>3, <3>1, <3>2
  <2> QED BY <2>1, <2>2, <2>3 DEF Keys
<1> QED BY <1>1, <1>2 DEF ModelOK

LEMMA ValuesAreOK ==
    ASSUME AnyModel, NEW v \in RegVal PROVE ValueOK(v)
<1>1. CASE v.tag = "Unset"
  BY <1>1 DEF ValueOK, RegVal, Unset
<1>2. CASE v.tag = "Int"
  BY <1>2, Values DEF ValueOK
<1>3. CASE v.tag = "VecInt"
  BY <1>3, Values DEF ValueOK
<1>4. CASE v.tag = "VecXqmx"
  <2>1. v.models \in Seq(ModelSet) /\ DOMAIN v.models = 1 .. Len(v.models)
    BY <1>4, Values, LenProperties DEF AnyModel
  <2>2. \A k \in DOMAIN v.models : v.models[k] \in ModelSet
    BY <2>1, ElementOfSeq
  <2> QED BY <1>4, <2>2, ModelSetIsOK DEF ValueOK
<1>5. CASE v.tag = "Model"
  BY <1>5, ModelValues, ModelSetIsOK DEF ValueOK, IsModel
<1>6. CASE v.tag = "Sample"
  <2>1. v.sample \in SampleSet
    BY <1>6, ModelValues
  <2>2. SampleOK(v.sample)
    BY <2>1, WordsAreInts DEF SampleSet, SampleOK
  <2> QED BY <1>6, <2>2 DEF ValueOK
<1> QED BY <1>1, <1>2, <1>3, <1>4, <1>5, <1>6 DEF RegVal

LEMMA TypeOKIsXqmx == ASSUME AnyModel, TypeOK PROVE XqmxTypeOK
<1>1. \A r \in Reg : ValueOK(regs[r])
  BY ValuesAreOK DEF TypeOK, RegsOK
<1>2. \A i \in DOMAIN outputs : ValueOK(outputs[i])
  <2>1. outputs \in Seq(RegVal) /\ DOMAIN outputs = 1 .. Len(outputs)
    BY LenProperties DEF TypeOK, SlotsOK
  <2>2. \A i \in DOMAIN outputs : outputs[i] \in RegVal
    BY <2>1, ElementOfSeq
  <2> QED BY <2>2, ValuesAreOK
<1> QED BY <1>1, <1>2 DEF TypeOK, ControlOK, XqmxTypeOK

\* Whatever models, samples and programs a host brings: after any sequence of
\* runs every model in a register or an output slot keeps each coefficient in
\* one place, under a key in normal form, and no coefficient that is zero;
\* every value is a word and the stack stays within its limit (the handlers of
\* src/xqvm/src/vm.rs that write models, through the setters of model.rs).
THEOREM ModelsSound ==
    ASSUME AnyModel PROVE XqmxSpec => []XqmxTypeOK
<1>1. TypeOK /\ [XqmxNext]_vmVars => TypeOK'
  BY XqmxPreservesTypeOK
<1>2. TypeOK => XqmxTypeOK
  BY TypeOKIsXqmx
<1> QED BY <1>1, <1>2, InitOK, PTL DEF XqmxSpec

--------------------------------------------------------------------------
(* Instructions that fail.                                                *)

\* What every model handler starts with.
LEMMA ModelStart ==
    ASSUME ModelStep
    PROVE  /\ status = "running" /\ skipDepth = 0 /\ pc <= Len(prog.code)
           /\ Current.op \in ModelOps
           /\ steps' = steps + 1
<1> USE DEF ModelOps, ModelAllocators, SampleAllocators, CoefficientOps, GridOps,
        ConstraintOps
<1>1. \A ops : Executing(ops) =>
          /\ status = "running" /\ skipDepth = 0 /\ pc <= Len(prog.code)
          /\ Current.op \in ops /\ steps' = steps + 1
  BY DEF Executing
<1>2. CASE ModelUnderflow
  BY <1>2 DEF ModelUnderflow
<1>3. CASE \/ ExecAllocate \/ ExecAllocateDiscrete \/ ExecGetLine \/ ExecSetLine
           \/ ExecGetQuad \/ ExecSetQuad \/ ExecAddPair \/ ExecResize
  BY <1>1, <1>3 DEF ExecAllocate, ExecAllocateDiscrete, ExecGetLine, ExecSetLine,
                    ExecGetQuad, ExecSetQuad, ExecAddPair, ExecResize
<1>4. CASE \/ ExecFind \/ ExecSum \/ ExecOneHot \/ ExecEquality \/ ExecAtLeast
           \/ ExecAtLeastW \/ ExecReduce \/ ExecEnergy
  BY <1>1, <1>4 DEF ExecFind, ExecSum, ExecOneHot, ExecEquality, ExecAtLeast,
                    ExecAtLeastW, ExecReduce, ExecEnergy
<1> QED BY <1>2, <1>3, <1>4 DEF ModelStep

FailsCleanly == status' \in VmErrors \ {"Panic"} => UNCHANGED regs

LEMMA EndsClean ==
    ASSUME status = "running"
    PROVE  /\ UNCHANGED regs => FailsCleanly
           /\ Continue => FailsCleanly
           /\ Fault("Panic") => FailsCleanly
BY DEF FailsCleanly, Continue, Fault, VmErrors

LEMMA AddEndsClean ==
    ASSUME status = "running", NEW r, NEW m, NEW terms, Add(r, m, terms)
    PROVE  FailsCleanly
BY EndsClean DEF Add

LEMMA HandlersFailCleanly ==
    ASSUME ModelStep, ~ExecEquality PROVE FailsCleanly
<1>1. status = "running"
  BY ModelStart
<1>2. \A e : FaultKeepingRegs(e) => UNCHANGED regs
  BY DEF FaultKeepingRegs
<1>3. CASE \/ ModelUnderflow \/ ExecGetLine \/ ExecGetQuad \/ ExecFind \/ ExecSum
           \/ ExecEnergy
  BY <1>1, <1>3, EndsClean
     DEF ModelUnderflow, ExecGetLine, ExecGetQuad, ExecFind, ExecSum, ExecEnergy
<1>4. CASE ExecAllocate \/ ExecAllocateDiscrete
  BY <1>1, <1>2, <1>4, EndsClean DEF ExecAllocate, ExecAllocateDiscrete
<1>5. CASE ExecSetLine \/ ExecSetQuad \/ ExecResize
  BY <1>1, <1>2, <1>5, EndsClean DEF ExecSetLine, ExecSetQuad, ExecResize
<1>6. CASE ExecAddPair \/ ExecOneHot
  BY <1>1, <1>2, <1>6, EndsClean, AddEndsClean DEF ExecAddPair, ExecOneHot
<1>7. CASE ExecAtLeast
  BY <1>1, <1>2, <1>7, EndsClean, AddEndsClean DEF ExecAtLeast, AddAtLeast
<1>8. CASE ExecAtLeastW
  BY <1>1, <1>2, <1>8, EndsClean, AddEndsClean DEF ExecAtLeastW, AddAtLeast
<1>9. CASE ExecReduce
  BY <1>1, <1>2, <1>9, EndsClean DEF ExecReduce
<1> QED BY <1>3, <1>4, <1>5, <1>6, <1>7, <1>8, <1>9 DEF ModelStep

\* All that EQUALITY has done when it fails is to enlarge the model.
OnlyGrown ==
    /\ Current.op = "EQUALITY"
    /\ regs' = [regs EXCEPT ![Current.r1] =
                  ModelVal([@.model EXCEPT !.size = After.size])]
    /\ After.size > Before.size

LEMMA EqualityFails ==
    ASSUME AnyModel, TypeOK, ExecEquality, status' \in VmErrors \ {"Panic"}
    PROVE  UNCHANGED regs \/ OnlyGrown
<1> DEFINE v == regs[Current.r1]
           indices == regs[Current.r2].ints
           grown == GrownFor(v.model, indices)
<1>1. Executing({"EQUALITY"}) /\ status = "running" /\ Current.op = "EQUALITY"
  BY DEF ExecEquality, Executing
<1>2. \/ UNCHANGED regs
      \/ FailsCleanly
      \/ IsModel(v) /\ Stow(Current.r1, ModelVal(grown))
  BY <1>1, AddEndsClean DEF ExecEquality, FaultKeepingRegs
<1>3. CASE UNCHANGED regs \/ FailsCleanly
  BY <1>3 DEF FailsCleanly
<1>4. CASE IsModel(v) /\ Stow(Current.r1, ModelVal(grown))
  <2>1. /\ Current.r1 \in Reg /\ regs \in [Reg -> RegVal]
        /\ v = ModelVal(v.model) /\ v.model \in ModelSet
    BY <1>1, <1>4, Named, ModelValues DEF TypeOK, RegsOK
  <2>2. regs' = [regs EXCEPT ![Current.r1] = ModelVal(grown)]
    BY <1>4 DEF Stow
  <2>3. \/ grown = v.model
        \/ \E n : grown = [v.model EXCEPT !.size = n] /\ n > v.model.size
    BY DEF GrownFor
  <2> HIDE DEF grown
  <2>4. CASE grown = v.model
    BY <2>1, <2>2, <2>4
  <2>5. CASE \E n : grown = [v.model EXCEPT !.size = n] /\ n > v.model.size
    <3>1. PICK n : grown = [v.model EXCEPT !.size = n] /\ n > v.model.size
      BY <2>5
    <3>2. regs'[Current.r1] = ModelVal(grown)
      BY <2>1, <2>2
    <3>3. After = grown /\ Before = v.model
      BY <3>2 DEF After, Before, ModelVal
    <3>4. After.size = n
      BY <2>1, <3>1, <3>3 DEF ModelSet
    <3> QED BY <1>1, <2>2, <3>1, <3>3, <3>4 DEF OnlyGrown
  <2> QED BY <2>3, <2>4, <2>5
<1> QED BY <1>2, <1>3, <1>4

\* An instruction that works on a model and fails has added no coefficient to
\* it and taken none away, whatever the model, the operands and the point of
\* the failure; EQUALITY may have enlarged the model, an addition that
\* overflows is the exception (the error paths of the model handlers of
\* src/xqvm/src/vm.rs).
THEOREM ModelFailuresSound ==
    ASSUME AnyModel PROVE XqmxSpec => FailedInstructionAddsNothing
<1> DEFINE fails == /\ status = "running" /\ status' \in VmErrors \ {"Panic"}
                    /\ pc <= Len(prog.code) /\ Current.op \in ModelOps
<1>1. ASSUME TypeOK, [XqmxNext]_vmVars, fails PROVE UNCHANGED regs \/ OnlyGrown
  <2>1. CASE Execute
    <3>1. Current.op \in ExecOps
      BY <2>1, ExecuteStart
    <3> QED BY <1>1, <3>1
            DEF ModelOps, ModelAllocators, SampleAllocators, CoefficientOps, GridOps,
                ConstraintOps, ExecOps, StackOps, RegisterOps, ControlOps, JumpOps,
                LoopOpeners, UnaryOps, BinaryOps, VecOps, IndexOps
  <2>2. CASE StepLimitHit \/ EndOfStream \/ SkipScan
    BY <2>2 DEF StepLimitHit, EndOfStream, SkipScan
  <2>3. CASE ModelStep /\ ~ExecEquality
    BY <1>1, <2>3, HandlersFailCleanly DEF FailsCleanly
  <2>4. CASE ExecEquality
    BY <1>1, <2>4, EqualityFails
  <2>5. CASE HostStep
    BY <1>1, <2>5 DEF HostStep, Run, Reset, SetCalldata, SetOutputSlots,
                      SetStepLimit, SetRegister, BetweenRuns
  <2>6. CASE UNCHANGED vmVars
    BY <1>1, <2>6 DEF vmVars
  <2> QED BY <1>1, <2>1, <2>2, <2>3, <2>4, <2>5, <2>6 DEF XqmxNext, XqmxStep, VmStep
<1>2. TypeOK /\ [XqmxNext]_vmVars
        => [fails => \/ UNCHANGED regs
                     \/ /\ Current.op = "EQUALITY"
                        /\ regs' = [regs EXCEPT ![Current.r1] =
                                      ModelVal([@.model EXCEPT !.size = After.size])]
                        /\ After.size > Before.size]_vmVars
  BY <1>1 DEF OnlyGrown
<1>3. TypeOK /\ [XqmxNext]_vmVars => TypeOK'
  BY XqmxPreservesTypeOK
<1> QED BY <1>2, <1>3, InitOK, PTL DEF XqmxSpec, FailedInstructionAddsNothing

--------------------------------------------------------------------------
(* The trace.                                                             *)

\* Every register the step changes is in the table of written registers.
ChangesListed ==
    \A r \in Reg : regs'[r] # regs[r] => r \in Range(WrittenRegisters(Current))

OneWriter == WriteOnly \cup ReadWrite \cup {"EQUALITY", "ATLEAST", "ATLEASTW"}

LEMMA TableOf ==
    /\ Current.op \in OneWriter => Current.r1 \in Range(WrittenRegisters(Current))
    /\ Current.op = "SLACK" => /\ Current.r1 \in Range(WrittenRegisters(Current))
                               /\ Current.r2 \in Range(WrittenRegisters(Current))
<1>1. ASSUME Current.op \in OneWriter
      PROVE  Current.r1 \in Range(WrittenRegisters(Current))
  <2>1. WrittenRegisters(Current) = <<Current.r1>>
    BY <1>1 DEF WrittenRegisters, OneWriter, WriteOnly, ReadWrite, ModelAllocators,
                SampleAllocators
  <2> QED BY <2>1 DEF Range
<1>2. ASSUME Current.op = "SLACK"
      PROVE  /\ Current.r1 \in Range(WrittenRegisters(Current))
             /\ Current.r2 \in Range(WrittenRegisters(Current))
  <2>1. WrittenRegisters(Current) = <<Current.r1, Current.r2>>
    BY <1>2 DEF WrittenRegisters, WriteOnly, ReadWrite, ModelAllocators,
                SampleAllocators
  <2>2. 1 \in DOMAIN <<Current.r1, Current.r2>> /\ 2 \in DOMAIN <<Current.r1, Current.r2>>
    OBVIOUS
  <2> QED BY <2>1, <2>2 DEF Range
<1> QED BY <1>1, <1>2

LEMMA Listed ==
    ASSUME TypeOK
    PROVE  /\ UNCHANGED regs => ChangesListed
           /\ Current.op \in OneWriter
                => /\ \A v : regs' = [regs EXCEPT ![Current.r1] = v] => ChangesListed
                   /\ \A v : Stow(Current.r1, v) => ChangesListed
                   /\ \A m, terms : Add(Current.r1, m, terms) => ChangesListed
<1>1. regs \in [Reg -> RegVal]
  BY DEF TypeOK, RegsOK
<1>2. UNCHANGED regs => ChangesListed
  BY DEF ChangesListed
<1>3. ASSUME Current.op \in OneWriter, NEW v, regs' = [regs EXCEPT ![Current.r1] = v]
      PROVE  ChangesListed
  BY <1>1, <1>3, TableOf DEF ChangesListed
<1> QED BY <1>2, <1>3 DEF Stow, Add

\* The handlers against the table, those of XqVm first.
LEMMA VmListed == ASSUME TypeOK, Execute PROVE ChangesListed
<1>1. \A ops : Executing(ops) => Current.op \in ops
  BY DEF Executing
<1>2. {"STOW", "DROP", "INPUT", "LIDX", "LVAL", "VEC", "VECI", "VECX", "VECPUSH",
       "VECSET"} \subseteq OneWriter
  BY DEF OneWriter, WriteOnly, ReadWrite
<1>3. CASE \/ Underflow \/ ExecNop \/ ExecHalt \/ ExecBad \/ ExecJump \/ ExecJumpI
           \/ ExecNext \/ ExecRange \/ ExecIter \/ ExecPush \/ ExecPop \/ ExecCopy
           \/ ExecSwap \/ ExecSclr \/ ExecLoad \/ ExecOutput
  BY <1>3, Listed
     DEF Underflow, ExecNop, ExecHalt, ExecBad, ExecJump, ExecJumpI, ExecNext,
         ExecRange, ExecIter, ExecPush, ExecPop, ExecCopy, ExecSwap, ExecSclr,
         ExecLoad, ExecOutput
<1>4. CASE ExecUnary \/ ExecBinary \/ ExecIdxGrid \/ ExecIdxTriu \/ ExecVecGet
             \/ ExecVecLen
  BY <1>4, Listed DEF ExecUnary, ExecBinary, ExecIdxGrid, ExecIdxTriu, ExecVecGet,
                      ExecVecLen
<1>5. CASE ExecLidx \/ ExecLVal
  BY <1>1, <1>2, <1>5, Listed DEF ExecLidx, ExecLVal
<1>6. CASE ExecStow \/ ExecDrop \/ ExecInput
  BY <1>1, <1>2, <1>6, Listed DEF ExecStow, ExecDrop, ExecInput
<1>7. CASE ExecVecNew \/ ExecVecPush \/ ExecVecSet
  BY <1>1, <1>2, <1>7, Listed DEF ExecVecNew, ExecVecPush, ExecVecSet
<1>8. CASE ExecSlack
  <2>1. Current.op = "SLACK" /\ Executing({"SLACK"})
    BY <1>1, <1>8 DEF ExecSlack
  <2>2. \/ UNCHANGED regs
        \/ \E v : regs' = [regs EXCEPT ![Current.r1] = v]
        \/ \E v, x : regs' = [[regs EXCEPT ![Current.r1] = v] EXCEPT ![Current.r2] = x]
    BY <1>8 DEF ExecSlack
  <2>3. regs \in [Reg -> RegVal]
    BY DEF TypeOK, RegsOK
  <2>4. CASE UNCHANGED regs
    BY <2>4, Listed
  <2>5. CASE \E v : regs' = [regs EXCEPT ![Current.r1] = v]
    BY <2>1, <2>3, <2>5, TableOf DEF ChangesListed
  <2>6. CASE \E v, x : regs' = [[regs EXCEPT ![Current.r1] = v] EXCEPT ![Current.r2] = x]
    BY <2>1, <2>3, <2>6, TableOf DEF ChangesListed
  <2> QED BY <2>2, <2>4, <2>5, <2>6
<1> QED BY <1>3, <1>4, <1>5, <1>6, <1>7, <1>8 DEF Execute

LEMMA ModelListed == ASSUME TypeOK, ModelStep PROVE ChangesListed
<1>1. \A ops : Executing(ops) => Current.op \in ops
  BY DEF Executing
<1>2. {"BQMX", "SQMX", "BSMX", "SSMX", "XQMX", "XSMX", "SETLINE", "ADDLINE",
       "SETQUAD", "ADDQUAD", "EXCLUDE", "IMPLIES", "RESIZE", "ONEHOTR", "ONEHOTC",
       "EQUALITY", "ATLEAST", "ATLEASTW", "REDUCE"} \subseteq OneWriter
  BY DEF OneWriter, WriteOnly, ReadWrite, ModelAllocators, SampleAllocators
<1>3. \A e : FaultKeepingRegs(e) => UNCHANGED regs
  BY DEF FaultKeepingRegs
<1>4. CASE \/ ModelUnderflow \/ ExecGetLine \/ ExecGetQuad \/ ExecFind \/ ExecSum
           \/ ExecEnergy
  BY <1>4, Listed
     DEF ModelUnderflow, ExecGetLine, ExecGetQuad, ExecFind, ExecSum, ExecEnergy
<1>5. CASE ExecAllocate
  BY <1>1, <1>2, <1>5, Listed DEF ExecAllocate
<1>6. CASE ExecAllocateDiscrete
  BY <1>1, <1>2, <1>3, <1>6, Listed DEF ExecAllocateDiscrete
<1>7. CASE ExecSetLine
  BY <1>1, <1>2, <1>3, <1>7, Listed DEF ExecSetLine
<1>8. CASE ExecSetQuad
  BY <1>1, <1>2, <1>3, <1>8, Listed DEF ExecSetQuad
<1>9. CASE ExecResize
  BY <1>1, <1>2, <1>3, <1>9, Listed DEF ExecResize
<1>10. CASE ExecAddPair
  BY <1>1, <1>2, <1>3, <1>10, Listed DEF ExecAddPair
<1>11. CASE ExecOneHot
  BY <1>1, <1>2, <1>3, <1>11, Listed DEF ExecOneHot
<1>12. CASE ExecEquality
  BY <1>1, <1>2, <1>3, <1>12, Listed DEF ExecEquality
<1>13. CASE ExecAtLeast
  BY <1>1, <1>2, <1>3, <1>13, Listed DEF ExecAtLeast, AddAtLeast
<1>14. CASE ExecAtLeastW
  BY <1>1, <1>2, <1>3, <1>14, Listed DEF ExecAtLeastW, AddAtLeast
<1>15. CASE ExecReduce
  BY <1>1, <1>2, <1>3, <1>15, Listed DEF ExecReduce
<1> QED BY <1>4, <1>5, <1>6, <1>7, <1>8, <1>9, <1>10, <1>11, <1>12, <1>13, <1>14,
           <1>15 DEF ModelStep

\* Following a line, a reader who knew the registers before the step knows
\* them after it.
LEMMA LineFollowed ==
    ASSUME TypeOK, TypeOK', known = regs, ChangesListed,
           line' = StepState, known' = Following(line')
    PROVE  known' = regs'
<1> DEFINE slots == {r \in Range(WrittenRegisters(Current)) : regs'[r] # regs[r]}
           written == {<<r, regs'[r]>> : r \in slots}
<1>1. regs \in [Reg -> RegVal] /\ regs' \in [Reg -> RegVal]
  BY DEF TypeOK, RegsOK
<1>2. line'.written = written
  BY DEF StepState
<1> HIDE DEF slots
<1>3. known' = [r \in Reg |-> IF \E w \in written : w[1] = r
                              THEN (CHOOSE w \in written : w[1] = r)[2]
                              ELSE known[r]]
  BY <1>2 DEF Following
<1>4. ASSUME NEW r \in Reg PROVE known'[r] = regs'[r]
  <2>1. CASE r \in slots
    <3>1. /\ <<r, regs'[r]>> \in written
          /\ \A w \in written : w[1] = r => w = <<r, regs'[r]>>
      BY <2>1
    <3> HIDE DEF written
    <3>2. (CHOOSE w \in written : w[1] = r) = <<r, regs'[r]>>
      BY <3>1
    <3>3. \E w \in written : w[1] = r
      BY <3>1
    <3> QED BY <1>3, <3>2, <3>3
  <2>2. CASE r \notin slots
    <3>1. \A w \in written : w[1] # r
      BY <2>2
    <3>2. known'[r] = known[r]
      BY <1>3, <3>1
    <3>3. regs'[r] = regs[r]
      BY <2>2 DEF ChangesListed, slots
    <3> QED BY <3>2, <3>3
  <2> QED BY <2>1, <2>2
<1>5. DOMAIN known' = Reg /\ known' = [r \in Reg |-> known'[r]]
  BY <1>3
<1> QED BY <1>1, <1>4, <1>5

LEMMA StepTraced ==
    ASSUME AnyModel, TypeOK, TypeOK', TraceComplete, TracedStep PROVE TraceComplete'
<1> SUFFICES ASSUME status' \in {"running", "ok"} PROVE known' = regs'
  BY DEF TraceComplete
<1>1. CASE Execute \/ ModelStep
  <2>1. /\ status = "running" /\ skipDepth = 0 /\ pc <= Len(prog.code)
        /\ steps' = steps + 1
    BY <1>1, ExecuteStart, ModelStart
  <2>2. Dispatched /\ known = regs
    BY <2>1 DEF Dispatched, TraceComplete
  <2>3. ChangesListed
    BY <1>1, VmListed, ModelListed
  <2>4. line' = StepState /\ known' = Following(line')
    BY <2>2 DEF TracedStep
  <2> QED BY <2>2, <2>3, <2>4, LineFollowed
<1>2. CASE StepLimitHit \/ EndOfStream \/ SkipScan
  <2>1. status = "running" /\ UNCHANGED regs
    BY <1>2 DEF StepLimitHit, EndOfStream, SkipScan
  <2>2. ~Dispatched
    <3>1. CASE StepLimitHit
      BY <3>1 DEF StepLimitHit, Fault, Dispatched
    <3>2. CASE EndOfStream
      <4>1. Len(prog.code) \in Nat /\ pc \in Nat
        BY LenProperties DEF TypeOK, ControlOK, WellFormed, Program
      <4> QED BY <3>2, <4>1 DEF EndOfStream, Dispatched
    <3>3. CASE SkipScan
      BY <3>3 DEF SkipScan, Dispatched
    <3> QED BY <1>2, <3>1, <3>2, <3>3
  <2>3. UNCHANGED known
    BY <2>2 DEF TracedStep
  <2> QED BY <2>1, <2>3 DEF TraceComplete
<1> QED BY <1>1, <1>2 DEF TracedStep, XqmxStep, VmStep

\* A reader of the trace who is told the registers when a run starts knows
\* them after every step of it and when it has ended well, for every program:
\* the lists of written registers of instruction.rs miss no register that a
\* handler of vm.rs changes.
THEOREM TracesComplete ==
    ASSUME AnyModel PROVE TracedSpec => []TraceComplete
<1> DEFINE Inv == TypeOK /\ TraceComplete
<1>1. TracedInit => Inv
  BY InitOK DEF TracedInit, TraceComplete
<1>2. Inv /\ [TracedNext]_<<vmVars, line, known>> => Inv'
  <2> SUFFICES ASSUME Inv, [TracedNext]_<<vmVars, line, known>> PROVE Inv'
    OBVIOUS
  <2>1. TypeOK'
    <3>1. [XqmxNext]_vmVars
      BY DEF TracedNext, TracedStep, Told, XqmxNext
    <3> QED BY <3>1, XqmxPreservesTypeOK
  <2>2. CASE TracedStep
    BY <2>1, <2>2, StepTraced
  <2>3. CASE Told(HostStep)
    BY <2>1, <2>3 DEF Told, TraceComplete
  <2>4. CASE UNCHANGED <<vmVars, line, known>>
    BY <2>1, <2>4 DEF vmVars, TraceComplete
  <2> QED BY <2>1, <2>2, <2>3, <2>4 DEF TracedNext
<1>3. Inv => TraceComplete
  OBVIOUS
<1> QED BY <1>1, <1>2, <1>3, PTL DEF TracedSpec
==========================================================================
