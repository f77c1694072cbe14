----------------------------- MODULE SetLemmas -----------------------------
(***************************************************************************)
(* Facts that the proofs share: least and greatest elements of sets of     *)
(* naturals, what Max of the community modules returns, induction over     *)
(* naturals and over finite sets, and sums.                                *)
(***************************************************************************)
EXTENDS FiniteSetsExt, Functions, FiniteSetTheorems, TLAPS

(* A nonempty set of naturals has a least element. *)
LEMMA LeastNatural ==
  ASSUME NEW S \in SUBSET Nat, S # {}
  PROVE  \E n \in S : \A m \in S : n <= m
<1> DEFINE R == {ss \in Nat \X Nat : ss[1] < ss[2]}
<1>1. OpToRel(<, Nat) = R
  BY Zenon DEF OpToRel
<1>2. IsWellFoundedOn(R, Nat)
  BY <1>1, NatLessThanWellFounded
<1>3. PICK n \in S : \A m \in S : ~(<<m, n>> \in R)
  <2> HIDE DEF R
  <2> QED  BY <1>2, WFMin
<1>4. ASSUME NEW m \in S PROVE n <= m
  <2>1. m \in Nat /\ n \in Nat
    OBVIOUS
  <2>2. m < n => <<m, n>> \in R
    BY <2>1
  <2>3. ~(m < n)
    <3> HIDE DEF R
    <3> QED  BY <1>3, <2>2
  <2> QED  BY <2>1, <2>3
<1> QED  BY <1>4

(* A nonempty set of naturals with an upper bound has a greatest element. *)
LEMMA GreatestNatural ==
  ASSUME NEW S \in SUBSET Nat, S # {}, NEW b \in Nat, \A n \in S : n <= b
  PROVE  \E n \in S : \A m \in S : m <= n
<1> DEFINE D == {b - n : n \in S}
<1>1. D \in SUBSET Nat /\ D # {}
  <2>1. \A n \in S : b - n \in Nat
    OBVIOUS
  <2>2. D \in SUBSET Nat
    BY <2>1
  <2>3. PICK n \in S : TRUE
    OBVIOUS
  <2>4. b - n \in D
    OBVIOUS
  <2> QED  BY <2>2, <2>4
<1>2. PICK d \in D : \A e \in D : d <= e
  <2> HIDE DEF D
  <2> QED  BY <1>1, LeastNatural
<1>3. PICK n \in S : d = b - n
  OBVIOUS
<1>4. ASSUME NEW m \in S PROVE m <= n
  <2>1. b - m \in D
    OBVIOUS
  <2>2. d <= b - m
    BY <1>2, <2>1
  <2> QED  BY <2>2, <1>3
<1> QED  BY <1>4

(* What Max returns on such a set. *)
LEMMA MaxOfBounded ==
  ASSUME NEW S \in SUBSET Nat, S # {}, NEW b \in Nat, \A n \in S : n <= b
  PROVE  Max(S) \in S /\ \A m \in S : m <= Max(S)
<1>1. \E n \in S : \A m \in S : n >= m
  BY GreatestNatural
<1>2. Max(S) \in S /\ \A m \in S : Max(S) >= m
  BY <1>1 DEF Max
<1> QED  BY <1>2

(* A finite set of naturals has an upper bound. *)
LEMMA FiniteBounded ==
  ASSUME NEW S \in SUBSET Nat, IsFiniteSet(S)
  PROVE  \E b \in Nat : \A n \in S : n <= b
<1> DEFINE Q == {k \in Nat : \E T \in SUBSET S : IsFiniteSet(T) /\ Cardinality(T) = k
                                /\ ~ \E b \in Nat : \A n \in T : n <= b}
<1>1. Q = {}
  <2> SUFFICES ASSUME Q # {} PROVE FALSE
    OBVIOUS
  <2>1. PICK k \in Q : \A j \in Q : k <= j
    <3>1. Q \in SUBSET Nat  OBVIOUS
    <3> HIDE DEF Q
    <3> QED  BY <3>1, LeastNatural
  <2>2. PICK T \in SUBSET S : IsFiniteSet(T) /\ Cardinality(T) = k
                                /\ ~ \E b \in Nat : \A n \in T : n <= b
    OBVIOUS
  <2>3. PICK x \in T : TRUE
    BY <2>2
  <2>4. IsFiniteSet(T \ {x}) /\ Cardinality(T \ {x}) = k - 1
    BY <2>2, FS_RemoveElement
  <2>5. k - 1 \in Nat
    BY <2>4, FS_CardinalityType
  <2>6. k - 1 \notin Q
    <3>1. ~(k <= k - 1)
      BY <2>5
    <3> HIDE DEF Q
    <3> QED  BY <2>1, <3>1
  <2>7. PICK b \in Nat : \A n \in T \ {x} : n <= b
    BY <2>4, <2>5, <2>6
  <2>8. x \in Nat
    OBVIOUS
  <2>9. CASE x <= b
    BY <2>2, <2>7, <2>9
  <2>10. CASE b <= x
    BY <2>2, <2>7, <2>8, <2>10
  <2> QED  BY <2>8, <2>9, <2>10
<1>2. Cardinality(S) \in Nat
  BY FS_CardinalityType
<1>3. Cardinality(S) \notin Q
  BY <1>1
<1> QED  BY <1>2, <1>3

(* What Max of the community modules returns on a finite set. *)
LEMMA MaxOfFinite ==
  ASSUME NEW S \in SUBSET Nat, S # {}, IsFiniteSet(S)
  PROVE  Max(S) \in S /\ \A m \in S : m <= Max(S)
BY FiniteBounded, MaxOfBounded

(* The values of a function are no more than its arguments. *)
LEMMA ImageFinite ==
  ASSUME NEW f, IsFiniteSet(DOMAIN f)
  PROVE  /\ IsFiniteSet({f[x] : x \in DOMAIN f})
         /\ Cardinality({f[x] : x \in DOMAIN f}) <= Cardinality(DOMAIN f)
<1> DEFINE T == {f[x] : x \in DOMAIN f}
           g == [x \in DOMAIN f |-> f[x]]
<1>1. g \in Surjection(DOMAIN f, T)
  BY DEF Surjection
<1> HIDE DEF T, g
<1>2. IsFiniteSet(T) /\ Cardinality(T) <= Cardinality(DOMAIN f)
  BY <1>1, FS_Surjection
<1> QED  BY <1>2 DEF T

(* Induction over the naturals, for a set of them. *)
LEMMA NaturalsClosed ==
  ASSUME NEW F \in SUBSET Nat, 0 \in F, \A n \in F : n + 1 \in F
  PROVE  F = Nat
<1> SUFFICES ASSUME F # Nat PROVE FALSE
  OBVIOUS
<1>1. PICK n \in Nat \ F : \A m \in Nat \ F : n <= m
  <2>1. (Nat \ F) \in SUBSET Nat /\ Nat \ F # {}
    OBVIOUS
  <2> QED  BY <2>1, LeastNatural
<1>2. n # 0 /\ n - 1 \in Nat
  OBVIOUS
<1>3. n - 1 \in F
  BY <1>1, <1>2
<1>4. (n - 1) + 1 \in F
  BY <1>3
<1> QED  BY <1>4

(* Induction over a finite set, for a family of its subsets. *)
LEMMA SubsetsClosed ==
  ASSUME NEW S, IsFiniteSet(S), NEW F \in SUBSET SUBSET S, {} \in F,
         \A s \in F : \A x \in S \ s : s \cup {x} \in F
  PROVE  S \in F
<1> DEFINE D == {Cardinality(s) : s \in (SUBSET S) \ F}
<1> SUFFICES ASSUME S \notin F PROVE FALSE
  OBVIOUS
<1>1. \A s \in SUBSET S : IsFiniteSet(s) /\ Cardinality(s) \in Nat
  BY FS_Subset, FS_CardinalityType
<1>2. PICK d \in D : \A e \in D : d <= e
  <2>1. D \in SUBSET Nat
    BY <1>1
  <2>2. Cardinality(S) \in D
    OBVIOUS
  <2> QED  BY <2>1, <2>2, LeastNatural
<1>3. PICK s \in (SUBSET S) \ F : d = Cardinality(s)
  OBVIOUS
<1>4. PICK x \in s : TRUE
  OBVIOUS
<1>5. Cardinality(s \ {x}) = d - 1 /\ d \in Nat
  BY <1>1, <1>3, FS_RemoveElement
<1>6. s \ {x} \in F
  <2>1. s \ {x} \notin F => d - 1 \in D
    BY <1>5
  <2>2. ~(d <= d - 1)
    BY <1>5
  <2> QED  BY <1>2, <2>1, <2>2
<1>7. (s \ {x}) \cup {x} = s
  OBVIOUS
<1> QED  BY <1>3, <1>6, <1>7

----------------------------------------------------------------------------
(* SumFunctionOnSet of the community modules, on finite sets. *)

SumStep(f, g, s) ==
  IF s = {} THEN 0 ELSE f[CHOOSE x \in s : TRUE] + g[s \ {CHOOSE x \in s : TRUE}]

Sums(f, g, S) == g = [s \in SUBSET S |-> SumStep(f, g, s)]

Summable(f, S) == IsFiniteSet(S) /\ \A x \in S : f[x] \in Nat

(* The recursion of a sum has a solution. *)
LEMMA SumsExist ==
  ASSUME NEW f, NEW S, Summable(f, S)
  PROVE  \E g : Sums(f, g, S)
<1> DEFINE P(n) == \E g \in [SUBSET S -> Nat] :
                     \A s \in SUBSET S : Cardinality(s) <= n => g[s] = SumStep(f, g, s)
           F == {n \in Nat : P(n)}
<1>1. \A s \in SUBSET S : IsFiniteSet(s) /\ Cardinality(s) \in Nat
  BY FS_Subset, FS_CardinalityType DEF Summable
<1>2. \A g \in [SUBSET S -> Nat], s \in SUBSET S : SumStep(f, g, s) \in Nat
  <2> SUFFICES ASSUME NEW g \in [SUBSET S -> Nat], NEW s \in SUBSET S, s # {}
               PROVE  SumStep(f, g, s) \in Nat
    BY DEF SumStep
  <2> DEFINE c == CHOOSE x \in s : TRUE
  <2>1. c \in s
    OBVIOUS
  <2>2. f[c] \in Nat /\ g[s \ {c}] \in Nat
    BY <2>1 DEF Summable
  <2> QED  BY <2>2 DEF SumStep
<1>3. P(0)
  <2> DEFINE g == [s \in SUBSET S |-> 0]
  <2>1. ASSUME NEW s \in SUBSET S, Cardinality(s) <= 0 PROVE g[s] = SumStep(f, g, s)
    <3>1. s = {}
      BY <1>1, <2>1, FS_EmptySet
    <3> QED  BY <3>1 DEF SumStep
  <2> QED  BY <2>1
<1>4. ASSUME NEW n \in F PROVE n + 1 \in F
  <2>1. PICK g \in [SUBSET S -> Nat] :
           \A s \in SUBSET S : Cardinality(s) <= n => g[s] = SumStep(f, g, s)
    BY <1>4
  <2> DEFINE h == [s \in SUBSET S |-> SumStep(f, g, s)]
  <2>2. h \in [SUBSET S -> Nat]
    BY <1>2
  <2>3. ASSUME NEW s \in SUBSET S, Cardinality(s) <= n + 1 PROVE h[s] = SumStep(f, h, s)
    <3>1. CASE s = {}
      BY <3>1 DEF SumStep
    <3>2. CASE s # {}
      <4> DEFINE c == CHOOSE x \in s : TRUE
      <4>1. c \in s
        BY <3>2
      <4>2. Cardinality(s \ {c}) <= n
        <5>1. Cardinality(s \ {c}) = Cardinality(s) - 1
          BY <1>1, <4>1, FS_RemoveElement
        <5> QED  BY <5>1, <2>3, <1>1
      <4>3. h[s \ {c}] = g[s \ {c}]
        BY <2>1, <4>2
      <4> QED  BY <3>2, <4>3 DEF SumStep
    <3> QED  BY <3>1, <3>2
  <2>4. P(n + 1)
    BY <2>2, <2>3
  <2>5. n + 1 \in Nat
    OBVIOUS
  <2> HIDE DEF P
  <2> QED  BY <2>4, <2>5
<1>5. F = Nat
  <2> HIDE DEF P
  <2> QED  BY <1>3, <1>4, NaturalsClosed
<1>6. P(Cardinality(S))
  <2>1. Cardinality(S) \in F
    BY <1>1, <1>5
  <2> QED  BY <2>1
<1>7. PICK g \in [SUBSET S -> Nat] :
         \A s \in SUBSET S : Cardinality(s) <= Cardinality(S) => g[s] = SumStep(f, g, s)
  BY <1>6
<1>8. \A s \in SUBSET S : g[s] = SumStep(f, g, s)
  BY <1>7, FS_Subset DEF Summable
<1>9. Sums(f, g, S)
  BY <1>8 DEF Sums
<1> QED  BY <1>9

LEMMA SumUnfold ==
  ASSUME NEW f, NEW S, Summable(f, S)
  PROVE  \E g : Sums(f, g, S) /\ SumFunctionOnSet(f, S) = g[S]
<1> DEFINE G == CHOOSE g : g = [s \in SUBSET S |-> SumStep(f, g, s)]
<1>1. PICK h : h = [s \in SUBSET S |-> SumStep(f, h, s)]
  BY SumsExist DEF Sums
<1>2. G = [s \in SUBSET S |-> SumStep(f, G, s)]
  BY <1>1, Zenon
<1>3. SumFunctionOnSet(f, S) = G[S]
  BY Zenon DEF SumFunctionOnSet, FoldFunctionOnSet, MapThenFoldSet, SumStep
<1>4. Sums(f, G, S)
  BY <1>2, Zenon DEF Sums
<1> QED  BY <1>3, <1>4

(* The recursion gives the same whichever element is taken first. *)
LEMMA SumsAnyOrder ==
  ASSUME NEW f, NEW S, Summable(f, S), NEW g, Sums(f, g, S)
  PROVE  \A s \in SUBSET S : g[s] \in Nat /\ \A x \in s : g[s] = f[x] + g[s \ {x}]
<1> DEFINE Q(s) == g[s] \in Nat /\ \A x \in s : g[s] = f[x] + g[s \ {x}]
           F == {n \in Nat : \A s \in SUBSET S : Cardinality(s) <= n => Q(s)}
<1>1. \A s \in SUBSET S : IsFiniteSet(s) /\ Cardinality(s) \in Nat
  BY FS_Subset, FS_CardinalityType DEF Summable
<1>2. \A s \in SUBSET S : g[s] = SumStep(f, g, s)
  BY DEF Sums
<1>3. 0 \in F
  <2>1. ASSUME NEW s \in SUBSET S, Cardinality(s) <= 0 PROVE Q(s)
    <3>1. s = {}
      BY <1>1, <2>1, FS_EmptySet
    <3> QED  BY <3>1, <1>2 DEF SumStep
  <2> QED  BY <2>1
<1>4. ASSUME NEW n \in F PROVE n + 1 \in F
  <2>1. ASSUME NEW t \in SUBSET S, Cardinality(t) <= n PROVE Q(t)
    BY <2>1
  <2>2. ASSUME NEW s \in SUBSET S, Cardinality(s) <= n + 1 PROVE Q(s)
    <3>1. CASE s = {}
      BY <3>1, <1>2 DEF SumStep
    <3>2. CASE s # {}
      <4> DEFINE c == CHOOSE x \in s : TRUE
      <4>1. c \in s
        BY <3>2
      <4>2. \A x \in s : Q(s \ {x})
        <5> TAKE x \in s
        <5>1. Cardinality(s \ {x}) = Cardinality(s) - 1
          BY <1>1, FS_RemoveElement
        <5>2. Cardinality(s \ {x}) <= n
          BY <5>1, <2>2, <1>1
        <5> HIDE DEF Q
        <5> QED  BY <5>2, <2>1
      <4>3. g[s] = f[c] + g[s \ {c}]
        BY <3>2, <1>2 DEF SumStep
      <4>4. \A x \in s : f[x] \in Nat
        BY DEF Summable
      <4> HIDE DEF c
      <4>5. g[s] \in Nat
        <5>1. f[c] \in Nat /\ g[s \ {c}] \in Nat
          BY <4>1, <4>2, <4>4
        <5> HIDE DEF Q
        <5> QED  BY <5>1, <4>3
      <4>6. ASSUME NEW x \in s PROVE g[s] = f[x] + g[s \ {x}]
        <5>1. CASE x = c
          BY <5>1, <4>3
        <5>2. CASE x # c
          <6>1. g[s \ {c}] = f[x] + g[(s \ {c}) \ {x}]
            BY <4>1, <4>2, <5>2
          <6>2. g[s \ {x}] = f[c] + g[(s \ {x}) \ {c}]
            BY <4>1, <4>2, <5>2
          <6>3. (s \ {c}) \ {x} = (s \ {x}) \ {c}
            OBVIOUS
          <6>4. g[(s \ {x}) \ {c}] \in Nat
            <7>1. Q(s \ {x}) /\ c \in s \ {x}
              BY <4>1, <4>2, <5>2
            <7>2. Cardinality((s \ {x}) \ {c}) = Cardinality(s \ {x}) - 1
              BY <7>1, <1>1, FS_RemoveElement
            <7>3. Cardinality(s \ {x}) = Cardinality(s) - 1
              BY <1>1, FS_RemoveElement
            <7>4. Cardinality((s \ {x}) \ {c}) <= n
              BY <7>2, <7>3, <2>2, <1>1
            <7> QED  BY <7>4, <2>1
          <6>5. f[x] \in Nat /\ f[c] \in Nat
            BY <4>1, <4>4
          <6> HIDE DEF Q
          <6>6. \A a, b, r \in Nat : b + (a + r) = a + (b + r)
            OBVIOUS
          <6>7. g[s] = f[c] + (f[x] + g[(s \ {x}) \ {c}])
            BY Zenon, <4>3, <6>1, <6>3
          <6>8. f[c] + (f[x] + g[(s \ {x}) \ {c}]) = f[x] + (f[c] + g[(s \ {x}) \ {c}])
            BY Zenon, <6>4, <6>5, <6>6
          <6> QED  BY Zenon, <6>2, <6>7, <6>8
        <5> QED  BY <5>1, <5>2
      <4> QED  BY <4>5, <4>6
    <3> QED  BY <3>1, <3>2
  <2>3. n + 1 \in Nat
    OBVIOUS
  <2> HIDE DEF Q
  <2> QED  BY <2>2, <2>3
<1>5. F = Nat
  <2> HIDE DEF Q
  <2> QED  BY <1>3, <1>4, NaturalsClosed
<1>6. ASSUME NEW s \in SUBSET S PROVE Q(s)
  <2>1. Cardinality(s) \in F
    BY <1>1, <1>5
  <2>2. Cardinality(s) <= Cardinality(s)
    BY <1>1
  <2> HIDE DEF Q
  <2> QED  BY <2>1, <2>2
<1> QED  BY <1>6

(* Two such functions agree where their summands do. *)
LEMMA SumsAgree ==
  ASSUME NEW f, NEW S, Summable(f, S), NEW g, Sums(f, g, S),
         NEW e, NEW h, NEW T \in SUBSET S, Sums(e, h, T), \A x \in T : e[x] = f[x]
  PROVE  g[T] = h[T]
<1> DEFINE F == {s \in SUBSET T : g[s] = h[s]}
<1>1. IsFiniteSet(T) /\ Summable(e, T)
  BY FS_Subset DEF Summable
<1>2. \A s \in SUBSET S : \A x \in s : g[s] = f[x] + g[s \ {x}]
  <2>1. \A s \in SUBSET S : g[s] \in Nat /\ \A x \in s : g[s] = f[x] + g[s \ {x}]
    BY SumsAnyOrder
  <2> QED  BY <2>1
<1>3. \A s \in SUBSET T : \A x \in s : h[s] = e[x] + h[s \ {x}]
  <2>1. \A s \in SUBSET T : h[s] \in Nat /\ \A x \in s : h[s] = e[x] + h[s \ {x}]
    BY <1>1, SumsAnyOrder
  <2> QED  BY <2>1
<1>4. {} \in F
  BY DEF Sums, SumStep
<1>5. ASSUME NEW s \in F, NEW x \in T \ s PROVE s \cup {x} \in F
  <2>1. (s \cup {x}) \ {x} = s
    OBVIOUS
  <2>2. g[s \cup {x}] = f[x] + g[s]
    BY <1>2, <2>1
  <2>3. h[s \cup {x}] = e[x] + h[s]
    BY <1>3, <2>1
  <2> QED  BY <2>2, <2>3
<1>6. T \in F
  <2> HIDE DEF F
  <2>1. F \in SUBSET SUBSET T
    BY DEF F
  <2> QED  BY <1>1, <1>4, <1>5, <2>1, SubsetsClosed
<1> QED  BY <1>6

(* A sum is a natural number, and 0 for no summands. *)
LEMMA SumType ==
  ASSUME NEW f, NEW S, Summable(f, S)
  PROVE  SumFunctionOnSet(f, S) \in Nat
BY SumUnfold, SumsAnyOrder

LEMMA SumEmpty ==
  ASSUME NEW f
  PROVE  SumFunctionOnSet(f, {}) = 0
<1>1. Summable(f, {})
  BY FS_EmptySet DEF Summable
<1>2. PICK g : Sums(f, g, {}) /\ SumFunctionOnSet(f, {}) = g[{}]
  BY <1>1, SumUnfold
<1> QED  BY <1>2 DEF Sums, SumStep

(* A sum depends on the values of its summands only. *)
LEMMA SumEqual ==
  ASSUME NEW f, NEW e, NEW S, Summable(f, S), \A x \in S : e[x] = f[x]
  PROVE  SumFunctionOnSet(e, S) = SumFunctionOnSet(f, S)
<1>1. Summable(e, S)
  BY DEF Summable
<1>2. PICK g : Sums(f, g, S) /\ SumFunctionOnSet(f, S) = g[S]
  BY SumUnfold
<1>3. PICK h : Sums(e, h, S) /\ SumFunctionOnSet(e, S) = h[S]
  BY <1>1, SumUnfold
<1> QED  BY <1>2, <1>3, SumsAgree

(* One summand more. *)
LEMMA SumAdd ==
  ASSUME NEW f, NEW S, NEW x, x \notin S, Summable(f, S \cup {x})
  PROVE  SumFunctionOnSet(f, S \cup {x}) = f[x] + SumFunctionOnSet(f, S)
<1>1. Summable(f, S)
  BY FS_Subset DEF Summable
<1>2. PICK g : Sums(f, g, S \cup {x}) /\ SumFunctionOnSet(f, S \cup {x}) = g[S \cup {x}]
  BY SumUnfold
<1>3. PICK h : Sums(f, h, S) /\ SumFunctionOnSet(f, S) = h[S]
  BY <1>1, SumUnfold
<1>4. g[S] = h[S]
  BY <1>2, <1>3, SumsAgree
<1>5. (S \cup {x}) \ {x} = S
  OBVIOUS
<1>6. g[S \cup {x}] = f[x] + g[S]
  BY <1>2, <1>5, SumsAnyOrder
<1> QED  BY <1>2, <1>3, <1>4, <1>6

(* Summands of two disjoint sets. *)
LEMMA SumUnion ==
  ASSUME NEW f, NEW S, NEW T, Summable(f, S), Summable(f, T), S \cap T = {}
  PROVE  /\ Summable(f, S \cup T)
         /\ SumFunctionOnSet(f, S \cup T) = SumFunctionOnSet(f, S) + SumFunctionOnSet(f, T)
<1> DEFINE F == {s \in SUBSET T : SumFunctionOnSet(f, S \cup s)
                                   = SumFunctionOnSet(f, S) + SumFunctionOnSet(f, s)}
<1>1. Summable(f, S \cup T)
  BY FS_Union DEF Summable
<1>2. \A s \in SUBSET T : Summable(f, s) /\ Summable(f, S \cup s)
  <2> TAKE s \in SUBSET T
  <2>1. IsFiniteSet(s)
    BY FS_Subset DEF Summable
  <2>2. IsFiniteSet(S \cup s)
    BY <2>1, FS_Union DEF Summable
  <2> QED  BY <2>1, <2>2 DEF Summable
<1>3. {} \in F
  <2>1. S \cup {} = S /\ SumFunctionOnSet(f, S) \in Nat
    BY SumType
  <2>2. SumFunctionOnSet(f, {}) = 0
    BY SumEmpty
  <2> QED  BY <2>1, <2>2
<1>4. ASSUME NEW s \in F, NEW x \in T \ s PROVE s \cup {x} \in F
  <2>1. S \cup (s \cup {x}) = (S \cup s) \cup {x} /\ x \notin S \cup s /\ s \cup {x} \in SUBSET T
    OBVIOUS
  <2>2. SumFunctionOnSet(f, (S \cup s) \cup {x}) = f[x] + SumFunctionOnSet(f, S \cup s)
    BY <1>2, <2>1, SumAdd
  <2>3. SumFunctionOnSet(f, s \cup {x}) = f[x] + SumFunctionOnSet(f, s)
    BY <1>2, <2>1, SumAdd
  <2>4. SumFunctionOnSet(f, s) \in Nat /\ SumFunctionOnSet(f, S) \in Nat /\ f[x] \in Nat
    BY <1>2, SumType DEF Summable
  <2>5. SumFunctionOnSet(f, S \cup s) = SumFunctionOnSet(f, S) + SumFunctionOnSet(f, s)
    OBVIOUS
  <2>6. SumFunctionOnSet(f, S \cup (s \cup {x})) = f[x] + SumFunctionOnSet(f, S \cup s)
    BY <2>1, <2>2, Zenon
  <2>7. SumFunctionOnSet(f, S \cup (s \cup {x}))
          = SumFunctionOnSet(f, S) + SumFunctionOnSet(f, s \cup {x})
    BY <2>3, <2>4, <2>5, <2>6
  <2> QED  BY <2>1, <2>7
<1>5. T \in F
  <2>1. F \in SUBSET SUBSET T
    OBVIOUS
  <2> HIDE DEF F
  <2> QED  BY <1>3, <1>4, <2>1, SubsetsClosed DEF Summable
<1> QED  BY <1>1, <1>5

(* Fewer summands, a smaller sum. *)
LEMMA SumSubset ==
  ASSUME NEW f, NEW S, NEW T \in SUBSET S, Summable(f, S)
  PROVE  /\ Summable(f, T)
         /\ SumFunctionOnSet(f, S) = SumFunctionOnSet(f, T) + SumFunctionOnSet(f, S \ T)
         /\ SumFunctionOnSet(f, T) <= SumFunctionOnSet(f, S)
<1>1. Summable(f, T) /\ Summable(f, S \ T)
  BY FS_Subset DEF Summable
<1>2. T \cup (S \ T) = S /\ T \cap (S \ T) = {}
  OBVIOUS
<1>3. SumFunctionOnSet(f, T \cup (S \ T)) = SumFunctionOnSet(f, T) + SumFunctionOnSet(f, S \ T)
  BY <1>1, <1>2, SumUnion
<1>4. SumFunctionOnSet(f, S) = SumFunctionOnSet(f, T) + SumFunctionOnSet(f, S \ T)
  BY <1>2, <1>3, Zenon
<1>5. SumFunctionOnSet(f, T) \in Nat /\ SumFunctionOnSet(f, S \ T) \in Nat
  BY <1>1, SumType
<1> QED  BY <1>1, <1>4, <1>5

(* Each summand of the left is at most a sum of summands of the right of its own. *)
LEMMA SumOfParts ==
  ASSUME NEW f, NEW S, Summable(f, S), NEW e, NEW K, Summable(e, K),
         NEW part \in [K -> SUBSET S],
         \A j, k \in K : j # k => part[j] \cap part[k] = {},
         \A k \in K : e[k] <= SumFunctionOnSet(f, part[k])
  PROVE  SumFunctionOnSet(e, K) <= SumFunctionOnSet(f, S)
<1> DEFINE all(s) == UNION {part[k] : k \in s}
           F == {s \in SUBSET K : SumFunctionOnSet(e, s) <= SumFunctionOnSet(f, all(s))}
<1>1. \A s \in SUBSET K : Summable(e, s)
  BY SumSubset
<1>2. \A s \in SUBSET S : Summable(f, s) /\ SumFunctionOnSet(f, s) \in Nat
  BY SumSubset, SumType
<1>3. \A s \in SUBSET K : all(s) \in SUBSET S
  OBVIOUS
<1>4. {} \in F
  <2>1. all({}) = {}
    OBVIOUS
  <2>2. SumFunctionOnSet(e, {}) = 0 /\ SumFunctionOnSet(f, {}) = 0
    BY SumEmpty
  <2>3. SumFunctionOnSet(e, {}) <= SumFunctionOnSet(f, all({}))
    BY <2>1, <2>2
  <2> QED  BY <2>3
<1>5. ASSUME NEW s \in F, NEW x \in K \ s PROVE s \cup {x} \in F
  <2>1. all(s \cup {x}) = all(s) \cup part[x] /\ all(s) \cap part[x] = {}
    <3>1. all(s \cup {x}) = all(s) \cup part[x]
      OBVIOUS
    <3>2. \A k \in s : part[k] \cap part[x] = {}
      OBVIOUS
    <3>3. all(s) \cap part[x] = {}
      BY <3>2
    <3> QED  BY <3>1, <3>3
  <2>2. all(s) \in SUBSET S /\ part[x] \in SUBSET S
    BY <1>3
  <2>3. SumFunctionOnSet(f, all(s) \cup part[x])
          = SumFunctionOnSet(f, all(s)) + SumFunctionOnSet(f, part[x])
    <3> HIDE DEF all
    <3> QED  BY <1>2, <2>1, <2>2, SumUnion
  <2>4. SumFunctionOnSet(e, s \cup {x}) = e[x] + SumFunctionOnSet(e, s)
    <3>1. s \cup {x} \in SUBSET K
      OBVIOUS
    <3> QED  BY <1>1, <3>1, SumAdd
  <2>5. SumFunctionOnSet(e, s) \in Nat /\ e[x] \in Nat
    BY <1>1, SumType DEF Summable
  <2>6. SumFunctionOnSet(f, all(s)) \in Nat /\ SumFunctionOnSet(f, part[x]) \in Nat
    <3> HIDE DEF all
    <3> QED  BY <1>2, <2>2
  <2>7. SumFunctionOnSet(e, s) <= SumFunctionOnSet(f, all(s))
    OBVIOUS
  <2>8. e[x] <= SumFunctionOnSet(f, part[x])
    OBVIOUS
  <2>9. SumFunctionOnSet(f, all(s \cup {x}))
          = SumFunctionOnSet(f, all(s)) + SumFunctionOnSet(f, part[x])
    <3> HIDE DEF all
    <3> QED  BY <2>1, <2>3, Zenon
  <2>10. SumFunctionOnSet(e, s \cup {x}) <= SumFunctionOnSet(f, all(s \cup {x}))
    <3> HIDE DEF all
    <3> QED  BY <2>4, <2>5, <2>6, <2>7, <2>8, <2>9
  <2> QED  BY <2>10
<1>6. K \in F
  <2>1. F \in SUBSET SUBSET K
    OBVIOUS
  <2> HIDE DEF F
  <2> QED  BY <1>4, <1>5, <2>1, SubsetsClosed DEF Summable
<1>7. all(K) \in SUBSET S /\ SumFunctionOnSet(e, K) <= SumFunctionOnSet(f, all(K))
  BY <1>3, <1>6
<1> HIDE DEF all, F
<1>8. SumFunctionOnSet(f, all(K)) <= SumFunctionOnSet(f, S)
  BY <1>7, SumSubset
<1>9. SumFunctionOnSet(e, K) \in Nat /\ SumFunctionOnSet(f, S) \in Nat
      /\ SumFunctionOnSet(f, all(K)) \in Nat
  BY <1>2, <1>7, SumType
<1> QED  BY <1>7, <1>8, <1>9

LEMMA SumOne ==
  ASSUME NEW f, NEW x, f[x] \in Nat
  PROVE  SumFunctionOnSet(f, {x}) = f[x]
<1>1. Summable(f, {x}) /\ {} \cup {x} = {x} /\ x \notin {}
  BY FS_Singleton DEF Summable
<1>2. SumFunctionOnSet(f, {} \cup {x}) = f[x] + SumFunctionOnSet(f, {})
  BY <1>1, SumAdd
<1> QED  BY <1>1, <1>2, SumEmpty

(* As many ones as there are elements. *)
LEMMA SumOfOnes ==
  ASSUME NEW f, NEW S, IsFiniteSet(S), \A x \in S : f[x] = 1
  PROVE  SumFunctionOnSet(f, S) = Cardinality(S)
<1> DEFINE F == {s \in SUBSET S : SumFunctionOnSet(f, s) = Cardinality(s)}
<1>1. {} \in F
  BY SumEmpty, FS_EmptySet
<1>2. ASSUME NEW s \in F, NEW x \in S \ s PROVE s \cup {x} \in F
  <2>1. IsFiniteSet(s) /\ IsFiniteSet(s \cup {x}) /\ SumFunctionOnSet(f, s) = Cardinality(s)
    BY FS_Subset, FS_AddElement
  <2>2. Summable(f, s \cup {x})
    BY <2>1 DEF Summable
  <2>3. SumFunctionOnSet(f, s \cup {x}) = f[x] + SumFunctionOnSet(f, s)
    BY <2>2, SumAdd
  <2>4. Cardinality(s \cup {x}) = Cardinality(s) + 1 /\ Cardinality(s) \in Nat
    BY <2>1, FS_AddElement, FS_CardinalityType
  <2> QED  BY <2>1, <2>3, <2>4
<1>3. S \in F
  <2>1. F \in SUBSET SUBSET S
    OBVIOUS
  <2> HIDE DEF F
  <2> QED  BY <1>1, <1>2, <2>1, SubsetsClosed
<1> QED  BY <1>3
=============================================================================
