------------------------- MODULE Mrc20LedgerProofs -------------------------
(***************************************************************************)
(* Theorems about Mrc20Ledger, for every set of chains, ticks, hashes and  *)
(* every best height.                                                      *)
(***************************************************************************)
EXTENDS Mrc20Ledger, SetLemmas, SequenceTheorems

(* SetToSeq lists each element of a finite set. *)
LEMMA SetToSeqLists ==
  ASSUME NEW S, IsFiniteSet(S)
  PROVE  /\ SetToSeq(S) \in [1..Cardinality(S) -> S]
         /\ IsInjective(SetToSeq(S))
         /\ \A x \in S : \E i \in 1..Cardinality(S) : SetToSeq(S)[i] = x
<1> DEFINE n == Cardinality(S)
           f == SetToSeq(S)
<1>1. n \in Nat
  BY FS_CardinalityType
<1>2. \E g \in [1..n -> S] : IsInjective(g)
  <2>1. ExistsBijection(1..n, S)
    BY FS_CardinalityType
  <2> QED  BY <2>1 DEF ExistsBijection, Bijection, Injection, IsInjective
<1>3. f \in [1..n -> S] /\ IsInjective(f)
  BY <1>2 DEF SetToSeq
<1>4. \A x \in S : \E i \in 1..n : f[i] = x
  <2> DEFINE T == {f[i] : i \in 1..n}
  <2> HIDE DEF f, n
  <2>1. f \in Bijection(1..n, T)
    BY <1>3 DEF Bijection, Injection, Surjection, IsInjective
  <2>2. IsFiniteSet(1..n) /\ Cardinality(1..n) = n
    BY <1>1, FS_Interval
  <2>3. Cardinality(T) = n /\ IsFiniteSet(T)
    BY <1>1, <2>1, <2>2, FS_Bijection DEF ExistsBijection
  <2>4. T \subseteq S
    BY <1>3
  <2>5. T = S
    BY <2>3, <2>4, FS_Subset DEF n
  <2> QED  BY <2>5
<1> QED  BY <1>3, <1>4

(* FlattenSeq has the elements of the sequences that are put together. *)
LEMMA FlattenSeqElements ==
  ASSUME NEW W, NEW n \in Nat, NEW seqs \in [1..n -> Seq(W)]
  PROVE  /\ FlattenSeq(seqs) \in Seq(W)
         /\ \A w : w \in Range(FlattenSeq(seqs)) <=> \E i \in 1..n : w \in Range(seqs[i])
<1> DEFINE step(g) == [i \in 1..n |-> IF i = 1 THEN seqs[i] ELSE g[i - 1] \o seqs[i]]
<1>1. Len(seqs) = n
  OBVIOUS
<1>2. \E g \in [1..n -> Seq(W)] : g = step(g)
  <2> DEFINE F == {k \in Nat : \E g \in [1..n -> Seq(W)] : \A i \in 1..n : i <= k => g[i] = step(g)[i]}
  <2>1. 0 \in F
    <3>1. [i \in 1..n |-> seqs[i]] \in [1..n -> Seq(W)]
      OBVIOUS
    <3> QED  BY <3>1
  <2>2. ASSUME NEW k \in F PROVE k + 1 \in F
    <3>1. PICK g \in [1..n -> Seq(W)] : \A i \in 1..n : i <= k => g[i] = step(g)[i]
      OBVIOUS
    <3> DEFINE h == step(g)
    <3>2. h \in [1..n -> Seq(W)]
      <4> SUFFICES ASSUME NEW i \in 1..n PROVE h[i] \in Seq(W)
        OBVIOUS
      <4>1. CASE i = 1
        BY <4>1
      <4>2. CASE i # 1
        <5>1. i - 1 \in 1..n
          BY <4>2
        <5>2. g[i - 1] \o seqs[i] \in Seq(W)
          BY <5>1, ConcatProperties
        <5> QED  BY <4>2, <5>2
      <4> QED  BY <4>1, <4>2
    <3>3. ASSUME NEW i \in 1..n, i <= k + 1 PROVE h[i] = step(h)[i]
      <4>1. CASE i = 1
        BY <4>1
      <4>2. CASE i # 1
        <5>1. i - 1 \in 1..n /\ i - 1 <= k
          BY <4>2, <3>3
        <5>2. g[i - 1] = h[i - 1]
          BY <3>1, <5>1
        <5> QED  BY <4>2, <5>2
      <4> QED  BY <4>1, <4>2
    <3> HIDE DEF h
    <3>4. k + 1 \in Nat
      OBVIOUS
    <3> QED  BY <3>2, <3>3, <3>4
  <2>3. n \in F
    <3>1. F = Nat
      <4> HIDE DEF step
      <4>1. F \in SUBSET Nat
        OBVIOUS
      <4> HIDE DEF F
      <4> QED  BY <2>1, <2>2, <4>1, NaturalsClosed
    <3> QED  BY <3>1
  <2>4. PICK g \in [1..n -> Seq(W)] : \A i \in 1..n : i <= n => g[i] = step(g)[i]
    BY <2>3
  <2>5. \A i \in 1..n : g[i] = step(g)[i]
    <3>1. \A i \in 1..n : i <= n
      OBVIOUS
    <3> HIDE DEF step
    <3> QED  BY <2>4, <3>1
  <2>6. g = [i \in 1..n |-> g[i]]
    OBVIOUS
  <2>7. g = step(g)
    BY <2>5, <2>6, Zenon
  <2> QED  BY <2>7
<1> DEFINE G == CHOOSE g : g = step(g)
<1>3. G = step(G)
  BY <1>2, Zenon
<1>4. n # 0 => FlattenSeq(seqs) = G[n]
  BY <1>1, Zenon DEF FlattenSeq
<1>5. n = 0 => FlattenSeq(seqs) = seqs
  BY <1>1 DEF FlattenSeq
<1> HIDE DEF G
<1> DEFINE Q(i) == /\ G[i] \in Seq(W)
                   /\ \A w : w \in Range(G[i]) <=> \E j \in 1..i : w \in Range(seqs[j])
<1>6. \A i \in 1..n : Q(i)
  <2> DEFINE F == {k \in Nat : k + 1 \in 1..n => Q(k + 1)}
  <2>1. 0 \in F
    <3>1. 1 \in 1..n => G[1] = seqs[1]
      BY <1>3
    <3> QED  BY <3>1
  <2>2. ASSUME NEW k \in F PROVE k + 1 \in F
    <3> SUFFICES ASSUME k + 2 \in 1..n PROVE Q(k + 2)
      OBVIOUS
    <3>1. G[k + 2] = G[k + 1] \o seqs[k + 2]
      <4>1. k + 2 # 1 /\ (k + 2) - 1 = k + 1
        OBVIOUS
      <4>2. \A i \in 1..n : G[i] = IF i = 1 THEN seqs[i] ELSE G[i - 1] \o seqs[i]
        BY <1>3, Zenon
      <4> QED  BY <4>1, <4>2
    <3>2. Q(k + 1)
      OBVIOUS
    <3>3. G[k + 2] \in Seq(W)
      BY <3>1, <3>2, ConcatProperties
    <3>4. Range(G[k + 2]) = Range(G[k + 1]) \cup Range(seqs[k + 2])
      BY <3>1, <3>2, RangeConcatenation
    <3>5. ASSUME NEW w
          PROVE  w \in Range(G[k + 2]) <=> \E j \in 1..(k + 2) : w \in Range(seqs[j])
      <4>1. \A j : j \in 1..(k + 2) <=> j \in 1..(k + 1) \/ j = k + 2
        OBVIOUS
      <4> QED  BY <3>2, <3>4, <4>1
    <3> QED  BY <3>3, <3>5
  <2>3. F = Nat
    <3>1. F \in SUBSET Nat
      OBVIOUS
    <3> HIDE DEF F
    <3> QED  BY <2>1, <2>2, <3>1, NaturalsClosed
  <2>4. ASSUME NEW i \in 1..n PROVE Q(i)
    <3>1. i - 1 \in Nat /\ (i - 1) + 1 = i
      OBVIOUS
    <3>2. i - 1 \in F
      <4> HIDE DEF F
      <4> QED  BY <2>3, <3>1
    <3> HIDE DEF Q
    <3> QED  BY <3>1, <3>2
  <2> HIDE DEF Q
  <2> QED  BY <2>4
<1>7. CASE n = 0
  <2>1. seqs = <<>>
    BY <1>7
  <2>2. FlattenSeq(seqs) = <<>> /\ 1..n = {}
    BY <1>5, <1>7, <2>1
  <2>3. FlattenSeq(seqs) \in Seq(W)
    BY <2>2
  <2>4. Range(FlattenSeq(seqs)) = {}
    BY <2>2 DEF Range
  <2>5. \A w : ~ \E i \in 1..n : w \in Range(seqs[i])
    BY <2>2
  <2> QED  BY <2>3, <2>4, <2>5
<1>8. CASE n # 0
  <2>1. Q(n)
    <3>1. n \in 1..n
      BY <1>8
    <3> HIDE DEF Q
    <3> QED  BY <1>6, <3>1
  <2> QED  BY <1>4, <1>8, <2>1
<1> QED  BY <1>7, <1>8

----------------------------------------------------------------------------
(* What a list of writes leaves: the last write of a key stands, but on a  *)
(* refused document none.                                                  *)

Refused(c, k) == k \in DOMAIN c /\ ~c[k].verify

At(list, s, k) == {i \in s : list[i].key = k}

Wrote(list, s, k) == list[Max(At(list, s, k))].doc

Left(c, list, s) ==
  [k \in DOMAIN c \cup {list[i].key : i \in s} |->
     IF Refused(c, k) \/ At(list, s, k) = {} THEN c[k] ELSE Wrote(list, s, k)]

Accepted(c, list) ==
  /\ c = [k \in DOMAIN c |-> c[k]]
  /\ \A i \in DOMAIN list : list[i].doc.verify

LEMMA LastAt ==
  ASSUME NEW list \in Seq(Write), NEW s \in SUBSET DOMAIN list, NEW k, At(list, s, k) # {}
  PROVE  /\ Max(At(list, s, k)) \in At(list, s, k)
         /\ \A i \in At(list, s, k) : i <= Max(At(list, s, k))
<1>1. At(list, s, k) \in SUBSET Nat /\ \A i \in At(list, s, k) : i <= Len(list)
  BY DEF At
<1>2. Len(list) \in Nat
  OBVIOUS
<1> QED  BY <1>1, <1>2, MaxOfBounded

(* One write more. *)
LEMMA LeftStep ==
  ASSUME NEW c, NEW list \in Seq(Write), Accepted(c, list),
         NEW s \in SUBSET DOMAIN list, NEW x \in s, \A i \in s : i <= x
  PROVE  Left(c, list, s) = Upsert(Left(c, list, s \ {x}), list[x])
<1> DEFINE w == list[x]
           r == s \ {x}
           a == Left(c, list, s)
           b == Left(c, list, r)
           d == DOMAIN c \cup {list[i].key : i \in s}
           e == DOMAIN c \cup {list[i].key : i \in r}
<1>1. d = e \cup {w.key}
  OBVIOUS
<1>2. DOMAIN a = d /\ DOMAIN b = e
  BY DEF Left
<1>3. \A k \in d : k # w.key => At(list, s, k) = At(list, r, k)
  BY DEF At
<1>4. \A k \in d : k # w.key => k \in e /\ a[k] = b[k]
  <2> TAKE k \in d
  <2> HAVE k # w.key
  <2>1. k \in e
    BY <1>1
  <2>2. At(list, s, k) = At(list, r, k)
    BY <1>3
  <2> QED  BY <2>1, <2>2 DEF Left, Wrote
<1>5. w.key \in d /\ x \in At(list, s, w.key)
  BY DEF At
<1>6. Max(At(list, s, w.key)) = x
  <2>1. /\ Max(At(list, s, w.key)) \in At(list, s, w.key)
        /\ \A i \in At(list, s, w.key) : i <= Max(At(list, s, w.key))
    BY <1>5, LastAt
  <2>2. x <= Max(At(list, s, w.key)) /\ Max(At(list, s, w.key)) <= x
    BY <1>5, <2>1 DEF At
  <2>3. Max(At(list, s, w.key)) \in Nat /\ x \in Nat
    BY <2>1 DEF At
  <2> QED  BY <2>2, <2>3
<1>7. a = [k \in d |-> a[k]] /\ b = [k \in e |-> b[k]]
  BY DEF Left
<1>8. CASE Refused(c, w.key)
  <2>1. a[w.key] = c[w.key] /\ b[w.key] = c[w.key] /\ w.key \in e /\ ~c[w.key].verify
    BY <1>5, <1>8 DEF Left, Refused
  <2>2. e = d
    BY <1>1, <2>1
  <2>3. Upsert(b, w) = b
    BY <1>2, <2>1 DEF Upsert
  <2>4. a = b
    <3> HIDE DEF a, b, d, e, w
    <3>1. \A k \in d : a[k] = b[k]
      BY <1>4, <2>1
    <3> QED  BY <1>7, <2>2, <3>1
  <2> QED  BY <2>3, <2>4
<1>9. CASE ~Refused(c, w.key)
  <2>1. a[w.key] = w.doc
    BY <1>5, <1>6, <1>9 DEF Left, Wrote
  <2>2. w.key \in e => b[w.key].verify
    <3> SUFFICES ASSUME w.key \in e PROVE b[w.key].verify
      OBVIOUS
    <3>1. CASE At(list, r, w.key) = {}
      <4>1. b[w.key] = c[w.key]
        BY <3>1 DEF Left
      <4>2. w.key \in DOMAIN c
        BY <3>1 DEF At
      <4> QED  BY <1>9, <4>1, <4>2 DEF Refused
    <3>2. CASE At(list, r, w.key) # {}
      <4>1. b[w.key] = list[Max(At(list, r, w.key))].doc
        BY <1>9, <3>2 DEF Left, Wrote
      <4>2. Max(At(list, r, w.key)) \in At(list, r, w.key)
        BY <3>2, LastAt
      <4> QED  BY <4>1, <4>2 DEF Accepted, At
    <3> QED  BY <3>1, <3>2
  <2>3. Upsert(b, w) = Stored(b, [k \in {w.key} |-> w.doc])
    BY <1>2, <2>2 DEF Upsert
  <2>4. Stored(b, [k \in {w.key} |-> w.doc]) = [k \in d |-> IF k = w.key THEN w.doc ELSE b[k]]
    <3> HIDE DEF a, b, d, e, w
    <3>1. e \cup {w.key} = d
      BY <1>1
    <3> QED  BY <1>2, <3>1 DEF Stored
  <2>5. a = [k \in d |-> IF k = w.key THEN w.doc ELSE b[k]]
    <3> HIDE DEF a, b, d, e, w
    <3> QED  BY <1>4, <1>7, <2>1
  <2> QED  BY <2>3, <2>4, <2>5
<1> QED  BY <1>8, <1>9

(* What a list of writes leaves. *)
LEMMA UpdatedIsLeft ==
  ASSUME NEW c, NEW list \in Seq(Write), Accepted(c, list)
  PROVE  Updated(c, list) = Left(c, list, DOMAIN list)
<1> DEFINE n == Len(list)
           step(g) == [s \in SUBSET DOMAIN list |->
                         IF s = {} THEN c ELSE Upsert(g[s \ {Max(s)}], list[Max(s)])]
           h == [s \in SUBSET DOMAIN list |-> Left(c, list, s)]
           G == CHOOSE g : g = step(g)
<1>1. n \in Nat /\ DOMAIN list = 1..n
  OBVIOUS
<1>2. Left(c, list, {}) = c
  BY DEF Left, At, Accepted
<1>3. \A s \in SUBSET DOMAIN list : s # {} => Max(s) \in s /\ \A i \in s : i <= Max(s)
  <2> TAKE s \in SUBSET DOMAIN list
  <2> HAVE s # {}
  <2>1. s \in SUBSET Nat /\ \A i \in s : i <= n
    BY <1>1
  <2> QED  BY <1>1, <2>1, MaxOfBounded
<1>4. h = step(h)
  <2>1. ASSUME NEW s \in SUBSET DOMAIN list PROVE h[s] = step(h)[s]
    <3>1. CASE s = {}
      BY <1>2, <3>1
    <3>2. CASE s # {}
      <4>1. Left(c, list, s) = Upsert(Left(c, list, s \ {Max(s)}), list[Max(s)])
        BY <1>3, <3>2, LeftStep
      <4> QED  BY <3>2, <4>1
    <3> QED  BY <3>1, <3>2
  <2>2. h = [s \in SUBSET DOMAIN list |-> h[s]]
    OBVIOUS
  <2> HIDE DEF h
  <2>3. [s \in SUBSET DOMAIN list |-> h[s]] = step(h)
    BY <2>1
  <2> QED  BY <2>2, <2>3, Zenon
<1>5. G = step(G)
  <2> HIDE DEF h
  <2> QED  BY <1>4, Zenon
<1>6. Updated(c, list) = G[DOMAIN list]
  BY Zenon DEF Updated, FoldLeft, MapThenFoldSet
<1> HIDE DEF G, h
<1>7. \A k \in Nat : k <= n => G[1..k] = Left(c, list, 1..k)
  <2> DEFINE F == {k \in Nat : k <= n => G[1..k] = Left(c, list, 1..k)}
  <2>1. 0 \in F
    <3>1. 1..0 = {} /\ {} \in SUBSET DOMAIN list
      OBVIOUS
    <3>2. G[{}] = c
      BY <1>5, <3>1
    <3> QED  BY <1>2, <3>1, <3>2
  <2>2. ASSUME NEW k \in F PROVE k + 1 \in F
    <3> SUFFICES ASSUME k + 1 <= n PROVE G[1..(k + 1)] = Left(c, list, 1..(k + 1))
      OBVIOUS
    <3> DEFINE s == 1..(k + 1)
    <3>8. s \subseteq 1..n /\ k + 1 \in s /\ \A i \in s : i <= k + 1
      BY <1>1
    <3>1. s \in SUBSET DOMAIN list /\ s # {} /\ k + 1 \in s /\ \A i \in s : i <= k + 1
      BY <1>1, <3>8
    <3>2. Max(s) = k + 1
      <4>1. Max(s) \in s /\ \A i \in s : i <= Max(s)
        BY <1>3, <3>1
      <4>2. Max(s) <= k + 1 /\ k + 1 <= Max(s)
        BY <3>1, <4>1
      <4>3. Max(s) \in Nat
        BY <4>1
      <4> QED  BY <4>2, <4>3
    <3>3. s \ {k + 1} = 1..k
      OBVIOUS
    <3>4. G[s] = Upsert(G[s \ {Max(s)}], list[Max(s)])
      <4> HIDE DEF s
      <4> QED  BY <1>5, <3>1
    <3>5. Left(c, list, s) = Upsert(Left(c, list, s \ {k + 1}), list[k + 1])
      <4> HIDE DEF s
      <4> QED  BY <3>1, LeftStep
    <3>6. G[1..k] = Left(c, list, 1..k)
      BY <1>1
    <3> HIDE DEF s
    <3>7. G[s] = Left(c, list, s)
      BY <3>2, <3>3, <3>4, <3>5, <3>6
    <3> QED  BY <3>7 DEF s
  <2>3. F = Nat
    <3>1. F \in SUBSET Nat
      OBVIOUS
    <3> HIDE DEF F
    <3> QED  BY <2>1, <2>2, <3>1, NaturalsClosed
  <2> QED  BY <2>3
<1> QED  BY <1>1, <1>6, <1>7

KeysOf(list) == {list[i].key : i \in DOMAIN list}

(* The last write of a key in a list. *)
LastOf(list, i, k) ==
  /\ i \in DOMAIN list /\ list[i].key = k
  /\ \A j \in DOMAIN list : list[j].key = k => j <= i

LEMMA UpdatedFunction ==
  ASSUME NEW c, NEW list \in Seq(Write), Accepted(c, list)
  PROVE  Updated(c, list) = [k \in DOMAIN Updated(c, list) |-> Updated(c, list)[k]]
BY UpdatedIsLeft DEF Left

LEMMA UpdatedDomain ==
  ASSUME NEW c, NEW list \in Seq(Write), Accepted(c, list)
  PROVE  DOMAIN Updated(c, list) = DOMAIN c \cup KeysOf(list)
BY UpdatedIsLeft DEF Left, KeysOf

LEMMA UpdatedKept ==
  ASSUME NEW c, NEW list \in Seq(Write), Accepted(c, list),
         NEW k \in DOMAIN c, Refused(c, k) \/ k \notin KeysOf(list)
  PROVE  Updated(c, list)[k] = c[k]
<1>1. At(list, DOMAIN list, k) = {} <=> k \notin KeysOf(list)
  BY DEF At, KeysOf
<1>2. Updated(c, list) = Left(c, list, DOMAIN list)
  BY UpdatedIsLeft
<1>3. k \in DOMAIN c \cup {list[j].key : j \in DOMAIN list}
  OBVIOUS
<1> QED  BY <1>1, <1>2, <1>3 DEF Left

LEMMA UpdatedWritten ==
  ASSUME NEW c, NEW list \in Seq(Write), Accepted(c, list),
         NEW k \in KeysOf(list), ~Refused(c, k)
  PROVE  \E i : LastOf(list, i, k) /\ Updated(c, list)[k] = list[i].doc
<1> DEFINE i == Max(At(list, DOMAIN list, k))
<1>1. At(list, DOMAIN list, k) # {}
  BY DEF At, KeysOf
<1>2. i \in At(list, DOMAIN list, k) /\ \A j \in At(list, DOMAIN list, k) : j <= i
  BY <1>1, LastAt
<1>3. k \in DOMAIN c \cup {list[j].key : j \in DOMAIN list}
  BY DEF KeysOf
<1>6. Updated(c, list) = Left(c, list, DOMAIN list)
  BY UpdatedIsLeft
<1>4. Updated(c, list)[k] = list[i].doc
  BY <1>1, <1>3, <1>6 DEF Left, Wrote
<1> HIDE DEF i
<1>5. LastOf(list, i, k)
  BY <1>2 DEF At, LastOf
<1> QED  BY <1>4, <1>5

LEMMA LastIsOne ==
  ASSUME NEW list \in Seq(Write), NEW k, NEW i, NEW j, LastOf(list, i, k), LastOf(list, j, k)
  PROVE  i = j
<1>1. i \in Nat /\ j \in Nat /\ i <= j /\ j <= i
  BY DEF LastOf
<1> QED  BY <1>1

(* Writing a list twice is writing it once. *)
LEMMA WrittenAgain ==
  ASSUME NEW c, NEW list \in Seq(Write), Accepted(c, list)
  PROVE  Updated(Updated(c, list), list) = Updated(c, list)
<1> DEFINE u == Updated(c, list)
           v == Updated(u, list)
<1>1. Accepted(u, list)
  BY UpdatedFunction DEF Accepted
<1>2. DOMAIN u = DOMAIN c \cup KeysOf(list)
  BY UpdatedDomain
<1>10. DOMAIN v = DOMAIN u \cup KeysOf(list)
  <2> HIDE DEF u
  <2> QED  BY <1>1, UpdatedDomain
<1>3. ASSUME NEW k \in DOMAIN u PROVE v[k] = u[k]
  <2>1. CASE k \notin KeysOf(list) \/ Refused(u, k)
    <3> HIDE DEF u
    <3> QED  BY <1>1, <2>1, UpdatedKept
  <2>2. CASE k \in KeysOf(list) /\ ~Refused(u, k)
    <3>1. ~Refused(c, k)
      <4>1. Refused(c, k) => u[k] = c[k]
        BY UpdatedKept DEF Refused
      <4> HIDE DEF u
      <4> QED  BY <2>2, <4>1 DEF Refused
    <3>2. PICK i : LastOf(list, i, k) /\ u[k] = list[i].doc
      BY <2>2, <3>1, UpdatedWritten
    <3>3. PICK j : LastOf(list, j, k) /\ v[k] = list[j].doc
      <4> HIDE DEF u
      <4> QED  BY <1>1, <2>2, UpdatedWritten
    <3>4. i = j
      BY <3>2, <3>3, LastIsOne
    <3> QED  BY <3>2, <3>3, <3>4
  <2> QED  BY <2>1, <2>2
<1>4. u = [k \in DOMAIN u |-> u[k]]
  BY UpdatedFunction
<1>5. v = [k \in DOMAIN v |-> v[k]]
  <2> HIDE DEF u
  <2> QED  BY <1>1, UpdatedFunction
<1> HIDE DEF u, v
<1>6. DOMAIN u = DOMAIN v
  BY <1>2, <1>10
<1>7. u = v
  BY <1>3, <1>4, <1>5, <1>6
<1> QED  BY <1>7 DEF u, v

(* To write once more what is already written, and then more, is to write the rest. *)
LEMMA WrittenBefore ==
  ASSUME NEW c, NEW list \in Seq(Write), NEW more \in Seq(Write),
         Accepted(c, list), Accepted(c, more), Updated(c, list) = c
  PROVE  Accepted(c, list \o more) /\ Updated(c, list \o more) = Updated(c, more)
<1> DEFINE l == list \o more
           n == Len(list)
           u == Updated(c, l)
           v == Updated(c, more)
<1>1. /\ l \in Seq(Write) /\ n \in Nat /\ Len(l) = n + Len(more)
      /\ \A i \in 1..n : l[i] = list[i]
      /\ \A i \in 1..Len(more) : n + i \in DOMAIN l /\ l[n + i] = more[i]
      /\ \A i \in DOMAIN l : i \in 1..n \/ (i - n \in 1..Len(more) /\ l[i] = more[i - n])
  OBVIOUS
<1>11. l \in Seq(Write)
  BY <1>1
<1>2. Accepted(c, l)
  <2>1. ASSUME NEW i \in DOMAIN l PROVE l[i].doc.verify
    <3>1. CASE i \in 1..n
      BY <1>1, <3>1 DEF Accepted
    <3>2. CASE i \notin 1..n
      BY <1>1, <3>2 DEF Accepted
    <3> QED  BY <3>1, <3>2
  <2> QED  BY <2>1 DEF Accepted
<1>3. KeysOf(l) = KeysOf(list) \cup KeysOf(more)
  <2>1. \A k : k \in KeysOf(l) => k \in KeysOf(list) \/ k \in KeysOf(more)
    <3> TAKE k
    <3> HAVE k \in KeysOf(l)
    <3>1. PICK i \in DOMAIN l : l[i].key = k
      BY DEF KeysOf
    <3>2. CASE i \in 1..n
      BY <1>1, <3>1, <3>2 DEF KeysOf
    <3>3. CASE i \notin 1..n
      BY <1>1, <3>1, <3>3 DEF KeysOf
    <3> QED  BY <3>2, <3>3
  <2>2. \A k \in KeysOf(list) : k \in KeysOf(l)
    <3> TAKE k \in KeysOf(list)
    <3>1. PICK i \in 1..n : list[i].key = k
      BY DEF KeysOf
    <3>2. i \in DOMAIN l /\ l[i].key = k
      BY <1>1, <3>1
    <3> HIDE DEF l
    <3> QED  BY <3>2 DEF KeysOf
  <2>3. \A k \in KeysOf(more) : k \in KeysOf(l)
    <3> TAKE k \in KeysOf(more)
    <3>1. PICK i \in 1..Len(more) : more[i].key = k
      BY DEF KeysOf
    <3>2. n + i \in DOMAIN l /\ l[n + i].key = k
      BY <1>1, <3>1
    <3> HIDE DEF l
    <3> QED  BY <3>2 DEF KeysOf
  <2> QED  BY <2>1, <2>2, <2>3
<1>4. KeysOf(list) \subseteq DOMAIN c
  BY UpdatedDomain
<1>5. DOMAIN u = DOMAIN c \cup KeysOf(more) /\ DOMAIN v = DOMAIN c \cup KeysOf(more)
  <2>1. DOMAIN u = DOMAIN c \cup KeysOf(l)
    <3> HIDE DEF l
    <3> QED  BY <1>11, <1>2, UpdatedDomain
  <2> QED  BY <1>3, <1>4, <2>1, UpdatedDomain
<1>6. ASSUME NEW k \in DOMAIN u PROVE u[k] = v[k]
  <2>1. CASE Refused(c, k)
    <3>1. k \in DOMAIN c
      BY <2>1 DEF Refused
    <3>2. u[k] = c[k]
      <4> HIDE DEF l
      <4> QED  BY <1>11, <1>2, <2>1, <3>1, UpdatedKept
    <3> QED  BY <2>1, <3>1, <3>2, UpdatedKept
  <2>2. CASE ~Refused(c, k) /\ k \in KeysOf(more)
    <3>1. PICK i : LastOf(more, i, k) /\ v[k] = more[i].doc
      BY <2>2, UpdatedWritten
    <3>2. PICK j : LastOf(l, j, k) /\ u[k] = l[j].doc
      <4>1. k \in KeysOf(l)
        BY <1>3, <2>2
      <4> HIDE DEF l
      <4> QED  BY <1>11, <1>2, <2>2, <4>1, UpdatedWritten
    <3>3. n + i <= j
      <4>1. n + i \in DOMAIN l /\ l[n + i].key = k
        BY <1>1, <3>1 DEF LastOf
      <4> HIDE DEF l
      <4> QED  BY <3>2, <4>1 DEF LastOf
    <3>4. i \in 1..Len(more) /\ j \in Nat
      BY <1>1, <3>1, <3>2 DEF LastOf
    <3>5. j \notin 1..n
      BY <1>1, <3>3, <3>4
    <3>6. j - n \in DOMAIN more /\ l[j] = more[j - n]
      BY <1>1, <3>2, <3>5 DEF LastOf
    <3>7. j - n <= i
      BY <3>1, <3>2, <3>6 DEF LastOf
    <3>9. i \in Nat /\ j \in Nat /\ n \in Nat
      BY <1>1, <3>4
    <3> HIDE DEF n
    <3>8. j - n = i
      BY <3>3, <3>7, <3>9
    <3> QED  BY <3>1, <3>2, <3>6, <3>8
  <2>3. CASE ~Refused(c, k) /\ k \notin KeysOf(more)
    <3>1. k \in DOMAIN c /\ v[k] = c[k]
      BY <1>5, <2>3, UpdatedKept
    <3>2. CASE k \notin KeysOf(list)
      <4>1. k \notin KeysOf(l)
        BY <1>3, <2>3, <3>2
      <4> HIDE DEF l
      <4>2. u[k] = c[k]
        BY <1>11, <1>2, <3>1, <4>1, UpdatedKept
      <4> QED  BY <3>1, <4>2
    <3>3. CASE k \in KeysOf(list)
      <4>1. PICK i : LastOf(list, i, k) /\ c[k] = list[i].doc
        BY <2>3, <3>3, UpdatedWritten
      <4>2. PICK j : LastOf(l, j, k) /\ u[k] = l[j].doc
        <5>1. k \in KeysOf(l)
          BY <1>3, <3>3
        <5> HIDE DEF l
        <5> QED  BY <1>11, <1>2, <2>3, <5>1, UpdatedWritten
      <4>3. j \in 1..n
        <5> SUFFICES ASSUME j \notin 1..n PROVE FALSE
          OBVIOUS
        <5>1. j - n \in DOMAIN more /\ more[j - n].key = k
          BY <1>1, <4>2 DEF LastOf
        <5> QED  BY <2>3, <5>1 DEF KeysOf
      <4>4. i \in 1..n /\ i \in DOMAIN l /\ l[i].key = k
        BY <1>1, <4>1 DEF LastOf
      <4>7. j \in DOMAIN list /\ list[j].key = k
        BY <1>1, <4>2, <4>3 DEF LastOf
      <4>5. i <= j /\ j <= i
        BY <4>1, <4>2, <4>4, <4>7 DEF LastOf
      <4>6. i = j
        BY <4>3, <4>4, <4>5
      <4> QED  BY <1>1, <3>1, <4>1, <4>2, <4>3, <4>6
    <3> QED  BY <3>2, <3>3
  <2> QED  BY <2>1, <2>2, <2>3
<1>7. u = [k \in DOMAIN u |-> u[k]]
  <2> HIDE DEF l
  <2> QED  BY <1>11, <1>2, UpdatedFunction
<1>8. v = [k \in DOMAIN v |-> v[k]]
  BY UpdatedFunction
<1> HIDE DEF u, v
<1>9. u = v
  BY <1>5, <1>6, <1>7, <1>8
<1> QED  BY <1>2, <1>9 DEF u, v

(* Nothing written, nothing changed. *)
LEMMA UpdatedEmpty ==
  ASSUME NEW c, c = [k \in DOMAIN c |-> c[k]]
  PROVE  Updated(c, <<>>) = c
<1>1. <<>> \in Seq(Write) /\ DOMAIN <<>> = {}
  OBVIOUS
<1>2. Accepted(c, <<>>)
  BY <1>1 DEF Accepted
<1>3. KeysOf(<<>>) = {}
  BY <1>1 DEF KeysOf
<1> DEFINE u == Updated(c, <<>>)
<1>8. Updated(c, <<>>) = u
  OBVIOUS
<1>9. DOMAIN Updated(c, <<>>) = DOMAIN c \cup KeysOf(<<>>)
  BY <1>1, <1>2, UpdatedDomain
<1>4. DOMAIN u = DOMAIN c
  BY <1>3, <1>9
<1>5. \A k \in DOMAIN c : u[k] = c[k]
  BY <1>1, <1>2, <1>3, UpdatedKept
<1>6. u = [k \in DOMAIN u |-> u[k]]
  BY <1>1, <1>2, UpdatedFunction
<1> HIDE DEF u
<1>7. u = c
  BY <1>4, <1>5, <1>6
<1> QED  BY <1>7 DEF u

----------------------------------------------------------------------------
(* The chain and the block. *)

LEMMA RangeElement ==
  ASSUME NEW S, NEW list \in Seq(S)
  PROVE  /\ Range(list) \subseteq S
         /\ \A w : w \in Range(list) <=> \E i \in 1..Len(list) : list[i] = w
BY DEF Range

LEMMA RangeFinite ==
  ASSUME NEW S, NEW list \in Seq(S)
  PROVE  IsFiniteSet(Range(list))
<1>1. DOMAIN list = 1..Len(list) /\ Len(list) \in Nat
  OBVIOUS
<1>2. IsFiniteSet(DOMAIN list)
  BY <1>1, FS_Interval
<1> QED  BY <1>2, ImageFinite DEF Range

(* A transaction of the chain. *)
LEMMA TxFacts ==
  ASSUME chain \in Chains, NEW tx \in Txs
  PROVE  /\ chain.tx[tx].ins \in Seq(Point)
         /\ chain.tx[tx].usable \in Seq(BOOLEAN)
         /\ Len(chain.tx[tx].usable) <= MaxOut + 1
         /\ chain.tx[tx].hash \in Hashes
         /\ Ins(tx) \subseteq Point
<1>1. chain \in Chain /\ Len(chain.tx[tx].usable) <= MaxOut + 1
  BY ConstantsAssumption
<1>2. /\ chain.tx[tx].ins \in Seq(Point)
      /\ chain.tx[tx].usable \in Seq(BOOLEAN)
      /\ chain.tx[tx].hash \in Hashes
  BY <1>1 DEF Chain
<1>3. Ins(tx) \subseteq Point
  BY <1>2, RangeElement DEF Ins
<1> QED  BY <1>1, <1>2, <1>3

Pin == [tx: Txs, ok: BOOLEAN, content: Seq(Item)]

(* The block being handled. *)
LEMMA BlockFacts ==
  ASSUME chain \in Chains, worker.h \in Heights
  PROVE  /\ Block.txs \in Seq(Txs)
         /\ Block.pins \in Seq(Pin)
         /\ Block.mints \subseteq [key: Key, doc: {d \in Doc : d.live}]
         /\ IsFiniteSet(Block.mints)
         /\ \A i \in DOMAIN Block.pins : Block.pins[i].tx \in Range(Block.txs)
         /\ \A x, y \in Range(Block.txs) : x # y => Ins(x) \cap Ins(y) = {}
<1>1. chain \in Chain
  BY ConstantsAssumption
<1>2. /\ Block.txs \in Seq(Txs)
      /\ Block.pins \in Seq(Pin)
      /\ Block.mints \in SUBSET [key: Key, doc: {d \in Doc : d.live}]
  BY <1>1 DEF Chain, Block, Pin
<1>3. /\ IsFiniteSet(Block.mints)
      /\ \A i \in DOMAIN Block.pins : Block.pins[i].tx \in Range(Block.txs)
      /\ \A x, y \in Range(Block.txs) : x # y => Ins(x) \cap Ins(y) = {}
  BY BlocksAssumption DEF Block, Ins
<1> QED  BY <1>2, <1>3

(* The transactions of the block are some of the chain's. *)
LEMMA BlockTxs ==
  ASSUME chain \in Chains, worker.h \in Heights
  PROVE  /\ Range(Block.txs) \subseteq Txs
         /\ IsFiniteSet(Range(Block.txs))
         /\ IsFiniteSet(Movers)
         /\ \A tx : tx \in Range(Block.txs) <=> \E i \in 1..Len(Block.txs) : Block.txs[i] = tx
<1>1. Block.txs \in Seq(Txs)
  BY BlockFacts
<1>2. /\ Range(Block.txs) \subseteq Txs
      /\ IsFiniteSet(Range(Block.txs))
      /\ \A tx : tx \in Range(Block.txs) <=> \E i \in 1..Len(Block.txs) : Block.txs[i] = tx
  BY <1>1, RangeElement, RangeFinite
<1>3. Movers \in SUBSET Range(Block.txs)
  BY DEF Movers
<1> QED  BY <1>2, <1>3, FS_Subset

(* An output that can hold tokens is one of the outputs. *)
LEMMA UsableIsOutput ==
  ASSUME chain \in Chains, NEW tx \in Txs, NEW v \in Nat, Usable(tx, v)
  PROVE  v \in 0..MaxOut /\ HasUsable(tx)
<1>1. v < Len(chain.tx[tx].usable)
  BY DEF Usable
<1>2. Len(chain.tx[tx].usable) <= MaxOut + 1 /\ Len(chain.tx[tx].usable) \in Nat
  BY TxFacts
<1>3. v \in 0..MaxOut
  BY <1>1, <1>2, ConstantsAssumption
<1> QED  BY <1>3 DEF HasUsable

LEMMA FirstUsableIsOutput ==
  ASSUME NEW tx, HasUsable(tx)
  PROVE  FirstUsable(tx) \in 0..MaxOut
<1> DEFINE S == {v \in 0..MaxOut : Usable(tx, v)}
<1>1. S \in SUBSET Nat /\ S # {}
  BY ConstantsAssumption DEF HasUsable
<1>2. \E n \in S : \A m \in S : n <= m
  <2> HIDE DEF S
  <2> QED  BY <1>1, LeastNatural
<1>3. Min(S) \in S
  <2> HIDE DEF S
  <2> QED  BY <1>2 DEF Min
<1> QED  BY <1>3 DEF FirstUsable

----------------------------------------------------------------------------
(* The state between two actions. *)

Base ==
  /\ TypeOK
  /\ chain \in Chains
  /\ utxo = [k \in DOMAIN utxo |-> utxo[k]]
  /\ IsFiniteSet(DOMAIN utxo)
  /\ worker.pc # "idle" => worker.h \in pinned
  /\ worker.pc \in {"idle", "mint", "native1"} => worker.list = <<>>
  /\ \A i \in DOMAIN worker.list : worker.list[i].doc.verify
  /\ Updated(utxo, worker.list) = utxo

(* What each document holds. *)
Amounts == [k \in DOMAIN utxo |-> utxo[k].amt]

LEMMA UtxoFacts ==
  ASSUME Base
  PROVE  /\ DOMAIN utxo \subseteq Key
         /\ \A k \in DOMAIN utxo : utxo[k] \in Doc
         /\ Live \subseteq DOMAIN utxo
         /\ IsFiniteSet(Live)
         /\ \A k \in Live : utxo[k].live /\ utxo[k].verify
<1>1. /\ DOMAIN utxo \subseteq Key
      /\ \A k \in DOMAIN utxo : utxo[k] \in Doc
  BY DEF Base, TypeOK
<1>2. /\ Live \subseteq DOMAIN utxo
      /\ \A k \in Live : utxo[k].live /\ utxo[k].verify
  BY DEF Live
<1>3. IsFiniteSet(Live)
  BY <1>2, FS_Subset DEF Base
<1> QED  BY <1>1, <1>2, <1>3

LEMMA AmountFacts ==
  ASSUME Base, NEW keys \in SUBSET DOMAIN utxo
  PROVE  /\ Summable(Amounts, keys)
         /\ Amount(keys) = SumFunctionOnSet(Amounts, keys)
         /\ Amount(keys) \in Nat
<1> DEFINE f == [k \in keys |-> utxo[k].amt]
<1>1. IsFiniteSet(keys)
  BY FS_Subset DEF Base
<1>2. \A k \in keys : Amounts[k] \in Nat /\ f[k] = Amounts[k]
  BY UtxoFacts DEF Amounts, Doc
<1>3. Summable(Amounts, keys)
  BY <1>1, <1>2 DEF Summable
<1>4. Amount(keys) = SumFunctionOnSet(f, keys)
  <2>1. DOMAIN f = keys
    OBVIOUS
  <2> QED  BY <2>1, Zenon DEF Amount, SumFunction
<1> HIDE DEF f
<1>5. SumFunctionOnSet(f, keys) = SumFunctionOnSet(Amounts, keys)
  BY <1>2, <1>3, SumEqual
<1>6. SumFunctionOnSet(Amounts, keys) \in Nat
  BY <1>3, SumType
<1> QED  BY <1>3, <1>4, <1>5, <1>6

(* Whether a transaction of the block may leave blank documents. *)
MayBlank(tx) == chain.kind = "btc" => \E i \in DOMAIN Block.pins : Block.pins[i].tx = tx

(* A list that marks each of the keys spent by a transaction. *)
Marks(list, keys, tx) ==
  /\ list \in Seq(Write)
  /\ \A w \in Range(list) : /\ w.key \in keys /\ w.doc.verify
                            /\ ~w.doc.live /\ Marked(w.key, w.doc, tx, Block)
  /\ \A k \in keys : \E w \in Range(list) : w.key = k

LEMMA MarksEach ==
  ASSUME NEW keys, IsFiniteSet(keys), NEW tx, NEW f \in [keys -> Write],
         \A k \in keys : /\ f[k].key = k /\ f[k].doc.verify
                         /\ ~f[k].doc.live /\ Marked(k, f[k].doc, tx, Block),
         NEW list, list = [j \in DOMAIN SetToSeq(keys) |-> f[SetToSeq(keys)[j]]]
  PROVE  Marks(list, keys, tx)
<1> DEFINE n == Cardinality(keys)
           s == SetToSeq(keys)
<1>1. n \in Nat
  BY FS_CardinalityType
<1>2. s \in [1..n -> keys] /\ \A k \in keys : \E i \in 1..n : s[i] = k
  BY SetToSeqLists
<1> HIDE DEF s, n
<1>3. list \in [1..n -> Write] /\ \A i \in 1..n : list[i] = f[s[i]]
  BY <1>2 DEF s
<1>4. list \in Seq(Write) /\ DOMAIN list = 1..n
  BY <1>1, <1>3
<1>5. \A w \in Range(list) : /\ w.key \in keys /\ w.doc.verify
                             /\ ~w.doc.live /\ Marked(w.key, w.doc, tx, Block)
  <2>1. \A i \in 1..n : /\ list[i].key \in keys /\ list[i].doc.verify
                        /\ ~list[i].doc.live /\ Marked(list[i].key, list[i].doc, tx, Block)
    BY <1>2, <1>3
  <2> QED  BY <1>4, <2>1 DEF Range
<1>6. \A k \in keys : \E w \in Range(list) : w.key = k
  <2> TAKE k \in keys
  <2>1. PICK i \in 1..n : s[i] = k
    BY <1>2
  <2>2. list[i].key = k /\ list[i] \in Range(list)
    BY <1>3, <1>4, <2>1 DEF Range
  <2> QED  BY <2>2
<1> QED  BY <1>4, <1>5, <1>6 DEF Marks

LEMMA SpendMarks ==
  ASSUME Base, NEW keys \in SUBSET Live, NEW tx \in Txs
  PROVE  Marks([j \in DOMAIN SetToSeq(keys) |-> Spend(SetToSeq(keys)[j], tx)], keys, tx)
<1> DEFINE f == [k \in keys |-> Spend(k, tx)]
           s == SetToSeq(keys)
           list == [j \in DOMAIN s |-> Spend(s[j], tx)]
<1>1. \A k \in keys : /\ Spend(k, tx) \in Write
                      /\ Spend(k, tx).key = k /\ Spend(k, tx).doc.verify
                      /\ ~Spend(k, tx).doc.live /\ Marked(k, Spend(k, tx).doc, tx, Block)
  BY UtxoFacts DEF Spend, Write, Doc, Marked
<1>2. IsFiniteSet(keys)
  BY UtxoFacts, FS_Subset
<1>3. s \in [1..Cardinality(keys) -> keys]
  BY <1>2, SetToSeqLists
<1> HIDE DEF s
<1>4. list = [j \in DOMAIN s |-> f[s[j]]]
  BY <1>3
<1>5. /\ f \in [keys -> Write]
      /\ \A k \in keys : /\ f[k].key = k /\ f[k].doc.verify
                         /\ ~f[k].doc.live /\ Marked(k, f[k].doc, tx, Block)
  BY <1>1
<1> HIDE DEF list, f
<1>6. list = [j \in DOMAIN SetToSeq(keys) |-> f[SetToSeq(keys)[j]]]
  BY <1>4 DEF s
<1>7. Marks(list, keys, tx)
  BY <1>2, <1>5, <1>6, MarksEach
<1> QED  BY <1>7 DEF list, s

LEMMA BlankMarks ==
  ASSUME Base, NEW keys \in SUBSET Live, NEW tx \in Txs, MayBlank(tx)
  PROVE  Marks([j \in DOMAIN SetToSeq(keys) |-> Blank(SetToSeq(keys)[j])], keys, tx)
<1> DEFINE f == [k \in keys |-> Blank(k)]
           s == SetToSeq(keys)
           list == [j \in DOMAIN s |-> Blank(s[j])]
<1>1. \A k \in keys : /\ Blank(k) \in Write
                      /\ Blank(k).key = k /\ Blank(k).doc.verify
                      /\ ~Blank(k).doc.live /\ Marked(k, Blank(k).doc, tx, Block)
  BY UtxoFacts DEF Blank, Write, Doc, Marked, MayBlank
<1>2. IsFiniteSet(keys)
  BY UtxoFacts, FS_Subset
<1>3. s \in [1..Cardinality(keys) -> keys]
  BY <1>2, SetToSeqLists
<1> HIDE DEF s
<1>4. list = [j \in DOMAIN s |-> f[s[j]]]
  BY <1>3
<1>5. /\ f \in [keys -> Write]
      /\ \A k \in keys : /\ f[k].key = k /\ f[k].doc.verify
                         /\ ~f[k].doc.live /\ Marked(k, f[k].doc, tx, Block)
  BY <1>1
<1> HIDE DEF list, f
<1>6. list = [j \in DOMAIN SetToSeq(keys) |-> f[SetToSeq(keys)[j]]]
  BY <1>4 DEF s
<1>7. Marks(list, keys, tx)
  BY <1>2, <1>5, <1>6, MarksEach
<1> QED  BY <1>7 DEF list, s

LEMMA CreditFacts ==
  ASSUME NEW t \in Ticks, NEW p \in Point, NEW i \in Nat, NEW a \in Nat, NEW x \in Txs \cup {NoTx}
  PROVE  /\ Credit(t, p, i, a, x) \in Write
         /\ Credit(t, p, i, a, x).key.tick = t
         /\ Credit(t, p, i, a, x).doc.live /\ Credit(t, p, i, a, x).doc.verify
         /\ Credit(t, p, i, a, x).doc.amt = a
BY DEF Credit, Write, Key, Doc

----------------------------------------------------------------------------
(* What a native pass writes. *)

LEMMA FoundFacts ==
  ASSUME Base, NEW tx
  PROVE  /\ Found(tx) \subseteq Live
         /\ IsFiniteSet(Found(tx))
         /\ \A k \in Found(tx) : k.point \in Ins(tx)
<1>1. Found(tx) \subseteq Live /\ \A k \in Found(tx) : k.point \in Ins(tx)
  BY DEF Found, GetMrc20UtxoByOutPutList
<1> QED  BY <1>1, UtxoFacts, FS_Subset

LEMMA SendsMark ==
  ASSUME Base, NEW tx \in Txs
  PROVE  Marks(Sends(tx), Found(tx), tx)
<1>1. Found(tx) \in SUBSET Live
  BY FoundFacts
<1>2. CASE chain.kind = "btc"
  <2>1. Sends(tx) = [j \in DOMAIN SetToSeq(Found(tx)) |-> Spend(SetToSeq(Found(tx))[j], tx)]
    BY <1>2 DEF Sends
  <2> QED  BY <1>1, <2>1, SpendMarks
<1>3. CASE chain.kind # "btc"
  <2>1. Sends(tx) = [j \in DOMAIN SetToSeq(Found(tx)) |-> Blank(SetToSeq(Found(tx))[j])]
    BY <1>3 DEF Sends
  <2>2. MayBlank(tx)
    BY <1>3 DEF MayBlank
  <2> QED  BY <1>1, <2>1, <2>2, BlankMarks
<1> QED  BY <1>2, <1>3

LEMMA GroupsFacts ==
  ASSUME Base, NEW tx
  PROVE  /\ \A g \in Groups(tx) : /\ g.tx = tx /\ g.keys \subseteq Found(tx)
                                  /\ \A j, k \in g.keys : j.tick = k.tick
         /\ \A g, h \in Groups(tx) : g # h => g.keys \cap h.keys = {}
         /\ IsFiniteSet(Groups(tx))
<1>1. IsFiniteSet(Found(tx))
  BY FoundFacts
<1>2. CASE chain.kind = "btc"
  <2> DEFINE ticks == {k.tick : k \in Found(tx)}
             G == {[tx |-> tx, keys |-> OfTick(Found(tx), t)] : t \in ticks}
             p == [k \in Found(tx) |-> k.tick]
             q == [t \in ticks |-> [tx |-> tx, keys |-> OfTick(Found(tx), t)]]
  <2>1. Groups(tx) = G
    BY <1>2 DEF Groups
  <2>2. IsFiniteSet(ticks)
    <3>1. ticks = {p[k] : k \in DOMAIN p} /\ DOMAIN p = Found(tx)
      OBVIOUS
    <3> HIDE DEF p, ticks
    <3> QED  BY <1>1, <3>1, ImageFinite
  <2>3. IsFiniteSet(G)
    <3>1. G = {q[t] : t \in DOMAIN q} /\ DOMAIN q = ticks
      OBVIOUS
    <3> HIDE DEF q, G, ticks
    <3> QED  BY <2>2, <3>1, ImageFinite
  <2>4. \A g \in G : /\ g.tx = tx /\ g.keys \subseteq Found(tx)
                     /\ \A j, k \in g.keys : j.tick = k.tick
    BY DEF OfTick
  <2>5. \A g, h \in G : g # h => g.keys \cap h.keys = {}
    BY DEF OfTick
  <2> HIDE DEF G
  <2> QED  BY <2>1, <2>3, <2>4, <2>5
<1>3. CASE chain.kind # "btc"
  <2> DEFINE part(f) == {k \in Found(tx) : k.tick = f.tick /\ k.point = f.point}
             G == {[tx |-> tx, keys |-> part(f)] : f \in Found(tx)}
             q == [f \in Found(tx) |-> [tx |-> tx, keys |-> part(f)]]
  <2>1. Groups(tx) = G
    BY <1>3 DEF Groups
  <2>3. IsFiniteSet(G)
    <3>1. G = {q[t] : t \in DOMAIN q} /\ DOMAIN q = Found(tx)
      OBVIOUS
    <3> HIDE DEF q, G
    <3> QED  BY <1>1, <3>1, ImageFinite
  <2>4. \A g \in G : /\ g.tx = tx /\ g.keys \subseteq Found(tx)
                     /\ \A j, k \in g.keys : j.tick = k.tick
    OBVIOUS
  <2>5. \A g, h \in G : g # h => g.keys \cap h.keys = {}
    <3> SUFFICES ASSUME NEW d \in Found(tx), NEW e \in Found(tx),
                        NEW k \in part(d) \cap part(e)
                 PROVE  part(d) = part(e)
      OBVIOUS
    <3>1. d.tick = e.tick /\ d.point = e.point
      OBVIOUS
    <3> QED  BY <3>1
  <2> HIDE DEF G
  <2> QED  BY <2>1, <2>3, <2>4, <2>5
<1> QED  BY <1>2, <1>3

LEMMA MergesFacts ==
  ASSUME Base, worker.h \in Heights
  PROVE  /\ \A g \in Merges : /\ g.tx \in Movers /\ g.keys \subseteq Found(g.tx)
                              /\ \A j, k \in g.keys : j.tick = k.tick
         /\ \A g, h \in Merges : g # h => g.keys \cap h.keys = {}
         /\ IsFiniteSet(Merges)
<1>1. chain \in Chains
  BY DEF Base
<1>2. \A g \in Merges : g.tx \in Movers /\ g \in Groups(g.tx)
  BY GroupsFacts DEF Merges
<1>3. \A g \in Merges : /\ g.tx \in Movers /\ g.keys \subseteq Found(g.tx)
                        /\ \A j, k \in g.keys : j.tick = k.tick
  BY <1>2, GroupsFacts
<1>4. ASSUME NEW g \in Merges, NEW h \in Merges, g # h PROVE g.keys \cap h.keys = {}
  <2>1. CASE g.tx = h.tx
    BY <1>2, <1>4, <2>1, GroupsFacts
  <2>2. CASE g.tx # h.tx
    <3>1. Ins(g.tx) \cap Ins(h.tx) = {}
      <4>1. g.tx \in Range(Block.txs) /\ h.tx \in Range(Block.txs)
        BY <1>3 DEF Movers
      <4> QED  BY <1>1, <2>2, <4>1, BlockFacts
    <3>2. /\ \A k \in g.keys : k.point \in Ins(g.tx)
          /\ \A k \in h.keys : k.point \in Ins(h.tx)
      BY <1>3, FoundFacts
    <3> QED  BY <3>1, <3>2
  <2> QED  BY <2>1, <2>2
<1>5. IsFiniteSet(Merges)
  <2> DEFINE f == [tx \in Movers |-> Groups(tx)]
             T == {f[x] : x \in DOMAIN f}
  <2>1. IsFiniteSet(DOMAIN f)
    BY <1>1, BlockTxs
  <2>2. IsFiniteSet(T)
    <3> HIDE DEF f
    <3> QED  BY <2>1, ImageFinite
  <2>3. \A x \in T : IsFiniteSet(x)
    BY GroupsFacts
  <2>4. Merges = UNION T
    BY DEF Merges
  <2> HIDE DEF T
  <2> QED  BY <2>2, <2>3, <2>4, FS_UNION
<1> QED  BY <1>3, <1>4, <1>5

LEMMA ReceiptFacts ==
  ASSUME Base, worker.h \in Heights, NEW g \in Merges, NEW f \in g.keys
  PROVE  /\ Receipt(g, f) \in Write
         /\ Receipt(g, f).doc.live /\ Receipt(g, f).doc.verify
         /\ Receipt(g, f).key.tick = f.tick
         /\ Receipt(g, f).doc.amt <= Amount(g.keys)
<1>1. chain \in Chains
  BY DEF Base
<1>2. g.tx \in Txs
  BY <1>1, MergesFacts, BlockTxs DEF Movers
<1>3. g.keys \in SUBSET DOMAIN utxo /\ f \in DOMAIN utxo
  BY MergesFacts, FoundFacts, UtxoFacts
<1>4. Amount(g.keys) \in Nat /\ Summable(Amounts, g.keys)
      /\ Amount(g.keys) = SumFunctionOnSet(Amounts, g.keys)
  BY <1>3, AmountFacts
<1>5. f.tick \in Ticks /\ f.index \in Nat /\ utxo[f].amt \in Nat /\ utxo[f].optx \in Txs \cup {NoTx}
  BY <1>3, UtxoFacts DEF Key, Doc
<1>6. <<chain.tx[g.tx].hash, 0>> \in Point
  BY <1>1, <1>2, TxFacts, ConstantsAssumption DEF Point
<1>7. CASE chain.kind = "btc"
  <2>1. Receipt(g, f)
          = Credit(f.tick, <<chain.tx[g.tx].hash, 0>>, f.index, Amount(g.keys), g.tx)
    BY <1>7 DEF Receipt
  <2>2. g.tx \in Txs \cup {NoTx} /\ Amount(g.keys) <= Amount(g.keys)
    BY <1>2, <1>4
  <2> QED  BY <1>4, <1>5, <1>6, <2>1, <2>2, CreditFacts
<1>8. CASE chain.kind # "btc"
  <2>1. Receipt(g, f)
          = Credit(f.tick, <<chain.tx[g.tx].hash, 0>>, f.index, utxo[f].amt, utxo[f].optx)
    BY <1>8 DEF Receipt
  <2>2. utxo[f].amt <= Amount(g.keys)
    <3>1. SumFunctionOnSet(Amounts, {f}) <= SumFunctionOnSet(Amounts, g.keys)
      BY <1>4, SumSubset
    <3>2. Amounts[f] = utxo[f].amt
      BY <1>3 DEF Amounts
    <3>3. SumFunctionOnSet(Amounts, {f}) = Amounts[f]
      BY <1>5, <3>2, SumOne
    <3> QED  BY <1>4, <3>1, <3>2, <3>3
  <2> QED  BY <1>5, <1>6, <2>1, <2>2, CreditFacts
<1> QED  BY <1>7, <1>8

(* The writes of the block's transactions, one after the other. *)
LEMMA InOrderElements ==
  ASSUME chain \in Chains, worker.h \in Heights, NEW writes \in [Movers -> Seq(Write)]
  PROVE  /\ InOrder(writes) \in Seq(Write)
         /\ \A w : w \in Range(InOrder(writes)) <=> \E tx \in Movers : w \in Range(writes[tx])
<1> DEFINE txs == Block.txs
           n == Len(txs)
           seqs == [i \in 1..n |-> IF txs[i] \in Movers THEN writes[txs[i]] ELSE <<>>]
<1>1. txs \in Seq(Txs) /\ n \in Nat /\ DOMAIN txs = 1..n
  BY BlockFacts
<1>2. seqs \in [1..n -> Seq(Write)]
  OBVIOUS
<1>3. InOrder(writes) = FlattenSeq(seqs)
  BY <1>1 DEF InOrder
<1>4. /\ FlattenSeq(seqs) \in Seq(Write)
      /\ \A w : w \in Range(FlattenSeq(seqs)) <=> \E i \in 1..n : w \in Range(seqs[i])
  <2> HIDE DEF seqs, n
  <2> QED  BY <1>1, <1>2, FlattenSeqElements
<1>5. ASSUME NEW w
      PROVE  (\E i \in 1..n : w \in Range(seqs[i])) <=> \E tx \in Movers : w \in Range(writes[tx])
  <2>1. Range(<<>>) = {}
    BY DEF Range
  <2>2. \A i \in 1..n : txs[i] \notin Movers => seqs[i] = <<>>
    OBVIOUS
  <2>3. \A i \in 1..n : txs[i] \in Movers => seqs[i] = writes[txs[i]]
    OBVIOUS
  <2>4. \A tx \in Movers : \E i \in 1..n : txs[i] = tx
    BY BlockTxs DEF Movers
  <2> HIDE DEF seqs, txs, n
  <2>5. ASSUME NEW i \in 1..n, w \in Range(seqs[i]) PROVE \E tx \in Movers : w \in Range(writes[tx])
    BY <2>1, <2>2, <2>3, <2>5
  <2>6. ASSUME NEW tx \in Movers, w \in Range(writes[tx]) PROVE \E i \in 1..n : w \in Range(seqs[i])
    BY <2>3, <2>4, <2>6
  <2> QED  BY <2>5, <2>6
<1> HIDE DEF seqs
<1> QED  BY <1>3, <1>4, <1>5

(* How each group of documents a native pass merges is credited. *)
Chosen(first) ==
  first \in [Merges -> Live] /\ \A g \in Merges : first[g] \in Earliest(g.tx, g.keys)

LEMMA ChosenFacts ==
  ASSUME NEW first, Chosen(first), NEW g \in Merges
  PROVE  first[g] \in g.keys
BY DEF Chosen, Earliest

LEMMA SetToSeqRange ==
  ASSUME NEW W, NEW S \in SUBSET W, IsFiniteSet(S)
  PROVE  SetToSeq(S) \in Seq(W) /\ Range(SetToSeq(S)) = S
<1> DEFINE n == Cardinality(S)
           s == SetToSeq(S)
<1>1. n \in Nat
  BY FS_CardinalityType
<1>2. s \in [1..n -> S] /\ \A k \in S : \E i \in 1..n : s[i] = k
  BY SetToSeqLists
<1> HIDE DEF s, n
<1>3. s \in Seq(W) /\ DOMAIN s = 1..n
  BY <1>1, <1>2
<1>4. Range(s) = S
  BY <1>2, <1>3 DEF Range
<1> QED  BY <1>3, <1>4 DEF s

(* What the writes of a native pass are. *)
NativeWrite(w, first) ==
  \/ \E tx \in Movers : ~w.doc.live /\ w.key.point \in Ins(tx) /\ Marked(w.key, w.doc, tx, Block)
  \/ \E g \in Merges : w = Receipt(g, first[g])

BtcWrites(tx, first) == Sends(tx) \o SetToSeq({Receipt(g, first[g]) : g \in Groups(tx)})

LEMMA NativeOnBtc ==
  ASSUME Base, worker.h \in Heights, NEW first, Chosen(first), NEW tx \in Movers
  PROVE  /\ BtcWrites(tx, first) \in Seq(Write)
         /\ \A w \in Range(BtcWrites(tx, first)) : w.doc.verify /\ NativeWrite(w, first)
         /\ \A k \in Found(tx) : \E w \in Range(BtcWrites(tx, first)) : w.key = k
<1> DEFINE R == {Receipt(g, first[g]) : g \in Groups(tx)}
<1>1. tx \in Txs
  BY BlockTxs DEF Movers, Base
<1>2. Marks(Sends(tx), Found(tx), tx)
  BY <1>1, SendsMark
<1>3. Groups(tx) \subseteq Merges
  BY DEF Merges
<1>4. R \in SUBSET Write /\ \A w \in R : w.doc.verify
  BY <1>3, ChosenFacts, ReceiptFacts
<1>5. IsFiniteSet(R)
  <2> DEFINE f == [g \in Groups(tx) |-> Receipt(g, first[g])]
  <2>1. IsFiniteSet(DOMAIN f)
    BY GroupsFacts
  <2>2. R = {f[g] : g \in DOMAIN f}
    OBVIOUS
  <2> HIDE DEF f, R
  <2> QED  BY <2>1, <2>2, ImageFinite
<1>6. \A w \in R : NativeWrite(w, first)
  BY <1>3 DEF NativeWrite
<1> HIDE DEF R
<1>7. SetToSeq(R) \in Seq(Write) /\ Range(SetToSeq(R)) = R
  BY <1>4, <1>5, SetToSeqRange
<1>8. Sends(tx) \in Seq(Write)
  BY <1>2 DEF Marks
<1> DEFINE list == BtcWrites(tx, first)
           a == Sends(tx)
           b == SetToSeq(R)
<1>9. list = a \o b
  BY DEF R, BtcWrites
<1> HIDE DEF list, a, b
<1>13. a \o b \in Seq(Write) /\ Range(a \o b) = Range(a) \cup Range(b)
  BY <1>7, <1>8, ConcatProperties, RangeConcatenation DEF a, b
<1>10. list \in Seq(Write) /\ Range(list) = Range(Sends(tx)) \cup R
  BY <1>7, <1>9, <1>13 DEF a, b
<1>11. \A w \in Range(Sends(tx)) : w.doc.verify /\ NativeWrite(w, first)
  BY <1>2, FoundFacts DEF Marks, NativeWrite
<1>12. \A k \in Found(tx) : \E w \in Range(Sends(tx)) : w.key = k
  BY <1>2 DEF Marks
<1> QED  BY <1>4, <1>6, <1>10, <1>11, <1>12 DEF list

LEMMA NativeWritesFacts ==
  ASSUME Base, worker.h \in Heights,
         NEW first, Chosen(first), NEW order \in Orders
  PROVE  LET list == NativeWrites(first, order)
         IN  /\ list \in Seq(Write)
             /\ \A w \in Range(list) : w.doc.verify /\ NativeWrite(w, first)
             /\ \A tx \in Movers : \A k \in Found(tx) : \E w \in Range(list) : w.key = k
<1> DEFINE list == NativeWrites(first, order)
<1>1. chain \in Chains
  BY DEF Base
<1>2. CASE chain.kind = "btc"
  <2> DEFINE f == [tx \in Movers |-> BtcWrites(tx, first)]
  <2>1. \A tx \in Movers : /\ f[tx] \in Seq(Write)
                           /\ \A w \in Range(f[tx]) : w.doc.verify /\ NativeWrite(w, first)
                           /\ \A k \in Found(tx) : \E w \in Range(f[tx]) : w.key = k
    <3> TAKE tx \in Movers
    <3>1. f[tx] = BtcWrites(tx, first)
      OBVIOUS
    <3> HIDE DEF f
    <3> QED  BY <3>1, NativeOnBtc
  <2>2. list = InOrder(f)
    BY <1>2 DEF NativeWrites, BtcWrites
  <2>3. f = [tx \in Movers |-> f[tx]]
    OBVIOUS
  <2> HIDE DEF f, list
  <2>4. f \in [Movers -> Seq(Write)]
    BY <2>1, <2>3
  <2>5. /\ list \in Seq(Write)
        /\ \A w : w \in Range(list) <=> \E tx \in Movers : w \in Range(f[tx])
    BY <1>1, <2>2, <2>4, InOrderElements
  <2>6. \A w \in Range(list) : w.doc.verify /\ NativeWrite(w, first)
    BY <2>1, <2>5
  <2>7. \A tx \in Movers : \A k \in Found(tx) : \E w \in Range(list) : w.key = k
    <3> TAKE tx \in Movers
    <3> TAKE k \in Found(tx)
    <3>1. PICK w \in Range(f[tx]) : w.key = k
      BY <2>1
    <3> QED  BY <2>5, <3>1
  <2> QED  BY <2>5, <2>6, <2>7 DEF list
<1>3. CASE chain.kind # "btc"
  <2> DEFINE f == [tx \in Movers |-> Sends(tx)]
             n == Cardinality(Merges)
             s == [i \in DOMAIN order |-> Receipt(order[i], first[order[i]])]
  <2>1. \A tx \in Movers : Marks(Sends(tx), Found(tx), tx)
    <3> TAKE tx \in Movers
    <3>1. tx \in Txs
      BY <1>1, BlockTxs DEF Movers
    <3> QED  BY <3>1, SendsMark
  <2>2. f \in [Movers -> Seq(Write)]
    BY <2>1 DEF Marks
  <2>3. n \in Nat
    BY MergesFacts, FS_CardinalityType
  <2>4. order \in [1..n -> Merges]
    BY <1>3 DEF Orders, SetToSeqs
  <2>5. \A i \in 1..n : s[i] \in Write /\ s[i].doc.verify /\ NativeWrite(s[i], first)
    <3> TAKE i \in 1..n
    <3>1. order[i] \in Merges /\ s[i] = Receipt(order[i], first[order[i]])
      BY <2>4
    <3> QED  BY <3>1, ChosenFacts, ReceiptFacts DEF NativeWrite
  <2>6. DOMAIN s = 1..n /\ s = [i \in 1..n |-> s[i]]
    BY <2>4
  <2>7. list = InOrder(f) \o s
    BY <1>3 DEF NativeWrites
  <2>12. \A tx \in Movers : f[tx] = Sends(tx)
    OBVIOUS
  <2> HIDE DEF f, n, s, list
  <2>8. s \in Seq(Write)
    BY <2>3, <2>5, <2>6
  <2>9. /\ InOrder(f) \in Seq(Write)
        /\ \A w : w \in Range(InOrder(f)) <=> \E tx \in Movers : w \in Range(f[tx])
    BY <1>1, <2>2, InOrderElements
  <2>10. list \in Seq(Write) /\ Range(list) = Range(InOrder(f)) \cup Range(s)
    BY <2>7, <2>8, <2>9, ConcatProperties, RangeConcatenation
  <2>11. \A w \in Range(s) : w.doc.verify /\ NativeWrite(w, first)
    BY <2>5, <2>6 DEF Range
  <2>13. \A tx \in Movers : \A w \in Range(f[tx]) : w.doc.verify /\ NativeWrite(w, first)
    <3> TAKE tx \in Movers
    <3> QED  BY <2>1, <2>12, FoundFacts DEF Marks, NativeWrite
  <2>14. \A tx \in Movers : \A k \in Found(tx) : \E w \in Range(f[tx]) : w.key = k
    BY <2>1, <2>12 DEF Marks
  <2>15. \A w \in Range(list) : w.doc.verify /\ NativeWrite(w, first)
    BY <2>9, <2>10, <2>11, <2>13
  <2>16. \A tx \in Movers : \A k \in Found(tx) : \E w \in Range(list) : w.key = k
    <3> TAKE tx \in Movers
    <3> TAKE k \in Found(tx)
    <3>1. PICK w \in Range(f[tx]) : w.key = k
      BY <2>14
    <3> QED  BY <2>9, <2>10, <3>1
  <2> QED  BY <2>10, <2>15, <2>16 DEF list
<1> QED  BY <1>2, <1>3

----------------------------------------------------------------------------
(* What a list of writes leaves of the live documents of a tick. *)

Collection(c) ==
  /\ c = [k \in DOMAIN c |-> c[k]]
  /\ IsFiniteSet(DOMAIN c)
  /\ DOMAIN c \subseteq Key
  /\ \A k \in DOMAIN c : c[k] \in Doc

Held(c, keys) == SumFunctionOnSet([k \in DOMAIN c |-> c[k].amt], keys)

LiveOf(c, t) == {k \in DOMAIN c : c[k].live /\ c[k].verify /\ k.tick = t}

LEMMA HeldFacts ==
  ASSUME NEW c, Collection(c), NEW keys \in SUBSET DOMAIN c
  PROVE  /\ Summable([k \in DOMAIN c |-> c[k].amt], keys)
         /\ Held(c, keys) \in Nat
<1> DEFINE f == [k \in DOMAIN c |-> c[k].amt]
<1>1. IsFiniteSet(keys)
  BY FS_Subset DEF Collection
<1>2. \A k \in keys : f[k] \in Nat
  BY DEF Collection, Doc
<1> HIDE DEF f
<1>3. Summable(f, keys)
  BY <1>1, <1>2 DEF Summable
<1>4. SumFunctionOnSet(f, keys) \in Nat
  BY <1>3, SumType
<1> QED  BY <1>3, <1>4 DEF Held, f

LEMMA KeysOfFacts ==
  ASSUME NEW list \in Seq(Write)
  PROVE  /\ KeysOf(list) \subseteq Key
         /\ IsFiniteSet(KeysOf(list))
         /\ \A k : k \in KeysOf(list) <=> \E w \in Range(list) : w.key = k
<1> DEFINE f == [i \in DOMAIN list |-> list[i].key]
<1>1. DOMAIN list = 1..Len(list) /\ Len(list) \in Nat
  OBVIOUS
<1>2. KeysOf(list) = {f[i] : i \in DOMAIN f} /\ DOMAIN f = DOMAIN list
  BY DEF KeysOf
<1> HIDE DEF f
<1>6. IsFiniteSet(DOMAIN f)
  BY <1>1, <1>2, FS_Interval
<1>3. IsFiniteSet(KeysOf(list))
  BY <1>2, <1>6, ImageFinite
<1>4. KeysOf(list) \subseteq Key
  <2>1. \A i \in DOMAIN list : list[i] \in Write
    OBVIOUS
  <2>2. \A w \in Write : w.key \in Key
    BY DEF Write
  <2> QED  BY <2>1, <2>2 DEF KeysOf
<1>5. \A k : k \in KeysOf(list) <=> \E w \in Range(list) : w.key = k
  BY DEF KeysOf, Range
<1> QED  BY <1>3, <1>4, <1>5

(* A document is as it was, or one of the list's writes. *)
LEMMA UpdatedCases ==
  ASSUME NEW c, NEW list \in Seq(Write), Accepted(c, list), NEW k \in DOMAIN Updated(c, list)
  PROVE  \/ /\ k \in DOMAIN c /\ Updated(c, list)[k] = c[k]
            /\ k \in KeysOf(list) => ~c[k].verify
         \/ \E w \in Range(list) : w.key = k /\ w.doc = Updated(c, list)[k]
<1>1. k \in DOMAIN c \cup KeysOf(list)
  BY UpdatedDomain
<1>2. CASE Refused(c, k)
  BY <1>2, UpdatedKept DEF Refused
<1>3. CASE k \notin KeysOf(list)
  BY <1>1, <1>3, UpdatedKept
<1>4. CASE k \in KeysOf(list) /\ ~Refused(c, k)
  <2>1. PICK i : LastOf(list, i, k) /\ Updated(c, list)[k] = list[i].doc
    BY <1>4, UpdatedWritten
  <2>2. list[i] \in Range(list) /\ list[i].key = k
    BY <2>1 DEF LastOf, Range
  <2> QED  BY <2>1, <2>2
<1> QED  BY <1>2, <1>3, <1>4

LEMMA UpdatedCollection ==
  ASSUME NEW c, Collection(c), NEW list \in Seq(Write), Accepted(c, list)
  PROVE  Collection(Updated(c, list))
<1> DEFINE u == Updated(c, list)
<1>1. DOMAIN u = DOMAIN c \cup KeysOf(list)
  BY UpdatedDomain
<1>2. u = [k \in DOMAIN u |-> u[k]]
  BY UpdatedFunction
<1>3. \A k \in DOMAIN u : u[k] \in Doc
  <2> TAKE k \in DOMAIN u
  <2>1. \A w \in Range(list) : w.doc \in Doc
    <3>1. \A w \in Range(list) : w \in Write
      BY RangeElement
    <3>2. \A w \in Write : w.doc \in Doc
      BY DEF Write
    <3> QED  BY <3>1, <3>2
  <2>2. \/ k \in DOMAIN c /\ u[k] = c[k]
        \/ \E w \in Range(list) : w.key = k /\ w.doc = u[k]
    BY UpdatedCases
  <2> HIDE DEF u
  <2> QED  BY <2>1, <2>2 DEF Collection
<1> HIDE DEF u
<1>6. IsFiniteSet(KeysOf(list)) /\ KeysOf(list) \subseteq Key
  BY KeysOfFacts
<1>7. IsFiniteSet(DOMAIN c) /\ DOMAIN c \subseteq Key
  BY DEF Collection
<1>4. IsFiniteSet(DOMAIN u) /\ DOMAIN u \subseteq Key
  BY <1>1, <1>6, <1>7, FS_Union
<1>5. Collection(u)
  BY <1>2, <1>3, <1>4 DEF Collection
<1> QED  BY <1>5 DEF u

(* The live documents a list of writes credits. *)
Credited(c, list, t) ==
  {k \in LiveOf(Updated(c, list), t) :
     \E w \in Range(list) : w.key = k /\ w.doc = Updated(c, list)[k]}

(* Writes that cover a set of live documents leave at most what the others *)
(* hold and what the writes credit.                                        *)
LEMMA WritesConserve ==
  ASSUME NEW c, Collection(c), NEW list \in Seq(Write), Accepted(c, list), NEW t,
         NEW spent \in SUBSET LiveOf(c, t), spent \subseteq KeysOf(list),
         NEW b \in Nat, Held(Updated(c, list), Credited(c, list, t)) <= b
  PROVE  Held(Updated(c, list), LiveOf(Updated(c, list), t)) + Held(c, spent)
           <= Held(c, LiveOf(c, t)) + b
<1> DEFINE u == Updated(c, list)
           f == [k \in DOMAIN c |-> c[k].amt]
           e == [k \in DOMAIN u |-> u[k].amt]
           old == {k \in LiveOf(c, t) : k \notin KeysOf(list)}
           new == Credited(c, list, t)
           S == LiveOf(u, t)
<1>1. Collection(u)
  BY UpdatedCollection
<1>2. \A k \in S : k \in old \/ k \in new
  <2> TAKE k \in S
  <2>1. \/ /\ k \in DOMAIN c /\ u[k] = c[k]
           /\ k \in KeysOf(list) => ~c[k].verify
        \/ \E w \in Range(list) : w.key = k /\ w.doc = u[k]
    BY UpdatedCases DEF LiveOf
  <2> QED  BY <2>1 DEF LiveOf, Credited
<1>3. \A k \in old : k \in DOMAIN u /\ u[k] = c[k]
  <2> TAKE k \in old
  <2>1. k \in DOMAIN c /\ k \notin KeysOf(list)
    BY DEF LiveOf
  <2>2. u[k] = c[k]
    BY <2>1, UpdatedKept
  <2>3. DOMAIN u = DOMAIN c \cup KeysOf(list)
    BY UpdatedDomain
  <2> HIDE DEF u
  <2> QED  BY <2>1, <2>2, <2>3
<1>4. old \cap new = {}
  BY KeysOfFacts DEF Credited
<1>5. new \subseteq S /\ S \subseteq DOMAIN u
  BY DEF Credited, LiveOf
<1>6. old \in SUBSET S
  BY <1>3 DEF LiveOf
<1>7. S = old \cup new
  BY <1>2, <1>5, <1>6
<1>8. LiveOf(c, t) \in SUBSET DOMAIN c
  BY DEF LiveOf
<1> HIDE DEF u
<1>9. Summable(e, S) /\ Summable(e, old) /\ Summable(e, new)
  BY <1>1, <1>5, <1>6, HeldFacts
<1>10. SumFunctionOnSet(e, S) = SumFunctionOnSet(e, old) + SumFunctionOnSet(e, new)
  <2> HIDE DEF e, S, old, new
  <2>1. SumFunctionOnSet(e, old \cup new) = SumFunctionOnSet(e, old) + SumFunctionOnSet(e, new)
    BY <1>4, <1>9, SumUnion
  <2> QED  BY <1>7, <2>1, Zenon
<1>11. Summable(f, LiveOf(c, t))
  BY <1>8, HeldFacts
<1>12. old \in SUBSET LiveOf(c, t)
  OBVIOUS
<1>13. SumFunctionOnSet(e, old) = SumFunctionOnSet(f, old)
  <2>1. \A k \in old : e[k] = f[k]
    BY <1>3, <1>8
  <2>2. Summable(f, old)
    <3> HIDE DEF f, old
    <3> QED  BY <1>11, <1>12, SumSubset
  <2> HIDE DEF e, f, old
  <2> QED  BY <2>1, <2>2, SumEqual
<1>14. spent \in SUBSET LiveOf(c, t) /\ spent \cap old = {}
  OBVIOUS
<1> HIDE DEF e, f, old, new, S
<1>15. Summable(f, old) /\ Summable(f, spent)
  BY <1>11, <1>12, <1>14, SumSubset
<1>16. SumFunctionOnSet(f, spent \cup old) = SumFunctionOnSet(f, spent) + SumFunctionOnSet(f, old)
  BY <1>14, <1>15, SumUnion
<1>17. SumFunctionOnSet(f, spent \cup old) <= SumFunctionOnSet(f, LiveOf(c, t))
  <2>1. spent \cup old \in SUBSET LiveOf(c, t)
    BY <1>12, <1>14
  <2> QED  BY <1>11, <2>1, SumSubset
<1>18. /\ SumFunctionOnSet(f, spent) \in Nat /\ SumFunctionOnSet(f, old) \in Nat
       /\ SumFunctionOnSet(e, old) \in Nat /\ SumFunctionOnSet(e, new) \in Nat
       /\ SumFunctionOnSet(f, LiveOf(c, t)) \in Nat
  BY <1>9, <1>11, <1>15, SumType
<1>19. SumFunctionOnSet(e, new) <= b
  BY DEF Held, u, e, new
<1>20. SumFunctionOnSet(e, S) + SumFunctionOnSet(f, spent) <= SumFunctionOnSet(f, LiveOf(c, t)) + b
  BY <1>10, <1>13, <1>16, <1>17, <1>18, <1>19
<1> QED  BY <1>20 DEF Held, u, e, f, S

LEMMA BaseCollection ==
  ASSUME Base
  PROVE  /\ Collection(utxo)
         /\ \A keys \in SUBSET DOMAIN utxo : Held(utxo, keys) = Amount(keys)
         /\ \A t : LiveOf(utxo, t) = OfTick(Live, t)
<1>1. Collection(utxo)
  BY UtxoFacts DEF Base, Collection
<1>2. \A keys \in SUBSET DOMAIN utxo : Held(utxo, keys) = Amount(keys)
  BY AmountFacts DEF Held, Amounts
<1>3. \A t : LiveOf(utxo, t) = OfTick(Live, t)
  BY DEF LiveOf, OfTick, Live
<1> QED  BY <1>1, <1>2, <1>3

LEMMA NativeAccepted ==
  ASSUME Base, worker.h \in Heights, NEW first, Chosen(first), NEW order \in Orders
  PROVE  NativeWrites(first, order) \in Seq(Write) /\ Accepted(utxo, NativeWrites(first, order))
<1> DEFINE list == NativeWrites(first, order)
<1>1. list \in Seq(Write) /\ \A w \in Range(list) : w.doc.verify
  BY NativeWritesFacts
<1> HIDE DEF list
<1>2. \A i \in DOMAIN list : list[i].doc.verify
  BY <1>1 DEF Range
<1>3. Accepted(utxo, list)
  BY <1>2 DEF Accepted, Base
<1> QED  BY <1>1, <1>3 DEF list

(* A native pass leaves no more of a tick than there was. *)
LEMMA NativeConserves ==
  ASSUME Base, worker.h \in Heights, NEW first, Chosen(first), NEW order \in Orders, NEW t,
         NEW u, u = Updated(utxo, NativeWrites(first, order))
  PROVE  Held(u, LiveOf(u, t)) <= Held(utxo, LiveOf(utxo, t))
<1> DEFINE list == NativeWrites(first, order)
           spent == {k \in LiveOf(utxo, t) : \E tx \in Movers : k \in Found(tx)}
           K == Credited(utxo, list, t)
           e == [k \in DOMAIN u |-> u[k].amt]
           f == [k \in DOMAIN utxo |-> utxo[k].amt]
           From(k, g) == g \in Merges /\ Receipt(g, first[g]).key = k /\ Receipt(g, first[g]).doc = u[k]
           part == [k \in K |-> (CHOOSE o : From(k, o)).keys]
<1>1. /\ list \in Seq(Write) /\ Accepted(utxo, list)
      /\ \A w \in Range(list) : NativeWrite(w, first)
      /\ \A tx \in Movers : \A k \in Found(tx) : \E w \in Range(list) : w.key = k
  BY NativeAccepted, NativeWritesFacts
<1>2. Collection(utxo) /\ u = Updated(utxo, list) /\ spent \in SUBSET LiveOf(utxo, t)
      /\ LiveOf(utxo, t) \in SUBSET DOMAIN utxo
  BY BaseCollection DEF LiveOf
<1> HIDE DEF list
<1>3. Collection(u)
  BY <1>1, <1>2, UpdatedCollection
<1>4. spent \subseteq KeysOf(list)
  BY <1>1, KeysOfFacts
<1>5. \A k \in K : k.tick = t /\ \E g : From(k, g)
  <2> TAKE k \in K
  <2>1. k.tick = t /\ u[k].live
    BY <1>2 DEF Credited, LiveOf
  <2>2. PICK w \in Range(list) : w.key = k /\ w.doc = u[k]
    BY <1>2 DEF Credited
  <2>3. PICK g \in Merges : w = Receipt(g, first[g])
    BY <1>1, <2>1, <2>2 DEF NativeWrite
  <2> QED  BY <2>1, <2>2, <2>3
<1>6. \A k \in K : /\ (CHOOSE o : From(k, o)) \in Merges
                   /\ Receipt((CHOOSE o : From(k, o)), first[(CHOOSE o : From(k, o))]).key = k
                   /\ Receipt((CHOOSE o : From(k, o)), first[(CHOOSE o : From(k, o))]).doc = u[k]
  <2> TAKE k \in K
  <2>1. From(k, (CHOOSE o : From(k, o)))
    <3> HIDE DEF From
    <3> QED  BY <1>5, Zenon
  <2> QED  BY <2>1
<1>7. \A k \in K : /\ part[k] \in SUBSET spent
                   /\ e[k] <= SumFunctionOnSet(f, part[k])
  <2> TAKE k \in K
  <2> DEFINE g == CHOOSE o : From(k, o)
  <2>1. g \in Merges /\ Receipt(g, first[g]).key = k /\ Receipt(g, first[g]).doc = u[k]
    BY <1>6
  <2>2. part[k] = g.keys
    OBVIOUS
  <2>3. k \in DOMAIN u /\ k.tick = t
    BY <1>2, <1>5 DEF Credited, LiveOf
  <2> HIDE DEF g, part, K
  <2>4. first[g] \in g.keys
    BY <2>1, ChosenFacts
  <2>5. Receipt(g, first[g]).key.tick = first[g].tick /\ u[k].amt <= Amount(g.keys)
    <3>1. /\ Receipt(g, first[g]).key.tick = first[g].tick
          /\ Receipt(g, first[g]).doc.amt <= Amount(g.keys)
      BY <2>1, <2>4, ReceiptFacts
    <3> QED  BY <2>1, <3>1
  <2>6. /\ g.tx \in Movers /\ g.keys \subseteq Found(g.tx)
        /\ \A i, j \in g.keys : i.tick = j.tick
    BY <2>1, MergesFacts
  <2>7. \A j \in g.keys : j \in Found(g.tx) /\ j \in Live /\ j.tick = t
    BY <2>1, <2>3, <2>4, <2>5, <2>6, FoundFacts
  <2>8. \A j \in g.keys : j \in spent
    BY <2>6, <2>7 DEF LiveOf, Live
  <2>9. Held(utxo, g.keys) = Amount(g.keys)
    <3>1. g.keys \in SUBSET DOMAIN utxo
      BY <1>2, <2>8
    <3> QED  BY <3>1, BaseCollection
  <2>10. e[k] <= SumFunctionOnSet(f, g.keys)
    BY <2>3, <2>5, <2>9 DEF Held
  <2> HIDE DEF e, f, spent
  <2> QED  BY <2>2, <2>8, <2>10
<1>8. \A j, k \in K : j # k => part[j] \cap part[k] = {}
  <2> TAKE j, k \in K
  <2> HAVE j # k
  <2> DEFINE g == CHOOSE o : From(j, o)
             h == CHOOSE o : From(k, o)
  <2>1. g \in Merges /\ Receipt(g, first[g]).key = j
    BY <1>6
  <2>2. h \in Merges /\ Receipt(h, first[h]).key = k
    BY <1>6
  <2>3. part[j] = g.keys /\ part[k] = h.keys
    OBVIOUS
  <2> HIDE DEF g, h, part
  <2>4. g # h
    BY <2>1, <2>2
  <2> QED  BY <2>1, <2>2, <2>3, <2>4, MergesFacts
<1>9. K \in SUBSET DOMAIN u /\ spent \in SUBSET DOMAIN utxo
  BY <1>2 DEF Credited, LiveOf
<1>10. Summable(e, K) /\ Summable(f, spent)
  BY <1>2, <1>3, <1>9, HeldFacts
<1>11. part = [k \in K |-> part[k]]
  OBVIOUS
<1> HIDE DEF K, part, e, f, spent
<1>12. part \in [K -> SUBSET spent]
  BY <1>7, <1>11
<1>13. SumFunctionOnSet(e, K) <= SumFunctionOnSet(f, spent)
  BY <1>7, <1>8, <1>10, <1>12, SumOfParts
<1>14. Held(u, K) <= Held(utxo, spent)
  BY <1>13 DEF Held, e, f
<1>15. Held(utxo, spent) \in Nat /\ Held(utxo, LiveOf(utxo, t)) \in Nat
  BY <1>2, <1>9, HeldFacts
<1>16. Held(u, LiveOf(u, t)) \in Nat
  <2>1. LiveOf(u, t) \in SUBSET DOMAIN u
    BY DEF LiveOf
  <2> QED  BY <1>3, <2>1, HeldFacts
<1>17. Held(u, LiveOf(u, t)) + Held(utxo, spent) <= Held(utxo, LiveOf(utxo, t)) + Held(utxo, spent)
  BY <1>1, <1>2, <1>4, <1>14, <1>15, WritesConserve DEF K
<1> QED  BY <1>15, <1>16, <1>17

----------------------------------------------------------------------------
(* What a transfer pin writes. *)

LEMMA PinFacts ==
  ASSUME Base, MoreTurns
  PROVE  /\ worker.h \in Heights /\ worker.h \in pinned
         /\ Pins \in Nat /\ CurPin \in 1..Pins
         /\ Block.pins[CurPin] \in Pin
         /\ Block.pins[CurPin].tx \in Range(Block.txs)
         /\ Block.pins[CurPin].tx \in Txs /\ MayBlank(Block.pins[CurPin].tx)
<1>1. worker.h \in pinned /\ worker.h \in Heights /\ chain \in Chains
  BY DEF Base, MoreTurns, TypeOK
<1>2. Block.pins \in Seq(Pin)
  BY <1>1, BlockFacts
<1>3. Pins \in Nat /\ DOMAIN Block.pins = 1..Pins
  BY <1>2 DEF Pins
<1>4. worker.turn \in Nat \ {0} /\ worker.turn <= Pins * Pins
  BY DEF Base, MoreTurns, TypeOK, Worker
<1>5. Pins # 0
  <2>1. Pins = 0 => Pins * Pins = 0
    OBVIOUS
  <2> HIDE DEF Pins
  <2> QED  BY <1>4, <2>1
<1>6. CurPin \in 1..Pins
  <2>1. worker.turn - 1 \in Nat
    BY <1>4
  <2>2. \A a \in Nat, n \in Nat \ {0} : (a % n) + 1 \in 1..n
    OBVIOUS
  <2> HIDE DEF Pins
  <2> QED  BY <1>3, <1>5, <2>1, <2>2 DEF CurPin
<1>7. Block.pins[CurPin] \in Pin /\ Block.pins[CurPin].tx \in Range(Block.txs)
  BY <1>1, <1>2, <1>3, <1>6, BlockFacts
<1>8. Block.pins[CurPin].tx \in Txs
  BY <1>1, <1>7, BlockTxs
<1>9. MayBlank(Block.pins[CurPin].tx)
  BY <1>3, <1>6 DEF MayBlank
<1> QED  BY <1>1, <1>3, <1>6, <1>7, <1>8, <1>9

LEMMA InputsFacts ==
  ASSUME NEW pin
  PROVE  /\ Inputs(pin) \in SUBSET Live
         /\ \A k \in Inputs(pin) : k.point \in Ins(pin.tx)
BY DEF Inputs, GetMrc20UtxoByOutPutList

ItemsOf(content, t) == {i \in DOMAIN content : content[i].tick = t}

ItemAmounts(content) == [i \in DOMAIN content |-> content[i].amt]

LEMMA AskedFacts ==
  ASSUME NEW content \in Seq(Item), NEW t
  PROVE  /\ Summable(ItemAmounts(content), ItemsOf(content, t))
         /\ Asked(content, t) = SumFunctionOnSet(ItemAmounts(content), ItemsOf(content, t))
         /\ Asked(content, t) \in Nat
<1> DEFINE S == ItemsOf(content, t)
           e == [i \in S |-> content[i].amt]
           f == ItemAmounts(content)
<1>1. DOMAIN content = 1..Len(content) /\ Len(content) \in Nat
  OBVIOUS
<1>2. IsFiniteSet(DOMAIN content) /\ S \in SUBSET DOMAIN content
  BY <1>1, FS_Interval DEF ItemsOf
<1>3. IsFiniteSet(S)
  BY <1>2, FS_Subset
<1>4. \A i \in S : f[i] \in Nat /\ e[i] = f[i]
  <2>1. \A i \in DOMAIN content : content[i] \in Item
    OBVIOUS
  <2>2. \A i \in Item : i.amt \in Nat
    BY DEF Item
  <2> QED  BY <1>2, <2>1, <2>2 DEF ItemAmounts
<1>5. Asked(content, t) = SumFunctionOnSet(e, S)
  <2>1. DOMAIN e = S
    OBVIOUS
  <2>2. Asked(content, t) = SumFunction(e)
    BY DEF Asked, ItemsOf
  <2> QED  BY <2>1, <2>2, Zenon DEF SumFunction
<1> HIDE DEF S, e, f
<1>6. Summable(f, S)
  BY <1>3, <1>4 DEF Summable
<1>7. SumFunctionOnSet(e, S) = SumFunctionOnSet(f, S) /\ SumFunctionOnSet(f, S) \in Nat
  BY <1>4, <1>6, SumEqual, SumType
<1> QED  BY <1>5, <1>6, <1>7 DEF S, f

LEMMA RemainderFacts ==
  ASSUME Base, NEW pin \in Pin, NEW inputs \in SUBSET Live, Valid(pin, inputs), NEW t
  PROVE  /\ Amount(OfTick(inputs, t)) \in Nat
         /\ Asked(pin.content, t) \in Nat
         /\ Remainder(pin, inputs, t) \in Nat
         /\ Remainder(pin, inputs, t) + Asked(pin.content, t) = Amount(OfTick(inputs, t))
         /\ Remainder(pin, inputs, t) > 0 => t \in {k.tick : k \in inputs}
<1>1. pin.content \in Seq(Item)
  BY DEF Pin
<1>2. Asked(pin.content, t) \in Nat
  BY <1>1, AskedFacts
<1>3. OfTick(inputs, t) \in SUBSET DOMAIN utxo
  BY UtxoFacts DEF OfTick
<1>4. Amount(OfTick(inputs, t)) \in Nat
  BY <1>3, AmountFacts
<1>5. Asked(pin.content, t) <= Amount(OfTick(inputs, t))
  <2>1. CASE ItemsOf(pin.content, t) = {}
    <3>1. Asked(pin.content, t) = SumFunctionOnSet(ItemAmounts(pin.content), {})
      BY <1>1, <2>1, AskedFacts
    <3>2. Asked(pin.content, t) = 0
      BY <3>1, SumEmpty
    <3> QED  BY <1>4, <3>2
  <2>2. CASE ItemsOf(pin.content, t) # {}
    <3>1. PICK i \in DOMAIN pin.content : pin.content[i].tick = t
      BY <2>2 DEF ItemsOf
    <3> QED  BY <3>1 DEF Valid
  <2> QED  BY <2>1, <2>2
<1>6. Remainder(pin, inputs, t) = Amount(OfTick(inputs, t)) - Asked(pin.content, t)
  BY DEF Remainder
<1>7. t \notin {k.tick : k \in inputs} => Amount(OfTick(inputs, t)) = 0
  <2> SUFFICES ASSUME t \notin {k.tick : k \in inputs} PROVE Amount(OfTick(inputs, t)) = 0
    OBVIOUS
  <2>1. OfTick(inputs, t) = {}
    BY DEF OfTick
  <2>2. Amount(OfTick(inputs, t)) = SumFunctionOnSet(Amounts, OfTick(inputs, t))
    BY <1>3, AmountFacts
  <2>3. Amount(OfTick(inputs, t)) = SumFunctionOnSet(Amounts, {})
    BY <2>1, <2>2
  <2> QED  BY <2>3, SumEmpty
<1> QED  BY <1>2, <1>4, <1>5, <1>6, <1>7

(* The ticks with a remainder are finitely many. *)
LEMMA TickList ==
  ASSUME Base, NEW pin \in Pin, NEW inputs \in SUBSET Live, Valid(pin, inputs),
         NEW ticks \in SetToSeqs({t \in Ticks : Remainder(pin, inputs, t) > 0})
  PROVE  /\ ticks \in Seq(Ticks)
         /\ \A j \in DOMAIN ticks : Remainder(pin, inputs, ticks[j]) > 0
         /\ \A i, j \in DOMAIN ticks : ticks[i] = ticks[j] => i = j
<1> DEFINE T == {t \in Ticks : Remainder(pin, inputs, t) > 0}
           f == [k \in inputs |-> k.tick]
           n == Cardinality(T)
<1>1. IsFiniteSet(inputs)
  BY UtxoFacts, FS_Subset
<1>2. IsFiniteSet({f[k] : k \in DOMAIN f}) /\ DOMAIN f = inputs
  <2>1. DOMAIN f = inputs
    OBVIOUS
  <2> HIDE DEF f
  <2> QED  BY <1>1, <2>1, ImageFinite
<1>3. T \in SUBSET {f[k] : k \in DOMAIN f}
  BY RemainderFacts
<1>4. IsFiniteSet(T)
  <2> HIDE DEF T, f
  <2> QED  BY <1>2, <1>3, FS_Subset
<1>5. n \in Nat
  <2> HIDE DEF T
  <2> QED  BY <1>4, FS_CardinalityType
<1>6. ticks \in [1..n -> T] /\ \A i, j \in 1..n : i # j => ticks[i] # ticks[j]
  BY DEF SetToSeqs
<1> HIDE DEF n
<1>7. ticks \in Seq(Ticks) /\ DOMAIN ticks = 1..n
  BY <1>5, <1>6
<1> QED  BY <1>6, <1>7

RemainderCredit(pin, inputs, ticks, j) ==
  Credit(ticks[j], <<pin.tx, FirstUsable(pin.tx)>>, Len(pin.content) + j - 1,
         Remainder(pin, inputs, ticks[j]), pin.tx)

ItemCredit(pin, j) ==
  Credit(pin.content[j].tick, <<pin.tx, pin.content[j].vout>>, j - 1, pin.content[j].amt, pin.tx)

TransferWrite(w, pin, inputs, ticks) ==
  \/ ~w.doc.live /\ w.key \in inputs /\ Marked(w.key, w.doc, pin.tx, Block)
  \/ \E j \in DOMAIN ticks : w = RemainderCredit(pin, inputs, ticks, j)
  \/ \E j \in DOMAIN pin.content : w = ItemCredit(pin, j)

LEMMA RemainderCreditFacts ==
  ASSUME Base, NEW pin \in Pin, NEW inputs \in SUBSET Live, Valid(pin, inputs),
         NEW ticks \in SetToSeqs({t \in Ticks : Remainder(pin, inputs, t) > 0}),
         NEW j \in DOMAIN ticks
  PROVE  /\ RemainderCredit(pin, inputs, ticks, j) \in Write
         /\ RemainderCredit(pin, inputs, ticks, j).doc.live
         /\ RemainderCredit(pin, inputs, ticks, j).doc.verify
         /\ RemainderCredit(pin, inputs, ticks, j).key.tick = ticks[j]
         /\ RemainderCredit(pin, inputs, ticks, j).doc.amt = Remainder(pin, inputs, ticks[j])
<1>1. chain \in Chains
  BY DEF Base
<1>2. pin.tx \in Txs /\ pin.content \in Seq(Item) /\ pin.content # <<>>
  BY DEF Pin, Valid
<1>3. ticks[j] \in Ticks /\ j \in Nat \ {0}
  BY TickList
<1>4. HasUsable(pin.tx)
  <2>1. 1 \in DOMAIN pin.content /\ pin.content[1] \in Item
    BY <1>2
  <2>2. Usable(pin.tx, pin.content[1].vout) /\ pin.content[1].vout \in Nat
    BY <2>1 DEF Valid, Item
  <2> QED  BY <1>1, <1>2, <2>2, UsableIsOutput
<1>5. <<pin.tx, FirstUsable(pin.tx)>> \in Point
  BY <1>2, <1>4, FirstUsableIsOutput, ConstantsAssumption DEF Point
<1>6. Len(pin.content) + j - 1 \in Nat
  BY <1>2, <1>3
<1>7. Remainder(pin, inputs, ticks[j]) \in Nat
  BY RemainderFacts
<1>8. pin.tx \in Txs \cup {NoTx}
  BY <1>2
<1> QED  BY <1>3, <1>5, <1>6, <1>7, <1>8, CreditFacts DEF RemainderCredit

LEMMA ItemCreditFacts ==
  ASSUME Base, NEW pin \in Pin, NEW inputs \in SUBSET Live, Valid(pin, inputs),
         NEW j \in DOMAIN pin.content
  PROVE  /\ ItemCredit(pin, j) \in Write
         /\ ItemCredit(pin, j).doc.live /\ ItemCredit(pin, j).doc.verify
         /\ ItemCredit(pin, j).key.tick = pin.content[j].tick
         /\ ItemCredit(pin, j).doc.amt = pin.content[j].amt
<1>1. chain \in Chains
  BY DEF Base
<1>2. pin.tx \in Txs /\ pin.content \in Seq(Item)
  BY DEF Pin
<1>3. pin.content[j] \in Item /\ j - 1 \in Nat
  BY <1>2
<1>4. /\ pin.content[j].tick \in Ticks /\ pin.content[j].amt \in Nat
      /\ pin.content[j].vout \in Nat
  BY <1>3 DEF Item
<1>5. Usable(pin.tx, pin.content[j].vout)
  BY DEF Valid
<1>6. <<pin.tx, pin.content[j].vout>> \in Point
  BY <1>1, <1>2, <1>4, <1>5, UsableIsOutput, ConstantsAssumption DEF Point
<1>8. pin.tx \in Txs \cup {NoTx}
  BY <1>2
<1> QED  BY <1>3, <1>4, <1>6, <1>8, CreditFacts DEF ItemCredit

LEMMA TransferWritesFacts ==
  ASSUME Base, NEW pin \in Pin, NEW inputs \in SUBSET Live, Valid(pin, inputs),
         NEW ticks \in SetToSeqs({t \in Ticks : Remainder(pin, inputs, t) > 0})
  PROVE  LET list == TransferWrites(pin, inputs, ticks)
         IN  /\ list \in Seq(Write)
             /\ \A w \in Range(list) : w.doc.verify /\ TransferWrite(w, pin, inputs, ticks)
             /\ \A k \in inputs : \E w \in Range(list) : w.key = k
<1> DEFINE spent == SetToSeq(inputs)
           list == TransferWrites(pin, inputs, ticks)
           a == [j \in DOMAIN ticks |-> RemainderCredit(pin, inputs, ticks, j)]
           b == [j \in DOMAIN spent |-> Spend(spent[j], pin.tx)]
           d == [j \in 1..Len(pin.content) |-> ItemCredit(pin, j)]
           Good(w) == w.doc.verify /\ TransferWrite(w, pin, inputs, ticks)
<1>1. list = (a \o b) \o d
  BY DEF TransferWrites, RemainderCredit, ItemCredit
<1>2. pin.tx \in Txs /\ pin.content \in Seq(Item)
  BY DEF Pin
<1>3. a \in Seq(Write) /\ \A w \in Range(a) : Good(w)
  <2>1. ticks \in Seq(Ticks)
    BY TickList
  <2>2. \A j \in DOMAIN ticks : /\ a[j] = RemainderCredit(pin, inputs, ticks, j)
                                /\ a[j] \in Write /\ a[j].doc.verify
    BY RemainderCreditFacts
  <2>3. DOMAIN a = 1..Len(ticks) /\ Len(ticks) \in Nat /\ DOMAIN ticks = 1..Len(ticks)
    BY <2>1
  <2>4. a = [j \in 1..Len(ticks) |-> a[j]]
    BY <2>3
  <2> HIDE DEF a
  <2>5. a \in Seq(Write)
    BY <2>2, <2>3, <2>4
  <2>6. \A w \in Range(a) : Good(w)
    BY <2>2, <2>3 DEF Range, TransferWrite
  <2> QED  BY <2>5, <2>6
<1>4. Marks(b, inputs, pin.tx)
  BY <1>2, SpendMarks
<1>5. d \in Seq(Write) /\ \A w \in Range(d) : Good(w)
  <2>2. \A j \in 1..Len(pin.content) : /\ d[j] = ItemCredit(pin, j)
                                       /\ d[j] \in Write /\ d[j].doc.verify
    BY <1>2, ItemCreditFacts
  <2>3. DOMAIN d = 1..Len(pin.content) /\ Len(pin.content) \in Nat
        /\ DOMAIN pin.content = 1..Len(pin.content)
    BY <1>2
  <2>4. d = [j \in 1..Len(pin.content) |-> d[j]]
    BY <2>3
  <2> HIDE DEF d
  <2>5. d \in Seq(Write)
    BY <2>2, <2>3, <2>4
  <2>6. \A w \in Range(d) : Good(w)
    BY <2>2, <2>3 DEF Range, TransferWrite
  <2> QED  BY <2>5, <2>6
<1>6. b \in Seq(Write)
  BY <1>4 DEF Marks
<1>7. \A w \in Range(b) : Good(w)
  <2> HIDE DEF b
  <2> QED  BY <1>4 DEF Marks, TransferWrite
<1>8. \A k \in inputs : \E w \in Range(b) : w.key = k
  <2> HIDE DEF b
  <2> QED  BY <1>4 DEF Marks
<1> HIDE DEF a, b, d, list, Good
<1>9. a \o b \in Seq(Write) /\ Range(a \o b) = Range(a) \cup Range(b)
  BY <1>3, <1>6, ConcatProperties, RangeConcatenation
<1> DEFINE e == a \o b
<1>14. e \in Seq(Write)
  BY <1>9
<1> HIDE DEF e
<1>15. e \o d \in Seq(Write) /\ Range(e \o d) = Range(e) \cup Range(d)
  BY <1>5, <1>14, ConcatProperties, RangeConcatenation
<1>10. (a \o b) \o d \in Seq(Write) /\ Range((a \o b) \o d) = Range(a \o b) \cup Range(d)
  BY <1>15 DEF e
<1>11. list \in Seq(Write) /\ Range(list) = (Range(a) \cup Range(b)) \cup Range(d)
  BY <1>1, <1>9, <1>10
<1>12. \A w \in Range(list) : Good(w)
  BY <1>3, <1>5, <1>7, <1>11
<1>13. \A k \in inputs : \E w \in Range(list) : w.key = k
  BY <1>8, <1>11
<1> QED  BY <1>11, <1>12, <1>13 DEF list, Good

(* What sendAllAmountToFirstOutput writes. *)
Echo(pin, inputs, t) ==
  Credit(t, <<pin.tx, FirstUsable(pin.tx)>>, 0, Amount(OfTick(inputs, t)), pin.tx)

FallbackWrite(w, pin, inputs) ==
  \/ ~w.doc.live /\ w.key \in inputs /\ Marked(w.key, w.doc, pin.tx, Block)
  \/ \E t \in {k.tick : k \in inputs} : w = Echo(pin, inputs, t)

LEMMA EchoFacts ==
  ASSUME Base, NEW pin \in Pin, HasUsable(pin.tx), NEW inputs \in SUBSET Live, NEW t \in Ticks
  PROVE  /\ Echo(pin, inputs, t) \in Write
         /\ Echo(pin, inputs, t).doc.live /\ Echo(pin, inputs, t).doc.verify
         /\ Echo(pin, inputs, t).key = [tick |-> t, point |-> <<pin.tx, FirstUsable(pin.tx)>>, index |-> 0]
         /\ Echo(pin, inputs, t).doc.amt = Amount(OfTick(inputs, t))
<1>1. pin.tx \in Txs /\ pin.tx \in Txs \cup {NoTx}
  BY DEF Pin
<1>2. <<pin.tx, FirstUsable(pin.tx)>> \in Point
  BY <1>1, FirstUsableIsOutput, ConstantsAssumption DEF Point
<1>3. Amount(OfTick(inputs, t)) \in Nat
  <2>1. OfTick(inputs, t) \in SUBSET DOMAIN utxo
    BY UtxoFacts DEF OfTick
  <2> QED  BY <2>1, AmountFacts
<1>4. Echo(pin, inputs, t).key = [tick |-> t, point |-> <<pin.tx, FirstUsable(pin.tx)>>, index |-> 0]
  BY DEF Echo, Credit
<1> QED  BY <1>1, <1>2, <1>3, <1>4, CreditFacts DEF Echo

LEMMA FallbackWritesFacts ==
  ASSUME Base, NEW pin \in Pin, HasUsable(pin.tx), MayBlank(pin.tx), NEW inputs \in SUBSET Live
  PROVE  /\ FallbackWrites(pin, inputs) \in Seq(Write)
         /\ \A w \in Range(FallbackWrites(pin, inputs)) :
              w.doc.verify /\ FallbackWrite(w, pin, inputs)
<1> DEFINE E == {k \in inputs : utxo[k].amt = 0}
           empty == SetToSeq(E)
           T == {k.tick : k \in inputs}
           ticks == SetToSeq(T)
           n == Cardinality(T)
           list == FallbackWrites(pin, inputs)
           a == [j \in DOMAIN empty |-> Blank(empty[j])]
           b == [j \in DOMAIN ticks |-> Echo(pin, inputs, ticks[j])]
           Good(w) == w.doc.verify /\ FallbackWrite(w, pin, inputs)
<1>1. list = a \o b
  BY DEF FallbackWrites, Echo
<1>2. pin.tx \in Txs
  BY DEF Pin
<1>3. Marks(a, E, pin.tx)
  <2>1. E \in SUBSET Live
    OBVIOUS
  <2> HIDE DEF E
  <2> QED  BY <1>2, <2>1, BlankMarks
<1>4. IsFiniteSet(T) /\ T \subseteq Ticks
  <2> DEFINE f == [k \in inputs |-> k.tick]
  <2>1. T = {f[k] : k \in DOMAIN f} /\ DOMAIN f = inputs
    OBVIOUS
  <2>2. IsFiniteSet(inputs)
    BY UtxoFacts, FS_Subset
  <2>3. T \subseteq Ticks
    BY UtxoFacts DEF Key
  <2> HIDE DEF f, T
  <2> QED  BY <2>1, <2>2, <2>3, ImageFinite
<1> HIDE DEF T
<1>5. n \in Nat /\ ticks \in [1..n -> T]
  BY <1>4, FS_CardinalityType, SetToSeqLists
<1> HIDE DEF n, ticks
<1>6. b \in Seq(Write) /\ \A w \in Range(b) : Good(w)
  <2>1. DOMAIN b = 1..n /\ b = [j \in 1..n |-> b[j]]
    BY <1>5
  <2>2. \A j \in 1..n : ticks[j] \in T /\ b[j] = Echo(pin, inputs, ticks[j])
    BY <1>5
  <2> HIDE DEF b
  <2>3. \A j \in 1..n : b[j] \in Write /\ b[j].doc.verify
    <3> TAKE j \in 1..n
    <3> DEFINE t == ticks[j]
    <3>1. t \in Ticks /\ b[j] = Echo(pin, inputs, t)
      BY <1>4, <2>2
    <3> HIDE DEF t
    <3>2. Echo(pin, inputs, t) \in Write /\ Echo(pin, inputs, t).doc.verify
      BY <3>1, EchoFacts
    <3> QED  BY <3>1, <3>2
  <2>4. b \in Seq(Write)
    BY <1>5, <2>1, <2>3
  <2>5. \A w \in Range(b) : Good(w)
    BY <2>1, <2>2, <2>3 DEF Range, FallbackWrite, T
  <2> QED  BY <2>4, <2>5
<1>7. a \in Seq(Write) /\ \A w \in Range(a) : Good(w)
  <2> HIDE DEF a
  <2> QED  BY <1>3 DEF Marks, FallbackWrite
<1> HIDE DEF a, b, list, Good
<1>8. a \o b \in Seq(Write) /\ Range(a \o b) = Range(a) \cup Range(b)
  BY <1>6, <1>7, ConcatProperties, RangeConcatenation
<1>9. list \in Seq(Write) /\ \A w \in Range(list) : Good(w)
  BY <1>1, <1>6, <1>7, <1>8
<1> QED  BY <1>9 DEF list, Good

LEMMA TransferAccepted ==
  ASSUME Base, NEW pin \in Pin, NEW inputs \in SUBSET Live, Valid(pin, inputs),
         NEW ticks \in SetToSeqs({t \in Ticks : Remainder(pin, inputs, t) > 0})
  PROVE  /\ TransferWrites(pin, inputs, ticks) \in Seq(Write)
         /\ Accepted(utxo, TransferWrites(pin, inputs, ticks))
<1> DEFINE list == TransferWrites(pin, inputs, ticks)
<1>1. list \in Seq(Write) /\ \A w \in Range(list) : w.doc.verify
  BY TransferWritesFacts
<1> HIDE DEF list
<1>2. \A i \in DOMAIN list : list[i].doc.verify
  BY <1>1 DEF Range
<1>3. Accepted(utxo, list)
  BY <1>2 DEF Accepted, Base
<1> QED  BY <1>1, <1>3 DEF list

LEMMA FallbackAccepted ==
  ASSUME Base, NEW pin \in Pin, HasUsable(pin.tx), MayBlank(pin.tx), NEW inputs \in SUBSET Live
  PROVE  /\ FallbackWrites(pin, inputs) \in Seq(Write)
         /\ Accepted(utxo, FallbackWrites(pin, inputs))
<1> DEFINE list == FallbackWrites(pin, inputs)
<1>1. list \in Seq(Write) /\ \A w \in Range(list) : w.doc.verify
  BY FallbackWritesFacts
<1> HIDE DEF list
<1>2. \A i \in DOMAIN list : list[i].doc.verify
  BY <1>1 DEF Range
<1>3. Accepted(utxo, list)
  BY <1>2 DEF Accepted, Base
<1> QED  BY <1>1, <1>3 DEF list

(* A transfer pin credits what its inputs hold, and spends them. *)
LEMMA TransferConserves ==
  ASSUME Base, NEW pin \in Pin, NEW inputs \in SUBSET Live, Valid(pin, inputs),
         NEW ticks \in SetToSeqs({t \in Ticks : Remainder(pin, inputs, t) > 0}), NEW t,
         NEW u, u = Updated(utxo, TransferWrites(pin, inputs, ticks))
  PROVE  Held(u, LiveOf(u, t)) <= Held(utxo, LiveOf(utxo, t))
<1> DEFINE list == TransferWrites(pin, inputs, ticks)
           spent == OfTick(inputs, t)
           K == Credited(utxo, list, t)
           e == [k \in DOMAIN u |-> u[k].amt]
           content == pin.content
           items == ItemsOf(content, t)
           f == [i \in {0} \cup DOMAIN content |->
                   IF i = 0 THEN Remainder(pin, inputs, t) ELSE content[i].amt]
           S == items \cup {0}
           Rest(k) == \E j \in DOMAIN ticks :
                        /\ k = RemainderCredit(pin, inputs, ticks, j).key
                        /\ u[k] = RemainderCredit(pin, inputs, ticks, j).doc
           Part(k, i) == k = ItemCredit(pin, i).key /\ u[k] = ItemCredit(pin, i).doc
           Mine(k, i) == (i = 0 /\ Rest(k)) \/ (i \in items /\ Part(k, i))
           part == [k \in K |-> {CHOOSE i : Mine(k, i)}]
<1>1. /\ list \in Seq(Write) /\ Accepted(utxo, list)
      /\ \A w \in Range(list) : TransferWrite(w, pin, inputs, ticks)
      /\ \A k \in inputs : \E w \in Range(list) : w.key = k
  BY TransferAccepted, TransferWritesFacts
<1>2. Collection(utxo) /\ u = Updated(utxo, list) /\ spent \in SUBSET LiveOf(utxo, t)
      /\ LiveOf(utxo, t) \in SUBSET DOMAIN utxo
  BY BaseCollection DEF LiveOf, OfTick, Live
<1>20. content \in Seq(Item)
  BY DEF Pin
<1> HIDE DEF list
<1>3. Collection(u)
  BY <1>1, <1>2, UpdatedCollection
<1>4. spent \subseteq KeysOf(list)
  BY <1>1, KeysOfFacts DEF OfTick
<1>5. \A k \in K : k \in DOMAIN u /\ k.tick = t /\ \E i : Mine(k, i)
  <2> TAKE k \in K
  <2>1. k \in DOMAIN u /\ k.tick = t /\ u[k].live
    BY <1>2 DEF Credited, LiveOf
  <2>2. PICK w \in Range(list) : w.key = k /\ w.doc = u[k]
    BY <1>2 DEF Credited
  <2>3. TransferWrite(w, pin, inputs, ticks) /\ w.doc.live
    BY <1>1, <2>1, <2>2
  <2>4. CASE \E j \in DOMAIN ticks : w = RemainderCredit(pin, inputs, ticks, j)
    <3>1. Mine(k, 0)
      BY <2>2, <2>4
    <3> HIDE DEF Mine
    <3> QED  BY <2>1, <3>1
  <2>5. CASE \E j \in DOMAIN content : w = ItemCredit(pin, j)
    <3>1. PICK j \in DOMAIN content : w = ItemCredit(pin, j)
      BY <2>5
    <3>2. content[j].tick = t
      BY <2>1, <2>2, <3>1, ItemCreditFacts
    <3>3. Mine(k, j)
      BY <2>2, <3>1, <3>2 DEF ItemsOf
    <3> HIDE DEF Mine
    <3> QED  BY <2>1, <3>3
  <2> QED  BY <2>3, <2>4, <2>5 DEF TransferWrite
<1>6. \A k \in K : Mine(k, (CHOOSE i : Mine(k, i)))
  <2> HIDE DEF Mine
  <2> QED  BY <1>5, Zenon
<1>7. /\ Summable(f, S)
      /\ SumFunctionOnSet(f, S) = Amount(spent)
  <2>1. /\ Summable(ItemAmounts(content), items)
        /\ Asked(content, t) = SumFunctionOnSet(ItemAmounts(content), items)
    BY <1>20, AskedFacts
  <2>2. \A i \in items : f[i] = ItemAmounts(content)[i] /\ i # 0 /\ i \in Nat
    BY <1>20 DEF ItemsOf, ItemAmounts
  <2>3. f[0] = Remainder(pin, inputs, t) /\ f[0] \in Nat
        /\ Remainder(pin, inputs, t) + Asked(content, t) = Amount(spent)
    BY RemainderFacts
  <2> HIDE DEF f, items
  <2>4. SumFunctionOnSet(f, items) = Asked(content, t)
    BY <2>1, <2>2, SumEqual
  <2>5. IsFiniteSet(S) /\ 0 \notin items
    BY <2>1, <2>2, FS_AddElement DEF Summable
  <2>6. \A i \in S : f[i] \in Nat
    BY <2>1, <2>2, <2>3 DEF Summable
  <2>7. Summable(f, S)
    BY <2>5, <2>6 DEF Summable
  <2>8. SumFunctionOnSet(f, items \cup {0}) = f[0] + SumFunctionOnSet(f, items)
    BY <2>5, <2>7, SumAdd
  <2> QED  BY <2>3, <2>4, <2>7, <2>8
<1>8. \A k \in K : /\ part[k] \in SUBSET S
                   /\ e[k] <= SumFunctionOnSet(f, part[k])
  <2> TAKE k \in K
  <2> DEFINE i == CHOOSE i : Mine(k, i)
  <2>1. Mine(k, i)
    BY <1>6
  <2>2. part[k] = {i}
    OBVIOUS
  <2>3. k \in DOMAIN u /\ k.tick = t
    BY <1>5
  <2> HIDE DEF i, part, K
  <2>4. i \in S
    BY <2>1
  <2>5. e[k] = f[i]
    <3>1. CASE i = 0 /\ Rest(k)
      <4>1. PICK j \in DOMAIN ticks : /\ k = RemainderCredit(pin, inputs, ticks, j).key
                                      /\ u[k] = RemainderCredit(pin, inputs, ticks, j).doc
        BY <3>1
      <4>2. ticks[j] = t /\ u[k].amt = Remainder(pin, inputs, ticks[j])
        BY <2>3, <4>1, RemainderCreditFacts
      <4> QED  BY <2>3, <3>1, <4>2
    <3>2. CASE i \in items /\ Part(k, i)
      <4>1. i \in DOMAIN content /\ i # 0
        BY <1>20, <3>2 DEF ItemsOf
      <4>2. u[k].amt = content[i].amt
        BY <3>2, <4>1, ItemCreditFacts
      <4> QED  BY <2>3, <4>1, <4>2
    <3> QED  BY <2>1, <3>1, <3>2
  <2>6. f[i] \in Nat
    BY <1>7, <2>4 DEF Summable
  <2> HIDE DEF f, e, S
  <2>7. SumFunctionOnSet(f, {i}) = f[i]
    BY <2>6, SumOne
  <2>8. e[k] <= SumFunctionOnSet(f, {i})
    BY <2>5, <2>6, <2>7
  <2> QED  BY <2>2, <2>4, <2>8
<1>9. \A j, k \in K : j # k => part[j] \cap part[k] = {}
  <2> SUFFICES ASSUME NEW j \in K, NEW k \in K,
                      (CHOOSE i : Mine(j, i)) = (CHOOSE i : Mine(k, i))
               PROVE  j = k
    OBVIOUS
  <2> DEFINE i == CHOOSE i : Mine(j, i)
  <2>1. Mine(j, i) /\ Mine(k, i)
    <3>1. Mine(j, (CHOOSE o : Mine(j, o))) /\ Mine(k, (CHOOSE o : Mine(k, o)))
      BY <1>6
    <3> HIDE DEF Mine
    <3> QED  BY <3>1
  <2>2. j.tick = t /\ k.tick = t
    BY <1>5
  <2>3. \A o \in items : o # 0
    BY <1>20 DEF ItemsOf
  <2> HIDE DEF i, K
  <2>4. CASE i = 0
    <3>1. Rest(j) /\ Rest(k)
      BY <2>1, <2>3, <2>4
    <3>2. PICK a \in DOMAIN ticks : j = RemainderCredit(pin, inputs, ticks, a).key
      BY <3>1
    <3>3. PICK b \in DOMAIN ticks : k = RemainderCredit(pin, inputs, ticks, b).key
      BY <3>1
    <3>4. ticks[a] = t /\ ticks[b] = t
      BY <2>2, <3>2, <3>3, RemainderCreditFacts
    <3>5. a = b
      BY <3>4, TickList
    <3> QED  BY <3>2, <3>3, <3>5
  <2>5. CASE i # 0
    BY <2>1, <2>5
  <2> QED  BY <2>4, <2>5
<1>10. K \in SUBSET DOMAIN u /\ spent \in SUBSET DOMAIN utxo
  BY <1>2 DEF Credited, LiveOf
<1>11. Summable(e, K)
  BY <1>3, <1>10, HeldFacts
<1>12. part = [k \in K |-> part[k]]
  OBVIOUS
<1> HIDE DEF K, part, e, f, spent, S
<1>13. part \in [K -> SUBSET S]
  BY <1>8, <1>12
<1>14. SumFunctionOnSet(e, K) <= SumFunctionOnSet(f, S)
  BY <1>7, <1>8, <1>9, <1>11, <1>13, SumOfParts
<1>15. Held(u, K) <= Held(utxo, spent)
  <2>1. Held(utxo, spent) = Amount(spent)
    BY <1>10, BaseCollection
  <2> QED  BY <1>7, <1>14, <2>1 DEF Held, e
<1>16. Held(utxo, spent) \in Nat /\ Held(utxo, LiveOf(utxo, t)) \in Nat
  BY <1>2, <1>10, HeldFacts
<1>17. Held(u, LiveOf(u, t)) \in Nat
  <2>1. LiveOf(u, t) \in SUBSET DOMAIN u
    BY DEF LiveOf
  <2> QED  BY <1>3, <2>1, HeldFacts
<1>18. Held(u, LiveOf(u, t)) + Held(utxo, spent) <= Held(utxo, LiveOf(utxo, t)) + Held(utxo, spent)
  BY <1>1, <1>2, <1>4, <1>15, <1>16, WritesConserve DEF K
<1> QED  BY <1>16, <1>17, <1>18

(* What is sent to the first output is all that is added. *)
LEMMA FallbackConserves ==
  ASSUME Base, NEW pin \in Pin, HasUsable(pin.tx), MayBlank(pin.tx), NEW inputs \in SUBSET Live, NEW t,
         NEW u, u = Updated(utxo, FallbackWrites(pin, inputs))
  PROVE  Held(u, LiveOf(u, t)) <= Held(utxo, LiveOf(utxo, t)) + Amount(OfTick(inputs, t))
<1> DEFINE list == FallbackWrites(pin, inputs)
           K == Credited(utxo, list, t)
           e == [k \in DOMAIN u |-> u[k].amt]
           x == [tick |-> t, point |-> <<pin.tx, FirstUsable(pin.tx)>>, index |-> 0]
           b == Amount(OfTick(inputs, t))
<1>1. /\ list \in Seq(Write) /\ Accepted(utxo, list)
      /\ \A w \in Range(list) : FallbackWrite(w, pin, inputs)
  BY FallbackAccepted, FallbackWritesFacts
<1>2. Collection(utxo) /\ u = Updated(utxo, list) /\ LiveOf(utxo, t) \in SUBSET DOMAIN utxo
  BY BaseCollection DEF LiveOf
<1> HIDE DEF list
<1>3. Collection(u)
  BY <1>1, <1>2, UpdatedCollection
<1>4. b \in Nat
  <2>1. OfTick(inputs, t) \in SUBSET DOMAIN utxo
    BY UtxoFacts DEF OfTick
  <2> QED  BY <2>1, AmountFacts
<1>5. \A k \in K : k \in DOMAIN u /\ k = x /\ u[k].amt = b
  <2> TAKE k \in K
  <2>1. k \in DOMAIN u /\ k.tick = t /\ u[k].live
    BY <1>2 DEF Credited, LiveOf
  <2>2. PICK w \in Range(list) : w.key = k /\ w.doc = u[k]
    BY <1>2 DEF Credited
  <2>3. PICK s \in {i.tick : i \in inputs} : w = Echo(pin, inputs, s)
    BY <1>1, <2>1, <2>2 DEF FallbackWrite
  <2>4. s \in Ticks
    BY UtxoFacts DEF Key
  <2>5. /\ w.key = [tick |-> s, point |-> <<pin.tx, FirstUsable(pin.tx)>>, index |-> 0]
        /\ w.doc.amt = Amount(OfTick(inputs, s))
    BY <2>3, <2>4, EchoFacts
  <2>6. s = t
    BY <2>1, <2>2, <2>5
  <2> QED  BY <2>1, <2>2, <2>5, <2>6
<1>6. Held(u, K) <= b
  <2>1. CASE K = {}
    <3>1. Held(u, K) = SumFunctionOnSet(e, {})
      BY <2>1 DEF Held
    <3> QED  BY <1>4, <3>1, SumEmpty
  <2>2. CASE K # {}
    <3> HIDE DEF K, x, b
    <3>1. K = {x} /\ x \in DOMAIN u /\ e[x] = b
      BY <1>5, <2>2
    <3> HIDE DEF e
    <3>2. SumFunctionOnSet(e, {x}) = b
      BY <1>4, <3>1, SumOne
    <3> QED  BY <1>4, <3>1, <3>2 DEF Held, e
  <2> QED  BY <2>1, <2>2
<1> HIDE DEF b, K
<1>7. Held(u, LiveOf(u, t)) + Held(utxo, {}) <= Held(utxo, LiveOf(utxo, t)) + b
  <2>1. {} \in SUBSET LiveOf(utxo, t) /\ {} \subseteq KeysOf(list)
    OBVIOUS
  <2> QED  BY <1>1, <1>2, <1>4, <1>6, <2>1, WritesConserve DEF K
<1>8. Held(utxo, {}) = 0
  BY SumEmpty DEF Held
<1>9. Held(u, LiveOf(u, t)) \in Nat
  <2>1. LiveOf(u, t) \in SUBSET DOMAIN u
    BY DEF LiveOf
  <2> QED  BY <1>3, <2>1, HeldFacts
<1> QED  BY <1>7, <1>8, <1>9 DEF b

----------------------------------------------------------------------------
(* What the mints of a block add. *)

LEMMA InsertedFacts ==
  ASSUME Base, worker.h \in Heights, NEW docs \in Insertable(Block.mints)
  PROVE  /\ docs \in SUBSET [key: Key, doc: {d \in Doc : d.live}]
         /\ IsFiniteSet(docs)
         /\ \A w \in docs : w.key \notin DOMAIN utxo
         /\ DOMAIN Inserted(docs) = {w.key : w \in docs}
         /\ \A w \in docs : Inserted(docs)[w.key] = w.doc
<1>1. /\ Block.mints \subseteq [key: Key, doc: {d \in Doc : d.live}]
      /\ IsFiniteSet(Block.mints)
  BY BlockFacts DEF Base
<1>2. /\ docs \subseteq Block.mints
      /\ \A w \in docs : w.key \notin DOMAIN utxo
      /\ \A v, w \in docs : v.key = w.key => v = w
  BY DEF Insertable
<1>3. IsFiniteSet(docs)
  BY <1>1, <1>2, FS_Subset
<1>4. DOMAIN Inserted(docs) = {w.key : w \in docs}
  BY DEF Inserted
<1>5. ASSUME NEW v \in docs PROVE Inserted(docs)[v.key] = v.doc
  <2> DEFINE c == CHOOSE w \in docs : w.key = v.key
  <2>1. c \in docs /\ c.key = v.key
    OBVIOUS
  <2>2. Inserted(docs)[v.key] = c.doc
    BY DEF Inserted
  <2> HIDE DEF c
  <2>3. c = v
    BY <1>2, <2>1
  <2> QED  BY <2>2, <2>3
<1> QED  BY <1>1, <1>2, <1>3, <1>4, <1>5

(* The collection with these documents beside the others. *)
WithMints(u, docs) ==
  /\ Collection(u)
  /\ DOMAIN u = DOMAIN utxo \cup {w.key : w \in docs}
  /\ \A k \in DOMAIN utxo : u[k] = utxo[k]
  /\ \A w \in docs : u[w.key] = w.doc

LEMMA StoredFacts ==
  ASSUME Base, worker.h \in Heights, NEW docs \in Insertable(Block.mints),
         NEW u, u = Stored(utxo, Inserted(docs))
  PROVE  WithMints(u, docs)
<1> DEFINE new == Inserted(docs)
           keys == {w.key : w \in docs}
<1>1. /\ \A w \in docs : w.key \in Key /\ w.doc \in Doc
      /\ IsFiniteSet(docs)
      /\ \A w \in docs : w.key \notin DOMAIN utxo
      /\ DOMAIN new = keys
      /\ \A w \in docs : new[w.key] = w.doc
  <2>1. \A w \in [key: Key, doc: {d \in Doc : d.live}] : w.key \in Key /\ w.doc \in Doc
    OBVIOUS
  <2> QED  BY <2>1, InsertedFacts
<1>2. Collection(utxo)
  BY BaseCollection
<1> HIDE DEF new
<1>3. u = [k \in DOMAIN utxo \cup keys |-> IF k \in keys THEN new[k] ELSE utxo[k]]
  BY <1>1 DEF Stored, new
<1>4. DOMAIN u = DOMAIN utxo \cup keys /\ u = [k \in DOMAIN u |-> u[k]]
  BY <1>3
<1>5. \A k \in DOMAIN utxo : u[k] = utxo[k]
  BY <1>1, <1>3
<1>6. \A w \in docs : u[w.key] = w.doc
  BY <1>1, <1>3
<1>7. IsFiniteSet(keys)
  <2> DEFINE f == [w \in docs |-> w.key]
  <2>1. keys = {f[w] : w \in DOMAIN f} /\ DOMAIN f = docs
    OBVIOUS
  <2> HIDE DEF f, keys
  <2>2. IsFiniteSet(DOMAIN f)
    BY <1>1, <2>1
  <2> QED  BY <2>1, <2>2, ImageFinite
<1>8. IsFiniteSet(DOMAIN u)
  <2> HIDE DEF keys
  <2>1. IsFiniteSet(DOMAIN utxo)
    BY <1>2 DEF Collection
  <2>2. IsFiniteSet(DOMAIN utxo \cup keys)
    BY <1>7, <2>1, FS_Union
  <2> QED  BY <1>4, <2>2
<1>9. DOMAIN u \subseteq Key /\ \A k \in DOMAIN u : u[k] \in Doc
  BY <1>1, <1>2, <1>4, <1>5, <1>6 DEF Collection
<1>10. Collection(u)
  BY <1>4, <1>8, <1>9 DEF Collection
<1> QED  BY <1>4, <1>5, <1>6, <1>10 DEF WithMints

MintAmounts(docs, t) == [w \in Verified(docs, t) |-> w.doc.amt]

LEMMA MintAmountsFacts ==
  ASSUME Base, worker.h \in Heights, NEW docs \in Insertable(Block.mints), NEW t
  PROVE  /\ Summable(MintAmounts(docs, t), Verified(docs, t))
         /\ SumFunction(MintAmounts(docs, t))
              = SumFunctionOnSet(MintAmounts(docs, t), Verified(docs, t))
         /\ SumFunction(MintAmounts(docs, t)) \in Nat
<1> DEFINE V == Verified(docs, t)
           f == MintAmounts(docs, t)
<1>1. V \in SUBSET docs /\ IsFiniteSet(docs)
  BY InsertedFacts DEF Verified
<1>2. \A w \in docs : w.doc.amt \in Nat
  <2>1. \A w \in [key: Key, doc: {d \in Doc : d.live}] : w.doc.amt \in Nat
    BY DEF Doc
  <2> QED  BY <2>1, InsertedFacts
<1>3. \A w \in V : f[w] \in Nat
  BY <1>1, <1>2 DEF MintAmounts
<1>4. DOMAIN f = V
  BY DEF MintAmounts
<1> HIDE DEF V, f
<1>5. Summable(f, V)
  BY <1>1, <1>3, FS_Subset DEF Summable
<1>6. SumFunction(f) = SumFunctionOnSet(f, V)
  BY <1>4, Zenon DEF SumFunction
<1>7. SumFunctionOnSet(f, V) \in Nat
  BY <1>5, SumType
<1> QED  BY <1>5, <1>6, <1>7 DEF V, f

LEMMA MintsAdd ==
  ASSUME Base, worker.h \in Heights, NEW docs \in Insertable(Block.mints), NEW t,
         NEW u, u = Stored(utxo, Inserted(docs))
  PROVE  Held(u, LiveOf(u, t))
           <= Held(utxo, LiveOf(utxo, t)) + SumFunction(MintAmounts(docs, t))
<1>1. /\ Collection(u)
      /\ DOMAIN u = DOMAIN utxo \cup {w.key : w \in docs}
      /\ \A k \in DOMAIN utxo : u[k] = utxo[k]
      /\ \A w \in docs : u[w.key] = w.doc
  <2>1. WithMints(u, docs)
    BY StoredFacts
  <2> QED  BY <2>1 DEF WithMints
<1> DEFINE e == [k \in DOMAIN u |-> u[k].amt]
           f == [k \in DOMAIN utxo |-> utxo[k].amt]
           m == MintAmounts(docs, t)
           V == Verified(docs, t)
           old == LiveOf(utxo, t)
           new == {w.key : w \in V}
           S == LiveOf(u, t)
           Of(k) == CHOOSE w : w \in V /\ w.key = k
           part == [k \in new |-> {Of(k)}]
<1>2. Collection(utxo) /\ old \in SUBSET DOMAIN utxo
  BY BaseCollection DEF LiveOf
<1>3. \A w \in docs : w.key \notin DOMAIN utxo
  BY InsertedFacts
<1>4. /\ Summable(m, V)
      /\ SumFunction(m) = SumFunctionOnSet(m, V)
      /\ SumFunction(m) \in Nat
  BY MintAmountsFacts
<1>5. \A k \in S : k \in old \cup new
  <2> TAKE k \in S
  <2>1. CASE k \in DOMAIN utxo
    BY <1>1, <2>1 DEF LiveOf
  <2>2. CASE k \notin DOMAIN utxo
    <3>1. PICK w \in docs : w.key = k
      BY <1>1, <2>2 DEF LiveOf
    <3>2. w \in V
      BY <1>1, <3>1 DEF LiveOf, Verified
    <3> QED  BY <3>1, <3>2
  <2> QED  BY <2>1, <2>2
<1>6. old \cup new \in SUBSET DOMAIN u /\ old \cap new = {}
  BY <1>1, <1>2, <1>3 DEF Verified
<1>7. \A k \in old : e[k] = f[k]
  BY <1>1, <1>2
<1>8. \A k \in new : Of(k) \in V /\ Of(k).key = k
  OBVIOUS
<1>9. \A k \in new : e[k] = m[Of(k)]
  <2> TAKE k \in new
  <2>1. Of(k) \in V /\ Of(k).key = k /\ k \in DOMAIN u
    BY <1>6, <1>8
  <2>2. u[k] = Of(k).doc
    BY <1>1, <2>1 DEF Verified
  <2> QED  BY <2>1, <2>2 DEF MintAmounts
<1>10. part = [k \in new |-> part[k]] /\ \A k \in new : part[k] = {Of(k)}
  OBVIOUS
<1>11. \A j, k \in new : j # k => part[j] \cap part[k] = {}
  BY <1>8
<1> HIDE DEF e, f, m, V, old, new, S, Of, part
<1>12. part \in [new -> SUBSET V]
  BY <1>8, <1>10
<1>13. \A k \in new : e[k] <= SumFunctionOnSet(m, part[k])
  <2> TAKE k \in new
  <2>1. m[Of(k)] \in Nat
    BY <1>4, <1>8 DEF Summable
  <2>2. SumFunctionOnSet(m, {Of(k)}) = m[Of(k)]
    BY <2>1, SumOne
  <2> QED  BY <1>9, <1>10, <2>1, <2>2
<1>14. Summable(e, old \cup new)
  BY <1>1, <1>6, HeldFacts DEF e
<1>15. Summable(e, old) /\ Summable(e, new)
  <2>1. old \in SUBSET (old \cup new) /\ new \in SUBSET (old \cup new)
    OBVIOUS
  <2> QED  BY <1>14, <2>1, SumSubset
<1>16. SumFunctionOnSet(e, new) <= SumFunctionOnSet(m, V)
  BY <1>4, <1>11, <1>12, <1>13, <1>15, SumOfParts
<1>17. SumFunctionOnSet(e, old \cup new) = SumFunctionOnSet(e, old) + SumFunctionOnSet(e, new)
  BY <1>6, <1>15, SumUnion
<1>18. S \in SUBSET (old \cup new)
  BY <1>5
<1>19. SumFunctionOnSet(e, S) <= SumFunctionOnSet(e, old \cup new)
  BY <1>14, <1>18, SumSubset
<1>20. Summable(f, old)
  BY <1>2, HeldFacts DEF f
<1>21. SumFunctionOnSet(e, old) = SumFunctionOnSet(f, old)
  BY <1>7, <1>20, SumEqual
<1>22. Summable(e, S)
  BY <1>14, <1>18, SumSubset
<1>23. /\ SumFunctionOnSet(e, S) \in Nat /\ SumFunctionOnSet(e, new) \in Nat
       /\ SumFunctionOnSet(f, old) \in Nat /\ SumFunctionOnSet(e, old \cup new) \in Nat
  BY <1>14, <1>15, <1>20, <1>22, SumType
<1>24. SumFunctionOnSet(e, S) <= SumFunctionOnSet(f, old) + SumFunction(m)
  BY <1>4, <1>16, <1>17, <1>19, <1>21, <1>23
<1> QED  BY <1>24 DEF Held, e, f, S, old, m

----------------------------------------------------------------------------
(* Every step keeps Base, and changes documents in three ways only.        *)

Spender(k, d) == \E tx \in Range(Block.txs) : k.point \in Ins(tx) /\ Marked(k, d, tx, Block)

Changes(u) ==
  \A k \in DOMAIN u :
    \/ k \in DOMAIN utxo /\ u[k] = utxo[k]
    \/ u[k].live
    \/ worker.h \in pinned /\ Spender(k, u[k])

LEMMA ChangedBy ==
  ASSUME Base, worker.h \in pinned, NEW list \in Seq(Write), Accepted(utxo, list),
         NEW u, u = Updated(utxo, list),
         \A w \in Range(list) : w.doc.live \/ Spender(w.key, w.doc)
  PROVE  Changes(u)
<1> SUFFICES ASSUME NEW k \in DOMAIN u
             PROVE  \/ k \in DOMAIN utxo /\ u[k] = utxo[k]
                    \/ u[k].live
                    \/ worker.h \in pinned /\ Spender(k, u[k])
  BY DEF Changes
<1>1. \/ k \in DOMAIN utxo /\ u[k] = utxo[k]
      \/ \E w \in Range(list) : w.key = k /\ w.doc = u[k]
  BY UpdatedCases
<1> QED  BY <1>1

LEMMA NativeChanges ==
  ASSUME Base, worker.h \in pinned, NEW first, Chosen(first), NEW order \in Orders,
         NEW u, u = Updated(utxo, NativeWrites(first, order))
  PROVE  Collection(u) /\ Changes(u)
<1> DEFINE list == NativeWrites(first, order)
<1>1. worker.h \in Heights
  BY DEF Base, TypeOK
<1>2. /\ list \in Seq(Write) /\ Accepted(utxo, list)
      /\ \A w \in Range(list) : NativeWrite(w, first)
  BY <1>1, NativeAccepted, NativeWritesFacts
<1>3. \A g \in Merges : Receipt(g, first[g]).doc.live
  BY <1>1, ChosenFacts, ReceiptFacts
<1> HIDE DEF list
<1>4. \A w \in Range(list) : w.doc.live \/ Spender(w.key, w.doc)
  BY <1>2, <1>3 DEF NativeWrite, Spender, Movers
<1>5. Changes(u)
  BY <1>2, <1>4, ChangedBy DEF list
<1>6. Collection(u)
  BY <1>2, BaseCollection, UpdatedCollection DEF list
<1> QED  BY <1>5, <1>6

LEMMA TransferChanges ==
  ASSUME Base, MoreTurns, NEW pin, pin = Block.pins[CurPin], Valid(pin, Inputs(pin)),
         NEW ticks \in SetToSeqs({t \in Ticks : Remainder(pin, Inputs(pin), t) > 0}),
         NEW u, u = Updated(utxo, TransferWrites(pin, Inputs(pin), ticks))
  PROVE  Collection(u) /\ Changes(u)
<1> DEFINE inputs == Inputs(pin)
           list == TransferWrites(pin, inputs, ticks)
<1>1. pin \in Pin /\ pin.tx \in Range(Block.txs) /\ worker.h \in pinned /\ MayBlank(pin.tx)
  BY PinFacts
<1>2. inputs \in SUBSET Live /\ \A k \in inputs : k.point \in Ins(pin.tx)
  BY InputsFacts
<1>3. /\ list \in Seq(Write) /\ Accepted(utxo, list)
      /\ \A w \in Range(list) : TransferWrite(w, pin, inputs, ticks)
  BY <1>1, <1>2, TransferAccepted, TransferWritesFacts
<1>4. \A w \in Range(list) : w.doc.live \/ Spender(w.key, w.doc)
  <2> TAKE w \in Range(list)
  <2>1. CASE ~w.doc.live /\ w.key \in inputs /\ Marked(w.key, w.doc, pin.tx, Block)
    BY <1>1, <1>2, <2>1 DEF Spender
  <2>2. CASE \E j \in DOMAIN ticks : w = RemainderCredit(pin, inputs, ticks, j)
    BY <1>1, <1>2, <2>2, RemainderCreditFacts
  <2>3. CASE \E j \in DOMAIN pin.content : w = ItemCredit(pin, j)
    BY <1>1, <1>2, <2>3, ItemCreditFacts
  <2> QED  BY <1>3, <2>1, <2>2, <2>3 DEF TransferWrite
<1> HIDE DEF list
<1>5. Changes(u)
  BY <1>1, <1>3, <1>4, ChangedBy DEF list
<1>6. Collection(u)
  BY <1>3, BaseCollection, UpdatedCollection DEF list
<1> QED  BY <1>5, <1>6

LEMMA FallbackChanges ==
  ASSUME Base, MoreTurns, NEW pin, pin = Block.pins[CurPin], HasUsable(pin.tx),
         NEW u, u = Updated(utxo, FallbackWrites(pin, Inputs(pin)))
  PROVE  Collection(u) /\ Changes(u)
<1> DEFINE inputs == Inputs(pin)
           list == FallbackWrites(pin, inputs)
<1>1. pin \in Pin /\ pin.tx \in Range(Block.txs) /\ worker.h \in pinned /\ MayBlank(pin.tx)
  BY PinFacts
<1>2. inputs \in SUBSET Live /\ \A k \in inputs : k.point \in Ins(pin.tx)
  BY InputsFacts
<1>3. /\ list \in Seq(Write) /\ Accepted(utxo, list)
      /\ \A w \in Range(list) : FallbackWrite(w, pin, inputs)
  BY <1>1, <1>2, FallbackAccepted, FallbackWritesFacts
<1>4. \A w \in Range(list) : w.doc.live \/ Spender(w.key, w.doc)
  <2> TAKE w \in Range(list)
  <2>1. CASE ~w.doc.live /\ w.key \in inputs /\ Marked(w.key, w.doc, pin.tx, Block)
    BY <1>1, <1>2, <2>1 DEF Spender
  <2>2. CASE \E t \in {k.tick : k \in inputs} : w = Echo(pin, inputs, t)
    <3>1. {k.tick : k \in inputs} \subseteq Ticks
      BY <1>2, UtxoFacts DEF Key
    <3> QED  BY <1>1, <1>2, <2>2, <3>1, EchoFacts
  <2> QED  BY <1>3, <2>1, <2>2 DEF FallbackWrite
<1> HIDE DEF list
<1>5. Changes(u)
  BY <1>1, <1>3, <1>4, ChangedBy DEF list
<1>6. Collection(u)
  BY <1>3, BaseCollection, UpdatedCollection DEF list
<1> QED  BY <1>5, <1>6

LEMMA MintChanges ==
  ASSUME Base, worker.h \in Heights, NEW docs \in Insertable(Block.mints),
         NEW u, u = Stored(utxo, Inserted(docs))
  PROVE  Collection(u) /\ Changes(u)
<1>1. WithMints(u, docs)
  BY StoredFacts
<1>2. \A w \in docs : w.doc.live
  <2>1. docs \in SUBSET [key: Key, doc: {d \in Doc : d.live}]
    BY InsertedFacts
  <2>2. \A w \in [key: Key, doc: {d \in Doc : d.live}] : w.doc.live
    OBVIOUS
  <2> QED  BY <2>1, <2>2
<1>3. Changes(u)
  BY <1>1, <1>2 DEF Changes, WithMints
<1> QED  BY <1>1, <1>3 DEF WithMints

(* What is asked of a step that keeps Base. *)
LEMMA BaseKept ==
  ASSUME chain \in Chains, chain' = chain,
         maxHeight' \in 0..Tip, pinned' \subseteq Heights, worker' \in Worker,
         handled' \subseteq Heights, reruns' \in 0..MaxReruns,
         minted' \in [Ticks -> Nat], echoed' \in [Ticks -> Nat],
         Collection(utxo'),
         worker'.pc # "idle" => worker'.h \in pinned',
         worker'.pc \in {"idle", "mint", "native1"} => worker'.list = <<>>,
         \A i \in DOMAIN worker'.list : worker'.list[i].doc.verify,
         Updated(utxo', worker'.list) = utxo'
  PROVE  Base'
<1>1. chain \in Chain
  BY ConstantsAssumption
<1>2. TypeOK'
  BY <1>1 DEF TypeOK, Collection
<1> QED  BY <1>2 DEF Base, Collection

(* A transfer pin has its result. *)
LEMMA RecordKeeps ==
  ASSUME Base, MoreTurns, NEW writes \in Seq(Write), Accepted(utxo, writes),
         Collection(Updated(utxo, writes)), Record(writes),
         UNCHANGED <<chain, maxHeight, pinned, handled, reruns>>,
         minted' \in [Ticks -> Nat], echoed' \in [Ticks -> Nat]
  PROVE  Base' /\ utxo' = Updated(utxo, writes)
<1> DEFINE list == worker.list
           all == list \o writes
<1>1. /\ worker \in Worker /\ worker.list \in Seq(Write) /\ worker.turn \in Nat \ {0}
      /\ worker.done \in SUBSET Nat
  BY DEF Base, TypeOK, Worker
<1>2. Accepted(utxo, list) /\ Updated(utxo, list) = utxo
  BY DEF Base, Accepted
<1>3. all \in Seq(Write)
  BY <1>1
<1>4. Accepted(utxo, all) /\ Updated(utxo, all) = Updated(utxo, writes)
  BY <1>1, <1>2, WrittenBefore
<1> HIDE DEF all
<1>5. utxo' = Updated(utxo, all) /\ utxo' = Updated(utxo, writes)
  BY <1>4 DEF Record, UpdateMrc20Utxo, all
<1>6. Updated(utxo', all) = utxo'
  BY <1>3, <1>4, <1>5, WrittenAgain
<1>7. \A i \in DOMAIN all : all[i].doc.verify
  BY <1>4 DEF Accepted
<1>8. worker' = [worker EXCEPT !.turn = @ + 1, !.list = all, !.done = @ \cup {CurPin}]
  BY DEF Record, all
<1>9. CurPin \in Nat
  BY PinFacts
<1>10. /\ worker' \in Worker /\ worker'.list = all /\ worker'.h = worker.h
       /\ worker'.pc = "transfer"
  <2>1. worker' = [pc |-> worker.pc, h |-> worker.h, turn |-> worker.turn + 1,
                   list |-> all, done |-> worker.done \cup {CurPin}, again |-> worker.again]
    BY <1>1, <1>8 DEF Worker
  <2>2. worker.turn + 1 \in Nat \ {0} /\ worker.done \cup {CurPin} \in SUBSET Nat
    BY <1>1, <1>9
  <2>3. worker.pc = "transfer" /\ worker.h \in 0..Tip /\ worker.again \in BOOLEAN
    BY <1>1 DEF Worker, MoreTurns
  <2> DEFINE n == worker.turn + 1
             d == worker.done \cup {CurPin}
  <2> HIDE DEF n, d
  <2>4. [pc |-> worker.pc, h |-> worker.h, turn |-> n, list |-> all, done |-> d, again |-> worker.again]
          \in Worker
    BY <1>3, <2>2, <2>3 DEF Worker, n, d
  <2> QED  BY <2>1, <2>3, <2>4 DEF n, d
<1>11. worker.h \in pinned
  BY PinFacts
<1>12. /\ chain \in Chains /\ maxHeight \in 0..Tip /\ pinned \subseteq Heights
       /\ handled \subseteq Heights /\ reruns \in 0..MaxReruns
  BY DEF Base, TypeOK
<1>13. Collection(utxo')
  BY <1>5
<1>14. Base'
  BY <1>6, <1>7, <1>10, <1>11, <1>12, <1>13, BaseKept
<1> QED  BY <1>5, <1>14

LEMMA UnchangedDocs ==
  ASSUME Base
  PROVE  Collection(utxo) /\ Changes(utxo)
BY BaseCollection DEF Changes

LEMMA InitBase ==
  Init => Base
<1> SUFFICES ASSUME Init PROVE Base
  OBVIOUS
<1>1. chain \in Chain /\ chain \in Chains /\ 0 \in Nat /\ Tip \in Nat /\ MaxReruns \in Nat
  BY ConstantsAssumption DEF Init
<1>2. DOMAIN utxo = {} /\ utxo = [k \in DOMAIN utxo |-> utxo[k]] /\ worker.list = <<>>
  BY DEF Init, Idle
<1>3. Updated(utxo, worker.list) = utxo
  BY <1>2, UpdatedEmpty
<1>4. Idle \in Worker
  <2>1. <<>> \in Seq(Write) /\ {} \in SUBSET Nat /\ 1 \in Nat \ {0} /\ 0 \in 0..Tip
    BY <1>1
  <2> QED  BY <2>1 DEF Idle, Worker
<1>5. TypeOK
  BY <1>1, <1>2, <1>4 DEF Init, TypeOK
<1>6. worker.pc = "idle" /\ DOMAIN worker.list = {}
  BY DEF Init, Idle
<1> QED  BY <1>1, <1>2, <1>3, <1>5, <1>6, FS_EmptySet DEF Base

(* A step that leaves mrc20utxos alone: the worker keeps its list or has none. *)
LEMMA QuietStep ==
  ASSUME Base, chain' = chain, utxo' = utxo, minted' = minted, echoed' = echoed,
         maxHeight' \in 0..Tip, pinned' \subseteq Heights, worker' \in Worker,
         handled' \subseteq Heights, reruns' \in 0..MaxReruns,
         worker'.pc # "idle" => worker'.h \in pinned',
         \/ worker'.list = <<>>
         \/ worker'.list = worker.list /\ worker'.pc \notin {"idle", "mint", "native1"}
  PROVE  Base'
<1>1. /\ chain \in Chains /\ minted \in [Ticks -> Nat] /\ echoed \in [Ticks -> Nat]
      /\ Updated(utxo, worker.list) = utxo /\ Collection(utxo)
      /\ utxo = [k \in DOMAIN utxo |-> utxo[k]]
  BY BaseCollection DEF Base, TypeOK
<1>2. CASE worker'.list = <<>>
  <2>1. Updated(utxo', worker'.list) = utxo'
    BY <1>1, <1>2, UpdatedEmpty
  <2>2. DOMAIN worker'.list = {}
    BY <1>2
  <2> QED  BY <1>1, <1>2, <2>1, <2>2, BaseKept
<1>3. CASE worker'.list = worker.list /\ worker'.pc \notin {"idle", "mint", "native1"}
  <2>1. \A i \in DOMAIN worker'.list : worker'.list[i].doc.verify
    BY <1>3 DEF Base
  <2>2. Updated(utxo', worker'.list) = utxo'
    BY <1>1, <1>3
  <2> QED  BY <1>1, <1>3, <2>1, <2>2, BaseKept
<1> QED  BY <1>2, <1>3

LEMMA WorkerTyped ==
  ASSUME Base
  PROVE  /\ worker \in Worker /\ Idle \in Worker /\ Idle.list = <<>> /\ Idle.pc = "idle"
         /\ worker.list \in Seq(Write) /\ worker.turn \in Nat \ {0}
         /\ worker.pc # "idle" => worker.h \in Heights /\ worker.h \in pinned
<1>1. worker \in Worker /\ pinned \subseteq Heights
  BY DEF Base, TypeOK
<1>2. <<>> \in Seq(Write) /\ {} \in SUBSET Nat /\ 1 \in Nat \ {0} /\ 0 \in 0..Tip
  BY ConstantsAssumption
<1>3. Idle \in Worker /\ Idle.list = <<>> /\ Idle.pc = "idle"
  BY <1>2 DEF Idle, Worker
<1> QED  BY <1>1, <1>3 DEF Base, Worker

LEMMA StartBase ==
  ASSUME Base, NEW h \in Heights, StartBlock(h), chain' = chain,
         maxHeight' \in 0..Tip, reruns' \in 0..MaxReruns
  PROVE  Base'
<1>1. worker' = [pc |-> "mint", h |-> h, turn |-> 1, list |-> <<>>, done |-> {},
                 again |-> (h \in handled)]
  BY DEF StartBlock, Idle
<1>2. h \in 0..Tip /\ <<>> \in Seq(Write) /\ {} \in SUBSET Nat /\ 1 \in Nat \ {0}
      /\ (h \in handled) \in BOOLEAN
  BY ConstantsAssumption DEF Heights
<1>3. worker' \in Worker
  BY <1>1, <1>2 DEF Worker
<1>4. worker'.list = <<>> /\ worker'.h = h
  BY <1>1
<1>5. utxo' = utxo /\ minted' = minted /\ echoed' = echoed /\ handled' \subseteq Heights
      /\ pinned' \subseteq Heights /\ h \in pinned'
  BY DEF StartBlock, Base, TypeOK
<1> QED  BY <1>3, <1>4, <1>5, QuietStep

(* What a step adds to the live documents is counted as minted or echoed. *)
Counted ==
  \A t \in Ticks :
    Held(utxo', LiveOf(utxo', t)) + (minted[t] + echoed[t])
      <= Held(utxo, LiveOf(utxo, t)) + (minted'[t] + echoed'[t])

Sound == Base' /\ Changes(utxo') /\ pinned \subseteq pinned' /\ Counted

LEMMA Amounted ==
  ASSUME Base
  PROVE  \A t \in Ticks : /\ Held(utxo, LiveOf(utxo, t)) \in Nat
                          /\ minted[t] \in Nat /\ echoed[t] \in Nat
<1>1. \A t \in Ticks : LiveOf(utxo, t) \in SUBSET DOMAIN utxo
  BY DEF LiveOf
<1>2. Collection(utxo)
  BY BaseCollection
<1>3. \A t \in Ticks : Held(utxo, LiveOf(utxo, t)) \in Nat
  BY <1>1, <1>2, HeldFacts
<1> QED  BY <1>3 DEF Base, TypeOK

LEMMA QuietSound ==
  ASSUME Base, Base', utxo' = utxo, minted' = minted, echoed' = echoed, pinned \subseteq pinned'
  PROVE  Sound
<1>1. Counted
  <2> SUFFICES ASSUME NEW t \in Ticks
               PROVE  Held(utxo, LiveOf(utxo, t)) + (minted[t] + echoed[t])
                        <= Held(utxo, LiveOf(utxo, t)) + (minted[t] + echoed[t])
    BY DEF Counted
  <2>1. /\ Held(utxo, LiveOf(utxo, t)) \in Nat
        /\ minted[t] \in Nat /\ echoed[t] \in Nat
    BY Amounted
  <2> QED  BY <2>1
<1>2. Changes(utxo')
  BY UnchangedDocs
<1> QED  BY <1>1, <1>2 DEF Sound

LEMMA AdvanceSound ==
  ASSUME Base, Advance, chain' = chain
  PROVE  Sound
<1>1. maxHeight \in 0..Tip /\ reruns \in 0..MaxReruns /\ Tip \in Nat
  BY ConstantsAssumption DEF Base, TypeOK
<1>2. /\ maxHeight + 1 \in Heights /\ maxHeight' = maxHeight + 1 /\ maxHeight' \in 0..Tip
      /\ StartBlock(maxHeight + 1) /\ reruns' \in 0..MaxReruns
  BY <1>1 DEF Advance, Heights
<1>3. Base'
  BY <1>2, StartBase
<1> QED  BY <1>2, <1>3, QuietSound DEF StartBlock

LEMMA ReindexSound ==
  ASSUME Base, NEW h \in Heights, Reindex(h), chain' = chain
  PROVE  Sound
<1>1. maxHeight' \in 0..Tip /\ reruns' \in 0..MaxReruns /\ StartBlock(h)
  BY ConstantsAssumption DEF Base, TypeOK, Reindex
<1>2. Base'
  BY <1>1, StartBase
<1> QED  BY <1>1, <1>2, QuietSound DEF StartBlock

LEMMA FetchFailsSound ==
  ASSUME Base, FetchFails, chain' = chain
  PROVE  Sound
<1>1. /\ utxo' = utxo /\ minted' = minted /\ echoed' = echoed /\ pinned' = pinned
      /\ worker' = worker /\ handled' = handled /\ reruns' = reruns /\ worker.pc = "idle"
  BY DEF FetchFails
<1>2. /\ maxHeight' \in 0..Tip /\ pinned \subseteq Heights /\ handled \subseteq Heights
      /\ reruns \in 0..MaxReruns
  BY ConstantsAssumption DEF Base, TypeOK, FetchFails
<1>3. worker \in Worker /\ worker.list = <<>>
  BY <1>1, WorkerTyped DEF Base
<1>4. Base'
  BY <1>1, <1>2, <1>3, QuietStep
<1> QED  BY <1>1, <1>4, QuietSound

LEMMA CrashSound ==
  ASSUME Base, Crash, chain' = chain
  PROVE  Sound
<1>1. /\ utxo' = utxo /\ minted' = minted /\ echoed' = echoed /\ pinned' = pinned
      /\ worker' = Idle /\ handled' = handled /\ reruns' = reruns
  BY DEF Crash
<1>2. /\ maxHeight' \in 0..Tip /\ pinned \subseteq Heights /\ handled \subseteq Heights
      /\ reruns \in 0..MaxReruns
  BY ConstantsAssumption DEF Base, TypeOK, Crash, Heights
<1>3. Idle \in Worker /\ Idle.list = <<>> /\ Idle.pc = "idle"
  BY WorkerTyped
<1>4. Base'
  BY <1>1, <1>2, <1>3, QuietStep
<1> QED  BY <1>1, <1>4, QuietSound

LEMMA StoreMintsSound ==
  ASSUME Base, StoreMints, chain' = chain
  PROVE  Sound
<1>1. worker.h \in Heights /\ worker.h \in pinned /\ worker \in Worker /\ worker.list = <<>>
  BY WorkerTyped DEF StoreMints, Base
<1>2. PICK docs \in Insertable(Block.mints) :
        /\ utxo' = Stored(utxo, Inserted(docs))
        /\ minted' = [t \in Ticks |-> minted[t] + SumFunction(MintAmounts(docs, t))]
  BY DEF StoreMints, MintAmounts
<1>3. Collection(utxo') /\ Changes(utxo')
  BY <1>1, <1>2, MintChanges
<1>4. \A t \in Ticks : SumFunction(MintAmounts(docs, t)) \in Nat
  BY <1>1, MintAmountsFacts
<1>5. minted' \in [Ticks -> Nat]
  BY <1>2, <1>4, Amounted
<1>6. /\ worker' = [worker EXCEPT !.pc = "native1"] /\ maxHeight' = maxHeight /\ pinned' = pinned
      /\ handled' = handled /\ reruns' = reruns /\ echoed' = echoed
  BY DEF StoreMints
<1>7. worker' \in Worker /\ worker'.list = <<>> /\ worker'.h = worker.h
  BY <1>1, <1>6 DEF Worker
<1>8. /\ chain \in Chains /\ maxHeight \in 0..Tip /\ pinned \subseteq Heights
      /\ handled \subseteq Heights /\ reruns \in 0..MaxReruns /\ echoed \in [Ticks -> Nat]
  BY DEF Base, TypeOK
<1>9. Updated(utxo', worker'.list) = utxo' /\ DOMAIN worker'.list = {}
  BY <1>3, <1>7, UpdatedEmpty DEF Collection
<1>10. Base'
  BY <1>1, <1>3, <1>5, <1>6, <1>7, <1>8, <1>9, BaseKept
<1>11. Counted
  <2> SUFFICES ASSUME NEW t \in Ticks
               PROVE  Held(utxo', LiveOf(utxo', t)) + (minted[t] + echoed[t])
                        <= Held(utxo, LiveOf(utxo, t)) + (minted'[t] + echoed'[t])
    BY DEF Counted
  <2> DEFINE a == Held(utxo', LiveOf(utxo', t))
             b == Held(utxo, LiveOf(utxo, t))
             m == SumFunction(MintAmounts(docs, t))
  <2>1. a <= b + m
    BY <1>1, <1>2, MintsAdd
  <2>2. a \in Nat
    <3>1. LiveOf(utxo', t) \in SUBSET DOMAIN utxo'
      BY DEF LiveOf
    <3> QED  BY <1>3, <3>1, HeldFacts
  <2>3. b \in Nat /\ minted[t] \in Nat /\ echoed[t] \in Nat /\ m \in Nat
    BY <1>4, Amounted
  <2>4. minted'[t] = minted[t] + m /\ echoed'[t] = echoed[t]
    BY <1>2, <1>6
  <2> HIDE DEF a, b, m
  <2>5. a + (minted[t] + echoed[t]) <= b + (minted'[t] + echoed'[t])
    BY <2>1, <2>2, <2>3, <2>4
  <2> QED  BY <2>5 DEF a, b
<1> QED  BY <1>3, <1>6, <1>10, <1>11 DEF Sound

(* The sums alone, for a step that neither mints nor echoes. *)
LEMMA CountedQuietly ==
  ASSUME Base, Collection(utxo'), minted' = minted, echoed' = echoed,
         \A t \in Ticks : Held(utxo', LiveOf(utxo', t)) <= Held(utxo, LiveOf(utxo, t))
  PROVE  Counted
<1> SUFFICES ASSUME NEW t \in Ticks
             PROVE  Held(utxo', LiveOf(utxo', t)) + (minted[t] + echoed[t])
                      <= Held(utxo, LiveOf(utxo, t)) + (minted[t] + echoed[t])
  BY DEF Counted
<1>1. Held(utxo', LiveOf(utxo', t)) \in Nat
  <2>1. LiveOf(utxo', t) \in SUBSET DOMAIN utxo'
    BY DEF LiveOf
  <2> QED  BY <2>1, HeldFacts
<1>2. /\ Held(utxo, LiveOf(utxo, t)) \in Nat /\ minted[t] \in Nat /\ echoed[t] \in Nat
      /\ Held(utxo', LiveOf(utxo', t)) <= Held(utxo, LiveOf(utxo, t))
  BY Amounted
<1> QED  BY <1>1, <1>2

LEMMA NativeSound ==
  ASSUME Base, NEW stage \in {"native1", "native2"}, NEW then, NativePass(stage, then),
         then \in Worker, then.list = <<>>, then.pc # "idle" => then.h = worker.h,
         chain' = chain, handled' \subseteq Heights
  PROVE  Sound
<1>1. worker.h \in Heights /\ worker.h \in pinned
  BY WorkerTyped DEF NativePass
<1>2. PICK first \in [Merges -> Live] : /\ \A g \in Merges : first[g] \in Earliest(g.tx, g.keys)
                                        /\ \E order \in Orders : UpdateMrc20Utxo(NativeWrites(first, order))
  BY DEF NativePass
<1>3. PICK order \in Orders : UpdateMrc20Utxo(NativeWrites(first, order))
  BY <1>2
<1>4. utxo' = Updated(utxo, NativeWrites(first, order)) /\ Chosen(first)
  BY <1>2, <1>3 DEF UpdateMrc20Utxo, Chosen
<1>5. Collection(utxo') /\ Changes(utxo')
  BY <1>1, <1>4, NativeChanges
<1>6. \A t \in Ticks : Held(utxo', LiveOf(utxo', t)) <= Held(utxo, LiveOf(utxo, t))
  BY <1>1, <1>4, NativeConserves
<1>7. /\ worker' = then /\ maxHeight' = maxHeight /\ pinned' = pinned /\ reruns' = reruns
      /\ minted' = minted /\ echoed' = echoed
  BY DEF NativePass
<1>8. /\ chain \in Chains /\ maxHeight \in 0..Tip /\ pinned \subseteq Heights
      /\ reruns \in 0..MaxReruns /\ minted \in [Ticks -> Nat] /\ echoed \in [Ticks -> Nat]
  BY DEF Base, TypeOK
<1>9. Updated(utxo', worker'.list) = utxo' /\ DOMAIN worker'.list = {}
  BY <1>5, <1>7, UpdatedEmpty DEF Collection
<1>10. Base'
  BY <1>1, <1>5, <1>7, <1>8, <1>9, BaseKept
<1>11. Counted
  BY <1>5, <1>6, <1>7, CountedQuietly
<1> QED  BY <1>5, <1>7, <1>10, <1>11 DEF Sound

LEMMA NativeFirstSound ==
  ASSUME Base, NativeFirst, chain' = chain
  PROVE  Sound
<1> DEFINE then == [worker EXCEPT !.pc = "transfer"]
<1>1. NativePass("native1", then) /\ handled' = handled /\ handled \subseteq Heights
  BY DEF NativeFirst, Base, TypeOK
<1>2. worker \in Worker /\ worker.list = <<>>
  BY WorkerTyped, <1>1 DEF NativePass, Base
<1>3. then \in Worker /\ then.list = <<>> /\ then.h = worker.h
  BY <1>2 DEF Worker
<1> HIDE DEF then
<1> QED  BY <1>1, <1>3, NativeSound

LEMMA NativeAgainSound ==
  ASSUME Base, NativeAgain, chain' = chain
  PROVE  Sound
<1>1. NativePass("native2", Idle) /\ handled' = handled \cup {worker.h}
  BY DEF NativeAgain
<1>2. worker.h \in Heights /\ handled \subseteq Heights
  BY <1>1, WorkerTyped DEF NativePass, Base, TypeOK
<1>3. Idle \in Worker /\ Idle.list = <<>> /\ Idle.pc = "idle"
  BY WorkerTyped
<1> QED  BY <1>1, <1>2, <1>3, NativeSound

LEMMA TransferSound ==
  ASSUME Base, Transfer, chain' = chain
  PROVE  Sound
<1> DEFINE pin == Block.pins[CurPin]
           T == {t \in Ticks : Remainder(pin, Inputs(pin), t) > 0}
<1>1. /\ MoreTurns /\ Valid(pin, Inputs(pin))
      /\ \E ticks \in SetToSeqs(T) : Record(TransferWrites(pin, Inputs(pin), ticks))
      /\ UNCHANGED <<maxHeight, pinned, handled, reruns, minted, echoed>>
  BY DEF Transfer
<1>2. PICK ticks \in SetToSeqs(T) : Record(TransferWrites(pin, Inputs(pin), ticks))
  BY <1>1
<1>3. pin \in Pin /\ Inputs(pin) \in SUBSET Live
  BY <1>1, PinFacts, InputsFacts
<1> DEFINE writes == TransferWrites(pin, Inputs(pin), ticks)
<1>4. writes \in Seq(Write) /\ Accepted(utxo, writes)
  BY <1>1, <1>3, TransferAccepted
<1>5. Collection(Updated(utxo, writes)) /\ Changes(Updated(utxo, writes))
  <2> DEFINE u == Updated(utxo, writes)
  <2>1. u = Updated(utxo, TransferWrites(pin, Inputs(pin), ticks))
    OBVIOUS
  <2> HIDE DEF u, pin, writes
  <2>2. Collection(u) /\ Changes(u)
    BY <1>1, <2>1, TransferChanges DEF pin
  <2> QED  BY <2>2 DEF u
<1>6. \A t \in Ticks : Held(Updated(utxo, writes), LiveOf(Updated(utxo, writes), t))
                         <= Held(utxo, LiveOf(utxo, t))
  <2> DEFINE u == Updated(utxo, writes)
  <2>1. u = Updated(utxo, TransferWrites(pin, Inputs(pin), ticks))
    OBVIOUS
  <2> HIDE DEF u, pin, writes
  <2>2. \A t \in Ticks : Held(u, LiveOf(u, t)) <= Held(utxo, LiveOf(utxo, t))
    BY <1>1, <1>3, <2>1, TransferConserves
  <2> QED  BY <2>2 DEF u
<1>7. minted' \in [Ticks -> Nat] /\ echoed' \in [Ticks -> Nat]
  BY <1>1 DEF Base, TypeOK
<1>8. Record(writes)
  BY <1>2
<1> HIDE DEF pin, writes
<1>9. Base' /\ utxo' = Updated(utxo, writes)
  BY <1>1, <1>4, <1>5, <1>7, <1>8, RecordKeeps
<1>10. Collection(utxo') /\ Changes(utxo')
  BY <1>5, <1>9
<1>11. Counted
  BY <1>1, <1>6, <1>9, <1>10, CountedQuietly
<1> QED  BY <1>1, <1>9, <1>10, <1>11 DEF Sound

LEMMA FallbackSound ==
  ASSUME Base, Fallback, chain' = chain
  PROVE  Sound
<1> DEFINE pin == Block.pins[CurPin]
           inputs == Inputs(pin)
           writes == FallbackWrites(pin, inputs)
<1>1. /\ MoreTurns /\ HasUsable(pin.tx) /\ Record(writes)
      /\ echoed' = [t \in Ticks |-> echoed[t] + Amount(OfTick(inputs, t))]
      /\ UNCHANGED <<maxHeight, pinned, handled, reruns, minted>>
  BY DEF Fallback
<1>3. pin \in Pin /\ inputs \in SUBSET Live /\ MayBlank(pin.tx)
  BY <1>1, PinFacts, InputsFacts
<1>4. writes \in Seq(Write) /\ Accepted(utxo, writes)
  BY <1>1, <1>3, FallbackAccepted
<1>5. Collection(Updated(utxo, writes)) /\ Changes(Updated(utxo, writes))
  <2> DEFINE u == Updated(utxo, writes)
  <2>1. u = Updated(utxo, FallbackWrites(pin, Inputs(pin)))
    OBVIOUS
  <2> HIDE DEF u, pin, writes, inputs
  <2>2. Collection(u) /\ Changes(u)
    BY <1>1, <2>1, FallbackChanges DEF pin
  <2> QED  BY <2>2 DEF u
<1>6. \A t \in Ticks : Held(Updated(utxo, writes), LiveOf(Updated(utxo, writes), t))
                         <= Held(utxo, LiveOf(utxo, t)) + Amount(OfTick(inputs, t))
  <2> DEFINE u == Updated(utxo, writes)
  <2>1. u = Updated(utxo, FallbackWrites(pin, inputs))
    OBVIOUS
  <2> HIDE DEF u, pin, writes, inputs
  <2>2. \A t \in Ticks : Held(u, LiveOf(u, t)) <= Held(utxo, LiveOf(utxo, t)) + Amount(OfTick(inputs, t))
    BY <1>1, <1>3, <2>1, FallbackConserves
  <2> QED  BY <2>2 DEF u
<1>12. \A t : Amount(OfTick(inputs, t)) \in Nat
  <2> TAKE t
  <2> HIDE DEF inputs
  <2>1. OfTick(inputs, t) \in SUBSET DOMAIN utxo
    BY <1>3, UtxoFacts DEF OfTick
  <2> QED  BY <2>1, AmountFacts
<1> HIDE DEF pin, inputs, writes
<1>7. minted' \in [Ticks -> Nat] /\ echoed' \in [Ticks -> Nat]
  BY <1>1, <1>12 DEF Base, TypeOK
<1>9. Base' /\ utxo' = Updated(utxo, writes)
  BY <1>1, <1>4, <1>5, <1>7, RecordKeeps
<1>10. Collection(utxo') /\ Changes(utxo')
  BY <1>5, <1>9
<1>11. Counted
  <2> SUFFICES ASSUME NEW t \in Ticks
               PROVE  Held(utxo', LiveOf(utxo', t)) + (minted[t] + echoed[t])
                        <= Held(utxo, LiveOf(utxo, t)) + (minted'[t] + echoed'[t])
    BY DEF Counted
  <2> DEFINE a == Held(utxo', LiveOf(utxo', t))
             b == Held(utxo, LiveOf(utxo, t))
             m == Amount(OfTick(inputs, t))
  <2>1. a <= b + m
    BY <1>6, <1>9
  <2>2. a \in Nat
    <3>1. LiveOf(utxo', t) \in SUBSET DOMAIN utxo'
      BY DEF LiveOf
    <3> QED  BY <1>10, <3>1, HeldFacts
  <2>3. b \in Nat /\ minted[t] \in Nat /\ echoed[t] \in Nat /\ m \in Nat
    BY <1>12, Amounted
  <2>4. minted'[t] = minted[t] /\ echoed'[t] = echoed[t] + m
    BY <1>1
  <2> HIDE DEF a, b, m
  <2>5. a + (minted[t] + echoed[t]) <= b + (minted'[t] + echoed'[t])
    BY <2>1, <2>2, <2>3, <2>4
  <2> QED  BY <2>5 DEF a, b
<1> QED  BY <1>1, <1>9, <1>10, <1>11 DEF Sound

LEMMA PassOverSound ==
  ASSUME Base, PassOver, chain' = chain
  PROVE  Sound
<1>1. /\ worker' = [worker EXCEPT !.turn = @ + 1] /\ worker.pc = "transfer"
      /\ UNCHANGED <<maxHeight, pinned, utxo, handled, reruns, minted, echoed>>
  BY DEF PassOver, MoreTurns
<1>2. worker \in Worker /\ worker.h \in pinned /\ worker.turn \in Nat \ {0}
  BY <1>1, WorkerTyped
<1>3. worker.turn + 1 \in Nat \ {0}
  BY <1>2
<1>4. /\ worker' \in Worker /\ worker'.list = worker.list /\ worker'.h = worker.h
      /\ worker'.pc = "transfer"
  BY <1>1, <1>2, <1>3 DEF Worker
<1>5. /\ maxHeight \in 0..Tip /\ pinned \subseteq Heights
      /\ handled \subseteq Heights /\ reruns \in 0..MaxReruns
  BY DEF Base, TypeOK
<1>6. Base'
  BY <1>1, <1>2, <1>4, <1>5, QuietStep
<1> QED  BY <1>1, <1>6, QuietSound

LEMMA TransfersDoneSound ==
  ASSUME Base, TransfersDone, chain' = chain
  PROVE  Sound
<1>1. /\ worker' = [worker EXCEPT !.pc = "native2"] /\ worker.pc = "transfer"
      /\ UNCHANGED <<maxHeight, pinned, utxo, handled, reruns, minted, echoed>>
  BY DEF TransfersDone
<1>2. worker \in Worker /\ worker.h \in pinned
  BY <1>1, WorkerTyped
<1>4. /\ worker' \in Worker /\ worker'.list = worker.list /\ worker'.h = worker.h
      /\ worker'.pc = "native2"
  BY <1>1, <1>2 DEF Worker
<1>5. /\ maxHeight \in 0..Tip /\ pinned \subseteq Heights
      /\ handled \subseteq Heights /\ reruns \in 0..MaxReruns
  BY DEF Base, TypeOK
<1>6. Base'
  BY <1>1, <1>2, <1>4, <1>5, QuietStep
<1> QED  BY <1>1, <1>6, QuietSound

LEMMA StutterSound ==
  ASSUME Base, UNCHANGED vars
  PROVE  Sound
<1>1. /\ UNCHANGED <<chain, maxHeight, pinned, utxo, worker, handled, reruns, minted, echoed>>
  BY DEF vars
<1>2. Base'
  BY <1>1 DEF Base, TypeOK
<1> QED  BY <1>1, <1>2, QuietSound

LEMMA NextSound ==
  ASSUME Base, [Next]_vars
  PROVE  Sound
<1>1. CASE UNCHANGED vars
  BY <1>1, StutterSound
<1>2. CASE Next
  <2>1. chain' = chain
    BY <1>2 DEF Next
  <2>2. CASE Advance
    BY <2>1, <2>2, AdvanceSound
  <2>3. CASE \E h \in Heights : Reindex(h)
    BY <2>1, <2>3, ReindexSound
  <2>4. CASE FetchFails
    BY <2>1, <2>4, FetchFailsSound
  <2>5. CASE Crash
    BY <2>1, <2>5, CrashSound
  <2>6. CASE StoreMints
    BY <2>1, <2>6, StoreMintsSound
  <2>7. CASE NativeFirst
    BY <2>1, <2>7, NativeFirstSound
  <2>8. CASE NativeAgain
    BY <2>1, <2>8, NativeAgainSound
  <2>9. CASE Transfer
    BY <2>1, <2>9, TransferSound
  <2>10. CASE Fallback
    BY <2>1, <2>10, FallbackSound
  <2>11. CASE PassOver
    BY <2>1, <2>11, PassOverSound
  <2>12. CASE TransfersDone
    BY <2>1, <2>12, TransfersDoneSound
  <2> QED  BY <1>2, <2>2, <2>3, <2>4, <2>5, <2>6, <2>7, <2>8, <2>9, <2>10, <2>11, <2>12 DEF Next
<1> QED  BY <1>1, <1>2

LEMMA BaseHolds == Spec => []Base
<1>1. Base /\ [Next]_vars => Base'
  BY NextSound DEF Sound
<1> QED  BY <1>1, InitBase, PTL DEF Spec

(***************************************************************************)
(* Type correctness of the ledger, for every chain: the keys the passes    *)
(* compose are outpoints of the chain, every sum stored is a natural       *)
(* number, and the collection keeps finitely many documents.               *)
(***************************************************************************)
THEOREM TypeCorrect == Spec => []TypeOK
<1>1. Base => TypeOK
  BY DEF Base
<1> QED  BY <1>1, BaseHolds, PTL

(***************************************************************************)
(* However the passes, the rounds over the transfer pins, re-runs, crashes *)
(* and lost blocks interleave, only a transaction of an indexed block that *)
(* spends an outpoint marks what is there spent, and is named in it or     *)
(* made it blank.                                                          *)
(***************************************************************************)
THEOREM SpentByChain == Spec => []SpentOnChain
<1>1. Init => SpentOnChain
  <2>1. Init => DOMAIN utxo = {}
    BY DEF Init
  <2> QED  BY <2>1 DEF SpentOnChain
<1>2. ASSUME Base, SpentOnChain, [Next]_vars PROVE SpentOnChain'
  <2>1. Base' /\ Changes(utxo') /\ pinned \subseteq pinned'
    BY <1>2, NextSound DEF Sound
  <2>2. chain' = chain
    BY <1>2 DEF Next, vars
  <2> SUFFICES ASSUME NEW k \in DOMAIN utxo', ~utxo'[k].live
               PROVE  \E h \in pinned' : \E i \in DOMAIN chain.blocks[h].txs :
                        LET tx == chain.blocks[h].txs[i]
                        IN  k.point \in Ins(tx) /\ Marked(k, utxo'[k], tx, chain.blocks[h])
    BY <2>2 DEF SpentOnChain, Ins, Marked
  <2>3. CASE k \in DOMAIN utxo /\ utxo'[k] = utxo[k]
    BY <1>2, <2>1, <2>3 DEF SpentOnChain
  <2>4. CASE worker.h \in pinned /\ Spender(k, utxo'[k])
    <3>1. PICK tx \in Range(Block.txs) : k.point \in Ins(tx) /\ Marked(k, utxo'[k], tx, Block)
      BY <2>4 DEF Spender
    <3>2. PICK i \in DOMAIN Block.txs : Block.txs[i] = tx
      BY DEF Range
    <3> QED  BY <2>1, <2>4, <3>1, <3>2 DEF Block
  <2> QED  BY <2>1, <2>3, <2>4 DEF Changes
<1> QED  BY <1>1, <1>2, BaseHolds, PTL DEF Spec

Backed == \A t \in Ticks : Held(utxo, LiveOf(utxo, t)) <= minted[t] + echoed[t]

LEMMA BackedIsNoInflation ==
  ASSUME Base
  PROVE  Backed <=> NoInflation
<1>1. \A t : Held(utxo, LiveOf(utxo, t)) = Amount(OfTick(Live, t))
  <2> TAKE t
  <2>1. LiveOf(utxo, t) \in SUBSET DOMAIN utxo /\ LiveOf(utxo, t) = OfTick(Live, t)
    BY BaseCollection DEF LiveOf
  <2> QED  BY <2>1, BaseCollection
<1> QED  BY <1>1 DEF Backed, NoInflation

(***************************************************************************)
(* Transfers create no tokens, for every chain: whatever the shapes of the *)
(* transactions, the ticks, the amounts asked and the adapter, however the *)
(* receipts are ordered and however often a list is written again, what    *)
(* the live documents of a tick hold was minted for it or echoed by        *)
(* sendAllAmountToFirstOutput.                                             *)
(***************************************************************************)
THEOREM TokensBacked == Spec => []NoInflation
<1>1. Init => Backed
  <2> SUFFICES ASSUME Init, NEW t \in Ticks
               PROVE  Held(utxo, LiveOf(utxo, t)) <= minted[t] + echoed[t]
    BY DEF Backed
  <2>1. LiveOf(utxo, t) = {}
    BY DEF Init, LiveOf
  <2>2. Held(utxo, LiveOf(utxo, t)) = 0
    BY <2>1, SumEmpty DEF Held
  <2> QED  BY <2>2 DEF Init
<1>2. ASSUME Base, Backed, [Next]_vars PROVE Backed'
  <2>1. Counted /\ Base'
    BY <1>2, NextSound DEF Sound
  <2> SUFFICES ASSUME NEW t \in Ticks
               PROVE  Held(utxo', LiveOf(utxo', t)) <= minted'[t] + echoed'[t]
    BY DEF Backed, Held, LiveOf
  <2> DEFINE a == Held(utxo', LiveOf(utxo', t))
             b == Held(utxo, LiveOf(utxo, t))
  <2>2. a + (minted[t] + echoed[t]) <= b + (minted'[t] + echoed'[t])
    BY <2>1 DEF Counted
  <2>3. b <= minted[t] + echoed[t]
    BY <1>2 DEF Backed
  <2>4. b \in Nat /\ minted[t] \in Nat /\ echoed[t] \in Nat
    BY <1>2, Amounted
  <2>5. minted' \in [Ticks -> Nat] /\ echoed' \in [Ticks -> Nat] /\ Collection(utxo')
    BY <2>1 DEF Base, TypeOK, Collection
  <2>6. minted'[t] \in Nat /\ echoed'[t] \in Nat
    BY <2>5
  <2>7. a \in Nat
    <3>1. LiveOf(utxo', t) \in SUBSET DOMAIN utxo'
      BY DEF LiveOf
    <3> QED  BY <2>5, <3>1, HeldFacts
  <2> HIDE DEF a, b
  <2>8. a <= minted'[t] + echoed'[t]
    BY <2>2, <2>3, <2>4, <2>6, <2>7
  <2> QED  BY <2>8 DEF a
<1>3. Base /\ Backed => NoInflation
  BY BackedIsNoInflation
<1> QED  BY <1>1, <1>2, <1>3, BaseHolds, PTL DEF Spec
=============================================================================
