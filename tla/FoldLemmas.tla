----------------------------- MODULE FoldLemmas -----------------------------
(***************************************************************************)
(* Induction on naturals and on finite sets, in a form without operator    *)
(* parameters, and what follows by it for SumFunctionOnSet of the module   *)
(* Functions; what sequences cut and joined are, place by place; and how   *)
(* the elements of a finite set of naturals are counted in their order.    *)
(***************************************************************************)
EXTENDS SequencesExt, FiniteSetTheorems, TLAPS

\* Every set of naturals that is not empty has a least element.
LEMMA NatLeast ==
    ASSUME NEW S \in SUBSET Nat, S # {}
    PROVE  \E m \in S : \A k \in S : m <= k
<1>1. PICK m \in S : \A k \in S : <<k, m>> \notin OpToRel(<, Nat)
  BY NatLessThanWellFounded, WFMin, Zenon
<1>2. \A k \in S : ~(k < m)
  BY <1>1, Zenon DEF OpToRel
<1> QED BY <1>2

\* Induction on the naturals, for a set.
LEMMA NatSetInduction ==
    ASSUME NEW S, 0 \in S, \A n \in Nat : n \in S => n + 1 \in S
    PROVE  Nat \subseteq S
<1> DEFINE T == Nat \ S
<1>1. SUFFICES ASSUME T # {} PROVE FALSE
  OBVIOUS
<1>2. PICK m \in T : \A k \in T : m <= k
  BY <1>1, NatLeast
<1>3. m - 1 \in Nat
  BY <1>2
<1>4. m - 1 \in S
  BY <1>2, <1>3
<1> QED BY <1>3, <1>4

\* Every subset of a finite set is in G if the empty one is, and if one is
\* whenever it is with any element taken away.
LEMMA SubsetInduction ==
    ASSUME NEW S, IsFiniteSet(S), NEW G, {} \in G,
           \A s \in SUBSET S : s # {} /\ (\A x \in s : s \ {x} \in G) => s \in G
    PROVE  SUBSET S \subseteq G
<1> DEFINE N == {n \in Nat : \A s \in SUBSET S : Cardinality(s) = n => s \in G}
<1>1. \A s \in SUBSET S : IsFiniteSet(s) /\ Cardinality(s) \in Nat
  BY FS_Subset, FS_CardinalityType
<1>2. 0 \in N
  BY <1>1, FS_EmptySet
<1>3. ASSUME NEW n \in Nat, n \in N
      PROVE  n + 1 \in N
  <2> SUFFICES ASSUME NEW s \in SUBSET S, Cardinality(s) = n + 1 PROVE s \in G
    OBVIOUS
  <2>1. Cardinality({}) = 0
    BY FS_EmptySet
  <2>2. s # {}
    BY <2>1
  <2>3. ASSUME NEW x \in s PROVE s \ {x} \in G
    <3>1. Cardinality(s \ {x}) = Cardinality(s) - 1
      BY <1>1, FS_RemoveElement
    <3>2. s \ {x} \in SUBSET S /\ Cardinality(s \ {x}) = n
      BY <3>1
    <3> QED BY <3>2, <1>3
  <2> QED BY <2>2, <2>3
<1>4. Nat \subseteq N
  <2> HIDE DEF N
  <2> QED BY <1>2, <1>3, NatSetInduction
<1> QED BY <1>1, <1>4

\* Min of a set of naturals is its least element.
LEMMA MinIn ==
    ASSUME NEW S \in SUBSET Nat, S # {}
    PROVE  Min(S) \in S /\ \A k \in S : Min(S) <= k
BY NatLeast DEF Min

\* Max of a bounded set of naturals is its greatest element.
LEMMA MaxIn ==
    ASSUME NEW S \in SUBSET Nat, S # {}, NEW n \in Nat, \A k \in S : k <= n
    PROVE  Max(S) \in S /\ \A k \in S : Max(S) >= k
<1> DEFINE U == {m \in Nat : \A k \in S : k <= m}
<1>1. PICK m \in U : \A k \in U : m <= k
  BY NatLeast
<1>2. m \in S
  <2> SUFFICES ASSUME m \notin S PROVE FALSE
    OBVIOUS
  <2>1. PICK k \in S : k <= m /\ k # m
    BY <1>1
  <2>2. m - 1 \in U
    <3>1. \A x \in S : x <= m - 1
      BY <1>1
    <3> QED BY <2>1, <3>1
  <2> QED BY <1>1, <2>2
<1>3. \E x \in S : \A k \in S : x >= k
  BY <1>1, <1>2
<1> QED BY <1>3 DEF Max

-----------------------------------------------------------------------------
Pick(S) == CHOOSE x \in S : TRUE

\* it sums f over the sets of D, which holds s \ {Pick(s)} with s.
Sums(it, f, D) ==
    it = [s \in D |-> IF s = {} THEN 0 ELSE f[Pick(s)] + it[s \ {Pick(s)}]]

LEMMA PickIn == ASSUME NEW S, S # {} PROVE Pick(S) \in S
BY Zenon DEF Pick

\* SumFunctionOnSet, unfolded to the function on subsets behind it.
LEMMA SumDef ==
    ASSUME NEW f, NEW S
    PROVE  SumFunctionOnSet(f, S) = (CHOOSE it : Sums(it, f, SUBSET S))[S]
BY Zenon DEF SumFunctionOnSet, FoldFunctionOnSet, MapThenFoldSet, Pick, Sums

\* That function exists: it is built from subsets of at most n elements to
\* subsets of at most n + 1.
LEMMA SumsExist ==
    ASSUME NEW f, NEW S, IsFiniteSet(S)
    PROVE  \E it : Sums(it, f, SUBSET S)
<1> DEFINE D(n) == {s \in SUBSET S : Cardinality(s) <= n}
           G == {n \in Nat : \E it : Sums(it, f, D(n))}
<1>1. \A s \in SUBSET S : IsFiniteSet(s) /\ Cardinality(s) \in Nat /\ Cardinality(s) <= Cardinality(S)
  BY FS_Subset, FS_CardinalityType
<1>2. 0 \in G
  <2>1. \A s \in D(0) : s = {}
    BY <1>1, FS_EmptySet
  <2>2. Sums([s \in D(0) |-> 0], f, D(0))
    BY <2>1 DEF Sums
  <2> QED BY <2>2
<1>3. ASSUME NEW n \in Nat, n \in G
      PROVE  n + 1 \in G
  <2>1. PICK g : Sums(g, f, D(n))
    BY <1>3
  <2> DEFINE h == [s \in D(n + 1) |-> IF s = {} THEN 0 ELSE f[Pick(s)] + g[s \ {Pick(s)}]]
  <2>2. \A s \in D(n) : s \in D(n + 1) /\ h[s] = g[s]
    <3> TAKE s \in D(n)
    <3>1. s \in D(n + 1)
      BY <1>1
    <3>2. g[s] = IF s = {} THEN 0 ELSE f[Pick(s)] + g[s \ {Pick(s)}]
      BY <2>1 DEF Sums
    <3> QED BY <3>1, <3>2
  <2>3. \A s \in D(n + 1) : s # {} => s \ {Pick(s)} \in D(n)
    BY <1>1, PickIn, FS_RemoveElement
  <2>4. \A s \in D(n + 1) : s # {} => h[s \ {Pick(s)}] = g[s \ {Pick(s)}]
    BY <2>2, <2>3
  <2>5. h = [s \in D(n + 1) |-> IF s = {} THEN 0 ELSE f[Pick(s)] + h[s \ {Pick(s)}]]
    BY <2>4
  <2>6. Sums(h, f, D(n + 1))
    BY <2>5, Zenon DEF Sums
  <2>7. \E it : Sums(it, f, D(n + 1))
    <3> HIDE DEF h
    <3> QED BY <2>6, Zenon
  <2>8. n + 1 \in Nat
    OBVIOUS
  <2> QED BY ONLY <2>7, <2>8, Zenon DEF G
<1>4. Nat \subseteq G
  <2> HIDE DEF G
  <2> QED BY <1>2, <1>3, NatSetInduction
<1>5. D(Cardinality(S)) = SUBSET S
  BY <1>1
<1>6. Cardinality(S) \in G
  BY <1>1, <1>4
<1> QED BY <1>5, <1>6

\* A sum is the value of such a function.
LEMMA SumAsSums ==
    ASSUME NEW f, NEW S, IsFiniteSet(S)
    PROVE  \E it : Sums(it, f, SUBSET S) /\ SumFunctionOnSet(f, S) = it[S]
<1>1. Sums(CHOOSE it : Sums(it, f, SUBSET S), f, SUBSET S)
  BY SumsExist, Zenon
<1> QED BY <1>1, SumDef, Zenon

\* The sum over a set does not depend on the set it is taken as a part of.
LEMMA SumsAgree ==
    ASSUME NEW f, NEW S, NEW T, NEW it, NEW jt,
           IsFiniteSet(S), T \in SUBSET S,
           Sums(it, f, SUBSET S), Sums(jt, f, SUBSET T)
    PROVE  it[T] = jt[T]
<1> DEFINE G == {s \in SUBSET T : it[s] = jt[s]}
<1>1. \A s \in SUBSET T :
        /\ it[s] = IF s = {} THEN 0 ELSE f[Pick(s)] + it[s \ {Pick(s)}]
        /\ jt[s] = IF s = {} THEN 0 ELSE f[Pick(s)] + jt[s \ {Pick(s)}]
  BY DEF Sums
<1>2. {} \in G
  BY <1>1
<1>3. ASSUME NEW s \in SUBSET T, s # {}, \A x \in s : s \ {x} \in G
      PROVE  s \in G
  BY <1>1, <1>3, PickIn
<1>4. SUBSET T \subseteq G
  <2>1. IsFiniteSet(T)
    BY FS_Subset
  <2> HIDE DEF G
  <2> QED BY <1>2, <1>3, <2>1, SubsetInduction
<1> QED BY <1>4

LEMMA SumEmpty == ASSUME NEW f PROVE SumFunctionOnSet(f, {}) = 0
<1>1. PICK it : Sums(it, f, SUBSET {}) /\ SumFunctionOnSet(f, {}) = it[{}]
  BY SumAsSums, FS_EmptySet
<1> QED BY <1>1 DEF Sums

\* The equation by which the sum is defined.
LEMMA SumPick ==
    ASSUME NEW f, NEW S, IsFiniteSet(S), S # {}
    PROVE  SumFunctionOnSet(f, S) = f[Pick(S)] + SumFunctionOnSet(f, S \ {Pick(S)})
<1> DEFINE T == S \ {Pick(S)}
<1>1. IsFiniteSet(T) /\ T \in SUBSET S
  BY FS_RemoveElement
<1>2. PICK it : Sums(it, f, SUBSET S) /\ SumFunctionOnSet(f, S) = it[S]
  BY SumAsSums
<1>3. PICK jt : Sums(jt, f, SUBSET T) /\ SumFunctionOnSet(f, T) = jt[T]
  BY <1>1, SumAsSums
<1>4. it[T] = jt[T]
  <2> HIDE DEF T
  <2>1. Sums(it, f, SUBSET S) /\ Sums(jt, f, SUBSET T)
    BY <1>2, <1>3
  <2>2. IsFiniteSet(S)
    OBVIOUS
  <2>3. ASSUME NEW U, U \in SUBSET S, Sums(jt, f, SUBSET U) PROVE it[U] = jt[U]
    BY <2>1, <2>2, <2>3, SumsAgree, ZenonT(40)
  <2> QED BY ONLY <1>1, <2>1, <2>2, <2>3
<1>5. it[S] = f[Pick(S)] + it[T]
  BY <1>2 DEF Sums
<1> QED BY <1>2, <1>3, <1>4, <1>5

-----------------------------------------------------------------------------
\* A sum of naturals is a natural.
LEMMA SumType ==
    ASSUME NEW f, NEW S, IsFiniteSet(S), \A x \in S : f[x] \in Nat
    PROVE  SumFunctionOnSet(f, S) \in Nat
<1> DEFINE G == {s \in SUBSET S : SumFunctionOnSet(f, s) \in Nat}
<1>1. {} \in G
  BY SumEmpty
<1>2. ASSUME NEW s \in SUBSET S, s # {}, \A x \in s : s \ {x} \in G
      PROVE  s \in G
  <2>1. Pick(s) \in s /\ IsFiniteSet(s)
    BY <1>2, PickIn, FS_Subset
  <2>2. SumFunctionOnSet(f, s) = f[Pick(s)] + SumFunctionOnSet(f, s \ {Pick(s)})
    BY <1>2, <2>1, SumPick
  <2>3. f[Pick(s)] \in Nat /\ SumFunctionOnSet(f, s \ {Pick(s)}) \in Nat
    BY <1>2, <2>1
  <2> QED BY <2>2, <2>3
<1>3. SUBSET S \subseteq G
  <2> HIDE DEF G
  <2> QED BY <1>1, <1>2, SubsetInduction
<1> QED BY <1>3

\* A sum depends on the values at the elements summed over only.
LEMMA SumCong ==
    ASSUME NEW f, NEW g, NEW S, IsFiniteSet(S), \A x \in S : f[x] = g[x]
    PROVE  SumFunctionOnSet(f, S) = SumFunctionOnSet(g, S)
<1> DEFINE G == {s \in SUBSET S : SumFunctionOnSet(f, s) = SumFunctionOnSet(g, s)}
<1>1. {} \in G
  BY SumEmpty
<1>2. ASSUME NEW s \in SUBSET S, s # {}, \A x \in s : s \ {x} \in G
      PROVE  s \in G
  <2>1. Pick(s) \in s /\ IsFiniteSet(s)
    BY <1>2, PickIn, FS_Subset
  <2>2. /\ SumFunctionOnSet(f, s) = f[Pick(s)] + SumFunctionOnSet(f, s \ {Pick(s)})
        /\ SumFunctionOnSet(g, s) = g[Pick(s)] + SumFunctionOnSet(g, s \ {Pick(s)})
    BY <1>2, <2>1, SumPick
  <2>3. SumFunctionOnSet(f, s \ {Pick(s)}) = SumFunctionOnSet(g, s \ {Pick(s)})
    BY <1>2, <2>1
  <2> QED BY <2>1, <2>2, <2>3
<1>3. SUBSET S \subseteq G
  <2> HIDE DEF G
  <2> QED BY <1>1, <1>2, SubsetInduction
<1> QED BY <1>3

\* Any element may be taken out of a sum, not only the one that is chosen.
LEMMA SumRemove ==
    ASSUME NEW f, NEW S, IsFiniteSet(S), \A x \in S : f[x] \in Nat, NEW a \in S
    PROVE  SumFunctionOnSet(f, S) = f[a] + SumFunctionOnSet(f, S \ {a})
<1> DEFINE Sum(s) == SumFunctionOnSet(f, s)
           G == {s \in SUBSET S : \A x \in s : Sum(s) = f[x] + Sum(s \ {x})}
<1>1. {} \in G
  OBVIOUS
<1>2. ASSUME NEW s \in SUBSET S, s # {}, \A x \in s : s \ {x} \in G
      PROVE  s \in G
  <2> DEFINE p == Pick(s)
  <2>1. p \in s /\ IsFiniteSet(s)
    BY <1>2, PickIn, FS_Subset
  <2>2. Sum(s) = f[p] + Sum(s \ {p})
    BY <1>2, <2>1, SumPick
  <2> HIDE DEF p
  <2>3. ASSUME NEW x \in s, x # p PROVE Sum(s) = f[x] + Sum(s \ {x})
    <3>1. Sum(s \ {p}) = f[x] + Sum((s \ {p}) \ {x})
      BY <1>2, <2>1, <2>3
    <3>2. Sum(s \ {x}) = f[p] + Sum((s \ {x}) \ {p})
      BY <1>2, <2>1, <2>3
    <3>3. (s \ {p}) \ {x} = (s \ {x}) \ {p}
      OBVIOUS
    <3>4. IsFiniteSet((s \ {x}) \ {p})
      BY <2>1, FS_Subset
    <3>5. Sum((s \ {x}) \ {p}) \in Nat
      BY <3>4, SumType
    <3>6. f[p] \in Nat /\ f[x] \in Nat
      BY <2>1
    <3> HIDE DEF Sum
    <3> QED BY <2>2, <3>1, <3>2, <3>3, <3>5, <3>6
  <2> QED BY <2>2, <2>3
<1>3. SUBSET S \subseteq G
  <2> HIDE DEF G
  <2> QED BY <1>1, <1>2, SubsetInduction
<1> QED BY <1>3

\* A new element adds its value to the sum.
LEMMA SumAdd ==
    ASSUME NEW f, NEW S, IsFiniteSet(S), NEW a, a \notin S,
           \A x \in S \cup {a} : f[x] \in Nat
    PROVE  SumFunctionOnSet(f, S \cup {a}) = f[a] + SumFunctionOnSet(f, S)
<1>1. IsFiniteSet(S \cup {a})
  BY FS_AddElement
<1>2. (S \cup {a}) \ {a} = S
  OBVIOUS
<1>3. a \in S \cup {a}
  OBVIOUS
<1>4. SumFunctionOnSet(f, S \cup {a}) = f[a] + SumFunctionOnSet(f, (S \cup {a}) \ {a})
  BY <1>1, <1>3, SumRemove
<1> QED BY <1>2, <1>4

\* A part sums up to no more than the whole.
LEMMA SumMono ==
    ASSUME NEW f, NEW S, IsFiniteSet(S), \A x \in S : f[x] \in Nat, NEW T \in SUBSET S
    PROVE  SumFunctionOnSet(f, T) <= SumFunctionOnSet(f, S)
<1> DEFINE Sum(s) == SumFunctionOnSet(f, s)
           G == {s \in SUBSET S : \A t \in SUBSET s : Sum(t) <= Sum(s)}
<1>1. \A s \in SUBSET S : IsFiniteSet(s) /\ Sum(s) \in Nat
  BY FS_Subset, SumType
<1>2. {} \in G
  <2>1. \A t \in SUBSET {} : t = {}
    OBVIOUS
  <2>2. Sum({}) <= Sum({})
    BY <1>1
  <2> QED BY <2>1, <2>2
<1>3. ASSUME NEW s \in SUBSET S, s # {}, \A x \in s : s \ {x} \in G
      PROVE  s \in G
  <2> SUFFICES ASSUME NEW t \in SUBSET s PROVE Sum(t) <= Sum(s)
    OBVIOUS
  <2>1. CASE t = s
    BY <2>1, <1>1
  <2>2. CASE t # s
    <3>1. PICK x \in s : x \notin t
      BY <2>2
    <3>2. Sum(s) = f[x] + Sum(s \ {x})
      BY <1>1, SumRemove
    <3>3. Sum(t) <= Sum(s \ {x})
      BY <1>3, <3>1
    <3>4. Sum(s \ {x}) \in Nat /\ Sum(t) \in Nat /\ f[x] \in Nat
      BY <1>1
    <3> HIDE DEF Sum
    <3> QED BY <3>2, <3>3, <3>4
  <2> QED BY <2>1, <2>2
<1>4. SUBSET S \subseteq G
  <2> HIDE DEF G
  <2> QED BY <1>2, <1>3, SubsetInduction
<1> QED BY <1>4

-----------------------------------------------------------------------------
\* The places of two sequences in their concatenation.
LEMMA ConcatIs ==
    ASSUME NEW V, NEW t \in Seq(V), NEW u \in Seq(V)
    PROVE  /\ t \o u \in Seq(V)
           /\ Len(t) \in Nat /\ Len(u) \in Nat /\ Len(t \o u) = Len(t) + Len(u)
           /\ \A k \in 1..Len(t) : (t \o u)[k] = t[k]
           /\ \A k \in Len(t) + 1..Len(t) + Len(u) : (t \o u)[k] = u[k - Len(t)]
OBVIOUS

\* A chunk moved from the front of u to the end of t changes nothing of both.
LEMMA MoveChunk ==
    ASSUME NEW V, NEW t \in Seq(V), NEW u \in Seq(V), NEW n \in 1..Len(u) - 1
    PROVE  (t \o SubSeq(u, 1, n)) \o SubSeq(u, n + 1, Len(u)) = t \o u
<1> DEFINE p == SubSeq(u, 1, n)
           q == SubSeq(u, n + 1, Len(u))
<1>1. Len(t) \in Nat /\ Len(u) \in Nat
  OBVIOUS
<1>2. /\ p \in Seq(V) /\ Len(p) = n
      /\ \A i \in 1..n : p[i] = u[i]
  BY <1>1
<1>3. /\ q \in Seq(V) /\ Len(q) = Len(u) - n
      /\ \A i \in 1..Len(u) - n : q[i] = u[n + i]
  BY <1>1
<1> HIDE DEF p, q
<1>4. /\ t \o p \in Seq(V) /\ Len(t \o p) = Len(t) + n
      /\ \A k \in 1..Len(t) : (t \o p)[k] = t[k]
      /\ \A k \in Len(t) + 1..Len(t) + n : (t \o p)[k] = u[k - Len(t)]
  <2>1. \A k \in Len(t) + 1..Len(t) + n : k - Len(t) \in 1..n
    BY <1>1
  <2>2. /\ t \o p \in Seq(V) /\ Len(t \o p) = Len(t) + Len(p)
        /\ \A k \in 1..Len(t) : (t \o p)[k] = t[k]
        /\ \A k \in Len(t) + 1..Len(t) + Len(p) : (t \o p)[k] = p[k - Len(t)]
    <3>1. p \in Seq(V)
      BY <1>2
    <3> QED BY <3>1, ConcatIs, Zenon
  <2> QED BY <1>2, <2>1, <2>2
<1> DEFINE s == t \o p
<1> HIDE DEF s
<1>5. /\ s \o q \in Seq(V) /\ Len(s \o q) = Len(t) + Len(u)
      /\ \A k \in 1..Len(t) + n : (s \o q)[k] = s[k]
      /\ \A k \in Len(t) + n + 1..Len(t) + Len(u) : (s \o q)[k] = u[k - Len(t)]
  <2>1. s \in Seq(V) /\ Len(s) = Len(t) + n
    BY <1>4 DEF s
  <2>2. /\ s \o q \in Seq(V) /\ Len(s \o q) = Len(s) + Len(q)
        /\ \A k \in 1..Len(s) : (s \o q)[k] = s[k]
        /\ \A k \in Len(s) + 1..Len(s) + Len(q) : (s \o q)[k] = q[k - Len(s)]
    <3>1. q \in Seq(V) /\ s \in Seq(V)
      BY <1>3, <2>1
    <3> QED BY <3>1, ConcatIs, Zenon
  <2>3. ASSUME NEW k \in Len(t) + n + 1..Len(t) + Len(u)
        PROVE  q[k - (Len(t) + n)] = u[k - Len(t)]
    <3>1. k - (Len(t) + n) \in 1..Len(u) - n /\ n + (k - (Len(t) + n)) = k - Len(t)
      BY <1>1
    <3> QED BY <1>3, <3>1
  <2>4. Len(s) + Len(q) = Len(t) + Len(u)
    BY <1>1, <1>3, <2>1
  <2> QED BY <2>1, <2>2, <2>3, <2>4
<1>6. /\ t \o u \in Seq(V) /\ Len(t \o u) = Len(t) + Len(u)
      /\ \A k \in 1..Len(t) : (t \o u)[k] = t[k]
      /\ \A k \in Len(t) + 1..Len(t) + Len(u) : (t \o u)[k] = u[k - Len(t)]
  BY ConcatIs
<1> DEFINE c == s \o q
           d == t \o u
<1> HIDE DEF c, d
<1>7. ASSUME NEW k \in 1..Len(t) + Len(u) PROVE c[k] = d[k]
  <2>1. CASE k \in 1..Len(t)
    <3>1. k \in 1..Len(t) + n
      BY <1>1, <2>1
    <3> QED BY <1>4, <1>5, <1>6, <2>1, <3>1 DEF c, d, s
  <2>2. CASE k \in Len(t) + 1..Len(t) + n
    <3>1. k \in 1..Len(t) + n /\ k \in Len(t) + 1..Len(t) + Len(u)
      BY <1>1, <2>2
    <3> QED BY <1>4, <1>5, <1>6, <2>2, <3>1 DEF c, d, s
  <2>3. CASE k \in Len(t) + n + 1..Len(t) + Len(u)
    <3>1. k \in Len(t) + 1..Len(t) + Len(u)
      BY <1>1, <2>3
    <3> QED BY <1>5, <1>6, <2>3, <3>1 DEF c, d
  <2> QED BY <1>1, <2>1, <2>2, <2>3
<1>8. /\ c \in Seq(V) /\ d \in Seq(V)
      /\ Len(c) = Len(t) + Len(u) /\ Len(d) = Len(t) + Len(u)
  BY <1>5, <1>6 DEF c, d
<1>9. c = d
  BY <1>7, <1>8
<1> QED BY <1>9 DEF c, d, s, p, q

\* A function whose domain is an interval from 1 is a sequence.
LEMMA SeqOfFunction ==
    ASSUME NEW n \in Nat, NEW f, DOMAIN f = 1..n, f = [k \in 1..n |-> f[k]]
    PROVE  f \in Seq(Range(f)) /\ Len(f) = n
<1>1. \A k \in 1..n : f[k] \in Range(f)
  BY DEF Range
<1>2. f \in [1..n -> Range(f)]
  BY <1>1
<1> QED BY <1>2

-----------------------------------------------------------------------------
NotAfter(H, i) == {j \in H : j <= i}

\* The k-th element of a set of naturals, in their order.
Kth(H, k) == CHOOSE i \in H : Cardinality(NotAfter(H, i)) = k

\* Every element has a number of its own, from 1 to their number.
LEMMA CountIs ==
    ASSUME NEW n \in Nat, NEW H \in SUBSET (1..n)
    PROVE  /\ Cardinality(H) \in Nat
           /\ \A i \in H : Cardinality(NotAfter(H, i)) \in 1..Cardinality(H)
           /\ \A i, j \in H : Cardinality(NotAfter(H, i)) = Cardinality(NotAfter(H, j)) => i = j
<1>1. \A s \in SUBSET H : IsFiniteSet(s) /\ Cardinality(s) \in Nat
                          /\ Cardinality(s) <= Cardinality(H)
  <2>1. IsFiniteSet(1..n)
    BY FS_Interval
  <2>2. IsFiniteSet(H)
    BY <2>1, FS_Subset
  <2> QED BY <2>2, FS_Subset, FS_CardinalityType
<1>2. \A i \in H : NotAfter(H, i) \in SUBSET H /\ i \in NotAfter(H, i)
  BY DEF NotAfter
<1>3. ASSUME NEW i \in H, NEW j \in H, i < j
      PROVE  Cardinality(NotAfter(H, i)) < Cardinality(NotAfter(H, j))
  <2> DEFINE s == NotAfter(H, j) \ {j}
  <2>1. NotAfter(H, i) \subseteq s
    <3> SUFFICES ASSUME NEW x \in H, x <= i PROVE x <= j /\ x # j
      BY DEF NotAfter
    <3>1. x \in Nat /\ i \in Nat /\ j \in Nat
      OBVIOUS
    <3> QED BY <1>3, <3>1
  <2>2. IsFiniteSet(NotAfter(H, j)) /\ j \in NotAfter(H, j)
    BY <1>1, <1>2
  <2>3. IsFiniteSet(s) /\ Cardinality(s) = Cardinality(NotAfter(H, j)) - 1
    BY <2>2, FS_RemoveElement
  <2> HIDE DEF s
  <2>4. Cardinality(NotAfter(H, i)) <= Cardinality(s)
    BY <2>1, <2>3, FS_Subset
  <2>5. Cardinality(NotAfter(H, i)) \in Nat /\ Cardinality(NotAfter(H, j)) \in Nat
    BY <1>1, <1>2
  <2> QED BY <2>3, <2>4, <2>5
<1>4. ASSUME NEW i \in H PROVE Cardinality(NotAfter(H, i)) \in 1..Cardinality(H)
  <2>1. IsFiniteSet(NotAfter(H, i)) /\ Cardinality(NotAfter(H, i)) # 0
    BY <1>1, <1>2, FS_EmptySet
  <2> QED BY <1>1, <1>2, <2>1
<1>5. ASSUME NEW i \in H, NEW j \in H, Cardinality(NotAfter(H, i)) = Cardinality(NotAfter(H, j))
      PROVE  i = j
  <2>1. Cardinality(NotAfter(H, i)) \in Nat /\ Cardinality(NotAfter(H, j)) \in Nat
    BY <1>1, <1>2
  <2>2. ~(i < j) /\ ~(j < i)
    BY <1>3, <1>5, <2>1
  <2> QED BY <2>2
<1> QED BY <1>1, <1>4, <1>5

\* And every number from 1 to theirs is that of an element, the k-th.
LEMMA KthIs ==
    ASSUME NEW n \in Nat, NEW H \in SUBSET (1..n), NEW k \in 1..Cardinality(H)
    PROVE  Kth(H, k) \in H /\ Cardinality(NotAfter(H, Kth(H, k))) = k
<1> DEFINE G == {s \in SUBSET H : \A l \in 1..Cardinality(s) :
                                      \E i \in s : Cardinality(NotAfter(s, i)) = l}
<1>1. IsFiniteSet(H)
  <2>1. IsFiniteSet(1..n)
    BY FS_Interval
  <2> QED BY <2>1, FS_Subset
<1>2. {} \in G
  BY FS_EmptySet
<1>3. ASSUME NEW s \in SUBSET H, s # {}, \A x \in s : s \ {x} \in G
      PROVE  s \in G
  <2> SUFFICES ASSUME NEW l \in 1..Cardinality(s)
               PROVE  \E i \in s : Cardinality(NotAfter(s, i)) = l
    OBVIOUS
  <2> DEFINE x == Max(s)
             t == s \ {x}
  <2>1. x \in s /\ \A i \in s : x >= i
    <3>1. s \in SUBSET Nat /\ \A i \in s : i <= n
      OBVIOUS
    <3> QED BY <1>3, <3>1, MaxIn
  <2> HIDE DEF x
  <2>2. IsFiniteSet(s) /\ Cardinality(s) \in Nat
    BY <1>1, FS_Subset, FS_CardinalityType
  <2>3. Cardinality(t) = Cardinality(s) - 1
    BY <2>1, <2>2, FS_RemoveElement
  <2>4. CASE l = Cardinality(s)
    <3>1. NotAfter(s, x) = s
      BY <2>1 DEF NotAfter
    <3> QED BY <2>1, <2>4, <3>1
  <2>5. CASE l # Cardinality(s)
    <3>1. l \in 1..Cardinality(t)
      BY <2>2, <2>3, <2>5
    <3>2. t \in G
      BY <1>3, <2>1
    <3>3. PICK i \in t : Cardinality(NotAfter(t, i)) = l
      BY <3>1, <3>2
    <3>4. NotAfter(s, i) = NotAfter(t, i)
      BY <2>1, <3>3 DEF NotAfter
    <3> QED BY <3>3, <3>4
  <2> QED BY <2>4, <2>5
<1>4. H \in G
  <2> HIDE DEF G
  <2> QED BY <1>1, <1>2, <1>3, SubsetInduction
<1>5. \E i \in H : Cardinality(NotAfter(H, i)) = k
  BY <1>4
<1> QED BY <1>5, Zenon DEF Kth

\* Greater elements that come later change no number.
LEMMA KthLater ==
    ASSUME NEW n \in Nat, NEW K \in SUBSET (1..n), NEW H \in SUBSET K,
           \A i \in H, j \in K \ H : i < j,
           NEW k \in 1..Cardinality(H)
    PROVE  k \in 1..Cardinality(K) /\ Kth(K, k) = Kth(H, k)
<1> DEFINE i == Kth(H, k)
<1>1. H \in SUBSET (1..n)
  OBVIOUS
<1>2. i \in H /\ Cardinality(NotAfter(H, i)) = k
  BY <1>1, KthIs
<1> HIDE DEF i
<1>3. NotAfter(K, i) = NotAfter(H, i)
  <2>1. ASSUME NEW j \in K, j <= i PROVE j \in H
    <3>1. j \in Nat /\ i \in Nat
      BY <1>1, <1>2
    <3>2. ~(i < j)
      BY <2>1, <3>1
    <3> QED BY <1>2, <3>2
  <2> QED BY <2>1 DEF NotAfter
<1>4. i \in K /\ Cardinality(NotAfter(K, i)) = k
  BY <1>2, <1>3
<1>5. k \in 1..Cardinality(K)
  BY <1>4, CountIs
<1>6. Kth(K, k) \in K /\ Cardinality(NotAfter(K, Kth(K, k))) = k
  BY <1>5, KthIs
<1>7. Kth(K, k) = i
  BY <1>4, <1>6, CountIs
<1> QED BY <1>5, <1>7 DEF i
=============================================================================
