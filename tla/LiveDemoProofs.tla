--------------------------- MODULE LiveDemoProofs ---------------------------
(***************************************************************************)
(* Proofs about AuditTrail and, next to the server, LiveDemo.  Of the      *)
(* trail, for one writer: read, written in chunks and cut off by kills, it *)
(* never holds a text twice, kills tear the last text and glue one to the  *)
(* line before at most, and its texts are the trail of DecisionTrail; and  *)
(* without kills every reader gets through it.  Of the server, for any     *)
(* number of threads and runs: one model per life, for the lock makes the  *)
(* check for a cached model and the load one step, and nothing but a       *)
(* restart empties the cache.  Of the files, for any number of runs: the   *)
(* dashboard shows what is in the trail; and of one writer: no file is of  *)
(* an earlier run than one derived from it.                                *)
(***************************************************************************)
EXTENDS LiveDemo, FoldLemmas

\* What Recorded leaves of a batch: ids, each one of the batch, and the whole
\* batch if every entry has one.
LEMMA RecordedIs ==
    ASSUME NEW b, b \in Seq(Range(b))
    PROVE  /\ Recorded(b) \in Seq(Range(b) \ {NoId})
           /\ NoId \notin Range(b) => Recorded(b) = b
<1> DEFINE I == {i \in 1..Len(b) : b[i] = NoId}
           n == IF I # {} THEN Min(I) ELSE 0
<1>1. Recorded(b) = IF n = 0 THEN b ELSE SubSeq(b, 1, n - 1)
  BY Zenon DEF Recorded, SelectInSeq
<1>2. CASE I = {}
  <2>1. \A i \in 1..Len(b) : b[i] \in Range(b) \ {NoId}
    BY <1>2 DEF Range
  <2>2. b \in Seq(Range(b) \ {NoId})
    BY <2>1
  <2> QED BY <1>1, <1>2, <2>2
<1>3. CASE I # {}
  <2>1. Min(I) \in I /\ \A k \in I : Min(I) <= k
    <3>1. I \in SUBSET Nat
      OBVIOUS
    <3> HIDE DEF I
    <3> QED BY <1>3, <3>1, MinIn
  <2>2. n \in 1..Len(b) /\ b[n] = NoId /\ \A k \in 1..Len(b) : b[k] = NoId => n <= k
    BY <1>3, <2>1
  <2> HIDE DEF n
  <2>3. \A i \in 1..n - 1 : b[i] \in Range(b) \ {NoId}
    BY <2>2 DEF Range
  <2>4. SubSeq(b, 1, n - 1) \in Seq(Range(b) \ {NoId})
    BY <2>2, <2>3
  <2>5. NoId \in Range(b)
    BY <2>2 DEF Range
  <2> QED BY <1>1, <2>2, <2>4, <2>5
<1> QED BY <1>2, <1>3

-----------------------------------------------------------------------------
Step(known, done, r) == IF r \in known \cup Range(done) THEN done ELSE Append(done, r)

\* it is what the fold of Fresh makes of the entries with an index in d, for
\* every d of D, which holds d without its last index with d.
Filters(it, s, known, D) ==
    it = [d \in D |-> IF d = {} THEN <<>>
                                ELSE Step(known, it[d \ {Max(d)}], s[Max(d)])]

\* The fold of Fresh, unfolded to the function on sets of indices behind it.
LEMMA FreshDef ==
    ASSUME NEW b, NEW known
    PROVE  Fresh(b, known) =
               (CHOOSE it : Filters(it, Recorded(b), known, SUBSET DOMAIN Recorded(b)))
                   [DOMAIN Recorded(b)]
BY Zenon DEF Fresh, FoldLeft, MapThenFoldSet, Filters, Step

\* That function exists: it is built from sets of at most n indices to sets of
\* at most n + 1.
LEMMA FiltersExist ==
    ASSUME NEW s, NEW known, NEW m \in Nat
    PROVE  \E it : Filters(it, s, known, SUBSET (1..m))
<1> DEFINE D(n) == {d \in SUBSET (1..m) : Cardinality(d) <= n}
           G == {n \in Nat : \E it : Filters(it, s, known, D(n))}
<1>1. \A d \in SUBSET (1..m) : IsFiniteSet(d) /\ Cardinality(d) \in Nat /\ Cardinality(d) <= m
  <2>1. IsFiniteSet(1..m) /\ Cardinality(1..m) = m
    BY FS_Interval
  <2> QED BY <2>1, FS_Subset, FS_CardinalityType
<1>2. \A d \in SUBSET (1..m) : d # {} => Max(d) \in d
  BY MaxIn
<1>3. 0 \in G
  <2>1. \A d \in D(0) : d = {}
    BY <1>1, FS_EmptySet
  <2>2. Filters([d \in D(0) |-> <<>>], s, known, D(0))
    BY <2>1 DEF Filters
  <2> QED BY <2>2
<1>4. ASSUME NEW n \in Nat, n \in G
      PROVE  n + 1 \in G
  <2>1. PICK g : Filters(g, s, known, D(n))
    BY <1>4
  <2> DEFINE h == [d \in D(n + 1) |-> IF d = {} THEN <<>>
                                      ELSE Step(known, g[d \ {Max(d)}], s[Max(d)])]
  <2>2. \A d \in D(n) : d \in D(n + 1) /\ h[d] = g[d]
    <3> TAKE d \in D(n)
    <3>1. d \in D(n + 1)
      BY <1>1
    <3>2. g[d] = IF d = {} THEN <<>> ELSE Step(known, g[d \ {Max(d)}], s[Max(d)])
      BY <2>1 DEF Filters
    <3> QED BY <3>1, <3>2
  <2>3. \A d \in D(n + 1) : d # {} => d \ {Max(d)} \in D(n)
    <3> SUFFICES ASSUME NEW d \in D(n + 1), d # {} PROVE d \ {Max(d)} \in D(n)
      OBVIOUS
    <3>1. IsFiniteSet(d) /\ Max(d) \in d
      BY <1>1, <1>2
    <3>2. Cardinality(d \ {Max(d)}) = Cardinality(d) - 1
      BY <3>1, FS_RemoveElement
    <3>3. Cardinality(d) \in Nat /\ Cardinality(d) <= n + 1
      BY <1>1
    <3>4. Cardinality(d \ {Max(d)}) <= n
      BY ONLY <3>2, <3>3, n \in Nat
    <3>5. d \ {Max(d)} \in SUBSET (1..m)
      OBVIOUS
    <3> QED BY <3>4, <3>5
  <2>4. \A d \in D(n + 1) : d # {} => h[d \ {Max(d)}] = g[d \ {Max(d)}]
    BY <2>2, <2>3
  <2>5. h = [d \in D(n + 1) |-> IF d = {} THEN <<>>
                                ELSE Step(known, h[d \ {Max(d)}], s[Max(d)])]
    BY <2>4
  <2>6. Filters(h, s, known, D(n + 1))
    BY <2>5, Zenon DEF Filters
  <2>7. \E it : Filters(it, s, known, D(n + 1))
    <3> HIDE DEF h
    <3> QED BY <2>6, Zenon
  <2>8. n + 1 \in Nat
    OBVIOUS
  <2> QED BY ONLY <2>7, <2>8, Zenon DEF G
<1>5. Nat \subseteq G
  <2> HIDE DEF G
  <2> QED BY <1>3, <1>4, NatSetInduction
<1>6. D(m) = SUBSET (1..m)
  BY <1>1
<1>7. m \in G
  BY <1>5
<1> QED BY <1>6, <1>7

\* What append_many writes of a batch: ids of the batch that are not known, each
\* once, and every entry is known or written.
LEMMA FreshIs ==
    ASSUME NEW b, NEW known, b \in Seq(Range(b))
    PROVE  /\ Fresh(b, known) \in Seq(Range(b) \ {NoId})
           /\ IsInjective(Fresh(b, known))
           /\ Range(Fresh(b, known)) \cap known = {}
           /\ Range(Recorded(b)) \subseteq known \cup Range(Fresh(b, known))
<1> DEFINE s == Recorded(b)
           V == Range(b) \ {NoId}
           m == Len(s)
<1>1. s \in Seq(V)
  BY RecordedIs
<1> HIDE DEF s, V
<1>2. m \in Nat /\ DOMAIN s = 1..m
  BY <1>1
<1>3. \E it : Filters(it, s, known, SUBSET (1..m))
  BY <1>2, FiltersExist
<1>4. PICK it : Filters(it, s, known, SUBSET (1..m)) /\ Fresh(b, known) = it[1..m]
  <2>1. Fresh(b, known) = (CHOOSE jt : Filters(jt, s, known, SUBSET (1..m)))[1..m]
    BY <1>2, FreshDef, Zenon DEF s
  <2>2. Filters(CHOOSE jt : Filters(jt, s, known, SUBSET (1..m)), s, known, SUBSET (1..m))
    BY <1>3, Zenon
  <2> QED BY <2>1, <2>2, Zenon
<1> DEFINE Good(k, t) ==
             /\ t \in Seq(V)
             /\ IsInjective(t)
             /\ Range(t) \cap known = {}
             /\ \A i \in 1..k : s[i] \in known \cup Range(t)
           G == {k \in Nat : k <= m => Good(k, it[1..k])}
<1>5. 0 \in G
  <2>1. it[{}] = <<>>
    BY <1>4, <1>2 DEF Filters
  <2>2. 1..0 = {}
    OBVIOUS
  <2>3. Range(<<>>) = {} /\ IsInjective(<<>>) /\ <<>> \in Seq(V)
    BY DEF Range, IsInjective
  <2> QED BY <2>1, <2>2, <2>3
<1>6. ASSUME NEW k \in Nat, k \in G
      PROVE  k + 1 \in G
  <2> SUFFICES ASSUME k + 1 <= m PROVE Good(k + 1, it[1..k + 1])
    OBVIOUS
  <2>1. Max(1..k + 1) = k + 1
    <3> DEFINE S == 1..k + 1
    <3>1. S \in SUBSET Nat /\ k + 1 \in S /\ k + 1 \in Nat /\ \A j \in S : j <= k + 1
      OBVIOUS
    <3>2. Max(S) \in S /\ \A j \in S : Max(S) >= j
      <4> HIDE DEF S
      <4> QED BY <3>1, MaxIn
    <3> QED BY <3>1, <3>2
  <2>2. (1..k + 1) \ {k + 1} = 1..k
    OBVIOUS
  <2>3. it[1..k + 1] = Step(known, it[1..k], s[k + 1])
    <3>1. (1..k + 1) \in SUBSET (1..m) /\ (1..k + 1) # {}
      <4>1. k + 1 \in 1..k + 1
        OBVIOUS
      <4>2. ASSUME NEW i \in 1..k + 1 PROVE i \in 1..m
        BY <1>2
      <4> QED BY <4>1, <4>2
    <3>2. it[1..k + 1] = Step(known, it[(1..k + 1) \ {Max(1..k + 1)}], s[Max(1..k + 1)])
      BY <1>4, <3>1 DEF Filters
    <3> QED BY <2>1, <2>2, <3>2
  <2> DEFINE t == it[1..k]
             u == it[1..k + 1]
             r == s[k + 1]
  <2>4. Good(k, t)
    BY <1>2, <1>6
  <2>5. r \in V
    BY <1>1, <1>2
  <2>6. u = IF r \in known \cup Range(t) THEN t ELSE Append(t, r)
    BY <2>3 DEF Step
  <2> HIDE DEF t, u, r
  <2>7. CASE r \in known \cup Range(t)
    <3>1. u = t
      BY <2>6, <2>7
    <3>2. \A i \in 1..k + 1 : s[i] \in known \cup Range(t)
      BY <2>4, <2>7 DEF r
    <3> QED BY <2>4, <3>1, <3>2 DEF u
  <2>8. CASE r \notin known \cup Range(t)
    <3>1. u = Append(t, r) /\ u \in Seq(V)
      BY <2>4, <2>5, <2>6, <2>8
    <3>2. Range(u) = Range(t) \cup {r}
      <4>1. t \in Seq(V)
        BY <2>4
      <4>2. /\ DOMAIN t = 1..Len(t) /\ DOMAIN u = 1..Len(t) + 1 /\ Len(t) \in Nat
            /\ \A i \in 1..Len(t) : u[i] = t[i]
            /\ u[Len(t) + 1] = r
        BY <2>5, <3>1, <4>1
      <4>3. Range(u) \subseteq Range(t) \cup {r}
        BY <4>2 DEF Range
      <4>4. Range(t) \cup {r} \subseteq Range(u)
        BY <4>2 DEF Range
      <4> QED BY <4>3, <4>4
    <3>3. IsInjective(u)
      BY <2>4, <2>5, <2>8, <3>1 DEF IsInjective, Range
    <3>4. Range(u) \cap known = {}
      BY <2>4, <2>8, <3>2
    <3>5. \A i \in 1..k + 1 : s[i] \in known \cup Range(u)
      BY <2>4, <3>2 DEF r
    <3> QED BY <3>1, <3>3, <3>4, <3>5 DEF u
  <2> QED BY <2>7, <2>8
<1>7. Nat \subseteq G
  <2> HIDE DEF G
  <2> QED BY <1>5, <1>6, NatSetInduction
<1>8. Good(m, Fresh(b, known))
  BY <1>2, <1>4, <1>7
<1>9. Range(s) \subseteq known \cup Range(Fresh(b, known))
  BY <1>2, <1>8 DEF Range
<1> QED BY <1>8, <1>9 DEF s, V

-----------------------------------------------------------------------------
\* The shape of a trail that one writer writes: a head is followed by its tail
\* unless it is the last piece, tails follow their heads, and newlines their tails.
LineShape(t) ==
    \A k \in 1..Len(t) :
        /\ t[k].part = "head" /\ k < Len(t) =>
              t[k + 1] = [record_id |-> t[k].record_id, part |-> "tail"]
        /\ t[k].part = "tail" =>
              k > 1 /\ t[k - 1] = [record_id |-> t[k].record_id, part |-> "head"]
        /\ t[k].part = "newline" =>
              k > 1 /\ t[k - 1] = [record_id |-> t[k].record_id, part |-> "tail"]

HeadsDiffer(t) ==
    \A j, k \in 1..Len(t) :
        /\ t[j].part = "head" /\ t[k].part = "head"
        /\ t[j].record_id = t[k].record_id
        => j = k

\* Texts that share the line of the one before.
Glued(t) == {k \in 1..Len(t) : t[k].part = "head" /\ k > 1 /\ t[k - 1].part # "newline"}

WellFormed(t) ==
    /\ LineShape(t)
    /\ HeadsDiffer(t)
    /\ \A j, k \in Glued(t) : j = k

\* Nothing is torn: the trail ends with a newline, and every text has a line.
Complete(t) ==
    /\ Glued(t) = {}
    /\ t # <<>> => t[Len(t)].part = "newline"

\* The text of r is whole: its tail is there.
Kept(t, r) == \E k \in 1..Len(t) : t[k].part = "tail" /\ t[k].record_id = r

Parts == {"head", "tail", "newline"}

\* The pieces of Lines are three for each id, in this order.
LEMMA LinesAre ==
    ASSUME NEW V, NEW ids \in Seq(V)
    PROVE  /\ Lines(ids) \in Seq([record_id : V, part : Parts])
           /\ Len(ids) \in Nat /\ Len(Lines(ids)) = 3 * Len(ids)
           /\ \A i \in 1..Len(ids) :
                 /\ Lines(ids)[3 * i - 2] = [record_id |-> ids[i], part |-> "head"]
                 /\ Lines(ids)[3 * i - 1] = [record_id |-> ids[i], part |-> "tail"]
                 /\ Lines(ids)[3 * i] = [record_id |-> ids[i], part |-> "newline"]
           /\ \A k \in 1..3 * Len(ids) :
                 \E i \in 1..Len(ids) : k \in {3 * i - 2, 3 * i - 1, 3 * i}
<1> DEFINE L == 3 * Len(ids)
           line(k) == [record_id |-> ids[(k + 2) \div 3],
                       part |-> CASE k % 3 = 1 -> "head" [] k % 3 = 2 -> "tail"
                                  [] OTHER -> "newline"]
<1>1. Len(ids) \in Nat /\ L \in Nat
  OBVIOUS
<1>2. Lines(ids) = [k \in 1..L |-> line(k)]
  BY DEF Lines
<1>3. \A k \in 1..L : (k + 2) \div 3 \in 1..Len(ids)
  BY <1>1
<1>4. ASSUME NEW k \in 1..L PROVE line(k) \in [record_id : V, part : Parts]
  <2>1. ids[(k + 2) \div 3] \in V
    BY <1>3
  <2>2. line(k).part \in Parts
    BY DEF Parts
  <2> QED BY <2>1, <2>2
<1>5. ASSUME NEW i \in 1..Len(ids)
      PROVE  /\ 3 * i - 2 \in 1..L /\ 3 * i - 1 \in 1..L /\ 3 * i \in 1..L
             /\ ((3 * i - 2) + 2) \div 3 = i /\ (3 * i - 2) % 3 = 1
             /\ ((3 * i - 1) + 2) \div 3 = i /\ (3 * i - 1) % 3 = 2
             /\ (3 * i + 2) \div 3 = i /\ (3 * i) % 3 = 0
  BY <1>1
<1>6. ASSUME NEW k \in 1..L
      PROVE  \E i \in 1..Len(ids) : k \in {3 * i - 2, 3 * i - 1, 3 * i}
  <2>1. (k + 2) \div 3 \in 1..Len(ids)
    BY <1>3
  <2>2. k \in {3 * ((k + 2) \div 3) - 2, 3 * ((k + 2) \div 3) - 1, 3 * ((k + 2) \div 3)}
    BY <1>1
  <2> QED BY <2>1, <2>2
<1> HIDE DEF L
<1>7. Lines(ids) \in Seq([record_id : V, part : Parts]) /\ Len(Lines(ids)) = L
  <2> HIDE DEF line
  <2> QED BY <1>1, <1>2, <1>4
<1>8. ASSUME NEW i \in 1..Len(ids)
      PROVE  /\ Lines(ids)[3 * i - 2] = [record_id |-> ids[i], part |-> "head"]
             /\ Lines(ids)[3 * i - 1] = [record_id |-> ids[i], part |-> "tail"]
             /\ Lines(ids)[3 * i] = [record_id |-> ids[i], part |-> "newline"]
  <2>1. /\ Lines(ids)[3 * i - 2] = line(3 * i - 2)
        /\ Lines(ids)[3 * i - 1] = line(3 * i - 1)
        /\ Lines(ids)[3 * i] = line(3 * i)
    <3> HIDE DEF line
    <3> QED BY <1>2, <1>5
  <2>2. ASSUME NEW k, (k + 2) \div 3 = i
        PROVE  /\ k % 3 = 1 => line(k) = [record_id |-> ids[i], part |-> "head"]
               /\ k % 3 = 2 => line(k) = [record_id |-> ids[i], part |-> "tail"]
               /\ k % 3 = 0 => line(k) = [record_id |-> ids[i], part |-> "newline"]
    BY <2>2
  <2> HIDE DEF line
  <2> QED BY <1>5, <2>1, <2>2
<1> QED BY <1>1, <1>6, <1>7, <1>8 DEF L

\* So are lines of different ids, with nothing torn.
LEMMA LinesWellFormed ==
    ASSUME NEW V, NEW ids \in Seq(V), IsInjective(ids)
    PROVE  /\ LineShape(Lines(ids)) /\ HeadsDiffer(Lines(ids)) /\ Complete(Lines(ids))
           /\ \A k \in 1..Len(Lines(ids)) : Lines(ids)[k].record_id \in Range(ids)
           /\ \A r \in Range(ids) : Kept(Lines(ids), r)
<1> DEFINE l == Lines(ids)
           m == Len(ids)
<1>1. m \in Nat /\ Len(l) = 3 * m /\ DOMAIN ids = 1..m
  <2>1. m \in Nat /\ DOMAIN ids = 1..m
    OBVIOUS
  <2>2. Len(l) = 3 * m
    BY LinesAre
  <2> QED BY <2>1, <2>2
<1>2. l \in Seq([record_id : V, part : Parts])
  BY LinesAre
<1>3. ASSUME NEW i \in 1..m
      PROVE  /\ l[3 * i - 2] = [record_id |-> ids[i], part |-> "head"]
             /\ l[3 * i - 1] = [record_id |-> ids[i], part |-> "tail"]
             /\ l[3 * i] = [record_id |-> ids[i], part |-> "newline"]
  BY <1>3, LinesAre
<1>4. ASSUME NEW k \in 1..Len(l)
      PROVE  \E i \in 1..m : k \in {3 * i - 2, 3 * i - 1, 3 * i}
  BY <1>1, <1>4, LinesAre
<1> HIDE DEF l, m
\* What a piece tells about its place, and about its neighbours.
<1>5. ASSUME NEW k \in 1..Len(l)
      PROVE  \E i \in 1..m :
                /\ l[k].record_id = ids[i]
                /\ \/ k = 3 * i - 2 /\ l[k].part = "head"
                   \/ k = 3 * i - 1 /\ l[k].part = "tail"
                   \/ k = 3 * i /\ l[k].part = "newline"
  <2> PICK i \in 1..m : k \in {3 * i - 2, 3 * i - 1, 3 * i}
    BY <1>4
  <2>1. /\ l[3 * i - 2] = [record_id |-> ids[i], part |-> "head"]
        /\ l[3 * i - 1] = [record_id |-> ids[i], part |-> "tail"]
        /\ l[3 * i] = [record_id |-> ids[i], part |-> "newline"]
    BY <1>3
  <2>2. /\ k = 3 * i - 2 => l[k].record_id = ids[i] /\ l[k].part = "head"
        /\ k = 3 * i - 1 => l[k].record_id = ids[i] /\ l[k].part = "tail"
        /\ k = 3 * i => l[k].record_id = ids[i] /\ l[k].part = "newline"
    BY <2>1
  <2> QED BY <2>2
<1>6. LineShape(l)
  <2> SUFFICES ASSUME NEW k \in 1..Len(l)
               PROVE  /\ l[k].part = "head" /\ k < Len(l) =>
                            l[k + 1] = [record_id |-> l[k].record_id, part |-> "tail"]
                      /\ l[k].part = "tail" =>
                            k > 1 /\ l[k - 1] = [record_id |-> l[k].record_id, part |-> "head"]
                      /\ l[k].part = "newline" =>
                            k > 1 /\ l[k - 1] = [record_id |-> l[k].record_id, part |-> "tail"]
    BY DEF LineShape
  <2>1. PICK i \in 1..m :
           /\ l[k].record_id = ids[i]
           /\ \/ k = 3 * i - 2 /\ l[k].part = "head"
              \/ k = 3 * i - 1 /\ l[k].part = "tail"
              \/ k = 3 * i /\ l[k].part = "newline"
    BY <1>5
  <2>2. /\ l[3 * i - 2] = [record_id |-> ids[i], part |-> "head"]
        /\ l[3 * i - 1] = [record_id |-> ids[i], part |-> "tail"]
    BY <1>3
  <2>3. /\ (3 * i - 2) + 1 = 3 * i - 1 /\ (3 * i - 1) - 1 = 3 * i - 2
        /\ 3 * i - 1 > 1 /\ 3 * i > 1
    BY <1>1
  <2>4. CASE k = 3 * i - 2 /\ l[k].part = "head"
    BY <2>1, <2>2, <2>3, <2>4
  <2>5. CASE k = 3 * i - 1 /\ l[k].part = "tail"
    BY <2>1, <2>2, <2>3, <2>5
  <2>6. CASE k = 3 * i /\ l[k].part = "newline"
    BY <2>1, <2>2, <2>3, <2>6
  <2> QED BY <2>1, <2>4, <2>5, <2>6
<1>7. HeadsDiffer(l)
  <2> SUFFICES ASSUME NEW j \in 1..Len(l), NEW k \in 1..Len(l),
                      l[j].part = "head", l[k].part = "head", l[j].record_id = l[k].record_id
               PROVE  j = k
    BY DEF HeadsDiffer
  <2>1. PICK x \in 1..m : l[j].record_id = ids[x] /\ j = 3 * x - 2
    BY <1>5
  <2>2. PICK y \in 1..m : l[k].record_id = ids[y] /\ k = 3 * y - 2
    BY <1>5
  <2>3. x = y
    BY <1>1, <2>1, <2>2 DEF IsInjective
  <2> QED BY <2>1, <2>2, <2>3
<1>8. Complete(l)
  <2>1. ASSUME NEW k \in 1..Len(l), l[k].part = "head", k > 1
        PROVE  l[k - 1].part = "newline"
    <3>1. PICK i \in 1..m : k = 3 * i - 2
      BY <1>5, <2>1
    <3>2. i - 1 \in 1..m /\ k - 1 = 3 * (i - 1)
      BY <1>1, <2>1, <3>1
    <3>3. l[3 * (i - 1)] = [record_id |-> ids[i - 1], part |-> "newline"]
      BY <1>3, <3>2
    <3> QED BY <3>2, <3>3
  <2>2. Glued(l) = {}
    BY <2>1 DEF Glued
  <2>3. ASSUME l # <<>> PROVE l[Len(l)].part = "newline"
    <3>1. m # 0
      BY <1>1, <1>2, <2>3
    <3>2. m \in 1..m /\ Len(l) = 3 * m
      BY <1>1, <3>1
    <3>3. l[3 * m] = [record_id |-> ids[m], part |-> "newline"]
      BY <1>3, <3>2
    <3> QED BY <3>2, <3>3
  <2> QED BY <2>2, <2>3 DEF Complete
<1>9. ASSUME NEW k \in 1..Len(l) PROVE l[k].record_id \in Range(ids)
  BY <1>1, <1>5 DEF Range
<1>10. ASSUME NEW r \in Range(ids) PROVE Kept(l, r)
  <2>1. PICK i \in 1..m : r = ids[i]
    BY <1>1 DEF Range
  <2>2. 3 * i - 1 \in 1..Len(l)
    BY <1>1
  <2>3. l[3 * i - 1] = [record_id |-> ids[i], part |-> "tail"]
    BY <1>3
  <2>4. l[3 * i - 1].part = "tail" /\ l[3 * i - 1].record_id = r
    BY <2>1, <2>3
  <2> QED BY <2>2, <2>4 DEF Kept
<1> QED BY <1>6, <1>7, <1>8, <1>9, <1>10 DEF l

\* What is in the file is well formed if it is with what is still to come.
LEMMA PrefixWellFormed ==
    ASSUME NEW V, NEW t \in Seq(V), NEW u \in Seq(V), WellFormed(t \o u)
    PROVE  WellFormed(t)
<1> DEFINE c == t \o u
<1>1. /\ Len(t) \in Nat /\ Len(c) \in Nat /\ Len(t) <= Len(c)
      /\ \A k \in 1..Len(t) : c[k] = t[k]
  BY ConcatIs
<1> HIDE DEF c
<1>2. WellFormed(c)
  BY DEF c
<1>3. LineShape(t)
  <2> SUFFICES ASSUME NEW k \in 1..Len(t)
               PROVE  /\ t[k].part = "head" /\ k < Len(t) =>
                            t[k + 1] = [record_id |-> t[k].record_id, part |-> "tail"]
                      /\ t[k].part = "tail" =>
                            k > 1 /\ t[k - 1] = [record_id |-> t[k].record_id, part |-> "head"]
                      /\ t[k].part = "newline" =>
                            k > 1 /\ t[k - 1] = [record_id |-> t[k].record_id, part |-> "tail"]
    BY DEF LineShape
  <2>1. /\ k \in 1..Len(c) /\ c[k] = t[k]
        /\ k < Len(t) => k < Len(c) /\ c[k + 1] = t[k + 1]
        /\ k > 1 => c[k - 1] = t[k - 1]
    BY <1>1
  <2>2. /\ c[k].part = "head" /\ k < Len(c) =>
              c[k + 1] = [record_id |-> c[k].record_id, part |-> "tail"]
        /\ c[k].part = "tail" =>
              k > 1 /\ c[k - 1] = [record_id |-> c[k].record_id, part |-> "head"]
        /\ c[k].part = "newline" =>
              k > 1 /\ c[k - 1] = [record_id |-> c[k].record_id, part |-> "tail"]
    BY <1>2, <2>1 DEF WellFormed, LineShape
  <2> QED BY <2>1, <2>2
<1>4. HeadsDiffer(t)
  BY <1>1, <1>2 DEF WellFormed, HeadsDiffer
<1>5. Glued(t) \subseteq Glued(c)
  <2> SUFFICES ASSUME NEW k \in Glued(t) PROVE k \in Glued(c)
    OBVIOUS
  <2>1. k \in 1..Len(c) /\ c[k] = t[k] /\ (k > 1 => c[k - 1] = t[k - 1])
    BY <1>1 DEF Glued
  <2> QED BY <2>1 DEF Glued
<1> QED BY <1>2, <1>3, <1>4, <1>5 DEF WellFormed

\* A whole text stays one, whatever is appended.
LEMMA KeptLater ==
    ASSUME NEW V, NEW t \in Seq(V), NEW u \in Seq(V), NEW r
    PROVE  Kept(t, r) => Kept(t \o u, r)
<1>1. /\ Len(t) \in Nat /\ Len(t \o u) \in Nat /\ Len(t) <= Len(t \o u)
      /\ \A k \in 1..Len(t) : (t \o u)[k] = t[k]
  OBVIOUS
<1> QED BY <1>1 DEF Kept

LEMMA KeptAfter ==
    ASSUME NEW V, NEW t \in Seq(V), NEW u \in Seq(V), NEW r
    PROVE  Kept(u, r) => Kept(t \o u, r)
<1> SUFFICES ASSUME Kept(u, r) PROVE Kept(t \o u, r)
  OBVIOUS
<1>1. PICK k \in 1..Len(u) : u[k].part = "tail" /\ u[k].record_id = r
  BY DEF Kept
<1>2. Len(t) + k \in 1..Len(t \o u) /\ (t \o u)[Len(t) + k] = u[k]
  <2>1. /\ Len(t) \in Nat /\ Len(u) \in Nat /\ Len(t \o u) = Len(t) + Len(u)
        /\ \A j \in Len(t) + 1..Len(t) + Len(u) : (t \o u)[j] = u[j - Len(t)]
    BY ConcatIs
  <2>2. Len(t) + k \in Len(t) + 1..Len(t) + Len(u) /\ (Len(t) + k) - Len(t) = k
    BY <2>1
  <2> QED BY <2>1, <2>2
<1> QED BY <1>1, <1>2 DEF Kept

\* In a trail whose last piece is not a head every id has its tail.
LEMMA AllKept ==
    ASSUME NEW t, NEW V, t \in Seq([record_id : V, part : Parts]), LineShape(t),
           t[Len(t)].part # "head", NEW i \in 1..Len(t)
    PROVE  Kept(t, t[i].record_id)
<1>1. Len(t) \in Nat
  OBVIOUS
<1>2. t[i].part \in Parts
  <2> DEFINE R == [record_id : V, part : Parts]
  <2>1. t \in Seq(R)
    OBVIOUS
  <2>2. t[i] \in R
    <3> HIDE DEF R
    <3> QED BY <2>1
  <2> QED BY <2>2
<1>3. CASE t[i].part = "tail"
  BY <1>3 DEF Kept
<1>4. CASE t[i].part = "head"
  <2>1. i < Len(t) /\ i + 1 \in 1..Len(t)
    BY <1>1, <1>4
  <2>2. t[i + 1] = [record_id |-> t[i].record_id, part |-> "tail"]
    BY <1>4, <2>1 DEF LineShape
  <2>3. t[i + 1].record_id = t[i].record_id /\ t[i + 1].part = "tail"
    BY <2>2
  <2> QED BY <2>1, <2>3 DEF Kept
<1>5. CASE t[i].part = "newline"
  <2>1. i > 1 /\ t[i - 1] = [record_id |-> t[i].record_id, part |-> "tail"]
    BY <1>5 DEF LineShape
  <2>2. t[i - 1].record_id = t[i].record_id /\ t[i - 1].part = "tail"
    BY <2>1
  <2>3. i - 1 \in 1..Len(t)
    BY <2>1
  <2> QED BY <2>2, <2>3 DEF Kept
<1> QED BY <1>2, <1>3, <1>4, <1>5 DEF Parts

\* Two trails one after the other, of different ids, the first with no line that
\* two texts share and no head at its end: only the first text of the second may
\* then share a line, and it does not if the first ends with a newline.
LEMMA JoinWellFormed ==
    ASSUME NEW V, NEW t \in Seq([record_id : V, part : Parts]),
           NEW u \in Seq([record_id : V, part : Parts]),
           LineShape(t), HeadsDiffer(t), Glued(t) = {}, t # <<>> => t[Len(t)].part # "head",
           LineShape(u), HeadsDiffer(u), Complete(u),
           \A j \in 1..Len(t), k \in 1..Len(u) : t[j].record_id # u[k].record_id
    PROVE  WellFormed(t \o u) /\ (Complete(t) => Complete(t \o u))
<1> DEFINE c == t \o u
           n == Len(t)
           m == Len(u)
<1>1. /\ n \in Nat /\ m \in Nat /\ Len(c) = n + m
      /\ \A k \in 1..n : c[k] = t[k]
      /\ \A k \in n + 1..n + m : c[k] = u[k - n]
  <2> DEFINE R == [record_id : V, part : Parts]
  <2>1. t \in Seq(R) /\ u \in Seq(R)
    OBVIOUS
  <2> HIDE DEF R, c
  <2>2. /\ Len(t) \in Nat /\ Len(u) \in Nat /\ Len(t \o u) = Len(t) + Len(u)
        /\ \A k \in 1..Len(t) : (t \o u)[k] = t[k]
        /\ \A k \in Len(t) + 1..Len(t) + Len(u) : (t \o u)[k] = u[k - Len(t)]
    BY <2>1, ConcatIs
  <2> QED BY <2>2 DEF c
<1>2. \A k \in 1..Len(c) : \/ k \in 1..n /\ c[k] = t[k]
                           \/ k - n \in 1..m /\ c[k] = u[k - n]
  BY <1>1
<1>3. t # <<>> <=> n # 0
  OBVIOUS
<1> HIDE DEF c, n, m
<1>4. LineShape(c)
  <2> SUFFICES ASSUME NEW k \in 1..Len(c)
               PROVE  /\ c[k].part = "head" /\ k < Len(c) =>
                            c[k + 1] = [record_id |-> c[k].record_id, part |-> "tail"]
                      /\ c[k].part = "tail" =>
                            k > 1 /\ c[k - 1] = [record_id |-> c[k].record_id, part |-> "head"]
                      /\ c[k].part = "newline" =>
                            k > 1 /\ c[k - 1] = [record_id |-> c[k].record_id, part |-> "tail"]
    BY DEF LineShape
  <2>1. CASE k <= n
    <3>1. k \in 1..n /\ c[k] = t[k] /\ (k > 1 => c[k - 1] = t[k - 1])
      BY <1>1, <2>1
    <3>2. /\ t[k].part = "head" /\ k < n =>
                t[k + 1] = [record_id |-> t[k].record_id, part |-> "tail"]
          /\ t[k].part = "tail" =>
                k > 1 /\ t[k - 1] = [record_id |-> t[k].record_id, part |-> "head"]
          /\ t[k].part = "newline" =>
                k > 1 /\ t[k - 1] = [record_id |-> t[k].record_id, part |-> "tail"]
      BY <3>1 DEF LineShape, n
    <3>3. t[k].part = "head" => k < n
      <4>1. n # 0 /\ t[n].part # "head"
        BY <1>1, <1>3, <3>1 DEF n
      <4> QED BY <1>1, <3>1, <4>1
    <3>4. k < n => c[k + 1] = t[k + 1]
      BY <1>1, <3>1
    <3> QED BY <3>1, <3>2, <3>3, <3>4
  <2>2. CASE k > n
    <3> DEFINE j == k - n
    <3>1. /\ j \in 1..m /\ c[k] = u[j] /\ (j < m => c[k + 1] = u[j + 1])
          /\ j > 1 => k > 1 /\ c[k - 1] = u[j - 1]
          /\ k < Len(c) => j < m
      <4>1. j \in 1..m /\ c[k] = u[j] /\ (k < Len(c) => j < m)
        <5>1. k \in n + 1..n + m
          BY <1>1, <2>2
        <5>2. j \in 1..m /\ (k < Len(c) => j < m)
          BY <1>1, <5>1
        <5> QED BY <1>1, <5>1, <5>2
      <4>2. j < m => k + 1 \in n + 1..n + m /\ (k + 1) - n = j + 1
        BY <1>1, <2>2
      <4>3. j > 1 => k > 1 /\ k - 1 \in n + 1..n + m /\ (k - 1) - n = j - 1
        BY <1>1, <2>2
      <4> HIDE DEF j
      <4> QED BY <1>1, <4>1, <4>2, <4>3
    <3> HIDE DEF j
    <3>2. /\ u[j].part = "head" /\ j < m =>
                u[j + 1] = [record_id |-> u[j].record_id, part |-> "tail"]
          /\ u[j].part = "tail" =>
                j > 1 /\ u[j - 1] = [record_id |-> u[j].record_id, part |-> "head"]
          /\ u[j].part = "newline" =>
                j > 1 /\ u[j - 1] = [record_id |-> u[j].record_id, part |-> "tail"]
      BY <3>1 DEF LineShape, m
    <3> QED BY <3>1, <3>2
  <2> QED BY <1>1, <2>1, <2>2
<1>5. HeadsDiffer(c)
  <2> SUFFICES ASSUME NEW j \in 1..Len(c), NEW k \in 1..Len(c),
                      c[j].part = "head", c[k].part = "head", c[j].record_id = c[k].record_id
               PROVE  j = k
    BY DEF HeadsDiffer
  <2>1. \A x \in 1..n, y \in 1..m : t[x].record_id # u[y].record_id
    BY DEF n, m
  <2>2. CASE j \in 1..n /\ c[j] = t[j] /\ k \in 1..n /\ c[k] = t[k]
    BY <2>2 DEF HeadsDiffer, n
  <2>3. CASE j - n \in 1..m /\ c[j] = u[j - n] /\ k - n \in 1..m /\ c[k] = u[k - n]
    <3>1. j - n = k - n
      BY <2>3 DEF HeadsDiffer, m
    <3> QED BY <1>1, <3>1
  <2> QED BY <1>2, <2>1, <2>2, <2>3
<1>6. ASSUME NEW k \in Glued(c) PROVE k = n + 1 /\ n # 0 /\ t[n].part # "newline"
  <2>1. k \in 1..n + m /\ c[k].part = "head" /\ k > 1 /\ c[k - 1].part # "newline"
    BY <1>1 DEF Glued
  <2>2. ~(k <= n)
    <3> SUFFICES ASSUME k <= n PROVE FALSE
      OBVIOUS
    <3>1. k \in 1..n /\ c[k] = t[k] /\ c[k - 1] = t[k - 1]
      BY <1>1, <2>1
    <3>2. k \in Glued(t)
      BY <2>1, <3>1 DEF Glued, n
    <3> QED BY <3>2
  <2>3. ~(k > n + 1)
    <3> SUFFICES ASSUME k > n + 1 PROVE FALSE
      OBVIOUS
    <3>1. /\ k - n \in 1..m /\ k - n > 1 /\ k \in n + 1..n + m
          /\ k - 1 \in n + 1..n + m /\ (k - 1) - n = (k - n) - 1
      BY <1>1, <2>1
    <3>2. c[k] = u[k - n] /\ c[k - 1] = u[(k - n) - 1]
      BY <1>1, <3>1
    <3>3. k - n \in Glued(u)
      BY <2>1, <3>1, <3>2 DEF Glued, m
    <3> QED BY <3>3 DEF Complete
  <2>4. k = n + 1
    BY <1>1, <2>1, <2>2, <2>3
  <2>5. n # 0 /\ n \in 1..n /\ k - 1 = n
    BY <1>1, <2>1, <2>4
  <2> QED BY <1>1, <2>1, <2>4, <2>5
<1>7. WellFormed(c)
  BY <1>4, <1>5, <1>6 DEF WellFormed
<1>8. ASSUME Complete(t) PROVE Complete(c)
  <2>1. Glued(c) = {}
    BY <1>3, <1>6, <1>8 DEF Complete, n
  <2>2. ASSUME Len(c) # 0 PROVE c[Len(c)].part = "newline"
    <3>1. CASE m = 0
      <4>1. n # 0 /\ Len(c) = n /\ n \in 1..n
        BY <1>1, <2>2, <3>1
      <4> QED BY <1>1, <1>3, <1>8, <4>1 DEF Complete, n
    <3>2. CASE m # 0
      <4>1. u # <<>> /\ Len(c) \in n + 1..n + m /\ Len(c) - n = m
        BY <1>1, <3>2 DEF m
      <4>2. c[Len(c)] = u[m]
        BY <1>1, <4>1
      <4> QED BY <4>1, <4>2 DEF Complete, m
    <3> QED BY <3>1, <3>2
  <2>3. c # <<>> => Len(c) # 0
    <3>1. c \in Seq([record_id : V, part : Parts])
      BY DEF c
    <3> QED BY <3>1
  <2> QED BY <2>1, <2>2, <2>3 DEF Complete
<1> QED BY <1>7, <1>8 DEF c

-----------------------------------------------------------------------------
\* Every batch is a sequence, of ids and NoId.
LEMMA BatchIds ==
    ASSUME NEW b \in AllBatches \cup {<<>>}
    PROVE  b \in Seq(Range(b)) /\ Range(b) \ {NoId} \subseteq Ids
<1>1. CASE b \in AllBatches
  <2>1. b \in Seq(Range(b))
    BY <1>1, AuditAssumption
  <2>2. Range(b) \in {Range(x) : x \in AllBatches}
    BY <1>1
  <2> QED BY <2>1, <2>2 DEF Ids
<1>2. CASE b = <<>>
  BY <1>2 DEF Range
<1> QED BY <1>1, <1>2

\* There is a batch for every run that may begin.
LEMMA RunIs ==
    ASSUME NEW n \in Nat, n < Len(RunBatches)
    PROVE  n + 1 \in 0..Len(RunBatches) /\ RunBatches[n + 1] \in AllBatches
<1>1. RunBatches \in Seq(Range(RunBatches))
  BY AuditAssumption
<1>2. n + 1 \in 0..Len(RunBatches) /\ n + 1 \in DOMAIN RunBatches
  BY <1>1
<1> QED BY <1>2 DEF AllBatches, Range

\* What append_many is about to write are lines of ids.
LEMMA LinesType ==
    ASSUME NEW b \in AllBatches \cup {<<>>}, NEW known
    PROVE  Lines(Fresh(b, known)) \in Seq(Pieces)
<1>1. Fresh(b, known) \in Seq(Ids)
  <2>1. b \in Seq(Range(b)) /\ Range(b) \ {NoId} \subseteq Ids
    BY BatchIds
  <2>2. Fresh(b, known) \in Seq(Range(b) \ {NoId})
    BY <2>1, FreshIs
  <2> QED BY <2>1, <2>2
<1> QED BY <1>1, LinesAre DEF Pieces, Parts

LEMMA TypeInit == Init => TypeOK
<1> SUFFICES ASSUME Init PROVE TypeOK
  OBVIOUS
<1>1. Len(RunBatches) \in Nat /\ MaxAppends \in Nat
  BY AuditAssumption
<1> QED BY <1>1 DEF Init, TypeOK

\* Stop leaves a writer idle, with nothing.
LEMMA StopTypes ==
    ASSUME TypeOK, NEW w \in Writers, Stop(w)
    PROVE  /\ step' \in [Writers -> {"idle", "save_model", "write_log", "known_ids", "write",
                                     "build"}]
           /\ number' \in [Writers -> 0..Len(RunBatches)]
           /\ entries' \in [Writers -> AllBatches \cup {<<>>}]
           /\ buffer' \in [Writers -> Seq(Pieces)]
           /\ runs' \in 0..Len(RunBatches)
           /\ appends' \in 0..MaxAppends
<1>1. Len(RunBatches) \in Nat /\ 0 \in 0..Len(RunBatches)
  BY AuditAssumption
<1> QED BY <1>1 DEF TypeOK, Stop, Goto

\* Every step of a writer at work keeps the types.
LEMMA TypeWrite ==
    ASSUME TypeOK, NEW w \in Writers, Write(w)
    PROVE  TypeOK'
<1> USE DEF TypeOK
<1>1. CASE SaveModel(w)
  BY <1>1 DEF SaveModel, Goto
<1>2. CASE WriteLog(w)
  BY <1>2 DEF WriteLog, Goto
<1>3. CASE ReadKnownIds(w)
  <2>1. Lines(Fresh(entries[w], known_ids)) \in Seq(Pieces)
    BY LinesType
  <2>2. buffer' \in [Writers -> Seq(Pieces)]
    BY <1>3, <2>1 DEF ReadKnownIds
  <2> QED BY <1>3, <2>2 DEF ReadKnownIds, Goto, diskVars
<1>4. CASE ReadFails(w)
  BY <1>4, StopTypes DEF ReadFails, diskVars
<1>5. CASE FlushChunk(w)
  <2>1. PICK n \in 1..Len(buffer[w]) - 1 :
           /\ trail' = trail \o SubSeq(buffer[w], 1, n)
           /\ buffer' = [buffer EXCEPT ![w] = SubSeq(buffer[w], n + 1, Len(buffer[w]))]
    BY <1>5 DEF FlushChunk
  <2>2. /\ SubSeq(buffer[w], 1, n) \in Seq(Pieces)
        /\ SubSeq(buffer[w], n + 1, Len(buffer[w])) \in Seq(Pieces)
    OBVIOUS
  <2>3. trail' \in Seq(Pieces)
    BY <2>1, <2>2
  <2>4. buffer' \in [Writers -> Seq(Pieces)]
    BY <2>1, <2>2
  <2> QED BY <1>5, <2>3, <2>4 DEF FlushChunk
<1>6. CASE CloseTrail(w)
  <2>1. trail' \in Seq(Pieces)
    BY <1>6 DEF CloseTrail
  <2>2. Range(entries[w]) \subseteq Ids
    BY <1>6, BatchIds DEF CloseTrail
  <2>3. buffer' \in [Writers -> Seq(Pieces)]
    BY <1>6 DEF CloseTrail
  <2> QED BY <1>6, <2>1, <2>2, <2>3 DEF CloseTrail, Goto
<1>7. CASE CloseAndRaise(w)
  <2>1. trail' \in Seq(Pieces)
    BY <1>7 DEF CloseAndRaise
  <2> QED BY <1>7, <2>1, StopTypes DEF CloseAndRaise
<1>8. CASE BuildDashboard(w)
  <2>1. dashboard' \in 0..Len(RunBatches)
    BY <1>8 DEF BuildDashboard
  <2> QED BY <1>8, <2>1, StopTypes DEF BuildDashboard
<1>9. CASE Return(w)
  BY <1>9, StopTypes DEF Return, diskVars
<1> QED BY <1>1, <1>2, <1>3, <1>4, <1>5, <1>6, <1>7, <1>8, <1>9 DEF Write

LEMMA TypeStep == TypeOK /\ [Next]_vars => TypeOK'
<1> SUFFICES ASSUME TypeOK, [Next]_vars PROVE TypeOK'
  OBVIOUS
<1> USE DEF TypeOK
<1>1. CASE UNCHANGED vars
  BY <1>1 DEF vars, diskVars
<1>2. ASSUME NEW w \in Writers, BeginRun(w) PROVE TypeOK'
  <2>1. Len(RunBatches) \in Nat
    BY AuditAssumption
  <2>2. runs + 1 \in 0..Len(RunBatches) /\ RunBatches[runs + 1] \in AllBatches
    BY <1>2, <2>1, RunIs DEF BeginRun
  <2>3. /\ number' \in [Writers -> 0..Len(RunBatches)]
        /\ entries' \in [Writers -> AllBatches \cup {<<>>}]
        /\ runs' \in 0..Len(RunBatches)
    BY <1>2, <2>2 DEF BeginRun
  <2>4. model' \in 0..Len(RunBatches)
    BY <1>2, <2>1 DEF BeginRun
  <2> QED BY <1>2, <2>3, <2>4 DEF BeginRun, Goto
<1>3. ASSUME NEW w \in Writers, AppendBatch(w) PROVE TypeOK'
  <2>1. appends' \in 0..MaxAppends
    BY <1>3, AuditAssumption DEF AppendBatch
  <2>2. entries' \in [Writers -> AllBatches \cup {<<>>}]
    BY <1>3 DEF AppendBatch, AllBatches
  <2> QED BY <1>3, <2>1, <2>2 DEF AppendBatch, Goto, diskVars
<1>4. ASSUME NEW w \in Writers, Write(w) PROVE TypeOK'
  BY <1>4, TypeWrite
<1>5. ASSUME NEW w \in Writers, Crash(w) PROVE TypeOK'
  <2>1. Len(RunBatches) \in Nat
    BY AuditAssumption
  <2>2. decisions' \in 0..Len(RunBatches) /\ dashboard' \in 0..Len(RunBatches)
    BY <1>5, <2>1 DEF Crash
  <2> QED BY <1>5, <2>2, StopTypes DEF Crash
<1> QED BY <1>1, <1>2, <1>3, <1>4, <1>5 DEF Next, Rest

-----------------------------------------------------------------------------
\* The trail is well formed, with and without what its writer has not flushed; a
\* batch that was appended is in whole texts, and one that is being written will
\* be.  This is what a writer relies on that killed another one: the trail it
\* could read has no torn text, and the known ids are those of whole ones.
TrailInv ==
    /\ TypeOK
    /\ WellFormed(trail)
    /\ \A r \in returned : Kept(trail, r)
    /\ \A w \in Writers :
          /\ step[w] # "write" => buffer[w] = <<>>
          /\ step[w] = "write" =>
                /\ WellFormed(trail \o buffer[w])
                /\ \A r \in Range(Recorded(entries[w])) : Kept(trail \o buffer[w], r)

LEMMA EmptyTrail == WellFormed(<<>>) /\ Complete(<<>>)
BY DEF WellFormed, LineShape, HeadsDiffer, Glued, Complete

LEMMA TrailInit == Init => TrailInv
<1> SUFFICES ASSUME Init PROVE TrailInv
  OBVIOUS
<1>1. TypeOK
  BY TypeInit
<1> QED BY <1>1, EmptyTrail DEF Init, TrailInv

\* In a trail that can be read no texts share a line, and the last one is whole.
LEMMA ReadableIsWhole ==
    ASSUME TypeOK, Readable
    PROVE  Glued(trail) = {} /\ (trail # <<>> => trail[Len(trail)].part # "head")
<1>1. Len(trail) \in Nat
  BY DEF TypeOK
<1>2. \A k \in 1..Len(trail) : trail[k].part = "head" => Row(k)
  BY DEF Readable
<1>3. Glued(trail) = {}
  BY <1>2 DEF Glued, Row, StartsLine
<1>4. ASSUME trail # <<>>, trail[Len(trail)].part = "head" PROVE FALSE
  <2>1. Len(trail) \in 1..Len(trail)
    BY <1>1, <1>4 DEF TypeOK
  <2>2. Len(trail) < Len(trail)
    BY <1>2, <1>4, <2>1 DEF Row, Text
  <2> QED BY <1>1, <2>2
<1> QED BY <1>3, <1>4

\* A writer that could read the trail plans whole texts of new ids after it; if
\* nothing was torn before, nothing will be.
LEMMA PlanIs ==
    ASSUME TrailInv, NEW w \in Writers, ReadKnownIds(w)
    PROVE  LET c == trail \o Lines(Fresh(entries[w], known_ids)) IN
               /\ WellFormed(c)
               /\ Complete(trail) => Complete(c)
               /\ \A r \in Range(Recorded(entries[w])) : Kept(c, r)
<1> DEFINE new == Fresh(entries[w], known_ids)
           l == Lines(new)
           c == trail \o l
<1>1. /\ trail \in Seq([record_id : Ids, part : Parts])
      /\ LineShape(trail) /\ HeadsDiffer(trail)
      /\ Glued(trail) = {} /\ (trail # <<>> => trail[Len(trail)].part # "head")
  BY ReadableIsWhole DEF TrailInv, ReadKnownIds, TypeOK, Pieces, Parts, WellFormed
<1>2. /\ new \in Seq(Ids) /\ IsInjective(new)
      /\ Range(new) \cap known_ids = {}
      /\ Range(Recorded(entries[w])) \subseteq known_ids \cup Range(new)
  <2>1. /\ entries[w] \in Seq(Range(entries[w]))
        /\ Range(entries[w]) \ {NoId} \subseteq Ids
    BY BatchIds DEF TrailInv, TypeOK
  <2>2. new \in Seq(Range(entries[w]) \ {NoId})
    BY <2>1, FreshIs
  <2>3. /\ IsInjective(new)
        /\ Range(new) \cap known_ids = {}
        /\ Range(Recorded(entries[w])) \subseteq known_ids \cup Range(new)
    BY <2>1, FreshIs
  <2> HIDE DEF new
  <2>4. new \in Seq(Ids)
    BY <2>1, <2>2
  <2> QED BY <2>3, <2>4
<1> HIDE DEF new
<1>3. l \in Seq([record_id : Ids, part : Parts])
  BY <1>2, LinesAre
<1>4. /\ LineShape(l) /\ HeadsDiffer(l) /\ Complete(l)
      /\ \A k \in 1..Len(l) : l[k].record_id \in Range(new)
      /\ \A r \in Range(new) : Kept(l, r)
  BY <1>2, LinesWellFormed
<1> HIDE DEF l
<1>5. \A i \in 1..Len(trail) : trail[i].record_id \in known_ids
  BY DEF known_ids
<1>6. \A j \in 1..Len(trail), k \in 1..Len(l) : trail[j].record_id # l[k].record_id
  BY <1>2, <1>4, <1>5
<1>7. WellFormed(c) /\ (Complete(trail) => Complete(c))
  BY <1>1, <1>3, <1>4, <1>6, JoinWellFormed
<1>8. \A r \in known_ids : Kept(c, r)
  <2> SUFFICES ASSUME NEW r \in known_ids PROVE Kept(c, r)
    OBVIOUS
  <2>1. PICK i \in 1..Len(trail) : r = trail[i].record_id
    BY DEF known_ids
  <2>2. trail # <<>>
    BY <2>1
  <2>3. Kept(trail, r)
    BY <1>1, <2>1, <2>2, AllKept
  <2> QED BY <1>1, <1>3, <2>3, KeptLater
<1>9. \A r \in Range(new) : Kept(c, r)
  BY <1>1, <1>3, <1>4, KeptAfter
<1>10. \A r \in Range(Recorded(entries[w])) : Kept(c, r)
  BY <1>2, <1>8, <1>9
<1> QED BY <1>7, <1>10 DEF c, l, new

LEMMA TrailRead ==
    ASSUME TrailInv, NEW w \in Writers, \A v \in Writers : v = w, ReadKnownIds(w)
    PROVE  TrailInv'
<1> DEFINE l == Lines(Fresh(entries[w], known_ids))
           c == trail \o l
<1>1. TypeOK'
  BY TypeWrite DEF TrailInv, Write
<1>2. WellFormed(c) /\ \A r \in Range(Recorded(entries[w])) : Kept(c, r)
  BY PlanIs
<1>3. /\ trail' = trail /\ returned' = returned /\ entries' = entries
      /\ buffer'[w] = l /\ step'[w] = "write"
  BY DEF ReadKnownIds, Goto, diskVars, TrailInv, TypeOK
<1> HIDE DEF l
<1>4. trail' \o buffer'[w] = c
  BY <1>3
<1> HIDE DEF c
<1>5. \A v \in Writers :
          /\ step'[v] # "write" => buffer'[v] = <<>>
          /\ step'[v] = "write" =>
                /\ WellFormed(trail' \o buffer'[v])
                /\ \A r \in Range(Recorded(entries'[v])) : Kept(trail' \o buffer'[v], r)
  BY <1>2, <1>3, <1>4
<1>6. WellFormed(trail') /\ \A r \in returned' : Kept(trail', r)
  BY <1>3 DEF TrailInv
<1> QED BY <1>1, <1>5, <1>6 DEF TrailInv

\* A chunk moves from the buffer to the file: together they stay what they were.
LEMMA TrailFlush ==
    ASSUME TrailInv, NEW w \in Writers, \A v \in Writers : v = w, FlushChunk(w)
    PROVE  TrailInv'
<1>1. TypeOK'
  BY TypeWrite DEF TrailInv, Write
<1>2. PICK n \in 1..Len(buffer[w]) - 1 :
         /\ trail' = trail \o SubSeq(buffer[w], 1, n)
         /\ buffer' = [buffer EXCEPT ![w] = SubSeq(buffer[w], n + 1, Len(buffer[w]))]
  BY DEF FlushChunk
<1> DEFINE t == trail
           b == buffer[w]
           chunk == SubSeq(b, 1, n)
           rest == SubSeq(b, n + 1, Len(b))
<1>3. t \in Seq(Pieces) /\ b \in Seq(Pieces)
  BY DEF TrailInv, TypeOK
<1>4. /\ trail' = t \o chunk /\ buffer'[w] = rest
      /\ returned' = returned /\ entries' = entries /\ step' = step /\ step[w] = "write"
  BY <1>2 DEF FlushChunk, TrailInv, TypeOK
<1> HIDE DEF t, b
<1>5. chunk \in Seq(Pieces) /\ rest \in Seq(Pieces) /\ t \o chunk \in Seq(Pieces)
  BY <1>2, <1>3 DEF b
<1>6. (t \o chunk) \o rest = t \o b
  BY <1>2, <1>3, MoveChunk DEF b
<1> DEFINE c == t \o b
<1>7. /\ WellFormed(c)
      /\ \A r \in Range(Recorded(entries[w])) : Kept(c, r)
  BY <1>4 DEF TrailInv, t, b
<1>8. WellFormed(trail')
  BY <1>4, <1>5, <1>6, <1>7, PrefixWellFormed
<1>9. \A r \in returned' : Kept(trail', r)
  <2>1. \A r \in returned : Kept(t, r)
    BY DEF TrailInv, t
  <2> QED BY <1>3, <1>4, <1>5, <2>1, KeptLater
<1>10. trail' \o buffer'[w] = c
  BY <1>4, <1>6
<1> HIDE DEF c
<1>11. \A v \in Writers :
          /\ step'[v] # "write" => buffer'[v] = <<>>
          /\ step'[v] = "write" =>
                /\ WellFormed(trail' \o buffer'[v])
                /\ \A r \in Range(Recorded(entries'[v])) : Kept(trail' \o buffer'[v], r)
  BY <1>4, <1>7, <1>10
<1> QED BY <1>1, <1>8, <1>9, <1>11 DEF TrailInv

\* The file is closed: the whole batch is in it.
LEMMA TrailClose ==
    ASSUME TrailInv, NEW w \in Writers, \A v \in Writers : v = w,
           CloseTrail(w) \/ CloseAndRaise(w)
    PROVE  TrailInv'
<1>1. TypeOK'
  BY TypeWrite DEF TrailInv, Write
<1> DEFINE c == trail \o buffer[w]
<1>2. /\ trail' = c /\ buffer'[w] = <<>> /\ step'[w] # "write" /\ step[w] = "write"
  BY DEF CloseTrail, CloseAndRaise, Stop, Goto, TrailInv, TypeOK
<1>3. /\ WellFormed(c)
      /\ \A r \in Range(Recorded(entries[w])) : Kept(c, r)
  BY <1>2 DEF TrailInv
<1>4. \A r \in returned : Kept(c, r)
  BY KeptLater DEF TrailInv, TypeOK
<1>5. returned' \subseteq returned \cup Range(Recorded(entries[w]))
  <2>1. CASE CloseTrail(w)
    <3>1. Recorded(entries[w]) = entries[w]
      BY <2>1, BatchIds, RecordedIs DEF CloseTrail, TrailInv, TypeOK
    <3> QED BY <2>1, <3>1 DEF CloseTrail
  <2>2. CASE CloseAndRaise(w)
    BY <2>2 DEF CloseAndRaise
  <2> QED BY <2>1, <2>2
<1> HIDE DEF c
<1>6. \A r \in returned' : Kept(trail', r)
  BY <1>2, <1>3, <1>4, <1>5
<1>7. \A v \in Writers : step'[v] # "write" /\ buffer'[v] = <<>>
  BY <1>2
<1> QED BY <1>1, <1>2, <1>3, <1>6, <1>7 DEF TrailInv

LEMMA TrailStep ==
    ASSUME \A v, w \in Writers : v = w, TrailInv, [Next]_vars
    PROVE  TrailInv'
<1>1. TypeOK'
  BY TypeStep DEF TrailInv
\* All other steps leave the trail alone, and the writer with an empty buffer.
<1>2. ASSUME NEW w \in Writers, UNCHANGED <<trail, returned>>,
             step'[w] # "write", buffer'[w] = <<>>
      PROVE  TrailInv'
  <2>1. \A v \in Writers : step'[v] # "write" /\ buffer'[v] = <<>>
    BY <1>2
  <2> QED BY <1>1, <1>2, <2>1 DEF TrailInv
<1>3. CASE UNCHANGED vars
  BY <1>1, <1>3 DEF TrailInv, vars, diskVars
<1>4. ASSUME NEW w \in Writers, ReadKnownIds(w) PROVE TrailInv'
  BY <1>4, TrailRead
<1>5. ASSUME NEW w \in Writers, FlushChunk(w) PROVE TrailInv'
  BY <1>5, TrailFlush
<1>6. ASSUME NEW w \in Writers, CloseTrail(w) \/ CloseAndRaise(w) PROVE TrailInv'
  BY <1>6, TrailClose
<1>7. ASSUME NEW w \in Writers,
             BeginRun(w) \/ AppendBatch(w) \/ SaveModel(w) \/ WriteLog(w)
      PROVE  TrailInv'
  <2>1. step'[w] # "write" /\ buffer'[w] = <<>> /\ UNCHANGED <<trail, returned>>
    BY <1>7 DEF BeginRun, AppendBatch, SaveModel, WriteLog, Goto, diskVars, TrailInv, TypeOK
  <2> QED BY <1>2, <2>1
<1>8. ASSUME NEW w \in Writers,
             ReadFails(w) \/ BuildDashboard(w) \/ Return(w) \/ Crash(w)
      PROVE  TrailInv'
  <2>1. step'[w] # "write" /\ buffer'[w] = <<>> /\ UNCHANGED <<trail, returned>>
    BY <1>8 DEF ReadFails, BuildDashboard, Return, Crash, Stop, Goto, diskVars, TrailInv,
                TypeOK
  <2> QED BY <1>2, <2>1
<1> QED BY <1>3, <1>4, <1>5, <1>6, <1>7, <1>8 DEF Next, Write, Rest

\* The invariant holds of one writer, for any number of runs, appends and kills.
LEMMA TrailHolds ==
    ASSUME \A v, w \in Writers : v = w
    PROVE  Spec => []TrailInv
<1>1. TrailInv /\ [Next]_vars => TrailInv'
  BY TrailStep
<1> QED BY <1>1, TrailInit, PTL DEF Spec

\* With one writer no piece of a line is twice in the trail, for every number of
\* runs and appends, replayed or not, and killed between any two pieces.
THEOREM NeverTwice ==
    ASSUME \A v, w \in Writers : v = w
    PROVE  Spec => []NoDuplicates
<1>1. TrailInv => NoDuplicates
  <2> SUFFICES ASSUME TrailInv, NEW i \in 1..Len(trail), NEW j \in 1..Len(trail),
                      trail[i] = trail[j]
               PROVE  i = j
    BY DEF NoDuplicates
  <2>1. LineShape(trail) /\ HeadsDiffer(trail) /\ trail[i].part \in Parts
    <3>1. trail[i] \in Pieces
      BY DEF TrailInv, TypeOK
    <3>2. trail[i].part \in Parts
      BY <3>1 DEF Pieces, Parts
    <3> QED BY <3>2 DEF TrailInv, WellFormed
  <2>2. ASSUME NEW x \in 1..Len(trail), NEW y \in 1..Len(trail), trail[x] = trail[y],
               trail[x].part = "tail"
        PROVE  x = y
    <3>1. /\ x > 1 /\ trail[x - 1] = [record_id |-> trail[x].record_id, part |-> "head"]
          /\ y > 1 /\ trail[y - 1] = [record_id |-> trail[y].record_id, part |-> "head"]
      BY <2>1, <2>2 DEF LineShape
    <3>2. /\ x - 1 \in 1..Len(trail) /\ y - 1 \in 1..Len(trail)
          /\ trail[x - 1].part = "head" /\ trail[y - 1].part = "head"
          /\ trail[x - 1].record_id = trail[y - 1].record_id
      BY <2>2, <3>1
    <3>3. x - 1 = y - 1
      BY <2>1, <3>2 DEF HeadsDiffer
    <3> QED BY <3>3
  <2>3. CASE trail[i].part = "head"
    BY <2>1, <2>3 DEF HeadsDiffer
  <2>4. CASE trail[i].part = "tail"
    BY <2>2, <2>4
  <2>5. CASE trail[i].part = "newline"
    <3>1. /\ i > 1 /\ trail[i - 1] = [record_id |-> trail[i].record_id, part |-> "tail"]
          /\ j > 1 /\ trail[j - 1] = [record_id |-> trail[j].record_id, part |-> "tail"]
      BY <2>1, <2>5 DEF LineShape
    <3>2. /\ i - 1 \in 1..Len(trail) /\ j - 1 \in 1..Len(trail)
          /\ trail[i - 1] = trail[j - 1] /\ trail[i - 1].part = "tail"
      BY <3>1
    <3>3. i - 1 = j - 1
      BY <2>2, <3>2
    <3> QED BY <3>3
  <2> QED BY <2>1, <2>3, <2>4, <2>5 DEF Parts
<1> QED BY <1>1, TrailHolds, PTL

\* With one writer no text but the last is torn and no two share the line of the
\* one before, wherever runs are killed: in a text, or between it and its newline.
THEOREM DamageBounded ==
    ASSUME \A v, w \in Writers : v = w
    PROVE  Spec => []DamageIsBounded
<1>1. TrailInv => DamageIsBounded
  <2> SUFFICES ASSUME TrailInv PROVE DamageIsBounded
    OBVIOUS
  <2>1. LineShape(trail) /\ Len(trail) \in Nat /\ \A j, k \in Glued(trail) : j = k
    BY DEF TrailInv, TypeOK, WellFormed
  <2>2. ASSUME NEW i \in 1..Len(trail) - 1, IsHead(i) PROVE Text(i)
    <3>1. i \in 1..Len(trail) /\ i < Len(trail)
      BY <2>1
    <3>2. trail[i + 1] = [record_id |-> trail[i].record_id, part |-> "tail"]
      BY <2>1, <2>2, <3>1 DEF LineShape, IsHead
    <3>3. trail[i] \in Pieces
      BY <3>1 DEF TrailInv, TypeOK
    <3>4. trail[i + 1] = [trail[i] EXCEPT !.part = "tail"]
      BY <3>2, <3>3 DEF Pieces
    <3> QED BY <2>2, <3>1, <3>4 DEF Text
  <2>3. {k \in 1..Len(trail) : IsHead(k) /\ ~StartsLine(k)} = Glued(trail)
    BY DEF Glued, IsHead, StartsLine
  <2> QED BY <2>1, <2>2, <2>3, Zenon DEF DamageIsBounded
<1> QED BY <1>1, TrailHolds, PTL

-----------------------------------------------------------------------------
\* Where the whole texts of a trail begin.
Texts(t) == {i \in 1..Len(t) : /\ t[i].part = "head" /\ i < Len(t)
                               /\ t[i + 1] = [t[i] EXCEPT !.part = "tail"]}

LEMMA StoredForm ==
    StoredIds = [k \in 1..Cardinality(Texts(trail)) |->
                    trail[Kth(Texts(trail), k)].record_id]
<1> DEFINE heads == {i \in 1..Len(trail) : Text(i)}
           kth(k) == CHOOSE i \in heads : Cardinality({j \in heads : j <= i}) = k
<1>1. heads = Texts(trail)
  BY DEF Text, IsHead, Texts
<1>2. StoredIds = [k \in 1..Cardinality(heads) |-> trail[kth(k)].record_id]
  BY Zenon DEF StoredIds
<1> HIDE DEF heads
<1>3. \A k : kth(k) = Kth(heads, k)
  BY Zenon DEF Kth, NotAfter
<1> HIDE DEF kth
<1> QED BY <1>1, <1>2, <1>3

\* The trail only grows, at its end, and what was returned stays returned.
LEMMA TrailGrows ==
    ASSUME TypeOK, [Next]_vars
    PROVE  /\ Len(trail) <= Len(trail')
           /\ \A k \in 1..Len(trail) : trail'[k] = trail[k]
           /\ returned \subseteq returned'
<1> DEFINE Grows == /\ Len(trail) <= Len(trail')
                    /\ \A k \in 1..Len(trail) : trail'[k] = trail[k]
                    /\ returned \subseteq returned'
<1>1. trail \in Seq(Pieces) /\ Len(trail) \in Nat
  BY DEF TypeOK
<1>2. ASSUME UNCHANGED <<trail, returned>> PROVE Grows
  BY <1>1, <1>2
<1>3. ASSUME NEW u \in Seq(Pieces), trail' = trail \o u, returned \subseteq returned'
      PROVE  Grows
  <2>1. /\ Len(u) \in Nat /\ Len(trail \o u) = Len(trail) + Len(u)
        /\ \A k \in 1..Len(trail) : (trail \o u)[k] = trail[k]
    BY <1>1, ConcatIs
  <2> QED BY <1>1, <1>3, <2>1
<1>4. ASSUME NEW w \in Writers, FlushChunk(w) PROVE Grows
  <2>1. PICK m \in 1..Len(buffer[w]) - 1 : trail' = trail \o SubSeq(buffer[w], 1, m)
    BY <1>4 DEF FlushChunk
  <2>2. SubSeq(buffer[w], 1, m) \in Seq(Pieces)
    BY DEF TypeOK
  <2>3. returned \subseteq returned'
    BY <1>4 DEF FlushChunk
  <2> HIDE DEF Grows
  <2> QED BY <1>3, <2>1, <2>2, <2>3
<1>5. ASSUME NEW w \in Writers, CloseTrail(w) \/ CloseAndRaise(w) PROVE Grows
  <2>1. trail' = trail \o buffer[w] /\ buffer[w] \in Seq(Pieces) /\ returned \subseteq returned'
    BY <1>5 DEF CloseTrail, CloseAndRaise, TypeOK
  <2> HIDE DEF Grows
  <2> QED BY <1>3, <2>1
<1> HIDE DEF Grows
<1>6. ASSUME NEW w \in Writers,
             \/ BeginRun(w) \/ AppendBatch(w) \/ SaveModel(w) \/ WriteLog(w)
             \/ ReadKnownIds(w) \/ ReadFails(w) \/ BuildDashboard(w) \/ Return(w) \/ Crash(w)
      PROVE  Grows
  BY <1>2, <1>6 DEF BeginRun, AppendBatch, SaveModel, WriteLog, ReadKnownIds, ReadFails,
                    BuildDashboard, Return, Crash, diskVars
<1>7. CASE UNCHANGED vars
  BY <1>2, <1>7 DEF vars, diskVars
<1> QED BY <1>4, <1>5, <1>6, <1>7 DEF Next, Write, Rest, Grows

\* Every step of one writer extends the abstract trail.
LEMMA TrailExtends ==
    ASSUME TrailInv, TrailInv', [Next]_vars
    PROVE  Promise!Extend
<1> DEFINE n == Len(trail')
           H == Texts(trail)
           K == Texts(trail')
           h == Cardinality(H)
           l == Cardinality(K)
<1>1. StoredIds = [k \in 1..h |-> trail[Kth(H, k)].record_id]
  BY StoredForm
<1>2. StoredIds' = [k \in 1..l |-> trail'[Kth(K, k)].record_id]
  <2>1. (StoredIds = [k \in 1..Cardinality(Texts(trail)) |->
                         trail[Kth(Texts(trail), k)].record_id])'
    BY StoredForm, PTL
  <2> QED BY <2>1
<1>3. /\ Len(trail) \in Nat /\ n \in Nat /\ Len(trail) <= n
      /\ \A k \in 1..Len(trail) : trail'[k] = trail[k]
      /\ returned \subseteq returned'
  <2>1. TypeOK /\ TypeOK'
    BY DEF TrailInv
  <2>2. Len(trail) \in Nat /\ Len(trail') \in Nat
    BY <2>1 DEF TypeOK
  <2> QED BY <2>1, <2>2, TrailGrows, Zenon
<1>4. LineShape(trail') /\ HeadsDiffer(trail') /\ \A r \in returned' : Kept(trail', r)
  BY DEF TrailInv, WellFormed
<1>5. \A k \in 1..n : trail'[k] \in Pieces
  BY DEF TrailInv, TypeOK
\* A text that is whole stays so; one that becomes whole comes after all of them.
<1>6. H \in SUBSET K /\ \A i \in H, j \in K \ H : i < j
  <2>1. ASSUME NEW i \in H PROVE i \in K
    <3>1. /\ i \in 1..Len(trail) /\ i + 1 \in 1..Len(trail) /\ i < Len(trail)
          /\ i \in 1..n /\ i < n
          /\ trail[i].part = "head" /\ trail[i + 1] = [trail[i] EXCEPT !.part = "tail"]
      BY <1>3 DEF Texts
    <3>2. trail'[i] = trail[i] /\ trail'[i + 1] = trail[i + 1]
      BY <1>3, <3>1
    <3> QED BY <3>1, <3>2 DEF Texts
  <2>2. ASSUME NEW i \in H, NEW j \in K \ H PROVE i < j
    <3>1. i \in 1..Len(trail) /\ i < Len(trail)
      BY DEF Texts
    <3>2. /\ j \in 1..n /\ trail'[j].part = "head"
          /\ trail'[j + 1] = [trail'[j] EXCEPT !.part = "tail"]
      BY DEF Texts
    <3>3. ASSUME j < Len(trail) PROVE FALSE
      <4>1. j \in 1..Len(trail) /\ j + 1 \in 1..Len(trail)
        BY <1>3, <3>2, <3>3
      <4>2. trail'[j] = trail[j] /\ trail'[j + 1] = trail[j + 1]
        BY <1>3, <4>1
      <4>3. j \in H
        BY <3>2, <3>3, <4>1, <4>2 DEF Texts
      <4> QED BY <4>3
    <3> QED BY <1>3, <3>1, <3>2, <3>3
  <2> HIDE DEF H, K
  <2> QED BY <2>1, <2>2
<1>7. K \in SUBSET (1..n) /\ \A k \in K : trail'[k].part = "head"
  BY DEF Texts
<1>8. \A k \in H : trail'[k] = trail[k]
  BY <1>3 DEF Texts
<1>9. ASSUME NEW r \in returned' PROVE \E k \in K : trail'[k].record_id = r
  <2>1. PICK i \in 1..n : trail'[i].part = "tail" /\ trail'[i].record_id = r
    BY <1>4 DEF Kept
  <2>2. i > 1 /\ trail'[i - 1] = [record_id |-> r, part |-> "head"]
    BY <1>4, <2>1 DEF LineShape
  <2>3. i - 1 \in 1..n /\ i - 1 < n /\ (i - 1) + 1 = i
    <3>1. n \in Nat /\ i \in 1..n /\ i > 1
      BY <1>3, <2>1, <2>2
    <3> HIDE DEF n
    <3> QED BY ONLY <3>1
  <2>4. trail'[i - 1].part = "head" /\ trail'[i - 1].record_id = r
    BY <2>2
  <2>5. trail'[i] = [record_id |-> r, part |-> "tail"]
    BY <1>5, <2>1 DEF Pieces
  <2>6. trail'[(i - 1) + 1] = [trail'[i - 1] EXCEPT !.part = "tail"]
    BY <2>2, <2>3, <2>5
  <2>7. i - 1 \in K
    BY <2>3, <2>4, <2>6 DEF Texts
  <2> QED BY <2>4, <2>7
<1> HIDE DEF H, K, n
<1>10. h \in Nat /\ l \in Nat
  <2>1. H \in SUBSET (1..n)
    BY <1>6, <1>7
  <2> QED BY <1>3, <1>7, <2>1, CountIs
<1>11. \A k \in 1..h : k \in 1..l /\ Kth(K, k) = Kth(H, k) /\ Kth(H, k) \in H
  <2>1. H \in SUBSET (1..n)
    BY <1>6, <1>7
  <2> QED BY <1>3, <1>6, <1>7, <2>1, KthLater, KthIs
<1>12. \A k \in 1..l : Kth(K, k) \in K /\ Cardinality(NotAfter(K, Kth(K, k))) = k
  BY <1>3, <1>7, KthIs
<1> HIDE DEF h, l
<1>13. h <= l
  BY <1>10, <1>11
<1> DEFINE s == StoredIds
           u == StoredIds'
<1>14. /\ s \in Seq(Range(s)) /\ Len(s) = h /\ DOMAIN s = 1..h
       /\ u \in Seq(Range(u)) /\ Len(u) = l /\ DOMAIN u = 1..l
  <2>1. DOMAIN s = 1..h /\ s = [k \in 1..h |-> s[k]]
    BY <1>1
  <2>2. DOMAIN u = 1..l /\ u = [k \in 1..l |-> u[k]]
    BY <1>2
  <2> HIDE DEF s, u
  <2>3. s \in Seq(Range(s)) /\ Len(s) = h
    BY <1>10, <2>1, SeqOfFunction
  <2>4. u \in Seq(Range(u)) /\ Len(u) = l
    BY <1>10, <2>2, SeqOfFunction
  <2> QED BY <2>1, <2>2, <2>3, <2>4
<1>15. \A k \in 1..l : u[k] = trail'[Kth(K, k)].record_id
  BY <1>2
<1>16. \A k \in 1..h : s[k] = u[k]
  <2> SUFFICES ASSUME NEW k \in 1..h PROVE s[k] = u[k]
    OBVIOUS
  <2>1. k \in 1..l /\ Kth(K, k) = Kth(H, k) /\ Kth(H, k) \in H
    BY <1>11
  <2>2. s[k] = trail[Kth(H, k)].record_id
    BY <1>1
  <2>3. u[k] = trail'[Kth(H, k)].record_id
    BY <1>15, <2>1
  <2> QED BY <1>8, <2>1, <2>2, <2>3
<1> HIDE DEF s, u
<1>17. IsInjective(u)
  <2> SUFFICES ASSUME NEW j \in 1..l, NEW k \in 1..l, u[j] = u[k] PROVE j = k
    BY <1>14 DEF IsInjective
  <2>1. Kth(K, j) \in 1..n /\ Kth(K, k) \in 1..n
    BY <1>7, <1>12
  <2>2. /\ trail'[Kth(K, j)].part = "head" /\ trail'[Kth(K, k)].part = "head"
        /\ trail'[Kth(K, j)].record_id = trail'[Kth(K, k)].record_id
    BY <1>7, <1>12, <1>15
  <2>3. Kth(K, j) = Kth(K, k)
    BY <1>4, <2>1, <2>2 DEF HeadsDiffer, n
  <2> QED BY <1>12, <2>3
<1>18. returned' \subseteq Range(u)
  <2> SUFFICES ASSUME NEW r \in returned' PROVE r \in Range(u)
    OBVIOUS
  <2>1. PICK i \in K : trail'[i].record_id = r
    BY <1>9
  <2> DEFINE k == Cardinality(NotAfter(K, i))
  <2>2. k \in 1..l
    BY <1>3, <1>7, CountIs DEF l
  <2>3. Kth(K, k) = i
    BY <1>3, <1>7, <1>12, <2>2, CountIs
  <2>4. u[k] = r
    BY <1>15, <2>1, <2>2, <2>3
  <2> QED BY <1>14, <2>2, <2>4 DEF Range
<1>19. IsPrefix(s, u)
  <2>1. SubSeq(s, 1, Len(s)) = SubSeq(u, 1, Len(s))
    BY <1>10, <1>13, <1>14, <1>16
  <2> QED BY <1>10, <1>13, <1>14, <2>1 DEF IsPrefix
<1>20. /\ IsPrefix(StoredIds, StoredIds') /\ IsInjective(StoredIds')
       /\ returned \subseteq returned' /\ returned' \subseteq Range(StoredIds')
  BY <1>3, <1>17, <1>18, <1>19 DEF s, u
<1> QED BY <1>20, Zenon DEF Promise!Extend, Promise!IsPrefix, Promise!IsInjective,
                            Promise!Range, IsPrefix, IsInjective, Range

\* The texts of one writer's file, with its buffer, its chunks and what kills tear,
\* are an append-only trail without duplicates that keeps what it promised, for
\* every number of runs and appends, killed anywhere.
THEOREM TrailRefines ==
    ASSUME \A v, w \in Writers : v = w
    PROVE  Spec => ImplementsTrail
<1>1. Init => Promise!Init
  <2> SUFFICES ASSUME Init PROVE StoredIds = <<>> /\ returned = {}
    BY DEF Promise!Init
  <2>1. trail = <<>> /\ returned = {}
    BY DEF Init
  <2>2. Texts(trail) = {}
    BY <2>1 DEF Texts
  <2>3. Cardinality(Texts(trail)) = 0
    BY <2>2, FS_EmptySet
  <2>4. StoredIds = [k \in 1..0 |-> trail[Kth(Texts(trail), k)].record_id]
    BY <2>3, StoredForm
  <2> QED BY <2>1, <2>4
<1>2. TrailInv /\ TrailInv' /\ [Next]_vars => [Promise!Extend]_<<StoredIds, returned>>
  BY TrailExtends
<1> QED BY <1>1, <1>2, TrailHolds, PTL DEF Spec, ImplementsTrail, Promise!Spec

-----------------------------------------------------------------------------
\* Without kills one writer leaves nothing torn: what is in the file together with
\* what is still to come is complete.
CleanInv ==
    /\ TrailInv
    /\ \A w \in Writers : step[w] = "write" => Complete(trail \o buffer[w])
    /\ (\A w \in Writers : step[w] # "write") => Complete(trail)

\* A complete trail can be read.
LEMMA CompleteIsReadable ==
    ASSUME TypeOK, WellFormed(trail), Complete(trail)
    PROVE  Readable
<1>1. LineShape(trail) /\ Len(trail) \in Nat /\ \A k \in 1..Len(trail) : trail[k] \in Pieces
  BY DEF WellFormed, TypeOK
<1>2. ASSUME NEW k \in 1..Len(trail), trail[k].part # "newline" PROVE k < Len(trail)
  <2>1. trail # <<>>
    BY <1>2
  <2> QED BY <1>1, <1>2, <2>1 DEF Complete
<1>3. ASSUME NEW i \in 1..Len(trail), trail[i].part = "head" PROVE Row(i)
  <2>1. i < Len(trail) /\ i + 1 \in 1..Len(trail)
    BY <1>1, <1>2, <1>3
  <2>2. trail[i + 1] = [record_id |-> trail[i].record_id, part |-> "tail"]
    BY <1>1, <1>3, <2>1 DEF LineShape
  <2>3. trail[i + 1].part = "tail" /\ trail[i] \in Pieces
    BY <1>1, <2>2
  <2>4. trail[i + 1] = [trail[i] EXCEPT !.part = "tail"]
    BY <2>2, <2>3 DEF Pieces
  <2>5. i + 1 < Len(trail) /\ i + 2 \in 1..Len(trail) /\ (i + 2) - 1 = i + 1
    BY <1>1, <1>2, <2>1, <2>3
  <2>6. trail[i + 2].part = "newline"
    <3>1. ASSUME trail[i + 2].part = "tail" PROVE FALSE
      <4>1. trail[(i + 2) - 1] = [record_id |-> trail[i + 2].record_id, part |-> "head"]
        BY <1>1, <2>5, <3>1 DEF LineShape
      <4>2. trail[i + 1].part = "head"
        BY <2>5, <4>1
      <4> QED BY <2>3, <4>2
    <3>2. trail[i + 2].part # "head"
      BY <2>3, <2>5 DEF Complete, Glued
    <3>3. trail[i + 2].part \in Parts
      BY <1>1, <2>5 DEF Pieces, Parts
    <3> QED BY <3>1, <3>2, <3>3 DEF Parts
  <2>7. i > 1 => trail[i - 1].part = "newline"
    BY <1>3 DEF Complete, Glued
  <2>8. (i + 1) + 1 = i + 2
    OBVIOUS
  <2> QED BY <1>3, <2>1, <2>4, <2>6, <2>7, <2>8 DEF Row, StartsLine, EndsLine, Text, IsHead
<1>4. ASSUME NEW i \in 1..Len(trail), trail[i].part = "tail" PROVE i > 1 /\ Row(i - 1)
  <2>1. i > 1 /\ trail[i - 1] = [record_id |-> trail[i].record_id, part |-> "head"]
    BY <1>1, <1>4 DEF LineShape
  <2>2. i - 1 \in 1..Len(trail) /\ trail[i - 1].part = "head"
    BY <2>1
  <2> QED BY <1>3, <2>1, <2>2
<1>5. \A i \in 1..Len(trail) : trail[i].part \in Parts
  BY <1>1 DEF Pieces, Parts
<1> QED BY <1>3, <1>4, <1>5 DEF Readable, Parts

LEMMA CleanStep ==
    ASSUME \A v, w \in Writers : v = w, ~CrashAllowed, CleanInv, [Next]_vars
    PROVE  CleanInv'
<1>1. TrailInv'
  BY TrailStep DEF CleanInv
<1>2. TrailInv /\ TypeOK
  BY DEF CleanInv, TrailInv
<1>3. CASE UNCHANGED vars
  BY <1>1, <1>3 DEF CleanInv, vars, diskVars
<1>4. ASSUME NEW w \in Writers, ReadKnownIds(w) PROVE CleanInv'
  <2> DEFINE l == Lines(Fresh(entries[w], known_ids))
  <2>1. Complete(trail)
    BY <1>4 DEF CleanInv, ReadKnownIds
  <2>2. Complete(trail \o l)
    BY <1>2, <1>4, <2>1, PlanIs
  <2>3. trail' = trail /\ buffer'[w] = l /\ step'[w] = "write"
    BY <1>2, <1>4 DEF ReadKnownIds, Goto, diskVars, TypeOK
  <2> HIDE DEF l
  <2>4. \A v \in Writers : step'[v] = "write" /\ Complete(trail' \o buffer'[v])
    BY <2>2, <2>3
  <2> QED BY <1>1, <2>3, <2>4 DEF CleanInv
<1>5. ASSUME NEW w \in Writers, FlushChunk(w) PROVE CleanInv'
  <2>1. PICK n \in 1..Len(buffer[w]) - 1 :
           /\ trail' = trail \o SubSeq(buffer[w], 1, n)
           /\ buffer' = [buffer EXCEPT ![w] = SubSeq(buffer[w], n + 1, Len(buffer[w]))]
    BY <1>5 DEF FlushChunk
  <2>2. trail \in Seq(Pieces) /\ buffer[w] \in Seq(Pieces)
    BY <1>2 DEF TypeOK
  <2>3. buffer'[w] = SubSeq(buffer[w], n + 1, Len(buffer[w]))
    BY <1>2, <2>1 DEF TypeOK
  <2>4. trail' \o buffer'[w] = trail \o buffer[w]
    <3> DEFINE t == trail
               b == buffer[w]
    <3>1. /\ t \in Seq(Pieces) /\ b \in Seq(Pieces)
          /\ trail' = t \o SubSeq(b, 1, n) /\ buffer'[w] = SubSeq(b, n + 1, Len(b))
          /\ n \in 1..Len(b) - 1
      BY <2>1, <2>2, <2>3
    <3> HIDE DEF t, b
    <3>2. trail' \o buffer'[w] = t \o b
      BY <3>1, MoveChunk
    <3> QED BY <3>2 DEF t, b
  <2>5. step[w] = "write" /\ step'[w] = "write"
    BY <1>5 DEF FlushChunk
  <2>6. Complete(trail \o buffer[w])
    BY <2>5 DEF CleanInv
  <2>7. \A v \in Writers : step'[v] = "write" /\ Complete(trail' \o buffer'[v])
    BY <2>4, <2>5, <2>6
  <2> QED BY <1>1, <2>5, <2>7 DEF CleanInv
<1>6. ASSUME NEW w \in Writers, CloseTrail(w) \/ CloseAndRaise(w) PROVE CleanInv'
  <2>1. /\ trail' = trail \o buffer[w] /\ step[w] = "write" /\ step'[w] # "write"
    BY <1>2, <1>6 DEF CloseTrail, CloseAndRaise, Stop, Goto, TypeOK
  <2>2. Complete(trail')
    BY <2>1 DEF CleanInv
  <2>3. \A v \in Writers : step'[v] # "write"
    BY <2>1
  <2> QED BY <1>1, <2>2, <2>3 DEF CleanInv
\* All other steps leave the trail alone.
<1>7. ASSUME NEW w \in Writers, step[w] # "write", step'[w] # "write", trail' = trail
      PROVE  CleanInv'
  <2>1. Complete(trail)
    BY <1>7 DEF CleanInv
  <2>2. \A v \in Writers : step'[v] # "write"
    BY <1>7
  <2> QED BY <1>1, <1>7, <2>1, <2>2 DEF CleanInv
<1>8. ASSUME NEW w \in Writers,
             \/ BeginRun(w) \/ AppendBatch(w) \/ SaveModel(w) \/ WriteLog(w)
             \/ ReadFails(w) \/ BuildDashboard(w) \/ Return(w)
      PROVE  CleanInv'
  <2>1. step[w] # "write" /\ step'[w] # "write" /\ trail' = trail
    BY <1>2, <1>8 DEF BeginRun, AppendBatch, SaveModel, WriteLog, ReadFails, BuildDashboard,
                      Return, Stop, Goto, diskVars, TypeOK
  <2> QED BY <1>7, <2>1
<1>9. ASSUME NEW w \in Writers, Crash(w) PROVE CleanInv'
  BY <1>9 DEF Crash
<1> QED BY <1>3, <1>4, <1>5, <1>6, <1>8, <1>9 DEF Next, Write, Rest

\* One writer that is never killed leaves a trail that every reader gets through:
\* it takes a kill for what was appended not to be read back.
THEOREM UnkilledIsReadable ==
    ASSUME \A v, w \in Writers : v = w, ~CrashAllowed
    PROVE  Spec => []ReturnedIsReadable
<1>1. Init => CleanInv
  <2> SUFFICES ASSUME Init PROVE CleanInv
    OBVIOUS
  <2>1. TrailInv
    BY TrailInit
  <2>2. trail = <<>> /\ \A w \in Writers : step[w] # "write"
    BY DEF Init
  <2> QED BY <2>1, <2>2, EmptyTrail DEF CleanInv
<1>2. CleanInv /\ [Next]_vars => CleanInv'
  BY CleanStep
<1>3. CleanInv => ReturnedIsReadable
  <2> SUFFICES ASSUME CleanInv, returned # {}, \A w \in Writers : step[w] = "idle"
               PROVE  Readable
    BY DEF ReturnedIsReadable
  <2>1. TypeOK /\ WellFormed(trail)
    BY DEF CleanInv, TrailInv
  <2>2. Complete(trail)
    BY DEF CleanInv
  <2> QED BY <2>1, <2>2, CompleteIsReadable
<1> QED BY <1>1, <1>2, <1>3, PTL DEF Spec

-----------------------------------------------------------------------------
\* Only the holder of the lock looks at the cache; it loads only into an empty
\* one; and who has a model, or had one, has the one that is cached.
DemoInv ==
    /\ at \in [Threads -> {"idle", "validated", "locked", "load", "score"}]
    /\ DOMAIN got = Threads
    /\ \A t \in Threads : at[t] \in {"locked", "load"} => lock = t
    /\ \A t \in Threads : at[t] = "load" => cached = 0
    /\ \A t \in Threads : at[t] = "score" => got[t] = cached /\ cached # 0
    /\ \A m \in used : m = cached /\ m # 0

LEMMA DemoInit == LiveInit => DemoInv
BY DEF LiveInit, ServerInit, DemoInv

\* Runs and build_demo_data touch none of the server's variables.
LEMMA DemoServer == DemoInv /\ UNCHANGED serverVars => DemoInv'
BY DEF DemoInv, serverVars

LEMMA DemoServe ==
    ASSUME DemoInv, NEW t \in Threads,
           Evaluate(t) \/ Acquire(t) \/ GetModel(t) \/ SignDecision(t)
    PROVE  DemoInv'
<1>1. CASE Evaluate(t)
  BY <1>1 DEF DemoInv, Evaluate, MoveTo
<1>2. CASE Acquire(t)
  <2>1. \A u \in Threads : at[u] \notin {"locked", "load"}
    BY <1>2, DemoAssumption DEF DemoInv, Acquire
  <2> QED BY <1>2, <2>1 DEF DemoInv, Acquire, MoveTo
<1>3. CASE GetModel(t)
  <2>1. \A u \in Threads : u # t => at[u] \notin {"locked", "load"}
    BY <1>3 DEF DemoInv, GetModel, UseCached, FindNone, Load, LoadRaises
  <2>2. CASE UseCached(t)
    BY <2>1, <2>2 DEF DemoInv, UseCached, MoveTo
  <2>3. CASE FindNone(t)
    BY <2>1, <2>3 DEF DemoInv, FindNone, MoveTo
  <2>4. CASE Load(t)
    <3>1. /\ cached = 0 /\ used = {}
          /\ \A u \in Threads : at[u] # "score"
      BY <2>4 DEF DemoInv, Load
    <3> QED BY <2>1, <2>4, <3>1 DEF DemoInv, Load, MoveTo
  <2>5. CASE LoadRaises(t)
    BY <2>1, <2>5 DEF DemoInv, LoadRaises, MoveTo
  <2> QED BY <1>3, <2>2, <2>3, <2>4, <2>5 DEF GetModel
<1>4. CASE SignDecision(t)
  BY <1>4 DEF DemoInv, SignDecision, MoveTo
<1> QED BY <1>1, <1>2, <1>3, <1>4

LEMMA DemoStep == DemoInv /\ [LiveNext]_liveVars => DemoInv'
<1> SUFFICES ASSUME DemoInv, [LiveNext]_liveVars PROVE DemoInv'
  OBVIOUS
<1>1. CASE Next /\ UNCHANGED <<scenarios, serverVars>>
  BY <1>1, DemoServer
<1>2. CASE BuildDemoData
  BY <1>2, DemoServer DEF BuildDemoData
<1>3. CASE Serve
  BY <1>3, DemoServe DEF Serve
<1>4. CASE Restart
  BY <1>4 DEF DemoInv, Restart
<1>5. CASE UNCHANGED liveVars
  BY <1>5, DemoServer DEF liveVars
<1> QED BY <1>1, <1>2, <1>3, <1>4, <1>5 DEF LiveNext

\* All live decisions of one server life are taken with one model, for every
\* number of threads and runs.
THEOREM OneModel == LiveSpec => []OneModelPerLife
<1>1. LiveSpec => []DemoInv
  BY DemoInit, DemoStep, PTL DEF LiveSpec
<1>2. DemoInv => OneModelPerLife
  BY DEF DemoInv, OneModelPerLife
<1> QED BY <1>1, <1>2, PTL

-----------------------------------------------------------------------------
\* A writer that is a run works on the batch of that run, and builds after its
\* append has returned.
BackedInv ==
    /\ DOMAIN step = Writers /\ DOMAIN number = Writers /\ DOMAIN entries = Writers
    /\ \A w \in Writers : step[w] = "idle" => number[w] = 0
    /\ \A w \in Writers : number[w] # 0 => entries[w] = RunBatches[number[w]]
    /\ \A w \in Writers :
          step[w] = "build" /\ number[w] # 0 => Range(entries[w]) \subseteq returned
    /\ DashboardIsBacked

LEMMA BackedInit == LiveInit => BackedInv
BY DEF LiveInit, Init, BackedInv, DashboardIsBacked

LEMMA BackedWrite ==
    ASSUME BackedInv, NEW w \in Writers, Write(w)
    PROVE  BackedInv'
<1>1. CASE SaveModel(w)
  BY <1>1 DEF BackedInv, SaveModel, Goto, DashboardIsBacked
<1>2. CASE WriteLog(w)
  BY <1>2 DEF BackedInv, WriteLog, Goto, DashboardIsBacked
<1>3. CASE ReadKnownIds(w)
  BY <1>3 DEF BackedInv, ReadKnownIds, Goto, diskVars, DashboardIsBacked
<1>4. CASE ReadFails(w)
  BY <1>4 DEF BackedInv, ReadFails, Stop, Goto, diskVars, DashboardIsBacked
<1>5. CASE FlushChunk(w)
  BY <1>5 DEF BackedInv, FlushChunk, DashboardIsBacked
<1>6. CASE CloseTrail(w)
  BY <1>6 DEF BackedInv, CloseTrail, Goto, DashboardIsBacked
<1>7. CASE CloseAndRaise(w)
  BY <1>7 DEF BackedInv, CloseAndRaise, Stop, Goto, DashboardIsBacked
<1>8. CASE BuildDashboard(w)
  BY <1>8 DEF BackedInv, BuildDashboard, Stop, Goto, DashboardIsBacked
<1>9. CASE Return(w)
  BY <1>9 DEF BackedInv, Return, Stop, Goto, diskVars, DashboardIsBacked
<1> QED BY <1>1, <1>2, <1>3, <1>4, <1>5, <1>6, <1>7, <1>8, <1>9 DEF Write

LEMMA BackedStep == BackedInv /\ [LiveNext]_liveVars => BackedInv'
<1> SUFFICES ASSUME BackedInv, [LiveNext]_liveVars PROVE BackedInv'
  OBVIOUS
<1>1. CASE \E w \in Writers : BeginRun(w) \/ AppendBatch(w) \/ Write(w) \/ Crash(w)
  <2> PICK w \in Writers : BeginRun(w) \/ AppendBatch(w) \/ Write(w) \/ Crash(w)
    BY <1>1
  <2>1. CASE BeginRun(w)
    BY <2>1 DEF BackedInv, BeginRun, Goto, DashboardIsBacked
  <2>2. CASE AppendBatch(w)
    BY <2>2 DEF BackedInv, AppendBatch, Goto, diskVars, DashboardIsBacked
  <2>3. CASE Write(w)
    BY <2>3, BackedWrite
  <2>4. CASE Crash(w)
    BY <2>4 DEF BackedInv, Crash, Stop, Goto, DashboardIsBacked
  <2> QED BY <2>1, <2>2, <2>3, <2>4
<1>2. CASE UNCHANGED vars
  BY <1>2 DEF BackedInv, vars, diskVars, DashboardIsBacked
<1>3. CASE BuildDemoData \/ Serve \/ Restart
  BY <1>2, <1>3 DEF BuildDemoData, Serve, Restart, Evaluate, Acquire, GetModel, UseCached,
                    FindNone, Load, LoadRaises, SignDecision
<1> QED BY <1>1, <1>2, <1>3 DEF LiveNext, Next, Rest, liveVars

\* Whatever the dashboard shows is durably in the trail, for every number of runs,
\* appends and writers, killed anywhere.
THEOREM Backed == LiveSpec => []DashboardIsBacked
<1>1. BackedInv => DashboardIsBacked
  BY DEF BackedInv
<1> QED BY <1>1, BackedInit, BackedStep, PTL DEF LiveSpec

-----------------------------------------------------------------------------
\* One writer: the run at work is the last that began, and from the moment its
\* model is saved the files that can be read are its own or older.
OrderInv ==
    /\ DOMAIN step = Writers /\ DOMAIN number = Writers
    /\ runs \in Nat
    /\ model \in 0..runs /\ decisions \in 0..runs
    /\ dashboard \in 0..runs /\ scenarios \in 0..runs
    /\ \A w \in Writers :
          /\ number[w] \in {0, runs}
          /\ step[w] = "idle" => number[w] = 0
          /\ step[w] \in {"save_model", "write_log"} => number[w] # 0
          /\ step[w] # "save_model" /\ number[w] # 0 => model = runs
          /\ step[w] \in {"known_ids", "write", "build"} /\ number[w] # 0 => decisions = runs
    /\ FilesInOrder

LEMMA OrderInit == LiveInit => OrderInv
BY DEF LiveInit, Init, OrderInv, FilesInOrder, Derived

LEMMA OrderWrite ==
    ASSUME OrderInv, NEW w \in Writers, \A v \in Writers : v = w,
           Write(w), UNCHANGED scenarios
    PROVE  OrderInv'
<1>1. CASE SaveModel(w)
  BY <1>1 DEF OrderInv, SaveModel, Goto, FilesInOrder, Derived
<1>2. CASE WriteLog(w)
  BY <1>2 DEF OrderInv, WriteLog, Goto, FilesInOrder, Derived
<1>3. CASE ReadKnownIds(w)
  BY <1>3 DEF OrderInv, ReadKnownIds, Goto, diskVars, FilesInOrder, Derived
<1>4. CASE ReadFails(w)
  BY <1>4 DEF OrderInv, ReadFails, Stop, Goto, diskVars, FilesInOrder, Derived
<1>5. CASE FlushChunk(w)
  BY <1>5 DEF OrderInv, FlushChunk, FilesInOrder, Derived
<1>6. CASE CloseTrail(w)
  BY <1>6 DEF OrderInv, CloseTrail, Goto, FilesInOrder, Derived
<1>7. CASE CloseAndRaise(w)
  BY <1>7 DEF OrderInv, CloseAndRaise, Stop, Goto, FilesInOrder, Derived
<1>8. CASE BuildDashboard(w)
  BY <1>8 DEF OrderInv, BuildDashboard, Stop, Goto, FilesInOrder, Derived
<1>9. CASE Return(w)
  BY <1>9 DEF OrderInv, Return, Stop, Goto, diskVars, FilesInOrder, Derived
<1> QED BY <1>1, <1>2, <1>3, <1>4, <1>5, <1>6, <1>7, <1>8, <1>9 DEF Write

LEMMA OrderStep ==
    ASSUME \A v, w \in Writers : v = w, OrderInv, [LiveNext]_liveVars
    PROVE  OrderInv'
<1>1. CASE Next /\ UNCHANGED <<scenarios, serverVars>>
  <2>1. CASE Rest
    BY <1>1, <2>1 DEF OrderInv, Rest, vars, diskVars, FilesInOrder, Derived
  <2>2. ASSUME NEW w \in Writers, BeginRun(w) PROVE OrderInv'
    BY <1>1, <2>2 DEF OrderInv, BeginRun, Goto, FilesInOrder, Derived
  <2>3. ASSUME NEW w \in Writers, AppendBatch(w) PROVE OrderInv'
    BY <1>1, <2>3 DEF OrderInv, AppendBatch, Goto, diskVars, FilesInOrder, Derived
  <2>4. ASSUME NEW w \in Writers, Write(w) PROVE OrderInv'
    BY <1>1, <2>4, OrderWrite
  <2>5. ASSUME NEW w \in Writers, Crash(w) PROVE OrderInv'
    BY <1>1, <2>5 DEF OrderInv, Crash, Stop, Goto, FilesInOrder, Derived
  <2> QED BY <1>1, <2>1, <2>2, <2>3, <2>4, <2>5 DEF Next
<1>2. CASE BuildDemoData
  BY <1>2 DEF OrderInv, BuildDemoData, vars, diskVars, FilesInOrder, Derived
<1>3. CASE UNCHANGED <<vars, scenarios>>
  BY <1>3 DEF OrderInv, vars, diskVars, FilesInOrder, Derived
<1>4. CASE Serve \/ Restart
  BY <1>3, <1>4 DEF Serve, Restart, Evaluate, Acquire, GetModel, UseCached, FindNone, Load,
                    LoadRaises, SignDecision
<1> QED BY <1>1, <1>2, <1>3, <1>4 DEF LiveNext, liveVars

\* With one writer no readable file is of an earlier run than one derived from it,
\* for every number of runs, killed anywhere, and every number of rebuilds.
THEOREM InOrder ==
    ASSUME \A v, w \in Writers : v = w
    PROVE  LiveSpec => []FilesInOrder
<1>1. OrderInv => FilesInOrder
  BY DEF OrderInv
<1>2. OrderInv /\ [LiveNext]_liveVars => OrderInv'
  BY OrderStep
<1> QED BY <1>1, <1>2, OrderInit, PTL DEF LiveSpec

-----------------------------------------------------------------------------
LEMMA LiveTypeStep == LiveTypeOK /\ [LiveNext]_liveVars => LiveTypeOK'
<1> SUFFICES ASSUME LiveTypeOK, [LiveNext]_liveVars PROVE LiveTypeOK'
  OBVIOUS
<1>1. TypeOK'
  BY TypeStep DEF LiveTypeOK, LiveNext, liveVars, BuildDemoData, Serve, Restart, Evaluate,
                  Acquire, GetModel, UseCached, FindNone, Load, LoadRaises, SignDecision
<1>2. Len(RunBatches) \in Nat /\ model \in Nat
  BY AuditAssumption DEF LiveTypeOK, TypeOK
<1>3. scenarios' \in 0..Len(RunBatches)
  <2>1. CASE BuildDemoData
    BY <1>2, <2>1 DEF BuildDemoData, LiveTypeOK, TypeOK
  <2>2. CASE UNCHANGED scenarios
    BY <2>2 DEF LiveTypeOK
  <2> QED BY <2>1, <2>2 DEF LiveNext, liveVars, Serve, Restart, Evaluate, Acquire, GetModel,
                            UseCached, FindNone, Load, LoadRaises, SignDecision
<1>4. ServerTypeOK'
  <2> USE DEF LiveTypeOK, ServerTypeOK
  <2>1. CASE UNCHANGED serverVars
    BY <2>1 DEF serverVars
  <2>2. CASE Serve
    <3> PICK t \in Threads : Evaluate(t) \/ Acquire(t) \/ GetModel(t) \/ SignDecision(t)
      BY <2>2 DEF Serve
    <3>1. CASE Evaluate(t)
      BY <3>1 DEF Evaluate, MoveTo
    <3>2. CASE Acquire(t)
      BY <3>2 DEF Acquire, MoveTo
    <3>3. CASE UseCached(t)
      BY <3>3 DEF UseCached, MoveTo
    <3>4. CASE FindNone(t)
      BY <3>4 DEF FindNone, MoveTo
    <3>5. CASE Load(t)
      BY <1>2, <3>5 DEF Load, MoveTo
    <3>6. CASE LoadRaises(t)
      BY <3>6 DEF LoadRaises, MoveTo
    <3>7. CASE SignDecision(t)
      BY <3>7 DEF SignDecision, MoveTo
    <3> QED BY <3>1, <3>2, <3>3, <3>4, <3>5, <3>6, <3>7 DEF GetModel
  <2>3. CASE Restart
    BY <2>3 DEF Restart
  <2> QED BY <2>1, <2>2, <2>3 DEF LiveNext, liveVars, BuildDemoData
<1> QED BY <1>1, <1>3, <1>4 DEF LiveTypeOK

\* Every file holds what its type says, whoever writes it and however often it is
\* killed, for every number of writers, runs, appends and threads.
THEOREM LiveTypes == LiveSpec => []LiveTypeOK
<1>1. LiveInit => LiveTypeOK
  <2> SUFFICES ASSUME LiveInit PROVE LiveTypeOK
    OBVIOUS
  <2>1. TypeOK
    BY TypeInit DEF LiveInit
  <2>2. scenarios \in 0..Len(RunBatches)
    BY AuditAssumption DEF LiveInit
  <2>3. ServerTypeOK
    BY DEF LiveInit, ServerInit, ServerTypeOK
  <2> QED BY <2>1, <2>2, <2>3 DEF LiveTypeOK
<1> QED BY <1>1, LiveTypeStep, PTL DEF LiveSpec

\* The server and build_demo_data read the files of the runs and write none of
\* them, so that what is proved of AuditTrail alone holds next to them.
THEOREM TrailIsUndisturbed == LiveSpec => Spec
<1>1. LiveInit => Init
  BY DEF LiveInit
<1>2. [LiveNext]_liveVars => [Next]_vars
  BY DEF LiveNext, liveVars, BuildDemoData, Serve, Restart, Evaluate, Acquire, GetModel,
         UseCached, FindNone, Load, LoadRaises, SignDecision
<1> QED BY <1>1, <1>2, PTL DEF LiveSpec, Spec

\* So the trail of one writer is what NeverTwice, DamageBounded and TrailRefines say,
\* while the server answers and build_demo_data reads it.
THEOREM LiveTrail ==
    ASSUME \A v, w \in Writers : v = w
    PROVE  LiveSpec => []NoDuplicates /\ []DamageIsBounded /\ ImplementsTrail
<1>1. LiveSpec => Spec
  BY TrailIsUndisturbed
<1>2. Spec => []NoDuplicates
  BY NeverTwice
<1>3. Spec => []DamageIsBounded
  BY DamageBounded
<1>4. Spec => ImplementsTrail
  BY TrailRefines
<1> QED BY <1>1, <1>2, <1>3, <1>4, PTL
=============================================================================
