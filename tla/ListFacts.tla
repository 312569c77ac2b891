------------------------------ MODULE ListFacts ------------------------------
(***************************************************************************)
(* Facts about lists: the filter Kept and the library's FoldLeft and       *)
(* FlattenSeq, for lists of any length. They are proved by induction       *)
(* without an induction theorem: the set of lengths for which a fact fails *)
(* has no least element (LeastNat), or, forwards, a set of lengths that    *)
(* contains 0 and the successor of each of its elements contains all       *)
(* (Climb). A recursive function's value is found by exhibiting a function *)
(* that satisfies its equation (IterationExists).                          *)
(***************************************************************************)
EXTENDS Lists, Naturals, FiniteSets, FiniteSetTheorems, SequenceTheorems,
        WellFoundedInduction, TLAPS

\* A set of naturals has a least element; the ground of every induction here,
\* over a set rather than a predicate.
LEMMA LeastNat ==
  ASSUME NEW T \in SUBSET Nat, T # {}
  PROVE  \E m \in T : \A y \in T : m <= y
<1>1. PICK k \in T : TRUE
  OBVIOUS
<1> DEFINE U == {1..y : y \in {x \in T : x <= k}}
<1>2. IsFiniteSet(1..k)
  BY FS_Interval
<1>3. IsWellFoundedOn(StrictSubsetOrdering(1..k), SUBSET (1..k))
  BY <1>2, FS_StrictSubsetOrderingWellFounded, FS_FiniteSubsetsOfFinite
<1>4. U \subseteq SUBSET (1..k) /\ 1..k \in U
  BY <1>1
<1> HIDE DEF U
<1>5. PICK I \in U : \A J \in U : ~(<<J, I>> \in StrictSubsetOrdering(1..k))
  BY <1>3, <1>4, WFMin
<1>6. PICK m \in T : m <= k /\ I = 1..m
  BY <1>5 DEF U
<1>7. ASSUME NEW y \in T, y < m PROVE FALSE
  <2>1. 1..y \in U
    BY <1>1, <1>6, <1>7 DEF U
  <2>2. 1..y \subseteq 1..m /\ 1..y # 1..m
    <3>1. m \in 1..m /\ m \notin 1..y
      BY <1>7
    <3>2. QED
      BY <1>7, <3>1
  <2>3. <<1..y, I>> \in StrictSubsetOrdering(1..k)
    BY <1>4, <1>5, <1>6, <2>1, <2>2 DEF StrictSubsetOrdering
  <2>4. QED
    BY <1>5, <2>1, <2>3
<1>8. QED
  BY <1>6, <1>7

\* 1..n without its maximum is 1..(n - 1).
LEMMA LastOfInterval ==
  ASSUME NEW n \in Nat, n # 0
  PROVE  /\ Max(1..n) = n /\ (1..n) \ {Max(1..n)} = 1..(n - 1) /\ 1..n # {}
         /\ 1..(n - 1) \in SUBSET (1..n)
<1>1. n \in 1..n /\ \A y \in 1..n : n >= y
  OBVIOUS
<1>2. \A x \in 1..n : (\A y \in 1..n : x >= y) => x = n
  BY <1>1
<1>3. Max(1..n) = n
  BY <1>1, <1>2 DEF Max
<1>4. QED
  BY <1>1, <1>3

\* A set of naturals has its minimum in it.
LEMMA MinOfNaturals ==
  ASSUME NEW S \in SUBSET Nat, S # {}
  PROVE  Min(S) \in S /\ \A x \in S : Min(S) <= x
<1>1. \E m \in S : \A y \in S : m <= y
  BY LeastNat
<1>2. QED
  BY <1>1 DEF Min

\* A set of positions has its maximum in it.
LEMMA MaxOfFinite ==
  ASSUME NEW n \in Nat, NEW s \in SUBSET (1..n), s # {}
  PROVE  Max(s) \in s /\ \A x \in s : x <= Max(s)
<1> DEFINE T == {y \in 0..n : \A x \in s : x <= y}
<1>1. T \subseteq Nat /\ n \in T
  OBVIOUS
<1> HIDE DEF T
<1>2. PICK m \in T : \A y \in T : m <= y
  BY <1>1, LeastNat
<1>3. m \in 0..n /\ \A x \in s : x <= m
  BY <1>2 DEF T
<1>4. m \in s
  <2>1. SUFFICES ASSUME m \notin s PROVE FALSE
    OBVIOUS
  <2>2. \A x \in s : x <= m - 1 /\ x \in 1..n
    BY <1>3, <2>1
  <2>3. m - 1 \in 0..n
    <3>1. PICK x \in s : TRUE
      OBVIOUS
    <3>2. x \in 1..n /\ x <= m - 1 /\ m \in 0..n
      BY <1>3, <2>2, <3>1
    <3>3. QED
      BY <3>2
  <2>4. m - 1 \in T
    BY <2>2, <2>3 DEF T
  <2>5. QED
    BY <1>2, <1>3, <2>4
<1>5. QED
  BY <1>3, <1>4 DEF Max

\* An accumulation over the positions 1..n as FoldLeft defines it, for a step that is
\* a function.
Iterates(it, base, step, n) ==
  \A s \in SUBSET (1..n) : it[s] = IF s = {} THEN base ELSE step[<<it[s \ {Max(s)}], Max(s)>>]

\* The iteration exists, for a step that is a function on V: by the least n for
\* which it would not, the one before extended by a position.
LEMMA IterationExists ==
  ASSUME NEW V, NEW base \in V, NEW n \in Nat, NEW step \in [V \X (1..n) -> V]
  PROVE  \E it \in [SUBSET (1..n) -> V] : Iterates(it, base, step, n)
<1> DEFINE Good(k) == \E it \in [SUBSET (1..k) -> V] : Iterates(it, base, step, k)
           Bad == {k \in 0..n : ~Good(k)}
<1>1. SUFFICES ASSUME Bad # {} PROVE FALSE
  <2>1. n \in 0..n
    OBVIOUS
  <2>2. QED
    BY <2>1
<1>2. PICK m \in Bad : \A y \in Bad : m <= y
  <2>1. Bad \in SUBSET Nat
    OBVIOUS
  <2> HIDE DEF Bad
  <2>2. QED
    BY <1>1, <2>1, LeastNat
<1>3. CASE m = 0
  <2> DEFINE it == [s \in SUBSET (1..0) |-> base]
  <2>1. it \in [SUBSET (1..0) -> V] /\ \A s \in SUBSET (1..0) : s = {} /\ it[s] = base
    <3>1. 1..0 = {}
      OBVIOUS
    <3>2. QED
      BY <3>1
  <2>2. Iterates(it, base, step, 0)
    BY <2>1 DEF Iterates
  <2>3. Good(0)
    BY <2>1, <2>2
  <2>4. QED
    BY <1>2, <1>3, <2>3
<1>4. CASE m # 0
  <2>1. m \in 1..n /\ m - 1 \in 0..n /\ m - 1 \notin Bad
    <3>1. m \in 1..n /\ m - 1 \in 0..n
      BY <1>4
    <3> HIDE DEF Bad
    <3>2. QED
      BY <1>2, <3>1
  <2>2. PICK f \in [SUBSET (1..(m - 1)) -> V] : Iterates(f, base, step, m - 1)
    BY <2>1
  <2> DEFINE it == [s \in SUBSET (1..m) |-> IF m \in s THEN step[<<f[s \ {m}], m>>] ELSE f[s]]
  <2>3. \A s \in SUBSET (1..m) : s \ {m} \in SUBSET (1..(m - 1)) /\ (m \notin s => s = s \ {m})
    <3>1. \A x \in 1..m : x # m => x \in 1..(m - 1)
      BY <2>1
    <3>2. QED
      BY <3>1
  <2>4. it \in [SUBSET (1..m) -> V]
    <3>1. ASSUME NEW s \in SUBSET (1..m)
          PROVE  (IF m \in s THEN step[<<f[s \ {m}], m>>] ELSE f[s]) \in V
      <4>1. f[s \ {m}] \in V
        BY <2>2, <2>3
      <4>2. <<f[s \ {m}], m>> \in V \X (1..n)
        BY <2>1, <4>1
      <4>3. QED
        BY <2>3, <4>1, <4>2
    <3>2. QED
      BY <3>1
  <2>5. ASSUME NEW s \in SUBSET (1..m)
        PROVE  it[s] = IF s = {} THEN base ELSE step[<<it[s \ {Max(s)}], Max(s)>>]
    <3>1. CASE m \in s
      <4>1. \A x \in s : x <= m
        BY <2>1
      <4>2. \A x \in s : (\A y \in s : x >= y) => x = m
        BY <2>1, <3>1, <4>1
      <4>3. Max(s) = m
        BY <3>1, <2>1, <4>1, <4>2 DEF Max
      <4>4. s \ {m} \in SUBSET (1..m) /\ m \notin s \ {m}
        OBVIOUS
      <4>5. it[s \ {m}] = f[s \ {m}] /\ it[s] = step[<<f[s \ {m}], m>>]
        BY <3>1, <4>4
      <4>6. QED
        BY <3>1, <4>3, <4>5
    <3>2. CASE m \notin s
      <4>1. s \in SUBSET (1..(m - 1)) /\ it[s] = f[s]
        BY <2>3, <3>2
      <4>2. s \ {Max(s)} \in SUBSET (1..m) /\ m \notin s \ {Max(s)}
        BY <3>2
      <4>3. it[s \ {Max(s)}] = f[s \ {Max(s)}]
        BY <4>2
      <4>4. QED
        BY <2>2, <4>1, <4>3 DEF Iterates
    <3>3. QED
      BY <3>1, <3>2
  <2>6. Iterates(it, base, step, m)
    BY <2>5 DEF Iterates
  <2>7. Good(m)
    BY <2>4, <2>6
  <2>8. QED
    BY <1>2, <2>7
<1>5. QED
  BY <1>3, <1>4

\* Induction, with the property as the set of the numbers that have it.
LEMMA Climb ==
  ASSUME NEW n \in Nat, NEW G, 0 \in G, \A k \in 0..(n - 1) : k \in G => k + 1 \in G
  PROVE  \A k \in 0..n : k \in G
<1> DEFINE Bad == {k \in 0..n : k \notin G}
<1>1. SUFFICES ASSUME Bad # {} PROVE FALSE
  OBVIOUS
<1>2. Bad \in SUBSET Nat
  OBVIOUS
<1> HIDE DEF Bad
<1>3. PICK m \in Bad : \A y \in Bad : m <= y
  BY <1>1, <1>2, LeastNat
<1>4. m \in 0..n /\ m \notin G
  BY <1>3 DEF Bad
<1>5. m # 0
  BY <1>4
<1>6. m - 1 \in 0..(n - 1) /\ (m - 1) + 1 = m
  BY <1>4, <1>5
<1>7. m - 1 \in G
  BY <1>3, <1>4, <1>6 DEF Bad
<1>8. QED
  BY <1>4, <1>6, <1>7

\* One more element, as the fold takes it.
With(list, x, T) == IF x \in T THEN Append(list, x) ELSE list
KeptIterates(f, s, T) ==
  \A r \in SUBSET (1..Len(s)) :
    f[r] = IF r = {} THEN <<>> ELSE With(f[r \ {Max(r)}], s[Max(r)], T)

\* Kept is an iteration: the definition of FoldLeft, unfolded.
LEMMA KeptIs ==
  ASSUME NEW S, NEW s \in Seq(S), NEW T
  PROVE  \E f : KeptIterates(f, s, T) /\ Kept(s, T) = f[1..Len(s)]
<1> DEFINE n == Len(s)
           step == [p \in Seq(S) \X (1..n) |-> With(p[1], s[p[2]], T)]
           Eqn(it) == it = [r \in SUBSET DOMAIN s |->
                              IF r = {} THEN <<>> ELSE With(it[r \ {Max(r)}], s[Max(r)], T)]
           f == CHOOSE it : Eqn(it)
<1>1. n \in Nat /\ DOMAIN s = 1..n /\ \A i \in 1..n : s[i] \in S
  BY LenProperties
<1>2. step \in [Seq(S) \X (1..n) -> Seq(S)]
  <2>1. ASSUME NEW p \in Seq(S) \X (1..n) PROVE With(p[1], s[p[2]], T) \in Seq(S)
    <3>1. p[1] \in Seq(S) /\ s[p[2]] \in S
      BY <1>1
    <3>2. QED
      BY <3>1 DEF With
  <2>2. QED
    BY <2>1
<1>3. <<>> \in Seq(S)
  BY EmptySeq
<1>4. PICK g \in [SUBSET (1..n) -> Seq(S)] : Iterates(g, <<>>, step, n)
  <2> HIDE DEF step, n
  <2>1. QED
    BY <1>1, <1>2, <1>3, IterationExists
<1>5. ASSUME NEW r \in SUBSET (1..n)
      PROVE  g[r] = IF r = {} THEN <<>> ELSE With(g[r \ {Max(r)}], s[Max(r)], T)
  <2>1. CASE r = {}
    BY <1>4, <2>1 DEF Iterates
  <2>2. CASE r # {}
    <3>1. Max(r) \in 1..n
      BY <1>1, <1>5, <2>2, MaxOfFinite
    <3>2. g[r \ {Max(r)}] \in Seq(S)
      BY <1>4
    <3>3. g[r] = step[<<g[r \ {Max(r)}], Max(r)>>]
      BY <1>4, <2>2 DEF Iterates
    <3>4. QED
      BY <2>2, <3>1, <3>2, <3>3
  <2>3. QED
    BY <2>1, <2>2
<1>6. Eqn(g)
  <2>1. g = [r \in SUBSET (1..n) |-> g[r]]
    BY <1>4
  <2>2. QED
    BY <1>1, <1>5, <2>1
<1>7. Eqn(f)
  BY <1>6
<1>8. Kept(s, T) = f[DOMAIN s]
  BY DEF Kept, FoldLeft, MapThenFoldSet, With
<1> HIDE DEF f
<1>9. KeptIterates(f, s, T)
  BY <1>1, <1>7 DEF KeptIterates
<1>10. QED
  BY <1>1, <1>8, <1>9

\* What has been kept after k elements, element by element.
LEMMA KeptAlong ==
  ASSUME NEW S, NEW s \in Seq(S), NEW T, NEW f, KeptIterates(f, s, T)
  PROVE  /\ f[1..0] = <<>>
         /\ \A k \in 1..Len(s) : f[1..k] = With(f[1..(k - 1)], s[k], T)
         /\ \A k \in 0..Len(s) : f[1..k] \in Seq(S)
<1> DEFINE n == Len(s)
<1>1. n \in Nat /\ \A i \in 1..n : s[i] \in S
  BY LenProperties
<1>2. f[1..0] = <<>>
  <2>1. 1..0 = {} /\ 1..0 \in SUBSET (1..n)
    OBVIOUS
  <2>2. QED
    BY <2>1 DEF KeptIterates
<1>3. ASSUME NEW k \in 1..n PROVE f[1..k] = With(f[1..(k - 1)], s[k], T)
  <2>1. k \in Nat /\ k # 0 /\ 1..k \in SUBSET (1..n)
    BY <1>1
  <2>2. Max(1..k) = k /\ (1..k) \ {Max(1..k)} = 1..(k - 1) /\ 1..k # {}
    BY <2>1, LastOfInterval
  <2>3. QED
    BY <2>1, <2>2 DEF KeptIterates
<1>4. \A k \in 0..n : f[1..k] \in Seq(S)
  <2> DEFINE G == {k \in 0..n : f[1..k] \in Seq(S)}
  <2>1. 0 \in G
    <3>1. <<>> \in Seq(S) /\ 0 \in 0..n
      BY <1>1, EmptySeq
    <3>2. QED
      BY <1>2, <3>1
  <2>2. ASSUME NEW k \in 0..(n - 1), k \in G PROVE k + 1 \in G
    <3>1. k + 1 \in 1..n /\ (k + 1) - 1 = k /\ k + 1 \in 0..n
      BY <1>1
    <3>2. f[1..(k + 1)] = With(f[1..k], s[k + 1], T)
      BY <1>3, <3>1
    <3>3. s[k + 1] \in S /\ f[1..k] \in Seq(S)
      BY <1>1, <2>2, <3>1
    <3>4. Append(f[1..k], s[k + 1]) \in Seq(S)
      BY <3>3
    <3>5. f[1..(k + 1)] \in Seq(S)
      BY <3>2, <3>3, <3>4 DEF With
    <3>6. QED
      BY <3>1, <3>5
  <2> HIDE DEF G
  <2>3. \A k \in 0..n : k \in G
    BY <1>1, <2>1, <2>2, Climb
  <2>4. QED
    BY <2>3 DEF G
<1>5. QED
  BY <1>2, <1>3, <1>4

\* Kept elements are elements.
LEMMA KeptType ==
  ASSUME NEW S, NEW s \in Seq(S), NEW T
  PROVE  Kept(s, T) \in Seq(S)
<1>1. PICK f : KeptIterates(f, s, T) /\ Kept(s, T) = f[1..Len(s)]
  BY KeptIs
<1>2. Len(s) \in 0..Len(s)
  BY LenProperties
<1>3. QED
  BY <1>1, <1>2, KeptAlong

\* Filtering never makes a list longer.
LEMMA KeptShorter ==
  ASSUME NEW S, NEW s \in Seq(S), NEW T
  PROVE  Len(Kept(s, T)) <= Len(s)
<1> DEFINE n == Len(s)
<1>1. n \in Nat /\ \A i \in 1..n : s[i] \in S
  BY LenProperties
<1>2. PICK f : KeptIterates(f, s, T) /\ Kept(s, T) = f[1..n]
  BY KeptIs
<1>3. /\ f[1..0] = <<>> /\ \A k \in 1..n : f[1..k] = With(f[1..(k - 1)], s[k], T)
      /\ \A k \in 0..n : f[1..k] \in Seq(S)
  BY <1>2, KeptAlong
<1> DEFINE G == {k \in 0..n : Len(f[1..k]) <= k}
<1>4. 0 \in G
  <2>1. Len(f[1..0]) = 0 /\ 0 \in 0..n
    BY <1>1, <1>3, EmptySeq
  <2>2. QED
    BY <2>1
<1>5. ASSUME NEW k \in 0..(n - 1), k \in G PROVE k + 1 \in G
  <2>1. k + 1 \in 1..n /\ (k + 1) - 1 = k /\ k + 1 \in 0..n /\ k \in 0..n /\ k \in Nat
    BY <1>1
  <2>2. f[1..(k + 1)] = With(f[1..k], s[k + 1], T) /\ f[1..k] \in Seq(S) /\ s[k + 1] \in S
    BY <1>1, <1>3, <2>1
  <2>3. Len(f[1..k]) <= k /\ Len(f[1..k]) \in Nat
    BY <1>5, <2>2, LenProperties
  <2>4. Len(Append(f[1..k], s[k + 1])) = Len(f[1..k]) + 1
    BY <2>2, AppendProperties
  <2>5. f[1..(k + 1)] = f[1..k] \/ f[1..(k + 1)] = Append(f[1..k], s[k + 1])
    BY <2>2 DEF With
  <2> DEFINE l == Len(f[1..k])
             m == Len(f[1..(k + 1)])
  <2>6. l \in Nat /\ l <= k /\ (m = l \/ m = l + 1)
    BY <2>3, <2>4, <2>5
  <2> HIDE DEF l, m
  <2>7. m <= k + 1
    BY <2>1, <2>6
  <2>8. QED
    BY <2>1, <2>7 DEF m
<1> HIDE DEF G
<1>6. n \in G
  <2>1. \A k \in 0..n : k \in G
    BY <1>1, <1>4, <1>5, Climb
  <2>2. QED
    BY <1>1, <2>1
<1>7. QED
  BY <1>2, <1>6 DEF G

\* Of nothing nothing is kept.
LEMMA KeptEmpty == ASSUME NEW T PROVE Kept(<<>>, T) = <<>>
<1>1. <<>> \in Seq({}) /\ Len(<<>>) = 0
  BY EmptySeq
<1>2. PICK f : KeptIterates(f, <<>>, T) /\ Kept(<<>>, T) = f[1..Len(<<>>)]
  BY <1>1, KeptIs
<1>3. f[1..0] = <<>>
  <2>1. 1..0 = {} /\ 1..0 \in SUBSET (1..Len(<<>>))
    OBVIOUS
  <2>2. QED
    BY <1>2, <2>1 DEF KeptIterates
<1>4. QED
  BY <1>1, <1>2, <1>3

\* One more element is kept if it is in T.
LEMMA KeptAppend ==
  ASSUME NEW S, NEW s \in Seq(S), NEW x \in S, NEW T
  PROVE  Kept(Append(s, x), T) = IF x \in T THEN Append(Kept(s, T), x) ELSE Kept(s, T)
<1> DEFINE n == Len(s)
           t == Append(s, x)
<1>1. /\ n \in Nat /\ t \in Seq(S) /\ Len(t) = n + 1
      /\ \A i \in 1..n : t[i] = s[i] /\ t[n + 1] = x
  BY LenProperties, AppendProperties
<1> HIDE DEF t
<1>2. PICK f : KeptIterates(f, s, T) /\ Kept(s, T) = f[1..n]
  BY KeptIs
<1>3. PICK g : KeptIterates(g, t, T) /\ Kept(t, T) = g[1..(n + 1)]
  BY <1>1, KeptIs
<1>4. f[1..0] = <<>> /\ \A k \in 1..n : f[1..k] = With(f[1..(k - 1)], s[k], T)
  BY <1>2, KeptAlong
<1>5. g[1..0] = <<>> /\ \A k \in 1..(n + 1) : g[1..k] = With(g[1..(k - 1)], t[k], T)
  BY <1>1, <1>3, KeptAlong
<1> DEFINE G == {k \in 0..n : f[1..k] = g[1..k]}
<1>6. 0 \in G
  BY <1>1, <1>4, <1>5
<1>7. ASSUME NEW k \in 0..(n - 1), k \in G PROVE k + 1 \in G
  <2>1. k + 1 \in 1..n /\ k + 1 \in 1..(n + 1) /\ (k + 1) - 1 = k /\ k + 1 \in 0..n
    BY <1>1
  <2>2. f[1..(k + 1)] = With(f[1..k], s[k + 1], T) /\ g[1..(k + 1)] = With(g[1..k], t[k + 1], T)
    BY <1>4, <1>5, <2>1
  <2>3. f[1..k] = g[1..k] /\ t[k + 1] = s[k + 1]
    BY <1>1, <1>7, <2>1
  <2>4. QED
    BY <2>1, <2>2, <2>3
<1> HIDE DEF G
<1>8. n \in G
  <2>1. \A k \in 0..n : k \in G
    BY <1>1, <1>6, <1>7, Climb
  <2>2. QED
    BY <1>1, <2>1
<1>9. f[1..n] = g[1..n]
  BY <1>8 DEF G
<1>10. n + 1 \in 1..(n + 1) /\ (n + 1) - 1 = n
  BY <1>1
<1>11. g[1..(n + 1)] = With(g[1..n], t[n + 1], T)
  BY <1>5, <1>10
<1>12. t[n + 1] = x
  BY AppendProperties DEF t
<1>13. Kept(t, T) = With(Kept(s, T), x, T)
  BY <1>2, <1>3, <1>9, <1>11, <1>12
<1>14. QED
  BY <1>13 DEF With, t

\* A sequence grows from its prefixes.
LEMMA PrefixFacts ==
  ASSUME NEW S, NEW s \in Seq(S)
  PROVE  /\ SubSeq(s, 1, 0) = <<>> /\ SubSeq(s, 1, Len(s)) = s
         /\ \A k \in 0..Len(s) : SubSeq(s, 1, k) \in Seq(S) /\ Len(SubSeq(s, 1, k)) = k
         /\ \A k \in 0..(Len(s) - 1) :
              s[k + 1] \in S /\ SubSeq(s, 1, k + 1) = Append(SubSeq(s, 1, k), s[k + 1])
<1>1. SubSeq(s, 1, 0) = <<>> /\ SubSeq(s, 1, Len(s)) = s
  BY LenProperties
<1>2. ASSUME NEW k \in 0..Len(s) PROVE SubSeq(s, 1, k) \in Seq(S) /\ Len(SubSeq(s, 1, k)) = k
  BY LenProperties
<1>3. ASSUME NEW k \in 0..(Len(s) - 1)
      PROVE  s[k + 1] \in S /\ SubSeq(s, 1, k + 1) = Append(SubSeq(s, 1, k), s[k + 1])
  BY LenProperties
<1>4. QED
  BY <1>1, <1>2, <1>3

\* The elements of a list with one more.
LEMMA AppendElements ==
  ASSUME NEW S, NEW s \in Seq(S), NEW x \in S
  PROVE  ToSet(Append(s, x)) = ToSet(s) \cup {x}
<1>1. /\ DOMAIN s = 1..Len(s) /\ Len(s) \in Nat
      /\ DOMAIN Append(s, x) = 1..(Len(s) + 1)
      /\ \A i \in 1..Len(s) : Append(s, x)[i] = s[i]
      /\ Append(s, x)[Len(s) + 1] = x
  BY LenProperties, AppendProperties
<1>2. 1..(Len(s) + 1) = 1..Len(s) \cup {Len(s) + 1}
  BY <1>1
<1>3. QED
  BY <1>1, <1>2 DEF ToSet

\* The list kept has the elements of s that are in T.
THEOREM KeptElements ==
  ASSUME NEW S, NEW s \in Seq(S), NEW T
  PROVE  ToSet(Kept(s, T)) = ToSet(s) \cap T
<1> DEFINE P(k) == SubSeq(s, 1, k)
           G == {k \in 0..Len(s) : ToSet(Kept(P(k), T)) = ToSet(P(k)) \cap T}
<1>0. Len(s) \in Nat
  BY LenProperties
<1>1. 0 \in G
  <2>1. P(0) = <<>> /\ 0 \in 0..Len(s)
    BY <1>0, PrefixFacts
  <2>2. Kept(<<>>, T) = <<>> /\ ToSet(<<>>) = {}
    BY KeptEmpty DEF ToSet
  <2>3. QED
    BY <2>1, <2>2
<1>2. ASSUME NEW k \in 0..(Len(s) - 1), k \in G PROVE k + 1 \in G
  <2> DEFINE x == s[k + 1]
  <2>1. P(k) \in Seq(S) /\ x \in S /\ P(k + 1) = Append(P(k), x) /\ k + 1 \in 0..Len(s)
    BY <1>0, PrefixFacts
  <2> HIDE DEF P, x
  <2>2. Kept(P(k + 1), T) = IF x \in T THEN Append(Kept(P(k), T), x) ELSE Kept(P(k), T)
    BY <2>1, KeptAppend
  <2>3. \A q \in Seq(S) : ToSet(Append(q, x)) = ToSet(q) \cup {x}
    BY <2>1, AppendElements
  <2>4. Kept(P(k), T) \in Seq(S)
    BY <2>1, KeptType
  <2>5. ToSet(Kept(P(k + 1), T)) = ToSet(P(k + 1)) \cap T
    BY <1>2, <2>1, <2>2, <2>3, <2>4
  <2>6. QED
    BY <2>1, <2>5
<1> HIDE DEF G
<1>3. \A k \in 0..Len(s) : k \in G
  BY <1>0, <1>1, <1>2, Climb
<1>4. Len(s) \in G
  BY <1>0, <1>3
<1>5. QED
  <2>1. P(Len(s)) = s
    BY PrefixFacts
  <2>2. QED
    BY <1>4, <2>1 DEF G

\* It has an element twice only if s has.
THEOREM KeptDistinct ==
  ASSUME NEW S, NEW s \in Seq(S), NEW T,
         \A i, j \in 1..Len(s) : s[i] = s[j] => i = j
  PROVE  \A i, j \in 1..Len(Kept(s, T)) : Kept(s, T)[i] = Kept(s, T)[j] => i = j
<1> DEFINE P(k) == SubSeq(s, 1, k)
           Distinct(q) == \A i, j \in 1..Len(q) : q[i] = q[j] => i = j
           G == {k \in 0..Len(s) : Distinct(Kept(P(k), T))}
<1>0. Len(s) \in Nat
  BY LenProperties
<1>1. 0 \in G
  <2>1. P(0) = <<>> /\ 0 \in 0..Len(s)
    BY <1>0, PrefixFacts
  <2>2. Kept(<<>>, T) = <<>>
    BY KeptEmpty
  <2>3. Distinct(<<>>)
    OBVIOUS
  <2> HIDE DEF P, Distinct
  <2>4. QED
    BY <2>1, <2>2, <2>3
<1>2. ASSUME NEW k \in 0..(Len(s) - 1), k \in G PROVE k + 1 \in G
  <2> DEFINE x == s[k + 1]
             q == Kept(P(k), T)
  <2>1. P(k) \in Seq(S) /\ x \in S /\ P(k + 1) = Append(P(k), x) /\ k + 1 \in 0..Len(s)
    BY <1>0, PrefixFacts
  <2>2. x \notin ToSet(P(k))
    <3>1. \A i \in 1..k : P(k)[i] = s[i] /\ s[i] # s[k + 1]
      BY <1>0, LenProperties
    <3>2. DOMAIN P(k) = 1..k
      BY <1>0, <2>1, PrefixFacts, LenProperties
    <3>3. QED
      BY <3>1, <3>2 DEF ToSet
  <2>3. Distinct(q)
    BY <1>2
  <2> HIDE DEF P, x
  <2>4. Kept(P(k + 1), T) = IF x \in T THEN Append(q, x) ELSE q
    BY <2>1, KeptAppend
  <2>5. q \in Seq(S) /\ x \notin ToSet(q)
    BY <2>1, <2>2, KeptType, KeptElements
  <2> HIDE DEF q
  <2>6. Distinct(Append(q, x))
    <3>1. /\ DOMAIN q = 1..Len(q) /\ Len(q) \in Nat /\ Len(Append(q, x)) = Len(q) + 1
          /\ \A i \in 1..Len(q) : Append(q, x)[i] = q[i] /\ q[i] # x
          /\ Append(q, x)[Len(q) + 1] = x
      BY <2>5, LenProperties, AppendProperties DEF ToSet
    <3>2. \A i \in 1..(Len(q) + 1) : i \in 1..Len(q) \/ i = Len(q) + 1
      BY <3>1
    <3>3. QED
      BY <2>3, <3>1, <3>2
  <2>7. Distinct(Kept(P(k + 1), T))
    BY <2>3, <2>4, <2>6
  <2>8. QED
    BY <2>1, <2>7
<1> HIDE DEF G
<1>3. \A k \in 0..Len(s) : k \in G
  BY <1>0, <1>1, <1>2, Climb
<1>4. Len(s) \in G
  BY <1>0, <1>3
<1>5. QED
  <2>1. P(Len(s)) = s
    BY PrefixFacts
  <2>2. QED
    BY <1>4, <2>1 DEF G

\* What is kept of a list is the list if T has its elements, and nothing if T has none.
LEMMA KeptAllOrNone ==
  ASSUME NEW S, NEW s \in Seq(S), NEW T
  PROVE  /\ ToSet(s) \subseteq T => Kept(s, T) = s
         /\ ToSet(s) \cap T = {} => Kept(s, T) = <<>>
<1> DEFINE P(k) == SubSeq(s, 1, k)
           G == {k \in 0..Len(s) : /\ ToSet(s) \subseteq T => Kept(P(k), T) = P(k)
                                   /\ ToSet(s) \cap T = {} => Kept(P(k), T) = <<>>}
<1>0. Len(s) \in Nat /\ DOMAIN s = 1..Len(s)
  BY LenProperties
<1>1. 0 \in G
  <2>1. P(0) = <<>> /\ 0 \in 0..Len(s)
    BY <1>0, PrefixFacts
  <2>2. Kept(<<>>, T) = <<>>
    BY KeptEmpty
  <2>3. QED
    BY <2>1, <2>2
<1>2. ASSUME NEW k \in 0..(Len(s) - 1), k \in G PROVE k + 1 \in G
  <2> DEFINE x == s[k + 1]
  <2>1. P(k) \in Seq(S) /\ x \in S /\ P(k + 1) = Append(P(k), x) /\ k + 1 \in 0..Len(s)
    BY <1>0, PrefixFacts
  <2>2. x \in ToSet(s)
    <3>1. k + 1 \in DOMAIN s
      BY <1>0
    <3>2. QED
      BY <3>1 DEF ToSet
  <2> HIDE DEF P, x
  <2>3. Kept(P(k + 1), T) = IF x \in T THEN Append(Kept(P(k), T), x) ELSE Kept(P(k), T)
    BY <2>1, KeptAppend
  <2>4. ToSet(s) \subseteq T => Kept(P(k + 1), T) = P(k + 1)
    BY <1>2, <2>1, <2>2, <2>3
  <2>5. ToSet(s) \cap T = {} => Kept(P(k + 1), T) = <<>>
    BY <1>2, <2>1, <2>2, <2>3
  <2>6. QED
    BY <2>1, <2>4, <2>5
<1> HIDE DEF G
<1>3. \A k \in 0..Len(s) : k \in G
  BY <1>0, <1>1, <1>2, Climb
<1>4. Len(s) \in G
  BY <1>0, <1>3
<1>5. QED
  <2>1. P(Len(s)) = s
    BY PrefixFacts
  <2>2. QED
    BY <1>4, <2>1 DEF G

\* Filtering two lists in a row is filtering each.
LEMMA KeptConcat ==
  ASSUME NEW S, NEW s \in Seq(S), NEW t \in Seq(S), NEW T
  PROVE  Kept(s \o t, T) = Kept(s, T) \o Kept(t, T)
<1> DEFINE P(k) == SubSeq(t, 1, k)
           G == {k \in 0..Len(t) : Kept(s \o P(k), T) = Kept(s, T) \o Kept(P(k), T)}
<1>0. Len(t) \in Nat
  BY LenProperties
<1>1. 0 \in G
  <2>1. P(0) = <<>> /\ 0 \in 0..Len(t)
    BY <1>0, PrefixFacts
  <2>2. Kept(<<>>, T) = <<>> /\ Kept(s, T) \in Seq(S)
    BY KeptEmpty, KeptType
  <2>3. s \o <<>> = s /\ Kept(s, T) \o <<>> = Kept(s, T)
    BY <2>2, ConcatEmptySeq
  <2>4. QED
    BY <2>1, <2>2, <2>3
<1>2. ASSUME NEW k \in 0..(Len(t) - 1), k \in G PROVE k + 1 \in G
  <2> DEFINE x == t[k + 1]
  <2>1. P(k) \in Seq(S) /\ x \in S /\ P(k + 1) = Append(P(k), x) /\ k + 1 \in 0..Len(t)
    BY <1>0, PrefixFacts
  <2> HIDE DEF P, x
  <2>2. \A u, v \in Seq(S) : u \o Append(v, x) = Append(u \o v, x) /\ u \o v \in Seq(S)
    BY <2>1
  <2>3. Kept(P(k + 1), T) = IF x \in T THEN Append(Kept(P(k), T), x) ELSE Kept(P(k), T)
    BY <2>1, KeptAppend
  <2>4. s \o P(k) \in Seq(S) /\ s \o P(k + 1) = Append(s \o P(k), x)
    BY <2>1, <2>2
  <2>5. Kept(s \o P(k + 1), T) = IF x \in T THEN Append(Kept(s \o P(k), T), x)
                                           ELSE Kept(s \o P(k), T)
    BY <2>1, <2>4, KeptAppend
  <2>6. Kept(s, T) \in Seq(S) /\ Kept(P(k), T) \in Seq(S)
    BY <2>1, KeptType
  <2>7. Kept(s \o P(k + 1), T) = Kept(s, T) \o Kept(P(k + 1), T)
    <3>1. Kept(s \o P(k), T) = Kept(s, T) \o Kept(P(k), T)
      BY <1>2
    <3>2. CASE x \in T
      <4>1. Kept(s, T) \o Append(Kept(P(k), T), x) = Append(Kept(s, T) \o Kept(P(k), T), x)
        BY <2>2, <2>6
      <4>2. Kept(P(k + 1), T) = Append(Kept(P(k), T), x)
        BY <3>2, <2>3
      <4>3. Kept(s \o P(k + 1), T) = Append(Kept(s \o P(k), T), x)
        BY <3>2, <2>5
      <4>4. QED
        BY <3>1, <4>1, <4>2, <4>3
    <3>3. CASE x \notin T
      BY <3>1, <3>3, <2>3, <2>5
    <3>4. QED
      BY <3>2, <3>3
  <2>8. QED
    BY <2>1, <2>7
<1> HIDE DEF G
<1>3. \A k \in 0..Len(t) : k \in G
  BY <1>0, <1>1, <1>2, Climb
<1>4. Len(t) \in G
  BY <1>0, <1>3
<1>5. QED
  <2>1. P(Len(t)) = t
    BY PrefixFacts
  <2>2. QED
    BY <1>4, <2>1 DEF G

-----------------------------------------------------------------------------
\* f[i] is the concatenation of ss[1..i], as FlattenSeq builds it.
Flattens(f, ss, n) == \A i \in 1..n : f[i] = IF i = 1 THEN ss[i] ELSE f[i - 1] \o ss[i]

\* FlattenSeq is an iteration over the lists.
LEMMA FlattenIs ==
  ASSUME NEW S, NEW ss \in Seq(Seq(S)), Len(ss) # 0
  PROVE  \E f : Flattens(f, ss, Len(ss)) /\ FlattenSeq(ss) = f[Len(ss)]
<1> DEFINE n == Len(ss)
           Eqn(f, k) == f = [i \in 1..k |-> IF i = 1 THEN ss[i] ELSE f[i - 1] \o ss[i]]
           G == {k \in 0..n : \E f : Eqn(f, k)}
<1>0. n \in Nat
  BY LenProperties
<1>1. 0 \in G
  <2>1. Eqn([i \in 1..0 |-> 0], 0)
    OBVIOUS
  <2>2. 0 \in 0..n
    BY <1>0
  <2>3. \E f : Eqn(f, 0)
    BY <2>1
  <2> HIDE DEF Eqn
  <2>4. QED
    BY <2>2, <2>3
<1>2. ASSUME NEW k \in 0..(n - 1), k \in G PROVE k + 1 \in G
  <2>1. PICK f : Eqn(f, k)
    BY <1>2
  <2>2. f = [i \in 1..k |-> f[i]] /\ \A i \in 1..k : f[i] = IF i = 1 THEN ss[i] ELSE f[i - 1] \o ss[i]
    BY <2>1
  <2> DEFINE last == IF k = 0 THEN ss[1] ELSE f[k] \o ss[k + 1]
             g == [i \in 1..(k + 1) |-> IF i <= k THEN f[i] ELSE last]
             h == [i \in 1..(k + 1) |-> IF i = 1 THEN ss[i] ELSE g[i - 1] \o ss[i]]
  <2>3. ASSUME NEW i \in 1..(k + 1) PROVE g[i] = h[i]
    <3>1. CASE i <= k
      <4>1. i \in 1..k /\ g[i] = f[i] /\ (i # 1 => i - 1 \in 1..k /\ g[i - 1] = f[i - 1])
        BY <3>1
      <4>2. QED
        BY <2>2, <4>1
    <3>2. CASE i = k + 1
      <4>1. k # 0 => k \in 1..k /\ g[k] = f[k]
        OBVIOUS
      <4>2. g[k + 1] = last
        BY <1>0
      <4>3. h[k + 1] = IF k = 0 THEN ss[1] ELSE g[k] \o ss[k + 1]
        BY <1>0
      <4>4. QED
        BY <3>2, <4>1, <4>2, <4>3
    <3>3. QED
      BY <3>1, <3>2
  <2>4. g = h
    <3>1. g = [i \in 1..(k + 1) |-> g[i]] /\ h = [i \in 1..(k + 1) |-> h[i]]
      OBVIOUS
    <3> HIDE DEF g, h
    <3>2. QED
      BY <2>3, <3>1
  <2>5. Eqn(g, k + 1)
    BY <2>4
  <2>6. k + 1 \in 0..n
    BY <1>0
  <2> HIDE DEF Eqn, g
  <2>7. QED
    BY <2>5, <2>6
<1>3. \E f : Eqn(f, n)
  <2> HIDE DEF G
  <2>1. n \in G
    <3>1. \A k \in 0..n : k \in G
      BY <1>0, <1>1, <1>2, Climb
    <3>2. QED
      BY <1>0, <3>1
  <2>2. QED
    BY <2>1 DEF G
<1> DEFINE F == CHOOSE f : Eqn(f, n)
<1>4. Eqn(F, n)
  BY <1>3
<1>5. FlattenSeq(ss) = F[n]
  BY DEF FlattenSeq
<1> HIDE DEF F
<1>6. QED
  BY <1>4, <1>5 DEF Flattens

\* The elements of two lists in a row.
LEMMA ConcatElements ==
  ASSUME NEW S, NEW s \in Seq(S), NEW t \in Seq(S)
  PROVE  s \o t \in Seq(S) /\ ToSet(s \o t) = ToSet(s) \cup ToSet(t)
<1>1. s \o t \in Seq(S) /\ Range(s \o t) = Range(s) \cup Range(t)
  BY RangeConcatenation
<1>2. \A q : Range(q) = ToSet(q)
  BY DEF Range, ToSet
<1>3. QED
  BY <1>1, <1>2

\* The flattened list has the elements of the lists it is made of.
THEOREM FlattenElements ==
  ASSUME NEW S, NEW ss \in Seq(Seq(S))
  PROVE  /\ FlattenSeq(ss) \in Seq(S)
         /\ ToSet(FlattenSeq(ss)) = UNION {ToSet(ss[i]) : i \in 1..Len(ss)}
<1> DEFINE n == Len(ss)
           U(k) == UNION {ToSet(ss[i]) : i \in 1..k}
<1>0. n \in Nat /\ \A i \in 1..n : ss[i] \in Seq(S)
  BY LenProperties
<1>1. CASE n = 0
  <2>1. ss = <<>> /\ 1..n = {}
    BY <1>1
  <2>2. FlattenSeq(ss) = <<>>
    BY <1>1, <2>1 DEF FlattenSeq
  <2>3. ToSet(<<>>) = {} /\ <<>> \in Seq(S)
    BY EmptySeq DEF ToSet
  <2>4. QED
    BY <2>1, <2>2, <2>3
<1>2. CASE n # 0
  <2>1. PICK f : Flattens(f, ss, n) /\ FlattenSeq(ss) = f[n]
    BY <1>2, FlattenIs
  <2> DEFINE G == {k \in 0..n : k = 0 \/ (f[k] \in Seq(S) /\ ToSet(f[k]) = U(k))}
  <2>2. 0 \in G
    BY <1>0
  <2>3. ASSUME NEW k \in 0..(n - 1), k \in G PROVE k + 1 \in G
    <3>1. k + 1 \in 1..n /\ k + 1 \in 0..n /\ ss[k + 1] \in Seq(S)
      BY <1>0
    <3>2. U(k + 1) = U(k) \cup ToSet(ss[k + 1])
      <4>1. \A i \in 1..(k + 1) : i \in 1..k \/ i = k + 1
        BY <1>0
      <4>2. 1..k \subseteq 1..(k + 1) /\ k + 1 \in 1..(k + 1)
        BY <1>0
      <4>3. QED
        BY <4>1, <4>2
    <3>3. f[k + 1] = IF k = 0 THEN ss[k + 1] ELSE f[k] \o ss[k + 1]
      <4>1. (k + 1) - 1 = k /\ (k + 1 = 1 <=> k = 0)
        OBVIOUS
      <4>2. f[k + 1] = IF k + 1 = 1 THEN ss[k + 1] ELSE f[(k + 1) - 1] \o ss[k + 1]
        BY <2>1, <3>1 DEF Flattens
      <4>3. QED
        BY <4>1, <4>2
    <3>4. f[k + 1] \in Seq(S) /\ ToSet(f[k + 1]) = U(k) \cup ToSet(ss[k + 1])
      <4>1. CASE k = 0
        <5>1. U(0) = {}
          <6>1. 1..0 = {}
            OBVIOUS
          <6>2. QED
            BY <6>1
        <5> HIDE DEF U
        <5>2. U(k) = {}
          BY <4>1, <5>1
        <5>3. QED
          BY <3>1, <3>3, <4>1, <5>2
      <4>2. CASE k # 0
        <5> HIDE DEF U
        <5>1. f[k] \in Seq(S) /\ ToSet(f[k]) = U(k)
          BY <2>3, <4>2
        <5>2. f[k] \o ss[k + 1] \in Seq(S) /\ ToSet(f[k] \o ss[k + 1]) = ToSet(f[k]) \cup ToSet(ss[k + 1])
          BY <3>1, <5>1, ConcatElements
        <5>3. QED
          BY <3>3, <4>2, <5>1, <5>2
      <4>3. QED
        BY <4>1, <4>2
    <3> HIDE DEF U
    <3>5. QED
      BY <3>1, <3>2, <3>4
  <2> HIDE DEF G
  <2>4. n \in G
    <3>1. \A k \in 0..n : k \in G
      BY <1>0, <2>2, <2>3, Climb
    <3>2. QED
      BY <1>0, <3>1
  <2>5. QED
    BY <1>2, <2>1, <2>4 DEF G
<1>3. QED
  BY <1>1, <1>2

-----------------------------------------------------------------------------
\* The same facts of lists whose elements need no set of their own.
List(s) == s \in Seq(ToSet(s))

\* A sequence over any set is a list of its own elements.
LEMMA SeqIsList == ASSUME NEW S, NEW s \in Seq(S) PROVE List(s) /\ ToSet(s) \subseteq S
<1>1. Len(s) \in Nat /\ DOMAIN s = 1..Len(s) /\ \A i \in 1..Len(s) : s[i] \in S
  BY LenProperties, ElementOfSeq
<1>2. s = [i \in 1..Len(s) |-> s[i]]
  OBVIOUS
<1>3. \A i \in 1..Len(s) : s[i] \in ToSet(s)
  BY <1>1 DEF ToSet
<1>4. s \in Seq(ToSet(s))
  BY <1>1, <1>2, <1>3
<1>5. QED
  BY <1>1, <1>4 DEF List, ToSet

\* A list is a sequence over every set that has its elements.
LEMMA ListIsSeq == ASSUME NEW s, List(s), NEW S, ToSet(s) \subseteq S PROVE s \in Seq(S)
BY DEF List

\* A function on 1..n is a list of length n.
LEMMA ListFunction ==
  ASSUME NEW q, NEW n \in Nat, DOMAIN q = 1..n, q = [i \in 1..n |-> q[i]]
  PROVE  List(q) /\ Len(q) = n
<1>1. \A i \in 1..n : q[i] \in ToSet(q)
  BY DEF ToSet
<1>2. q \in Seq(ToSet(q)) /\ Len(q) = n
  BY <1>1
<1>3. QED
  BY <1>2 DEF List

\* Concatenation joins the elements.
LEMMA ListConcat ==
  ASSUME NEW s, List(s), NEW t, List(t)
  PROVE  List(s \o t) /\ ToSet(s \o t) = ToSet(s) \cup ToSet(t)
<1> DEFINE S == ToSet(s) \cup ToSet(t)
<1>1. s \in Seq(S) /\ t \in Seq(S)
  BY ListIsSeq
<1> HIDE DEF S
<1>2. s \o t \in Seq(S) /\ ToSet(s \o t) = ToSet(s) \cup ToSet(t)
  BY <1>1, ConcatElements
<1>3. QED
  BY <1>2, SeqIsList

\* Kept keeps the elements that are in the set.
LEMMA ListKept ==
  ASSUME NEW s, List(s), NEW T
  PROVE  List(Kept(s, T)) /\ ToSet(Kept(s, T)) = ToSet(s) \cap T
<1>1. s \in Seq(ToSet(s))
  BY DEF List
<1>2. Kept(s, T) \in Seq(ToSet(s)) /\ ToSet(Kept(s, T)) = ToSet(s) \cap T
  BY <1>1, KeptType, KeptElements
<1>3. QED
  BY <1>2, SeqIsList

\* FlattenSeq, of any list of lists, has all their elements and no others.
LEMMA ListFlatten ==
  ASSUME NEW ss, List(ss), \A i \in DOMAIN ss : List(ss[i])
  PROVE  List(FlattenSeq(ss)) /\ ToSet(FlattenSeq(ss)) = UNION {ToSet(ss[i]) : i \in DOMAIN ss}
<1> DEFINE S == UNION {ToSet(ss[i]) : i \in DOMAIN ss}
<1>1. \A i \in DOMAIN ss : ss[i] \in Seq(S)
  <2> SUFFICES ASSUME NEW i \in DOMAIN ss PROVE ss[i] \in Seq(S)
    OBVIOUS
  <2>1. ToSet(ss[i]) \subseteq S
    OBVIOUS
  <2>2. QED
    BY <2>1, ListIsSeq
<1>2. ToSet(ss) \subseteq Seq(S)
  BY <1>1 DEF ToSet
<1>3. ss \in Seq(Seq(S)) /\ DOMAIN ss = 1..Len(ss)
  BY <1>2, ListIsSeq, LenProperties
<1> HIDE DEF S
<1>4. /\ FlattenSeq(ss) \in Seq(S)
      /\ ToSet(FlattenSeq(ss)) = UNION {ToSet(ss[i]) : i \in 1..Len(ss)}
  BY <1>3, FlattenElements
<1>5. QED
  BY <1>3, <1>4, SeqIsList

\* The empty list has no elements.
LEMMA ListEmpty == List(<<>>) /\ ToSet(<<>>) = {}
BY DEF List, ToSet

\* A list of one.
LEMMA ListOne == ASSUME NEW x PROVE List(<<x>>) /\ ToSet(<<x>>) = {x}
BY DEF List, ToSet

-----------------------------------------------------------------------------
(* The first element of a list that is in a set. *)
\* x is the first element of s that is in A.
IsFirst(s, A, x) == \E i \in DOMAIN s : /\ s[i] = x /\ x \in A
                                        /\ \A j \in DOMAIN s : j < i => s[j] \notin A

\* The first of a list with one more element.
LEMMA FirstAppend ==
  ASSUME NEW S, NEW s \in Seq(S), NEW y \in S, NEW A, NEW x
  PROVE  IsFirst(Append(s, y), A, x) <=>
           IsFirst(s, A, x) \/ (ToSet(s) \cap A = {} /\ y = x /\ x \in A)
<1> DEFINE n == Len(s)
           t == Append(s, y)
<1>1. /\ n \in Nat /\ DOMAIN s = 1..n /\ DOMAIN t = 1..(n + 1)
      /\ t[n + 1] = y /\ \A i \in 1..n : t[i] = s[i]
  BY LenProperties, AppendProperties
<1> HIDE DEF n, t
<1>2. ASSUME NEW i \in DOMAIN t, t[i] = x, x \in A, \A j \in DOMAIN t : j < i => t[j] \notin A
      PROVE  IsFirst(s, A, x) \/ (ToSet(s) \cap A = {} /\ y = x /\ x \in A)
  <2>1. CASE i = n + 1
    <3>1. \A j \in DOMAIN s : s[j] \notin A
      BY <1>1, <1>2, <2>1
    <3>2. QED
      BY <1>1, <1>2, <2>1, <3>1 DEF ToSet
  <2>2. CASE i # n + 1
    <3>1. i \in DOMAIN s /\ s[i] = x /\ \A j \in DOMAIN s : j < i => s[j] \notin A
      BY <1>1, <1>2, <2>2
    <3>2. QED
      BY <1>2, <3>1 DEF IsFirst
  <2>3. QED
    BY <2>1, <2>2
<1>3. ASSUME NEW i \in DOMAIN s, s[i] = x, x \in A, \A j \in DOMAIN s : j < i => s[j] \notin A
      PROVE  IsFirst(t, A, x)
  <2>1. i \in DOMAIN t /\ t[i] = x /\ \A j \in DOMAIN t : j < i => t[j] \notin A
    BY <1>1, <1>3
  <2>2. QED
    BY <1>3, <2>1 DEF IsFirst
<1>4. ASSUME ToSet(s) \cap A = {}, y = x, x \in A
      PROVE  IsFirst(t, A, x)
  <2>1. \A j \in DOMAIN s : s[j] \notin A
    BY <1>4 DEF ToSet
  <2>2. n + 1 \in DOMAIN t /\ t[n + 1] = x /\ \A j \in DOMAIN t : j < n + 1 => t[j] \notin A
    BY <1>1, <1>4, <2>1
  <2>3. QED
    BY <1>4, <2>2 DEF IsFirst
<1>5. QED
  BY <1>2, <1>3, <1>4 DEF IsFirst, t

\* Filtering a list does not change which of its elements is the first in A, if
\* it keeps those.
LEMMA FirstKept ==
  ASSUME NEW S, NEW s \in Seq(S), NEW T, NEW A, ToSet(s) \cap A \subseteq T, NEW x
  PROVE  IsFirst(Kept(s, T), A, x) <=> IsFirst(s, A, x)
<1> DEFINE P(k) == SubSeq(s, 1, k)
           G == {k \in 0..Len(s) : /\ IsFirst(Kept(P(k), T), A, x) <=> IsFirst(P(k), A, x)
                                   /\ ToSet(P(k)) \subseteq ToSet(s)}
<1>0. Len(s) \in Nat /\ DOMAIN s = 1..Len(s)
  BY LenProperties
<1>1. 0 \in G
  <2>1. P(0) = <<>> /\ 0 \in 0..Len(s)
    BY <1>0, PrefixFacts
  <2>2. Kept(<<>>, T) = <<>>
    BY KeptEmpty
  <2>3. ToSet(<<>>) = {}
    BY ListEmpty
  <2>4. QED
    BY <2>1, <2>2, <2>3
<1>2. ASSUME NEW k \in 0..(Len(s) - 1), k \in G PROVE k + 1 \in G
  <2> DEFINE p == P(k)
             y == s[k + 1]
             q == Kept(p, T)
  <2>1. p \in Seq(S) /\ y \in S /\ P(k + 1) = Append(p, y) /\ k + 1 \in 0..Len(s)
    BY <1>0, PrefixFacts
  <2>2. y \in ToSet(s)
    <3>1. k + 1 \in DOMAIN s
      BY <1>0
    <3>2. QED
      BY <3>1 DEF ToSet
  <2>3. ToSet(p) \subseteq ToSet(s) /\ (IsFirst(q, A, x) <=> IsFirst(p, A, x))
    BY <1>2
  <2> HIDE DEF P, p, y, q, G
  <2>4. q \in Seq(S) /\ ToSet(q) = ToSet(p) \cap T
    BY <2>1, KeptType, ListKept, SeqIsList DEF q
  <2>5. Kept(Append(p, y), T) = IF y \in T THEN Append(q, y) ELSE q
    BY <2>1, KeptAppend DEF q
  <2>6. IsFirst(Append(p, y), A, x) <=> IsFirst(p, A, x) \/ (ToSet(p) \cap A = {} /\ y = x /\ x \in A)
    BY <2>1, FirstAppend
  <2>7. IsFirst(Append(q, y), A, x) <=> IsFirst(q, A, x) \/ (ToSet(q) \cap A = {} /\ y = x /\ x \in A)
    BY <2>1, <2>4, FirstAppend
  <2>8. ToSet(q) \cap A = ToSet(p) \cap A
    BY <2>3, <2>4
  <2>9. y \notin T => y \notin A
    BY <2>2
  <2>10. IsFirst(Kept(Append(p, y), T), A, x) <=> IsFirst(Append(p, y), A, x)
    <3>1. CASE y \in T
      BY ONLY <2>3, <2>5, <2>6, <2>7, <2>8, <3>1
    <3>2. CASE y \notin T
      BY ONLY <2>3, <2>5, <2>6, <2>9, <3>2
    <3>3. QED
      BY ONLY <3>1, <3>2
  <2>11. ToSet(Append(p, y)) \subseteq ToSet(s)
    <3>1. ToSet(Append(p, y)) = ToSet(p) \cup {y}
      BY <2>1, AppendElements
    <3>2. QED
      BY <2>2, <2>3, <3>1
  <2>12. QED
    BY <2>1, <2>10, <2>11 DEF G
<1> HIDE DEF G
<1>3. \A k \in 0..Len(s) : k \in G
  BY <1>0, <1>1, <1>2, Climb
<1>4. Len(s) \in G
  BY <1>0, <1>3
<1>5. QED
  <2>1. P(Len(s)) = s
    BY PrefixFacts
  <2>2. QED
    BY <1>4, <2>1 DEF G
-----------------------------------------------------------------------------
(* A list that is filtered twice, and a list of what a function makes of each. *)
\* Filtering what was filtered keeps what is in both sets.
LEMMA KeptTwice ==
  ASSUME NEW S, NEW s \in Seq(S), NEW T, NEW U, NEW V,
         \A x \in ToSet(s) : x \in V <=> x \in T /\ x \in U
  PROVE  Kept(Kept(s, T), U) = Kept(s, V)
<1> DEFINE P(k) == SubSeq(s, 1, k)
           G == {k \in 0..Len(s) : Kept(Kept(P(k), T), U) = Kept(P(k), V)}
<1>0. Len(s) \in Nat /\ DOMAIN s = 1..Len(s)
  BY LenProperties
<1>1. 0 \in G
  <2>1. P(0) = <<>> /\ 0 \in 0..Len(s)
    BY <1>0, PrefixFacts
  <2>2. Kept(<<>>, T) = <<>> /\ Kept(<<>>, U) = <<>> /\ Kept(<<>>, V) = <<>>
    BY KeptEmpty
  <2>3. QED
    BY <2>1, <2>2
<1>2. ASSUME NEW k \in 0..(Len(s) - 1), k \in G PROVE k + 1 \in G
  <2> DEFINE p == P(k)
             x == s[k + 1]
             q == Kept(p, T)
  <2>1. p \in Seq(S) /\ x \in S /\ P(k + 1) = Append(p, x) /\ k + 1 \in 0..Len(s)
    BY <1>0, PrefixFacts
  <2>2. x \in V <=> x \in T /\ x \in U
    <3>1. x \in ToSet(s)
      BY <1>0 DEF ToSet
    <3>2. QED
      BY <3>1
  <2>3. Kept(q, U) = Kept(p, V)
    BY <1>2
  <2> HIDE DEF P, p, x, q, G
  <2>4. q \in Seq(S)
    BY <2>1, KeptType DEF q
  <2>5. Kept(Append(p, x), T) = IF x \in T THEN Append(q, x) ELSE q
    BY <2>1, KeptAppend DEF q
  <2>6. Kept(Append(p, x), V) = IF x \in V THEN Append(Kept(p, V), x) ELSE Kept(p, V)
    BY <2>1, KeptAppend
  <2>7. Kept(Append(q, x), U) = IF x \in U THEN Append(Kept(q, U), x) ELSE Kept(q, U)
    BY <2>1, <2>4, KeptAppend
  <2>8. Kept(Kept(Append(p, x), T), U) = Kept(Append(p, x), V)
    <3>1. CASE x \in T
      BY ONLY <3>1, <2>2, <2>3, <2>5, <2>6, <2>7
    <3>2. CASE x \notin T
      BY ONLY <3>2, <2>2, <2>3, <2>5, <2>6
    <3>3. QED
      BY ONLY <3>1, <3>2
  <2>9. QED
    BY <2>1, <2>8 DEF G
<1> HIDE DEF G
<1>3. \A k \in 0..Len(s) : k \in G
  BY <1>0, <1>1, <1>2, Climb
<1>4. Len(s) \in G
  BY <1>0, <1>3
<1>5. QED
  <2>1. P(Len(s)) = s
    BY PrefixFacts
  <2>2. QED
    BY <1>4, <2>1 DEF G

\* What f makes of every element.
Mapped(f, s) == [i \in DOMAIN s |-> f[s[i]]]
Maps(f, S, R) == f \in [S -> R]

\* A function on the elements of a list gives a list.
LEMMA MappedIs ==
  ASSUME NEW S, NEW R, NEW f, Maps(f, S, R), NEW s \in Seq(S)
  PROVE  /\ Mapped(f, s) \in Seq(R) /\ Len(Mapped(f, s)) = Len(s)
         /\ DOMAIN Mapped(f, s) = 1..Len(s) /\ \A i \in 1..Len(s) : Mapped(f, s)[i] = f[s[i]]
<1>1. Len(s) \in Nat /\ DOMAIN s = 1..Len(s) /\ \A i \in 1..Len(s) : s[i] \in S
  BY LenProperties, ElementOfSeq
<1>2. \A i \in 1..Len(s) : f[s[i]] \in R
  BY <1>1 DEF Maps
<1>3. QED
  BY <1>1, <1>2 DEF Mapped

\* It grows with the list.
LEMMA MappedAppend ==
  ASSUME NEW S, NEW R, NEW f, Maps(f, S, R), NEW s \in Seq(S), NEW x \in S
  PROVE  Mapped(f, Append(s, x)) = Append(Mapped(f, s), f[x])
<1> DEFINE t == Append(s, x)
           u == Append(Mapped(f, s), f[x])
           v == Mapped(f, t)
           n == Len(s)
<1>1. /\ n \in Nat /\ t \in Seq(S) /\ Len(t) = n + 1
      /\ \A i \in 1..n : t[i] = s[i]
      /\ t[n + 1] = x
  BY LenProperties, AppendProperties
<1> HIDE DEF t, u, v
<1>2. /\ Mapped(f, s) \in Seq(R) /\ Len(Mapped(f, s)) = n
      /\ \A i \in 1..n : Mapped(f, s)[i] = f[s[i]]
  BY MappedIs
<1>3. /\ v \in Seq(R) /\ Len(v) = n + 1
      /\ \A i \in 1..(n + 1) : v[i] = f[t[i]]
  BY <1>1, MappedIs DEF v
<1>4. f[x] \in R
  BY DEF Maps
<1>5. /\ u \in Seq(R) /\ Len(u) = n + 1
      /\ \A i \in 1..n : u[i] = Mapped(f, s)[i]
      /\ u[n + 1] = f[x]
  BY <1>2, <1>4, AppendProperties DEF u
<1> HIDE DEF n
<1>6. \A i \in 1..(n + 1) : i \in 1..n \/ i = n + 1
  BY <1>1
<1>7. \A i \in 1..(n + 1) : u[i] = v[i]
  BY <1>1, <1>2, <1>3, <1>5, <1>6
<1>8. u = v
  <2>1. Len(u) = Len(v) /\ \A i \in 1..Len(u) : u[i] = v[i]
    BY <1>3, <1>5, <1>7
  <2>2. QED
    BY <1>3, <1>5, <2>1, SeqEqual
<1>9. QED
  BY <1>8 DEF u, v, t

\* Filtering and mapping commute, if f keeps what is kept.
LEMMA KeptMapped ==
  ASSUME NEW S, NEW R, NEW f, Maps(f, S, R), NEW s \in Seq(S), NEW T, NEW U,
         \A x \in ToSet(s) : f[x] \in U <=> x \in T
  PROVE  Kept(Mapped(f, s), U) = Mapped(f, Kept(s, T))
<1> DEFINE P(k) == SubSeq(s, 1, k)
           G == {k \in 0..Len(s) : Kept(Mapped(f, P(k)), U) = Mapped(f, Kept(P(k), T))}
<1>0. Len(s) \in Nat /\ DOMAIN s = 1..Len(s)
  BY LenProperties
<1>1. 0 \in G
  <2>1. P(0) = <<>> /\ 0 \in 0..Len(s)
    BY <1>0, PrefixFacts
  <2>2. Kept(<<>>, T) = <<>> /\ Kept(<<>>, U) = <<>> /\ Mapped(f, <<>>) = <<>>
    BY KeptEmpty DEF Mapped
  <2>3. QED
    BY <2>1, <2>2
<1>2. ASSUME NEW k \in 0..(Len(s) - 1), k \in G PROVE k + 1 \in G
  <2> DEFINE p == P(k)
             x == s[k + 1]
             q == Kept(p, T)
             m == Mapped(f, p)
  <2>1. p \in Seq(S) /\ x \in S /\ P(k + 1) = Append(p, x) /\ k + 1 \in 0..Len(s)
    BY <1>0, PrefixFacts
  <2>2. f[x] \in U <=> x \in T
    <3>1. x \in ToSet(s)
      BY <1>0 DEF ToSet
    <3>2. QED
      BY <3>1
  <2>3. Kept(m, U) = Mapped(f, q)
    BY <1>2
  <2> HIDE DEF P, p, x, q, m, G
  <2>4. q \in Seq(S) /\ m \in Seq(R) /\ f[x] \in R
    BY <2>1, KeptType, MappedIs DEF q, m, Maps
  <2>5. Kept(Append(p, x), T) = IF x \in T THEN Append(q, x) ELSE q
    BY <2>1, KeptAppend DEF q
  <2>6. Mapped(f, Append(p, x)) = Append(m, f[x]) /\ Mapped(f, Append(q, x)) = Append(Mapped(f, q), f[x])
    BY <2>1, <2>4, MappedAppend DEF m
  <2> DEFINE y == f[x]
  <2>7. y \in R
    BY <2>4
  <2>8. /\ Mapped(f, Append(p, x)) = Append(m, y) /\ Mapped(f, Append(q, x)) = Append(Mapped(f, q), y)
        /\ y \in U <=> x \in T
    BY <2>2, <2>6
  <2> HIDE DEF y
  <2>9. Kept(Append(m, y), U) = IF y \in U THEN Append(Kept(m, U), y) ELSE Kept(m, U)
    BY <2>4, <2>7, KeptAppend
  <2>10. Kept(Mapped(f, Append(p, x)), U) = Mapped(f, Kept(Append(p, x), T))
    <3>1. CASE x \in T
      BY ONLY <3>1, <2>3, <2>5, <2>8, <2>9
    <3>2. CASE x \notin T
      BY ONLY <3>2, <2>3, <2>5, <2>8, <2>9
    <3>3. QED
      BY ONLY <3>1, <3>2
  <2>11. QED
    BY <2>1, <2>10 DEF G
<1> HIDE DEF G
<1>3. \A k \in 0..Len(s) : k \in G
  BY <1>0, <1>1, <1>2, Climb
<1>4. Len(s) \in G
  BY <1>0, <1>3
<1>5. QED
  <2>1. P(Len(s)) = s
    BY PrefixFacts
  <2>2. QED
    BY <1>4, <2>1 DEF G
-----------------------------------------------------------------------------
(* Sorting: a permutation, and of a list in order the list itself. *)
\* What is kept of a list and what is left out of it are the list.
LEMMA KeptAndLeft ==
  ASSUME NEW S, NEW s \in Seq(S), NEW T, NEW U, \A x \in ToSet(s) : x \in U <=> x \notin T
  PROVE  /\ Len(Kept(s, T)) + Len(Kept(s, U)) = Len(s)
         /\ ToSet(Kept(s, T)) \cup ToSet(Kept(s, U)) = ToSet(s)
<1> DEFINE P(k) == SubSeq(s, 1, k)
           G == {k \in 0..Len(s) : Len(Kept(P(k), T)) + Len(Kept(P(k), U)) = k}
<1>0. Len(s) \in Nat /\ DOMAIN s = 1..Len(s)
  BY LenProperties
<1>1. 0 \in G
  <2>1. P(0) = <<>> /\ 0 \in 0..Len(s)
    BY <1>0, PrefixFacts
  <2>2. Kept(<<>>, T) = <<>> /\ Kept(<<>>, U) = <<>> /\ Len(<<>>) = 0
    BY KeptEmpty
  <2> HIDE DEF P
  <2>3. QED
    BY <2>1, <2>2
<1>2. ASSUME NEW k \in 0..(Len(s) - 1), k \in G PROVE k + 1 \in G
  <2> DEFINE p == P(k)
             x == s[k + 1]
             q == Kept(p, T)
             r == Kept(p, U)
  <2>1. p \in Seq(S) /\ x \in S /\ P(k + 1) = Append(p, x) /\ k + 1 \in 0..Len(s)
    BY <1>0, PrefixFacts
  <2>2. x \in U <=> x \notin T
    <3>1. x \in ToSet(s)
      BY <1>0 DEF ToSet
    <3>2. QED
      BY <3>1
  <2>3. Len(q) + Len(r) = k
    BY <1>2
  <2> HIDE DEF P, p, x, q, r, G
  <2>4. q \in Seq(S) /\ r \in Seq(S)
    BY <2>1, KeptType DEF q, r
  <2>5. Kept(Append(p, x), T) = IF x \in T THEN Append(q, x) ELSE q
    BY <2>1, KeptAppend DEF q
  <2>6. Kept(Append(p, x), U) = IF x \in U THEN Append(r, x) ELSE r
    BY <2>1, KeptAppend DEF r
  <2>7. Len(Append(q, x)) = Len(q) + 1 /\ Len(Append(r, x)) = Len(r) + 1 /\ Len(q) \in Nat /\ Len(r) \in Nat
    BY <2>1, <2>4, AppendProperties, LenProperties
  <2>8. Len(Kept(Append(p, x), T)) + Len(Kept(Append(p, x), U)) = k + 1
    <3>1. CASE x \in T
      <4>1. Kept(Append(p, x), T) = Append(q, x) /\ Kept(Append(p, x), U) = r
        BY ONLY <2>2, <2>5, <2>6, <3>1
      <4>2. QED
        BY ONLY <2>3, <2>7, <4>1
    <3>2. CASE x \notin T
      <4>1. Kept(Append(p, x), T) = q /\ Kept(Append(p, x), U) = Append(r, x)
        BY ONLY <2>2, <2>5, <2>6, <3>2
      <4>2. QED
        BY ONLY <2>3, <2>7, <4>1
    <3>3. QED
      BY ONLY <3>1, <3>2
  <2>9. QED
    BY <2>1, <2>8 DEF G
<1> HIDE DEF G
<1>3. \A k \in 0..Len(s) : k \in G
  BY <1>0, <1>1, <1>2, Climb
<1>4. Len(s) \in G
  BY <1>0, <1>3
<1>5. P(Len(s)) = s
  BY PrefixFacts
<1>6. Len(Kept(s, T)) + Len(Kept(s, U)) = Len(s)
  BY <1>4, <1>5 DEF G
<1>7. ToSet(Kept(s, T)) = ToSet(s) \cap T /\ ToSet(Kept(s, U)) = ToSet(s) \cap U
  BY KeptElements
<1>8. QED
  BY <1>6, <1>7

\* An element that is put in its place is there, with all the others; behind all
\* of them, if none has a greater key.
LEMMA InsertedIs ==
  ASSUME NEW S, NEW s \in Seq(S), NEW x \in S, NEW key
  PROVE  /\ Inserted(s, x, key) \in Seq(S)
         /\ Len(Inserted(s, x, key)) = Len(s) + 1
         /\ ToSet(Inserted(s, x, key)) = ToSet(s) \cup {x}
         /\ (\A y \in ToSet(s) : ~(key[y] > key[x])) => Inserted(s, x, key) = Append(s, x)
<1> DEFINE T == {y \in ToSet(s) : key[y] > key[x]}
           U == ToSet(s) \ T
           a == Kept(s, U)
           b == <<x>>
           c == Kept(s, T)
<1>1. Inserted(s, x, key) = a \o b \o c
  BY DEF Inserted
<1>2. a \in Seq(S) /\ c \in Seq(S)
  BY KeptType
<1>3. b \in Seq(S) /\ Len(b) = 1 /\ ToSet(b) = {x}
  BY ListOne
<1>4. Len(a) + Len(c) = Len(s) /\ ToSet(a) \cup ToSet(c) = ToSet(s)
  <2>1. \A y \in ToSet(s) : y \in T <=> y \notin U
    OBVIOUS
  <2> HIDE DEF T, U
  <2>2. Len(Kept(s, U)) + Len(Kept(s, T)) = Len(s) /\ ToSet(Kept(s, U)) \cup ToSet(Kept(s, T)) = ToSet(s)
    BY ONLY s \in Seq(S), <2>1, KeptAndLeft
  <2>3. QED
    BY <2>2
<1>5. T = {} => c = <<>> /\ a = s
  <2>1. T = {} => ToSet(s) \cap T = {} /\ ToSet(s) \subseteq U
    OBVIOUS
  <2> HIDE DEF T, U
  <2>2. QED
    BY <2>1, KeptAllOrNone
<1>6. (\A y \in ToSet(s) : ~(key[y] > key[x])) => T = {}
  OBVIOUS
<1> HIDE DEF a, b, c, T, U
<1>7. a \o b \in Seq(S) /\ ToSet(a \o b) = ToSet(a) \cup ToSet(b)
  BY <1>2, <1>3, ConcatElements
<1>8. ((a \o b) \o c) \in Seq(S) /\ ToSet((a \o b) \o c) = ToSet(a \o b) \cup ToSet(c)
  <2> DEFINE d == a \o b
  <2>1. d \in Seq(S) /\ c \in Seq(S)
    BY <1>2, <1>7
  <2> HIDE DEF d
  <2>2. d \o c \in Seq(S) /\ ToSet(d \o c) = ToSet(d) \cup ToSet(c)
    BY ONLY <2>1, ConcatElements
  <2>3. QED
    BY <2>2 DEF d
<1>9. Len((a \o b) \o c) = Len(a) + 1 + Len(c) /\ Len(a) \in Nat /\ Len(c) \in Nat
  <2>1. Len(a \o b) = Len(a) + Len(b)
    BY <1>2, <1>3, ConcatProperties
  <2>2. Len((a \o b) \o c) = Len(a \o b) + Len(c)
    BY <1>2, <1>7, ConcatProperties
  <2>3. Len(a) \in Nat /\ Len(c) \in Nat
    BY <1>2, LenProperties
  <2>4. QED
    BY ONLY <1>3, <2>1, <2>2, <2>3
<1>10. T = {} => (a \o b) \o c = Append(s, x)
  <2>1. s \o <<x>> = Append(s, x)
    BY AppendIsConcat
  <2>2. (a \o b) \o <<>> = a \o b
    BY <1>7, ConcatEmptySeq
  <2>3. QED
    BY ONLY <1>5, <2>1, <2>2 DEF b
<1>11. QED
  <2> DEFINE r == Inserted(s, x, key)
  <2>1. r = (a \o b) \o c
    BY <1>1
  <2> HIDE DEF r
  <2>2. r \in Seq(S) /\ ToSet(r) = ToSet(s) \cup {x}
    BY ONLY <1>3, <1>4, <1>7, <1>8, <2>1
  <2>3. Len(r) = Len(s) + 1
    BY ONLY <1>4, <1>9, <2>1
  <2>4. (\A y \in ToSet(s) : ~(key[y] > key[x])) => r = Append(s, x)
    BY ONLY <1>6, <1>10, <2>1
  <2>5. QED
    BY ONLY <2>2, <2>3, <2>4 DEF r

\* What has been sorted after k elements.
Sorts(f, s, key) == /\ f[0] = <<>>
                    /\ \A k \in 1..Len(s) : f[k] = Inserted(f[k - 1], s[k], key)

\* Sorted is an iteration: the definition of FoldLeft, unfolded.
LEMMA SortedIterates ==
  ASSUME NEW S, NEW s \in Seq(S), NEW key
  PROVE  \E f : Sorts(f, s, key) /\ Sorted(s, key) = f[Len(s)]
<1> DEFINE n == Len(s)
           step == [p \in Seq(S) \X (1..n) |-> Inserted(p[1], s[p[2]], key)]
           Eqn(it) == it = [r \in SUBSET DOMAIN s |->
                              IF r = {} THEN <<>> ELSE Inserted(it[r \ {Max(r)}], s[Max(r)], key)]
           f == CHOOSE it : Eqn(it)
<1>1. n \in Nat /\ DOMAIN s = 1..n /\ \A i \in 1..n : s[i] \in S
  BY LenProperties
<1>2. step \in [Seq(S) \X (1..n) -> Seq(S)]
  <2>1. ASSUME NEW p \in Seq(S) \X (1..n) PROVE Inserted(p[1], s[p[2]], key) \in Seq(S)
    <3>1. p[1] \in Seq(S) /\ s[p[2]] \in S
      BY <1>1
    <3>2. QED
      BY <3>1, InsertedIs
  <2>2. QED
    BY <2>1
<1>3. <<>> \in Seq(S)
  BY EmptySeq
<1>4. PICK g \in [SUBSET (1..n) -> Seq(S)] : Iterates(g, <<>>, step, n)
  <2> HIDE DEF step, n
  <2>1. QED
    BY <1>1, <1>2, <1>3, IterationExists
<1>5. ASSUME NEW r \in SUBSET (1..n)
      PROVE  g[r] = IF r = {} THEN <<>> ELSE Inserted(g[r \ {Max(r)}], s[Max(r)], key)
  <2>1. CASE r = {}
    BY <1>4, <2>1 DEF Iterates
  <2>2. CASE r # {}
    <3>1. Max(r) \in 1..n
      BY <1>1, <1>5, <2>2, MaxOfFinite
    <3>2. g[r \ {Max(r)}] \in Seq(S)
      BY <1>4
    <3>3. g[r] = step[<<g[r \ {Max(r)}], Max(r)>>]
      BY <1>4, <2>2 DEF Iterates
    <3>4. QED
      BY <2>2, <3>1, <3>2, <3>3
  <2>3. QED
    BY <2>1, <2>2
<1>6. Eqn(g)
  <2>1. g = [r \in SUBSET (1..n) |-> g[r]]
    BY <1>4
  <2>2. QED
    BY <1>1, <1>5, <2>1
<1>7. Eqn(f)
  BY <1>6
<1>8. Sorted(s, key) = f[DOMAIN s]
  BY DEF Sorted, FoldLeft, MapThenFoldSet
<1> HIDE DEF f
<1>9. \A r \in SUBSET (1..n) : f[r] = IF r = {} THEN <<>> ELSE Inserted(f[r \ {Max(r)}], s[Max(r)], key)
  BY <1>1, <1>7
<1> HIDE DEF Eqn
<1> DEFINE h == [k \in 0..n |-> f[1..k]]
<1>10. h[0] = <<>>
  <2>1. 1..0 = {} /\ 1..0 \in SUBSET (1..n) /\ 0 \in 0..n
    BY <1>1
  <2>2. h[0] = f[1..0]
    BY <2>1
  <2>3. QED
    BY <1>9, <2>1, <2>2
<1>11. ASSUME NEW k \in 1..n PROVE h[k] = Inserted(h[k - 1], s[k], key)
  <2>1. k \in Nat /\ k # 0 /\ 1..k \in SUBSET (1..n) /\ k \in 0..n /\ k - 1 \in 0..n
    BY <1>1
  <2>2. Max(1..k) = k /\ (1..k) \ {Max(1..k)} = 1..(k - 1) /\ 1..k # {}
    BY <2>1, LastOfInterval
  <2>3. f[1..k] = Inserted(f[1..(k - 1)], s[k], key)
    BY <1>9, <2>1, <2>2
  <2>4. QED
    BY <2>1, <2>3
<1>12. h[n] = Sorted(s, key)
  BY <1>1, <1>8
<1> HIDE DEF h
<1>13. Sorts(h, s, key)
  BY <1>10, <1>11 DEF Sorts
<1>14. QED
  BY <1>12, <1>13

\* A sorted list has the same elements, as many of them.
THEOREM SortedIs ==
  ASSUME NEW S, NEW s \in Seq(S), NEW key
  PROVE  /\ Sorted(s, key) \in Seq(S) /\ Len(Sorted(s, key)) = Len(s)
         /\ ToSet(Sorted(s, key)) = ToSet(s)
<1> DEFINE P(k) == SubSeq(s, 1, k)
<1>0. Len(s) \in Nat /\ DOMAIN s = 1..Len(s)
  BY LenProperties
<1>1. PICK f : Sorts(f, s, key) /\ Sorted(s, key) = f[Len(s)]
  BY SortedIterates
<1> DEFINE G == {k \in 0..Len(s) : f[k] \in Seq(S) /\ Len(f[k]) = k /\ ToSet(f[k]) = ToSet(P(k))}
<1>2. 0 \in G
  <2>1. P(0) = <<>> /\ 0 \in 0..Len(s) /\ <<>> \in Seq(S) /\ Len(<<>>) = 0
    BY <1>0, PrefixFacts, EmptySeq
  <2>2. f[0] = <<>>
    BY <1>1 DEF Sorts
  <2> HIDE DEF P
  <2>3. QED
    BY <2>1, <2>2
<1>3. ASSUME NEW k \in 0..(Len(s) - 1), k \in G PROVE k + 1 \in G
  <2> DEFINE p == P(k)
             x == s[k + 1]
             q == f[k]
  <2>1. p \in Seq(S) /\ x \in S /\ P(k + 1) = Append(p, x) /\ k + 1 \in 0..Len(s)
    BY <1>0, PrefixFacts
  <2>2. f[k + 1] = Inserted(q, x, key)
    <3>1. k + 1 \in 1..Len(s) /\ (k + 1) - 1 = k
      BY <1>0
    <3>2. QED
      BY <1>1, <3>1 DEF Sorts
  <2>3. q \in Seq(S) /\ Len(q) = k /\ ToSet(q) = ToSet(p)
    BY <1>3
  <2> HIDE DEF P, p, x, q, G
  <2>4. Inserted(q, x, key) \in Seq(S) /\ Len(Inserted(q, x, key)) = k + 1
        /\ ToSet(Inserted(q, x, key)) = ToSet(q) \cup {x}
    BY <2>1, <2>3, InsertedIs
  <2>5. ToSet(Append(p, x)) = ToSet(p) \cup {x}
    BY <2>1, AppendElements
  <2>6. QED
    BY <2>1, <2>2, <2>3, <2>4, <2>5 DEF G
<1> HIDE DEF G
<1>4. \A k \in 0..Len(s) : k \in G
  BY <1>0, <1>2, <1>3, Climb
<1>5. Len(s) \in G
  BY <1>0, <1>4
<1>6. P(Len(s)) = s
  BY PrefixFacts
<1>7. QED
  BY <1>1, <1>5, <1>6 DEF G

\* A list whose keys do not fall is sorted.
THEOREM SortedStays ==
  ASSUME NEW S, NEW s \in Seq(S), NEW key,
         \A i, j \in 1..Len(s) : i < j => ~(key[s[i]] > key[s[j]])
  PROVE  Sorted(s, key) = s
<1> DEFINE P(k) == SubSeq(s, 1, k)
<1>0. Len(s) \in Nat /\ DOMAIN s = 1..Len(s)
  BY LenProperties
<1>1. PICK f : Sorts(f, s, key) /\ Sorted(s, key) = f[Len(s)]
  BY SortedIterates
<1> DEFINE G == {k \in 0..Len(s) : f[k] = P(k)}
<1>2. 0 \in G
  <2>1. P(0) = <<>> /\ 0 \in 0..Len(s)
    BY <1>0, PrefixFacts
  <2>2. f[0] = <<>>
    BY <1>1 DEF Sorts
  <2> HIDE DEF P
  <2>3. QED
    BY <2>1, <2>2
<1>3. ASSUME NEW k \in 0..(Len(s) - 1), k \in G PROVE k + 1 \in G
  <2> DEFINE p == P(k)
             x == s[k + 1]
  <2>1. p \in Seq(S) /\ x \in S /\ P(k + 1) = Append(p, x) /\ k + 1 \in 0..Len(s)
    BY <1>0, PrefixFacts
  <2>2. f[k + 1] = Inserted(f[k], x, key)
    <3>1. k + 1 \in 1..Len(s) /\ (k + 1) - 1 = k
      BY <1>0
    <3>2. QED
      BY <1>1, <3>1 DEF Sorts
  <2>3. f[k] = p
    BY <1>3
  <2>4. \A y \in ToSet(p) : ~(key[y] > key[x])
    <3> SUFFICES ASSUME NEW y \in ToSet(p) PROVE ~(key[y] > key[x])
      OBVIOUS
    <3>1. Len(p) = k /\ DOMAIN p = 1..k /\ \A i \in 1..k : p[i] = s[i]
      BY <1>0, LenProperties
    <3> HIDE DEF p
    <3>2. PICK i \in 1..k : y = s[i]
      BY <3>1 DEF ToSet
    <3>3. i \in 1..Len(s) /\ k + 1 \in 1..Len(s) /\ i < k + 1
      BY <1>0
    <3>4. QED
      BY <3>2, <3>3
  <2> HIDE DEF P, p, x, G
  <2>5. Inserted(p, x, key) = Append(p, x)
    BY <2>1, <2>4, InsertedIs
  <2>6. QED
    BY <2>1, <2>2, <2>3, <2>5 DEF G
<1> HIDE DEF G
<1>4. \A k \in 0..Len(s) : k \in G
  BY <1>0, <1>2, <1>3, Climb
<1>5. Len(s) \in G
  BY <1>0, <1>4
<1>6. P(Len(s)) = s
  BY PrefixFacts
<1>7. QED
  BY <1>1, <1>5, <1>6 DEF G

-----------------------------------------------------------------------------
(***************************************************************************)
(* Lists of lists: what FlattenSeq does to lengths, and how one of the     *)
(* lists is found again in the whole.                                      *)
(***************************************************************************)

\* Lists of lists over one set.
LEMMA ListOfLists ==
  ASSUME NEW ss, List(ss), NEW S, \A i \in DOMAIN ss : List(ss[i]) /\ ToSet(ss[i]) \subseteq S
  PROVE  ss \in Seq(Seq(S)) /\ DOMAIN ss = 1..Len(ss) /\ Len(ss) \in Nat
<1>1. \A i \in DOMAIN ss : ss[i] \in Seq(S)
  BY ListIsSeq
<1>2. ToSet(ss) \subseteq Seq(S)
  BY <1>1 DEF ToSet
<1>3. ss \in Seq(Seq(S))
  BY <1>2, ListIsSeq
<1>4. QED
  BY <1>3, LenProperties

\* KeptConcat as one fact about two lists.
Splits(s, t) == \A T : Kept(s \o t, T) = Kept(s, T) \o Kept(t, T)
LEMMA ConcatSplits == ASSUME NEW S, NEW s \in Seq(S), NEW t \in Seq(S) PROVE Splits(s, t)
BY KeptConcat DEF Splits

\* What the lists have in common with the accumulation of the first k.
LEMMA FlattenStep ==
  ASSUME NEW S, NEW ss \in Seq(Seq(S)), NEW f, Flattens(f, ss, Len(ss)),
         NEW k \in 0..(Len(ss) - 1), k = 0 \/ f[k] \in Seq(S)
  PROVE  /\ k + 1 \in 1..Len(ss) /\ ss[k + 1] \in Seq(S) /\ f[k + 1] \in Seq(S)
         /\ f[k + 1] = IF k = 0 THEN ss[k + 1] ELSE f[k] \o ss[k + 1]
<1>1. Len(ss) \in Nat /\ \A i \in 1..Len(ss) : ss[i] \in Seq(S)
  BY LenProperties
<1>2. k + 1 \in 1..Len(ss) /\ (k + 1) - 1 = k /\ (k + 1 = 1 <=> k = 0) /\ ss[k + 1] \in Seq(S)
  BY <1>1
<1>3. f[k + 1] = IF k + 1 = 1 THEN ss[k + 1] ELSE f[(k + 1) - 1] \o ss[k + 1]
  BY <1>2 DEF Flattens
<1>4. f[k + 1] = IF k = 0 THEN ss[k + 1] ELSE f[k] \o ss[k + 1]
  BY <1>2, <1>3
<1>5. k # 0 => f[k] \o ss[k + 1] \in Seq(S)
  BY <1>2, ConcatProperties
<1>6. QED
  BY <1>2, <1>4, <1>5

\* Lists of the same lengths flatten to lists of one length.
LEMMA FlattenLengths ==
  ASSUME NEW S, NEW ss \in Seq(Seq(S)), NEW tt \in Seq(Seq(S)), Len(ss) = Len(tt),
         \A i \in 1..Len(ss) : Len(ss[i]) = Len(tt[i])
  PROVE  Len(FlattenSeq(ss)) = Len(FlattenSeq(tt))
<1> DEFINE n == Len(ss)
<1>0. n \in Nat
  BY LenProperties
<1>1. CASE n = 0
  BY <1>1 DEF FlattenSeq
<1>2. CASE n # 0
  <2>1. PICK f : Flattens(f, ss, n) /\ FlattenSeq(ss) = f[n]
    BY <1>2, FlattenIs
  <2>2. PICK g : Flattens(g, tt, n) /\ FlattenSeq(tt) = g[n]
    BY <1>2, FlattenIs
  <2> DEFINE G == {k \in 0..n : k = 0 \/ (f[k] \in Seq(S) /\ g[k] \in Seq(S) /\ Len(f[k]) = Len(g[k]))}
  <2>3. 0 \in G
    BY <1>0
  <2>4. ASSUME NEW k \in 0..(n - 1), k \in G PROVE k + 1 \in G
    <3> DEFINE a == ss[k + 1]
               b == tt[k + 1]
    <3>1. /\ k + 1 \in 1..n /\ a \in Seq(S) /\ f[k + 1] \in Seq(S)
          /\ f[k + 1] = IF k = 0 THEN a ELSE f[k] \o a
      <4>1. k = 0 \/ f[k] \in Seq(S)
        BY <2>4
      <4>2. QED
        BY <2>1, <4>1, FlattenStep
    <3>2. /\ b \in Seq(S) /\ g[k + 1] \in Seq(S)
          /\ g[k + 1] = IF k = 0 THEN b ELSE g[k] \o b
      <4>1. (k = 0 \/ g[k] \in Seq(S)) /\ Flattens(g, tt, Len(tt)) /\ k \in 0..(Len(tt) - 1)
        BY <2>2, <2>4
      <4>2. QED
        BY ONLY <4>1, tt \in Seq(Seq(S)), FlattenStep
    <3>3. Len(a) = Len(b)
      BY <3>1
    <3>4. k = 0 \/ (f[k] \in Seq(S) /\ g[k] \in Seq(S) /\ Len(f[k]) = Len(g[k]))
      BY <2>4
    <3> HIDE DEF a, b
    <3>5. k # 0 => Len(f[k] \o a) = Len(f[k]) + Len(a) /\ Len(g[k] \o b) = Len(g[k]) + Len(b)
      BY ONLY <3>1, <3>2, <3>4, ConcatProperties
    <3>6. Len(f[k + 1]) = Len(g[k + 1])
      BY ONLY <3>1, <3>2, <3>3, <3>4, <3>5
    <3>7. k + 1 \in 0..n
      BY <1>0
    <3>8. QED
      BY ONLY <3>7, <3>1, <3>2, <3>6
  <2> HIDE DEF G
  <2>5. \A k \in 0..n : k \in G
    BY <1>0, <2>3, <2>4, Climb
  <2>6. n \in G
    BY <1>0, <2>5
  <2>7. QED
    BY <1>2, <2>1, <2>2, <2>6 DEF G
<1>3. QED
  BY <1>1, <1>2

\* Of lists in a row the one that has what is asked for is found again.
LEMMA FlattenKept ==
  ASSUME NEW S, NEW ss \in Seq(Seq(S)), NEW T, NEW j \in 1..Len(ss), ToSet(ss[j]) \subseteq T,
         \A i \in 1..Len(ss) : i # j => ToSet(ss[i]) \cap T = {}
  PROVE  Kept(FlattenSeq(ss), T) = ss[j]
<1> DEFINE n == Len(ss)
<1>0. n \in Nat /\ n # 0
  BY LenProperties
<1>1. PICK f : Flattens(f, ss, n) /\ FlattenSeq(ss) = f[n]
  BY <1>0, FlattenIs
<1> DEFINE want(k) == IF j <= k THEN ss[j] ELSE <<>>
           G == {k \in 0..n : k = 0 \/ (f[k] \in Seq(S) /\ Kept(f[k], T) = want(k))}
<1>2. 0 \in G
  BY <1>0
<1>3. ASSUME NEW k \in 0..(n - 1), k \in G PROVE k + 1 \in G
  <2> DEFINE a == ss[k + 1]
  <2>1. /\ k + 1 \in 1..n /\ a \in Seq(S) /\ f[k + 1] \in Seq(S)
        /\ f[k + 1] = IF k = 0 THEN a ELSE f[k] \o a
    BY <1>1, <1>3, FlattenStep
  <2>2. Kept(a, T) = IF k + 1 = j THEN a ELSE <<>>
    <3>1. (k + 1 = j => ToSet(a) \subseteq T) /\ (k + 1 # j => ToSet(a) \cap T = {})
      BY <2>1
    <3> HIDE DEF a
    <3>2. QED
      BY <2>1, <3>1, KeptAllOrNone
  <2>3. k = 0 \/ (f[k] \in Seq(S) /\ Kept(f[k], T) = want(k))
    BY <1>3
  <2>4. k + 1 = j => a = ss[j]
    OBVIOUS
  <2>5. ss[j] \in Seq(S)
    BY LenProperties
  <2> DEFINE b == ss[j]
  <2>6. want(k) = (IF j <= k THEN b ELSE <<>>) /\ want(k + 1) = (IF j <= k + 1 THEN b ELSE <<>>)
    OBVIOUS
  <2> HIDE DEF a, b, want
  <2>7. b \in Seq(S) /\ b \o <<>> = b /\ <<>> \o b = b /\ <<>> \o <<>> = <<>>
    <3>1. b \in Seq(S)
      BY <2>5 DEF b
    <3>2. <<>> \in Seq(S)
      BY EmptySeq
    <3>3. QED
      BY <3>1, <3>2, ConcatEmptySeq
  <2>8. k # 0 => Kept(f[k] \o a, T) = Kept(f[k], T) \o Kept(a, T)
    <3> SUFFICES ASSUME k # 0 PROVE Kept(f[k] \o a, T) = Kept(f[k], T) \o Kept(a, T)
      OBVIOUS
    <3> DEFINE d == f[k]
    <3>1. d \in Seq(S)
      BY <2>3
    <3>2. a \in Seq(S)
      BY <2>1
    <3> HIDE DEF d
    <3>3. Splits(d, a)
      BY ONLY <3>1, <3>2, ConcatSplits, Zenon
    <3>4. Kept(d \o a, T) = Kept(d, T) \o Kept(a, T)
      BY ONLY <3>3, Zenon DEF Splits
    <3>5. QED
      BY <3>4 DEF d
  <2>9. k + 1 = j => a = b
    BY <2>4 DEF b
  <2>10. Kept(f[k + 1], T) = want(k + 1)
    <3>1. CASE k + 1 = j
      <4>1. Kept(a, T) = b /\ want(k) = <<>> /\ want(k + 1) = b
        BY ONLY <3>1, <2>2, <2>6, <2>9, k \in 0..(n - 1)
      <4>2. QED
        BY ONLY <4>1, <2>1, <2>3, <2>7, <2>8
    <3>2. CASE k + 1 # j
      <4>1. Kept(a, T) = <<>> /\ want(k) = want(k + 1) /\ (want(k) = b \/ want(k) = <<>>)
            /\ (k = 0 => want(k + 1) = <<>>)
        BY ONLY <3>2, <2>2, <2>6, k \in 0..(n - 1), j \in 1..Len(ss), <1>0
      <4>2. want(k) \o <<>> = want(k)
        BY ONLY <4>1, <2>7
      <4>3. QED
        BY ONLY <4>1, <4>2, <2>1, <2>3, <2>8
    <3>3. QED
      BY ONLY <3>1, <3>2
  <2>11. k + 1 \in 0..n
    BY <1>0
  <2>12. QED
    BY ONLY <2>11, <2>1, <2>10
<1> HIDE DEF G
<1>4. \A k \in 0..n : k \in G
  BY <1>0, <1>2, <1>3, Climb
<1>5. n \in G
  BY <1>0, <1>4
<1>6. QED
  BY <1>0, <1>1, <1>5 DEF G
=============================================================================
