-------------------------- MODULE QuestionsProofs --------------------------
(***************************************************************************)
(* TLAPS proofs about the operators of Questions, for any question: the    *)
(* battery, packages, what is uploaded, archives and bundles.  Before them *)
(* comes what replaces induction over data: least numbers, what recursive  *)
(* functions and folds make of sequences, and the shapes of a network.     *)
(* TrainingProofs and DeviceProofs go on from here.                        *)
(***************************************************************************)
EXTENDS Questions, FiniteSetTheorems, FunctionTheorems, SequenceTheorems, TLAPS

-----------------------------------------------------------------------------
(* Least numbers, and induction by them.                                   *)

\* Every set of numbers that has one has a smallest one.
LEMMA Least ==
  ASSUME NEW S, S \subseteq Nat, S # {}
  PROVE  \E n \in S : \A m \in S : n <= m
<1>1. PICK top \in S : TRUE
  OBVIOUS
<1> DEFINE All == 0..top
           T == {0..m : m \in S \cap All}
<1>2. IsFiniteSet(All)
  BY FS_Interval
<1>3. T \subseteq FiniteSubsetsOf(All) /\ T # {}
  <2>1. ASSUME NEW m \in S \cap All PROVE 0..m \in FiniteSubsetsOf(All)
    <3>1. 0..m \subseteq All
      OBVIOUS
    <3> QED BY <1>2, <3>1, FS_Subset DEF FiniteSubsetsOf
  <2> QED BY <2>1, <1>1
<1>4. PICK A \in T : \A B \in T : <<B, A>> \notin StrictSubsetOrdering(All)
  <2> HIDE DEF T, All
  <2> QED BY <1>3, WFMin, FS_StrictSubsetOrderingWellFounded
<1>5. PICK n \in S \cap All : A = 0..n
  OBVIOUS
<1>6. ASSUME NEW m \in S, ~(n <= m) PROVE FALSE
  <2>1. m \in S \cap All /\ m < n
    BY <1>6
  <2>2. 0..m \subseteq 0..n /\ 0..m # 0..n /\ 0..n \subseteq All
    BY <2>1
  <2>3. <<0..m, A>> \in StrictSubsetOrdering(All)
    BY <2>2, <1>5 DEF StrictSubsetOrdering
  <2> QED BY <2>1, <2>3, <1>4
<1> QED BY <1>5, <1>6

\* Whatever is measured in integers has a smallest one.
LEMMA Smallest ==
  ASSUME NEW S, IsFiniteSet(S), S # {}, NEW f, \A x \in S : f[x] \in Int
  PROVE  \E m \in S : \A o \in S : f[m] <= f[o]
<1> DEFINE Below(m) == {o \in S : f[o] < f[m]}
           T == {Below(m) : m \in S}
<1>1. T \subseteq FiniteSubsetsOf(S) /\ T # {}
  <2>1. ASSUME NEW m \in S PROVE Below(m) \in FiniteSubsetsOf(S)
    <3>1. Below(m) \in SUBSET S
      OBVIOUS
    <3> HIDE DEF Below
    <3> QED BY <3>1, FS_Subset DEF FiniteSubsetsOf
  <2> QED BY <2>1
<1>2. PICK A \in T : \A B \in T : <<B, A>> \notin StrictSubsetOrdering(S)
  <2> HIDE DEF T
  <2> QED BY <1>1, WFMin, FS_StrictSubsetOrderingWellFounded
<1>3. PICK m \in S : A = Below(m)
  OBVIOUS
<1>4. ASSUME NEW o \in S, ~(f[m] <= f[o]) PROVE FALSE
  <2>1. f[o] < f[m] /\ \A p \in S : f[p] < f[o] => f[p] < f[m]
    BY <1>4
  <2>2. o \in Below(m) /\ o \notin Below(o) /\ Below(o) \subseteq Below(m)
    BY <2>1
  <2>3. Below(o) \in T /\ Below(o) # A
    BY <1>3, <2>2
  <2>4. <<Below(o), A>> \in StrictSubsetOrdering(S)
    BY <1>3, <2>2, <2>3 DEF StrictSubsetOrdering
  <2> QED BY <2>3, <2>4, <1>2
<1> QED BY <1>4

LEMMA FirstOne ==
  ASSUME NEW n \in Nat, NEW I \in SUBSET (1..n), I # {}
  PROVE  Min(I) \in I /\ \A i \in I : Min(I) <= i
<1> DEFINE id == [i \in I |-> i]
<1>1. IsFiniteSet(I)
  <2>1. IsFiniteSet(1..n)
    BY FS_Interval
  <2> QED BY <2>1, FS_Subset
<1>2. \A i \in I : id[i] \in Int /\ id[i] = i
  OBVIOUS
<1>3. \E m \in I : \A o \in I : id[m] <= id[o]
  <2> HIDE DEF id
  <2> QED BY <1>1, <1>2, Smallest
<1> QED BY <1>2, <1>3 DEF Min

\* The first of some places and the last one.
LEMMA FirstIsOne ==
  ASSUME NEW n \in Nat, NEW I \in SUBSET (1..n), I # {}
  PROVE  Min(I) \in I /\ Max(I) \in I /\ \A i \in I : Max(I) >= i
<1>1. I \subseteq Nat
  OBVIOUS
<1>2. Min(I) \in I
  BY <1>1, Least DEF Min
<1> DEFINE low == {n - i : i \in I}
<1>3. low \subseteq Nat /\ low # {}
  <2>1. PICK j \in I : TRUE
    OBVIOUS
  <2>2. n - j \in low
    OBVIOUS
  <2> QED BY <2>2
<1>4. PICK m \in low : \A l \in low : m <= l
  <2> HIDE DEF low
  <2> QED BY <1>3, Least
<1>5. PICK i \in I : m = n - i
  OBVIOUS
<1>6. ASSUME NEW j \in I PROVE i >= j
  <2>1. n - i <= n - j
    BY <1>4, <1>5
  <2> QED BY <2>1
<1>7. Max(I) \in I /\ \A j \in I : Max(I) >= j
  BY <1>5, <1>6 DEF Max
<1> QED BY <1>2, <1>7

\* A set with a first and no last member has every one: the least number that
\* is missing would follow one that is not.
LEMMA FromOneToNext ==
  ASSUME NEW S, 0 \in S, \A n \in Nat : n \in S => n + 1 \in S
  PROVE  Nat \subseteq S
<1> SUFFICES ASSUME Nat \ S # {} PROVE FALSE
  OBVIOUS
<1>1. PICK n \in Nat \ S : \A m \in Nat \ S : n <= m
  <2>1. Nat \ S \subseteq Nat
    OBVIOUS
  <2> QED BY <2>1, Least
<1>2. n # 0 /\ n - 1 \in Nat /\ (n - 1) + 1 = n
  BY <1>1
<1>3. n - 1 \in S
  BY <1>1, <1>2
<1> QED BY <1>1, <1>2, <1>3

\* Quotients, remainders and multiples.
LEMMA DivMod ==
  ASSUME NEW x \in Nat, NEW d \in Nat \ {0}
  PROVE  x \div d \in Nat /\ x % d \in 0..(d - 1) /\ x = (x \div d) * d + (x % d)
<1>1. x \div d \in Nat /\ x % d \in 0..(d - 1)
  OBVIOUS
<1>2. x = (x \div d) * d + (x % d)
  <2>1. x \in Int /\ d \in Int /\ d > 0
    OBVIOUS
  <2> QED BY <2>1, Z3
<1> QED BY <1>1, <1>2

\* Two multiples of a number are that number apart.
LEMMA MultiplesApart ==
  ASSUME NEW d \in Nat \ {0}, NEW a \in Nat, NEW b \in Nat, a % d = 0, b % d = 0, a < b
  PROVE  a + d <= b
<1> DEFINE p == a \div d
           q == b \div d
<1>1. p \in Nat /\ q \in Nat /\ a = p * d /\ b = q * d
  <2>1. p \in Nat /\ a = p * d + (a % d)
    BY DivMod
  <2>2. q \in Nat /\ b = q * d + (b % d)
    BY DivMod
  <2> HIDE DEF p, q
  <2>3. p * d \in Nat /\ q * d \in Nat
    BY <2>1, <2>2
  <2> QED BY <2>1, <2>2, <2>3
<1> HIDE DEF p, q
<1>2. p < q
  <2> SUFFICES ASSUME q <= p PROVE FALSE
    BY <1>1
  <2>1. q * d <= p * d
    BY <1>1
  <2> QED BY <1>1, <2>1
<1>3. p * d + d <= q * d
  BY <1>1, <1>2
<1> QED BY <1>1, <1>3

\* The multiple below a number.
LEMMA Below ==
  ASSUME NEW d \in Nat \ {0}, NEW x \in Nat
  PROVE  /\ x - (x % d) \in Nat /\ (x - (x % d)) % d = 0
         /\ x - (x % d) <= x /\ x < x - (x % d) + d
<1> DEFINE p == x \div d
           r == x % d
<1>1. p \in Nat /\ r \in 0..(d - 1) /\ x = p * d + r
  BY DivMod
<1> HIDE DEF p, r
<1>2. p * d \in Nat /\ (p * d) % d = 0
  BY <1>1
<1>3. x - r = p * d
  BY <1>1, <1>2
<1> QED BY <1>1, <1>2, <1>3 DEF r

\* As many values as places, if no two places have the same value.
LEMMA AllDifferent ==
  ASSUME NEW n \in Nat, NEW f, DOMAIN f = 1..n, IsInjective(f)
  PROVE  Cardinality({f[i] : i \in 1..n}) = n
<1> DEFINE S == 1..n
           T == {f[i] : i \in S}
           g == [i \in S |-> f[i]]
<1>1. g \in [S -> T] /\ \A t \in T : \E i \in S : g[i] = t
  OBVIOUS
<1>2. \A i, j \in S : g[i] = g[j] => i = j
  BY DEF IsInjective
<1>3. g \in Bijection(S, T)
  <2> HIDE DEF S, T, g
  <2>1. g \in Surjection(S, T)
    BY <1>1, Fun_IsSurj
  <2>2. g \in Injection(S, T)
    BY <1>1, <1>2, Fun_IsInj
  <2> QED BY <2>1, <2>2, Fun_IsBij
<1>4. IsFiniteSet(S) /\ Cardinality(S) = n
  BY FS_Interval
<1> HIDE DEF S, T, g
<1>5. ExistsBijection(S, T)
  BY <1>3 DEF ExistsBijection
<1>6. Cardinality(T) = n
  BY <1>4, <1>5, FS_Bijection
<1> QED BY <1>6 DEF S, T

-----------------------------------------------------------------------------
(* Recursive functions on numbers, and what they make of sequences.        *)

\* The first n steps of a recursion, which starts with b and goes on with G.
Steps(X, b, G, n, g) ==
  /\ g \in [0..n -> X] /\ g[0] = b
  /\ \A i \in 0..(n - 1) : g[i + 1] = G[i][g[i]]

LEMMA StepsAgree ==
  ASSUME NEW X, NEW b, NEW G, NEW m \in Nat, NEW n \in Nat, NEW g, NEW h,
         Steps(X, b, G, m, g), Steps(X, b, G, n, h)
  PROVE  \A i \in Nat : i <= m /\ i <= n => g[i] = h[i]
<1> DEFINE S == {i \in Nat : i <= m /\ i <= n => g[i] = h[i]}
<1>1. 0 \in S
  BY DEF Steps
<1>2. ASSUME NEW i \in Nat, i \in S PROVE i + 1 \in S
  <2> SUFFICES ASSUME i + 1 <= m, i + 1 <= n PROVE g[i + 1] = h[i + 1]
    OBVIOUS
  <2>1. i \in 0..(m - 1) /\ i \in 0..(n - 1) /\ g[i] = h[i]
    BY <1>2
  <2> QED BY <2>1 DEF Steps
<1>3. Nat \subseteq S
  <2> HIDE DEF S
  <2> QED BY <1>1, <1>2, FromOneToNext
<1> QED BY <1>3

\* There is a function that a recursion defines.
Recursive(X, b, G, f) ==
  f \in [Nat -> X] /\ f[0] = b /\ \A n \in Nat : f[n + 1] = G[n][f[n]]

LEMMA Recursion ==
  ASSUME NEW X, NEW b \in X, NEW G, G \in [Nat -> [X -> X]]
  PROVE  \E f : Recursive(X, b, G, f)
<1> DEFINE S == {n \in Nat : \E g : Steps(X, b, G, n, g)}
<1>1. 0 \in S
  <2>1. Steps(X, b, G, 0, [i \in 0..0 |-> b])
    BY DEF Steps
  <2> QED BY <2>1
<1>2. ASSUME NEW n \in Nat, n \in S PROVE n + 1 \in S
  <2>1. PICK g : Steps(X, b, G, n, g)
    BY <1>2
  <2> DEFINE next == G[n][g[n]]
             h == [i \in 0..(n + 1) |-> IF i = n + 1 THEN next ELSE g[i]]
  <2>2. g \in [0..n -> X] /\ n \in 0..n
    BY <2>1 DEF Steps
  <2>3. next \in X
    BY <2>2
  <2>4. h \in [0..(n + 1) -> X] /\ h[0] = b
    <3>1. \A i \in 0..(n + 1) : i # n + 1 => i \in 0..n
      OBVIOUS
    <3> HIDE DEF next
    <3> QED BY <2>1, <2>2, <2>3, <3>1 DEF Steps
  <2>5. ASSUME NEW i \in 0..((n + 1) - 1) PROVE h[i + 1] = G[i][h[i]]
    <3>1. i \in 0..n /\ i # n + 1 /\ i + 1 \in 0..(n + 1) /\ h[i] = g[i]
      OBVIOUS
    <3>2. CASE i = n
      BY <3>1, <3>2
    <3>3. CASE i # n
      <4>1. i \in 0..(n - 1) /\ i + 1 # n + 1
        BY <3>1, <3>3
      <4>2. h[i + 1] = g[i + 1]
        BY <3>1, <4>1
      <4> HIDE DEF h
      <4> QED BY <2>1, <3>1, <4>1, <4>2 DEF Steps
    <3> QED BY <3>2, <3>3
  <2>6. Steps(X, b, G, n + 1, h)
    <3> HIDE DEF h
    <3> QED BY <2>4, <2>5 DEF Steps
  <2> QED BY <2>6
<1>3. \A n \in Nat : \E g : Steps(X, b, G, n, g)
  <2>1. Nat \subseteq S
    <3> HIDE DEF S
    <3> QED BY <1>1, <1>2, FromOneToNext
  <2> QED BY <2>1
<1> DEFINE of(n) == CHOOSE g : Steps(X, b, G, n, g)
           f == [n \in Nat |-> of(n)[n]]
<1>4. \A n \in Nat : Steps(X, b, G, n, of(n))
  BY <1>3
<1> HIDE DEF of
<1>5. \A n \in Nat : f[n] = of(n)[n] /\ of(n)[n] \in X /\ f[0] = b
  BY <1>4 DEF Steps
<1>6. ASSUME NEW n \in Nat PROVE f[n + 1] = G[n][f[n]]
  <2>1. of(n + 1)[n + 1] = G[n][of(n + 1)[n]]
    BY <1>4 DEF Steps
  <2>2. of(n + 1)[n] = of(n)[n]
    <3>1. Steps(X, b, G, n + 1, of(n + 1)) /\ Steps(X, b, G, n, of(n)) /\ n + 1 \in Nat
      BY <1>4
    <3> QED BY <3>1, StepsAgree
  <2> QED BY <1>5, <2>1, <2>2
<1>7. f \in [Nat -> X]
  BY <1>5
<1> HIDE DEF f
<1> QED BY <1>5, <1>6, <1>7 DEF Recursive

\* A sequence of sequences, joined one after the other.
JoinedBy(T, n, s, f) ==
  /\ f \in [0..n -> Seq(T)] /\ f[0] = <<>> /\ FlattenSeq(s) = f[n]
  /\ \A i \in 1..n : f[i] = f[i - 1] \o s[i]

LEMMA Flattened ==
  ASSUME NEW T, NEW n \in Nat, NEW s, s \in [1..n -> Seq(T)]
  PROVE  \E f : JoinedBy(T, n, s, f)
<1> DEFINE X == Seq(T)
           G == [i \in Nat |-> [x \in X |-> IF i + 1 \in 1..n THEN x \o s[i + 1] ELSE x]]
<1>1. G \in [Nat -> [X -> X]]
  OBVIOUS
<1>2. PICK h \in [Nat -> X] : h[0] = <<>> /\ \A i \in Nat : h[i + 1] = G[i][h[i]]
  <2> DEFINE b == <<>>
  <2>1. b \in X
    OBVIOUS
  <2>2. \E h : Recursive(X, b, G, h)
    <3> HIDE DEF X, G, b
    <3> QED BY <1>1, <2>1, Recursion
  <2> QED BY <2>2 DEF Recursive
<1>3. ASSUME NEW i \in 1..n PROVE h[i] = h[i - 1] \o s[i]
  <2>1. i - 1 \in Nat /\ (i - 1) + 1 = i
    OBVIOUS
  <2>2. h[i] = G[i - 1][h[i - 1]] /\ h[i - 1] \in X
    <3> HIDE DEF G, X
    <3> QED BY <1>2, <2>1
  <2> QED BY <2>1, <2>2
<1> DEFINE Step(r, i) == IF i = 1 THEN s[i] ELSE r[i - 1] \o s[i]
           IsFlat(r) == r = [i \in 1..n |-> Step(r, i)]
           flat == CHOOSE r : IsFlat(r)
           f == [i \in 0..n |-> h[i]]
<1>4. IsFlat([i \in 1..n |-> h[i]])
  <2> DEFINE r == [i \in 1..n |-> h[i]]
  <2>1. ASSUME NEW i \in 1..n PROVE r[i] = Step(r, i)
    <3>1. CASE i = 1
      <4>1. h[1] = h[1 - 1] \o s[1]
        BY <1>3, <3>1
      <4>2. <<>> \o s[1] = s[1] /\ 1 - 1 = 0
        BY <3>1
      <4> QED BY <1>2, <3>1, <4>1, <4>2
    <3>2. CASE i # 1
      <4>1. i - 1 \in 1..n
        BY <3>2
      <4> QED BY <1>3, <3>2, <4>1
    <3> QED BY <3>1, <3>2
  <2>2. r = [i \in 1..n |-> r[i]]
    OBVIOUS
  <2> HIDE DEF r
  <2> QED BY <2>1, <2>2 DEF r
<1>5. IsFlat(flat)
  <2> HIDE DEF IsFlat
  <2> QED BY <1>4
<1> HIDE DEF flat
<1>6. ASSUME NEW i \in 1..n PROVE flat[i] = h[i]
  <2> DEFINE S == {j \in Nat : j + 1 \in 1..n => flat[j + 1] = h[j + 1]}
  <2>1. 0 \in S
    <3> SUFFICES ASSUME 1 \in 1..n PROVE flat[1] = h[1]
      OBVIOUS
    <3>1. flat[1] = s[1]
      BY <1>5
    <3>2. h[1] = h[1 - 1] \o s[1]
      BY <1>3
    <3>3. <<>> \o s[1] = s[1] /\ 1 - 1 = 0
      OBVIOUS
    <3> QED BY <1>2, <3>1, <3>2, <3>3
  <2>2. ASSUME NEW j \in Nat, j \in S PROVE j + 1 \in S
    <3> SUFFICES ASSUME (j + 1) + 1 \in 1..n PROVE flat[(j + 1) + 1] = h[(j + 1) + 1]
      OBVIOUS
    <3>1. j + 1 \in 1..n /\ flat[j + 1] = h[j + 1] /\ (j + 1) + 1 # 1 /\ ((j + 1) + 1) - 1 = j + 1
      BY <2>2
    <3>2. flat[(j + 1) + 1] = flat[j + 1] \o s[(j + 1) + 1]
      BY <1>5, <3>1
    <3> QED BY <1>3, <3>1, <3>2
  <2>3. Nat \subseteq S
    <3> HIDE DEF S
    <3> QED BY <2>1, <2>2, FromOneToNext
  <2>4. i - 1 \in Nat /\ (i - 1) + 1 = i
    OBVIOUS
  <2> QED BY <2>3, <2>4
<1>7. Len(s) = n
  OBVIOUS
<1>8. FlattenSeq(s) = (IF n = 0 THEN s ELSE flat[n])
  BY <1>7 DEF FlattenSeq, flat
<1>9. FlattenSeq(s) = f[n]
  <2>1. CASE n = 0
    <3>1. s = <<>>
      BY <2>1
    <3> QED BY <1>2, <1>8, <2>1, <3>1
  <2>2. CASE n # 0
    BY <1>6, <1>8, <2>2
  <2> QED BY <2>1, <2>2
<1>10. f \in [0..n -> Seq(T)] /\ f[0] = <<>> /\ \A i \in 1..n : f[i] = f[i - 1] \o s[i]
  <2>1. \A i \in 1..n : f[i] = h[i] /\ f[i - 1] = h[i - 1]
    OBVIOUS
  <2>2. f \in [0..n -> Seq(T)] /\ f[0] = h[0]
    BY <1>2
  <2> HIDE DEF f
  <2> QED BY <1>2, <1>3, <2>1, <2>2
<1> HIDE DEF f
<1> QED BY <1>9, <1>10 DEF JoinedBy

LEMMA Appended ==
  ASSUME NEW T, NEW s, NEW t, s \in Seq(T), t \in Seq(T)
  PROVE  /\ s \o t \in Seq(T) /\ Len(s \o t) = Len(s) + Len(t) /\ Len(s) \in Nat /\ Len(t) \in Nat
         /\ \A k \in 1..Len(s) : (s \o t)[k] = s[k]
         /\ \A j \in 1..Len(t) : (s \o t)[Len(s) + j] = t[j]
<1>1. Len(s) \in Nat /\ Len(t) \in Nat
  OBVIOUS
<1>2. \A i \in 1..(Len(s) + Len(t)) : (s \o t)[i] = IF i <= Len(s) THEN s[i] ELSE t[i - Len(s)]
  BY ConcatProperties
<1>3. s \o t \in Seq(T) /\ Len(s \o t) = Len(s) + Len(t)
  BY ConcatProperties
<1>4. ASSUME NEW k \in 1..Len(s) PROVE (s \o t)[k] = s[k]
  BY <1>1, <1>2
<1>5. ASSUME NEW j \in 1..Len(t) PROVE (s \o t)[Len(s) + j] = t[j]
  <2>1. Len(s) + j \in 1..(Len(s) + Len(t)) /\ ~(Len(s) + j <= Len(s)) /\ (Len(s) + j) - Len(s) = j
    BY <1>1
  <2> QED BY <1>2, <2>1
<1> QED BY <1>1, <1>3, <1>4, <1>5

\* Each part is found in the whole where the parts before it end, and
\* nothing else is.
PartsAt(n, s, at) ==
  /\ at \in [0..n -> Nat] /\ at[0] = 0
  /\ \A i \in 1..n : at[i] = at[i - 1] + Len(s[i])

Located(s, at, f, m) ==
  /\ Len(f) = at[m]
  /\ \A i \in 1..m : \A j \in 1..Len(s[i]) : at[i - 1] + j \in 1..at[m] /\ f[at[i - 1] + j] = s[i][j]
  /\ \A k \in 1..at[m] : \E i \in 1..m : \E j \in 1..Len(s[i]) : k = at[i - 1] + j

LEMMA BlocksJoined ==
  ASSUME NEW T, NEW n \in Nat, NEW s, s \in [1..n -> Seq(T)], NEW at, PartsAt(n, s, at)
  PROVE  FlattenSeq(s) \in Seq(T) /\ Located(s, at, FlattenSeq(s), n)
<1>1. PICK f : JoinedBy(T, n, s, f)
  BY Flattened
<1> DEFINE S == {m \in Nat : m <= n => Located(s, at, f[m], m)}
<1>2. 0 \in S
  <2>1. f[0] = <<>> /\ at[0] = 0
    BY <1>1 DEF JoinedBy, PartsAt
  <2> QED BY <2>1 DEF Located
<1>3. ASSUME NEW m \in Nat, m \in S PROVE m + 1 \in S
  <2> SUFFICES ASSUME m + 1 <= n PROVE Located(s, at, f[m + 1], m + 1)
    OBVIOUS
  <2> DEFINE old == f[m]
             new == f[m + 1]
             more == s[m + 1]
             end == at[m]
  <2>1. m \in 0..n /\ m + 1 \in 1..n /\ (m + 1) - 1 = m /\ m + 1 \in 0..n /\ m <= n
    OBVIOUS
  <2>2. old \in Seq(T) /\ more \in Seq(T) /\ end \in Nat
    BY <1>1, <2>1 DEF JoinedBy, PartsAt
  <2>3. Located(s, at, old, m)
    BY <1>3, <2>1
  <2>4. new = old \o more /\ at[m + 1] = end + Len(more)
    <3>1. f[m + 1] = f[(m + 1) - 1] \o s[m + 1] /\ at[m + 1] = at[(m + 1) - 1] + Len(s[m + 1])
      BY <1>1, <2>1 DEF JoinedBy, PartsAt
    <3> QED BY <2>1, <3>1
  <2>5. at[(m + 1) - 1] = end
    BY <2>1
  <2> HIDE DEF old, new, more, end
  <2>6. Len(old) = end
    BY <2>3 DEF Located, end
  <2>7. /\ Len(new) = end + Len(more) /\ Len(more) \in Nat
        /\ \A k \in 1..end : new[k] = old[k]
        /\ \A j \in 1..Len(more) : new[end + j] = more[j]
    <3>1. new = old \o more
      BY <2>4
    <3>2. /\ Len(old \o more) = Len(old) + Len(more) /\ Len(more) \in Nat
          /\ \A k \in 1..Len(old) : (old \o more)[k] = old[k]
          /\ \A j \in 1..Len(more) : (old \o more)[Len(old) + j] = more[j]
      BY <2>2, Appended
    <3> QED BY <2>6, <3>1, <3>2
  <2>8. ASSUME NEW i \in 1..(m + 1), NEW j \in 1..Len(s[i])
        PROVE  at[i - 1] + j \in 1..at[m + 1] /\ new[at[i - 1] + j] = s[i][j]
    <3>1. CASE i = m + 1
      <4>1. j \in 1..Len(more) /\ at[i - 1] = end /\ s[i] = more
        BY <2>5, <3>1 DEF more
      <4>2. new[end + j] = more[j]
        BY <2>7, <4>1
      <4>3. end + j \in 1..(end + Len(more))
        BY <2>2, <2>7, <4>1
      <4> QED BY <2>4, <4>1, <4>2, <4>3
    <3>2. CASE i # m + 1
      <4>1. i \in 1..m
        BY <3>2
      <4>2. at[i - 1] + j \in 1..end /\ old[at[i - 1] + j] = s[i][j]
        BY <2>3, <4>1 DEF Located, end
      <4>3. at[i - 1] + j \in 1..(end + Len(more))
        BY <2>2, <2>7, <4>2
      <4> QED BY <2>4, <2>7, <4>2, <4>3
    <3> QED BY <3>1, <3>2
  <2>9. ASSUME NEW k \in 1..at[m + 1] PROVE \E i \in 1..(m + 1) : \E j \in 1..Len(s[i]) : k = at[i - 1] + j
    <3>1. CASE k <= end
      <4>1. k \in 1..end
        BY <2>2, <3>1
      <4>2. PICK i \in 1..m : \E j \in 1..Len(s[i]) : k = at[i - 1] + j
        BY <2>3, <4>1 DEF Located, end
      <4>3. i \in 1..(m + 1)
        OBVIOUS
      <4> QED BY <4>2, <4>3
    <3>2. CASE ~(k <= end)
      <4> DEFINE j == k - end
      <4>1. j \in 1..Len(more) /\ k = end + j
        BY <2>2, <2>4, <2>7, <3>2
      <4>2. m + 1 \in 1..(m + 1) /\ k = at[(m + 1) - 1] + j
        BY <2>5, <4>1
      <4> HIDE DEF j
      <4> QED BY <4>1, <4>2 DEF more
    <3> QED BY <3>1, <3>2
  <2>10. Len(new) = at[m + 1]
    BY <2>4, <2>7
  <2> QED BY <2>8, <2>9, <2>10 DEF Located, new
<1>4. Located(s, at, f[n], n)
  <2>1. Nat \subseteq S
    <3> HIDE DEF S
    <3> QED BY <1>2, <1>3, FromOneToNext
  <2> QED BY <2>1
<1>5. f[n] \in Seq(T) /\ FlattenSeq(s) = f[n]
  BY <1>1 DEF JoinedBy
<1> QED BY <1>4, <1>5

\* What is kept of a sequence: each member that is has as many before it as
\* are kept before it.
KeptOf(n, v, K) == FlattenSeq([i \in 1..n |-> IF i \in K THEN <<v[i]>> ELSE <<>>])
PlaceIn(K, i) == Cardinality(K \cap (1..i))

LEMMA Selected ==
  ASSUME NEW T, NEW n \in Nat, NEW v, v \in [1..n -> T], NEW K \in SUBSET (1..n)
  PROVE  /\ KeptOf(n, v, K) \in Seq(T) /\ Len(KeptOf(n, v, K)) = PlaceIn(K, n) /\ PlaceIn(K, n) \in Nat
         /\ \A i \in K : PlaceIn(K, i) \in 1..PlaceIn(K, n) /\ KeptOf(n, v, K)[PlaceIn(K, i)] = v[i]
         /\ \A k \in 1..PlaceIn(K, n) : \E i \in K : k = PlaceIn(K, i) /\ KeptOf(n, v, K)[k] = v[i]
<1> DEFINE s == [i \in 1..n |-> IF i \in K THEN <<v[i]>> ELSE <<>>]
           at == [i \in 0..n |-> PlaceIn(K, i)]
<1>1. s \in [1..n -> Seq(T)]
  OBVIOUS
<1>2. \A i \in 0..n : IsFiniteSet(K \cap (1..i)) /\ PlaceIn(K, i) \in Nat
  <2> SUFFICES ASSUME NEW i \in 0..n PROVE IsFiniteSet(K \cap (1..i))
    BY FS_CardinalityType DEF PlaceIn
  <2>1. IsFiniteSet(1..i)
    BY FS_Interval
  <2> QED BY <2>1, FS_Subset
<1>3. at \in [0..n -> Nat]
  BY <1>2
<1>4. at[0] = 0
  <2>1. K \cap (1..0) = {}
    OBVIOUS
  <2> QED BY <2>1, FS_EmptySet DEF PlaceIn
<1>5. ASSUME NEW i \in 1..n PROVE at[i] = at[i - 1] + Len(s[i]) /\ (i \in K => at[i] = at[i - 1] + 1)
  <2>1. i - 1 \in 0..n /\ i \in 0..n
    OBVIOUS
  <2>2. CASE i \in K
    <3>1. K \cap (1..i) = (K \cap (1..(i - 1))) \cup {i} /\ i \notin K \cap (1..(i - 1))
      BY <2>2
    <3>2. PlaceIn(K, i) = PlaceIn(K, i - 1) + 1
      BY <1>2, <2>1, <3>1, FS_AddElement DEF PlaceIn
    <3>3. Len(s[i]) = 1
      BY <2>2
    <3> QED BY <2>1, <3>2, <3>3
  <2>3. CASE i \notin K
    <3>1. K \cap (1..i) = K \cap (1..(i - 1))
      BY <2>3
    <3>2. Len(s[i]) = 0
      BY <2>3
    <3>3. at[i] = at[i - 1] /\ at[i - 1] \in Nat
      BY <1>2, <2>1, <3>1 DEF PlaceIn
    <3> HIDE DEF s, at
    <3> QED BY <2>3, <3>2, <3>3
  <2> QED BY <2>2, <2>3
<1> DEFINE kept == FlattenSeq(s)
<1>6. /\ kept \in Seq(T) /\ Len(kept) = at[n]
      /\ \A i \in 1..n : \A j \in 1..Len(s[i]) : at[i - 1] + j \in 1..at[n] /\ kept[at[i - 1] + j] = s[i][j]
      /\ \A k \in 1..at[n] : \E i \in 1..n : \E j \in 1..Len(s[i]) : k = at[i - 1] + j
  <2> HIDE DEF s, at
  <2>1. PartsAt(n, s, at)
    BY <1>3, <1>4, <1>5 DEF PartsAt
  <2>2. kept \in Seq(T) /\ Located(s, at, kept, n)
    BY <1>1, <2>1, BlocksJoined
  <2> QED BY <2>2 DEF Located
<1>7. \A i \in 1..n : Len(s[i]) = (IF i \in K THEN 1 ELSE 0) /\ (i \in K => s[i][1] = v[i])
  OBVIOUS
<1>8. \A i \in 0..n : at[i] = PlaceIn(K, i)
  OBVIOUS
<1>9. kept = KeptOf(n, v, K)
  BY DEF KeptOf
<1>10. at[n] \in Nat /\ n \in 0..n
  BY <1>3
<1> HIDE DEF s, at, kept
<1>11. ASSUME NEW i \in K PROVE at[i] \in 1..at[n] /\ kept[at[i]] = v[i]
  <2>1. i \in 1..n /\ 1 \in 1..Len(s[i])
    BY <1>7
  <2>2. at[i - 1] + 1 \in 1..at[n] /\ kept[at[i - 1] + 1] = s[i][1]
    BY <1>6, <2>1
  <2> QED BY <1>5, <1>7, <2>1, <2>2
<1>12. ASSUME NEW k \in 1..at[n] PROVE \E i \in K : k = at[i] /\ kept[k] = v[i]
  <2>1. PICK i \in 1..n : \E j \in 1..Len(s[i]) : k = at[i - 1] + j
    BY <1>6
  <2>2. i \in K /\ k = at[i - 1] + 1
    BY <1>7, <2>1
  <2> QED BY <1>5, <1>11, <2>2
<1>13. \A i \in K : at[i] = PlaceIn(K, i)
  <2>1. \A i \in K : i \in 0..n
    OBVIOUS
  <2> QED BY <1>8, <2>1
<1>14. at[n] = PlaceIn(K, n)
  BY <1>8, <1>10
<1>15. \A i \in K : PlaceIn(K, i) \in 1..PlaceIn(K, n) /\ kept[PlaceIn(K, i)] = v[i]
  BY <1>11, <1>13, <1>14
<1>16. \A k \in 1..PlaceIn(K, n) : \E i \in K : k = PlaceIn(K, i) /\ kept[k] = v[i]
  BY <1>12, <1>13, <1>14
<1>17. kept \in Seq(T) /\ Len(kept) = at[n]
  BY <1>6
<1> QED BY <1>9, <1>10, <1>14, <1>15, <1>16, <1>17

-----------------------------------------------------------------------------
(* The battery.                                                            *)

\* The strategies of a battery: the baseline first, and nowhere else.
LEMMA BaselineFirst ==
  ASSUME NEW sc, NEW chosen, sc.strategies \in Seq(STRING), chosen \in Seq(STRING)
  PROVE  /\ Names(sc, chosen) \in Seq(STRING \cup {sc.baseline})
         /\ Len(Names(sc, chosen)) \in Nat /\ Len(Names(sc, chosen)) >= 1
         /\ Names(sc, chosen)[1] = sc.baseline
         /\ \A k \in 2..Len(Names(sc, chosen)) : Names(sc, chosen)[k] # sc.baseline
<1> DEFINE asked == IF chosen = <<>> THEN sc.strategies ELSE chosen
           n == Len(asked)
           K == {i \in 1..n : asked[i] # sc.baseline}
           T == STRING \cup {sc.baseline}
           rest == KeptOf(n, asked, K)
<1>1. asked \in Seq(STRING) /\ n \in Nat /\ DOMAIN asked = 1..n
  OBVIOUS
<1>2. asked \in [1..n -> STRING] /\ K \in SUBSET (1..n)
  BY <1>1
<1>3. Names(sc, chosen) = <<sc.baseline>> \o rest
  <2>1. [i \in DOMAIN asked |-> IF asked[i] # sc.baseline THEN <<asked[i]>> ELSE <<>>]
           = [i \in 1..n |-> IF i \in K THEN <<asked[i]>> ELSE <<>>]
    BY <1>1
  <2>2. Names(sc, chosen) = <<sc.baseline>> \o FlattenSeq([i \in DOMAIN asked |->
                                IF asked[i] # sc.baseline THEN <<asked[i]>> ELSE <<>>])
    BY DEF Names
  <2> HIDE DEF asked, n, K
  <2> QED BY <2>1, <2>2 DEF KeptOf
<1>4. \A i \in K : asked[i] # sc.baseline
  OBVIOUS
<1> HIDE DEF asked, n, K
<1>5. /\ rest \in Seq(STRING) /\ Len(rest) = PlaceIn(K, n) /\ PlaceIn(K, n) \in Nat
      /\ \A k \in 1..PlaceIn(K, n) : \E i \in K : rest[k] = asked[i]
  BY <1>1, <1>2, Selected
<1> HIDE DEF rest
<1>6. \A k \in 1..Len(rest) : rest[k] # sc.baseline
  BY <1>4, <1>5
<1> DEFINE first == <<sc.baseline>>
<1>7. first \in Seq(T) /\ rest \in Seq(T) /\ Len(first) = 1 /\ first[1] = sc.baseline
  <2>1. rest \in Seq(T)
    BY <1>5, SeqMonotonic
  <2> QED BY <2>1
<1> HIDE DEF first, T
<1>8. /\ first \o rest \in Seq(T) /\ Len(first \o rest) = 1 + Len(rest) /\ Len(rest) \in Nat
      /\ \A k \in 1..1 : (first \o rest)[k] = first[k]
      /\ \A j \in 1..Len(rest) : (first \o rest)[1 + j] = rest[j]
  <2>1. /\ first \o rest \in Seq(T) /\ Len(first \o rest) = Len(first) + Len(rest) /\ Len(rest) \in Nat
        /\ \A k \in 1..Len(first) : (first \o rest)[k] = first[k]
        /\ \A j \in 1..Len(rest) : (first \o rest)[Len(first) + j] = rest[j]
    <3>1. first \in Seq(T) /\ rest \in Seq(T)
      BY <1>7
    <3> QED BY <3>1, Appended
  <2> QED BY <1>7, <2>1
<1>9. ASSUME NEW k \in 2..(1 + Len(rest)) PROVE (first \o rest)[k] # sc.baseline
  <2>1. k - 1 \in 1..Len(rest) /\ 1 + (k - 1) = k
    BY <1>8
  <2>2. (first \o rest)[1 + (k - 1)] = rest[k - 1]
    BY <1>8, <2>1
  <2> QED BY <1>6, <2>1, <2>2
<1> QED BY <1>3, <1>7, <1>8, <1>9 DEF first, T

\* The simulations of a battery: for each strategy one, or two in a row.
LEMMA OneAfterTheOther ==
  ASSUME NEW sc, NEW chosen, sc.strategies \in Seq(STRING), chosen \in Seq(STRING)
  PROVE  LET names == Names(sc, chosen)
             sims == Simulations(sc, chosen)
             n == IF sc.faults # {} THEN 2 ELSE 1
         IN  /\ DOMAIN sims = 1..(n * Len(names)) /\ Len(sims) = n * Len(names)
             /\ \A k \in 1..Len(names) :
                   /\ sims[n * (k - 1) + 1] = Simulate(sc, names[k], sc.faults)
                   /\ sc.faults # {} => sims[2 * k] = Simulate(sc, names[k], {})
<1> DEFINE names == Names(sc, chosen)
           m == Len(names)
           sims == Simulations(sc, chosen)
           n == IF sc.faults # {} THEN 2 ELSE 1
           part(k) == <<Simulate(sc, names[k], sc.faults)>> \o
                         (IF sc.faults # {} THEN <<Simulate(sc, names[k], {})>> ELSE <<>>)
           parts == [k \in 1..m |-> part(k)]
           T == {Simulate(sc, names[k], f) : k \in 1..m, f \in {sc.faults, {}}}
           at == [k \in 0..m |-> n * k]
<1>1. m \in Nat /\ DOMAIN names = 1..m
  BY BaselineFirst
<1>2. sims = FlattenSeq(parts)
  BY <1>1 DEF Simulations
<1>3. ASSUME NEW k \in 1..m
      PROVE  /\ part(k) \in Seq(T) /\ Len(part(k)) = n
             /\ part(k)[1] = Simulate(sc, names[k], sc.faults)
             /\ sc.faults # {} => part(k)[2] = Simulate(sc, names[k], {})
  <2>1. Simulate(sc, names[k], sc.faults) \in T /\ Simulate(sc, names[k], {}) \in T
    OBVIOUS
  <2> HIDE DEF T
  <2>2. \A a, b : a \in T /\ b \in T => /\ <<a>> \o <<b>> \in Seq(T) /\ Len(<<a>> \o <<b>>) = 2
                            /\ (<<a>> \o <<b>>)[1] = a /\ (<<a>> \o <<b>>)[2] = b
                            /\ <<a>> \o <<>> \in Seq(T) /\ Len(<<a>> \o <<>>) = 1 /\ (<<a>> \o <<>>)[1] = a
    OBVIOUS
  <2>3. CASE sc.faults # {}
    <3>1. part(k) = <<Simulate(sc, names[k], sc.faults)>> \o <<Simulate(sc, names[k], {})>> /\ n = 2
      BY <2>3
    <3> QED BY <2>1, <2>2, <3>1
  <2>4. CASE sc.faults = {}
    <3>1. part(k) = <<Simulate(sc, names[k], sc.faults)>> \o <<>> /\ n = 1
      BY <2>4
    <3> QED BY <2>1, <2>2, <2>4, <3>1
  <2> QED BY <2>3, <2>4
<1> HIDE DEF part, T, sims, names, m
<1>4. parts \in [1..m -> Seq(T)] /\ \A k \in 1..m : parts[k] = part(k)
  BY <1>3
<1>5. PartsAt(m, parts, at) /\ at[m] = n * m /\ n \in {1, 2} /\ \A k \in 1..m : at[k - 1] = n * (k - 1)
  <2>1. at \in [0..m -> Nat] /\ at[0] = 0 /\ n \in {1, 2}
    BY <1>1
  <2>2. \A k \in 1..m : at[k] = at[k - 1] + n
    BY <1>1
  <2>3. \A k \in 1..m : Len(parts[k]) = n
    BY <1>3, <1>4
  <2>4. at[m] = n * m /\ \A k \in 1..m : at[k - 1] = n * (k - 1)
    <3>1. m \in 0..m /\ \A k \in 1..m : k - 1 \in 0..m
      BY <1>1
    <3> HIDE DEF n
    <3> QED BY <3>1
  <2> HIDE DEF at, parts, n
  <2> QED BY <2>1, <2>2, <2>3, <2>4 DEF PartsAt
<1> HIDE DEF parts, at
<1>6. sims \in Seq(T) /\ Located(parts, at, sims, m)
  BY <1>1, <1>2, <1>4, <1>5, BlocksJoined
<1>7. DOMAIN sims = 1..(n * m) /\ Len(sims) = n * m
  BY <1>5, <1>6 DEF Located
<1>8. ASSUME NEW k \in 1..m, NEW j \in 1..n PROVE sims[n * (k - 1) + j] = part(k)[j]
  <2>1. Len(parts[k]) = n /\ parts[k] = part(k) /\ at[k - 1] = n * (k - 1)
    BY <1>3, <1>4, <1>5
  <2> HIDE DEF n
  <2> QED BY <1>6, <2>1 DEF Located
<1>9. ASSUME NEW k \in 1..m
      PROVE  /\ sims[n * (k - 1) + 1] = Simulate(sc, names[k], sc.faults)
             /\ sc.faults # {} => sims[2 * k] = Simulate(sc, names[k], {})
  <2>1. sims[n * (k - 1) + 1] = part(k)[1]
    <3>1. 1 \in 1..n
      BY <1>5
    <3> HIDE DEF n
    <3> QED BY <1>8, <3>1
  <2>2. ASSUME sc.faults # {} PROVE sims[2 * k] = part(k)[2]
    <3>1. n = 2 /\ n * (k - 1) + 2 = 2 * k
      BY <2>2
    <3>2. 2 \in 1..n
      BY <3>1
    <3> QED BY <1>8, <3>1, <3>2
  <2> QED BY <1>3, <2>1, <2>2
<1> QED BY <1>7, <1>9 DEF sims, names, m

\* Strategies are compared on the same ground in every battery, whatever it
\* lists and whichever of its strategies are asked for.
THEOREM StrategiesAreCompared ==
  ASSUME NEW sc, NEW chosen, sc.strategies \in Seq(STRING), chosen \in Seq(STRING),
         sc.nodes \in Seq(STRING), sc.size \in Int, sc.fps \in Int
  PROVE  ComparedFairly(sc, chosen)
<1> DEFINE names == Names(sc, chosen)
           m == Len(names)
           sims == Simulations(sc, chosen)
           n == IF sc.faults # {} THEN 2 ELSE 1
<1>1. /\ m \in Nat /\ m >= 1 /\ names[1] = sc.baseline
      /\ \A k \in 2..m : names[k] # sc.baseline
  BY BaselineFirst
<1>2. /\ DOMAIN sims = 1..(n * m) /\ Len(sims) = n * m
      /\ \A k \in 1..m : /\ sims[n * (k - 1) + 1] = Simulate(sc, names[k], sc.faults)
                         /\ sc.faults # {} => sims[2 * k] = Simulate(sc, names[k], {})
  BY OneAfterTheOther
<1>3. (sc.faults = {} => n = 1) /\ (sc.faults # {} => n = 2)
  OBVIOUS
<1> HIDE DEF names, m, sims, n
\* Where a simulation is, says of which strategy and with which faults it is.
<1> DEFINE Of(i, k) == /\ k \in 1..m /\ i \in (n * (k - 1) + 1)..(n * k)
                       /\ sims[i] = Simulate(sc, names[k], IF i = n * (k - 1) + 1 THEN sc.faults ELSE {})
<1>4. ASSUME NEW i \in DOMAIN sims PROVE \E k : Of(i, k)
  <2>1. CASE sc.faults = {}
    <3>1. i \in 1..m /\ i = n * (i - 1) + 1 /\ i = n * i
      BY <1>1, <1>2, <1>3, <2>1
    <3>2. sims[n * (i - 1) + 1] = Simulate(sc, names[i], sc.faults)
      BY <1>2, <3>1
    <3>3. Of(i, i)
      BY <3>1, <3>2
    <3> QED BY <3>3
  <2>2. CASE sc.faults # {}
    <3>1. i \in 1..(2 * m) /\ n = 2
      BY <1>2, <1>3, <2>2
    <3>2. PICK k \in 1..m : i = 2 * (k - 1) + 1 \/ i = 2 * k
      <4> DEFINE k == (i + 1) \div 2
                 r == (i + 1) % 2
      <4>1. k \in Nat /\ r \in 0..1 /\ i + 1 = k * 2 + r
        <5>1. i + 1 \in Nat /\ 2 \in Nat \ {0} /\ 2 - 1 = 1
          BY <1>1, <3>1
        <5>2. k \in Nat /\ r \in 0..(2 - 1) /\ i + 1 = k * 2 + r
          <6> HIDE DEF m
          <6> QED BY <5>1, DivMod
        <5> QED BY <5>1, <5>2
      <4> HIDE DEF k, r
      <4>2. r = 0 \/ r = 1
        BY <4>1
      <4>3. i \in Int /\ i >= 1 /\ i <= 2 * m
        BY <1>1, <3>1
      <4>4. k >= 1 /\ k <= m /\ (i = 2 * (k - 1) + 1 \/ i = 2 * k)
        <5>1. k \in Int /\ k * 2 = 2 * k
          BY <4>1
        <5>2. r = 0 => i = 2 * k - 1
          BY <4>1, <4>3, <5>1
        <5>3. r = 1 => i = 2 * k
          BY <4>1, <4>3, <5>1
        <5>4. i = 2 * k - 1 \/ i = 2 * k
          BY <4>2, <5>2, <5>3
        <5> QED BY <1>1, <4>3, <5>1, <5>4
      <4>5. k \in 1..m
        BY <1>1, <4>1, <4>4
      <4> QED BY <4>4, <4>5
    <3>3. sims[2 * (k - 1) + 1] = Simulate(sc, names[k], sc.faults) /\ sims[2 * k] = Simulate(sc, names[k], {})
      BY <1>2, <2>2, <3>1
    <3>4. 2 * k # 2 * (k - 1) + 1 /\ i \in (2 * (k - 1) + 1)..(2 * k)
      BY <3>2
    <3>5. Of(i, k)
      BY <3>1, <3>2, <3>3, <3>4
    <3> QED BY <3>5
  <2> QED BY <2>1, <2>2
<1>5. sims[1] = Simulate(sc, sc.baseline, sc.faults)
  <2>1. 1 \in 1..m /\ n * (1 - 1) + 1 = 1
    BY <1>1, <1>3
  <2>2. sims[n * (1 - 1) + 1] = Simulate(sc, names[1], sc.faults)
    BY <1>2, <2>1
  <2> QED BY <1>1, <2>1, <2>2
<1>6. ASSUME NEW i \in DOMAIN sims, sims[i].strategy = sc.baseline PROVE i <= n
  <2>1. PICK k : Of(i, k)
    BY <1>4
  <2>2. names[k] = sc.baseline
    BY <1>6, <2>1 DEF Simulate
  <2>3. k = 1
    BY <1>1, <2>1, <2>2
  <2> QED BY <1>3, <2>1, <2>3
<1>7. ASSUME NEW i \in DOMAIN sims PROVE sims[i].faults = (IF i % n = 1 \/ n = 1 THEN sc.faults ELSE {})
  <2>1. PICK k : Of(i, k)
    BY <1>4
  <2>2. sims[i].faults = IF i = n * (k - 1) + 1 THEN sc.faults ELSE {}
    BY <2>1 DEF Simulate
  <2>3. CASE n = 1
    <3>1. i = n * (k - 1) + 1
      BY <2>1, <2>3
    <3> QED BY <2>2, <2>3, <3>1
  <2>4. CASE n = 2
    <3>1. k \in Nat /\ (i = 2 * (k - 1) + 1 \/ i = 2 * k)
      <4>1. k \in Nat /\ i \in (2 * (k - 1) + 1)..(2 * k)
        BY <1>1, <2>1, <2>4
      <4> QED BY <4>1
    <3>2. (i = 2 * (k - 1) + 1) <=> (i % 2 = 1)
      BY <3>1
    <3> QED BY <2>2, <2>4, <3>2
  <2> QED BY <1>3, <2>3, <2>4
<1>8. ASSUME sc.faults # {}, NEW i \in 1..(Len(sims) \div 2)
      PROVE  sims[2 * i].strategy = sims[2 * i - 1].strategy
  <2>1. i \in 1..m /\ n = 2 /\ n * (i - 1) + 1 = 2 * i - 1
    BY <1>1, <1>2, <1>3, <1>8
  <2>2. sims[n * (i - 1) + 1] = Simulate(sc, names[i], sc.faults) /\ sims[2 * i] = Simulate(sc, names[i], {})
    BY <1>2, <1>8, <2>1
  <2> QED BY <2>1, <2>2 DEF Simulate
<1>9. ASSUME NEW i \in DOMAIN sims, NEW j \in DOMAIN sims
      PROVE  sims[i] = [sims[j] EXCEPT !.strategy = sims[i].strategy, !.fps = sims[i].fps, !.faults = sims[i].faults]
  <2>1. PICK k : Of(i, k)
    BY <1>4
  <2>2. PICK l : Of(j, l)
    BY <1>4
  <2>3. PICK f, g : sims[i] = Simulate(sc, names[k], f) /\ sims[j] = Simulate(sc, names[l], g)
    BY <2>1, <2>2
  <2> DEFINE Sim(a, b, x) == [strategy |-> a, fps |-> b, profiles |-> ProfileNames(sc), seed |-> sc.seed,
                             duration |-> sc.duration, faults |-> x]
  <2>4. \E a, b, c, d : sims[i] = Sim(a, b, f) /\ sims[j] = Sim(c, d, g)
    BY <2>3 DEF Simulate
  <2>5. PICK a, b, c, d : sims[i] = Sim(a, b, f) /\ sims[j] = Sim(c, d, g)
    BY <2>4
  <2>6. sims[i].strategy = a /\ sims[i].fps = b /\ sims[i].faults = f
    BY <2>5
  <2>7. Sim(a, b, f) = [Sim(c, d, g) EXCEPT !.strategy = a, !.fps = b, !.faults = f]
    <3>1. [Sim(c, d, g) EXCEPT !.strategy = a, !.fps = b, !.faults = f]
             = [[[Sim(c, d, g) EXCEPT !.strategy = a] EXCEPT !.fps = b] EXCEPT !.faults = f]
      OBVIOUS
    <3>2. [Sim(c, d, g) EXCEPT !.strategy = a] = Sim(a, d, g)
      OBVIOUS
    <3>3. [Sim(a, d, g) EXCEPT !.fps = b] = Sim(a, b, g)
      OBVIOUS
    <3>4. [Sim(a, b, g) EXCEPT !.faults = f] = Sim(a, b, f)
      OBVIOUS
    <3> HIDE DEF Sim
    <3> QED BY <3>1, <3>2, <3>3, <3>4
  <2> HIDE DEF Sim
  <2> QED BY <2>5, <2>6, <2>7
<1>10. ASSUME ScenarioAccepted(sc), sc.striped = "match", NEW s \in Range(sims)
       PROVE  s.fps * (IF s.strategy \in SingleCamera THEN 1 ELSE Len(s.profiles)) = sc.fps * Len(s.profiles)
  <2>1. PICK i \in DOMAIN sims : s = sims[i]
    BY DEF Range
  <2>2. PICK k : Of(i, k)
    BY <1>4
  <2>3. /\ s.strategy = names[k] /\ s.profiles = ProfileNames(sc)
        /\ s.fps = IF names[k] \in SingleCamera THEN StripedFps(sc) ELSE sc.fps
    BY <2>1, <2>2 DEF Simulate
  <2>4. StripedFps(sc) = sc.fps * Len(ProfileNames(sc))
    BY <1>10 DEF StripedFps
  <2>5. Len(ProfileNames(sc)) \in Int
    <3>1. CASE sc.nodes # <<>>
      BY <3>1 DEF ProfileNames
    <3>2. CASE sc.nodes = <<>>
      <4>1. sc.size \in Nat
        BY <1>10, <3>2 DEF ScenarioAccepted
      <4> DEFINE size == sc.size
                 roles == [r \in 1..size |-> IF r = 1 THEN "leader" ELSE "worker"]
      <4>2. ProfileNames(sc) = roles
        BY <3>2 DEF ProfileNames
      <4> HIDE DEF size
      <4>3. Len(roles) = size
        BY <4>1 DEF size
      <4> HIDE DEF roles
      <4> QED BY <4>1, <4>2, <4>3 DEF size
    <3> QED BY <3>1, <3>2
  <2> QED BY <2>3, <2>4, <2>5
<1> HIDE DEF Of
<1> QED BY <1>5, <1>6, <1>7, <1>8, <1>9, <1>10 DEF ComparedFairly, sims, n

\* A delay is the time to the first of what came, or that nothing came.
LEMMA DelayPasses ==
  ASSUME NEW S, S \subseteq Nat, NEW from \in Nat
  PROVE  /\ (\A t \in S : t >= from) => Delay(S, from) \in Nat
         /\ (\A t \in S : t > from) => Delay(S, from) \in Nat \ {0}
<1>1. CASE S = {}
  BY <1>1 DEF Delay, Inf
<1>2. CASE S # {}
  <2>1. Min(S) \in S
    BY <1>2, Least DEF Min
  <2>2. Delay(S, from) = Min(S) - from /\ Min(S) \in Nat
    BY <1>2, <2>1 DEF Delay
  <2> QED BY <2>1, <2>2
<1> QED BY <1>1, <1>2

\* A delay leads to the first of what came.
LEMMA DelayIsFirst ==
  ASSUME NEW S, S \subseteq Nat, NEW from \in Nat
  PROVE  FirstOf(Delay(S, from), S, from)
<1>1. CASE S = {}
  BY <1>1 DEF Delay, FirstOf
<1>2. CASE S # {}
  <2>1. Min(S) \in S /\ \A t \in S : Min(S) <= t
    BY <1>2, Least DEF Min
  <2>2. Delay(S, from) = Min(S) - from
    BY <1>2 DEF Delay
  <2>3. from + (Min(S) - from) = Min(S)
    <3>1. Min(S) \in Nat
      BY <2>1
    <3> QED BY <3>1
  <2>4. from + Delay(S, from) = Min(S)
    BY <2>2, <2>3
  <2> HIDE DEF Delay
  <2> QED BY <1>2, <2>1, <2>4 DEF FirstOf
<1> QED BY <1>1, <1>2

\* A recovery time is one of the first failure, for every log of a simulation:
\* of the node killed first, of the leader's place if that node led last, each
\* to the first of what followed, and none without a failure.
THEOREM RecoveriesAreExact ==
  ASSUME NEW Kinds, NEW events \in Seq([kind : Kinds, t : Nat, n : Nat]), NEW learned \in Seq(Nat)
  PROVE  RecoveryExact(events, learned)
<1> DEFINE Kills == {i \in 1..Len(events) : events[i].kind = "kill"}
           k == IF Kills # {} THEN Min(Kills) ELSE 0
           kill == events[k]
           Led == {i \in 1..Len(events) : events[i].kind = "leader" /\ events[i].t <= kill.t}
           led == IF Led # {} THEN Max(Led) ELSE 0
           elected == {e.t : e \in {x \in Range(events) : x.kind = "leader" /\ x.t > kill.t}}
           suspected == {e.t : e \in {x \in Range(events) : x.kind = "suspect" /\ Suspected(x, kill)}}
           later == {t \in Range(learned) : t > kill.t}
           out == Survivability(events, learned)
           Times(kind) == {e.t : e \in {x \in Range(events) : x.kind = kind}}
           Of(n) == {e.t : e \in {x \in Range(events) : x.kind = "suspect" /\ x.n = n}}
           LedLast(j, t) == events[j].kind = "leader" /\ events[j].t <= t /\ \A l \in DOMAIN events :
                               l > j /\ events[l].kind = "leader" => events[l].t > t
<1>1. /\ k = 0 => out = [detect |-> NaN, reelect |-> NaN, recover |-> NaN]
      /\ k # 0 => out = [detect |-> Delay(suspected, kill.t),
                        reelect |-> IF led # 0 /\ events[led].n = kill.n THEN Delay(elected, kill.t) ELSE NaN,
                        recover |-> Delay(later, kill.t)]
  BY DEF Survivability, SelectInSeq, SelectLastInSeq
<1> HIDE DEF out
<1>2. DOMAIN events = 1..Len(events) /\ Len(events) \in Nat
  OBVIOUS
<1>3. \A i \in 1..Len(events) : events[i].t \in Nat
  <2>1. \A i \in 1..Len(events) : events[i] \in [kind : Kinds, t : Nat, n : Nat]
    <3> HIDE DEF Kills, k, kill, Led, led, elected, suspected, later
    <3> QED BY <1>2, ElementOfSeq
  <2> QED BY <2>1
<1>4. Kills # {} => k \in Kills /\ \A i \in Kills : k <= i
  <2>1. Kills \subseteq Nat
    BY <1>2
  <2> HIDE DEF Kills
  <2> QED BY <2>1, Least DEF Min
<1>5. Led # {} => led \in Led /\ \A i \in Led : led >= i
  <2>1. Led \in SUBSET (1..Len(events))
    OBVIOUS
  <2> HIDE DEF Led
  <2> QED BY <1>2, <2>1, FirstIsOne
<1>6. CASE Kills = {}
  <2>1. out.detect = NaN /\ out.reelect = NaN /\ out.recover = NaN
    <3>1. k = 0
      BY <1>6
    <3> HIDE DEF k
    <3> QED BY <1>1, <3>1
  <2>2. \A i \in DOMAIN events : events[i].kind # "kill"
    BY <1>2, <1>6
  <2>3. {out.detect, out.reelect, out.recover} = {NaN}
    BY <2>1
  <2> QED BY <2>2, <2>3 DEF RecoveryExact, out
<1>7. CASE Kills # {}
  <2>1. k \in 1..Len(events) /\ kill.kind = "kill" /\ kill.t \in Nat
    <3>1. k \in 1..Len(events) /\ events[k].kind = "kill"
      <4> HIDE DEF k
      <4> QED BY <1>4, <1>7
    <3> HIDE DEF k
    <3>2. events[k].t \in Nat
      BY <1>3, <3>1
    <3> QED BY <3>1, <3>2
  <2>2. /\ suspected \subseteq Nat /\ \A t \in suspected : t >= kill.t
        /\ elected \subseteq Nat /\ \A t \in elected : t > kill.t
        /\ later \subseteq Nat /\ \A t \in later : t > kill.t
    <3>1. \A x \in Range(events) : x.t \in Nat
      BY <1>2, <1>3 DEF Range
    <3>2. \A t \in Range(learned) : t \in Nat
      BY DEF Range
    <3>3. \A x \in Range(events) : Suspected(x, kill) => x.t >= kill.t
      BY DEF Suspected
    <3> HIDE DEF kill
    <3> QED BY <3>1, <3>2, <3>3
  <2>3. /\ out.detect = Delay(suspected, kill.t) /\ out.recover = Delay(later, kill.t)
        /\ out.reelect = IF led # 0 /\ events[led].n = kill.n THEN Delay(elected, kill.t) ELSE NaN
    <3>1. k # 0
      <4> HIDE DEF k
      <4> QED BY <1>2, <2>1
    <3> HIDE DEF k, kill, led, suspected, elected, later
    <3> QED BY <1>1, <3>1
  <2>4. (led # 0 /\ events[led].n = kill.n) <=> \E j \in DOMAIN events : LedLast(j, kill.t) /\ events[j].n = kill.n
    <3>1. ASSUME led # 0, events[led].n = kill.n PROVE LedLast(led, kill.t) /\ led \in DOMAIN events
      <4>1. led \in Led /\ \A i \in Led : led >= i
        BY <1>5, <3>1
      <4> HIDE DEF led, kill
      <4>2. led \in DOMAIN events /\ events[led].kind = "leader" /\ events[led].t <= kill.t
        BY <1>2, <4>1
      <4>3. ASSUME NEW l \in DOMAIN events, l > led, events[l].kind = "leader" PROVE events[l].t > kill.t
        <5>1. l \notin Led
          <6>1. led \in Nat /\ l \in Nat /\ ~(led >= l)
            BY <1>2, <4>2, <4>3
          <6> HIDE DEF Led
          <6> QED BY <4>1, <6>1
        <5>2. events[l].t \in Nat /\ kill.t \in Nat /\ ~(events[l].t <= kill.t)
          BY <1>2, <1>3, <2>1, <4>3, <5>1
        <5> QED BY <5>2
      <4> QED BY <4>2, <4>3
    <3>2. ASSUME NEW j \in DOMAIN events, LedLast(j, kill.t), events[j].n = kill.n
          PROVE  led # 0 /\ events[led].n = kill.n
      <4>1. j \in Led
        BY <1>2, <3>2
      <4>2. led \in Led /\ led >= j
        BY <1>5, <4>1
      <4> HIDE DEF led, kill
      <4>3. led \in 1..Len(events) /\ events[led].kind = "leader" /\ events[led].t <= kill.t
        BY <4>2
      <4>4. ~(led > j)
        <5>1. events[led].t \in Nat /\ kill.t \in Nat
          BY <1>3, <2>1, <4>3
        <5> QED BY <1>2, <3>2, <4>3, <5>1
      <4>5. led = j
        BY <1>2, <4>2, <4>3, <4>4
      <4> QED BY <1>2, <3>2, <4>5
    <3> HIDE DEF led, kill, LedLast
    <3> QED BY <3>1, <3>2
  <2>5. /\ suspected = {t \in Of(kill.n) : t >= kill.t}
        /\ elected = {t \in Times("leader") : t > kill.t}
    <3> HIDE DEF kill
    <3> QED BY DEF Suspected
  <2>6. ASSUME NEW i \in DOMAIN events, events[i].kind = "kill", \A j \in 1..(i - 1) : events[j].kind # "kill"
        PROVE  i = k
    <3>1. i \in Kills /\ k \in Kills /\ k <= i
      BY <1>2, <1>4, <1>7, <2>6
    <3> HIDE DEF k
    <3>2. k \in Nat /\ i \in Nat /\ k >= 1 /\ events[k].kind = "kill"
      BY <1>2, <3>1
    <3>3. ~(k <= i - 1)
      BY <2>6, <3>2
    <3> QED BY <3>1, <3>2, <3>3
  <2> DEFINE Ok(node, from) ==
               /\ out.detect >= 0 /\ out.reelect # 0 /\ out.recover > 0
               /\ FirstOf(out.detect, {t \in Of(node) : t >= from}, from)
               /\ IF \E j \in DOMAIN events : LedLast(j, from) /\ events[j].n = node
                  THEN FirstOf(out.reelect, {t \in Times("leader") : t > from}, from)
                  ELSE out.reelect = NaN
               /\ FirstOf(out.recover, {t \in Range(learned) : t > from}, from)
  <2>7. Ok(kill.n, kill.t)
    <3> HIDE DEF led, kill, LedLast, Times, Of
    <3>1. /\ FirstOf(Delay(suspected, kill.t), suspected, kill.t) /\ FirstOf(Delay(elected, kill.t), elected, kill.t)
          /\ FirstOf(Delay(later, kill.t), later, kill.t)
      <4> HIDE DEF suspected, elected, later
      <4> QED BY <2>1, <2>2, DelayIsFirst
    <3>2. /\ Delay(suspected, kill.t) \in Nat /\ Delay(elected, kill.t) \in Nat \ {0}
          /\ Delay(later, kill.t) \in Nat \ {0}
      <4> HIDE DEF suspected, elected, later
      <4> QED BY <2>1, <2>2, DelayPasses
    <3> HIDE DEF suspected, elected
    <3>3. out.detect >= 0 /\ out.reelect # 0 /\ out.recover > 0
      <4> HIDE DEF later
      <4> QED BY <2>3, <3>2 DEF NaN
    <3>4. FirstOf(out.detect, {t \in Of(kill.n) : t >= kill.t}, kill.t)
      BY <2>3, <2>5, <3>1
    <3>5. FirstOf(out.recover, {t \in Range(learned) : t > kill.t}, kill.t)
      BY <2>3, <3>1
    <3>6. IF \E j \in DOMAIN events : LedLast(j, kill.t) /\ events[j].n = kill.n
          THEN FirstOf(out.reelect, {t \in Times("leader") : t > kill.t}, kill.t)
          ELSE out.reelect = NaN
      <4>1. FirstOf(Delay(elected, kill.t), {t \in Times("leader") : t > kill.t}, kill.t)
        BY <2>5, <3>1
      <4> DEFINE first == {t \in Times("leader") : t > kill.t}
                 held == led # 0 /\ events[led].n = kill.n
      <4> HIDE DEF first
      <4>2. held => out.reelect = Delay(elected, kill.t)
        BY <2>3
      <4>3. ~held => out.reelect = NaN
        BY <2>3
      <4>4. held <=> \E j \in DOMAIN events : LedLast(j, kill.t) /\ events[j].n = kill.n
        BY <2>4
      <4>5. FirstOf(Delay(elected, kill.t), first, kill.t)
        BY <4>1 DEF first
      <4> HIDE DEF held
      <4>6. IF held THEN FirstOf(out.reelect, first, kill.t) ELSE out.reelect = NaN
        BY <4>2, <4>3, <4>5
      <4> QED BY <4>4, <4>6 DEF first
    <3> QED BY <3>3, <3>4, <3>5, <3>6
  <2>8. ASSUME NEW i \in DOMAIN events, events[i].kind = "kill", \A j \in 1..(i - 1) : events[j].kind # "kill"
        PROVE  Ok(events[i].n, events[i].t)
    <3>1. i = k
      BY <2>6, <2>8
    <3> HIDE DEF k, Ok
    <3> QED BY <2>7, <3>1
  <2>9. \E i \in DOMAIN events : events[i].kind = "kill"
    BY <1>2, <2>1
  <2> HIDE DEF Kills, k, kill, Led, led, elected, suspected, later
  <2> QED BY <2>8, <2>9 DEF RecoveryExact, out
<1> QED BY <1>6, <1>7

\* A check passes only on a number somebody measured, for every battery.
THEOREM ChecksAreHonest == \A sc, chosen, metrics : ChecksHonest(sc, chosen, metrics)
<1> SUFFICES ASSUME NEW sc, NEW chosen, NEW metrics,
                    NEW r \in EvaluateChecks(sc, Names(sc, chosen), metrics), r.passed
             PROVE  /\ r.strategy \in Range(Names(sc, chosen))
                    /\ metrics[r.strategy] # NaN
                    /\ r.check.ratio => metrics[sc.baseline] \notin {NaN, 0}
  BY DEF ChecksHonest
<1> DEFINE names == Names(sc, chosen)
           Actual(check, name) ==
             IF name \notin Range(names) THEN NaN
             ELSE IF check.ratio THEN Ratio(metrics[name], metrics[sc.baseline])
             ELSE IF metrics[name] = NaN THEN NaN ELSE 100 * metrics[name]
<1>1. PICK check \in sc.checks :
        \E name : r = [check |-> check, strategy |-> name, actual |-> Actual(check, name),
              passed |-> Compare(Actual(check, name), check.op, check.value)]
  BY DEF EvaluateChecks
<1>2. PICK name : r = [check |-> check, strategy |-> name, actual |-> Actual(check, name),
                       passed |-> Compare(Actual(check, name), check.op, check.value)]
  BY <1>1
<1> HIDE DEF names
<1>3. r.check = check /\ r.strategy = name /\ Compare(Actual(check, name), check.op, check.value)
  BY <1>2
<1>4. Actual(check, name) # NaN
  BY <1>3 DEF Compare
<1> QED BY <1>3, <1>4 DEF Ratio, names

\* A battery without a model still runs, and what is said to come from a
\* model comes from one that is there.
THEOREM BrainsAreFound == \A sc, override, engine : BrainFound(sc, override, engine)
BY DEF BrainFound, BrainFor

\* Whatever battery is simulated, brain picked, log read or check evaluated,
\* strategies are compared on the same ground, a brain is there, times have
\* passed and what passed was measured (bench/scenario.py, bench/runner.py).
THEOREM BatteriesAreFair == Asked => BatteryFair
<1> SUFFICES ASSUME Asked PROVE BatteryFair
  OBVIOUS
<1>1. input.kind = "scenario" => ComparedFairly(input.sc, input.chosen)
  BY StrategiesAreCompared DEF Asked, ScenarioForm
<1>2. input.kind = "brain" => BrainFound(input.sc, input.override, input.engine)
  BY BrainsAreFound
<1>3. input.kind = "log" => RecoveryExact(input.events, input.learned)
  BY RecoveriesAreExact DEF Asked, EventForm
<1>4. input.kind = "checks" => ChecksHonest(input.sc, input.chosen, input.metrics)
  BY ChecksAreHonest
<1> QED BY <1>1, <1>2, <1>3, <1>4 DEF BatteryFair

-----------------------------------------------------------------------------
(* Packages.                                                               *)

\* Steps in order, none of which trips, do not trip.
LEMMA TwoInOrder ==
  ASSUME NEW a, NEW b
  PROVE  InOrder(<<a, b>>) = IF a # "ok" THEN a ELSE b
<1> DEFINE s == <<a, b>>
           First(i) == s[i] # "ok" /\ \A j \in 1..(i - 1) : s[j] = "ok"
<1>1. DOMAIN s = {1, 2} /\ s[1] = a /\ s[2] = b
  OBVIOUS
<1>2. (\A i \in DOMAIN s : s[i] = "ok") <=> a = "ok" /\ b = "ok"
  BY <1>1
<1>3. \A i \in DOMAIN s : First(i) <=> \/ i = 1 /\ a # "ok"
                                       \/ i = 2 /\ a = "ok" /\ b # "ok"
  <2>1. 1..(1 - 1) = {} /\ 1..(2 - 1) = {1}
    OBVIOUS
  <2> QED BY <1>1, <2>1
<1>4. InOrder(s) = IF \A i \in DOMAIN s : s[i] = "ok" THEN "ok" ELSE s[CHOOSE i \in DOMAIN s : First(i)]
  BY DEF InOrder
<1> HIDE DEF s, First
<1>5. CASE a # "ok"
  <2>1. (CHOOSE i \in DOMAIN s : First(i)) = 1
    BY <1>1, <1>3, <1>5
  <2> QED BY <1>1, <1>2, <1>4, <1>5, <2>1 DEF s
<1>6. CASE a = "ok" /\ b # "ok"
  <2>1. (CHOOSE i \in DOMAIN s : First(i)) = 2
    BY <1>1, <1>3, <1>6
  <2> QED BY <1>1, <1>2, <1>4, <1>6, <2>1 DEF s
<1>7. CASE a = "ok" /\ b = "ok"
  BY <1>2, <1>4, <1>7 DEF s
<1> QED BY <1>5, <1>6, <1>7

LEMMA ThreeInOrder ==
  ASSUME NEW a, NEW b, NEW c
  PROVE  InOrder(<<a, b, c>>) = IF a # "ok" THEN a ELSE IF b # "ok" THEN b ELSE c
<1> DEFINE s == <<a, b, c>>
           First(i) == s[i] # "ok" /\ \A j \in 1..(i - 1) : s[j] = "ok"
<1>1. DOMAIN s = {1, 2, 3} /\ s[1] = a /\ s[2] = b /\ s[3] = c
  OBVIOUS
<1>2. (\A i \in DOMAIN s : s[i] = "ok") <=> a = "ok" /\ b = "ok" /\ c = "ok"
  BY <1>1
<1>3. \A i \in DOMAIN s : First(i) <=> \/ i = 1 /\ a # "ok"
                                       \/ i = 2 /\ a = "ok" /\ b # "ok"
                                       \/ i = 3 /\ a = "ok" /\ b = "ok" /\ c # "ok"
  <2>1. 1..(1 - 1) = {} /\ 1..(2 - 1) = {1} /\ 1..(3 - 1) = {1, 2}
    OBVIOUS
  <2> QED BY <1>1, <2>1
<1>4. InOrder(s) = IF \A i \in DOMAIN s : s[i] = "ok" THEN "ok" ELSE s[CHOOSE i \in DOMAIN s : First(i)]
  BY DEF InOrder
<1> HIDE DEF s, First
<1>5. CASE a # "ok"
  <2>1. (CHOOSE i \in DOMAIN s : First(i)) = 1
    BY <1>1, <1>3, <1>5
  <2> QED BY <1>1, <1>2, <1>4, <1>5, <2>1 DEF s
<1>6. CASE a = "ok" /\ b # "ok"
  <2>1. (CHOOSE i \in DOMAIN s : First(i)) = 2
    BY <1>1, <1>3, <1>6
  <2> QED BY <1>1, <1>2, <1>4, <1>6, <2>1 DEF s
<1>7. CASE a = "ok" /\ b = "ok" /\ c # "ok"
  <2>1. (CHOOSE i \in DOMAIN s : First(i)) = 3
    BY <1>1, <1>3, <1>7
  <2> QED BY <1>1, <1>2, <1>4, <1>7, <2>1 DEF s
<1>8. CASE a = "ok" /\ b = "ok" /\ c = "ok"
  BY <1>2, <1>4, <1>8 DEF s
<1> QED BY <1>5, <1>6, <1>7, <1>8

\* A manifest that was accepted is not doubted again (manifest.check_manifest).
THEOREM ManifestsAreEnough ==
  ASSUME NEW p, PackageForm(p)
  PROVE  AcceptedIsEnough(p)
<1> SUFFICES ASSUME CheckManifest(p)
             PROVE  /\ Summary(p) = (IF ModelPath(p) = "odd" THEN "raises" ELSE "ok")
                    /\ Use(p) # "crash" /\ ResolveBrain(p) # "crash"
                    /\ MakePolicy(p) # "crash" /\ Register(p) # "crash"
  BY DEF AcceptedIsEnough
<1>1. p.file \in {"absent", "good", "broken", "odd"}
  BY DEF PackageForm
<1>2. /\ p.type \in {"perception", "tactic", "policy"}
      /\ p.type = "perception" => /\ p.format \in {"python", "swm"} /\ p.options \in {"absent", "object"}
                                  /\ p.format = "swm" => Inside(p.model)
      /\ p.type = "policy" => /\ p.format \in {"npz", "python"} /\ p.options \in {"absent", "object"}
                              /\ p.format = "npz" => Inside(p.model)
                              /\ p.macs # "text"
      /\ (p.type = "tactic" \/ p.format = "python") => p.entry = "file"
  BY DEF CheckManifest, ModelAccepted, EntryAccepted
<1>3. ModelPath(p) \in {"none", "missing", "good", "broken", "odd"}
  BY <1>1, <1>2 DEF ModelPath, Format, Inside
<1>4. Format(p) = "python" => LoadClass(p) # "crash"
  BY <1>2 DEF Format, LoadClass
<1>5. p.type # "tactic" => Options(p) = "ok"
  BY <1>2 DEF Options
<1>6. Instantiate(p) \in {"ok", "raises"}
  BY DEF Instantiate
<1>7. Summary(p) = (IF ModelPath(p) = "odd" THEN "raises" ELSE "ok")
  BY <1>2, <1>3 DEF Summary
<1>8. ResolveBrain(p) # "crash"
  BY <1>3, <1>4, <1>5, TwoInOrder DEF ResolveBrain
<1>9. MakePolicy(p) # "crash"
  BY <1>3, <1>4, <1>5, <1>6, ThreeInOrder DEF MakePolicy
<1>10. Register(p) # "crash"
  BY <1>4 DEF Register, Format
<1>11. MakeBrain(p) # "crash"
  BY <1>6, <1>8, TwoInOrder DEF MakeBrain
<1> QED BY <1>7, <1>8, <1>9, <1>10, <1>11 DEF Use

\* A list of checks: one that ends its report fails it, another one only warns.
Ending(c) == \/ c.ends /\ c.level = "fail"
             \/ ~c.ends /\ c.level # "fail" /\ c.level # "pass"
Listed(s) == s \in Seq({s[i] : i \in DOMAIN s}) /\ \A i \in DOMAIN s : Ending(s[i])
Holding(checks) == \A i \in DOMAIN checks : checks[i].ends => checks[i].holds

LEMMA TuplesAreListed ==
  ASSUME NEW n \in Nat, NEW s, s = [i \in 1..n |-> s[i]], \A i \in 1..n : Ending(s[i])
  PROVE  Listed(s)
<1>1. DOMAIN s = 1..n
  OBVIOUS
<1> DEFINE T == {s[i] : i \in 1..n}
<1>2. \A i \in 1..n : s[i] \in T
  OBVIOUS
<1> HIDE DEF T
<1>3. s \in Seq(T)
  BY <1>2
<1> QED BY <1>1, <1>3 DEF Listed, T

\* A report without a fail is one in which every check that could end it held.
LEMMA NoFailIsHolding ==
  ASSUME NEW checks, Listed(checks)
  PROVE  NoFail(Report(checks)) <=> Holding(checks)
<1> DEFINE n == Len(checks)
           Ends(i) == ~checks[i].holds /\ checks[i].ends
           Reached(i) == \A j \in 1..(i - 1) : ~Ends(j)
           line(i) == <<IF checks[i].holds THEN "pass" ELSE checks[i].level, checks[i].name>>
<1>1. n \in Nat /\ DOMAIN checks = 1..n
  BY DEF Listed
<1>2. Report(checks) = {line(i) : i \in {i \in DOMAIN checks : Reached(i)}}
  BY DEF Report
<1>3. \A i \in 1..n : line(i)[1] = "fail" <=> Ends(i)
  <2>1. \A i \in 1..n : line(i)[1] = IF checks[i].holds THEN "pass" ELSE checks[i].level
    OBVIOUS
  <2>2. \A i \in 1..n : \/ checks[i].ends /\ checks[i].level = "fail"
                        \/ ~checks[i].ends /\ checks[i].level # "fail" /\ checks[i].level # "pass"
    BY <1>1 DEF Listed, Ending
  <2> HIDE DEF line
  <2> QED BY <2>1, <2>2
<1> HIDE DEF line, n
<1>4. NoFail(Report(checks)) <=> \A i \in 1..n : Reached(i) => ~Ends(i)
  <2>1. NoFail(Report(checks)) <=> \A i \in {i \in DOMAIN checks : Reached(i)} : line(i)[1] # "fail"
    BY <1>2 DEF NoFail
  <2> HIDE DEF Reached, Ends
  <2> QED BY <1>1, <1>3, <2>1
<1>5. ASSUME \A i \in 1..n : Reached(i) => ~Ends(i) PROVE \A i \in 1..n : ~Ends(i)
  <2> SUFFICES ASSUME NEW k \in 1..n, Ends(k) PROVE FALSE
    OBVIOUS
  <2> DEFINE S == {i \in 1..n : Ends(i)}
  <2>1. S \subseteq Nat /\ S # {}
    BY <1>1
  <2>2. PICK i \in S : \A j \in S : i <= j
    <3> HIDE DEF S
    <3> QED BY <2>1, Least
  <2>3. i \in 1..n /\ Ends(i)
    BY <2>2
  <2>4. \A j \in 1..(i - 1) : j \in 1..n /\ ~(i <= j)
    BY <1>1, <2>3
  <2> HIDE DEF Ends
  <2>5. Reached(i)
    BY <2>2, <2>4
  <2> QED BY <1>5, <2>3, <2>5
<1>6. Holding(checks) <=> \A i \in 1..n : ~Ends(i)
  BY <1>1 DEF Holding
<1> HIDE DEF Ends, Reached
<1> QED BY <1>4, <1>5, <1>6

\* What a report says passed, a check of that name held.
LEMMA PassedIsHolding ==
  ASSUME NEW checks, Listed(checks), NEW name, <<"pass", name>> \in Report(checks)
  PROVE  \E i \in DOMAIN checks :
            /\ checks[i].holds /\ checks[i].name = name
            /\ \A j \in 1..(i - 1) : ~(~checks[j].holds /\ checks[j].ends)
BY DEF Report, Listed, Ending

\* Joined lists of checks hold when both do.
LEMMA ListsAreJoined ==
  ASSUME NEW s, Listed(s), NEW t, Listed(t)
  PROVE  Listed(s \o t) /\ (Holding(s \o t) <=> Holding(s) /\ Holding(t))
<1> DEFINE T == {s[i] : i \in DOMAIN s} \cup {t[i] : i \in DOMAIN t}
<1>0. s \in Seq(T) /\ t \in Seq(T)
  <2>1. s \in Seq({s[i] : i \in DOMAIN s}) /\ t \in Seq({t[i] : i \in DOMAIN t})
    BY DEF Listed
  <2>2. {s[i] : i \in DOMAIN s} \subseteq T /\ {t[i] : i \in DOMAIN t} \subseteq T
    OBVIOUS
  <2> QED BY <2>1, <2>2, SeqMonotonic
<1> HIDE DEF T
<1>1. /\ Len(s \o t) = Len(s) + Len(t) /\ Len(s) \in Nat /\ Len(t) \in Nat
      /\ \A k \in 1..Len(s) : (s \o t)[k] = s[k]
      /\ \A j \in 1..Len(t) : (s \o t)[Len(s) + j] = t[j]
      /\ s \o t \in Seq(T)
  BY <1>0, Appended
<1>2. DOMAIN s = 1..Len(s) /\ DOMAIN t = 1..Len(t) /\ DOMAIN (s \o t) = 1..(Len(s) + Len(t))
  BY <1>0, <1>1
<1>3. ASSUME Holding(s \o t) PROVE Holding(s) /\ Holding(t)
  <2>1. \A k \in 1..Len(s) : k \in 1..(Len(s) + Len(t))
    BY <1>1
  <2>2. \A j \in 1..Len(t) : Len(s) + j \in 1..(Len(s) + Len(t))
    BY <1>1
  <2> QED BY <1>1, <1>2, <1>3, <2>1, <2>2 DEF Holding
<1>4. ASSUME Holding(s), Holding(t), NEW i \in DOMAIN (s \o t), (s \o t)[i].ends PROVE (s \o t)[i].holds
  <2>1. CASE i <= Len(s)
    <3>1. i \in 1..Len(s)
      BY <1>1, <1>2, <2>1
    <3> QED BY <1>1, <1>2, <1>4, <3>1 DEF Holding
  <2>2. CASE ~(i <= Len(s))
    <3>1. i - Len(s) \in 1..Len(t) /\ Len(s) + (i - Len(s)) = i
      BY <1>1, <1>2, <2>2
    <3>2. (s \o t)[Len(s) + (i - Len(s))] = t[i - Len(s)]
      BY <1>1, <3>1
    <3> QED BY <1>2, <1>4, <3>1, <3>2 DEF Holding
  <2> QED BY <2>1, <2>2
<1>5. Holding(s) /\ Holding(t) => Holding(s \o t)
  BY <1>4 DEF Holding
<1>6. ASSUME NEW i \in DOMAIN (s \o t) PROVE Ending((s \o t)[i])
  <2>1. CASE i <= Len(s)
    <3>1. i \in 1..Len(s)
      BY <1>1, <1>2, <2>1
    <3> QED BY <1>1, <1>2, <3>1 DEF Listed
  <2>2. CASE ~(i <= Len(s))
    <3>1. i - Len(s) \in 1..Len(t) /\ Len(s) + (i - Len(s)) = i
      BY <1>1, <1>2, <2>2
    <3>2. (s \o t)[Len(s) + (i - Len(s))] = t[i - Len(s)]
      BY <1>1, <3>1
    <3> QED BY <1>2, <3>1, <3>2 DEF Listed
  <2> QED BY <2>1, <2>2
<1>7. Listed(s \o t)
  <2> DEFINE j == s \o t
             n == Len(s) + Len(t)
  <2>1. j \in Seq(T) /\ Len(j) = n /\ n \in Nat
    BY <1>1
  <2> HIDE DEF j, n
  <2>4. j = [i \in 1..n |-> j[i]] /\ DOMAIN j = 1..n
    BY <2>1
  <2>2. \A i \in 1..n : Ending(j[i])
    BY <1>6, <2>4 DEF j
  <2>3. Listed(j)
    BY <2>1, <2>2, <2>4, TuplesAreListed
  <2> QED BY <2>3 DEF j
<1> QED BY <1>3, <1>5, <1>7

\* The lists of each kind of package.
LEMMA SwmListed ==
  ASSUME NEW p
  PROVE  /\ Listed(SwmChecks(p))
         /\ Holding(SwmChecks(p)) <=> /\ ModelPath(p) # "missing" /\ Summary(p) = "ok" /\ ~ModelError(p) /\ ResolveBrain(p) = "ok"
                                     /\ p.classes \in {0, p.outputs}
<1> DEFINE s == SwmChecks(p)
<1>1. s = [i \in 1..3 |-> s[i]] /\ \A i \in 1..3 : Ending(s[i])
  <2>1. s = [i \in 1..3 |-> s[i]]
    BY DEF SwmChecks
  <2>2. /\ Ending(s[1]) /\ Ending(s[2]) /\ Ending(s[3])
    BY DEF SwmChecks, Must, Check, Ending
  <2>3. 1..3 = {1, 2, 3}
    OBVIOUS
  <2> HIDE DEF s
  <2> QED BY <2>1, <2>2, <2>3
<1>2. DOMAIN s = {1, 2, 3}
  BY DEF SwmChecks
<1>3. /\ s[1].ends /\ (s[1].holds <=> ModelPath(p) # "missing")
      /\ s[2].ends /\ (s[2].holds <=> Summary(p) = "ok" /\ ~ModelError(p) /\ ResolveBrain(p) = "ok")
      /\ s[3].ends /\ (s[3].holds <=> p.classes \in {0, p.outputs})
  BY DEF SwmChecks, Must, Check
<1> HIDE DEF s
<1>4. Listed(s)
  BY <1>1, TuplesAreListed
<1>5. Holding(s) <=> s[1].holds /\ s[2].holds /\ s[3].holds
  BY <1>2, <1>3 DEF Holding
<1> QED BY <1>3, <1>4, <1>5 DEF s

LEMMA PythonListed ==
  ASSUME NEW p
  PROVE  /\ Listed(PythonChecks(p))
         /\ Holding(PythonChecks(p)) <=> /\ p.parses /\ LoadClass(p) = "ok" /\ Options(p) = "ok"
                                        /\ Instantiate(p) = "ok" /\ p.honest_cost
         /\ DOMAIN PythonChecks(p) = 1..5
         /\ \A i \in 1..5 : PythonChecks(p)[i].name \in {"deploy", "portability"} =>
               (PythonChecks(p)[i].holds <=> "swarm" \notin ScanImports(p))
<1> DEFINE s == PythonChecks(p)
<1>1. s = [i \in 1..5 |-> s[i]] /\ \A i \in 1..5 : Ending(s[i])
  <2>1. s = [i \in 1..5 |-> s[i]]
    BY DEF PythonChecks
  <2>2. /\ Ending(s[1]) /\ Ending(s[2]) /\ Ending(s[3]) /\ Ending(s[4]) /\ Ending(s[5])
    BY DEF PythonChecks, Must, Should, Check, Ending
  <2>3. 1..5 = {1, 2, 3, 4, 5}
    OBVIOUS
  <2> HIDE DEF s
  <2> QED BY <2>1, <2>2, <2>3
<1>2. DOMAIN s = {1, 2, 3, 4, 5} /\ DOMAIN s = 1..5
  BY DEF PythonChecks
<1>3. /\ s[1].ends /\ (s[1].holds <=> p.parses)
      /\ s[2].ends /\ (s[2].holds <=> LoadClass(p) = "ok" /\ Options(p) = "ok" /\ Instantiate(p) = "ok")
      /\ ~s[3].ends /\ s[4].ends /\ (s[4].holds <=> p.honest_cost)
      /\ ~s[5].ends /\ (s[5].holds <=> "swarm" \notin ScanImports(p))
      /\ s[1].name = "syntax" /\ s[2].name = "load" /\ s[3].name = "classes" /\ s[4].name = "cost"
  BY DEF PythonChecks, Must, Should, Check
<1> HIDE DEF s
<1>4. Listed(s)
  BY <1>1, TuplesAreListed
<1>5. Holding(s) <=> s[1].holds /\ s[2].holds /\ s[4].holds
  BY <1>2, <1>3 DEF Holding
<1>6. \A i \in 1..5 : s[i].name \in {"deploy", "portability"} => i = 5
  BY <1>2, <1>3
<1> QED BY <1>2, <1>3, <1>4, <1>5, <1>6 DEF s

LEMMA BehaviourListed ==
  ASSUME NEW p
  PROVE  /\ Listed(BehaviourChecks(p))
         /\ Holding(BehaviourChecks(p)) => p.channels = 1 /\ p.square /\ p.outputs >= 2
         /\ DOMAIN BehaviourChecks(p) = 1..9
         /\ \A i \in 1..9 : BehaviourChecks(p)[i].name \in {"deploy", "portability"} =>
               (BehaviourChecks(p)[i].holds <=> Format(p) = "swm")
<1> DEFINE s == BehaviourChecks(p)
<1>1. s = [i \in 1..9 |-> s[i]] /\ \A i \in 1..9 : Ending(s[i])
  <2>1. s = [i \in 1..9 |-> s[i]]
    BY DEF BehaviourChecks
  <2>2. /\ Ending(s[1]) /\ Ending(s[2]) /\ Ending(s[3]) /\ Ending(s[4]) /\ Ending(s[5])
           /\ Ending(s[6]) /\ Ending(s[7]) /\ Ending(s[8]) /\ Ending(s[9])
    BY DEF BehaviourChecks, Must, Should, Check, Ending
  <2>3. 1..9 = {1, 2, 3, 4, 5, 6, 7, 8, 9}
    OBVIOUS
  <2> HIDE DEF s
  <2> QED BY <2>1, <2>2, <2>3
<1>2. DOMAIN s = {1, 2, 3, 4, 5, 6, 7, 8, 9} /\ DOMAIN s = 1..9
  BY DEF BehaviourChecks
<1>3. /\ s[1].ends /\ (s[1].holds <=> p.channels = 1)
      /\ s[2].ends /\ (s[2].holds <=> p.square)
      /\ s[3].ends /\ (s[3].holds <=> p.outputs >= 2)
      /\ s[9].holds <=> Format(p) = "swm"
  BY DEF BehaviourChecks, Must, Should, Check
<1>4. /\ s[1].name = "input" /\ s[2].name = "input" /\ s[3].name = "classes" /\ s[4].name = "classes"
      /\ s[5].name = "inference" /\ s[6].name = "outputs" /\ s[7].name = "determinism" /\ s[8].name = "accuracy"
  BY DEF BehaviourChecks, Must, Should, Check
<1> HIDE DEF s
<1>5. Listed(s)
  BY <1>1, TuplesAreListed
<1>6. Holding(s) => s[1].holds /\ s[2].holds /\ s[3].holds
  BY <1>2, <1>3 DEF Holding
<1>7. \A i \in 1..9 : s[i].name \in {"deploy", "portability"} => i = 9
  BY <1>2, <1>4
<1> QED BY <1>2, <1>3, <1>5, <1>6, <1>7 DEF s

LEMMA TacticListed ==
  ASSUME NEW p
  PROVE  /\ Listed(TacticChecks(p))
         /\ Holding(TacticChecks(p)) => Register(p) = "ok"
         /\ DOMAIN TacticChecks(p) = 1..13
         /\ \A i \in 1..13 : TacticChecks(p)[i].name \notin {"deploy", "portability"}
<1> DEFINE s == TacticChecks(p)
<1>1. s = [i \in 1..13 |-> s[i]] /\ \A i \in 1..13 : Ending(s[i])
  <2>1. s = [i \in 1..13 |-> s[i]]
    BY DEF TacticChecks
  <2>2. /\ Ending(s[1]) /\ Ending(s[2]) /\ Ending(s[3]) /\ Ending(s[4]) /\ Ending(s[5])
           /\ Ending(s[6]) /\ Ending(s[7]) /\ Ending(s[8]) /\ Ending(s[9]) /\ Ending(s[10])
           /\ Ending(s[11]) /\ Ending(s[12]) /\ Ending(s[13])
    BY DEF TacticChecks, Must, Should, Check, Ending
  <2>3. 1..13 = {1, 2, 3, 4, 5, 6, 7, 8, 9, 10, 11, 12, 13}
    OBVIOUS
  <2> HIDE DEF s
  <2> QED BY <2>1, <2>2, <2>3
<1>2. DOMAIN s = {1, 2, 3, 4, 5, 6, 7, 8, 9, 10, 11, 12, 13} /\ DOMAIN s = 1..13
  BY DEF TacticChecks
<1>3. s[7].ends /\ (s[7].holds <=> Register(p) = "ok")
  BY DEF TacticChecks, Must, Should, Check
<1>4. /\ s[1].name = "syntax" /\ s[2].name = "load" /\ s[3].name = "load" /\ s[4].name = "load" /\ s[5].name = "name"
      /\ s[6].name = "hooks" /\ s[7].name = "register" /\ s[8].name = "smoke run" /\ s[9].name = "smoke run"
      /\ s[10].name = "mission" /\ s[11].name = "determinism" /\ s[12].name = "physics" /\ s[13].name = "recovery"
  BY DEF TacticChecks, Must, Should, Check
<1> HIDE DEF s
<1>5. Listed(s)
  BY <1>1, TuplesAreListed
<1>6. Holding(s) => s[7].holds
  BY <1>2, <1>3 DEF Holding
<1>7. \A i \in 1..13 : s[i].name \notin {"deploy", "portability"}
  BY <1>2, <1>4
<1> QED BY <1>2, <1>3, <1>5, <1>6, <1>7 DEF s

LEMMA PolicyListed ==
  ASSUME NEW p
  PROVE  /\ Listed(PolicyChecks(p))
         /\ Holding(PolicyChecks(p)) => MakePolicy(p) = "ok"
         /\ DOMAIN PolicyChecks(p) = 1..6
         /\ \A i \in 1..6 : PolicyChecks(p)[i].name \in {"deploy", "portability"} =>
               (PolicyChecks(p)[i].holds <=> p.format = "npz")
<1> DEFINE s == PolicyChecks(p)
<1>1. s = [i \in 1..6 |-> s[i]] /\ \A i \in 1..6 : Ending(s[i])
  <2>1. s = [i \in 1..6 |-> s[i]]
    BY DEF PolicyChecks
  <2>2. /\ Ending(s[1]) /\ Ending(s[2]) /\ Ending(s[3]) /\ Ending(s[4]) /\ Ending(s[5])
           /\ Ending(s[6])
    BY DEF PolicyChecks, Must, Should, Check, Ending
  <2>3. 1..6 = {1, 2, 3, 4, 5, 6}
    OBVIOUS
  <2> HIDE DEF s
  <2> QED BY <2>1, <2>2, <2>3
<1>2. DOMAIN s = {1, 2, 3, 4, 5, 6} /\ DOMAIN s = 1..6
  BY DEF PolicyChecks
<1>3. /\ s[2].ends /\ (s[2].holds <=> MakePolicy(p) = "ok")
      /\ s[6].holds <=> p.format = "npz"
      /\ s[1].name = "syntax" /\ s[2].name = "load" /\ s[3].name = "act" /\ s[4].name = "determinism"
      /\ s[5].name = "compute"
  BY DEF PolicyChecks, Must, Should, Check
<1> HIDE DEF s
<1>5. Listed(s)
  BY <1>1, TuplesAreListed
<1>6. Holding(s) => s[2].holds
  BY <1>2, <1>3 DEF Holding
<1>7. \A i \in 1..6 : s[i].name \in {"deploy", "portability"} => i = 6
  BY <1>2, <1>3
<1> QED BY <1>2, <1>3, <1>5, <1>6, <1>7 DEF s

\* A check of two lists joined is one of either.
LEMMA InEither ==
  ASSUME NEW s, Listed(s), NEW t, Listed(t), NEW k \in DOMAIN (s \o t)
  PROVE  \/ \E i \in DOMAIN s : (s \o t)[k] = s[i]
         \/ \E i \in DOMAIN t : (s \o t)[k] = t[i]
<1> DEFINE T == {s[i] : i \in DOMAIN s} \cup {t[i] : i \in DOMAIN t}
<1>1. s \in Seq(T) /\ t \in Seq(T)
  <2>1. s \in Seq({s[i] : i \in DOMAIN s}) /\ t \in Seq({t[i] : i \in DOMAIN t})
    BY DEF Listed
  <2>2. {s[i] : i \in DOMAIN s} \subseteq T /\ {t[i] : i \in DOMAIN t} \subseteq T
    OBVIOUS
  <2> QED BY <2>1, <2>2, SeqMonotonic
<1> HIDE DEF T
<1>2. /\ Len(s \o t) = Len(s) + Len(t) /\ Len(s) \in Nat /\ Len(t) \in Nat
      /\ \A i \in 1..Len(s) : (s \o t)[i] = s[i]
      /\ \A j \in 1..Len(t) : (s \o t)[Len(s) + j] = t[j]
      /\ s \o t \in Seq(T)
  BY <1>1, Appended
<1>3. DOMAIN s = 1..Len(s) /\ DOMAIN t = 1..Len(t) /\ k \in 1..(Len(s) + Len(t))
  BY <1>1, <1>2
<1>4. CASE k <= Len(s)
  <2>1. k \in 1..Len(s)
    BY <1>2, <1>3, <1>4
  <2> QED BY <1>2, <1>3, <2>1
<1>5. CASE ~(k <= Len(s))
  <2>1. k - Len(s) \in 1..Len(t) /\ Len(s) + (k - Len(s)) = k
    BY <1>2, <1>3, <1>5
  <2>2. (s \o t)[Len(s) + (k - Len(s))] = t[k - Len(s)]
    BY <1>2, <2>1
  <2> QED BY <1>3, <2>1, <2>2
<1> QED BY <1>4, <1>5

\* A manifest's report goes on to the checks of its type when it is accepted.
LEMMA ValidateListed ==
  ASSUME NEW p
  PROVE  LET first == <<Must("manifest", CheckManifest(p))>>
             rest == IF ~CheckManifest(p) THEN <<>>
                     ELSE CASE p.type = "perception" ->
                                  (IF Format(p) = "swm" THEN SwmChecks(p) ELSE PythonChecks(p)) \o BehaviourChecks(p)
                            [] p.type = "policy" -> PolicyChecks(p)
                            [] OTHER -> TacticChecks(p)
         IN  /\ Validate(p) = Report(first \o rest)
             /\ Listed(first) /\ Listed(rest) /\ Listed(first \o rest)
             /\ Holding(first \o rest) <=> CheckManifest(p) /\ Holding(rest)
<1> DEFINE first == <<Must("manifest", CheckManifest(p))>>
           rest == IF ~CheckManifest(p) THEN <<>>
                   ELSE CASE p.type = "perception" ->
                                (IF Format(p) = "swm" THEN SwmChecks(p) ELSE PythonChecks(p)) \o BehaviourChecks(p)
                          [] p.type = "policy" -> PolicyChecks(p)
                          [] OTHER -> TacticChecks(p)
<1>1. Validate(p) = Report(first \o rest)
  BY DEF Validate
<1>2. Listed(first) /\ (Holding(first) <=> CheckManifest(p))
  <2>1. first = [i \in 1..1 |-> first[i]] /\ DOMAIN first = 1..1
    OBVIOUS
  <2>2. Ending(first[1]) /\ first[1].ends /\ (first[1].holds <=> CheckManifest(p))
    BY DEF Must, Check, Ending
  <2> HIDE DEF first
  <2>3. \A i \in 1..1 : i = 1
    OBVIOUS
  <2>4. Listed(first)
    BY <2>1, <2>2, <2>3, TuplesAreListed
  <2> QED BY <2>1, <2>2, <2>3, <2>4 DEF Holding
<1>3. Listed(rest)
  <2>1. CASE ~CheckManifest(p)
    <3>1. rest = <<>>
      BY <2>1
    <3> DEFINE none == <<>>
    <3>2. none = [i \in 1..0 |-> none[i]] /\ \A i \in 1..0 : Ending(none[i])
      OBVIOUS
    <3> HIDE DEF none
    <3>3. Listed(none)
      BY <3>2, TuplesAreListed
    <3> QED BY <3>1, <3>3 DEF none
  <2>2. CASE CheckManifest(p)
    <3>1. CASE p.type = "perception"
      <4>1. Listed(IF Format(p) = "swm" THEN SwmChecks(p) ELSE PythonChecks(p))
        BY SwmListed, PythonListed
      <4>2. Listed((IF Format(p) = "swm" THEN SwmChecks(p) ELSE PythonChecks(p)) \o BehaviourChecks(p))
        BY <4>1, BehaviourListed, ListsAreJoined
      <4> QED BY <2>2, <3>1, <4>2
    <3>2. CASE p.type = "policy"
      <4>1. Listed(PolicyChecks(p))
        BY PolicyListed
      <4> QED BY <2>2, <3>2, <4>1
    <3>3. CASE p.type # "perception" /\ p.type # "policy"
      <4>1. Listed(TacticChecks(p))
        BY TacticListed
      <4> QED BY <2>2, <3>3, <4>1
    <3> QED BY <3>1, <3>2, <3>3
  <2> QED BY <2>1, <2>2
<1> HIDE DEF first, rest
<1>4. Listed(first \o rest) /\ (Holding(first \o rest) <=> Holding(first) /\ Holding(rest))
  BY <1>2, <1>3, ListsAreJoined
<1>5. /\ Validate(p) = Report(first \o rest)
      /\ Listed(first) /\ Listed(rest) /\ Listed(first \o rest)
      /\ Holding(first \o rest) <=> CheckManifest(p) /\ Holding(rest)
  BY <1>1, <1>2, <1>3, <1>4
<1> QED BY <1>5 DEF first, rest

\* What a report without a fail says of each type of package.
LEMMA ValidHolds ==
  ASSUME NEW p, NoFail(Validate(p))
  PROVE  /\ CheckManifest(p)
         /\ p.type = "perception" /\ Format(p) = "swm" => Holding(SwmChecks(p)) /\ Holding(BehaviourChecks(p))
         /\ p.type = "perception" /\ Format(p) # "swm" => Holding(PythonChecks(p)) /\ Holding(BehaviourChecks(p))
         /\ p.type = "policy" => Holding(PolicyChecks(p))
         /\ p.type = "tactic" => Holding(TacticChecks(p))
<1> DEFINE first == <<Must("manifest", CheckManifest(p))>>
           rest == IF ~CheckManifest(p) THEN <<>>
                   ELSE CASE p.type = "perception" ->
                                (IF Format(p) = "swm" THEN SwmChecks(p) ELSE PythonChecks(p)) \o BehaviourChecks(p)
                          [] p.type = "policy" -> PolicyChecks(p)
                          [] OTHER -> TacticChecks(p)
<1>1. /\ Validate(p) = Report(first \o rest) /\ Listed(first \o rest)
      /\ Holding(first \o rest) <=> CheckManifest(p) /\ Holding(rest)
  BY ValidateListed
<1> HIDE DEF first, rest
<1>2. CheckManifest(p) /\ Holding(rest)
  BY <1>1, NoFailIsHolding
<1>3. ASSUME p.type = "perception", Format(p) = "swm" PROVE Holding(SwmChecks(p)) /\ Holding(BehaviourChecks(p))
  <2>1. rest = SwmChecks(p) \o BehaviourChecks(p)
    BY <1>2, <1>3 DEF rest
  <2> QED BY <1>2, <2>1, SwmListed, BehaviourListed, ListsAreJoined
<1>4. ASSUME p.type = "perception", Format(p) # "swm" PROVE Holding(PythonChecks(p)) /\ Holding(BehaviourChecks(p))
  <2>1. rest = PythonChecks(p) \o BehaviourChecks(p)
    BY <1>2, <1>4 DEF rest
  <2> QED BY <1>2, <2>1, PythonListed, BehaviourListed, ListsAreJoined
<1>5. ASSUME p.type = "policy" PROVE Holding(PolicyChecks(p))
  BY <1>2, <1>5 DEF rest
<1>6. ASSUME p.type = "tactic" PROVE Holding(TacticChecks(p))
  BY <1>2, <1>6 DEF rest
<1> QED BY <1>2, <1>3, <1>4, <1>5, <1>6

\* A package that validate finds nothing wrong with can be used (sdk/validate.py).
THEOREM ValidPackagesWork ==
  ASSUME NEW p, PackageForm(p)
  PROVE  ValidIsUsable(p)
<1> SUFFICES ASSUME NoFail(Validate(p))
             PROVE  /\ Use(p) = "ok"
                    /\ p.type = "perception" =>
                          /\ p.channels = 1 /\ p.square /\ p.outputs >= 2
                          /\ Format(p) = "swm" => p.classes \in {0, p.outputs}
  BY DEF ValidIsUsable
<1>1. /\ CheckManifest(p)
      /\ p.type = "perception" /\ Format(p) = "swm" => Holding(SwmChecks(p)) /\ Holding(BehaviourChecks(p))
      /\ p.type = "perception" /\ Format(p) # "swm" => Holding(PythonChecks(p)) /\ Holding(BehaviourChecks(p))
      /\ p.type = "policy" => Holding(PolicyChecks(p))
      /\ p.type = "tactic" => Holding(TacticChecks(p))
  BY ValidHolds
<1>2. p.type \in {"perception", "tactic", "policy"} /\ (p.type = "perception" => p.format \in {"python", "swm"})
  BY <1>1 DEF CheckManifest
<1>3. CASE p.type = "perception" /\ Format(p) = "swm"
  <2>1. ~ModelError(p) /\ ResolveBrain(p) = "ok" /\ p.classes \in {0, p.outputs}
    BY <1>1, <1>3, SwmListed
  <2>2. p.channels = 1 /\ p.square /\ p.outputs >= 2
    BY <1>1, <1>3, BehaviourListed
  <2>3. MakeBrain(p) = "ok"
    BY <1>3, <2>1, TwoInOrder DEF MakeBrain
  <2> QED BY <1>3, <2>1, <2>2, <2>3 DEF Use
<1>4. CASE p.type = "perception" /\ Format(p) # "swm"
  <2>1. LoadClass(p) = "ok" /\ Options(p) = "ok" /\ Instantiate(p) = "ok"
    BY <1>1, <1>4, PythonListed
  <2>2. p.channels = 1 /\ p.square /\ p.outputs >= 2
    BY <1>1, <1>4, BehaviourListed
  <2>3. Format(p) = "python"
    BY <1>2, <1>4 DEF Format
  <2>4. ResolveBrain(p) = "ok"
    BY <1>4, <2>1, <2>3, TwoInOrder DEF ResolveBrain
  <2>5. MakeBrain(p) = "ok"
    BY <2>1, <2>3, <2>4, TwoInOrder DEF MakeBrain
  <2> QED BY <1>4, <2>2, <2>5 DEF Use
<1>5. CASE p.type = "policy"
  BY <1>1, <1>5, PolicyListed DEF Use
<1>6. CASE p.type = "tactic"
  BY <1>1, <1>6, TacticListed DEF Use
<1> QED BY <1>2, <1>3, <1>4, <1>5, <1>6

\* The list of an export.
LEMMA ExportListed ==
  ASSUME NEW p
  PROVE  LET first == <<Must("manifest", CheckManifest(p)), Must("simulator only", p.type # "tactic")>>
             rest == IF p.type = "policy" THEN ExportPolicy(p)
                     ELSE IF Format(p) = "swm" THEN ExportSwm(p) ELSE ExportPython(p)
         IN  /\ ExportForDevice(p) = Report(first \o rest) /\ Listed(first \o rest)
             /\ Holding(first \o rest) <=> /\ CheckManifest(p) /\ p.type # "tactic" /\ rest[1].holds
                                           /\ rest[2].holds /\ p.destination # "full"
             /\ DOMAIN (first \o rest) = 1..5
             /\ \A i \in 1..5 : (first \o rest)[i].ends
             /\ \A i \in 1..4 : (first \o rest)[i].name # "fresh"
             /\ (first \o rest)[3].holds <=> rest[1].holds
             /\ (first \o rest)[4].holds <=> rest[2].holds
<1> DEFINE first == <<Must("manifest", CheckManifest(p)), Must("simulator only", p.type # "tactic")>>
           rest == IF p.type = "policy" THEN ExportPolicy(p)
                   ELSE IF Format(p) = "swm" THEN ExportSwm(p) ELSE ExportPython(p)
           all == first \o rest
<1>1. ExportForDevice(p) = Report(all)
  BY DEF ExportForDevice
<1>2. /\ DOMAIN rest = {1, 2, 3} /\ rest = [i \in 1..3 |-> rest[i]]
      /\ Ending(rest[1]) /\ Ending(rest[2]) /\ Ending(rest[3])
      /\ rest[1].ends /\ rest[2].ends /\ rest[3].ends /\ (rest[3].holds <=> p.destination # "full")
      /\ rest[1].name # "fresh" /\ rest[2].name # "fresh"
  <2>1. CASE p.type = "policy"
    <3>1. rest = ExportPolicy(p)
      BY <2>1
    <3> HIDE DEF rest
    <3>2. DOMAIN rest = {1, 2, 3} /\ rest = [i \in 1..3 |-> rest[i]]
      BY <3>1 DEF ExportPolicy
    <3>3. /\ Ending(rest[1]) /\ Ending(rest[2]) /\ Ending(rest[3])
          /\ rest[1].ends /\ rest[2].ends /\ rest[3].ends /\ (rest[3].holds <=> p.destination # "full")
          /\ rest[1].name # "fresh" /\ rest[2].name # "fresh"
      BY <3>1 DEF ExportPolicy, FreshDir, Must, Check, Ending
    <3> QED BY <3>2, <3>3
  <2>2. CASE p.type # "policy" /\ Format(p) = "swm"
    <3>1. rest = ExportSwm(p)
      BY <2>2
    <3> HIDE DEF rest
    <3>2. DOMAIN rest = {1, 2, 3} /\ rest = [i \in 1..3 |-> rest[i]]
      BY <3>1 DEF ExportSwm
    <3>3. /\ Ending(rest[1]) /\ Ending(rest[2]) /\ Ending(rest[3])
          /\ rest[1].ends /\ rest[2].ends /\ rest[3].ends /\ (rest[3].holds <=> p.destination # "full")
          /\ rest[1].name # "fresh" /\ rest[2].name # "fresh"
      BY <3>1 DEF ExportSwm, FreshDir, Must, Check, Ending
    <3> QED BY <3>2, <3>3
  <2>3. CASE p.type # "policy" /\ Format(p) # "swm"
    <3>1. rest = ExportPython(p)
      BY <2>3
    <3> HIDE DEF rest
    <3>2. DOMAIN rest = {1, 2, 3} /\ rest = [i \in 1..3 |-> rest[i]]
      BY <3>1 DEF ExportPython
    <3>3. /\ Ending(rest[1]) /\ Ending(rest[2]) /\ Ending(rest[3])
          /\ rest[1].ends /\ rest[2].ends /\ rest[3].ends /\ (rest[3].holds <=> p.destination # "full")
          /\ rest[1].name # "fresh" /\ rest[2].name # "fresh"
      BY <3>1 DEF ExportPython, FreshDir, Must, Check, Ending
    <3> QED BY <3>2, <3>3
  <2> QED BY <2>1, <2>2, <2>3
<1>3. /\ DOMAIN first = {1, 2} /\ first = [i \in 1..2 |-> first[i]]
      /\ Ending(first[1]) /\ Ending(first[2]) /\ first[1].ends /\ first[2].ends
      /\ (first[1].holds <=> CheckManifest(p)) /\ (first[2].holds <=> p.type # "tactic")
      /\ first[1].name # "fresh" /\ first[2].name # "fresh"
  <2>1. DOMAIN first = {1, 2} /\ first = [i \in 1..2 |-> first[i]]
    OBVIOUS
  <2>2. /\ Ending(first[1]) /\ Ending(first[2]) /\ first[1].ends /\ first[2].ends
        /\ (first[1].holds <=> CheckManifest(p)) /\ (first[2].holds <=> p.type # "tactic")
        /\ first[1].name # "fresh" /\ first[2].name # "fresh"
    BY DEF Must, Check, Ending
  <2> QED BY <2>1, <2>2
<1> HIDE DEF first, rest
<1>4. Listed(first)
  <2>1. 1..2 = {1, 2}
    OBVIOUS
  <2> QED BY <1>3, <2>1, TuplesAreListed
<1>5. Listed(rest)
  <2>1. 1..3 = {1, 2, 3}
    OBVIOUS
  <2> QED BY <1>2, <2>1, TuplesAreListed
<1>6. Listed(all) /\ (Holding(all) <=> Holding(first) /\ Holding(rest))
  BY <1>4, <1>5, ListsAreJoined
<1>7. /\ Holding(first) <=> first[1].holds /\ first[2].holds
      /\ Holding(rest) <=> rest[1].holds /\ rest[2].holds /\ rest[3].holds
  BY <1>2, <1>3 DEF Holding
<1>8. /\ DOMAIN all = 1..5 /\ all[1] = first[1] /\ all[2] = first[2]
      /\ all[3] = rest[1] /\ all[4] = rest[2] /\ all[5] = rest[3]
  <2>1. Len(first) = 2 /\ Len(rest) = 3
    BY <1>2, <1>3
  <2> DEFINE T == {first[i] : i \in 1..2} \cup {rest[i] : i \in 1..3}
  <2>2. first \in Seq(T) /\ rest \in Seq(T)
    BY <1>2, <1>3
  <2> HIDE DEF T
  <2>3. /\ all \in Seq(T) /\ Len(all) = Len(first) + Len(rest)
        /\ \A k \in 1..Len(first) : all[k] = first[k]
        /\ \A j \in 1..Len(rest) : all[Len(first) + j] = rest[j]
    BY <2>2, Appended
  <2> HIDE DEF all
  <2>4. DOMAIN all = 1..5
    BY <2>1, <2>3
  <2>5. all[1] = first[1] /\ all[2] = first[2]
    BY <2>1, <2>3
  <2>6. all[2 + 1] = rest[1] /\ all[2 + 2] = rest[2] /\ all[2 + 3] = rest[3]
    BY <2>1, <2>3
  <2> QED BY <2>4, <2>5, <2>6
<1> HIDE DEF all
<1>9. (\A i \in 1..5 : all[i].ends) /\ \A i \in 1..4 : all[i].name # "fresh"
  <2>1. 1..5 = {1, 2, 3, 4, 5} /\ 1..4 = {1, 2, 3, 4}
    OBVIOUS
  <2> QED BY <1>2, <1>3, <1>8, <2>1
<1> QED BY <1>1, <1>2, <1>3, <1>6, <1>7, <1>8, <1>9 DEF all, first, rest

\* What a report says of devices, an export keeps (sdk/export.py).
THEOREM ExportsKeepTheirWord ==
  ASSUME NEW p, PackageForm(p)
  PROVE  ExportKeepsClaim(p)
<1> DEFINE first == <<Must("manifest", CheckManifest(p)), Must("simulator only", p.type # "tactic")>>
           rest == IF p.type = "policy" THEN ExportPolicy(p)
                   ELSE IF Format(p) = "swm" THEN ExportSwm(p) ELSE ExportPython(p)
           all == first \o rest
<1>1. /\ ExportForDevice(p) = Report(all) /\ Listed(all)
      /\ Holding(all) <=> /\ CheckManifest(p) /\ p.type # "tactic" /\ rest[1].holds
                          /\ rest[2].holds /\ p.destination # "full"
      /\ DOMAIN all = 1..5
      /\ \A i \in 1..5 : all[i].ends
      /\ \A i \in 1..4 : all[i].name # "fresh"
  BY ExportListed
<1> HIDE DEF first, all
<1>2. NoFail(ExportForDevice(p)) <=> Holding(all)
  BY <1>1, NoFailIsHolding
<1>3. /\ p.type = "policy" => /\ rest[1].holds <=> p.format = "npz"
                              /\ rest[2].holds <=> MakePolicy(p) = "ok"
      /\ p.type # "policy" /\ Format(p) = "swm" => /\ rest[1].holds <=> ModelPath(p) # "missing"
                                                 /\ rest[2].holds <=> ~ModelError(p)
      /\ p.type # "policy" /\ Format(p) # "swm" => /\ rest[1].holds <=> p.parses
                                                 /\ rest[2].holds <=> "swarm" \notin ScanImports(p)
  BY DEF ExportPolicy, ExportSwm, ExportPython, Must, Check
<1> HIDE DEF rest
<1>4. ASSUME NoFail(Validate(p)), p.destination # "full", NEW check \in {"deploy", "portability"},
             <<"pass", check>> \in Validate(p)
      PROVE  NoFail(ExportForDevice(p))
  <2> DEFINE head == <<Must("manifest", CheckManifest(p))>>
             tail == IF ~CheckManifest(p) THEN <<>>
                     ELSE CASE p.type = "perception" ->
                                  (IF Format(p) = "swm" THEN SwmChecks(p) ELSE PythonChecks(p)) \o BehaviourChecks(p)
                            [] p.type = "policy" -> PolicyChecks(p)
                            [] OTHER -> TacticChecks(p)
             lines == head \o tail
  <2>1. Validate(p) = Report(lines) /\ Listed(head) /\ Listed(tail) /\ Listed(lines)
    BY ValidateListed
  <2>2. head[1].name = "manifest" /\ DOMAIN head = {1}
    BY DEF Must, Check
  <2> HIDE DEF head, tail, lines
  <2>3. PICK k \in DOMAIN lines : lines[k].holds /\ lines[k].name = check
    BY <1>4, <2>1, PassedIsHolding
  <2>4. PICK i \in DOMAIN tail : lines[k] = tail[i]
    BY <2>1, <2>2, <2>3, InEither DEF lines
  <2>5. tail[i].holds /\ tail[i].name \in {"deploy", "portability"}
    BY <1>4, <2>3, <2>4
  <2>6. /\ CheckManifest(p)
        /\ p.type = "perception" /\ Format(p) = "swm" => Holding(SwmChecks(p)) /\ Holding(BehaviourChecks(p))
        /\ p.type = "perception" /\ Format(p) # "swm" => Holding(PythonChecks(p)) /\ Holding(BehaviourChecks(p))
        /\ p.type = "policy" => Holding(PolicyChecks(p))
        /\ p.type = "tactic" => Holding(TacticChecks(p))
    BY <1>4, ValidHolds
  <2>7. p.type \in {"perception", "tactic", "policy"}
    BY <2>6 DEF CheckManifest
  <2>8. CASE p.type = "tactic"
    <3>1. tail = TacticChecks(p)
      BY <2>6, <2>8 DEF tail
    <3> QED BY <2>5, <3>1, TacticListed
  <2>9. CASE p.type = "policy"
    <3>1. tail = PolicyChecks(p)
      BY <2>6, <2>9 DEF tail
    <3>2. p.format = "npz" /\ MakePolicy(p) = "ok"
      BY <2>5, <2>6, <2>9, <3>1, PolicyListed
    <3> QED BY <1>1, <1>2, <1>3, <1>4, <2>6, <2>9, <3>2
  <2>10. CASE p.type = "perception" /\ Format(p) = "swm"
    <3>1. ModelPath(p) # "missing" /\ ~ModelError(p)
      BY <2>6, <2>10, SwmListed
    <3> QED BY <1>1, <1>2, <1>3, <1>4, <2>6, <2>10, <3>1
  <2>11. CASE p.type = "perception" /\ Format(p) # "swm"
    <3>1. tail = PythonChecks(p) \o BehaviourChecks(p)
      BY <2>6, <2>11 DEF tail
    <3>2. \/ \E j \in DOMAIN PythonChecks(p) : tail[i] = PythonChecks(p)[j]
          \/ \E j \in DOMAIN BehaviourChecks(p) : tail[i] = BehaviourChecks(p)[j]
      BY <3>1, PythonListed, BehaviourListed, InEither
    <3>3. p.parses /\ "swarm" \notin ScanImports(p)
      BY <2>5, <2>6, <2>11, <3>2, PythonListed, BehaviourListed
    <3> QED BY <1>1, <1>2, <1>3, <1>4, <2>6, <2>11, <3>3
  <2> QED BY <2>7, <2>8, <2>9, <2>10, <2>11
<1>5. ASSUME <<"pass", "fresh">> \in ExportForDevice(p) PROVE NoFail(ExportForDevice(p))
  <2>1. PICK i \in DOMAIN all : /\ all[i].holds /\ all[i].name = "fresh"
                                /\ \A j \in 1..(i - 1) : ~(~all[j].holds /\ all[j].ends)
    BY <1>1, <1>5, PassedIsHolding
  <2>2. i = 5 /\ all[5].holds
    BY <1>1, <2>1
  <2>3. \A j \in 1..4 : all[j].holds
    BY <1>1, <2>1, <2>2
  <2>4. \A j \in 1..5 : j = 5 \/ j \in 1..4
    OBVIOUS
  <2>5. Holding(all)
    BY <1>1, <2>2, <2>3, <2>4 DEF Holding
  <2> QED BY <1>2, <2>5
<1> QED BY <1>4, <1>5 DEF ExportKeepsClaim

-----------------------------------------------------------------------------
(* Names.                                                                  *)

NameChars == {"a", "1", "_"}
\* What a slug is: it starts with a letter, ends with no "_", and fits.
Settled(s) ==
  /\ s \in Seq(NameChars) /\ Len(s) \in 1..MaxName
  /\ s[1] = "a" /\ s[Len(s)] # "_"

LEMMA Indexed ==
  ASSUME NEW T, NEW s \in Seq(T)
  PROVE  /\ DOMAIN s = 1..Len(s) /\ Len(s) \in Nat
         /\ \A i \in 1..Len(s) : s[i] \in T
         /\ s = <<>> <=> Len(s) = 0
         /\ Len(s) # 0 => Head(s) = s[1]
  OBVIOUS

\* The least and the largest of a set of numbers.
LEMMA LeastIs ==
  ASSUME NEW S, NEW m \in S, m \in Int, \A x \in S : x \in Int /\ m <= x
  PROVE  Min(S) = m
<1>1. \A y \in S : (\A x \in S : y <= x) => y = m
  OBVIOUS
<1> QED BY <1>1 DEF Min

LEMMA LargestIs ==
  ASSUME NEW S, NEW m \in S, m \in Int, \A x \in S : x \in Int /\ m >= x
  PROVE  Max(S) = m
<1>1. \A y \in S : (\A x \in S : y >= x) => y = m
  OBVIOUS
<1> QED BY <1>1 DEF Max

\* A piece of a sequence.
LEMMA PieceOf ==
  ASSUME NEW T, NEW s \in Seq(T), NEW m \in Nat, NEW n \in Nat, 1 <= m, m <= n, n <= Len(s)
  PROVE  /\ SubSeq(s, m, n) \in Seq(T) /\ Len(SubSeq(s, m, n)) = n - m + 1
         /\ \A i \in 1..(n - m + 1) : SubSeq(s, m, n)[i] = s[m + i - 1]
  OBVIOUS

LEMMA WholePiece ==
  ASSUME NEW T, NEW s \in Seq(T)
  PROVE  SubSeq(s, 1, Len(s)) = s
  OBVIOUS

\* Lower-case characters, runs of others squeezed.
LEMMA SqueezedChars ==
  ASSUME NEW text \in Seq(Letters)
  PROVE  Squeeze(text) \in Seq(NameChars)
<1> DEFINE n == Len(text)
           v == [i \in 1..n |-> Lower(text[i])]
           K == {i \in 1..n : ~InRun(text, i)}
<1>1. n \in Nat /\ DOMAIN text = 1..n /\ \A i \in 1..n : text[i] \in Letters
  OBVIOUS
<1>2. v \in [1..n -> NameChars]
  BY <1>1 DEF Letters, NameChars, Lower
<1>3. Squeeze(text) = KeptOf(n, v, K)
  <2>1. [i \in DOMAIN text |-> IF InRun(text, i) THEN <<>> ELSE <<Lower(text[i])>>]
          = [i \in 1..n |-> IF i \in K THEN <<v[i]>> ELSE <<>>]
    BY <1>1
  <2> QED BY <2>1 DEF Squeeze, KeptOf
<1>4. K \in SUBSET (1..n)
  OBVIOUS
<1> HIDE DEF n, v, K
<1> QED BY <1>1, <1>2, <1>3, <1>4, Selected

\* What holds no other character, and no upper-case letter, stays.
LEMMA NothingSqueezed ==
  ASSUME NEW s \in Seq(NameChars)
  PROVE  Squeeze(s) = s
<1> DEFINE n == Len(s)
           v == [i \in 1..n |-> s[i]]
           K == 1..n
<1>1. n \in Nat /\ DOMAIN s = 1..n /\ \A i \in 1..n : s[i] \in NameChars
  OBVIOUS
<1>2. v \in [1..n -> NameChars]
  BY <1>1
<1>3. Squeeze(s) = KeptOf(n, v, K)
  <2>1. \A i \in 1..n : ~InRun(s, i) /\ Lower(s[i]) = s[i]
    BY <1>1 DEF NameChars, InRun, Lower
  <2>2. [i \in DOMAIN s |-> IF InRun(s, i) THEN <<>> ELSE <<Lower(s[i])>>]
          = [i \in 1..n |-> IF i \in K THEN <<v[i]>> ELSE <<>>]
    BY <1>1, <2>1
  <2> QED BY <2>2 DEF Squeeze, KeptOf
<1>4. \A i \in 1..n : PlaceIn(K, i) = i
  <2> SUFFICES ASSUME NEW i \in 1..n PROVE PlaceIn(K, i) = i
    OBVIOUS
  <2>1. K \cap (1..i) = 1..i
    OBVIOUS
  <2>2. Cardinality(1..i) = i
    BY FS_Interval
  <2> QED BY <2>1, <2>2 DEF PlaceIn
<1>5. PlaceIn(K, n) = n
  <2>1. K \cap (1..n) = 1..n
    OBVIOUS
  <2>2. Cardinality(1..n) = n
    <3> HIDE DEF n
    <3>2. Cardinality(1..n) = IF 1 > n THEN 0 ELSE n - 1 + 1
      BY <1>1, FS_Interval
    <3> QED BY <1>1, <3>2
  <2> QED BY <2>1, <2>2 DEF PlaceIn
<1>6. /\ KeptOf(n, v, K) \in Seq(NameChars) /\ Len(KeptOf(n, v, K)) = PlaceIn(K, n)
      /\ \A i \in K : KeptOf(n, v, K)[PlaceIn(K, i)] = v[i]
  <2>1. K \in SUBSET (1..n)
    OBVIOUS
  <2> HIDE DEF n, v, K
  <2> QED BY <1>1, <1>2, <2>1, Selected
<1>7. Len(KeptOf(n, v, K)) = n /\ \A i \in 1..n : KeptOf(n, v, K)[i] = s[i]
  BY <1>4, <1>5, <1>6
<1> HIDE DEF n, v, K
<1> DEFINE t == KeptOf(n, v, K)
<1>8. t \in Seq(NameChars) /\ Len(t) = Len(s) /\ \A i \in 1..Len(s) : t[i] = s[i]
  BY <1>6, <1>7 DEF n
<1> HIDE DEF t
<1>9. t = s
  BY <1>8
<1> QED BY <1>3, <1>9 DEF t

\* Where the solid characters of a sequence are.
LEMMA SolidPlaces ==
  ASSUME NEW s \in Seq(NameChars)
  PROVE  /\ Solid(s) \subseteq 1..Len(s) /\ Len(s) \in Nat
         /\ Solid(s) # {} => /\ Min(Solid(s)) \in Solid(s) /\ Max(Solid(s)) \in Solid(s)
                             /\ Min(Solid(s)) <= Max(Solid(s))
<1>1. Solid(s) \in SUBSET (1..Len(s)) /\ Len(s) \in Nat
  <2>1. DOMAIN s = 1..Len(s) /\ Len(s) \in Nat
    BY Indexed
  <2> QED BY <2>1 DEF Solid
<1>2. ASSUME Solid(s) # {} PROVE Min(Solid(s)) \in Solid(s) /\ Max(Solid(s)) \in Solid(s) /\ Min(Solid(s)) <= Max(Solid(s))
  <2>1. Min(Solid(s)) \in Solid(s) /\ Max(Solid(s)) \in Solid(s)
    BY <1>1, <1>2, FirstIsOne
  <2>2. \A i \in Solid(s) : Min(Solid(s)) <= i
    BY <1>1, <1>2, FirstOne
  <2> QED BY <2>1, <2>2
<1> QED BY <1>1, <1>2

\* Without the "_" around it, a text starts and ends with something else.
LEMMA StrippedEnds ==
  ASSUME NEW s \in Seq(NameChars)
  PROVE  /\ Strip(s) \in Seq(NameChars)
         /\ Strip(s) # <<>> => Len(Strip(s)) \in Nat \ {0} /\ Strip(s)[1] # "_" /\ Strip(s)[Len(Strip(s))] # "_"
<1>1. CASE Solid(s) = {}
  BY <1>1 DEF Strip
<1>2. CASE Solid(s) # {}
  <2> DEFINE m == Min(Solid(s))
             n == Max(Solid(s))
  <2>1. m \in Nat /\ n \in Nat /\ 1 <= m /\ m <= n /\ n <= Len(s) /\ s[m] # "_" /\ s[n] # "_"
    <3>1. m \in Solid(s) /\ n \in Solid(s) /\ m <= n /\ Solid(s) \subseteq 1..Len(s) /\ Len(s) \in Nat
      BY <1>2, SolidPlaces
    <3>2. \A i \in Solid(s) : s[i] # "_"
      BY DEF Solid
    <3>3. m \in 1..Len(s) /\ n \in 1..Len(s) /\ s[m] # "_" /\ s[n] # "_"
      BY <3>1, <3>2
    <3> HIDE DEF m, n
    <3>4. m \in 1..Len(s) /\ n \in 1..Len(s) /\ m <= n /\ Len(s) \in Nat
      BY <3>1, <3>3
    <3>5. m \in Nat /\ n \in Nat /\ 1 <= m /\ m <= n /\ n <= Len(s)
      BY <3>4
    <3> QED BY <3>3, <3>5
  <2>2. Strip(s) = SubSeq(s, m, n)
    BY <1>2 DEF Strip
  <2> HIDE DEF m, n
  <2>0. m \in Nat /\ n \in Nat /\ 1 <= m /\ m <= n /\ n <= Len(s)
    BY <2>1
  <2>3. /\ SubSeq(s, m, n) \in Seq(NameChars) /\ Len(SubSeq(s, m, n)) = n - m + 1
        /\ \A i \in 1..(n - m + 1) : SubSeq(s, m, n)[i] = s[m + i - 1]
    BY <2>0, PieceOf
  <2>4. SubSeq(s, m, n)[1] = s[m] /\ SubSeq(s, m, n)[n - m + 1] = s[n]
    <3>1. 1 \in 1..(n - m + 1) /\ n - m + 1 \in 1..(n - m + 1) /\ m + 1 - 1 = m /\ m + (n - m + 1) - 1 = n
      BY <2>0
    <3> QED BY <2>3, <3>1
  <2>5. n - m + 1 \in Nat \ {0}
    BY <2>0
  <2> QED BY <2>1, <2>2, <2>3, <2>4, <2>5
<1> QED BY <1>1, <1>2

\* A name before it is cut.
LEMMA LetteredName ==
  ASSUME NEW text \in Seq(Letters), NEW fallback \in {<<"a">>, <<"a", "a">>}
  PROVE  LET s == Lettered(text, fallback)
         IN  s \in Seq(NameChars) /\ Len(s) \in Nat \ {0} /\ s[1] = "a"
<1> DEFINE t == Strip(Squeeze(text))
<1>1. t \in Seq(NameChars) /\ (t # <<>> => Len(t) \in Nat \ {0} /\ t[1] # "_")
  BY SqueezedChars, StrippedEnds
<1>2. fallback \in Seq(NameChars) /\ Len(fallback) \in Nat \ {0} /\ fallback[1] = "a"
  <2>1. "a" \in NameChars
    BY DEF NameChars
  <2>2. CASE fallback = <<"a">>
    BY <2>1, <2>2
  <2>3. CASE fallback = <<"a", "a">>
    BY <2>1, <2>3
  <2> QED BY <2>2, <2>3
<1>3. CASE t = <<>>
  BY <1>2, <1>3 DEF Lettered
<1>4. CASE t # <<>> /\ Head(t) = "a"
  <2>1. Head(t) = t[1]
    <3> HIDE DEF t
    <3> QED BY <1>1, <1>4, Indexed
  <2> QED BY <1>1, <1>4, <2>1 DEF Lettered
<1>5. CASE t # <<>> /\ Head(t) # "a"
  <2> DEFINE u == fallback \o <<"_">>
  <2>0. <<"_">> \in Seq(NameChars)
    BY DEF NameChars
  <2>1. u \in Seq(NameChars) /\ Len(u) \in Nat \ {0} /\ u[1] = "a"
    <3> DEFINE bar == <<"_">>
    <3>0. bar \in Seq(NameChars) /\ Len(bar) = 1 /\ fallback \in Seq(NameChars)
      BY <1>2, <2>0
    <3> HIDE DEF bar
    <3>1. /\ fallback \o bar \in Seq(NameChars) /\ Len(fallback \o bar) = Len(fallback) + Len(bar)
          /\ \A k \in 1..Len(fallback) : (fallback \o bar)[k] = fallback[k]
      <4>1. fallback \in Seq(NameChars) /\ bar \in Seq(NameChars)
        BY <3>0
      <4> QED BY <4>1, Appended
    <3>2. u = fallback \o bar
      BY DEF bar
    <3> HIDE DEF u
    <3> QED BY <1>2, <3>0, <3>1, <3>2
  <2>2. Lettered(text, fallback) = u \o t
    BY <1>5 DEF Lettered
  <2> HIDE DEF u, t
  <2>3. /\ u \o t \in Seq(NameChars) /\ Len(u \o t) = Len(u) + Len(t) /\ Len(t) \in Nat
        /\ \A k \in 1..Len(u) : (u \o t)[k] = u[k]
    <3>1. u \in Seq(NameChars) /\ t \in Seq(NameChars)
      BY <1>1, <2>1
    <3> QED BY <3>1, Appended
  <2> QED BY <2>1, <2>2, <2>3
<1> QED BY <1>3, <1>4, <1>5

LEMMA Shorter ==
  ASSUME NEW a \in Nat, NEW b \in Nat
  PROVE  Min({a, b}) = IF a <= b THEN a ELSE b
<1>1. CASE a <= b
  BY <1>1, LeastIs
<1>2. CASE ~(a <= b)
  BY <1>2, LeastIs
<1> QED BY <1>1, <1>2

\* Cut and without the "_" at its end, such a text is a settled name.
LEMMA CutSettles ==
  ASSUME NEW s \in Seq(NameChars), Len(s) \in Nat \ {0}, s[1] = "a"
  PROVE  Settled(RStrip(Cut(s)))
<1> DEFINE m == Min({Len(s), MaxName})
           c == Cut(s)
           S == Solid(c) \cup {0}
<1>1. MaxName \in Nat \ {0}
  BY UploadsAssumption
<1>2. m \in 1..MaxName /\ m <= Len(s)
  BY <1>1, Shorter
<1>3. c = SubSeq(s, 1, m)
  BY DEF Cut
<1>4. c \in Seq(NameChars) /\ Len(c) = m /\ c[1] = "a"
  <2> HIDE DEF m, c
  <2>1. m \in Nat /\ 1 <= m
    BY <1>1, <1>2
  <2>2. /\ SubSeq(s, 1, m) \in Seq(NameChars) /\ Len(SubSeq(s, 1, m)) = m - 1 + 1
        /\ \A i \in 1..(m - 1 + 1) : SubSeq(s, 1, m)[i] = s[1 + i - 1]
    BY <1>2, <2>1, PieceOf
  <2> QED BY <1>3, <2>1, <2>2
<1> DEFINE n == Max(Solid(c))
<1>5. 1 \in Solid(c) /\ n \in Solid(c) /\ n \in 1..m /\ c[n] # "_"
  <2> HIDE DEF c, m
  <2>0. DOMAIN c = 1..m /\ m \in Nat /\ 1 \in 1..m
    BY <1>1, <1>2, <1>4, Indexed
  <2>1. 1 \in Solid(c)
    BY <1>4, <2>0 DEF Solid
  <2>2. n \in Solid(c)
    BY <1>4, <2>1, SolidPlaces
  <2> HIDE DEF n
  <2> QED BY <2>0, <2>1, <2>2 DEF Solid
<1>6. Max(S) = n
  <2>1. \A i \in Solid(c) : i \in Int /\ n >= i
    <3> DEFINE K == Solid(c)
    <3>1. K \in SUBSET (1..m) /\ m \in Nat /\ K # {}
      <4> HIDE DEF c, m
      <4>1. DOMAIN c = 1..m /\ m \in Nat
        BY <1>1, <1>2, <1>4, Indexed
      <4> QED BY <4>1, <1>5 DEF Solid
    <3> HIDE DEF K, m
    <3>2. n \in K /\ \A i \in K : n >= i
      BY <3>1, FirstIsOne DEF K
    <3> QED BY <3>1, <3>2 DEF K
  <2>2. n \in S /\ n \in Int /\ \A i \in S : i \in Int /\ n >= i
    <3> HIDE DEF n
    <3>1. n \in Solid(c) /\ n \in Nat
      <4> HIDE DEF m, c
      <4>1. m \in Nat
        BY <1>1, <1>2
      <4>2. n \in Solid(c) /\ n \in 1..m
        BY <1>5
      <4> QED BY <4>1, <4>2
    <3> QED BY <2>1, <3>1
  <2> HIDE DEF S, n
  <2> QED BY <2>2, LargestIs
<1>7. RStrip(c) = SubSeq(c, 1, n)
  BY <1>6 DEF RStrip
<1> HIDE DEF m, c, S, n
<1>8. n \in Nat /\ 1 <= n /\ n <= Len(c) /\ n \in 1..MaxName
  <2>0. m \in Nat /\ m <= MaxName
    BY <1>1, <1>2
  <2>1. m \in Nat /\ n \in 1..m /\ m <= MaxName /\ Len(c) = m
    BY <1>4, <1>5, <2>0
  <2> QED BY <1>1, <2>1
<1>9. /\ SubSeq(c, 1, n) \in Seq(NameChars) /\ Len(SubSeq(c, 1, n)) = n - 1 + 1
      /\ \A i \in 1..(n - 1 + 1) : SubSeq(c, 1, n)[i] = c[1 + i - 1]
  BY <1>4, <1>8, PieceOf
<1>10. Settled(SubSeq(c, 1, n))
  <2>1. 1 \in 1..n /\ n \in 1..n /\ n - 1 + 1 = n /\ 1 + 1 - 1 = 1 /\ 1 + n - 1 = n
    BY <1>8
  <2> QED BY <1>4, <1>5, <1>8, <1>9, <2>1 DEF Settled
<1> QED BY <1>7, <1>10 DEF c

LEMMA SlugSettles ==
  ASSUME NEW text \in Seq(Letters), NEW fallback \in {<<"a">>, <<"a", "a">>}
  PROVE  Settled(Slug(text, fallback))
<1> DEFINE s == Lettered(text, fallback)
<1>1. s \in Seq(NameChars) /\ Len(s) \in Nat \ {0} /\ s[1] = "a"
  BY LetteredName
<1> HIDE DEF s
<1> QED BY <1>1, CutSettles DEF Slug, s

\* A settled name stays.
LEMMA SlugStays ==
  ASSUME NEW s, Settled(s), NEW fallback
  PROVE  Slug(s, fallback) = s
<1> DEFINE n == Len(s)
<1>1. s \in Seq(NameChars) /\ n \in 1..MaxName /\ s[1] = "a" /\ s[n] # "_"
  BY DEF Settled
<1>2. Squeeze(s) = s
  BY <1>1, NothingSqueezed
<1>3. Solid(s) \subseteq 1..n /\ 1 \in Solid(s) /\ n \in Solid(s) /\ n \in Nat /\ MaxName \in Nat
  <2>1. DOMAIN s = 1..n /\ n \in Nat /\ MaxName \in Nat
    BY <1>1, Indexed, UploadsAssumption
  <2> HIDE DEF n
  <2>2. 1 \in 1..n /\ n \in 1..n
    <3>1. n \in 1..MaxName /\ n \in Nat /\ MaxName \in Nat
      BY <1>1, <2>1
    <3> QED BY <3>1
  <2> QED BY <1>1, <2>1, <2>2 DEF Solid
<1>4. Min(Solid(s)) = 1 /\ Max(Solid(s)) = n /\ Max(Solid(s) \cup {0}) = n
  <2> DEFINE K == Solid(s)
             S == K \cup {0}
  <2>1. /\ 1 \in K /\ \A x \in K : x \in Int /\ 1 <= x
        /\ n \in K /\ \A x \in K : x \in Int /\ n >= x
        /\ n \in S /\ \A x \in S : x \in Int /\ n >= x
    BY <1>3
  <2> HIDE DEF K, S, n
  <2>2. Min(K) = 1
    BY <2>1, LeastIs
  <2>3. Max(K) = n /\ Max(S) = n
    BY <1>3, <2>1, LargestIs
  <2> QED BY <2>2, <2>3 DEF K, S
<1>5. SubSeq(s, 1, n) = s
  BY <1>1, WholePiece
<1>6. Strip(s) = s
  BY <1>3, <1>4, <1>5 DEF Strip
<1>7. Lettered(s, fallback) = s
  <2>1. s # <<>> /\ Head(s) = "a"
    <3>0. n \in 1..MaxName /\ n \in Nat /\ MaxName \in Nat
      BY <1>1, <1>3
    <3>1. n # 0
      BY <3>0
    <3>2. s \in Seq(NameChars)
      BY <1>1
    <3> QED BY <1>1, <3>1, <3>2, Indexed
  <2> QED BY <1>2, <1>6, <2>1 DEF Lettered
<1>8. Cut(s) = s
  <2>1. Min({n, MaxName}) = n
    <3> HIDE DEF n
    <3>0. n \in 1..MaxName /\ n \in Nat /\ MaxName \in Nat
      BY <1>1, <1>3
    <3>1. n <= MaxName /\ n \in Nat /\ MaxName \in Nat
      BY <3>0
    <3> QED BY <3>1, Shorter
  <2> QED BY <1>5, <2>1 DEF Cut
<1>9. RStrip(s) = s
  BY <1>4, <1>5 DEF RStrip
<1> QED BY <1>7, <1>8, <1>9 DEF Slug

LEMMA SettledIsName ==
  ASSUME NEW s, Settled(s)
  PROVE  NameOK(s) <=> Len(s) # 1
<1>1. s \in Seq(NameChars) /\ Len(s) \in 1..MaxName /\ s[1] = "a" /\ MaxName \in Nat
  BY UploadsAssumption DEF Settled
<1>2. Head(s) = s[1] /\ \A i \in DOMAIN s : s[i] \in {"a", "1", "_"}
  <2>1. DOMAIN s = 1..Len(s) /\ Head(s) = s[1] /\ \A i \in 1..Len(s) : s[i] \in NameChars
    BY <1>1, Indexed
  <2> QED BY <2>1 DEF NameChars
<1>3. Len(s) \in Nat \ {0} /\ Len(s) <= MaxName /\ MaxName \in Nat
  BY <1>1
<1>4. Len(s) \in 2..MaxName <=> Len(s) # 1
  <2> DEFINE n == Len(s)
  <2>1. n \in Nat \ {0} /\ n <= MaxName /\ MaxName \in Nat
    BY <1>3
  <2> HIDE DEF n
  <2>2. n \in 2..MaxName <=> n # 1
    BY <2>1
  <2> QED BY <2>2 DEF n
<1>5. Head(s) = "a" /\ \A i \in DOMAIN s : s[i] \in {"a", "1", "_"}
  BY <1>1, <1>2
<1> QED BY <1>4, <1>5 DEF NameOK

\* A name is made once (slug), whatever the text, the limit and the fallback.
THEOREM NamesSettle == \A text \in Seq(Letters) : NameSettled(text)
<1> SUFFICES ASSUME NEW text \in Seq(Letters) PROVE NameSettled(text)
  OBVIOUS
<1> DEFINE name == Slug(text, Fallback)
<1>1. Settled(name)
  BY SlugSettles DEF Fallback
<1> HIDE DEF name
<1>2. \A fallback \in {Fallback, <<"a">>} : Slug(name, fallback) = name
  BY <1>1, SlugStays
<1>3. NameOK(name) \/ Len(name) = 1
  BY <1>1, SettledIsName
<1> QED BY <1>2, <1>3 DEF NameSettled, name

-----------------------------------------------------------------------------
(* Uploads.                                                                *)

PolicyRoles == {"recon", "defender", "attacker"}

LEMMA FirstAnswers ==
  ASSUME NEW name, NEW type, NEW format
  PROVE  LET b == ManifestOf(name, type, format)
         IN  /\ b.schema /\ b.name = (IF NameOK(name) THEN "good" ELSE "bad") /\ b.texts /\ b.type = type
             /\ b.format = format /\ b.options = "absent" /\ b.model = "absent" /\ b.file = "good"
             /\ b.build = "absent" /\ b.classes = 0 /\ b.macs = "absent" /\ b.comms
             /\ b.entry = "absent" /\ b.strategy = "absent" /\ b.role = "absent"
             /\ DOMAIN b = {"schema", "name", "texts", "type", "format", "role", "options", "model", "file",
                            "build", "classes", "macs", "comms", "entry", "strategy", "trained_for"}
BY DEF ManifestOf

\* What is placed has the name that its manifest was made for, if at all.
LEMMA PlacedAsNamed ==
  ASSUME NEW name, NEW m, NEW library, CheckManifest(m) <=> NameOK(name)
  PROVE  LET got == PlaceNew(name, m, library)
         IN  /\ got.name = name /\ got.manifest = m
             /\ got.answer = (IF NameOK(name) /\ name \notin library THEN "ok" ELSE "refused")
BY DEF PlaceNew

\* Trained weights.
LEMMA WeightsAccepted ==
  ASSUME NEW name, NEW role \in PolicyRoles
  PROVE  LET m == [ManifestOf(name, "policy", "npz") EXCEPT !.model = "ok", !.role = role, !.trained_for = role]
         IN  (CheckManifest(m) <=> NameOK(name)) /\ MakePolicy(m) = "ok"
<1> DEFINE b == ManifestOf(name, "policy", "npz")
           m == [b EXCEPT !.model = "ok", !.role = role, !.trained_for = role]
<1>1. /\ b.schema /\ (b.name = "good" <=> NameOK(name)) /\ b.texts /\ b.type = "policy" /\ b.format = "npz"
      /\ b.options = "absent" /\ b.macs = "absent" /\ b.comms /\ b.file = "good"
  BY FirstAnswers
<1>2. {"schema", "name", "texts", "type", "format", "role", "options", "model", "macs", "comms", "file",
       "trained_for"} \subseteq DOMAIN b
  BY FirstAnswers
<1> HIDE DEF b
<1>3. /\ m.schema /\ (m.name = "good" <=> NameOK(name)) /\ m.texts /\ m.type = "policy" /\ m.format = "npz"
      /\ m.options = "absent" /\ m.macs = "absent" /\ m.comms /\ m.file = "good"
      /\ m.role = role /\ m.trained_for = role /\ m.model = "ok"
  BY <1>1, <1>2
<1> HIDE DEF m
<1>4. CheckManifest(m) <=> NameOK(name)
  BY <1>3 DEF CheckManifest, ModelAccepted, Inside, PolicyRoles
<1>5. MakePolicy(m) = "ok"
  BY <1>3 DEF MakePolicy, Format, ModelPath, Inside
<1> QED BY <1>4, <1>5 DEF m, b

\* A compiled network, with labels when its outputs are as many.
LEMMA NetworkAccepted ==
  ASSUME NEW name, NEW n \in {0, Labels}
  PROVE  LET m == [ManifestOf(name, "perception", "swm") EXCEPT !.model = "ok", !.classes = n]
         IN  CheckManifest(m) <=> NameOK(name)
<1> DEFINE b == ManifestOf(name, "perception", "swm")
           m == [b EXCEPT !.model = "ok", !.classes = n]
<1>1. /\ b.schema /\ (b.name = "good" <=> NameOK(name)) /\ b.texts /\ b.type = "perception" /\ b.format = "swm"
      /\ b.options = "absent" /\ b.build = "absent"
  BY FirstAnswers
<1>2. {"schema", "name", "texts", "type", "format", "options", "model", "build", "classes"} \subseteq DOMAIN b
  BY FirstAnswers
<1> HIDE DEF b
<1>3. /\ m.schema /\ (m.name = "good" <=> NameOK(name)) /\ m.texts /\ m.type = "perception" /\ m.format = "swm"
      /\ m.options = "absent" /\ m.build = "absent" /\ m.classes = n /\ m.model = "ok"
  BY <1>1, <1>2
<1> HIDE DEF m
<1>4. n # 1
  BY UploadsAssumption
<1> QED BY <1>3, <1>4 DEF CheckManifest, ModelAccepted, EntryAccepted, Inside, m, b

\* A class found in a source file is of one of the three kinds.
LEMMA ChosenIsOne ==
  ASSUME NEW classes \in Seq(ClassForm)
  PROVE  \/ Chosen(classes) = <<>>
         \/ \E c \in ClassForm : Chosen(classes) = <<c>> /\ ClassRole(c) \in {"tactic", "policy", "perception"}
<1> DEFINE Of(role) == {i \in DOMAIN classes : ClassRole(classes[i]) = role}
           preferred == IF Of("tactic") # {} THEN Of("tactic")
                        ELSE IF Of("policy") # {} THEN Of("policy") ELSE Of("perception")
           i == Min(preferred)
<1>1. Chosen(classes) = IF preferred = {} THEN <<>> ELSE <<classes[i]>>
  BY DEF Chosen
<1>2. DOMAIN classes = 1..Len(classes) /\ Len(classes) \in Nat /\ \A k \in 1..Len(classes) : classes[k] \in ClassForm
  BY Indexed
<1>3. preferred \in SUBSET (1..Len(classes)) /\ \A k \in preferred : ClassRole(classes[k]) \in {"tactic", "policy", "perception"}
  BY <1>2
<1> HIDE DEF preferred
<1>4. CASE preferred = {}
  BY <1>1, <1>4
<1>5. CASE preferred # {}
  <2>1. i \in preferred
    BY <1>2, <1>3, <1>5, FirstIsOne
  <2>2. classes[i] \in ClassForm /\ ClassRole(classes[i]) \in {"tactic", "policy", "perception"}
    BY <1>2, <1>3, <2>1
  <2> QED BY <1>1, <1>5, <2>2
<1> QED BY <1>4, <1>5

\* A source file of such a class.
LEMMA SourceAccepted ==
  ASSUME NEW name, NEW c \in ClassForm, ClassRole(c) \in {"tactic", "policy", "perception"}
  PROVE  CheckManifest(SourceManifest(c, name)) <=> NameOK(name)
<1> DEFINE type == ClassRole(c)
           b == ManifestOf(name, type, IF type = "tactic" THEN "absent" ELSE "python")
           e == [b EXCEPT !.entry = "file"]
           m == SourceManifest(c, name)
<1>1. /\ b.schema /\ (b.name = "good" <=> NameOK(name)) /\ b.texts /\ b.type = type
      /\ b.format = (IF type = "tactic" THEN "absent" ELSE "python")
      /\ b.options = "absent" /\ b.macs = "absent" /\ b.comms /\ b.classes = 0 /\ b.strategy = "absent"
  BY FirstAnswers
<1>2. {"schema", "name", "texts", "type", "format", "role", "options", "macs", "comms", "classes",
       "entry", "strategy"} \subseteq DOMAIN b
  BY FirstAnswers
<1>3. m = CASE type = "tactic" -> [e EXCEPT !.strategy = IF NameOK(name) THEN "good" ELSE "bad"]
            [] type = "policy" -> [e EXCEPT !.role = c.role, !.macs = ClassMacs(c)]
            [] OTHER -> e
  BY DEF SourceManifest
<1>4. ClassMacs(c) # "text"
  BY DEF ClassMacs
<1>5. type = "policy" => c.role \in PolicyRoles
  BY DEF ClassRole, PolicyRoles
<1>6. type \in {"tactic", "policy", "perception"}
  OBVIOUS
<1> HIDE DEF b, type
<1>7. /\ e.schema /\ (e.name = "good" <=> NameOK(name)) /\ e.texts /\ e.type = type
      /\ e.format = (IF type = "tactic" THEN "absent" ELSE "python")
      /\ e.options = "absent" /\ e.macs = "absent" /\ e.comms /\ e.classes = 0 /\ e.strategy = "absent"
      /\ e.entry = "file" /\ DOMAIN e = DOMAIN b
  BY <1>1, <1>2
<1> HIDE DEF e, m
<1>8. CASE type = "tactic"
  <2>1. m = [e EXCEPT !.strategy = IF NameOK(name) THEN "good" ELSE "bad"]
    BY <1>3, <1>8
  <2>2. /\ m.schema /\ (m.name = "good" <=> NameOK(name)) /\ m.texts /\ m.type = "tactic" /\ m.entry = "file"
        /\ (m.strategy = "good" <=> NameOK(name)) /\ m.strategy \in {"good", "bad"}
    BY <1>2, <1>7, <1>8, <2>1
  <2> QED BY <2>2 DEF CheckManifest, EntryAccepted, m
<1>9. CASE type = "policy"
  <2>1. m = [e EXCEPT !.role = c.role, !.macs = ClassMacs(c)]
    BY <1>3, <1>9
  <2>2. /\ m.schema /\ (m.name = "good" <=> NameOK(name)) /\ m.texts /\ m.type = "policy" /\ m.entry = "file"
        /\ m.format = "python" /\ m.options = "absent" /\ m.comms /\ m.macs # "text" /\ m.role \in PolicyRoles
    BY <1>2, <1>4, <1>5, <1>7, <1>9, <2>1
  <2> QED BY <2>2 DEF CheckManifest, EntryAccepted, PolicyRoles, m
<1>10. CASE type = "perception"
  <2>1. m = e
    BY <1>3, <1>10
  <2>2. /\ m.schema /\ (m.name = "good" <=> NameOK(name)) /\ m.texts /\ m.type = "perception" /\ m.entry = "file"
        /\ m.format = "python" /\ m.options = "absent" /\ m.classes = 0
    BY <1>7, <1>10, <2>1
  <2> QED BY <2>2 DEF CheckManifest, EntryAccepted, m
<1> QED BY <1>6, <1>8, <1>9, <1>10

\* The server asks whether a name is taken, and install_npz makes the same
\* name of it: trained weights are saved or refused as taken, and nothing else.
THEOREM SavesFindNamesFree ==
  ASSUME NEW f, f.role \in PolicyRoles, NEW given \in Seq(Letters), NEW known
  PROVE  SaveFindsNameFree(f, given, known)
<1> DEFINE name == Slug(given, Fallback)
<1> SUFFICES ASSUME f.loads, NameOK(name), name \notin known
             PROVE  SaveTrained(f, given, known, known).answer = "ok" /\ SaveTrained(f, given, known, known).name = name
  BY DEF SaveFindsNameFree, SaveTrained, FindsTaken
<1>1. Settled(name)
  BY SlugSettles DEF Fallback
<1> HIDE DEF name
<1>2. Slug(name, Fallback) = name /\ name # <<>>
  <2>1. Slug(name, Fallback) = name
    BY <1>1, SlugStays
  <2>2. name \in Seq(NameChars) /\ Len(name) # 0
    <3>1. name \in Seq(NameChars) /\ Len(name) \in 1..MaxName /\ MaxName \in Nat
      BY <1>1, UploadsAssumption DEF Settled
    <3> QED BY <3>1
  <2> QED BY <2>1, <2>2, Indexed
<1>3. SaveTrained(f, given, known, known) = InstallNpz(f, name, known)
  BY DEF SaveTrained, FindsTaken, name
<1> DEFINE m == [ManifestOf(name, "policy", "npz") EXCEPT !.model = "ok", !.role = f.role, !.trained_for = f.role]
<1>4. InstallNpz(f, name, known) = PlaceNew(name, m, known)
  BY <1>2 DEF InstallNpz
<1>5. CheckManifest(m)
  BY WeightsAccepted
<1> HIDE DEF m
<1> QED BY <1>3, <1>4, <1>5 DEF PlaceNew

\* What became of an upload that was placed under a name, if the name is one.
PlacedUnder(f, library, name) ==
  LET got == InstallUpload(f, library) IN
  /\ got.answer = (IF NameOK(name) /\ name \notin library THEN "ok" ELSE "refused")
  /\ got.answer = "ok" => got.name = name
  /\ got.answer = "ok" /\ f.suffix = "npz" => MakePolicy(got.manifest) = "ok"

LEMMA WeightsPlaced ==
  ASSUME NEW f, UploadForm(f), f.suffix = "npz", f.loads, NEW library
  PROVE  PlacedUnder(f, library, Slug(f.stem, Fallback))
<1> DEFINE name == Slug(f.stem, Fallback)
           m == [ManifestOf(name, "policy", "npz") EXCEPT !.model = "ok", !.role = f.role, !.trained_for = f.role]
<1>1. InstallUpload(f, library) = IF ~NameOK(name) THEN NotPlaced ELSE PlaceNew(name, m, library)
  BY DEF InstallUpload, InstallNpz
<1>2. (CheckManifest(m) <=> NameOK(name)) /\ MakePolicy(m) = "ok"
  BY WeightsAccepted DEF UploadForm, PolicyRoles
<1> HIDE DEF name, m
<1>3. LET got == PlaceNew(name, m, library)
      IN  /\ got.name = name /\ got.manifest = m
          /\ got.answer = (IF NameOK(name) /\ name \notin library THEN "ok" ELSE "refused")
  BY <1>2, PlacedAsNamed
<1>4. NotPlaced.answer = "refused"
  BY DEF NotPlaced
<1> QED BY <1>1, <1>2, <1>3, <1>4 DEF PlacedUnder, name

LEMMA NetworkPlaced ==
  ASSUME NEW f, f.suffix = "swm", f.loads, NEW library
  PROVE  PlacedUnder(f, library, Slug(f.stem, Fallback))
<1> DEFINE name == Slug(f.stem, Fallback)
           n == NetworkLabels(f.layers)
           m == [ManifestOf(name, "perception", "swm") EXCEPT !.model = "ok", !.classes = n]
<1>1. InstallUpload(f, library) = PlaceNew(name, m, library)
  BY DEF InstallUpload, InstallSwm
<1>2. n \in {0, Labels}
  BY DEF NetworkLabels
<1>3. CheckManifest(m) <=> NameOK(name)
  <2> HIDE DEF n, name
  <2> QED BY <1>2, NetworkAccepted
<1> HIDE DEF name, m
<1>4. LET got == PlaceNew(name, m, library)
      IN  /\ got.name = name
          /\ got.answer = (IF NameOK(name) /\ name \notin library THEN "ok" ELSE "refused")
  BY <1>3, PlacedAsNamed
<1> QED BY <1>1, <1>4 DEF PlacedUnder, name

LEMMA SourcePlaced ==
  ASSUME NEW f, UploadForm(f), f.suffix = "py", f.parses,
         NEW c \in ClassForm, Chosen(f.classes) = <<c>>, ClassRole(c) \in {"tactic", "policy", "perception"},
         NEW library
  PROVE  PlacedUnder(f, library,
            Slug(IF ClassRole(c) = "tactic" /\ c.strategy # <<>> THEN c.strategy ELSE f.stem, Fallback))
<1> DEFINE module == Slug(f.stem, Fallback)
           own == ClassRole(c) = "tactic" /\ c.strategy # <<>>
           name == Slug(IF own THEN c.strategy ELSE f.stem, Fallback)
           m == SourceManifest(c, name)
<1>1. Slug(module, Fallback) = module
  <2>1. f.stem \in Seq(Letters)
    BY DEF UploadForm
  <2>2. Settled(module)
    BY <2>1, SlugSettles DEF Fallback
  <2> HIDE DEF module
  <2> QED BY <2>2, SlugStays
<1>2. <<c>>[1] = c /\ <<c>> # <<>>
  OBVIOUS
<1>3. (IF ClassRole(c) = "tactic" THEN Slug(IF own THEN c.strategy ELSE module, Fallback) ELSE module) = name
  BY <1>1
<1>4. InstallUpload(f, library) = IF ~NameOK(name) THEN NotPlaced ELSE PlaceNew(name, m, library)
  <2> DEFINE last == IF ClassRole(c) = "tactic"
                     THEN Slug(IF ClassRole(c) = "tactic" /\ c.strategy # <<>> THEN c.strategy ELSE module, Fallback)
                     ELSE module
  <2>1. InstallUpload(f, library) = InstallSource(f, library)
    BY DEF InstallUpload
  <2>2. InstallSource(f, library) = IF ~NameOK(last) THEN NotPlaced ELSE PlaceNew(last, SourceManifest(c, last), library)
    BY <1>2 DEF InstallSource
  <2>3. last = name
    BY <1>3
  <2> HIDE DEF last, name
  <2> QED BY <2>1, <2>2, <2>3
<1>5. CheckManifest(m) <=> NameOK(name)
  <2> HIDE DEF name
  <2> QED BY SourceAccepted
<1> HIDE DEF name, m
<1>6. LET got == PlaceNew(name, m, library)
      IN  /\ got.name = name
          /\ got.answer = (IF NameOK(name) /\ name \notin library THEN "ok" ELSE "refused")
  BY <1>5, PlacedAsNamed
<1>7. NotPlaced.answer = "refused"
  BY DEF NotPlaced
<1> QED BY <1>4, <1>6, <1>7 DEF PlacedUnder, name, own

\* An upload of a form the installer knows, sound, with a name that can be
\* derived and is free, is never refused; what is placed can be used and is
\* refused the second time (install_upload).
THEOREM UploadsAreAccepted ==
  ASSUME NEW f, UploadForm(f)
  PROVE  UploadAccepted(f)
<1> DEFINE Goes(name) == PlacedUnder(f, {}, name) /\ PlacedUnder(f, {name}, name)
           Sure(name, sound) ==
             LET got == InstallUpload(f, {})
             IN  /\ sound /\ NameOK(name) => got.answer = "ok"
                 /\ got.answer = "ok" => /\ NameOK(got.name)
                                         /\ f.suffix = "npz" => MakePolicy(got.manifest) = "ok"
                                         /\ InstallUpload(f, {got.name}).answer = "refused"
<1>1. \A name, sound : Goes(name) => Sure(name, sound)
  BY DEF PlacedUnder
<1>2. \A name : InstallUpload(f, {}).answer = "refused" => Sure(name, FALSE)
  OBVIOUS
<1>3. CASE f.suffix = "npz"
  <2> DEFINE name == Slug(f.stem, Fallback)
  <2>1. UploadAccepted(f) <=> Sure(name, f.loads)
    BY <1>3 DEF UploadAccepted
  <2>2. CASE f.loads
    <3>1. Goes(name)
      BY <1>3, <2>2, WeightsPlaced
    <3> HIDE DEF Goes, name, Sure
    <3> QED BY <1>1, <2>1, <3>1
  <2>3. CASE ~f.loads
    <3>1. InstallUpload(f, {}) = NotPlaced
      BY <1>3, <2>3 DEF InstallUpload, InstallNpz
    <3> QED BY <1>3, <2>3, <3>1 DEF NotPlaced, UploadAccepted
  <2> QED BY <2>2, <2>3
<1>4. CASE f.suffix = "swm"
  <2> DEFINE name == Slug(f.stem, Fallback)
  <2>1. UploadAccepted(f) <=> Sure(name, f.loads)
    BY <1>4 DEF UploadAccepted
  <2>2. CASE f.loads
    <3>1. Goes(name)
      BY <1>4, <2>2, NetworkPlaced
    <3> HIDE DEF Goes, name, Sure
    <3> QED BY <1>1, <2>1, <3>1
  <2>3. CASE ~f.loads
    <3>1. InstallUpload(f, {}) = NotPlaced
      BY <1>4, <2>3 DEF InstallUpload, InstallSwm
    <3> QED BY <1>4, <2>3, <3>1 DEF NotPlaced, UploadAccepted
  <2> QED BY <2>2, <2>3
<1>5. CASE f.suffix = "py"
  <2>1. f.classes \in Seq(ClassForm)
    BY <1>5 DEF UploadForm
  <2>2. CASE f.parses /\ Chosen(f.classes) # <<>>
    <3>1. PICK c \in ClassForm : Chosen(f.classes) = <<c>> /\ ClassRole(c) \in {"tactic", "policy", "perception"}
      BY <2>1, <2>2, ChosenIsOne
    <3> DEFINE own == ClassRole(c) = "tactic" /\ c.strategy # <<>>
               name == Slug(IF own THEN c.strategy ELSE f.stem, Fallback)
    <3>2. (\E d \in ToSet(<<c>>) : ClassRole(d) = "tactic" /\ d.strategy # <<>>) <=> own
      <4>1. ToSet(<<c>>) = {c}
        BY DEF ToSet
      <4> QED BY <4>1
    <3>3. UploadAccepted(f) <=> Sure(name, TRUE)
      BY <1>5, <2>2, <3>1, <3>2 DEF UploadAccepted
    <3>4. Goes(name)
      <4> SUFFICES ASSUME NEW library PROVE PlacedUnder(f, library, name)
        OBVIOUS
      <4> QED BY <1>5, <2>2, <3>1, SourcePlaced
    <3> HIDE DEF Goes, name, Sure
    <3> QED BY <1>1, <3>3, <3>4
  <2>3. CASE ~(f.parses /\ Chosen(f.classes) # <<>>)
    <3>1. InstallUpload(f, {}) = NotPlaced
      BY <1>5, <2>3 DEF InstallUpload, InstallSource
    <3> QED BY <1>5, <2>3, <3>1 DEF NotPlaced, UploadAccepted
  <2> QED BY <2>2, <2>3
<1>6. CASE f.suffix \notin {"py", "swm", "npz"}
  <2>1. InstallUpload(f, {}) = NotPlaced
    BY <1>6 DEF InstallUpload, UploadForm
  <2> QED BY <1>6, <2>1 DEF NotPlaced, UploadAccepted
<1> QED BY <1>3, <1>4, <1>5, <1>6

-----------------------------------------------------------------------------
(* Archives.                                                               *)

\* What is kept in a row is a piece of the whole.
RunOf(T, v, lo, m, s) == s \in Seq(T) /\ Len(s) = m /\ \A x \in 1..m : s[x] = v[lo + x]

LEMMA KeptRun ==
  ASSUME NEW T, NEW n \in Nat, NEW v, v \in [1..n -> T], NEW lo \in Nat, NEW m \in Nat, lo + m <= n
  PROVE  RunOf(T, v, lo, m, KeptOf(n, v, (lo + 1)..(lo + m)))
<1> DEFINE K == (lo + 1)..(lo + m)
<1>1. K \in SUBSET (1..n)
  OBVIOUS
<1>2. \A x \in 1..m : lo + x \in K /\ PlaceIn(K, lo + x) = x
  <2> SUFFICES ASSUME NEW x \in 1..m PROVE lo + x \in K /\ PlaceIn(K, lo + x) = x
    OBVIOUS
  <2>1. K \cap (1..(lo + x)) = (lo + 1)..(lo + x)
    OBVIOUS
  <2>2. Cardinality((lo + 1)..(lo + x)) = x
    <3>1. lo + 1 \in Int /\ lo + x \in Int
      OBVIOUS
    <3>2. Cardinality((lo + 1)..(lo + x)) = IF lo + 1 > lo + x THEN 0 ELSE (lo + x) - (lo + 1) + 1
      BY <3>1, FS_Interval
    <3> QED BY <3>2
  <2>3. lo + x \in K
    OBVIOUS
  <2> HIDE DEF K
  <2> QED BY <2>1, <2>2, <2>3 DEF PlaceIn
<1>3. PlaceIn(K, n) = m
  <2>1. K \cap (1..n) = (lo + 1)..(lo + m)
    OBVIOUS
  <2>2. Cardinality((lo + 1)..(lo + m)) = m
    <3>1. lo + 1 \in Int /\ lo + m \in Int
      OBVIOUS
    <3>2. Cardinality((lo + 1)..(lo + m)) = IF lo + 1 > lo + m THEN 0 ELSE (lo + m) - (lo + 1) + 1
      BY <3>1, FS_Interval
    <3> QED BY <3>2
  <2> QED BY <2>1, <2>2 DEF PlaceIn
<1>4. /\ KeptOf(n, v, K) \in Seq(T) /\ Len(KeptOf(n, v, K)) = PlaceIn(K, n)
      /\ \A i \in K : KeptOf(n, v, K)[PlaceIn(K, i)] = v[i]
  <2> HIDE DEF K
  <2>1. v \in [1..n -> T] /\ n \in Nat /\ K \in SUBSET (1..n)
    BY <1>1
  <2> QED BY ONLY <2>1, Selected
<1> QED BY <1>2, <1>3, <1>4 DEF RunOf

KeptAt(members) == {i \in 1..Len(members) : ~(members[i].dir \/ Junk(members[i].parts))}

LEMMA KeptIsKept ==
  ASSUME NEW members \in Seq(MemberForm)
  PROVE  Kept(members) = KeptOf(Len(members), [i \in 1..Len(members) |-> members[i]], KeptAt(members))
<1> DEFINE n == Len(members)
           v == [i \in 1..n |-> members[i]]
<1>1. DOMAIN members = 1..n
  BY Indexed
<1> HIDE DEF n
<1>2. [i \in DOMAIN members |-> IF members[i].dir \/ Junk(members[i].parts) THEN <<>> ELSE <<members[i]>>]
        = [i \in 1..n |-> IF i \in KeptAt(members) THEN <<v[i]>> ELSE <<>>]
  BY <1>1 DEF KeptAt, n
<1> QED BY <1>2 DEF Kept, KeptOf, n

\* Every member that is kept is one of the archive, neither a folder nor junk.
LEMMA KeptMembers ==
  ASSUME NEW members \in Seq(MemberForm)
  PROVE  /\ Kept(members) \in Seq(MemberForm)
         /\ \A k \in 1..Len(Kept(members)) : \E i \in DOMAIN members :
               Kept(members)[k] = members[i] /\ ~members[i].dir /\ ~Junk(members[i].parts)
<1> DEFINE n == Len(members)
           v == [i \in 1..n |-> members[i]]
           K == KeptAt(members)
<1>1. n \in Nat /\ DOMAIN members = 1..n /\ v \in [1..n -> MemberForm] /\ K \in SUBSET (1..n)
  BY Indexed DEF KeptAt
<1>2. \A i \in K : v[i] = members[i] /\ ~members[i].dir /\ ~Junk(members[i].parts)
  BY DEF KeptAt
<1>3. Kept(members) = KeptOf(n, v, K)
  BY KeptIsKept
<1> HIDE DEF n, v, K
<1>4. /\ KeptOf(n, v, K) \in Seq(MemberForm) /\ Len(KeptOf(n, v, K)) = PlaceIn(K, n)
      /\ \A k \in 1..PlaceIn(K, n) : \E i \in K : k = PlaceIn(K, i) /\ KeptOf(n, v, K)[k] = v[i]
  BY <1>1, Selected
<1> QED BY <1>1, <1>2, <1>3, <1>4

\* The rest of a path is as safe as the path.
LEMMA RestOfPath ==
  ASSUME NEW p \in Seq(PathNames), Len(p) >= 2
  PROVE  /\ Tail(p) \in Seq(PathNames) \ {<<>>}
         /\ Unsafe(Tail(p)) => Unsafe(p)
         /\ Junk(Tail(p)) => Junk(p)
<1>1. /\ Tail(p) \in Seq(PathNames) /\ Len(Tail(p)) = Len(p) - 1 /\ Len(p) \in Nat
      /\ DOMAIN p = 1..Len(p) /\ DOMAIN Tail(p) = 1..(Len(p) - 1)
      /\ \A i \in 1..(Len(p) - 1) : Tail(p)[i] = p[i + 1]
  OBVIOUS
<1> DEFINE t == Tail(p)
           n == Len(p)
<1>2. \A i \in DOMAIN t : i + 1 \in DOMAIN p /\ t[i] = p[i + 1]
  BY <1>1
<1>3. Last(t) = Last(p)
  <2>1. n - 1 \in 1..(n - 1) /\ (n - 1) + 1 = n
    BY <1>1
  <2>2. t[n - 1] = p[(n - 1) + 1]
    BY <1>1, <2>1
  <2> QED BY <1>1, <2>1, <2>2 DEF Last
<1>4. t # <<>>
  <2>1. Len(t) # 0 /\ t \in Seq(PathNames)
    BY <1>1
  <2> HIDE DEF t
  <2> QED BY <2>1, Indexed
<1> HIDE DEF t, n
<1>5. t \in Seq(PathNames)
  BY <1>1 DEF t
<1> QED BY <1>2, <1>3, <1>4, <1>5 DEF Unsafe, Junk, t

\* Without their top folder the members are as many, and what they were else.
Rerooted(m, t) ==
  /\ t.size = m.size /\ t.form = m.form /\ t.data = m.data /\ t.dir = m.dir
  /\ Unsafe(t.parts) => Unsafe(m.parts)
  /\ Junk(t.parts) => Junk(m.parts)

LEMMA TopStripped ==
  ASSUME NEW members \in Seq(MemberForm)
  PROVE  /\ StripTop(members) \in Seq(MemberForm) /\ Len(StripTop(members)) = Len(members)
         /\ \A k \in 1..Len(members) : Rerooted(members[k], StripTop(members)[k])
<1> DEFINE n == Len(members)
           s == [i \in DOMAIN members |-> [members[i] EXCEPT !.parts = Tail(@)]]
           one == \E m \in ToSet(members) : Len(m.parts) = 1
<1>1. n \in Nat /\ DOMAIN members = 1..n /\ \A i \in 1..n : members[i] \in MemberForm
  BY Indexed
<1>2. StripTop(members) = members \/ (StripTop(members) = s /\ ~one)
  BY DEF StripTop
<1>3. CASE StripTop(members) = members
  BY <1>1, <1>3 DEF Rerooted
<1>4. CASE StripTop(members) = s /\ ~one
  <2>1. ASSUME NEW i \in 1..n PROVE s[i] \in MemberForm /\ Rerooted(members[i], s[i])
    <3> DEFINE m == members[i]
               t == [m EXCEPT !.parts = Tail(@)]
    <3>1. m \in MemberForm /\ s[i] = t
      BY <1>1
    <3>2. m \in ToSet(members)
      BY <1>1 DEF ToSet
    <3> HIDE DEF m
    <3>3. m.parts \in Seq(PathNames) /\ m.parts # <<>> /\ Len(m.parts) # 1
      BY <1>4, <3>1, <3>2 DEF MemberForm
    <3>4. Len(m.parts) >= 2
      <4> DEFINE p == m.parts
      <4>1. p \in Seq(PathNames) /\ p # <<>> /\ Len(p) # 1
        BY <3>3
      <4> HIDE DEF p
      <4>2. Len(p) \in Nat /\ Len(p) # 0
        BY <4>1, Indexed
      <4>3. Len(p) >= 2
        <5> DEFINE k == Len(p)
        <5>1. k \in Nat /\ k # 0 /\ k # 1
          BY <4>1, <4>2
        <5> HIDE DEF k
        <5>2. k >= 2
          BY <5>1
        <5> QED BY <5>2 DEF k
      <4> QED BY <4>3 DEF p
    <3>5. /\ Tail(m.parts) \in Seq(PathNames) \ {<<>>}
          /\ Unsafe(Tail(m.parts)) => Unsafe(m.parts)
          /\ Junk(Tail(m.parts)) => Junk(m.parts)
      BY <3>3, <3>4, RestOfPath
    <3>6. t \in MemberForm
      BY <3>1, <3>5 DEF MemberForm
    <3>7. t.parts = Tail(m.parts) /\ t.size = m.size /\ t.form = m.form /\ t.data = m.data /\ t.dir = m.dir
      BY <3>1 DEF MemberForm
    <3> HIDE DEF t
    <3>8. Rerooted(m, t)
      BY <3>5, <3>7 DEF Rerooted
    <3> QED BY <3>1, <3>6, <3>8 DEF m
  <2>2. s \in Seq(MemberForm) /\ Len(s) = n
    <3>1. s = [i \in 1..n |-> s[i]] /\ \A i \in 1..n : s[i] \in MemberForm
      BY <1>1, <2>1
    <3> HIDE DEF s, n
    <3>2. s \in [1..n -> MemberForm]
      BY <3>1
    <3> QED BY <1>1, <3>2
  <2> QED BY <1>4, <2>1, <2>2
<1> QED BY <1>2, <1>3, <1>4

\* What an archive installs, if anything.
LEMMA InstalledFiles ==
  ASSUME NEW members, InstallArchive(members).answer = "ok"
  PROVE  /\ InstallArchive(members).files
              = {[parts |-> m.parts, data |-> m.data] : m \in ToSet(Arranged(members))}
         /\ ~Collide(Arranged(members))
         /\ \A m \in ToSet(members) : ~Unsafe(m.parts)
BY DEF InstallArchive, RefusedArchive, Answer

LEMMA PrefixOfItself ==
  ASSUME NEW T, NEW p \in Seq(T)
  PROVE  IsPrefix(p, p)
<1>1. Len(p) \in Nat
  OBVIOUS
<1> QED BY <1>1 DEF IsPrefix

\* What an archive installs is what was checked, whatever its members are:
\* every member that is not junk is a file of the folder, and no two are one
\* (install_archive).
THEOREM NothingIsOverwritten ==
  ASSUME NEW members \in Seq(MemberForm)
  PROVE  NothingOverwritten(members)
<1> SUFFICES ASSUME InstallArchive(members).answer = "ok" PROVE NothingOverwritten(members)
  BY DEF NothingOverwritten
<1> DEFINE kept == Kept(members)
           placed == Arranged(members)
           n == Len(kept)
           f == [k \in 1..n |-> [parts |-> placed[k].parts, data |-> placed[k].data]]
           made == InstallArchive(members).files
<1>1. /\ kept \in Seq(MemberForm) /\ n \in Nat
      /\ \A k \in 1..n : \E i \in DOMAIN members :
            kept[k] = members[i] /\ ~members[i].dir /\ ~Junk(members[i].parts)
  <2>1. /\ kept \in Seq(MemberForm)
        /\ \A k \in 1..n : \E i \in DOMAIN members :
              kept[k] = members[i] /\ ~members[i].dir /\ ~Junk(members[i].parts)
    BY KeptMembers
  <2> HIDE DEF kept
  <2>2. n \in Nat
    BY <2>1, Indexed
  <2> QED BY <2>1, <2>2
<1>2. /\ placed \in Seq(MemberForm) /\ Len(placed) = n
      /\ \A k \in 1..n : Rerooted(kept[k], placed[k])
  <2> HIDE DEF kept
  <2> QED BY <1>1, TopStripped DEF Arranged, kept
<1>3. DOMAIN placed = 1..n /\ \A k \in 1..n : placed[k] \in MemberForm
  <2> HIDE DEF placed, n
  <2> QED BY <1>2, Indexed
<1>4. /\ made = {[parts |-> m.parts, data |-> m.data] : m \in ToSet(placed)}
      /\ ~Collide(placed) /\ \A m \in ToSet(members) : ~Unsafe(m.parts)
  BY InstalledFiles
<1> HIDE DEF kept, placed, n
<1>5. \A k, l \in 1..n : k # l => ~IsPrefix(placed[k].parts, placed[l].parts)
  BY <1>3, <1>4 DEF Collide
<1>6. \A k \in 1..n : ~Unsafe(placed[k].parts) /\ ~Junk(placed[k].parts)
  <2> SUFFICES ASSUME NEW k \in 1..n PROVE ~Unsafe(placed[k].parts) /\ ~Junk(placed[k].parts)
    OBVIOUS
  <2>1. PICK i \in DOMAIN members : kept[k] = members[i] /\ ~Junk(members[i].parts)
    BY <1>1
  <2>2. members[i] \in ToSet(members)
    BY DEF ToSet
  <2> QED BY <1>2, <1>4, <2>1, <2>2 DEF Rerooted
<1>7. made = {f[k] : k \in 1..n}
  <2>1. ToSet(placed) = {placed[k] : k \in 1..n}
    BY <1>3 DEF ToSet
  <2> QED BY <1>4, <2>1
<1>8. \A k \in 1..n : f[k].parts = placed[k].parts
  OBVIOUS
<1>9. IsInjective(f)
  <2> SUFFICES ASSUME NEW k \in 1..n, NEW l \in 1..n, f[k] = f[l], k # l PROVE FALSE
    BY DEF IsInjective
  <2>1. placed[k].parts = placed[l].parts
    BY <1>8
  <2>2. placed[k].parts \in Seq(PathNames)
    BY <1>3 DEF MemberForm
  <2>3. IsPrefix(placed[k].parts, placed[k].parts)
    BY <2>2, PrefixOfItself
  <2> QED BY <1>5, <2>1, <2>3
<1>10. DOMAIN f = 1..n
  OBVIOUS
<1> HIDE DEF f, made
<1>11. Cardinality(made) = n
  BY <1>1, <1>7, <1>9, <1>10, AllDifferent
<1>12. ASSUME NEW g \in made PROVE ~Unsafe(g.parts) /\ ~Junk(g.parts)
  BY <1>6, <1>7, <1>8
<1>13. ASSUME NEW g \in made, NEW h \in made, g # h PROVE ~IsPrefix(g.parts, h.parts)
  <2>1. PICK k \in 1..n : g = f[k]
    BY <1>7
  <2>2. PICK l \in 1..n : h = f[l]
    BY <1>7
  <2> QED BY <1>5, <1>8, <1>13, <2>1, <2>2
<1> QED BY <1>11, <1>12, <1>13 DEF NothingOverwritten, made, n, kept

\* A finite set is listed without repetition.
LEMMA SetListed ==
  ASSUME NEW S, IsFiniteSet(S)
  PROVE  /\ SetToSeq(S) \in [1..Cardinality(S) -> S] /\ IsInjective(SetToSeq(S))
         /\ {SetToSeq(S)[i] : i \in 1..Cardinality(S)} = S
         /\ Cardinality(S) \in Nat
<1> DEFINE n == Cardinality(S)
           f == SetToSeq(S)
           R == {f[i] : i \in 1..n}
<1>1. n \in Nat /\ ExistsBijection(1..n, S)
  BY FS_CardinalityType
<1>2. PICK b : b \in Bijection(1..n, S)
  BY <1>1 DEF ExistsBijection
<1>3. b \in [1..n -> S] /\ IsInjective(b)
  BY <1>2 DEF Bijection, Injection
<1>4. f \in [1..n -> S] /\ IsInjective(f)
  BY <1>3 DEF SetToSeq
<1>5. Cardinality(R) = n
  <2> HIDE DEF f, n
  <2>1. DOMAIN f = 1..n
    BY <1>4
  <2> QED BY <1>1, <1>4, <2>1, AllDifferent
<1>6. R \in SUBSET S
  BY <1>4
<1>7. R = S
  <2> HIDE DEF R
  <2> QED BY <1>5, <1>6, FS_Subset
<1> QED BY <1>1, <1>4, <1>7

\* What is packed: the files of the folder that are not junk, each once.
LEMMA PackedFiles ==
  ASSUME NEW folder, NEW top, FolderForm(folder, top)
  PROVE  LET p == PackFolder(folder)
         IN  /\ p \in Seq(MemberForm)
             /\ ToSet(p) = {f \in folder : ~Junk(f.parts)}
             /\ \A i \in 1..Len(p) : p[i] \in folder /\ ~p[i].dir /\ ~Junk(p[i].parts)
             /\ \A i, j \in 1..Len(p) : i # j => ~IsPrefix(p[i].parts, p[j].parts)
             /\ \E i \in 1..Len(p) : p[i].parts = <<"manifest">> /\ p[i].data = "good"
             /\ \E i \in 1..Len(p) : p[i].parts = <<"main">>
<1> DEFINE S == {f \in folder : ~Junk(f.parts)}
           p == PackFolder(folder)
           n == Cardinality(S)
<1>1. S \in SUBSET folder /\ folder \in SUBSET MemberForm /\ IsFiniteSet(S)
  <2>1. IsFiniteSet(folder) /\ S \in SUBSET folder
    BY DEF FolderForm
  <2> QED BY <2>1, FS_Subset DEF FolderForm
<1>2. \A f \in S : ~f.dir /\ ~Junk(f.parts) /\ \A g \in S : f # g => ~IsPrefix(f.parts, g.parts)
  BY DEF FolderForm
<1>3. \E f \in S : f.parts = <<"manifest">> /\ f.data = "good"
  <2>1. PICK f \in folder : f.parts = <<"manifest">> /\ f.data = "good"
    BY DEF FolderForm
  <2>2. ~Junk(f.parts)
    BY <2>1 DEF Junk, Last
  <2> QED BY <2>1, <2>2
<1>4. \E f \in S : f.parts = <<"main">>
  <2>1. PICK f \in folder : f.parts = <<"main">>
    BY DEF FolderForm
  <2>2. ~Junk(f.parts)
    BY <2>1 DEF Junk, Last
  <2> QED BY <2>1, <2>2
<1>5. p = SetToSeq(S)
  BY DEF PackFolder
<1> HIDE DEF S, p
<1>6. n \in Nat /\ p \in [1..n -> S] /\ IsInjective(p) /\ {p[i] : i \in 1..n} = S
  BY <1>1, <1>5, SetListed
<1> HIDE DEF n
<1>7. p \in Seq(MemberForm) /\ Len(p) = n /\ DOMAIN p = 1..n
  <2>1. p \in [1..n -> MemberForm]
    BY <1>1, <1>6
  <2> QED BY <1>6, <2>1
<1>8. ToSet(p) = S
  BY <1>6, <1>7 DEF ToSet
<1>9. \A i \in 1..n : p[i] \in S
  BY <1>6
<1>10. \A i, j \in 1..n : i # j => ~IsPrefix(p[i].parts, p[j].parts)
  <2> SUFFICES ASSUME NEW i \in 1..n, NEW j \in 1..n, i # j PROVE ~IsPrefix(p[i].parts, p[j].parts)
    OBVIOUS
  <2>1. p[i] # p[j]
    BY <1>6, <1>7 DEF IsInjective
  <2> QED BY <1>2, <1>9, <2>1
<1>11. /\ \E i \in 1..n : p[i].parts = <<"manifest">> /\ p[i].data = "good"
       /\ \E i \in 1..n : p[i].parts = <<"main">>
  BY <1>3, <1>4, <1>6
<1>12. \A i \in 1..n : p[i] \in folder /\ ~p[i].dir /\ ~Junk(p[i].parts)
  BY <1>1, <1>2, <1>9
<1> QED BY <1>7, <1>8, <1>10, <1>11, <1>12 DEF S, p

\* Members that are all kept, one of them the manifest at the root, are
\* arranged as they are.
LEMMA KeptWhole ==
  ASSUME NEW p \in Seq(MemberForm), \A i \in 1..Len(p) : ~p[i].dir /\ ~Junk(p[i].parts)
  PROVE  Kept(p) = p
<1> DEFINE n == Len(p)
           v == [i \in 1..n |-> p[i]]
           kept == KeptOf(n, v, (0 + 1)..(0 + n))
<1>1. n \in Nat /\ v \in [1..n -> MemberForm] /\ DOMAIN p = 1..n
  BY Indexed
<1>2. KeptAt(p) = (0 + 1)..(0 + n)
  <2>1. \A i \in 1..n : i \in KeptAt(p)
    BY DEF KeptAt
  <2>2. KeptAt(p) \subseteq 1..n
    BY DEF KeptAt
  <2>3. (0 + 1)..(0 + n) = 1..n
    BY <1>1
  <2> QED BY <2>1, <2>2, <2>3
<1>3. Kept(p) = kept
  BY <1>2, KeptIsKept
<1>4. 0 \in Nat /\ 0 + n <= n
  BY <1>1
<1>5. \A x \in 1..n : v[0 + x] = p[x]
  OBVIOUS
<1> HIDE DEF n, v
<1>6. kept \in Seq(MemberForm) /\ Len(kept) = n /\ \A x \in 1..n : kept[x] = v[0 + x]
  <2> DEFINE lo == 0
  <2>1. lo \in Nat /\ lo + n <= n
    BY <1>4
  <2>2. kept = KeptOf(n, v, (lo + 1)..(lo + n))
    OBVIOUS
  <2> HIDE DEF lo, kept
  <2>3. RunOf(MemberForm, v, lo, n, kept)
    BY <1>1, <2>1, <2>2, KeptRun
  <2> QED BY <2>3 DEF lo, RunOf
<1> HIDE DEF kept
<1>7. kept \in Seq(MemberForm) /\ Len(kept) = Len(p) /\ \A x \in 1..Len(p) : kept[x] = p[x]
  BY <1>5, <1>6 DEF n
<1>8. kept = p
  BY <1>7
<1> QED BY <1>3, <1>8

\* What unpacking makes of members whose arrangement is known.
LEMMA InstalledAs ==
  ASSUME NEW members, NEW p, Arranged(members) = p, AtRoot(p), ~Collide(p),
         LoadPackage({[parts |-> m.parts, data |-> m.data] : m \in ToSet(p)})
  PROVE  InstallArchive(members) =
            IF \/ Len(members) > 2 * MaxMembers \/ \E m \in ToSet(members) : Unsafe(m.parts)
               \/ \E m \in ToSet(p) : m.form # "plain"
               \/ Bytes(p) > MaxPacked \/ Len(p) > MaxMembers
            THEN RefusedArchive
            ELSE Answer("ok", {[parts |-> m.parts, data |-> m.data] : m \in ToSet(p)})
BY DEF InstallArchive

\* A path under another folder.
LEMMA PathUnder ==
  ASSUME NEW t \in PathNames, NEW q \in Seq(PathNames), q # <<>>
  PROVE  /\ <<t>> \o q \in Seq(PathNames) \ {<<>>} /\ Len(<<t>> \o q) = Len(q) + 1 /\ Len(q) \in Nat \ {0}
         /\ (<<t>> \o q)[1] = t /\ Tail(<<t>> \o q) = q
         /\ Unsafe(<<t>> \o q) <=> t = "unsafe" \/ Unsafe(q)
         /\ Junk(<<t>> \o q) <=> t = "junk" \/ Junk(q)
<1> DEFINE one == <<t>>
           r == one \o q
           n == Len(q)
<1>1. one \in Seq(PathNames) /\ Len(one) = 1 /\ one[1] = t /\ Len(one) \in Nat
  OBVIOUS
<1>2. n \in Nat \ {0} /\ DOMAIN q = 1..n
  BY Indexed
<1> HIDE DEF one, n
<1>3. /\ r \in Seq(PathNames) /\ Len(r) = Len(one) + Len(q)
      /\ \A k \in 1..Len(one) : r[k] = one[k]
      /\ \A j \in 1..Len(q) : r[Len(one) + j] = q[j]
  <2>1. one \in Seq(PathNames) /\ q \in Seq(PathNames)
    BY <1>1
  <2> QED BY ONLY <2>1, Appended
<1>4. Len(r) = n + 1 /\ r[1] = t /\ \A j \in 1..n : r[1 + j] = q[j]
  <2>1. Len(r) = 1 + n
    BY <1>1, <1>3 DEF n
  <2>2. r[1] = t
    BY <1>1, <1>3
  <2>3. \A j \in 1..n : r[1 + j] = q[j]
    BY <1>1, <1>3 DEF n
  <2> HIDE DEF r
  <2> QED BY <1>2, <2>1, <2>2, <2>3
<1> HIDE DEF r
<1>5. r # <<>> /\ DOMAIN r = 1..(n + 1)
  <2>1. Len(r) # 0
    BY <1>2, <1>4
  <2> QED BY <1>3, <1>4, <2>1, Indexed
<1>6. Tail(r) = q
  <2>1. /\ Tail(r) \in Seq(PathNames) /\ Len(Tail(r)) = Len(r) - 1
        /\ \A i \in 1..(Len(r) - 1) : Tail(r)[i] = r[i + 1]
    BY <1>3, <1>5
  <2>2. Len(Tail(r)) = n /\ \A i \in 1..n : Tail(r)[i] = q[i]
    <3>1. Len(r) - 1 = n
      BY <1>2, <1>4
    <3>2. \A i \in 1..n : Tail(r)[i] = r[i + 1] /\ i + 1 = 1 + i
      BY <1>2, <2>1, <3>1
    <3> QED BY <1>4, <2>1, <3>1, <3>2
  <2> DEFINE u == Tail(r)
  <2>3. u \in Seq(PathNames) /\ Len(u) = Len(q) /\ \A i \in 1..Len(q) : u[i] = q[i]
    BY <2>1, <2>2 DEF n
  <2> HIDE DEF u
  <2>4. u = q
    BY <2>3
  <2> QED BY <2>4 DEF u
<1>7. \A x : (\E i \in DOMAIN r : r[i] = x) <=> t = x \/ \E j \in DOMAIN q : q[j] = x
  <2> SUFFICES ASSUME NEW x
               PROVE  (\E i \in DOMAIN r : r[i] = x) <=> t = x \/ \E j \in DOMAIN q : q[j] = x
    OBVIOUS
  <2>1. ASSUME NEW i \in DOMAIN r, r[i] = x PROVE t = x \/ \E j \in DOMAIN q : q[j] = x
    <3>1. CASE i = 1
      BY <1>4, <2>1, <3>1
    <3>2. CASE i # 1
      <4>1. i - 1 \in 1..n /\ 1 + (i - 1) = i
        BY <1>2, <1>5, <3>2
      <4>2. q[i - 1] = x
        BY <1>4, <2>1, <4>1
      <4> QED BY <1>2, <4>1, <4>2
    <3> QED BY <3>1, <3>2
  <2>2. ASSUME t = x PROVE \E i \in DOMAIN r : r[i] = x
    <3>1. 1 \in 1..(n + 1)
      BY <1>2
    <3> QED BY <1>4, <1>5, <2>2, <3>1
  <2>3. ASSUME NEW j \in DOMAIN q, q[j] = x PROVE \E i \in DOMAIN r : r[i] = x
    <3>1. j \in 1..n /\ 1 + j \in 1..(n + 1)
      BY <1>2
    <3> QED BY <1>4, <1>5, <2>3, <3>1
  <2> QED BY <2>1, <2>2, <2>3
<1>8. Last(r) = Last(q)
  <2>1. n \in 1..n /\ 1 + n = n + 1
    BY <1>2
  <2>2. r[n + 1] = q[n]
    BY <1>4, <2>1
  <2> QED BY <1>4, <2>2 DEF Last, n
<1>9. Unsafe(r) <=> t = "unsafe" \/ Unsafe(q)
  BY <1>7 DEF Unsafe
<1>10. Junk(r) <=> t = "junk" \/ Junk(q)
  BY <1>7, <1>8 DEF Junk
<1>11. Len(r) = Len(q) + 1 /\ Len(q) \in Nat \ {0}
  BY <1>2, <1>4 DEF n
<1> QED BY <1>3, <1>4, <1>5, <1>6, <1>9, <1>10, <1>11 DEF r, one

\* Files under another folder.
Under(t, p) == [i \in DOMAIN p |-> [p[i] EXCEPT !.parts = <<t>> \o @]]

LEMMA FilesUnder ==
  ASSUME NEW t \in PathNames, NEW p \in Seq(MemberForm)
  PROVE  LET u == Under(t, p)
         IN  /\ u \in Seq(MemberForm) /\ Len(u) = Len(p) /\ DOMAIN u = 1..Len(p)
             /\ \A i \in 1..Len(p) :
                   /\ u[i].parts[1] = t /\ Len(u[i].parts) >= 2 /\ u[i].dir = p[i].dir
                   /\ [u[i] EXCEPT !.parts = Tail(@)] = p[i]
                   /\ Unsafe(u[i].parts) <=> t = "unsafe" \/ Unsafe(p[i].parts)
                   /\ Junk(u[i].parts) <=> t = "junk" \/ Junk(p[i].parts)
<1> DEFINE u == Under(t, p)
           n == Len(p)
<1>1. n \in Nat /\ DOMAIN p = 1..n /\ \A i \in 1..n : p[i] \in MemberForm
  BY Indexed
<1>2. u = [i \in 1..n |-> [p[i] EXCEPT !.parts = <<t>> \o @]]
  BY <1>1 DEF Under
<1>3. ASSUME NEW i \in 1..n
      PROVE  /\ u[i] \in MemberForm
             /\ u[i].parts[1] = t /\ Len(u[i].parts) >= 2 /\ u[i].dir = p[i].dir
             /\ [u[i] EXCEPT !.parts = Tail(@)] = p[i]
             /\ Unsafe(u[i].parts) <=> t = "unsafe" \/ Unsafe(p[i].parts)
             /\ Junk(u[i].parts) <=> t = "junk" \/ Junk(p[i].parts)
  <2> DEFINE m == p[i]
             q == m.parts
             r == <<t>> \o q
             w == [m EXCEPT !.parts = r]
  <2>1. u[i] = w /\ m \in MemberForm
    BY <1>1, <1>2
  <2> HIDE DEF m
  <2>2. q \in Seq(PathNames) /\ q # <<>>
    BY <2>1 DEF MemberForm
  <2> HIDE DEF q
  <2>3. /\ r \in Seq(PathNames) \ {<<>>} /\ Len(r) = Len(q) + 1 /\ Len(q) \in Nat \ {0}
        /\ r[1] = t /\ Tail(r) = q
        /\ Unsafe(r) <=> t = "unsafe" \/ Unsafe(q)
        /\ Junk(r) <=> t = "junk" \/ Junk(q)
    BY <2>2, PathUnder
  <2>4. Len(r) >= 2
    <3> DEFINE k == Len(q)
    <3>1. k \in Nat /\ k # 0 /\ Len(r) = k + 1
      BY <2>3
    <3> HIDE DEF k, r
    <3> QED BY <3>1
  <2> HIDE DEF r
  <2>5. w \in MemberForm /\ w.parts = r /\ w.dir = m.dir
    BY <2>1, <2>3 DEF MemberForm
  <2>6. [w EXCEPT !.parts = Tail(@)] = m
    BY <2>1, <2>3 DEF MemberForm, q
  <2> HIDE DEF w
  <2> QED BY <2>1, <2>3, <2>4, <2>5, <2>6 DEF m, q
<1>4. u \in Seq(MemberForm) /\ Len(u) = n /\ DOMAIN u = 1..n
  <2>1. u \in [1..n -> MemberForm]
    BY <1>2, <1>3
  <2> HIDE DEF u, n
  <2> QED BY <1>1, <2>1
<1> QED BY <1>3, <1>4

\* Under one folder, the members are what they are without it.
LEMMA FolderStripped ==
  ASSUME NEW t \in PathNames, NEW p \in Seq(MemberForm), Len(p) # 0
  PROVE  StripTop(Under(t, p)) = p
<1> DEFINE u == Under(t, p)
           n == Len(p)
<1>1. /\ u \in Seq(MemberForm) /\ DOMAIN u = 1..n
      /\ \A i \in 1..n : u[i].parts[1] = t /\ Len(u[i].parts) >= 2 /\ [u[i] EXCEPT !.parts = Tail(@)] = p[i]
  <2>1. /\ u \in Seq(MemberForm) /\ Len(u) = Len(p) /\ DOMAIN u = 1..Len(p)
        /\ \A i \in 1..Len(p) :
              /\ u[i].parts[1] = t /\ Len(u[i].parts) >= 2 /\ u[i].dir = p[i].dir
              /\ [u[i] EXCEPT !.parts = Tail(@)] = p[i]
              /\ Unsafe(u[i].parts) <=> t = "unsafe" \/ Unsafe(p[i].parts)
              /\ Junk(u[i].parts) <=> t = "junk" \/ Junk(p[i].parts)
    <3>1. t \in PathNames /\ p \in Seq(MemberForm)
      OBVIOUS
    <3> QED BY ONLY <3>1, FilesUnder
  <2> HIDE DEF u
  <2> QED BY <2>1
<1>2. n \in Nat /\ n # 0 /\ DOMAIN p = 1..n
  BY Indexed
<1> HIDE DEF u, n
<1>3. ToSet(u) = {u[i] : i \in 1..n}
  BY <1>1 DEF ToSet
<1>4. ~AtRoot(u)
  <2>1. \A i \in 1..n : u[i].parts # <<"manifest">>
    <3> SUFFICES ASSUME NEW i \in 1..n, u[i].parts = <<"manifest">> PROVE FALSE
      OBVIOUS
    <3>1. Len(<<"manifest">>) = 1
      OBVIOUS
    <3>2. Len(u[i].parts) = 1
      BY <3>1
    <3>3. Len(u[i].parts) >= 2
      BY <1>1
    <3> QED BY <3>2, <3>3
  <2> QED BY <1>3, <2>1 DEF AtRoot
<1>5. {m.parts[1] : m \in ToSet(u)} = {t}
  <2>1. n \in Nat /\ n # 0
    BY <1>2
  <2>2. \A k \in Nat : k # 0 => 1 \in 1..k
    OBVIOUS
  <2>3. 1 \in 1..n
    BY <2>1, <2>2
  <2>4. \A m \in ToSet(u) : m.parts[1] = t
    <3>1. \A i \in 1..n : u[i].parts[1] = t
      BY <1>1
    <3>2. \A m \in ToSet(u) : \E i \in 1..n : m = u[i]
      BY <1>3
    <3> QED BY <3>1, <3>2
  <2>5. u[1] \in ToSet(u)
    BY <1>3, <2>3
  <2> QED BY <2>4, <2>5
<1>6. Cardinality({m.parts[1] : m \in ToSet(u)}) = 1
  BY <1>5, FS_Singleton
<1>7. ~\E m \in ToSet(u) : Len(m.parts) = 1
  <2>1. \A i \in 1..n : Len(u[i].parts) >= 2
    BY <1>1
  <2>2. ASSUME NEW k, k >= 2 PROVE k # 1
    BY ONLY k >= 2
  <2> QED BY <1>3, <2>1, <2>2
<1>8. StripTop(u) = [i \in DOMAIN u |-> [u[i] EXCEPT !.parts = Tail(@)]]
  BY <1>4, <1>6, <1>7 DEF StripTop
<1>9. [i \in DOMAIN u |-> [u[i] EXCEPT !.parts = Tail(@)]] = [i \in 1..n |-> p[i]]
  BY <1>1
<1>10. p = [i \in 1..n |-> p[i]]
  BY <1>2
<1> QED BY <1>8, <1>9, <1>10 DEF u

-----------------------------------------------------------------------------
(* Folds.                                                                  *)

\* What FoldLeft computes from, for every part of a sequence's domain: the
\* largest index last.
FoldOf(X, b, n, G, g) ==
  /\ g \in [SUBSET (1..n) -> X] /\ g[{}] = b
  /\ \A S \in SUBSET (1..n) : S # {} => g[S] = G[Max(S)][g[S \ {Max(S)}]]

LEMMA LargestOf ==
  ASSUME NEW n \in Nat, NEW S \in SUBSET (1..n), S # {}
  PROVE  Max(S) \in S /\ Max(S) \in 1..n /\ \A i \in S : i <= Max(S)
BY FirstIsOne

LEMMA FoldExists ==
  ASSUME NEW X, NEW b \in X, NEW n \in Nat, NEW G, G \in [1..n -> [X -> X]]
  PROVE  \E g : FoldOf(X, b, n, G, g)
<1> DEFINE D == SUBSET (1..n)
           Y == [D -> X]
           Next1(h) == [S \in D |-> IF S = {} THEN b ELSE G[Max(S)][h[S \ {Max(S)}]]]
           c == [S \in D |-> b]
           H == [k \in Nat |-> [h \in Y |-> Next1(h)]]
<1>1. \A S \in D : S # {} => /\ Max(S) \in S /\ Max(S) \in 1..n /\ S \ {Max(S)} \in D
                             /\ \A i \in S : i <= Max(S)
  BY LargestOf
<1>2. c \in Y
  OBVIOUS
<1>3. \A h \in Y : Next1(h) \in Y
  BY <1>1
<1>4. H \in [Nat -> [Y -> Y]]
  <2> HIDE DEF Next1, Y
  <2> QED BY <1>3
<1>5. PICK F : F \in [Nat -> Y] /\ F[0] = c /\ \A k \in Nat : F[k + 1] = H[k][F[k]]
  <2>1. \E F : Recursive(Y, c, H, F)
    <3> HIDE DEF Y, c, H
    <3> QED BY <1>2, <1>4, Recursion
  <2> HIDE DEF Y, c, H
  <2> QED BY <2>1 DEF Recursive
<1>6. \A k \in Nat : F[k] \in Y /\ F[k + 1] = Next1(F[k])
  <2> HIDE DEF Next1, Y, c
  <2> QED BY <1>5
<1>7. \A k \in Nat : F[k][{}] = b
  <2> DEFINE Z == {k \in Nat : F[k][{}] = b}
  <2>1. 0 \in Z
    BY <1>5
  <2>2. ASSUME NEW k \in Nat, k \in Z PROVE k + 1 \in Z
    <3>1. F[k + 1] = Next1(F[k])
      BY <1>6
    <3>2. {} \in D
      OBVIOUS
    <3>3. F[k + 1][{}] = b
      BY <3>1, <3>2
    <3> QED BY <3>3
  <2>3. Nat \subseteq Z
    <3> HIDE DEF Z
    <3> QED BY <2>1, <2>2, FromOneToNext
  <2> QED BY <2>3
<1>8. \A k \in Nat : \A S \in D : S # {} => F[k + 1][S] = G[Max(S)][F[k][S \ {Max(S)}]]
  BY <1>6
<1> HIDE DEF H, c, Next1
<1>9. \A k \in Nat : \A S \in D : S \subseteq 1..k => F[k + 1][S] = F[k][S]
  <2> DEFINE Z == {k \in Nat : \A S \in D : S \subseteq 1..k => F[k + 1][S] = F[k][S]}
  <2>1. 0 \in Z
    <3>1. 1..0 = {}
      OBVIOUS
    <3>2. F[0 + 1][{}] = F[0][{}]
      BY <1>7
    <3> QED BY <3>1, <3>2
  <2>2. ASSUME NEW k \in Nat, k \in Z PROVE k + 1 \in Z
    <3> SUFFICES ASSUME NEW S \in D, S \subseteq 1..(k + 1) PROVE F[(k + 1) + 1][S] = F[k + 1][S]
      OBVIOUS
    <3>1. CASE S = {}
      BY <1>7, <3>1
    <3>2. CASE S # {}
      <4> DEFINE m == Max(S)
                 R == S \ {m}
      <4>1. m \in S /\ R \in D /\ \A i \in S : i <= m
        BY <1>1, <3>2
      <4>2. R \subseteq 1..k
        <5> SUFFICES ASSUME NEW i \in R PROVE i \in 1..k
          OBVIOUS
        <5>1. i <= m /\ i # m /\ i \in 1..(k + 1) /\ m \in 1..(k + 1)
          BY <4>1
        <5> HIDE DEF m, R
        <5> QED BY <5>1
      <4>3. F[k + 1][R] = F[k][R]
        <5> HIDE DEF m, R
        <5> QED BY <2>2, <4>1, <4>2
      <4>4. F[(k + 1) + 1][S] = G[m][F[k + 1][R]] /\ F[k + 1][S] = G[m][F[k][R]]
        BY <1>8, <3>2
      <4> QED BY <4>3, <4>4
    <3> QED BY <3>1, <3>2
  <2>3. Nat \subseteq Z
    <3> HIDE DEF Z
    <3> QED BY <2>1, <2>2, FromOneToNext
  <2> QED BY <2>3
<1> DEFINE g == F[n]
<1>10. g \in Y /\ g[{}] = b
  BY <1>6, <1>7
<1>11. ASSUME NEW S \in D, S # {} PROVE g[S] = G[Max(S)][g[S \ {Max(S)}]]
  <2>1. F[n + 1][S] = F[n][S]
    BY <1>9
  <2>2. F[n + 1][S] = G[Max(S)][F[n][S \ {Max(S)}]]
    BY <1>8, <1>11
  <2> QED BY <2>1, <2>2
<1>12. FoldOf(X, b, n, G, g)
  <2> HIDE DEF g
  <2> QED BY <1>10, <1>11 DEF FoldOf
<1> QED BY <1>12

\* What is folded the same way, and what a fold is from one index to the next.
FoldLike(X, b, n, G, h) ==
  /\ h[{}] = b
  /\ \A S \in SUBSET (1..n) : S # {} /\ h[S \ {Max(S)}] \in X => h[S] = G[Max(S)][h[S \ {Max(S)}]]
FoldRow(X, b, n, G, g, h) ==
  /\ g[1..0] = b /\ \A k \in 1..n : g[1..k] = G[k][g[1..(k - 1)]] /\ g[1..(k - 1)] \in X
  /\ \A k \in 0..n : g[1..k] \in X /\ h[1..k] = g[1..k]

\* A fold goes through the domain from one index to the next, and nothing
\* else that is folded as it is gives another value.
LEMMA FoldAlong ==
  ASSUME NEW X, NEW b \in X, NEW n \in Nat, NEW G, G \in [1..n -> [X -> X]], NEW g, FoldOf(X, b, n, G, g),
         NEW h, FoldLike(X, b, n, G, h)
  PROVE  FoldRow(X, b, n, G, g, h)
<1>1. ASSUME NEW k \in 1..n PROVE /\ 1..k \in SUBSET (1..n) /\ 1..k # {} /\ Max(1..k) = k
                                  /\ (1..k) \ {k} = 1..(k - 1)
  <2> DEFINE S == 1..k
             m == Max(S)
  <2>1. S \in SUBSET (1..n) /\ k \in S /\ S # {} /\ S \subseteq 1..k /\ k \in Nat
    <3>1. k \in S /\ k \in Nat
      OBVIOUS
    <3>2. \A i \in S : i \in 1..n
      OBVIOUS
    <3> HIDE DEF S
    <3> QED BY <3>1, <3>2 DEF S
  <2>2. m \in S /\ \A i \in S : i <= m
    BY <2>1, LargestOf
  <2>3. m = k
    <3>1. m \in 1..k /\ k <= m
      BY <2>1, <2>2
    <3> HIDE DEF m
    <3> QED BY <2>1, <3>1
  <2>4. (1..k) \ {k} = 1..(k - 1)
    OBVIOUS
  <2> QED BY <2>1, <2>3, <2>4
<1>2. 1..0 = {}
  OBVIOUS
<1>3. g[1..0] = b /\ \A k \in 0..n : g[1..k] \in X
  <2>1. \A k \in 0..n : 1..k \in SUBSET (1..n)
    OBVIOUS
  <2> QED BY <1>2, <2>1 DEF FoldOf
<1>4. \A k \in 1..n : g[1..k] = G[k][g[1..(k - 1)]] /\ g[1..(k - 1)] \in X
  <2> SUFFICES ASSUME NEW k \in 1..n PROVE g[1..k] = G[k][g[1..(k - 1)]] /\ g[1..(k - 1)] \in X
    OBVIOUS
  <2>1. k - 1 \in 0..n /\ g[1..(k - 1)] \in X
    <3>1. k - 1 \in 0..n
      OBVIOUS
    <3> QED BY <1>3, <3>1
  <2> DEFINE S == 1..k
             R == 1..(k - 1)
  <2>2. S \in SUBSET (1..n) /\ S # {} /\ Max(S) = k /\ S \ {k} = R
    BY <1>1
  <2> HIDE DEF S, R
  <2>3. g[S] = G[Max(S)][g[S \ {Max(S)}]]
    BY <2>2 DEF FoldOf
  <2> QED BY <2>1, <2>2, <2>3 DEF S, R
<1>5. ASSUME NEW k \in 1..n, h[1..(k - 1)] = g[1..(k - 1)] PROVE h[1..k] = g[1..k]
  <2> DEFINE S == 1..k
             R == 1..(k - 1)
  <2>1. S \in SUBSET (1..n) /\ S # {} /\ Max(S) = k /\ S \ {k} = R /\ h[R] = g[R] /\ g[R] \in X /\ g[S] = G[k][g[R]]
    BY <1>1, <1>4, <1>5
  <2> HIDE DEF S, R
  <2>2. h[S] = G[Max(S)][h[S \ {Max(S)}]]
    BY <2>1 DEF FoldLike
  <2>3. h[S] = g[S]
    BY <2>1, <2>2
  <2> QED BY <2>3 DEF S
<1>6. \A k \in 0..n : h[1..k] = g[1..k]
  <2> DEFINE Z == {k \in Nat : k <= n => h[1..k] = g[1..k]}
  <2>1. 0 \in Z
    BY <1>2, <1>3 DEF FoldLike
  <2>2. ASSUME NEW k \in Nat, k \in Z PROVE k + 1 \in Z
    <3> SUFFICES ASSUME k + 1 <= n PROVE h[1..(k + 1)] = g[1..(k + 1)]
      OBVIOUS
    <3>1. k + 1 \in 1..n /\ (k + 1) - 1 = k /\ h[1..k] = g[1..k]
      BY <2>2
    <3> QED BY <1>5, <3>1
  <2>3. Nat \subseteq Z
    <3> HIDE DEF Z
    <3> QED BY <2>1, <2>2, FromOneToNext
  <2> QED BY <2>3
<1> QED BY <1>3, <1>4, <1>6 DEF FoldRow

\* The bytes of a sequence of members are a number.
LEMMA BytesAreNumber ==
  ASSUME NEW members \in Seq(MemberForm)
  PROVE  Bytes(members) \in Nat
<1> DEFINE n == Len(members)
           G == [i \in 1..n |-> [x \in Nat |-> x + members[i].size]]
           Is(h) == h = [S \in SUBSET (1..n) |-> IF S = {} THEN 0 ELSE h[S \ {Max(S)}] + members[Max(S)].size]
           it == CHOOSE h : Is(h)
<1>1. n \in Nat /\ DOMAIN members = 1..n /\ \A i \in 1..n : members[i] \in MemberForm
  BY Indexed
<1> HIDE DEF n
<1>2. \A i \in 1..n : members[i].size \in Nat
  BY <1>1 DEF MemberForm
<1>3. G \in [1..n -> [Nat -> Nat]] /\ 0 \in Nat
  BY <1>2
<1>4. PICK g : FoldOf(Nat, 0, n, G, g)
  <2> DEFINE b == 0
  <2>1. b \in Nat
    OBVIOUS
  <2> HIDE DEF G, b
  <2>2. \E g : FoldOf(Nat, b, n, G, g)
    BY <1>1, <1>3, <2>1, FoldExists
  <2> QED BY <2>2 DEF b
<1>5. Is(g)
  <2>1. \A S \in SUBSET (1..n) : S # {} => /\ Max(S) \in 1..n /\ S \ {Max(S)} \in SUBSET (1..n)
    BY <1>1, LargestOf
  <2>2. \A S \in SUBSET (1..n) : g[S] = IF S = {} THEN 0 ELSE g[S \ {Max(S)}] + members[Max(S)].size
    BY <1>4, <2>1 DEF FoldOf
  <2>3. g = [S \in SUBSET (1..n) |-> g[S]]
    BY <1>4 DEF FoldOf
  <2> QED BY <2>2, <2>3
<1>6. Is(it)
  <2> HIDE DEF Is
  <2> QED BY <1>5
<1>7. Bytes(members) = it[1..n]
  BY <1>1, Zenon DEF Bytes, FoldLeft, MapThenFoldSet
<1> HIDE DEF it
<1>8. it[{}] = 0
  <2>1. {} \in SUBSET (1..n)
    OBVIOUS
  <2> QED BY <1>6, <2>1
<1>9. \A S \in SUBSET (1..n) : S # {} /\ it[S \ {Max(S)}] \in Nat => it[S] = G[Max(S)][it[S \ {Max(S)}]]
  <2> SUFFICES ASSUME NEW S \in SUBSET (1..n), S # {}, it[S \ {Max(S)}] \in Nat
               PROVE  it[S] = G[Max(S)][it[S \ {Max(S)}]]
    OBVIOUS
  <2>1. Max(S) \in 1..n
    BY <1>1, LargestOf
  <2>2. it[S] = it[S \ {Max(S)}] + members[Max(S)].size
    BY <1>6
  <2> HIDE DEF Is
  <2> QED BY <2>1, <2>2
<1>10. it[1..n] \in Nat
  <2> DEFINE b == 0
  <2>1. b \in Nat /\ FoldOf(Nat, b, n, G, g) /\ it[{}] = b
    BY <1>4, <1>8
  <2>2. n \in 0..n
    BY <1>1
  <2> HIDE DEF G, Is, b
  <2> DEFINE X == Nat
  <2>3. n \in Nat /\ b \in X /\ G \in [1..n -> [X -> X]] /\ FoldOf(X, b, n, G, g)
    BY <1>1, <1>3, <2>1
  <2>4. FoldLike(X, b, n, G, it)
    BY <1>8, <1>9 DEF FoldLike, b, X
  <2> HIDE DEF X
  <2>5. FoldRow(X, b, n, G, g, it)
    BY ONLY <2>3, <2>4, FoldAlong
  <2> QED BY <2>2, <2>5 DEF X, FoldRow
<1> QED BY <1>7, <1>10

\* The zip a desktop makes: the folder, its files under it, a sidecar of each.
DesktopOf(p, top) ==
  <<[Head(p) EXCEPT !.parts = <<top>>, !.dir = TRUE]>> \o Under(top, p) \o Under("junk", p)

LEMMA DesktopZip ==
  ASSUME NEW p \in Seq(MemberForm), Len(p) # 0, NEW top \in PathNames
  PROVE  LET w == DesktopOf(p, top)
             n == Len(p)
         IN  /\ w \in Seq(MemberForm) /\ Len(w) = 2 * n + 1 /\ w[1].dir /\ w[1].parts = <<top>>
             /\ \A i \in 1..n : w[1 + i] = Under(top, p)[i] /\ w[(1 + n) + i] = Under("junk", p)[i]
<1> DEFINE n == Len(p)
           d == [Head(p) EXCEPT !.parts = <<top>>, !.dir = TRUE]
           u == Under(top, p)
           v == Under("junk", p)
           one == <<d>>
           a == one \o u
           w == a \o v
<1>1. n \in Nat /\ n # 0 /\ Head(p) \in MemberForm
  <2>1. DOMAIN p = 1..n /\ n \in Nat /\ n # 0 /\ Head(p) = p[1]
    BY Indexed
  <2>2. 1 \in 1..n
    BY <2>1
  <2>3. p[1] \in MemberForm
    BY <2>1, <2>2
  <2> QED BY <2>1, <2>3
<1>2. d \in MemberForm /\ d.dir /\ d.parts = <<top>>
  <2> DEFINE m == Head(p)
             r == <<top>>
  <2>1. m \in MemberForm /\ r \in Seq(PathNames) \ {<<>>}
    BY <1>1
  <2> HIDE DEF m, r
  <2>2. [m EXCEPT !.parts = r, !.dir = TRUE] \in MemberForm
    BY <2>1 DEF MemberForm
  <2>3. [m EXCEPT !.parts = r, !.dir = TRUE].dir /\ [m EXCEPT !.parts = r, !.dir = TRUE].parts = r
    BY <2>1 DEF MemberForm
  <2> QED BY <2>2, <2>3 DEF m, r
<1> HIDE DEF d
<1>3. one \in Seq(MemberForm) /\ Len(one) = 1 /\ one[1] = d
  BY <1>2
<1>4. u \in Seq(MemberForm) /\ Len(u) = n
  BY FilesUnder
<1>5. v \in Seq(MemberForm) /\ Len(v) = n
  <2> DEFINE t == "junk"
  <2>1. t \in PathNames
    BY DEF PathNames
  <2> HIDE DEF t
  <2>2. Under(t, p) \in Seq(MemberForm) /\ Len(Under(t, p)) = n
    BY <2>1, FilesUnder
  <2> QED BY <2>2 DEF t
<1> HIDE DEF u, v, one, n
<1>6. /\ a \in Seq(MemberForm) /\ Len(a) = Len(one) + Len(u)
      /\ \A k \in 1..Len(one) : a[k] = one[k]
      /\ \A j \in 1..Len(u) : a[Len(one) + j] = u[j]
  <2>1. one \in Seq(MemberForm) /\ u \in Seq(MemberForm)
    BY <1>3, <1>4
  <2> QED BY ONLY <2>1, Appended
<1>7. a \in Seq(MemberForm) /\ Len(a) = 1 + n /\ a[1] = d /\ \A j \in 1..n : a[1 + j] = u[j]
  <2> HIDE DEF a
  <2> QED BY <1>1, <1>3, <1>4, <1>6
<1> HIDE DEF a
<1>8. /\ w \in Seq(MemberForm) /\ Len(w) = Len(a) + Len(v)
      /\ \A k \in 1..Len(a) : w[k] = a[k]
      /\ \A j \in 1..Len(v) : w[Len(a) + j] = v[j]
  <2>1. a \in Seq(MemberForm) /\ v \in Seq(MemberForm)
    BY <1>5, <1>7
  <2> QED BY ONLY <2>1, Appended
<1> HIDE DEF w
<1>9. Len(w) = 2 * n + 1 /\ w[1] = d
  <2>1. 1 \in 1..(1 + n) /\ (1 + n) + n = 2 * n + 1
    BY <1>1
  <2> QED BY <1>5, <1>7, <1>8, <2>1
<1>10. \A i \in 1..n : w[1 + i] = u[i] /\ w[(1 + n) + i] = v[i]
  <2>1. \A i \in 1..n : 1 + i \in 1..(1 + n)
    BY <1>1
  <2> QED BY <1>5, <1>7, <1>8, <2>1
<1>11. w = DesktopOf(p, top)
  BY DEF DesktopOf, w, a, one, d, u, v
<1> QED BY <1>2, <1>8, <1>9, <1>10, <1>11 DEF n, u, v

\* What is left of it is the folder, and it is as safe as the folder.
LEMMA DesktopArranged ==
  ASSUME NEW p \in Seq(MemberForm), Len(p) # 0, NEW top \in PathNames \ {"junk", "unsafe"},
         \A i \in 1..Len(p) : ~p[i].dir /\ ~Junk(p[i].parts)
  PROVE  /\ Arranged(DesktopOf(p, top)) = p /\ Len(DesktopOf(p, top)) = 2 * Len(p) + 1
         /\ (\E m \in ToSet(DesktopOf(p, top)) : Unsafe(m.parts)) <=> \E m \in ToSet(p) : Unsafe(m.parts)
<1> DEFINE w == DesktopOf(p, top)
           n == Len(p)
           u == Under(top, p)
           v == Under("junk", p)
           l == 2 * n + 1
<1>1. n \in Nat /\ n # 0 /\ DOMAIN p = 1..n
  BY Indexed
<1>2. /\ w \in Seq(MemberForm) /\ Len(w) = l /\ w[1].dir /\ w[1].parts = <<top>>
      /\ \A i \in 1..n : w[1 + i] = u[i] /\ w[(1 + n) + i] = v[i]
  BY DesktopZip
<1>3. /\ u \in Seq(MemberForm) /\ Len(u) = n
      /\ \A i \in 1..n : /\ u[i].dir = p[i].dir
                         /\ Unsafe(u[i].parts) <=> Unsafe(p[i].parts)
                         /\ Junk(u[i].parts) <=> Junk(p[i].parts)
  <2>1. LET x == Under(top, p)
        IN  /\ x \in Seq(MemberForm) /\ Len(x) = Len(p) /\ DOMAIN x = 1..Len(p)
            /\ \A i \in 1..Len(p) :
                  /\ x[i].parts[1] = top /\ Len(x[i].parts) >= 2 /\ x[i].dir = p[i].dir
                  /\ [x[i] EXCEPT !.parts = Tail(@)] = p[i]
                  /\ Unsafe(x[i].parts) <=> top = "unsafe" \/ Unsafe(p[i].parts)
                  /\ Junk(x[i].parts) <=> top = "junk" \/ Junk(p[i].parts)
    <3>1. top \in PathNames /\ p \in Seq(MemberForm)
      OBVIOUS
    <3> QED BY ONLY <3>1, FilesUnder
  <2>2. top # "junk" /\ top # "unsafe"
    OBVIOUS
  <2> QED BY <2>1, <2>2
<1>4. \A i \in 1..n : /\ Unsafe(v[i].parts) <=> Unsafe(p[i].parts)
                      /\ Junk(v[i].parts)
  <2> DEFINE t == "junk"
  <2>1. t \in PathNames /\ t # "unsafe" /\ t = "junk"
    BY DEF PathNames
  <2> HIDE DEF t
  <2>2. LET x == Under(t, p)
        IN  /\ x \in Seq(MemberForm) /\ Len(x) = Len(p) /\ DOMAIN x = 1..Len(p)
            /\ \A i \in 1..Len(p) :
                  /\ x[i].parts[1] = t /\ Len(x[i].parts) >= 2 /\ x[i].dir = p[i].dir
                  /\ [x[i] EXCEPT !.parts = Tail(@)] = p[i]
                  /\ Unsafe(x[i].parts) <=> t = "unsafe" \/ Unsafe(p[i].parts)
                  /\ Junk(x[i].parts) <=> t = "junk" \/ Junk(p[i].parts)
    <3>1. t \in PathNames /\ p \in Seq(MemberForm)
      BY <2>1
    <3> QED BY ONLY <3>1, FilesUnder
  <2>3. v = Under(t, p)
    BY DEF t
  <2> QED BY <2>1, <2>2, <2>3
<1>5. ~Unsafe(<<top>>)
  <2>1. DOMAIN <<top>> = {1} /\ <<top>>[1] = top
    OBVIOUS
  <2> QED BY <2>1 DEF Unsafe
<1>6. \A i \in 1..n : ~p[i].dir /\ ~Junk(p[i].parts)
  OBVIOUS
<1> HIDE DEF w, u, v, n
<1>7. \A k \in 1..l : k = 1 \/ (k \in (1 + 1)..(1 + n) /\ k - 1 \in 1..n /\ 1 + (k - 1) = k)
                            \/ (k - (1 + n) \in 1..n /\ (1 + n) + (k - (1 + n)) = k /\ k \notin (1 + 1)..(1 + n))
  BY <1>1
<1>8. l \in Nat /\ 1 + n <= l /\ DOMAIN w = 1..l /\ 1 \in 1..l /\ 1 \notin (1 + 1)..(1 + n)
      /\ \A i \in 1..n : 1 + i \in 1..l /\ 1 + i \in (1 + 1)..(1 + n)
  <2>1. l \in Nat /\ 1 + n <= l /\ 1 \in 1..l /\ 1 \notin (1 + 1)..(1 + n)
    BY <1>1
  <2>2. \A i \in 1..n : 1 + i \in 1..l /\ 1 + i \in (1 + 1)..(1 + n)
    BY <1>1
  <2>3. DOMAIN w = 1..l
    BY <1>2
  <2> QED BY <2>1, <2>2, <2>3
<1> HIDE DEF l
<1>9. KeptAt(w) = (1 + 1)..(1 + n)
  <2>1. ASSUME NEW k \in 1..l
        PROVE ~(w[k].dir \/ Junk(w[k].parts)) <=> k \in (1 + 1)..(1 + n)
    <3>1. CASE k = 1
      BY <1>2, <1>8, <3>1
    <3>2. CASE k \in (1 + 1)..(1 + n) /\ k - 1 \in 1..n /\ 1 + (k - 1) = k
      <4>1. w[k] = u[k - 1]
        BY <1>2, <3>2
      <4> QED BY <1>3, <1>6, <3>2, <4>1
    <3>3. CASE k - (1 + n) \in 1..n /\ (1 + n) + (k - (1 + n)) = k /\ k \notin (1 + 1)..(1 + n)
      <4>1. w[k] = v[k - (1 + n)]
        BY <1>2, <3>3
      <4> QED BY <1>4, <3>3, <4>1
    <3> QED BY <1>7, <3>1, <3>2, <3>3
  <2>2. (1 + 1)..(1 + n) \subseteq 1..l
    BY <1>1, <1>8
  <2> QED BY <1>2, <2>1, <2>2 DEF KeptAt
<1>10. Kept(w) = u
  <2> DEFINE f == [i \in 1..l |-> w[i]]
             lo == 1
             kept == KeptOf(l, f, (lo + 1)..(lo + n))
  <2>1. Kept(w) = kept
    BY <1>2, <1>9, KeptIsKept
  <2>2. l \in Nat /\ f \in [1..l -> MemberForm] /\ lo \in Nat /\ n \in Nat /\ lo + n <= l
    BY <1>1, <1>2, <1>8
  <2>3. \A x \in 1..n : f[lo + x] = u[x]
    BY <1>2, <1>8
  <2> HIDE DEF f, lo, kept
  <2>4. RunOf(MemberForm, f, lo, n, KeptOf(l, f, (lo + 1)..(lo + n)))
    BY <2>2, KeptRun
  <2>5. kept \in Seq(MemberForm) /\ Len(kept) = Len(u) /\ \A x \in 1..Len(u) : kept[x] = u[x]
    BY <1>3, <2>3, <2>4 DEF kept, RunOf
  <2>6. kept = u
    BY <1>3, <2>5
  <2> QED BY <2>1, <2>6
<1>11. Arranged(w) = p
  <2>1. StripTop(u) = p
    BY FolderStripped DEF u
  <2> QED BY <1>10, <2>1 DEF Arranged
<1>12. (\E m \in ToSet(w) : Unsafe(m.parts)) <=> \E m \in ToSet(p) : Unsafe(m.parts)
  <2>1. ASSUME NEW m \in ToSet(w), Unsafe(m.parts) PROVE \E i \in 1..n : Unsafe(p[i].parts)
    <3>1. PICK k \in 1..l : m = w[k]
      BY <1>8 DEF ToSet
    <3>2. CASE k = 1
      BY <1>2, <1>5, <2>1, <3>1, <3>2
    <3>3. CASE k - 1 \in 1..n /\ 1 + (k - 1) = k
      <4>1. w[k] = u[k - 1]
        BY <1>2, <3>3
      <4> QED BY <1>3, <2>1, <3>1, <3>3, <4>1
    <3>4. CASE k - (1 + n) \in 1..n /\ (1 + n) + (k - (1 + n)) = k
      <4>1. w[k] = v[k - (1 + n)]
        BY <1>2, <3>4
      <4> QED BY <1>4, <2>1, <3>1, <3>4, <4>1
    <3> QED BY <1>7, <3>2, <3>3, <3>4
  <2>2. ASSUME NEW i \in 1..n, Unsafe(p[i].parts) PROVE \E m \in ToSet(w) : Unsafe(m.parts)
    <3>1. w[1 + i] = u[i] /\ Unsafe(u[i].parts) /\ 1 + i \in DOMAIN w
      BY <1>2, <1>3, <1>8, <2>2
    <3>2. w[1 + i] \in ToSet(w) /\ Unsafe(w[1 + i].parts)
      BY <3>1 DEF ToSet
    <3> QED BY <3>2
  <2>3. (\E m \in ToSet(p) : Unsafe(m.parts)) <=> \E i \in 1..n : Unsafe(p[i].parts)
    BY <1>1 DEF ToSet
  <2> QED BY <2>1, <2>2, <2>3
<1> QED BY <1>2, <1>11, <1>12 DEF w, n, l

\* A package folder survives being packed and unpacked, whatever it holds:
\* exactly when it is within the limits, and as the zip a desktop makes of it
\* too (pack, install_archive).
THEOREM FoldersComeBack ==
  ASSUME NEW folder, NEW top, FolderForm(folder, top)
  PROVE  PackInstalls(folder, top)
<1> DEFINE p == PackFolder(folder)
           w == DesktopOf(p, top)
           n == Len(p)
           kept == {[parts |-> m.parts, data |-> m.data] : m \in ToSet(p)}
           unsafe == \E m \in ToSet(p) : Unsafe(m.parts)
           strange == \E m \in ToSet(p) : m.form # "plain"
           over == Bytes(p) > MaxPacked \/ n > MaxMembers
           good == Answer("ok", kept)
<1>1. /\ p \in Seq(MemberForm) /\ ToSet(p) = {f \in folder : ~Junk(f.parts)}
      /\ \A i \in 1..n : p[i] \in folder /\ ~p[i].dir /\ ~Junk(p[i].parts)
      /\ \A i, j \in 1..n : i # j => ~IsPrefix(p[i].parts, p[j].parts)
      /\ \E i \in 1..n : p[i].parts = <<"manifest">> /\ p[i].data = "good"
      /\ \E i \in 1..n : p[i].parts = <<"main">>
  BY PackedFiles
<1> HIDE DEF p
<1>2. n \in Nat /\ DOMAIN p = 1..n /\ Bytes(p) \in Nat
  BY <1>1, Indexed, BytesAreNumber
<1>3. n # 0
  BY <1>1, <1>2
<1>4. AtRoot(p) /\ ~Collide(p) /\ LoadPackage(kept)
  <2>1. ToSet(p) = {p[i] : i \in 1..n}
    BY <1>2 DEF ToSet
  <2>2. AtRoot(p)
    BY <1>1, <2>1 DEF AtRoot
  <2>3. ~Collide(p)
    BY <1>1, <1>2 DEF Collide
  <2>4. \E f \in kept : f.parts = <<"manifest">> /\ f.data = "good"
    <3>1. PICK i \in 1..n : p[i].parts = <<"manifest">> /\ p[i].data = "good"
      BY <1>1
    <3> DEFINE f == [parts |-> p[i].parts, data |-> p[i].data]
    <3>2. f \in kept /\ f.parts = p[i].parts /\ f.data = p[i].data
      BY <2>1
    <3> HIDE DEF f, kept
    <3> QED BY <3>1, <3>2
  <2>5. \E f \in kept : f.parts = <<"main">>
    <3>1. PICK i \in 1..n : p[i].parts = <<"main">>
      BY <1>1
    <3> DEFINE f == [parts |-> p[i].parts, data |-> p[i].data]
    <3>2. f \in kept /\ f.parts = p[i].parts
      BY <2>1
    <3> HIDE DEF f, kept
    <3> QED BY <3>1, <3>2
  <2> HIDE DEF kept
  <2> QED BY <2>2, <2>3, <2>4, <2>5 DEF LoadPackage
<1>5. Arranged(p) = p
  <2>1. Kept(p) = p
    BY <1>1, KeptWhole
  <2> QED BY <1>4, <2>1 DEF Arranged, StripTop
<1>6. /\ Arranged(w) = p /\ Len(w) = 2 * n + 1
      /\ (\E m \in ToSet(w) : Unsafe(m.parts)) <=> unsafe
  <2>1. top \in PathNames \ {"junk", "unsafe"}
    BY DEF FolderForm
  <2> HIDE DEF w
  <2> QED BY <1>1, <1>3, <2>1, DesktopArranged DEF w
<1>7. InstallArchive(p) = IF n > 2 * MaxMembers \/ unsafe \/ strange \/ over THEN RefusedArchive ELSE good
  BY <1>4, <1>5, InstalledAs
<1>8. InstallArchive(w) = IF Len(w) > 2 * MaxMembers \/ unsafe \/ strange \/ over THEN RefusedArchive ELSE good
  <2> HIDE DEF w
  <2>1. InstallArchive(w) =
            IF \/ Len(w) > 2 * MaxMembers \/ \E m \in ToSet(w) : Unsafe(m.parts)
               \/ strange \/ over
            THEN RefusedArchive ELSE good
    BY <1>4, <1>6, InstalledAs
  <2> HIDE DEF strange, over, good, unsafe
  <2> QED BY <1>6, <2>1
<1> DEFINE portable == /\ n <= MaxMembers /\ Bytes(p) <= MaxPacked
                       /\ \A m \in ToSet(p) : ~Unsafe(m.parts) /\ m.form = "plain"
<1>9. MaxMembers \in Nat /\ MaxPacked \in Nat
  BY UploadsAssumption
<1>10. portable <=> ~(n > 2 * MaxMembers \/ unsafe \/ strange \/ over)
  <2>1. n <= MaxMembers <=> ~(n > 2 * MaxMembers \/ n > MaxMembers)
    <3> HIDE DEF n
    <3> QED BY <1>2, <1>9
  <2>2. Bytes(p) <= MaxPacked <=> ~(Bytes(p) > MaxPacked)
    BY <1>2, <1>9
  <2> HIDE DEF n
  <2> QED BY <2>1, <2>2
<1>11. good.answer = "ok" /\ good.files = kept /\ RefusedArchive.answer # "ok"
  BY DEF Answer, RefusedArchive
<1> HIDE DEF good, strange, over, unsafe, w
<1>12. InstallArchive(p) = IF portable THEN good ELSE RefusedArchive
  <2> HIDE DEF portable
  <2> QED BY <1>7, <1>10
<1>13. (InstallArchive(p).answer = "ok") = portable
  <2> HIDE DEF portable
  <2>1. InstallArchive(p).answer = "ok" <=> portable
    BY <1>11, <1>12
  <2>2. portable \in BOOLEAN
    BY DEF portable
  <2> QED BY <2>1, <2>2
<1>14. InstallArchive(p).answer = "ok" => InstallArchive(p).files = kept
  <2> HIDE DEF portable
  <2> QED BY <1>11, <1>12
<1>15. InstallArchive(w) = IF Len(w) <= 2 * MaxMembers THEN InstallArchive(p) ELSE RefusedArchive
  <2>1. CASE Len(w) <= 2 * MaxMembers
    <3>1. ~(Len(w) > 2 * MaxMembers) /\ ~(n > 2 * MaxMembers)
      <4> HIDE DEF n
      <4> QED BY <1>2, <1>6, <1>9, <2>1
    <3> QED BY <1>7, <1>8, <2>1, <3>1
  <2>2. CASE ~(Len(w) <= 2 * MaxMembers)
    <3>1. Len(w) > 2 * MaxMembers
      <4> HIDE DEF n
      <4> QED BY <1>2, <1>6, <1>9, <2>2
    <3> QED BY <1>8, <2>2, <3>1
  <2> QED BY <2>1, <2>2
<1>16. w = <<[Head(p) EXCEPT !.parts = <<top>>, !.dir = TRUE]>>
            \o [i \in DOMAIN p |-> [p[i] EXCEPT !.parts = <<top>> \o @]]
            \o [i \in DOMAIN p |-> [p[i] EXCEPT !.parts = <<"junk">> \o @]]
  BY DEF w, DesktopOf, Under
<1>17. kept = {[parts |-> m.parts, data |-> m.data] : m \in {f \in folder : ~Junk(f.parts)}}
  BY <1>1
<1> HIDE DEF kept
<1> QED BY <1>13, <1>14, <1>15, <1>16, <1>17 DEF PackInstalls, p, n

-----------------------------------------------------------------------------
(* Bundles.                                                                *)

\* Where the entries of an archive end, one after the other.
EndsAt(records, n, e) ==
  /\ e \in [0..n -> Nat] /\ e[0] = 0
  /\ \A k \in 1..n : e[k] = e[k - 1] + records[k].size + Overhead
  /\ \A k \in 0..n : EntryEnd(records, k) = e[k] /\ e[k] <= e[n]

LEMMA EntryEnds ==
  ASSUME NEW records \in Seq(BundleFile)
  PROVE  \E e : EndsAt(records, Len(records), e)
<1> DEFINE n == Len(records)
           G == [i \in Nat |-> [x \in Nat |-> IF i + 1 \in 1..n THEN x + records[i + 1].size + Overhead ELSE x]]
           Step(r, i) == IF i = 0 THEN 0 ELSE r[i - 1] + records[i].size + Overhead
           Is(r) == r = [i \in 0..n |-> Step(r, i)]
           end == CHOOSE r : Is(r)
<1>1. n \in Nat /\ \A i \in 1..n : records[i].size \in Nat
  <2>1. n \in Nat /\ DOMAIN records = 1..n /\ \A i \in 1..n : records[i] \in BundleFile
    BY Indexed
  <2> QED BY <2>1 DEF BundleFile
<1>2. Overhead \in Nat
  BY FleetAssumption
<1>3. \A k \in 0..n : EntryEnd(records, k) = end[k]
  BY DEF EntryEnd
<1> HIDE DEF n
<1>4. G \in [Nat -> [Nat -> Nat]]
  BY <1>1, <1>2
<1>5. PICK h : h \in [Nat -> Nat] /\ h[0] = 0 /\ \A i \in Nat : h[i + 1] = G[i][h[i]]
  <2> DEFINE b == 0
             X == Nat
  <2>1. b \in X /\ G \in [Nat -> [X -> X]]
    BY <1>4
  <2>2. \E h : Recursive(X, b, G, h)
    <3> HIDE DEF X, G, b
    <3> QED BY <2>1, Recursion
  <2> HIDE DEF G
  <2> QED BY <2>2 DEF Recursive
<1>6. ASSUME NEW i \in 1..n PROVE h[i] = h[i - 1] + records[i].size + Overhead
  <2>1. i - 1 \in Nat /\ (i - 1) + 1 = i
    OBVIOUS
  <2>2. h[i] = G[i - 1][h[i - 1]] /\ h[i - 1] \in Nat
    <3> HIDE DEF G
    <3> QED BY <1>5, <2>1
  <2> QED BY <2>1, <2>2
<1> HIDE DEF G
<1> DEFINE e == [i \in 0..n |-> h[i]]
<1>7. e \in [0..n -> Nat] /\ e[0] = 0 /\ \A k \in 1..n : e[k] = e[k - 1] + records[k].size + Overhead
  <2>1. e \in [0..n -> Nat]
    BY <1>5
  <2>2. 0 \in 0..n /\ \A k \in 1..n : k \in 0..n /\ k - 1 \in 0..n
    BY <1>1
  <2>3. \A k \in 0..n : e[k] = h[k]
    OBVIOUS
  <2> HIDE DEF e
  <2> QED BY <1>5, <1>6, <2>1, <2>2, <2>3
<1> HIDE DEF e
<1>8. Is(e)
  <2>1. ASSUME NEW k \in 0..n PROVE e[k] = Step(e, k)
    <3>1. CASE k = 0
      BY <1>7, <3>1
    <3>2. CASE k # 0
      <4>1. k \in 1..n
        BY <3>2
      <4> QED BY <1>7, <3>2, <4>1
    <3> QED BY <3>1, <3>2
  <2>2. e = [k \in 0..n |-> e[k]]
    BY <1>7
  <2> HIDE DEF Step
  <2> QED BY <2>1, <2>2
<1>9. Is(end)
  <2> HIDE DEF Is
  <2> QED BY <1>8
<1> HIDE DEF end
<1>10. \A k \in 0..n : end[k] = e[k]
  <2> DEFINE Z == {k \in Nat : k <= n => end[k] = e[k]}
  <2>1. 0 \in Z
    <3>1. 0 \in 0..n
      BY <1>1
    <3>2. end[0] = Step(end, 0)
      BY <1>9, <3>1
    <3> QED BY <1>7, <3>2
  <2>2. ASSUME NEW k \in Nat, k \in Z PROVE k + 1 \in Z
    <3> SUFFICES ASSUME k + 1 <= n PROVE end[k + 1] = e[k + 1]
      OBVIOUS
    <3>1. k + 1 \in 0..n /\ k + 1 \in 1..n /\ (k + 1) - 1 = k /\ k + 1 # 0 /\ end[k] = e[k]
      BY <1>1, <2>2
    <3>2. end[k + 1] = Step(end, k + 1)
      BY <1>9, <3>1
    <3>3. end[k + 1] = end[k] + records[k + 1].size + Overhead
      BY <3>1, <3>2
    <3>4. e[k + 1] = e[k] + records[k + 1].size + Overhead
      BY <1>7, <3>1
    <3> QED BY <3>1, <3>3, <3>4
  <2>3. Nat \subseteq Z
    <3> HIDE DEF Z
    <3> QED BY <2>1, <2>2, FromOneToNext
  <2> QED BY <2>3
<1>11. \A k \in 0..n : e[k] <= e[n]
  <2> DEFINE Z == {j \in Nat : j <= n => e[n - j] <= e[n]}
  <2>1. 0 \in Z
    <3>1. n - 0 = n /\ n \in 0..n
      BY <1>1
    <3>2. e[n] \in Nat
      BY <1>7, <3>1
    <3> QED BY <3>1, <3>2
  <2>2. ASSUME NEW j \in Nat, j \in Z PROVE j + 1 \in Z
    <3> SUFFICES ASSUME j + 1 <= n PROVE e[n - (j + 1)] <= e[n]
      OBVIOUS
    <3>1. n - j \in 1..n /\ n - (j + 1) = (n - j) - 1 /\ n - j \in 0..n /\ n \in 0..n
          /\ (n - j) - 1 \in 0..n /\ e[n - j] <= e[n]
      BY <1>1, <2>2
    <3>2. e[n - j] = e[(n - j) - 1] + records[n - j].size + Overhead
      BY <1>7, <3>1
    <3>3. e[n - j] \in Nat /\ e[(n - j) - 1] \in Nat /\ e[n] \in Nat /\ records[n - j].size \in Nat
      BY <1>1, <1>7, <3>1
    <3>4. \A x, y, s, o, m \in Nat : x = y + s + o /\ x <= m => y <= m
      OBVIOUS
    <3>5. e[(n - j) - 1] <= e[n]
      BY <1>2, <3>1, <3>2, <3>3, <3>4
    <3> QED BY <3>1, <3>5
  <2>3. Nat \subseteq Z
    <3> HIDE DEF Z
    <3> QED BY <2>1, <2>2, FromOneToNext
  <2> SUFFICES ASSUME NEW k \in 0..n PROVE e[k] <= e[n]
    OBVIOUS
  <2>4. n - k \in Nat /\ n - k <= n /\ n - (n - k) = k
    BY <1>1
  <2> HIDE DEF Z
  <2>5. n - k \in Z
    BY <2>3, <2>4
  <2> QED BY <2>4, <2>5 DEF Z
<1>12. EndsAt(records, n, e)
  BY <1>3, <1>7, <1>10, <1>11 DEF EndsAt
<1> QED BY <1>12 DEF n

\* What pack lists is the folder's files, each once.
LEMMA PackedRecords ==
  ASSUME NEW some, BundleForm(some), NEW target, NEW entrypoint, Packed(some, target, entrypoint) # <<>>
  PROVE  LET r == Packed(some, target, entrypoint)
         IN  /\ r = SetToSeq(some) /\ r \in Seq(BundleFile) /\ Len(r) = Cardinality(some) /\ Len(r) \in 1..MaxFiles
             /\ Range(r) = some /\ DOMAIN r = 1..Len(r)
             /\ \A i \in 1..Len(r) : r[i] \in BundleFile /\ ContentFits(r[i], target)
             /\ \A i, j \in 1..Len(r) : i # j => r[i].path # r[j].path
             /\ ZipBytes(r) + Overhead <= MaxBundle
<1> DEFINE r == Packed(some, target, entrypoint)
           n == Cardinality(some)
<1>1. /\ r = SetToSeq(some) /\ Collected(some, target) /\ ManifestFits(some, entrypoint)
      /\ ZipBytes(r) + Overhead <= MaxBundle
  BY DEF Packed
<1>2. some \in SUBSET BundleFile /\ IsFiniteSet(some) /\ \A f, g \in some : f # g => f.path # g.path
  BY DEF BundleForm
<1> HIDE DEF r, n
<1>3. n \in Nat /\ r \in [1..n -> some] /\ IsInjective(r) /\ {r[i] : i \in 1..n} = some
  BY <1>1, <1>2, SetListed DEF n
<1>4. n \in 1..MaxFiles
  BY <1>1 DEF ManifestFits, n
<1>5. DOMAIN r = 1..n
  BY <1>3
<1>6. r \in Seq(BundleFile) /\ Len(r) = n
  <2>1. r \in [1..n -> BundleFile]
    BY <1>2, <1>3
  <2> QED BY <1>3, <2>1
<1>7. Range(r) = some
  BY <1>3, <1>5 DEF Range
<1>8. \A i \in 1..n : r[i] \in some
  BY <1>3
<1>9. \A i \in 1..n : r[i] \in BundleFile /\ ContentFits(r[i], target)
  BY <1>1, <1>2, <1>8 DEF Collected
<1>10. \A i, j \in 1..n : i # j => r[i].path # r[j].path
  BY <1>2, <1>3, <1>5, <1>8 DEF IsInjective
<1> QED BY <1>1, <1>4, <1>5, <1>6, <1>7, <1>9, <1>10 DEF r, n

\* What is stored, entry by entry.
StoredAs(r, n, e, x) ==
  /\ x = [entries |-> x.entries, central |-> e[n]]
  /\ x.entries \in Seq([path : Seq(Spelled), size : Nat, data : STRING, exec : BOOLEAN, kind : STRING, offset : Nat])
  /\ Len(x.entries) = n /\ DOMAIN x.entries = 1..n
  /\ \A k \in 1..n : /\ x.entries[k].path = r[k].path /\ x.entries[k].size = r[k].size
                     /\ x.entries[k].data = r[k].data /\ x.entries[k].exec = r[k].exec
                     /\ x.entries[k].kind = r[k].kind /\ x.entries[k].offset = e[k - 1]

LEMMA StoredEntries ==
  ASSUME NEW r \in Seq(BundleFile), NEW e, EndsAt(r, Len(r), e)
  PROVE  StoredAs(r, Len(r), e, StoredZip(r))
<1> DEFINE n == Len(r)
           T == [path : Seq(Spelled), size : Nat, data : STRING, exec : BOOLEAN, kind : STRING, offset : Nat]
           of(k) == [path |-> r[k].path, size |-> r[k].size, data |-> r[k].data,
                     exec |-> r[k].exec, kind |-> r[k].kind,
                     offset |-> EntryEnd(r, k) - r[k].size - Overhead]
           s == [k \in 1..n |-> of(k)]
<1>1. n \in Nat /\ DOMAIN r = 1..n /\ \A i \in 1..n : r[i] \in BundleFile
  BY Indexed
<1>2. StoredZip(r) = [entries |-> s, central |-> EntryEnd(r, n)]
  BY <1>1 DEF StoredZip
<1> HIDE DEF n
<1>3. EntryEnd(r, n) = e[n]
  BY <1>1 DEF EndsAt, n
<1>4. Overhead \in Nat
  BY FleetAssumption
<1>5. ASSUME NEW k \in 1..n PROVE EntryEnd(r, k) - r[k].size - Overhead = e[k - 1] /\ e[k - 1] \in Nat
  <2>1. r[k].size \in Nat
    BY <1>1 DEF BundleFile
  <2>2. k \in 0..n /\ k - 1 \in 0..n
    BY <1>1
  <2>3. EntryEnd(r, k) = e[k - 1] + r[k].size + Overhead /\ e[k - 1] \in Nat
    BY <2>2 DEF EndsAt, n
  <2> QED BY <1>4, <2>1, <2>3
<1>6. ASSUME NEW k \in 1..n
      PROVE  /\ of(k) \in T /\ of(k).path = r[k].path /\ of(k).size = r[k].size
             /\ of(k).data = r[k].data /\ of(k).exec = r[k].exec
             /\ of(k).kind = r[k].kind /\ of(k).offset = e[k - 1]
  BY <1>1, <1>5 DEF BundleFile
<1> HIDE DEF T, of
<1>7. s \in Seq(T) /\ Len(s) = n /\ DOMAIN s = 1..n /\ \A k \in 1..n : s[k] = of(k)
  <2>1. s \in [1..n -> T]
    BY <1>6
  <2> QED BY <1>1, <2>1
<1> HIDE DEF s
<1> DEFINE x == StoredZip(r)
<1>8. x = [entries |-> s, central |-> e[n]]
  BY <1>2, <1>3
<1>9. x.entries = s
  BY <1>8
<1>10. StoredAs(r, n, e, x)
  <2> HIDE DEF x
  <2> QED BY <1>6, <1>7, <1>8, <1>9 DEF StoredAs, T
<1> QED BY <1>10 DEF n

\* What unpacking accepts is what was stored.
Unpacked(r, n, e, x) ==
  /\ Len(x.entries) = n /\ x.central = e[n]
  /\ \A k \in 1..n : /\ x.entries[k].path = r[k].path /\ x.entries[k].data = r[k].data
                     /\ x.entries[k].exec = r[k].exec /\ x.entries[k].offset = e[k - 1]

LEMMA UnpacksOnly ==
  ASSUME NEW r \in Seq(BundleFile), NEW e, EndsAt(r, Len(r), e), NEW target, NEW x, Unpacks(x, r, target)
  PROVE  Unpacked(r, Len(r), e, x)
<1> DEFINE n == Len(r)
<1>1. n \in Nat /\ DOMAIN r = 1..n
  BY Indexed
<1> HIDE DEF n
<1>2. \A k \in 1..n : k - 1 \in 0..n
  BY <1>1
<1>3. n \in 0..n
  BY <1>1
<1>4. \A k \in 0..n : EntryEnd(r, k) = e[k]
  BY DEF EndsAt, n
<1>5. Len(x.entries) = n /\ x.central = e[n]
  BY <1>3, <1>4 DEF Unpacks, n
<1>6. ASSUME NEW k \in 1..n
      PROVE  /\ x.entries[k].path = r[k].path /\ x.entries[k].data = r[k].data
             /\ x.entries[k].exec = r[k].exec /\ x.entries[k].offset = e[k - 1]
  <2>1. /\ <<x.entries[k].path, x.entries[k].exec, x.entries[k].size, x.entries[k].data>>
             = <<r[k].path, r[k].exec, r[k].size, r[k].data>>
        /\ x.entries[k].offset = EntryEnd(r, k - 1)
    BY <1>1 DEF Unpacks
  <2> QED BY <1>2, <1>4, <2>1
<1> QED BY <1>5, <1>6 DEF Unpacked, n

LEMMA OneRemoved ==
  ASSUME NEW T, NEW s \in Seq(T), NEW k \in 1..Len(s)
  PROVE  Len(RemoveAt(s, k)) = Len(s) - 1
<1> DEFINE a == SubSeq(s, 1, k - 1)
           b == SubSeq(s, k + 1, Len(s))
           n == Len(s)
<1>1. n \in Nat /\ k \in 1..n
  OBVIOUS
<1>2. a \in Seq(T) /\ Len(a) = k - 1
  OBVIOUS
<1>3. b \in Seq(T) /\ Len(b) = n - k
  OBVIOUS
<1>4. RemoveAt(s, k) = a \o b
  BY DEF RemoveAt
<1>5. Len(a \o b) = Len(a) + Len(b)
  BY <1>2, <1>3
<1> HIDE DEF a, b, n
<1>6. Len(RemoveAt(s, k)) = n - 1
  BY <1>1, <1>2, <1>3, <1>4, <1>5
<1> QED BY <1>6 DEF n

\* Nothing is accepted that is out of place.
LEMMA DisorderedRefused ==
  ASSUME NEW r \in Seq(BundleFile), NEW e, EndsAt(r, Len(r), e), NEW target,
         \A i, j \in 1..Len(r) : i # j => r[i].path # r[j].path,
         NEW x \in Disordered(StoredZip(r)), x # StoredZip(r)
  PROVE  ~Unpacks(x, r, target)
<1> DEFINE n == Len(r)
           z == StoredZip(r)
           T == [path : Seq(Spelled), size : Nat, data : STRING, exec : BOOLEAN, kind : STRING, offset : Nat]
           s == z.entries
           with(t) == [z EXCEPT !.entries = t]
           put(k, m) == with([s EXCEPT ![k] = m])
<1>1. StoredAs(r, n, e, z)
  BY StoredEntries
<1>2. Unpacks(x, r, target) => Unpacked(r, n, e, x)
  BY UnpacksOnly
<1>3. n \in Nat
  BY Indexed
<1>4. \/ \E k \in 1..Len(s) : x = with(RemoveAt(s, k))
      \/ \E k \in 1..Len(s) : x = with(Append(s, s[k]))
      \/ \E k, j \in 1..Len(s) : x = put(k, s[j])
      \/ \E k \in 1..Len(s) : x = put(k, [s[k] EXCEPT !.offset = @ + 1])
      \/ \E k \in 1..Len(s) : x = put(k, [s[k] EXCEPT !.exec = ~@])
      \/ \E k \in 1..Len(s) : x = put(k, [s[k] EXCEPT !.data = "damaged"])
      \/ x = [z EXCEPT !.central = @ + 1]
  BY DEF Disordered
<1>5. x # z
  OBVIOUS
<1>6. \A i, j \in 1..n : i # j => r[i].path # r[j].path
  OBVIOUS
<1> HIDE DEF z, n
<1>7. /\ z = [entries |-> s, central |-> e[n]] /\ s \in Seq(T) /\ Len(s) = n /\ DOMAIN s = 1..n
      /\ \A k \in 1..n : /\ s[k].path = r[k].path /\ s[k].size = r[k].size
                         /\ s[k].data = r[k].data /\ s[k].exec = r[k].exec
                         /\ s[k].kind = r[k].kind /\ s[k].offset = e[k - 1]
  BY <1>1 DEF StoredAs
<1>8. \A k \in 1..n : s[k] \in T
  <2> HIDE DEF T, s
  <2> QED BY <1>7
<1>9. e[n] \in Nat
  <2>1. n \in 0..n
    BY <1>3
  <2> QED BY <2>1 DEF EndsAt, n
<1> HIDE DEF s
<1>10. \A t : with(t).entries = t
  BY <1>7
<1>11. s = [k \in 1..n |-> s[k]]
  BY <1>7
\* An entry that is put in the place of another shows.
<1>12. ASSUME NEW k \in 1..n, NEW m, x = put(k, m),
              m.path # r[k].path \/ m.data # r[k].data \/ m.exec # r[k].exec \/ m.offset # e[k - 1]
       PROVE  ~Unpacked(r, n, e, x)
  <2>1. x.entries = [s EXCEPT ![k] = m]
    BY <1>10, <1>12
  <2>2. x.entries[k] = m
    BY <1>7, <2>1
  <2> QED BY <1>12, <2>2 DEF Unpacked
<1> HIDE DEF T
<1>13. ASSUME NEW k \in 1..n PROVE s[k].offset + 1 # s[k].offset /\ (~s[k].exec) # s[k].exec
  BY <1>8 DEF T
<1>14. CASE \E k \in 1..n : x = with(RemoveAt(s, k))
  <2>1. PICK k \in 1..n : x = with(RemoveAt(s, k))
    BY <1>14
  <2>2. Len(x.entries) = n - 1
    BY <1>7, <1>10, <2>1, OneRemoved
  <2> QED BY <1>2, <1>3, <2>2 DEF Unpacked
<1>15. CASE \E k \in 1..n : x = with(Append(s, s[k]))
  <2>1. PICK k \in 1..n : x = with(Append(s, s[k]))
    BY <1>15
  <2>2. Len(Append(s, s[k])) = n + 1
    <3>1. \A t \in Seq(T), m \in T : Len(Append(t, m)) = Len(t) + 1
      OBVIOUS
    <3>2. s \in Seq(T) /\ s[k] \in T /\ Len(s) = n
      BY <1>7, <1>8
    <3> QED BY <3>1, <3>2
  <2>3. Len(x.entries) = n + 1
    BY <1>10, <2>1, <2>2
  <2> QED BY <1>2, <1>3, <2>3 DEF Unpacked
<1>16. CASE \E k, j \in 1..n : x = put(k, s[j])
  <2>1. PICK k \in 1..n, j \in 1..n : x = put(k, s[j])
    BY <1>16
  <2>2. CASE k = j
    <3>1. [s EXCEPT ![k] = s[k]] = s
      BY <1>11
    <3>2. with(s) = z
      BY <1>7
    <3> QED BY <1>5, <2>1, <2>2, <3>1, <3>2
  <2>3. CASE k # j
    <3>1. s[j].path # r[k].path
      BY <1>6, <1>7, <2>3
    <3> HIDE DEF put
    <3> QED BY <1>2, <1>12, <2>1, <3>1
  <2> QED BY <2>2, <2>3
<1>17. CASE \E k \in 1..n : x = put(k, [s[k] EXCEPT !.offset = @ + 1])
  <2>1. PICK k \in 1..n : x = put(k, [s[k] EXCEPT !.offset = @ + 1])
    BY <1>17
  <2>2. [s[k] EXCEPT !.offset = @ + 1].offset = s[k].offset + 1
    BY <1>8 DEF T
  <2>3. s[k].offset + 1 # e[k - 1]
    BY <1>7, <1>13
  <2> HIDE DEF put
  <2> QED BY <1>2, <1>12, <2>1, <2>2, <2>3
<1>18. CASE \E k \in 1..n : x = put(k, [s[k] EXCEPT !.exec = ~@])
  <2>1. PICK k \in 1..n : x = put(k, [s[k] EXCEPT !.exec = ~@])
    BY <1>18
  <2>2. [s[k] EXCEPT !.exec = ~@].exec = ~s[k].exec
    BY <1>8 DEF T
  <2>3. (~s[k].exec) # r[k].exec
    BY <1>7, <1>13
  <2> HIDE DEF put
  <2> QED BY <1>2, <1>12, <2>1, <2>2, <2>3
<1>19. CASE \E k \in 1..n : x = put(k, [s[k] EXCEPT !.data = "damaged"])
  <2>1. PICK k \in 1..n : x = put(k, [s[k] EXCEPT !.data = "damaged"])
    BY <1>19
  <2> DEFINE m == [s[k] EXCEPT !.data = "damaged"]
  <2>2. m.data = "damaged"
    BY <1>8 DEF T
  <2>3. CASE r[k].data = "damaged"
    <3>1. m = s[k]
      <4>1. s[k].data = "damaged"
        BY <1>7, <2>3
      <4> QED BY <1>8, <4>1 DEF T
    <3>2. [s EXCEPT ![k] = s[k]] = s
      BY <1>11
    <3>3. with(s) = z
      BY <1>7
    <3> QED BY <1>5, <2>1, <3>1, <3>2, <3>3
  <2>4. CASE r[k].data # "damaged"
    <3> HIDE DEF put
    <3> QED BY <1>2, <1>12, <2>1, <2>2, <2>4
  <2> QED BY <2>3, <2>4
<1>20. CASE x = [z EXCEPT !.central = @ + 1]
  <2>1. x.central = e[n] + 1
    BY <1>7, <1>20
  <2> QED BY <1>2, <1>9, <2>1 DEF Unpacked
<1>21. Len(s) = n
  BY <1>7
<1> HIDE DEF with, put
<1> QED BY <1>4, <1>21, <1>14, <1>15, <1>16, <1>17, <1>18, <1>19, <1>20

\* What is packed, unpacking accepts, and nothing with an entry lost, doubled,
\* moved, damaged or added, whatever the files are (pack, verify_bundle).
THEOREM ArchivesAreExact ==
  ASSUME NEW some, BundleForm(some), NEW target, NEW entrypoint
  PROVE  ArchiveExact(some, target, entrypoint)
<1> SUFFICES ASSUME Packed(some, target, entrypoint) # <<>> PROVE ArchiveExact(some, target, entrypoint)
  BY DEF ArchiveExact
<1> DEFINE r == Packed(some, target, entrypoint)
           n == Len(r)
           z == StoredZip(r)
<1>1. /\ r \in Seq(BundleFile) /\ n \in 1..MaxFiles /\ Range(r) = some /\ DOMAIN r = 1..n
      /\ \A i \in 1..n : r[i] \in BundleFile /\ ContentFits(r[i], target)
      /\ \A i, j \in 1..n : i # j => r[i].path # r[j].path
      /\ ZipBytes(r) + Overhead <= MaxBundle
  BY PackedRecords
<1> HIDE DEF r
<1>2. PICK e : EndsAt(r, n, e)
  BY <1>1, EntryEnds
<1>3. Overhead \in Nat /\ n \in Nat /\ MaxBundle \in Nat
  BY <1>1, FleetAssumption
<1>4. StoredAs(r, n, e, z)
  BY <1>1, <1>2, StoredEntries
<1>5. \A k \in 1..n : k - 1 \in 0..n /\ k \in 0..n /\ n \in 0..n
  BY <1>3
<1>6. ASSUME NEW k \in 1..n
      PROVE /\ <<z.entries[k].path, z.entries[k].exec, z.entries[k].size, z.entries[k].data>>
                 = <<r[k].path, r[k].exec, r[k].size, r[k].data>>
            /\ z.entries[k].offset = EntryEnd(r, k - 1)
            /\ z.entries[k].offset + z.entries[k].size + Overhead <= z.central
            /\ ContentFits(z.entries[k], target)
  <2>1. /\ z.entries[k].path = r[k].path /\ z.entries[k].size = r[k].size
        /\ z.entries[k].data = r[k].data /\ z.entries[k].exec = r[k].exec
        /\ z.entries[k].kind = r[k].kind /\ z.entries[k].offset = e[k - 1]
    BY <1>4 DEF StoredAs
  <2>2. z.central = e[n]
    BY <1>4 DEF StoredAs
  <2>3. EntryEnd(r, k - 1) = e[k - 1] /\ e[k] = e[k - 1] + r[k].size + Overhead /\ e[k] <= e[n]
    BY <1>2, <1>5 DEF EndsAt
  <2>4. ContentFits(z.entries[k], target)
    BY <1>1, <2>1 DEF ContentFits
  <2> HIDE DEF z
  <2> QED BY <2>1, <2>2, <2>3, <2>4
<1>7. Unpacks(z, r, target)
  <2>1. z.central = EntryEnd(r, n) /\ Len(z.entries) = n
    <3>1. n \in 0..n
      BY <1>3
    <3> HIDE DEF n
    <3> QED BY <1>2, <1>4, <3>1 DEF StoredAs, EndsAt
  <2> HIDE DEF z
  <2> QED BY <1>1, <1>6, <2>1 DEF Unpacks
<1>8. \A x \in Disordered(z) \ {z} : ~Unpacks(x, r, target)
  BY <1>1, <1>2, DisorderedRefused
<1>9. ZipBytes(r) <= MaxBundle
  <2>1. EntryEnd(r, n) \in Nat
    <3>1. n \in 0..n
      BY <1>3
    <3> HIDE DEF n
    <3> QED BY <1>2, <3>1 DEF EndsAt
  <2>2. ZipBytes(r) = EntryEnd(r, n) + Overhead * (n + 1)
    BY DEF ZipBytes
  <2>3. Overhead * (n + 1) \in Nat
    <3> HIDE DEF n
    <3> QED BY <1>3
  <2> HIDE DEF n
  <2> QED BY <1>1, <1>3, <2>1, <2>2, <2>3
<1> QED BY <1>1, <1>7, <1>8, <1>9 DEF ArchiveExact, r, z

\* The bytes of an archive are a number, whatever order its files are in.
LEMMA ZipBytesAreNumber ==
  ASSUME NEW r \in Seq(BundleFile)
  PROVE  ZipBytes(r) \in Nat
<1> DEFINE n == Len(r)
<1>1. PICK e : EndsAt(r, n, e)
  BY EntryEnds
<1>2. n \in Nat /\ n \in 0..n /\ Overhead \in Nat
  BY FleetAssumption
<1> HIDE DEF n
<1>3. EntryEnd(r, n) \in Nat
  BY <1>1, <1>2 DEF EndsAt
<1>4. Overhead * (n + 1) \in Nat
  BY <1>2
<1> QED BY <1>3, <1>4 DEF ZipBytes, n

\* A brain's file, where prepare puts it.
Beneath(f) == [f EXCEPT !.path = <<<<"python", 1>>>> \o @, !.exec = FALSE]

LEMMA BrainBeneath ==
  ASSUME NEW f \in BundleFile, Named(f.path)
  PROVE  /\ Beneath(f) \in BundleFile /\ Len(Beneath(f).path) = Len(f.path) + 1 /\ Len(f.path) \in Nat \ {0}
         /\ Beneath(f).path[1] = <<"python", 1>> /\ Beneath(f).path[2] = f.path[1]
         /\ Tail(Beneath(f).path) = f.path
<1> DEFINE q == f.path
           one == <<<<"python", 1>>>>
           p == one \o q
           n == Len(q)
           X == Spelled
<1>1. q \in Seq(X) /\ q # <<>>
  BY DEF BundleFile, Named
<1> HIDE DEF q
<1>2. <<"python", 1>> \in X
  BY DEF Spelled
<1> HIDE DEF X
<1>3. one \in Seq(X) /\ Len(one) = 1 /\ one[1] = <<"python", 1>>
  BY <1>2
<1>4. n \in Nat /\ n # 0 /\ DOMAIN q = 1..n
  BY <1>1, Indexed
<1> HIDE DEF one, n
<1>5. /\ p \in Seq(X) /\ Len(p) = Len(one) + Len(q)
      /\ \A k \in 1..Len(one) : p[k] = one[k]
      /\ \A j \in 1..Len(q) : p[Len(one) + j] = q[j]
  <2>1. one \in Seq(X) /\ q \in Seq(X)
    BY <1>1, <1>3
  <2> QED BY ONLY <2>1, Appended
<1>6. p \in Seq(X) /\ Len(p) = n + 1 /\ p[1] = <<"python", 1>> /\ \A j \in 1..n : p[1 + j] = q[j]
  <2>1. Len(p) = 1 + n
    BY <1>3, <1>5 DEF n
  <2>2. p[1] = <<"python", 1>>
    BY <1>3, <1>5
  <2>3. \A j \in 1..n : p[1 + j] = q[j]
    BY <1>3, <1>5 DEF n
  <2> HIDE DEF p
  <2> QED BY <1>4, <1>5, <2>1, <2>2, <2>3
<1> HIDE DEF p
<1>7. p[2] = q[1]
  <2>1. 1 \in 1..n /\ 1 + 1 = 2
    BY <1>4
  <2> QED BY <1>6, <2>1
<1>8. Tail(p) = q
  <2>1. Len(p) # 0 /\ Len(p) - 1 = n
    BY <1>4, <1>6
  <2>2. p # <<>>
    BY <1>6, <2>1, Indexed
  <2>3. /\ Tail(p) \in Seq(X) /\ Len(Tail(p)) = Len(p) - 1
        /\ \A i \in 1..(Len(p) - 1) : Tail(p)[i] = p[i + 1]
    BY <1>6, <2>2
  <2>4. \A i \in 1..n : i + 1 = 1 + i
    BY <1>4
  <2> DEFINE u == Tail(p)
  <2>5. u \in Seq(X) /\ Len(u) = Len(q) /\ \A i \in 1..Len(q) : u[i] = q[i]
    BY <1>6, <2>1, <2>3, <2>4 DEF n
  <2> HIDE DEF u
  <2>6. u = q
    BY <1>1, <2>5
  <2> QED BY <2>6 DEF u
<1>9. Beneath(f).path = p
  BY DEF Beneath, BundleFile, p, one, q
<1>10. Beneath(f) \in BundleFile
  <2>1. [f EXCEPT !.path = p, !.exec = FALSE] \in BundleFile
    BY <1>6 DEF BundleFile, X
  <2> QED BY <2>1 DEF Beneath, p, one, q
<1> QED BY <1>4, <1>6, <1>7, <1>8, <1>9, <1>10 DEF n, q

\* Files whose paths differ are as many as their paths.
LEMMA PathsDiffer ==
  ASSUME NEW S, IsFiniteSet(S), \A f, g \in S : f # g => f.path # g.path
  PROVE  Cardinality({f.path : f \in S}) = Cardinality(S)
<1> DEFINE n == Cardinality(S)
           s == SetToSeq(S)
           h == [i \in 1..n |-> s[i].path]
<1>1. n \in Nat /\ s \in [1..n -> S] /\ IsInjective(s) /\ {s[i] : i \in 1..n} = S
  BY SetListed
<1> HIDE DEF n, s
<1>2. \A i, j \in 1..n : i # j => h[i] # h[j]
  BY <1>1 DEF IsInjective
<1>3. DOMAIN h = 1..n /\ IsInjective(h)
  BY <1>2 DEF IsInjective
<1>4. {f.path : f \in S} = {h[i] : i \in 1..n}
  BY <1>1
<1> HIDE DEF h
<1>5. Cardinality({h[i] : i \in 1..n}) = n
  BY <1>1, <1>3, AllDifferent
<1> QED BY <1>4, <1>5 DEF n

\* What prepare assembles is never one file in the place of another, and pack
\* takes it but for names that differ in case and the archive's own size
\* (prepare).
THEOREM PreparedPacksUp ==
  ASSUME NEW runtime, NEW brains, NEW model, NEW library, NEW target, NEW main,
         RuntimeForm(runtime, main), BundleForm(brains), NativeForm(model, library)
  PROVE  PreparedPacks(runtime, brains, model, library, target, main)
<1> DEFINE all == Prepared(runtime, brains, model, library, target)
           under == {Beneath(f) : f \in brains}
           native == IF model.kind = "none" THEN {} ELSE {model, library}
<1> SUFFICES ASSUME all # {} PROVE PreparedPacks(runtime, brains, model, library, target, main)
  BY DEF PreparedPacks
<1>1. /\ all = runtime \cup under \cup native
      /\ Collected(brains, target) /\ \A f \in brains : f.path[1][1] # "swarm"
      /\ (model.kind = "none") <=> (library.kind = "none")
      /\ Collected(all, target)
  BY DEF Prepared, Beneath
<1>2. /\ runtime \in SUBSET BundleFile /\ IsFiniteSet(runtime)
      /\ \A f, g \in runtime : f # g => f.path # g.path
      /\ \E f \in runtime : f.path = main
      /\ \A f \in runtime : \/ Len(f.path) = 1
                            \/ Len(f.path) >= 2 /\ f.path[1] = <<"python", 1>> /\ f.path[2] = <<"swarm", 1>>
  BY DEF RuntimeForm, BundleForm
<1>3. brains \in SUBSET BundleFile /\ IsFiniteSet(brains) /\ \A f, g \in brains : f # g => f.path # g.path
  BY DEF BundleForm
<1>4. \A f \in brains : Named(f.path)
  BY <1>1 DEF Collected
<1>5. ASSUME NEW f \in brains
      PROVE  /\ Beneath(f) \in BundleFile /\ Beneath(f).path[1] = <<"python", 1>>
             /\ Beneath(f).path[2][1] # "swarm" /\ Tail(Beneath(f).path) = f.path
             /\ Len(Beneath(f).path) # 1
  <2>1. /\ Beneath(f) \in BundleFile /\ Len(Beneath(f).path) = Len(f.path) + 1 /\ Len(f.path) \in Nat \ {0}
        /\ Beneath(f).path[1] = <<"python", 1>> /\ Beneath(f).path[2] = f.path[1]
        /\ Tail(Beneath(f).path) = f.path
    BY <1>3, <1>4, BrainBeneath
  <2> DEFINE k == Len(f.path)
  <2>2. k \in Nat \ {0} /\ Len(Beneath(f).path) = k + 1
    BY <2>1
  <2> HIDE DEF k
  <2>3. Len(Beneath(f).path) # 1
    BY <2>2
  <2> QED BY <1>1, <2>1, <2>3
<1>6. ASSUME NEW f \in native
      PROVE  /\ f \in BundleFile /\ Len(f.path) = 2
             /\ (f = model /\ f.path[1] = <<"models", 1>>) \/ (f = library /\ f.path[1] = <<"native", 1>>)
  <2>1. /\ model.kind # "none" /\ library.kind # "none"
        /\ f = model \/ f = library
    BY <1>1, <1>6
  <2>2. /\ model \in BundleFile /\ library \in BundleFile
        /\ model.kind # "none" => (Len(model.path) = 2 /\ model.path[1] = <<"models", 1>>)
        /\ library.kind # "none" => (Len(library.path) = 2 /\ library.path[1] = <<"native", 1>>)
    BY DEF NativeForm
  <2> QED BY <2>1, <2>2
<1> HIDE DEF all, under, native
<1>7. all \in SUBSET BundleFile
  BY <1>1, <1>2, <1>5, <1>6 DEF under
<1>8. IsFiniteSet(all)
  <2>1. IsFiniteSet(under)
    <3> DEFINE h == [f \in brains |-> Beneath(f)]
    <3>1. h \in Surjection(brains, under)
      BY DEF Surjection, under
    <3> HIDE DEF h
    <3> QED BY <1>3, <3>1, FS_Surjection
  <2>2. IsFiniteSet(native)
    <3>1. {model, library} = {model} \cup {library}
      OBVIOUS
    <3>2. IsFiniteSet({model}) /\ IsFiniteSet({library}) /\ IsFiniteSet({})
      BY FS_Singleton, FS_EmptySet
    <3>3. IsFiniteSet({model, library})
      BY <3>1, <3>2, FS_Union
    <3> QED BY <3>2, <3>3 DEF native
  <2> QED BY <1>1, <1>2, <2>1, <2>2, FS_Union
<1>9. ASSUME NEW f \in all, NEW g \in all, f # g PROVE f.path # g.path
  <2>1. CASE f \in runtime /\ g \in runtime
    BY <1>2, <1>9, <2>1
  <2>2. ASSUME NEW x \in runtime, NEW y \in under PROVE x.path # y.path
    <3>1. PICK b \in brains : y = Beneath(b)
      BY DEF under
    <3>2. y.path[2][1] # "swarm" /\ Len(y.path) # 1
      BY <1>5, <3>1
    <3>3. Len(x.path) = 1 \/ x.path[2] = <<"swarm", 1>>
      BY <1>2
    <3>4. <<"swarm", 1>>[1] = "swarm"
      OBVIOUS
    <3> QED BY <3>2, <3>3, <3>4
  <2>3. ASSUME NEW x \in runtime, NEW y \in native PROVE x.path # y.path
    <3>1. Len(x.path) = 1 \/ x.path[1] = <<"python", 1>>
      BY <1>2
    <3>2. Len(y.path) = 2 /\ (y.path[1] = <<"models", 1>> \/ y.path[1] = <<"native", 1>>)
      BY <1>6
    <3>3. <<"python", 1>> # <<"models", 1>> /\ <<"python", 1>> # <<"native", 1>>
      OBVIOUS
    <3> QED BY <3>1, <3>2, <3>3
  <2>4. CASE f \in under /\ g \in under
    <3>1. PICK b \in brains : f = Beneath(b)
      BY <2>4 DEF under
    <3>2. PICK c \in brains : g = Beneath(c)
      BY <2>4 DEF under
    <3>3. b.path # c.path
      BY <1>3, <1>9, <3>1, <3>2
    <3> QED BY <1>5, <3>1, <3>2, <3>3
  <2>5. ASSUME NEW x \in under, NEW y \in native PROVE x.path # y.path
    <3>1. x.path[1] = <<"python", 1>>
      BY <1>5 DEF under
    <3>2. y.path[1] = <<"models", 1>> \/ y.path[1] = <<"native", 1>>
      BY <1>6
    <3>3. <<"python", 1>> # <<"models", 1>> /\ <<"python", 1>> # <<"native", 1>>
      OBVIOUS
    <3> QED BY <3>1, <3>2, <3>3
  <2>6. CASE f \in native /\ g \in native
    <3>1. <<"models", 1>> # <<"native", 1>>
      OBVIOUS
    <3> QED BY <1>6, <1>9, <2>6, <3>1
  <2> QED BY <1>1, <2>1, <2>2, <2>3, <2>4, <2>5, <2>6
<1>10. Cardinality({f.path : f \in all}) = Cardinality(all)
  BY <1>8, <1>9, PathsDiffer
<1> DEFINE r == SetToSeq(all)
           n == Cardinality(all)
<1>11. n \in Nat /\ r \in [1..n -> all] /\ {r[i] : i \in 1..n} = all
  BY <1>8, SetListed
<1>12. n \in 1..MaxFiles
  <2>1. n <= MaxFiles
    BY <1>1 DEF Collected
  <2>2. n # 0
    BY <1>8, FS_EmptySet
  <2>3. MaxFiles \in Nat
    BY FleetAssumption
  <2> HIDE DEF n
  <2> QED BY <1>11, <2>1, <2>2, <2>3
<1>13. r \in Seq(BundleFile) /\ Len(r) = n /\ r # <<>>
  <2> HIDE DEF r, n
  <2>1. r \in [1..n -> BundleFile]
    BY <1>7, <1>11
  <2>2. r \in Seq(BundleFile) /\ Len(r) = n
    BY <1>11, <2>1
  <2>3. Len(r) # 0
    BY <1>12, <2>2
  <2> QED BY <2>2, <2>3, Indexed
<1>14. ZipBytes(r) + Overhead <= MaxBundle \/ ZipBytes(r) + Overhead > MaxBundle
  <2>1. ZipBytes(r) \in Nat
    BY <1>13, ZipBytesAreNumber
  <2>2. Overhead \in Nat /\ MaxBundle \in Nat
    BY FleetAssumption
  <2> HIDE DEF r
  <2> QED BY <2>1, <2>2
<1>15. ASSUME \A f, g \in all : f # g => Apart(f.path, g.path) PROVE ManifestFits(all, main)
  <2>1. Sizes(all) <= MaxUnpacked
    BY <1>1 DEF Collected
  <2>2. main \in {f.path : f \in all}
    BY <1>1, <1>2
  <2> QED BY <1>12, <1>15, <2>1, <2>2 DEF ManifestFits
<1>16. \/ Packed(all, target, main) # <<>>
       \/ \E f, g \in all : f # g /\ ~Apart(f.path, g.path)
       \/ ZipBytes(r) + Overhead > MaxBundle
  <2>1. CASE (\A f, g \in all : f # g => Apart(f.path, g.path)) /\ ZipBytes(r) + Overhead <= MaxBundle
    <3>1. Packed(all, target, main) = r
      BY <1>1, <1>15, <2>1 DEF Packed
    <3> HIDE DEF r
    <3> QED BY <1>13, <3>1
  <2> HIDE DEF r
  <2> QED BY <1>14, <2>1
<1>17. runtime \subseteq all
  BY <1>1
<1> QED BY <1>10, <1>16, <1>17 DEF PreparedPacks, all

-----------------------------------------------------------------------------
(* Networks.                                                               *)

AnyShape == [c : Int, h : Int, w : Int]

LEMMA ShapesAreShapes ==
  ASSUME NEW L \in LayerForm, NEW in \in AnyShape
  PROVE  PyShape(L, in) \in AnyShape
<1>1. /\ L.a \in Nat /\ L.b \in Nat /\ L.k \in Nat /\ L.stride \in Nat /\ L.pad \in Nat
      /\ L.type \in {"conv2d", "maxpool2d"} => L.k > 0 /\ L.stride > 0
  BY DEF LayerForm
<1>2. in.c \in Int /\ in.h \in Int /\ in.w \in Int
  BY DEF AnyShape
<1>3. Refused \in AnyShape
  BY DEF Refused, AnyShape
<1>4. \A c, h, w \in Int : Shape(c, h, w) \in AnyShape
  BY DEF Shape, AnyShape
<1>5. CASE L.type = "dense"
  <2>1. Flat(L.b) \in AnyShape
    BY <1>1, <1>4 DEF Flat
  <2> QED BY <1>3, <1>5, <2>1 DEF PyShape
<1>6. CASE L.type = "conv2d"
  <2>1. ASSUME NEW x \in Int PROVE PyConvOut(x, L.k, L.stride, L.pad) \in Int
    <3> DEFINE room == x + 2 * L.pad - L.k
    <3>1. room \in Int /\ L.stride \in Nat /\ L.stride > 0
      BY <1>1, <1>6
    <3> HIDE DEF room
    <3>2. room \div L.stride \in Int
      BY <3>1
    <3>3. room \div L.stride + 1 \in Int
      BY <3>2
    <3> QED BY <3>3 DEF PyConvOut, room
  <2>2. Shape(L.b, PyConvOut(in.h, L.k, L.stride, L.pad), PyConvOut(in.w, L.k, L.stride, L.pad)) \in AnyShape
    BY <1>1, <1>2, <1>4, <2>1
  <2> QED BY <1>3, <1>6, <2>2 DEF PyShape
<1>7. CASE L.type = "maxpool2d"
  <2>1. in.h \div L.k \in Int /\ in.w \div L.k \in Int
    BY <1>1, <1>2, <1>7
  <2>2. Shape(in.c, in.h \div L.k, in.w \div L.k) \in AnyShape
    BY <1>2, <1>4, <2>1
  <2> QED BY <1>7, <2>2 DEF PyShape
<1>8. CASE L.type = "flatten"
  <2>1. Elems(in) \in Int
    BY <1>2 DEF Elems
  <2>2. Flat(Elems(in)) \in AnyShape
    BY <1>4, <2>1 DEF Flat
  <2> QED BY <1>8, <2>2 DEF PyShape
<1>9. CASE L.type \notin {"dense", "conv2d", "maxpool2d", "flatten"}
  BY <1>9 DEF PyShape
<1> QED BY <1>5, <1>6, <1>7, <1>8, <1>9

\* The shapes of a network, one after the other.
ShapesOf(layers, input_, n, s) ==
  /\ s \in Seq(AnyShape) /\ Len(s) = n + 1 /\ s[1] = input_
  /\ \A j \in 1..n : s[j + 1] = PyShape(layers[j], s[j])

LEMMA OneShapeMore ==
  ASSUME NEW layers, NEW input_, NEW n \in Nat, NEW s, ShapesOf(layers, input_, n, s), NEW x \in AnyShape,
         x = PyShape(layers[n + 1], s[n + 1])
  PROVE  ShapesOf(layers, input_, n + 1, Append(s, x))
<1> DEFINE t == Append(s, x)
<1>1. s \in Seq(AnyShape) /\ Len(s) = n + 1 /\ s[1] = input_ /\ \A j \in 1..n : s[j + 1] = PyShape(layers[j], s[j])
  BY DEF ShapesOf
<1>2. t \in Seq(AnyShape) /\ Len(t) = (n + 1) + 1 /\ \A i \in 1..(n + 1) : t[i] = s[i]
  BY <1>1
<1>3. t[(n + 1) + 1] = x
  BY <1>1
<1> HIDE DEF t
<1>4. ASSUME NEW j \in 1..(n + 1) PROVE t[j + 1] = PyShape(layers[j], t[j])
  <2>1. CASE j = n + 1
    <3>1. t[n + 1] = s[n + 1]
      BY <1>2
    <3> QED BY <1>3, <2>1, <3>1
  <2>2. CASE j # n + 1
    <3>1. j \in 1..n /\ j \in 1..(n + 1) /\ j + 1 \in 1..(n + 1)
      BY <2>2
    <3> QED BY <1>1, <1>2, <3>1
  <2> QED BY <2>1, <2>2
<1>5. t[1] = input_
  <2>1. 1 \in 1..(n + 1)
    OBVIOUS
  <2> QED BY <1>1, <1>2, <2>1
<1> QED BY <1>2, <1>4, <1>5 DEF ShapesOf, t

LEMMA ShapesPlanned ==
  ASSUME NEW m, ModelForm(m)
  PROVE  ShapesOf(m.layers, m.input, Len(m.layers), PyShapes(m))
<1> DEFINE layers == m.layers
           n == Len(layers)
           X == Seq(AnyShape) \ {<<>>}
           b == <<m.input>>
           G == [i \in 1..n |-> [x \in X |-> Append(x, PyShape(layers[i], Last(x)))]]
           Is(h) == h = [S \in SUBSET (1..n) |->
                            IF S = {} THEN b
                            ELSE Append(h[S \ {Max(S)}], PyShape(layers[Max(S)], Last(h[S \ {Max(S)}])))]
           it == CHOOSE h : Is(h)
<1>1. layers \in Seq(LayerForm) /\ m.input \in AnyShape
  BY DEF ModelForm, ShapeForm, AnyShape
<1> HIDE DEF layers
<1>2. n \in Nat /\ DOMAIN layers = 1..n /\ \A i \in 1..n : layers[i] \in LayerForm
  BY <1>1, Indexed
<1>3. PyShapes(m) = it[1..n]
  BY <1>2, Zenon DEF PyShapes, FoldLeft, MapThenFoldSet, layers
<1>4. b \in X /\ Len(b) = 1 /\ b[1] = m.input
  BY <1>1
<1> HIDE DEF n, b
<1>5. ASSUME NEW x \in X PROVE Last(x) \in AnyShape /\ Last(x) = x[Len(x)] /\ Len(x) \in Nat \ {0}
  <2>1. x \in Seq(AnyShape) /\ x # <<>>
    OBVIOUS
  <2>2. Len(x) \in Nat /\ Len(x) # 0 /\ DOMAIN x = 1..Len(x) /\ \A i \in 1..Len(x) : x[i] \in AnyShape
    BY <2>1, Indexed
  <2> DEFINE k == Len(x)
  <2>3. k \in 1..k
    <3> HIDE DEF k
    <3>1. k \in Nat /\ k # 0
      BY <2>2 DEF k
    <3> QED BY <3>1
  <2> QED BY <2>2, <2>3 DEF Last
<1>6. ASSUME NEW i \in 1..n, NEW x \in X PROVE Append(x, PyShape(layers[i], Last(x))) \in X
  <2>1. PyShape(layers[i], Last(x)) \in AnyShape
    BY <1>2, <1>5, ShapesAreShapes
  <2> DEFINE y == PyShape(layers[i], Last(x))
  <2> HIDE DEF y
  <2>2. \A u \in Seq(AnyShape), v \in AnyShape : Append(u, v) \in Seq(AnyShape) /\ Append(u, v) # <<>>
    OBVIOUS
  <2>3. Append(x, y) \in X
    BY <2>1, <2>2 DEF y
  <2> QED BY <2>3 DEF y
<1>7. G \in [1..n -> [X -> X]]
  <2> HIDE DEF X
  <2> QED BY <1>6
<1>8. PICK g : FoldOf(X, b, n, G, g)
  <2> HIDE DEF X, G
  <2> QED BY <1>2, <1>4, <1>7, FoldExists
<1>9. \A S \in SUBSET (1..n) : S # {} => Max(S) \in 1..n /\ S \ {Max(S)} \in SUBSET (1..n)
  BY <1>2, LargestOf
<1>10. Is(g)
  <2>1. g \in [SUBSET (1..n) -> X] /\ g[{}] = b
        /\ \A S \in SUBSET (1..n) : S # {} => g[S] = G[Max(S)][g[S \ {Max(S)}]]
    BY <1>8 DEF FoldOf
  <2> HIDE DEF X
  <2>2. ASSUME NEW S \in SUBSET (1..n)
        PROVE g[S] = IF S = {} THEN b
                     ELSE Append(g[S \ {Max(S)}], PyShape(layers[Max(S)], Last(g[S \ {Max(S)}])))
    <3>1. CASE S = {}
      BY <2>1, <3>1
    <3>2. CASE S # {}
      <4>1. Max(S) \in 1..n /\ g[S \ {Max(S)}] \in X /\ g[S] = G[Max(S)][g[S \ {Max(S)}]]
        BY <1>9, <2>1, <3>2
      <4> QED BY <3>2, <4>1
    <3> QED BY <3>1, <3>2
  <2>3. g = [S \in SUBSET (1..n) |-> g[S]]
    BY <2>1
  <2> QED BY <2>2, <2>3
<1>11. Is(it)
  <2> HIDE DEF Is
  <2> QED BY <1>10
<1> HIDE DEF it
<1>12. FoldLike(X, b, n, G, it)
  <2> HIDE DEF X
  <2>1. it[{}] = b
    <3>1. {} \in SUBSET (1..n)
      OBVIOUS
    <3> QED BY <1>11, <3>1
  <2>2. ASSUME NEW S \in SUBSET (1..n), S # {}, it[S \ {Max(S)}] \in X
        PROVE  it[S] = G[Max(S)][it[S \ {Max(S)}]]
    <3>1. Max(S) \in 1..n
      BY <1>9, <2>2
    <3>2. it[S] = Append(it[S \ {Max(S)}], PyShape(layers[Max(S)], Last(it[S \ {Max(S)}])))
      BY <1>11, <2>2
    <3> HIDE DEF Is
    <3> QED BY <2>2, <3>1, <3>2
  <2> HIDE DEF G, Is
  <2> QED BY <2>1, <2>2 DEF FoldLike
<1>13. FoldRow(X, b, n, G, g, it)
  <2> HIDE DEF X, G, Is
  <2> QED BY <1>2, <1>4, <1>7, <1>8, <1>12, FoldAlong
<1> HIDE DEF Is
<1>14. \A k \in 0..n : ShapesOf(layers, m.input, k, g[1..k])
  <2> DEFINE Z == {k \in Nat : k <= n => ShapesOf(layers, m.input, k, g[1..k])}
  <2>1. 0 \in Z
    <3>1. g[1..0] = b
      BY <1>13 DEF FoldRow
    <3>2. b \in Seq(AnyShape)
      BY <1>4
    <3>3. ShapesOf(layers, m.input, 0, b)
      BY <1>4, <3>2 DEF ShapesOf
    <3> QED BY <3>1, <3>3
  <2>2. ASSUME NEW k \in Nat, k \in Z PROVE k + 1 \in Z
    <3> SUFFICES ASSUME k + 1 <= n PROVE ShapesOf(layers, m.input, k + 1, g[1..(k + 1)])
      OBVIOUS
    <3> DEFINE x == g[1..k]
               y == PyShape(layers[k + 1], Last(x))
    <3>1. k + 1 \in 1..n /\ (k + 1) - 1 = k /\ ShapesOf(layers, m.input, k, x)
      <4>1. k + 1 \in 1..n /\ (k + 1) - 1 = k /\ k <= n
        BY <1>2
      <4>2. k <= n => ShapesOf(layers, m.input, k, x)
        BY <2>2
      <4> QED BY <4>1, <4>2
    <3>2. g[1..(k + 1)] = G[k + 1][g[1..((k + 1) - 1)]] /\ g[1..((k + 1) - 1)] \in X
      BY <1>13, <3>1 DEF FoldRow
    <3>3. x \in X
      <4> HIDE DEF X, G
      <4> QED BY <3>1, <3>2
    <3>4. g[1..(k + 1)] = Append(x, y)
      <4>1. g[1..(k + 1)] = G[k + 1][x]
        <5> HIDE DEF G
        <5> QED BY <3>1, <3>2
      <4> HIDE DEF X, x
      <4> QED BY <3>1, <3>3, <4>1
    <3> HIDE DEF x, X
    <3>5. Last(x) \in AnyShape /\ Last(x) = x[k + 1]
      <4>1. Len(x) = k + 1
        BY <3>1 DEF ShapesOf
      <4> QED BY <1>5, <3>3, <4>1
    <3>6. y \in AnyShape
      BY <1>2, <3>1, <3>5, ShapesAreShapes
    <3>7. y = PyShape(layers[k + 1], x[k + 1])
      BY <3>5
    <3> HIDE DEF y
    <3>8. ShapesOf(layers, m.input, k + 1, Append(x, y))
      BY <3>1, <3>6, <3>7, OneShapeMore
    <3> QED BY <3>4, <3>8
  <2>3. Nat \subseteq Z
    <3> HIDE DEF Z
    <3> QED BY <2>1, <2>2, FromOneToNext
  <2> QED BY <2>3
<1>15. it[1..n] = g[1..n] /\ n \in 0..n
  BY <1>2, <1>13 DEF FoldRow
<1> QED BY <1>3, <1>14, <1>15 DEF layers, n

\* After its last dense layer a network that numpy plans keeps one pixel
\* with as many channels as that layer has outputs.
LEMMA DenseOutputs ==
  ASSUME NEW m, ModelForm(m), Planned(m), NEW d \in 1..Len(m.layers), m.layers[d].type = "dense",
         \A j \in 1..Len(m.layers) : j > d => m.layers[j].type \notin {"dense", "conv2d"}
  PROVE  Last(PyShapes(m)).c = m.layers[d].b
<1> DEFINE n == Len(m.layers)
           s == PyShapes(m)
           b == m.layers[d].b
<1>1. ShapesOf(m.layers, m.input, n, s)
  BY ShapesPlanned
<1>2. n \in Nat /\ DOMAIN m.layers = 1..n /\ \A i \in 1..n : m.layers[i] \in LayerForm
  <2>1. m.layers \in Seq(LayerForm)
    BY DEF ModelForm
  <2> QED BY <2>1, Indexed
<1>3. b \in Nat
  BY <1>2 DEF LayerForm
<1> HIDE DEF n, s, b
<1>4. s \in Seq(AnyShape) /\ Len(s) = n + 1 /\ \A j \in 1..n : s[j + 1] = PyShape(m.layers[j], s[j])
  BY <1>1 DEF ShapesOf
<1>5. DOMAIN s = 1..(n + 1)
  BY <1>4
<1>6. \A i \in 1..(n + 1) : s[i].c > 0
  BY <1>5 DEF Planned, Range, s
<1>7. \A j \in 1..n : j > d => m.layers[j].type \notin {"conv2d", "maxpool2d", "dense"}
  <2> SUFFICES ASSUME NEW j \in 1..n, j > d PROVE m.layers[j].type \notin {"conv2d", "maxpool2d", "dense"}
    OBVIOUS
  <2>1. d \in 1..n /\ d < j
    BY <1>2 DEF n
  <2>2. m.layers[j].type \notin {"conv2d", "maxpool2d"}
    BY <1>2, <2>1 DEF Planned
  <2> QED BY <2>2 DEF n
<1>8. s[d + 1] = Flat(b)
  <2>1. d \in 1..n /\ d + 1 \in 1..(n + 1)
    BY <1>2 DEF n
  <2>2. s[d + 1] = Flat(b) \/ s[d + 1] = Refused
    BY <1>4, <2>1 DEF PyShape, b
  <2>3. ~(Refused.c > 0)
    BY DEF Refused
  <2> QED BY <1>6, <2>1, <2>2, <2>3
<1>9. Elems(Flat(b)) = b /\ Flat(b).c = b
  BY <1>3 DEF Elems, Flat, Shape
<1>10. \A j \in 0..(n - d) : s[d + j + 1] = Flat(b)
  <2> DEFINE Z == {j \in Nat : j <= n - d => s[d + j + 1] = Flat(b)}
  <2>1. 0 \in Z
    <3>1. d + 0 + 1 = d + 1
      BY DEF n
    <3> QED BY <1>8, <3>1
  <2>2. ASSUME NEW j \in Nat, j \in Z PROVE j + 1 \in Z
    <3> SUFFICES ASSUME j + 1 <= n - d PROVE s[d + (j + 1) + 1] = Flat(b)
      OBVIOUS
    <3> DEFINE i == d + j + 1
               L == m.layers[i]
    <3>1. d \in 1..n
      BY DEF n
    <3>2. i \in 1..n /\ i > d /\ d + (j + 1) + 1 = i + 1 /\ j <= n - d
      BY <1>2, <3>1
    <3>3. s[i] = Flat(b)
      BY <2>2, <3>2
    <3>4. s[i + 1] = PyShape(L, s[i]) /\ L.type \notin {"conv2d", "maxpool2d", "dense"}
      <4> HIDE DEF i
      <4> QED BY <1>4, <1>7, <3>2
    <3> HIDE DEF i, L
    <3>5. PyShape(L, Flat(b)) = Flat(b)
      BY <1>9, <3>4 DEF PyShape
    <3> QED BY <3>2, <3>3, <3>4, <3>5
  <2>3. Nat \subseteq Z
    <3> HIDE DEF Z
    <3> QED BY <2>1, <2>2, FromOneToNext
  <2> SUFFICES ASSUME NEW j \in 0..(n - d) PROVE s[d + j + 1] = Flat(b)
    OBVIOUS
  <2>4. j \in Nat /\ j <= n - d
    BY <1>2 DEF n
  <2> QED BY <2>3, <2>4
<1>11. Last(s) = Flat(b)
  <2>1. d \in 1..n
    BY DEF n
  <2>2. n - d \in 0..(n - d) /\ d + (n - d) + 1 = n + 1
    BY <1>2, <2>1
  <2>3. s[d + (n - d) + 1] = Flat(b)
    BY <1>10, <2>2
  <2>4. Last(s) = s[n + 1]
    BY <1>4 DEF Last
  <2> QED BY <2>2, <2>3, <2>4
<1> QED BY <1>9, <1>11 DEF s, b

\* The labels written around a network fit its outputs.
THEOREM LabelsFitOutputs ==
  ASSUME NEW m, ModelForm(m), Planned(m)
  PROVE  LabelsFit(m.layers, Last(PyShapes(m)).c)
<1> DEFINE layers == m.layers
           n == Len(layers)
           dense == {i \in 1..n : layers[i].type = "dense"}
           d == Max(dense)
           out == Last(PyShapes(m)).c
<1>1. n \in Nat /\ DOMAIN layers = 1..n
  <2>1. m.layers \in Seq(LayerForm)
    BY DEF ModelForm
  <2> QED BY <2>1, Indexed
<1> SUFFICES ASSUME \E i \in DOMAIN layers :
                       layers[i].type = "dense" /\ \A j \in DOMAIN layers : j > i => layers[j].type # "conv2d",
                    NetworkLabels(layers) # 0
             PROVE  NetworkLabels(layers) = out
  BY DEF LabelsFit
<1>2. PICK i \in 1..n : layers[i].type = "dense" /\ \A j \in 1..n : j > i => layers[j].type # "conv2d"
  BY <1>1
<1>3. dense # {} /\ layers[d].b = Labels /\ NetworkLabels(layers) = Labels
  <2>1. {x \in DOMAIN layers : layers[x].type = "dense"} = dense
    BY <1>1
  <2> HIDE DEF dense, layers
  <2> QED BY <2>1 DEF NetworkLabels
<1> HIDE DEF layers
<1>4. dense \in SUBSET (1..n) /\ i \in dense
  BY <1>2
<1>5. d \in dense /\ \A j \in dense : j <= d
  <2> HIDE DEF dense, n
  <2> QED BY <1>1, <1>3, <1>4, LargestOf
<1>6. d \in 1..n /\ layers[d].type = "dense" /\ i <= d
  BY <1>4, <1>5
<1>7. \A j \in 1..n : j > d => layers[j].type \notin {"dense", "conv2d"}
  <2> SUFFICES ASSUME NEW j \in 1..n, j > d PROVE layers[j].type \notin {"dense", "conv2d"}
    OBVIOUS
  <2>1. layers[j].type # "dense"
    <3> HIDE DEF d
    <3>1. ~(j <= d)
      BY <1>6
    <3>2. j \notin dense
      BY <1>5, <3>1
    <3> QED BY <3>2
  <2>2. j > i
    <3> HIDE DEF d
    <3> QED BY <1>1, <1>6
  <2> QED BY <1>2, <2>1, <2>2
<1> HIDE DEF d
<1>8. out = layers[d].b
  BY <1>6, <1>7, DenseOutputs DEF layers, n
<1> QED BY <1>3, <1>8 DEF layers, n

\* What is accepted works, and what is made of it is accepted, for all that
\* can be asked.
THEOREM PackagesAreUsable == Asked => PackagesWork
<1> SUFFICES ASSUME Asked PROVE PackagesWork
  OBVIOUS
<1>1. ASSUME input.kind = "package"
      PROVE AcceptedIsEnough(input.p) /\ ValidIsUsable(input.p) /\ ExportKeepsClaim(input.p)
  BY <1>1, ManifestsAreEnough, ValidPackagesWork, ExportsKeepTheirWord DEF Asked
<1>2. ASSUME input.kind = "name"
      PROVE  /\ NameSettled(input.text)
             /\ \A known \in {{}, {input.text}, {Slug(input.text, Fallback)}} :
                   SaveFindsNameFree([loads |-> TRUE, stem |-> input.text, role |-> "recon"], input.text, known)
  <2> DEFINE f == [loads |-> TRUE, stem |-> input.text, role |-> "recon"]
  <2>1. input.text \in Seq(Letters)
    BY <1>2 DEF Asked
  <2>2. f.role \in PolicyRoles
    BY DEF PolicyRoles
  <2> HIDE DEF f
  <2>3. \A known : SaveFindsNameFree(f, input.text, known)
    BY <2>1, <2>2, SavesFindNamesFree
  <2> QED BY <2>1, <2>3, NamesSettle DEF f
<1>3. ASSUME input.kind = "model", Planned(input.m)
      PROVE LabelsFit(input.m.layers, Last(PyShapes(input.m)).c)
  BY <1>3, LabelsFitOutputs DEF Asked
<1>4. ASSUME input.kind = "upload" PROVE UploadAccepted(input.f)
  BY <1>4, UploadsAreAccepted DEF Asked
<1>5. ASSUME input.kind = "uploaded" PROVE NothingOverwritten(input.members)
  BY <1>5, NothingIsOverwritten DEF Asked
<1>6. ASSUME input.kind = "packed" PROVE PackInstalls(input.folder, input.top)
  BY <1>6, FoldersComeBack DEF Asked
<1>7. ASSUME input.kind = "archive" PROVE ArchiveExact(input.files, input.target, input.main)
  BY <1>7, ArchivesAreExact DEF Asked
<1>8. ASSUME input.kind = "prepare"
      PROVE PreparedPacks(input.runtime, input.files, input.model, input.library, input.target, input.main)
  BY <1>8, PreparedPacksUp DEF Asked
<1> QED BY <1>1, <1>2, <1>3, <1>4, <1>5, <1>6, <1>7, <1>8 DEF PackagesWork
=============================================================================
