-------------------------- MODULE Positions_proofs --------------------------
(***************************************************************************)
(* Proofs about Fracdex and Positions, for every base and number of heads, *)
(* every set of rows and every bound.                                      *)
(*                                                                         *)
(* The keys. Midpoint and NKeysBetween are recursive functions. That there *)
(* are such functions is RecursionHolds; what they compute is shown by     *)
(* RankInduction, on the length of the two fractions and on the number of  *)
(* keys. A key is an integer and a fraction (KeyParts, KeyMade). Integers  *)
(* are compared at a symbol that both have (LessIntegers), so that the     *)
(* next integer up or down, or a midpoint under the same integer, is       *)
(* strictly between the bounds (KeyBetweenIs).                             *)
(*                                                                         *)
(* The rows. The two bounds a placement reads are neighbours, no row of    *)
(* the bucket lies strictly between them (SlotGap, DayGap). The new key is *)
(* therefore on a definite side of every row of the bucket: it is none of  *)
(* theirs, and it stands where the anchor asks for it. Because no two rows *)
(* of a bucket have one position, the bounds of a gap are in order, and a  *)
(* key between them exists (SlotBounds, DayBounds).                        *)
(***************************************************************************)
EXTENDS Positions, WellFoundedInduction, SequenceTheorems, FiniteSetTheorems, TLAPS

-----------------------------------------------------------------------------
(* Induction and recursion over a rank                                     *)

(* A set of natural numbers has a least member.                            *)
LEMMA Least ==
  ASSUME NEW T, T \subseteq Nat, T # {}
  PROVE  \E n \in T : \A m \in T : n <= m
<1> DEFINE R == OpToRel(<, Nat)
<1>1. IsWellFoundedOn(R, Nat)
  BY NatLessThanWellFounded
<1>2. \A m, n \in Nat : <<m, n>> \in R <=> m < n
  BY DEF OpToRel
<1> HIDE DEF R
<1>3. PICK n \in T : \A m \in T : ~ (<<m, n>> \in R)
  BY <1>1, WFMin
<1>4. \A m \in T : ~(m < n) /\ m \in Nat /\ n \in Nat
  BY <1>2, <1>3
<1> QED
  BY <1>4

(***************************************************************************)
(* Induction along a rank: a set to which every x belongs whose inferiors  *)
(* all belong to it is the whole domain.                                   *)
(***************************************************************************)
LEMMA RankInduction ==
  ASSUME NEW D, NEW rank \in [D -> Nat], NEW S,
         \A x \in D : (\A y \in D : rank[y] < rank[x] => y \in S) => x \in S
  PROVE  D \subseteq S
<1> DEFINE T == {rank[x] : x \in D \ S}
<1> SUFFICES ASSUME NEW z \in D, z \notin S PROVE FALSE
  OBVIOUS
<1>1. T \subseteq Nat /\ rank[z] \in T
  OBVIOUS
<1>2. PICK k \in T : \A l \in T : k <= l
  <2> HIDE DEF T
  <2> QED
    BY <1>1, Least
<1>3. PICK x \in D \ S : rank[x] = k
  BY <1>2
<1>4. ASSUME NEW y \in D, rank[y] < rank[x]
      PROVE  y \in S
  <2>1. rank[y] \in Nat /\ rank[x] \in Nat /\ ~(k <= rank[y])
    BY <1>3, <1>4
  <2>2. rank[y] \notin T
    <3> HIDE DEF T
    <3> QED
      BY <1>2, <2>1
  <2> QED
    BY <2>2
<1> QED
  BY <1>3, <1>4

(***************************************************************************)
(* A recursive function exists. step takes an attempt at the function to a *)
(* better one, whose value at x depends on the attempt at the arguments of *)
(* lower rank only.                                                        *)
(***************************************************************************)
Descends(D, V, rank, step) ==
    /\ rank \in [D -> Nat] /\ step \in [[D -> V] -> [D -> V]]
    /\ \A f, g \in [D -> V], x \in D :
          (\A y \in D : rank[y] < rank[x] => f[y] = g[y]) => step[f][x] = step[g][x]

(* An attempt that is right below rank n.                                  *)
RightBelow(D, V, rank, step, n, f) ==
    n \in Nat /\ f \in [D -> V] /\ \A x \in D : rank[x] < n => f[x] = step[f][x]

(* Two attempts agree wherever both are right.                             *)
LEMMA RightUnique ==
  ASSUME NEW D, NEW V, NEW rank, NEW step, Descends(D, V, rank, step),
         NEW n, NEW m, NEW f, NEW g,
         RightBelow(D, V, rank, step, n, f), RightBelow(D, V, rank, step, m, g)
  PROVE  \A x \in D : rank[x] < n /\ rank[x] < m => f[x] = g[x]
<1> DEFINE S == {x \in D : rank[x] < n /\ rank[x] < m => f[x] = g[x]}
<1>1. rank \in [D -> Nat] /\ n \in Nat /\ m \in Nat
  BY DEF Descends, RightBelow
<1>2. ASSUME NEW x \in D, \A y \in D : rank[y] < rank[x] => y \in S
      PROVE  x \in S
  <2> SUFFICES ASSUME rank[x] < n, rank[x] < m PROVE f[x] = g[x]
    OBVIOUS
  <2>1. \A y \in D : rank[y] < rank[x] => rank[y] < n /\ rank[y] < m
    BY <1>1
  <2>2. \A y \in D : rank[y] < rank[x] => f[y] = g[y]
    BY <1>2, <2>1
  <2> QED
    BY <2>2 DEF Descends, RightBelow
<1> HIDE DEF S
<1>3. D \subseteq S
  BY <1>1, <1>2, RankInduction
<1> QED
  BY <1>3 DEF S

(* There is an attempt that is right below every rank.                     *)
LEMMA RightExists ==
  ASSUME NEW D, NEW V, NEW v \in V, NEW rank, NEW step, Descends(D, V, rank, step)
  PROVE  \A n \in Nat : \E f : RightBelow(D, V, rank, step, n, f)
<1> USE DEF Descends
<1> DEFINE T == {n \in Nat : ~ \E f : RightBelow(D, V, rank, step, n, f)}
<1> SUFFICES ASSUME T # {} PROVE FALSE
  OBVIOUS
<1>1. PICK n \in T : \A l \in T : n <= l
  <2>1. T \subseteq Nat
    OBVIOUS
  <2> HIDE DEF T
  <2> QED
    BY <2>1, Least
<1>2. n \in Nat
  OBVIOUS
<1>3. CASE n = 0
  <2>1. RightBelow(D, V, rank, step, n, [x \in D |-> v])
    BY <1>3 DEF RightBelow
  <2> QED
    BY <2>1
<1>4. CASE n # 0
  <2>1. n - 1 \in Nat /\ ~(n <= n - 1)
    BY <1>2, <1>4
  <2>2. n - 1 \notin T
    <3> HIDE DEF T
    <3> QED
      BY <1>1, <2>1
  <2>3. PICK f : RightBelow(D, V, rank, step, n - 1, f)
    BY <2>1, <2>2
  <2>4. f \in [D -> V] /\ step[f] \in [D -> V]
    BY <2>3 DEF RightBelow
  <2>5. ASSUME NEW x \in D, rank[x] < n
        PROVE  step[f][x] = step[step[f]][x]
    <3>1. \A y \in D : rank[y] < rank[x] => f[y] = step[f][y]
      <4> SUFFICES ASSUME NEW y \in D, rank[y] < rank[x] PROVE f[y] = step[f][y]
        OBVIOUS
      <4>1. rank[y] < n - 1
        BY <1>2, <2>5
      <4> QED
        BY <2>3, <4>1 DEF RightBelow
    <3> QED
      BY <2>4, <3>1 DEF Descends
  <2>6. RightBelow(D, V, rank, step, n, step[f])
    BY <2>4, <2>5 DEF RightBelow
  <2> QED
    BY <2>6
<1> QED
  BY <1>3, <1>4

(* Put together, the attempts are a function that is right everywhere.     *)
LEMMA RecursionHolds ==
  ASSUME NEW D, NEW V, NEW v \in V, NEW rank, NEW step, Descends(D, V, rank, step)
  PROVE  \E f \in [D -> V] : f = step[f]
<1>0. rank \in [D -> Nat] /\ step \in [[D -> V] -> [D -> V]]
  BY DEF Descends
<1> DEFINE R(n, f) == RightBelow(D, V, rank, step, n, f)
           at == [n \in Nat |-> CHOOSE f : R(n, f)]
           h == [x \in D |-> at[rank[x] + 1][x]]
<1>1. \A n \in Nat : R(n, at[n])
  <2>1. \A n \in Nat : \E f : R(n, f)
    BY RightExists
  <2> HIDE DEF R
  <2> QED
    BY <2>1
<1>2. \A n \in Nat : at[n] \in [D -> V]
  BY <1>1 DEF RightBelow
<1>3. \A x \in D : rank[x] \in Nat /\ rank[x] + 1 \in Nat
  BY <1>0
<1> HIDE DEF at
<1>4. h \in [D -> V]
  BY <1>2, <1>3
<1>5. ASSUME NEW x \in D
      PROVE  h[x] = step[h][x]
  <2> DEFINE n == rank[x] + 1
  <2>1. h[x] = at[n][x] /\ at[n][x] = step[at[n]][x]
    <3>1. rank[x] < n /\ n \in Nat
      BY <1>3
    <3>2. R(n, at[n])
      BY <1>1, <3>1
    <3> QED
      BY <3>1, <3>2 DEF RightBelow
  <2>2. ASSUME NEW y \in D, rank[y] < rank[x]
        PROVE  h[y] = at[n][y]
    <3> DEFINE m == rank[y] + 1
    <3>1. n \in Nat /\ m \in Nat /\ rank[y] < n /\ rank[y] < m
      BY <1>3, <2>2
    <3>2. R(n, at[n]) /\ R(m, at[m])
      BY <1>1, <3>1
    <3> HIDE DEF n, m
    <3>3. /\ RightBelow(D, V, rank, step, n, at[n])
          /\ RightBelow(D, V, rank, step, m, at[m])
      BY <3>2
    <3>4. \A z \in D : rank[z] < n /\ rank[z] < m => at[n][z] = at[m][z]
      <4> DEFINE f == at[n]
                 g == at[m]
      <4>1. n \in Nat /\ m \in Nat
        BY <3>1
      <4>2. RightBelow(D, V, rank, step, n, f) /\ RightBelow(D, V, rank, step, m, g)
        BY <3>3
      <4> HIDE DEF f, g
      <4>3. \A z \in D : rank[z] < n /\ rank[z] < m => f[z] = g[z]
        BY <4>1, <4>2, RightUnique
      <4> QED
        BY <4>3 DEF f, g
    <3>5. h[y] = at[m][y]
      BY DEF m
    <3> QED
      BY <3>1, <3>4, <3>5
  <2>3. n \in Nat
    BY <1>3
  <2> HIDE DEF h, n
  <2>4. step[h][x] = step[at[n]][x]
    BY <1>2, <1>4, <2>2, <2>3 DEF Descends
  <2> QED
    BY <2>1, <2>4
<1>6. step[h] \in [D -> V]
  BY <1>0, <1>4
<1> HIDE DEF h
<1>7. h = step[h]
  BY <1>4, <1>5, <1>6
<1> QED
  BY <1>4, <1>7

-----------------------------------------------------------------------------
(* The order of strings.                                                   *)

(* The order of keys (COLLATE "C", Go's < on strings) is strict.           *)
LEMMA LessIrreflexive ==
  ASSUME NEW a \in Seq(Int)
  PROVE  ~Less(a, a)
BY DEF Less

(* The order of keys is transitive.                                        *)
LEMMA LessTransitive ==
  ASSUME NEW a \in Seq(Int), NEW b \in Seq(Int), NEW c \in Seq(Int), Less(a, b), Less(b, c)
  PROVE  Less(a, c)
<1>1. PICK i \in 1..Len(b) : /\ \A k \in 1..(i - 1) : k <= Len(a) /\ a[k] = b[k]
                             /\ i <= Len(a) => a[i] < b[i]
  BY DEF Less
<1>2. PICK j \in 1..Len(c) : /\ \A k \in 1..(j - 1) : k <= Len(b) /\ b[k] = c[k]
                             /\ j <= Len(b) => b[j] < c[j]
  BY DEF Less
<1>3. /\ Len(a) \in Nat /\ Len(b) \in Nat /\ Len(c) \in Nat
      /\ \A k \in 1..Len(a) : a[k] \in Int
      /\ \A k \in 1..Len(b) : b[k] \in Int
      /\ \A k \in 1..Len(c) : c[k] \in Int
  BY ElementOfSeq, LenProperties
<1>4. CASE i <= j
  <2>1. \A k \in 1..(i - 1) : k <= Len(a) /\ a[k] = c[k]
    BY <1>1, <1>2, <1>3, <1>4
  <2>2. i <= Len(a) => a[i] < c[i]
    <3>1. CASE i = j
      BY <1>1, <1>2, <1>3, <3>1
    <3>2. CASE i # j
      <4>1. b[i] = c[i]
        BY <1>2, <1>3, <1>4, <3>2
      <4> QED
        BY <1>1, <4>1
    <3> QED
      BY <3>1, <3>2
  <2>3. i \in 1..Len(c)
    BY <1>2, <1>3, <1>4
  <2> QED
    BY <2>1, <2>2, <2>3 DEF Less
<1>5. CASE j < i
  <2>1. \A k \in 1..(j - 1) : k <= Len(a) /\ a[k] = c[k]
    <3>1. \A k \in 1..(j - 1) : k \in 1..(i - 1)
      BY <1>3, <1>5
    <3> QED
      BY <1>1, <1>2, <3>1
  <2>2. a[j] = b[j] /\ j <= Len(b)
    BY <1>1, <1>2, <1>3, <1>5
  <2>3. j <= Len(a) => a[j] < c[j]
    BY <1>2, <2>2
  <2> QED
    BY <1>2, <2>1, <2>3 DEF Less
<1> QED
  BY <1>3, <1>4, <1>5

(* Of two different keys one is below the other.                           *)
LEMMA LessTotal ==
  ASSUME NEW a \in Seq(Int), NEW b \in Seq(Int), a # b
  PROVE  Less(a, b) \/ Less(b, a)
<1>1. /\ Len(a) \in Nat /\ Len(b) \in Nat
      /\ \A k \in 1..Len(a) : a[k] \in Int
      /\ \A k \in 1..Len(b) : b[k] \in Int
  BY ElementOfSeq, LenProperties
<1> DEFINE T == {i \in Nat : i >= 1 /\ ~(i <= Len(a) /\ i <= Len(b) /\ a[i] = b[i])}
<1>2. T \subseteq Nat /\ Len(a) + 1 \in T
  BY <1>1
<1>3. PICK i \in T : \A j \in T : i <= j
  <2> HIDE DEF T
  <2> QED
    BY <1>2, Least
<1>4. i \in Nat /\ i >= 1 /\ ~(i <= Len(a) /\ i <= Len(b) /\ a[i] = b[i])
  BY <1>3
<1>5. \A j \in 1..(i - 1) : j <= Len(a) /\ j <= Len(b) /\ a[j] = b[j]
  <2> SUFFICES ASSUME NEW j \in 1..(i - 1) PROVE j \notin T
    BY <1>4
  <2>1. j \in Nat /\ ~(i <= j)
    BY <1>4
  <2> HIDE DEF T
  <2> QED
    BY <1>3, <2>1
<1>6. i <= Len(a) \/ i <= Len(b)
  <2> SUFFICES ASSUME i > Len(a), i > Len(b) PROVE FALSE
    BY <1>1, <1>4
  <2>1. Len(a) = Len(b)
    <3>1. CASE Len(a) < Len(b)
      <4>1. Len(b) \in 1..(i - 1)
        BY <1>1, <1>4, <3>1
      <4> QED
        BY <1>1, <1>5, <3>1, <4>1
    <3>2. CASE Len(b) < Len(a)
      <4>1. Len(a) \in 1..(i - 1)
        BY <1>1, <1>4, <3>2
      <4> QED
        BY <1>1, <1>5, <3>2, <4>1
    <3> QED
      BY <1>1, <3>1, <3>2
  <2>2. \A j \in 1..Len(a) : a[j] = b[j]
    BY <1>1, <1>4, <1>5
  <2> QED
    BY <2>1, <2>2, SeqEqual
<1>7. CASE i <= Len(a) /\ i <= Len(b)
  <2>1. a[i] < b[i] \/ b[i] < a[i]
    BY <1>1, <1>4, <1>7
  <2>2. i \in 1..Len(a) /\ i \in 1..Len(b)
    BY <1>1, <1>4, <1>7
  <2> QED
    BY <1>5, <2>1, <2>2 DEF Less
<1>8. CASE i > Len(b) /\ i <= Len(a)
  <2>1. i \in 1..Len(a) /\ ~(i <= Len(b))
    BY <1>1, <1>4, <1>8
  <2> QED
    BY <1>5, <2>1 DEF Less
<1>9. CASE i > Len(a) /\ i <= Len(b)
  <2>1. i \in 1..Len(b) /\ ~(i <= Len(a))
    BY <1>1, <1>4, <1>9
  <2> QED
    BY <1>5, <2>1 DEF Less
<1> QED
  BY <1>1, <1>4, <1>6, <1>7, <1>8, <1>9

(* What a string has in common with its extensions does not count.         *)
LEMMA LessUnder ==
  ASSUME NEW x \in Seq(Int), NEW f \in Seq(Int), NEW g \in Seq(Int)
  PROVE  Less(x \o f, x \o g) <=> Less(f, g)
<1> DEFINE a == x \o f
           b == x \o g
           n == Len(x)
<1>1. /\ n \in Nat /\ Len(f) \in Nat /\ Len(g) \in Nat
      /\ Len(a) = n + Len(f) /\ Len(b) = n + Len(g)
      /\ \A k \in 1..n : x[k] \in Int
  BY LenProperties, ConcatProperties, ElementOfSeq
<1>2. /\ \A k \in 1..n : a[k] = x[k] /\ b[k] = x[k]
      /\ \A k \in 1..Len(f) : a[n + k] = f[k]
      /\ \A k \in 1..Len(g) : b[n + k] = g[k]
  <2>1. /\ \A k \in 1..(n + Len(f)) : a[k] = IF k <= n THEN x[k] ELSE f[k - n]
        /\ \A k \in 1..(n + Len(g)) : b[k] = IF k <= n THEN x[k] ELSE g[k - n]
    BY ConcatProperties
  <2> QED
    BY <1>1, <2>1
<1> HIDE DEF a, b, n
<1>3. ASSUME Less(f, g) PROVE Less(a, b)
  <2>1. PICK i \in 1..Len(g) : /\ \A j \in 1..(i - 1) : j <= Len(f) /\ f[j] = g[j]
                               /\ i <= Len(f) => f[i] < g[i]
    BY <1>3 DEF Less
  <2>2. PICK l \in 1..Len(b) : l = n + i
    BY <1>1
  <2>3. l <= Len(a) => a[l] < b[l]
    BY <1>1, <1>2, <2>1, <2>2
  <2>4. ASSUME NEW j \in 1..(l - 1)
        PROVE  j <= Len(a) /\ a[j] = b[j]
    <3>1. CASE j <= n
      BY <1>1, <1>2, <3>1
    <3>2. CASE j > n
      <4>1. PICK k \in 1..(i - 1) : j = n + k
        BY <1>1, <2>2, <3>2
      <4>2. k <= Len(f) /\ f[k] = g[k] /\ k \in 1..Len(g)
        BY <1>1, <2>1, <4>1
      <4>3. k \in 1..Len(f)
        BY <1>1, <4>2
      <4>4. a[n + k] = f[k] /\ b[n + k] = g[k]
        BY <1>2, <4>2, <4>3
      <4> QED
        BY <1>1, <4>1, <4>2, <4>4
    <3> QED
      BY <1>1, <3>1, <3>2
  <2> QED
    BY <2>3, <2>4 DEF Less
<1>4. ASSUME Less(a, b) PROVE Less(f, g)
  <2>1. PICK i \in 1..Len(b) : /\ \A j \in 1..(i - 1) : j <= Len(a) /\ a[j] = b[j]
                               /\ i <= Len(a) => a[i] < b[i]
    BY <1>4 DEF Less
  <2>2. i > n
    <3> SUFFICES ASSUME i <= n PROVE FALSE
      BY <1>1
    <3>1. a[i] = x[i] /\ b[i] = x[i] /\ x[i] \in Int /\ i <= Len(a)
      BY <1>1, <1>2
    <3> QED
      BY <2>1, <3>1
  <2>3. PICK l \in 1..Len(g) : i = n + l
    BY <1>1, <2>2
  <2>4. l <= Len(f) => f[l] < g[l]
    <3> SUFFICES ASSUME l <= Len(f) PROVE f[l] < g[l]
      OBVIOUS
    <3>1. l \in 1..Len(f) /\ i <= Len(a)
      BY <1>1, <2>3
    <3>2. a[n + l] = f[l] /\ b[n + l] = g[l]
      BY <1>2, <3>1
    <3> QED
      BY <2>1, <2>3, <3>1, <3>2
  <2>5. ASSUME NEW j \in 1..(l - 1)
        PROVE  j <= Len(f) /\ f[j] = g[j]
    <3>1. n + j \in 1..(i - 1) /\ j \in 1..Len(g)
      BY <1>1, <2>3
    <3>2. n + j <= Len(a) /\ a[n + j] = b[n + j]
      BY <2>1, <3>1
    <3> QED
      BY <1>1, <1>2, <3>1, <3>2
  <2> QED
    BY <2>4, <2>5 DEF Less
<1> QED
  BY <1>3, <1>4 DEF a, b

-----------------------------------------------------------------------------
(* Integers, and the two parts of a key.                                   *)

Integer(x) ==
    /\ x \in Seq(Int)
    /\ x # Empty
    /\ x[1] \in Heads
    /\ Len(x) = IntegerLength(x[1])
    /\ \A i \in 2..Len(x) : x[i] \in Digit

(* The symbols of an integer are numbers, and its head says how many.      *)
LEMMA IntegerHas ==
  ASSUME NEW x, Integer(x)
  PROVE  /\ x \in Seq(Int) /\ x[1] \in Int /\ x[1] \in Heads
         /\ Len(x) \in Nat /\ Len(x) >= 2
         /\ Len(x) = IF x[1] >= 0 THEN x[1] + 2 ELSE 1 - x[1]
         /\ \A i \in 1..Len(x) : x[i] \in Int
BY ElementOfSeq, LenProperties, FracdexAssumption DEF Integer, Heads, IntegerLength

(* Two integers differ at a symbol that both have.                         *)
LEMMA IntegersApart ==
  ASSUME NEW x, NEW y, Integer(x), Integer(y), Less(x, y)
  PROVE  \E i \in 1..Len(y) : /\ i <= Len(x) /\ x[i] < y[i]
                              /\ \A j \in 1..(i - 1) : x[j] = y[j]
<1>1. PICK i \in 1..Len(y) : /\ \A j \in 1..(i - 1) : j <= Len(x) /\ x[j] = y[j]
                             /\ i <= Len(x) => x[i] < y[i]
  BY DEF Less
<1>2. i <= Len(x)
  <2>1. CASE i = 1
    BY <2>1, IntegerHas
  <2>2. CASE i # 1
    <3>1. i \in Nat /\ 1 \in 1..(i - 1)
      BY <2>2, IntegerHas
    <3>2. x[1] = y[1]
      BY <1>1, <3>1
    <3> QED
      BY <3>1, <3>2, IntegerHas
  <2> QED
    BY <2>1, <2>2
<1> QED
  BY <1>1, <1>2

(* The integer parts decide, whatever fractions follow (getIntegerPart).   *)
LEMMA LessIntegers ==
  ASSUME NEW x, NEW y, Integer(x), Integer(y), Less(x, y),
         NEW f \in Seq(Int), NEW g \in Seq(Int)
  PROVE  Less(x \o f, y \o g)
<1>1. PICK i \in 1..Len(y) : /\ i <= Len(x) /\ x[i] < y[i]
                             /\ \A j \in 1..(i - 1) : x[j] = y[j]
  BY IntegersApart
<1>2. /\ x \in Seq(Int) /\ y \in Seq(Int) /\ Len(x) \in Nat /\ Len(y) \in Nat
      /\ Len(f) \in Nat /\ Len(g) \in Nat
  BY IntegerHas, LenProperties
<1>3. /\ Len(x \o f) = Len(x) + Len(f) /\ Len(y \o g) = Len(y) + Len(g)
      /\ \A k \in 1..Len(x) : (x \o f)[k] = x[k]
      /\ \A k \in 1..Len(y) : (y \o g)[k] = y[k]
  <2>1. /\ \A k \in 1..(Len(x) + Len(f)) : (x \o f)[k] = IF k <= Len(x) THEN x[k] ELSE f[k - Len(x)]
        /\ \A k \in 1..(Len(y) + Len(g)) : (y \o g)[k] = IF k <= Len(y) THEN y[k] ELSE g[k - Len(y)]
        /\ Len(x \o f) = Len(x) + Len(f) /\ Len(y \o g) = Len(y) + Len(g)
    BY <1>2, ConcatProperties
  <2> QED
    BY <1>2, <2>1
<1>4. /\ i \in 1..Len(y \o g) /\ i \in 1..Len(x)
      /\ \A j \in 1..(i - 1) : j \in 1..Len(x) /\ j \in 1..Len(y) /\ j <= Len(x \o f)
  BY <1>1, <1>2, <1>3
<1>5. \A j \in 1..(i - 1) : j <= Len(x \o f) /\ (x \o f)[j] = (y \o g)[j]
  BY <1>1, <1>3, <1>4
<1>6. (x \o f)[i] < (y \o g)[i]
  BY <1>1, <1>3, <1>4
<1> QED
  BY <1>4, <1>5, <1>6 DEF Less

(* The smallest integer is one, and there is none below.                   *)
LEMMA SmallestIsInteger ==
  /\ Integer(SmallestInteger)
  /\ Len(SmallestInteger) = MaxHead + 2
  /\ SmallestInteger[1] = -(MaxHead + 1)
  /\ \A i \in 2..(MaxHead + 2) : SmallestInteger[i] = 0
<1> DEFINE h == <<-(MaxHead + 1)>>
           z == Zeros(MaxHead + 1)
<1>1. MaxHead \in Nat /\ Base \in Nat /\ Base > 1
  BY FracdexAssumption
<1>2. h \in Seq(Int) /\ Len(h) = 1 /\ h[1] = -(MaxHead + 1)
  BY <1>1
<1>3. z \in Seq(Int) /\ Len(z) = MaxHead + 1 /\ \A i \in 1..(MaxHead + 1) : z[i] = 0
  BY <1>1 DEF Zeros
<1> HIDE DEF h, z
<1>4. /\ h \o z \in Seq(Int) /\ Len(h \o z) = MaxHead + 2 /\ (h \o z)[1] = -(MaxHead + 1)
      /\ \A i \in 2..(MaxHead + 2) : (h \o z)[i] = 0
  <2>1. /\ h \o z \in Seq(Int) /\ Len(h \o z) = Len(h) + Len(z)
        /\ \A i \in 1..(Len(h) + Len(z)) : (h \o z)[i] = IF i <= Len(h) THEN h[i] ELSE z[i - Len(h)]
    BY <1>2, <1>3, ConcatProperties
  <2>2. \A i \in 2..(MaxHead + 2) : (h \o z)[i] = z[i - 1] /\ i - 1 \in 1..(MaxHead + 1)
    BY <1>1, <1>2, <1>3, <2>1
  <2> QED
    BY <1>1, <1>2, <1>3, <2>1, <2>2
<1>5. SmallestInteger = h \o z
  BY DEF SmallestInteger, h, z
<1>6. 0 \in Digit /\ -(MaxHead + 1) \in Heads /\ IntegerLength(-(MaxHead + 1)) = MaxHead + 2
  BY <1>1 DEF Digit, Heads, IntegerLength
<1>7. h \o z # Empty
  BY <1>1, <1>4 DEF Empty
<1> QED
  BY <1>4, <1>5, <1>6, <1>7 DEF Integer

(* No integer is below the reserved smallest one (smallestInteger).        *)
LEMMA NoneBelowSmallest ==
  ASSUME NEW x, Integer(x)
  PROVE  ~Less(x, SmallestInteger)
<1> SUFFICES ASSUME Less(x, SmallestInteger) PROVE FALSE
  OBVIOUS
<1> DEFINE y == SmallestInteger
<1>1. PICK i \in 1..Len(y) : /\ i <= Len(x) /\ x[i] < y[i]
                             /\ \A j \in 1..(i - 1) : x[j] = y[j]
  BY IntegersApart, SmallestIsInteger
<1>2. Len(x) \in Nat /\ MaxHead \in Nat /\ \A j \in 1..Len(x) : x[j] \in Int
  BY FracdexAssumption, IntegerHas
<1>3. CASE i = 1
  BY <1>1, <1>2, <1>3, SmallestIsInteger, IntegerHas DEF Heads
<1>4. CASE i # 1
  <2>1. i \in 2..Len(x) /\ i \in 2..(MaxHead + 2)
    BY <1>1, <1>2, <1>4, SmallestIsInteger
  <2>2. x[i] \in Digit /\ y[i] = 0
    BY <2>1, SmallestIsInteger DEF Integer
  <2> QED
    BY <1>1, <2>2, FracdexAssumption DEF Digit
<1> QED
  BY <1>3, <1>4

(* A set of numbers up to n has a greatest member, and Max finds it.       *)
LEMMA MaxIs ==
  ASSUME NEW n \in Nat, NEW T, T \subseteq 0..n, T # {}
  PROVE  Max(T) \in T /\ \A t \in T : t <= Max(T)
<1> DEFINE U == {n - t : t \in T}
<1>1. U \subseteq Nat
  OBVIOUS
<1>0. U # {}
  OBVIOUS
<1>2. PICK u \in U : \A v \in U : u <= v
  <2> HIDE DEF U
  <2> QED
    BY <1>0, <1>1, Least
<1>3. PICK m \in T : u = n - m
  BY <1>2
<1>4. \A t \in T : m >= t
  <2> SUFFICES ASSUME NEW t \in T PROVE m >= t
    OBVIOUS
  <2>1. n - t \in U
    OBVIOUS
  <2>2. u <= n - t
    BY <1>2, <2>1
  <2> QED
    BY <1>3, <2>2
<1>5. Max(T) \in T /\ \A t \in T : Max(T) >= t
  BY <1>4 DEF Max
<1> QED
  BY <1>5

(* A valid key is an integer and a fraction that ends in no zero           *)
(* (validateOrderKey).                                                     *)
LEMMA KeyParts ==
  ASSUME NEW key \in Seq(Int), ValidateOrderKey(key)
  PROVE  /\ Integer(IntegerPart(key))
         /\ Fraction(key) \in Fractions /\ ~TrailingZero(Fraction(key))
         /\ key = IntegerPart(key) \o Fraction(key)
         /\ Fraction(key) = Empty => IntegerPart(key) # SmallestInteger
<1> DEFINE n == IntegerLength(key[1])
           x == SubSeq(key, 1, n)
           f == SubSeq(key, n + 1, Len(key))
<1>1. /\ key # Empty /\ key # SmallestInteger /\ key[1] \in Heads /\ n <= Len(key)
      /\ \A i \in 2..Len(key) : key[i] \in Digit
      /\ ~TrailingZero(Fraction(key))
  BY DEF ValidateOrderKey, ValidateInteger
<1>2. Len(key) \in Nat /\ \A i \in 1..Len(key) : key[i] \in Int
  BY ElementOfSeq, LenProperties
<1>3. n \in Nat /\ n >= 2
  BY <1>1, FracdexAssumption DEF Heads, IntegerLength
<1>4. IntegerPart(key) = x /\ Fraction(key) = f
  BY DEF IntegerPart, Fraction
<1> HIDE DEF n
<1>5. /\ x \in Seq(Int) /\ Len(x) = n
      /\ \A i \in 1..n : x[i] = key[i]
  <2>1. \A i \in 1..n : key[i] \in Int
    BY <1>1, <1>2, <1>3
  <2>2. /\ x \in Seq(Int) /\ Len(x) = IF 1 <= n THEN n - 1 + 1 ELSE 0
        /\ \A i \in 1..(n - 1 + 1) : x[i] = key[1 + i - 1]
    BY <1>3, <2>1, SubSeqProperties
  <2>3. n - 1 + 1 = n /\ \A i \in 1..n : 1 + i - 1 = i
    BY <1>3
  <2> QED
    BY <1>3, <2>2, <2>3
<1>6. f \in Fractions
  <2>1. \A i \in (n + 1)..Len(key) : key[i] \in Digit
    BY <1>1, <1>2, <1>3
  <2> QED
    BY <1>2, <1>3, <2>1, SubSeqProperties DEF Fractions
<1>7. key = x \o f
  <2>1. 1 \in 1..(Len(key) + 1) /\ n \in (1 - 1)..Len(key) /\ Len(key) \in n..Len(key)
    BY <1>1, <1>2, <1>3
  <2>2. x \o f = SubSeq(key, 1, Len(key))
    BY <2>1, ConcatAdjacentSubSeq
  <2> QED
    BY <2>2, SubSeqFull
<1> HIDE DEF x, f
<1>8. Integer(x)
  <2>1. x[1] = key[1] /\ \A i \in 2..Len(x) : x[i] \in Digit
    BY <1>1, <1>2, <1>3, <1>5
  <2>2. x # Empty
    BY <1>3, <1>5 DEF Empty
  <2> QED
    BY <1>1, <1>5, <2>1, <2>2 DEF Integer, n
<1>9. f = Empty => x # SmallestInteger
  <2>1. f = Empty => key = x
    BY <1>5, <1>7, ConcatEmptySeq DEF Empty
  <2> QED
    BY <1>1, <2>1
<1> QED
  BY <1>1, <1>4, <1>6, <1>7, <1>8, <1>9

(* The symbols of a fraction are digits.                                   *)
LEMMA FractionHas ==
  ASSUME NEW f \in Fractions
  PROVE  f \in Seq(Int) /\ Len(f) \in Nat /\ \A i \in 1..Len(f) : f[i] \in Digit /\ f[i] \in Int
<1>1. Digit \subseteq Int
  BY DEF Digit
<1> QED
  BY <1>1, ElementOfSeq, LenProperties, SeqMonotonic DEF Fractions

(* An integer with such a fraction is a valid key, of just these parts.    *)
LEMMA KeyMade ==
  ASSUME NEW x, Integer(x), NEW f \in Fractions, ~TrailingZero(f), f # Empty \/ x # SmallestInteger
  PROVE  /\ x \o f \in Seq(Int) /\ ValidateOrderKey(x \o f) /\ x \o f # Error
         /\ IntegerPart(x \o f) = x /\ Fraction(x \o f) = f
<1> DEFINE k == x \o f
<1>1. /\ x \in Seq(Int) /\ Len(x) \in Nat /\ Len(x) >= 2 /\ f \in Seq(Int) /\ Len(f) \in Nat
      /\ \A i \in 1..Len(f) : f[i] \in Digit
  BY IntegerHas, FractionHas
<1>2. /\ k \in Seq(Int) /\ Len(k) = Len(x) + Len(f)
      /\ \A i \in 1..(Len(x) + Len(f)) : k[i] = IF i <= Len(x) THEN x[i] ELSE f[i - Len(x)]
  BY <1>1, ConcatProperties
<1>3. k[1] = x[1]
  BY <1>1, <1>2
<1>4. IntegerLength(k[1]) = Len(x) /\ k[1] \in Heads
  BY <1>3 DEF Integer
<1>5. \A i \in 2..Len(k) : k[i] \in Digit
  <2> SUFFICES ASSUME NEW i \in 2..Len(k) PROVE k[i] \in Digit
    OBVIOUS
  <2>1. CASE i <= Len(x)
    <3>1. k[i] = x[i] /\ i \in 2..Len(x)
      BY <1>1, <1>2, <2>1
    <3> QED
      BY <3>1 DEF Integer
  <2>2. CASE i > Len(x)
    <3>1. k[i] = f[i - Len(x)] /\ i - Len(x) \in 1..Len(f)
      BY <1>1, <1>2, <2>2
    <3> QED
      BY <1>1, <3>1
  <2> QED
    BY <1>1, <1>2, <2>1, <2>2
<1>6. IntegerPart(k) = x
  <2>1. 1 \in 1..Len(x) /\ Len(x) \in 1..Len(x)
    BY <1>1
  <2>2. SubSeq(k, 1, Len(x)) = SubSeq(x, 1, Len(x))
    BY <1>1, <2>1, SubSeqOfConcat1
  <2> QED
    BY <1>1, <1>4, <2>2, SubSeqFull DEF IntegerPart
<1>7. Fraction(k) = f
  <2>1. Fraction(k) = SubSeq(k, Len(x) + 1, Len(x) + Len(f))
    BY <1>2, <1>4 DEF Fraction
  <2>2. CASE f = Empty
    <3>1. Len(f) = 0
      BY <2>2 DEF Empty
    <3> QED
      BY <1>1, <2>1, <2>2, <3>1, SubSeqEmpty DEF Empty
  <2>3. CASE f # Empty
    <3>1. Len(f) # 0
      BY <1>1, <2>3, EmptySeq DEF Empty
    <3>2. /\ Len(x) + 1 \in (Len(x) + 1)..(Len(x) + Len(f))
          /\ Len(x) + Len(f) \in (Len(x) + 1)..(Len(x) + Len(f))
          /\ (Len(x) + 1) - Len(x) = 1 /\ (Len(x) + Len(f)) - Len(x) = Len(f)
      BY <1>1, <3>1
    <3>3. SubSeq(k, Len(x) + 1, Len(x) + Len(f))
            = SubSeq(f, (Len(x) + 1) - Len(x), (Len(x) + Len(f)) - Len(x))
      BY <1>1, <3>2, SubSeqOfConcat2
    <3>4. SubSeq(k, Len(x) + 1, Len(x) + Len(f)) = SubSeq(f, 1, Len(f))
      BY <3>2, <3>3
    <3> QED
      BY <1>1, <2>1, <3>4, SubSeqFull
  <2> QED
    BY <2>2, <2>3
<1>8. k # SmallestInteger
  <2>1. CASE f = Empty
    BY <1>1, <2>1, ConcatEmptySeq DEF Empty
  <2>2. CASE f # Empty
    <3>1. Len(f) # 0
      BY <1>1, <2>2, EmptySeq DEF Empty
    <3>2. IntegerLength(k[1]) # Len(k)
      BY <1>1, <1>2, <1>4, <3>1
    <3> QED
      BY <3>2, SmallestIsInteger DEF Integer
  <2> QED
    BY <2>1, <2>2
<1>9. k # Empty
  BY <1>1, <1>2 DEF Empty
<1>10. Len(x) <= Len(k)
  BY <1>1, <1>2
<1> QED
  BY <1>2, <1>4, <1>5, <1>6, <1>7, <1>8, <1>9, <1>10 DEF ValidateOrderKey, ValidateInteger, Error, Empty

-----------------------------------------------------------------------------
(* One up and one down.                                                    *)

(* A head with one digit repeated.                                         *)
LEMMA Repeated ==
  ASSUME NEW h \in Heads, NEW d \in Digit
  PROVE  LET y == <<h>> \o [i \in 1..(IntegerLength(h) - 1) |-> d]
         IN Integer(y) /\ y[1] = h /\ y # Error
<1> DEFINE n == IntegerLength(h) - 1
           e == <<h>>
           r == [i \in 1..n |-> d]
           y == e \o r
<1>1. n \in Nat /\ n >= 1 /\ h \in Int /\ d \in Int
  BY FracdexAssumption DEF Heads, IntegerLength, Digit
<1>2. e \in Seq(Int) /\ Len(e) = 1 /\ e[1] = h
  BY <1>1
<1> HIDE DEF n
<1>3. r \in Seq(Int) /\ Len(r) = n /\ \A i \in 1..n : r[i] = d
  BY <1>1
<1> HIDE DEF e, r
<1>4. /\ y \in Seq(Int) /\ Len(y) = Len(e) + Len(r)
      /\ \A i \in 1..(Len(e) + Len(r)) : y[i] = IF i <= Len(e) THEN e[i] ELSE r[i - Len(e)]
  BY <1>2, <1>3, ConcatProperties
<1>5. y[1] = h
  BY <1>1, <1>2, <1>3, <1>4
<1>6. \A i \in 2..Len(y) : y[i] = r[i - 1] /\ i - 1 \in 1..n
  BY <1>1, <1>2, <1>3, <1>4
<1>7. \A i \in 2..Len(y) : y[i] \in Digit
  BY <1>3, <1>6
<1>8. Len(y) = IntegerLength(h) /\ y # Empty
  <2>1. Len(y) = n + 1 /\ Len(y) # 0
    BY <1>1, <1>2, <1>3, <1>4
  <2>2. IntegerLength(h) \in Int
    BY <1>1 DEF IntegerLength
  <2> QED
    BY <2>1, <2>2 DEF n, Empty
<1>9. Integer(y) /\ y[1] = h /\ y # Error
  BY <1>4, <1>5, <1>7, <1>8 DEF Integer, Error, Empty
<1> QED
  BY <1>9 DEF y, e, r, n

(* An integer changed at p and after.                                      *)
LEMMA Changed ==
  ASSUME NEW x, Integer(x), NEW p \in 2..Len(x), NEW d \in Digit, NEW e \in Digit,
         NEW y, y = [i \in 1..Len(x) |-> CASE i < p -> x[i] [] i = p -> d [] i > p -> e]
  PROVE  Integer(y) /\ y # Error /\ (x[p] < d => Less(x, y)) /\ (d < x[p] => Less(y, x))
<1>1. /\ x \in Seq(Int) /\ Len(x) \in Nat /\ Len(x) >= 2 /\ p \in Nat /\ p >= 2 /\ p <= Len(x)
      /\ \A i \in 1..Len(x) : x[i] \in Int
      /\ \A i \in 2..Len(x) : x[i] \in Digit
  BY IntegerHas DEF Integer
<1>2. d \in Int /\ e \in Int
  BY DEF Digit
<1>3. /\ \A i \in 1..Len(x) : i < p => y[i] = x[i]
      /\ y[p] = d
      /\ \A i \in 1..Len(x) : i > p => y[i] = e
  BY <1>1
<1>4. \A i \in 1..Len(x) : y[i] \in Int
  BY <1>1, <1>2, <1>3
<1>5. y \in Seq(Int) /\ Len(y) = Len(x)
  <2>1. y \in [1..Len(x) -> Int]
    BY <1>4
  <2>2. PICK n \in Nat : n = Len(x)
    BY <1>1
  <2>3. y \in [1..n -> Int]
    BY <2>1, <2>2
  <2>4. y \in Seq(Int) /\ Len(y) = n
    BY <2>3
  <2> QED
    BY <2>2, <2>4
<1>6. y[1] = x[1] /\ \A i \in 2..Len(x) : y[i] \in Digit
  BY <1>1, <1>3
<1>7. y # Empty
  BY <1>1, <1>5 DEF Empty
<1>8. Integer(y) /\ y # Error
  BY <1>5, <1>6, <1>7 DEF Integer, Error, Empty
<1>9. /\ p \in 1..Len(x) /\ p \in 1..Len(y)
      /\ \A j \in 1..(p - 1) : j <= Len(x) /\ j <= Len(y) /\ x[j] = y[j]
  BY <1>1, <1>3, <1>5
<1>10. x[p] < d => Less(x, y)
  BY <1>3, <1>9 DEF Less
<1>11. d < x[p] => Less(y, x)
  BY <1>3, <1>9 DEF Less
<1> QED
  BY <1>8, <1>10, <1>11

(* Heads decide.                                                           *)
LEMMA LowerHead ==
  ASSUME NEW x, NEW y, Integer(x), Integer(y), x[1] < y[1]
  PROVE  Less(x, y)
<1>1. 1 \in 1..Len(y) /\ 1..(1 - 1) = {}
  BY IntegerHas
<1> QED
  BY <1>1 DEF Less

(* incrementInteger: the next integer, and an error only if there is none. *)
LEMMA IncrementIs ==
  ASSUME NEW x, Integer(x)
  PROVE  /\ IncrementInteger(x) # Error => Integer(IncrementInteger(x)) /\ Less(x, IncrementInteger(x))
         /\ IncrementInteger(x) = Error => \A y : Integer(y) => ~Less(x, y)
<1> DEFINE room == {i \in 2..Len(x) : x[i] # Base - 1}
           p == Max(room)
           h == x[1] + 1
           up == [i \in 1..Len(x) |-> CASE i < p -> x[i] [] i = p -> x[i] + 1 [] i > p -> 0]
           over == <<h>> \o Zeros(IntegerLength(h) - 1)
<1>1. /\ x \in Seq(Int) /\ Len(x) \in Nat /\ Len(x) >= 2 /\ x[1] \in Heads /\ x[1] \in Int
      /\ \A i \in 2..Len(x) : x[i] \in Digit
      /\ Base \in Nat /\ Base > 1 /\ MaxHead \in Nat
  BY IntegerHas, FracdexAssumption DEF Integer
<1>2. IncrementInteger(x) = CASE room # {} -> up
                              [] room = {} /\ h > MaxHead -> Error
                              [] room = {} /\ h <= MaxHead -> over
  BY DEF IncrementInteger
<1>3. CASE room # {}
  <2>1. room \subseteq 0..Len(x)
    BY <1>1
  <2>2. p \in room
    <3> HIDE DEF room
    <3> QED
      BY <1>1, <1>3, <2>1, MaxIs
  <2>3. p \in 2..Len(x) /\ x[p] # Base - 1
    BY <2>2
  <2> HIDE DEF p, room
  <2>4. x[p] + 1 \in Digit /\ 0 \in Digit /\ x[p] < x[p] + 1
    BY <1>1, <2>3 DEF Digit
  <2>5. up = [i \in 1..Len(x) |-> CASE i < p -> x[i] [] i = p -> x[p] + 1 [] i > p -> 0]
    BY <1>1
  <2> HIDE DEF up
  <2>6. Integer(up) /\ up # Error /\ Less(x, up)
    BY <2>3, <2>4, <2>5, Changed
  <2>7. IncrementInteger(x) = up
    BY <1>2, <1>3
  <2> QED
    BY <2>6, <2>7
<1>4. CASE room = {} /\ h > MaxHead
  <2>1. IncrementInteger(x) = Error
    <3>1. ~(h <= MaxHead)
      BY <1>1, <1>4
    <3> HIDE DEF room, up, over, h
    <3> QED
      BY <1>2, <1>4, <3>1
  <2>2. ASSUME NEW y, Integer(y), Less(x, y)
        PROVE  FALSE
    <3>1. PICK i \in 1..Len(y) : i <= Len(x) /\ x[i] < y[i]
      BY <2>2, IntegersApart
    <3>2. Len(y) \in Nat /\ y[1] \in Heads /\ \A j \in 2..Len(y) : y[j] \in Digit
      BY <2>2, IntegerHas DEF Integer
    <3>3. CASE i = 1
      BY <1>1, <1>4, <3>1, <3>2, <3>3 DEF Heads
    <3>4. CASE i # 1
      <4>1. i \in 2..Len(x) /\ y[i] \in Digit
        BY <1>1, <3>1, <3>2, <3>4
      <4>2. x[i] = Base - 1
        BY <1>4, <4>1
      <4> QED
        BY <1>1, <3>1, <4>1, <4>2 DEF Digit
    <3> QED
      BY <3>3, <3>4
  <2> QED
    BY <2>1, <2>2
<1>5. CASE room = {} /\ h <= MaxHead
  <2>1. IncrementInteger(x) = over
    <3>1. ~(h > MaxHead)
      BY <1>1, <1>5
    <3> HIDE DEF room, up, over, h
    <3> QED
      BY <1>2, <1>5, <3>1
  <2>2. h \in Heads /\ 0 \in Digit
    BY <1>1, <1>5 DEF Heads, Digit
  <2>3. Integer(over) /\ over[1] = h /\ over # Error
    BY <2>2, Repeated DEF Zeros
  <2> HIDE DEF over
  <2>4. Less(x, over)
    BY <1>1, <2>3, LowerHead
  <2> QED
    BY <2>1, <2>3, <2>4
<1> QED
  BY <1>1, <1>3, <1>4, <1>5

(* decrementInteger: an integer below, for all but the smallest.           *)
LEMMA DecrementIs ==
  ASSUME NEW x, Integer(x), x # SmallestInteger
  PROVE  /\ DecrementInteger(x) # Error
         /\ Integer(DecrementInteger(x)) /\ Less(DecrementInteger(x), x)
<1> DEFINE room == {i \in 2..Len(x) : x[i] # 0}
           p == Max(room)
           h == x[1] - 1
           down == [i \in 1..Len(x) |-> CASE i < p -> x[i] [] i = p -> x[i] - 1 [] i > p -> Base - 1]
           under == <<h>> \o [i \in 1..(IntegerLength(h) - 1) |-> Base - 1]
<1>1. /\ x \in Seq(Int) /\ Len(x) \in Nat /\ Len(x) >= 2 /\ x[1] \in Heads /\ x[1] \in Int
      /\ \A i \in 2..Len(x) : x[i] \in Digit
      /\ Base \in Nat /\ Base > 1 /\ MaxHead \in Nat
  BY IntegerHas, FracdexAssumption DEF Integer
<1>2. DecrementInteger(x) = CASE room # {} -> down
                              [] room = {} /\ h \notin Heads -> Error
                              [] room = {} /\ h \in Heads -> under
  BY DEF DecrementInteger
<1>3. CASE room # {}
  <2>1. room \subseteq 0..Len(x)
    BY <1>1
  <2>2. p \in room
    <3> HIDE DEF room
    <3> QED
      BY <1>1, <1>3, <2>1, MaxIs
  <2>3. p \in 2..Len(x) /\ x[p] # 0
    BY <2>2
  <2> HIDE DEF p, room
  <2>4. x[p] - 1 \in Digit /\ Base - 1 \in Digit /\ x[p] - 1 < x[p]
    BY <1>1, <2>3 DEF Digit
  <2>5. down = [i \in 1..Len(x) |-> CASE i < p -> x[i] [] i = p -> x[p] - 1 [] i > p -> Base - 1]
    BY <1>1
  <2> HIDE DEF down
  <2>6. Integer(down) /\ down # Error /\ Less(down, x)
    BY <2>3, <2>4, <2>5, Changed
  <2>7. DecrementInteger(x) = down
    BY <1>2, <1>3
  <2> QED
    BY <2>6, <2>7
<1>4. ASSUME room = {} PROVE h \in Heads
  <2> SUFFICES ASSUME h \notin Heads PROVE x = SmallestInteger
    OBVIOUS
  <2>1. x[1] = -(MaxHead + 1)
    BY <1>1 DEF Heads
  <2>2. Len(x) = MaxHead + 2
    BY <1>1, <2>1, IntegerHas
  <2>3. \A i \in 2..Len(x) : x[i] = 0
    BY <1>4
  <2>4. \A i \in 1..Len(x) : x[i] = SmallestInteger[i]
    BY <1>1, <2>1, <2>2, <2>3, SmallestIsInteger
  <2> QED
    BY <1>1, <2>2, <2>4, SmallestIsInteger, SeqEqual DEF Integer
<1>5. CASE room = {}
  <2>1. h \in Heads /\ Base - 1 \in Digit
    BY <1>1, <1>4, <1>5 DEF Digit
  <2>2. DecrementInteger(x) = under
    <3> HIDE DEF room, down, under, h
    <3> QED
      BY <1>2, <1>5, <2>1
  <2>3. Integer(under) /\ under[1] = h /\ under # Error
    BY <2>1, Repeated
  <2> HIDE DEF under
  <2>4. Less(under, x)
    BY <1>1, <2>3, LowerHead
  <2> QED
    BY <2>2, <2>3, <2>4
<1> QED
  BY <1>3, <1>5

-----------------------------------------------------------------------------
(* Midpoints.                                                              *)

(* What is left of a fraction without its first n digits.                  *)
LEMMA RestIs ==
  ASSUME NEW f \in Fractions, NEW n \in Nat
  PROVE  /\ Rest(f, n) \in Fractions
         /\ Len(Rest(f, n)) = IF n <= Len(f) THEN Len(f) - n ELSE 0
         /\ \A i \in 1..Len(Rest(f, n)) : Rest(f, n)[i] = f[n + i]
<1> DEFINE r == SubSeq(f, n + 1, Len(f))
<1>1. Len(f) \in Nat /\ \A i \in 1..Len(f) : f[i] \in Digit
  BY FractionHas
<1>2. \A i \in (n + 1)..Len(f) : f[i] \in Digit
  BY <1>1
<1>3. n + 1 \in Int /\ Len(f) \in Int
  BY <1>1
<1>4. /\ r \in Seq(Digit)
      /\ Len(r) = IF n + 1 <= Len(f) THEN Len(f) - (n + 1) + 1 ELSE 0
      /\ \A i \in 1..(Len(f) - (n + 1) + 1) : r[i] = f[(n + 1) + i - 1]
  BY <1>2, <1>3, SubSeqProperties
<1>5. Rest(f, n) = r
  BY DEF Rest
<1> HIDE DEF r
<1>6. Len(r) = IF n <= Len(f) THEN Len(f) - n ELSE 0
  BY <1>1, <1>4
<1>7. ASSUME NEW i \in 1..Len(r) PROVE r[i] = f[n + i]
  <2>1. i \in 1..(Len(f) - (n + 1) + 1) /\ (n + 1) + i - 1 = n + i
    BY <1>1, <1>6
  <2> QED
    BY <1>4, <2>1
<1> QED
  BY <1>4, <1>5, <1>6, <1>7 DEF Fractions

(* The first n digits of a fraction.                                       *)
LEMMA FirstIs ==
  ASSUME NEW f \in Fractions, NEW n \in 0..Len(f)
  PROVE  /\ SubSeq(f, 1, n) \in Fractions /\ Len(SubSeq(f, 1, n)) = n
         /\ \A i \in 1..n : SubSeq(f, 1, n)[i] = f[i]
<1>1. Len(f) \in Nat /\ n \in Nat /\ \A i \in 1..n : f[i] \in Digit
  BY FractionHas
<1>2. /\ SubSeq(f, 1, n) \in Seq(Digit)
      /\ Len(SubSeq(f, 1, n)) = IF 1 <= n THEN n - 1 + 1 ELSE 0
      /\ \A i \in 1..(n - 1 + 1) : SubSeq(f, 1, n)[i] = f[1 + i - 1]
  BY <1>1, SubSeqProperties
<1>3. n - 1 + 1 = n /\ \A i \in 1..n : 1 + i - 1 = i
  BY <1>1
<1> QED
  BY <1>1, <1>2, <1>3 DEF Fractions

Padded(a, i) == IF i <= Len(a) THEN a[i] ELSE 0

(* The longest common prefix is common, and the next digits differ.        *)
LEMMA CommonPrefixIs ==
  ASSUME NEW a \in Fractions, NEW b \in Fractions
  PROVE  /\ CommonPrefix(a, b) \in 0..Len(b)
         /\ \A i \in 1..CommonPrefix(a, b) : Padded(a, i) = b[i]
         /\ CommonPrefix(a, b) < Len(b)
              => Padded(a, CommonPrefix(a, b) + 1) # b[CommonPrefix(a, b) + 1]
<1> DEFINE T == {n \in 0..Len(b) : \A i \in 1..n : Padded(a, i) = b[i]}
           n == Max(T)
<1>1. Len(b) \in Nat
  BY FractionHas
<1>2. CommonPrefix(a, b) = n
  BY DEF CommonPrefix, Padded
<1>3. T \subseteq 0..Len(b) /\ 0 \in T
  BY <1>1
<1>4. n \in T /\ \A t \in T : t <= n
  <2> HIDE DEF T
  <2> QED
    BY <1>1, <1>3, MaxIs
<1>5. n \in 0..Len(b) /\ \A i \in 1..n : Padded(a, i) = b[i]
  BY <1>4
<1>6. n < Len(b) => Padded(a, n + 1) # b[n + 1]
  <2> SUFFICES ASSUME n < Len(b), Padded(a, n + 1) = b[n + 1] PROVE FALSE
    OBVIOUS
  <2> HIDE DEF n
  <2>1. n + 1 \in 0..Len(b) /\ \A i \in 1..(n + 1) : i \in 1..n \/ i = n + 1
    BY <1>1, <1>5
  <2>2. n + 1 \in T
    BY <1>5, <2>1
  <2>3. n + 1 <= n
    <3> HIDE DEF T
    <3> QED
      BY <1>4, <2>2
  <2> QED
    BY <1>1, <1>5, <2>3
<1> QED
  BY <1>2, <1>5, <1>6

Pairs == Fractions \X Fractions

DigitA(a) == IF a = Empty THEN 0 ELSE a[1]
DigitB(b) == IF b = Empty THEN Base ELSE b[1]

(* One unfolding of midpoint, and when it calls itself.                    *)
MidpointStep(f, a, b) ==
    IF (b # Empty /\ ~Less(a, b)) \/ TrailingZero(a) \/ TrailingZero(b) THEN Error
    ELSE IF CommonPrefix(a, b) > 0
         THEN Under(SubSeq(b, 1, CommonPrefix(a, b)),
                    f[<<Rest(a, CommonPrefix(a, b)), Rest(b, CommonPrefix(a, b))>>])
    ELSE IF DigitB(b) - DigitA(a) > 1 THEN <<(DigitA(a) + DigitB(b) + 1) \div 2>>
    ELSE IF Len(b) > 1 THEN SubSeq(b, 1, 1)
    ELSE Under(<<DigitA(a)>>, f[<<Rest(a, 1), Empty>>])

(* The empty fraction has no digit, every other one has a first.           *)
LEMMA EmptyFraction ==
  /\ Empty \in Fractions /\ Len(Empty) = 0
  /\ \A f \in Fractions : f # Empty => Len(f) \in Nat /\ Len(f) >= 1
<1>1. Len(<<>>) = 0 /\ <<>> \in Seq(Digit) /\ \A f \in Seq(Digit) : f # <<>> => Len(f) \in Nat \ {0}
  BY EmptySeq
<1> QED
  BY <1>1 DEF Fractions, Empty

(* The first digits that midpoint compares are in range.                   *)
LEMMA DigitsAre ==
  ASSUME NEW a \in Fractions, NEW b \in Fractions
  PROVE  /\ DigitA(a) \in Digit /\ DigitA(a) \in Nat /\ DigitA(a) < Base
         /\ DigitB(b) \in Nat /\ DigitB(b) <= Base /\ (b # Empty => DigitB(b) \in Digit)
         /\ Base \in Nat /\ Base > 1
         /\ DigitA(a) = Padded(a, 1)
<1>1. Base \in Nat /\ Base > 1
  BY FracdexAssumption
<1>2. a # Empty => a[1] \in Digit /\ 1 <= Len(a)
  BY FractionHas, EmptyFraction
<1>3. b # Empty => b[1] \in Digit
  BY FractionHas, EmptyFraction
<1>4. a = Empty => ~(1 <= Len(a))
  BY EmptyFraction
<1> QED
  BY <1>1, <1>2, <1>3, <1>4 DEF DigitA, DigitB, Digit, Padded

(* The digit half way is strictly between, and not zero.                   *)
LEMMA MiddleIs ==
  ASSUME NEW x \in Nat, NEW y \in Nat, y - x > 1, y <= Base
  PROVE  /\ (x + y + 1) \div 2 \in Digit
         /\ x < (x + y + 1) \div 2 /\ (x + y + 1) \div 2 < y
         /\ (x + y + 1) \div 2 # 0
BY FracdexAssumption DEF Digit

(* A fraction under a fraction, or the error, is a fraction.               *)
LEMMA UnderIs ==
  ASSUME NEW f \in Fractions, NEW g \in Fractions
  PROVE  Under(f, g) \in Fractions
BY ConcatProperties, EmptyFraction DEF Under, Fractions, Error, Empty

(* One unfolding of midpoint makes a fraction.                             *)
LEMMA MidpointStepIs ==
  ASSUME NEW f \in [Pairs -> Fractions], NEW a \in Fractions, NEW b \in Fractions
  PROVE  MidpointStep(f, a, b) \in Fractions
<1> DEFINE n == CommonPrefix(a, b)
<1>1. n \in Nat /\ n \in 0..Len(b) /\ Len(b) \in Nat
  BY CommonPrefixIs, FractionHas
<1>2. Rest(a, n) \in Fractions /\ Rest(b, n) \in Fractions /\ Rest(a, 1) \in Fractions
  BY <1>1, RestIs
<1>3. f[<<Rest(a, n), Rest(b, n)>>] \in Fractions /\ f[<<Rest(a, 1), Empty>>] \in Fractions
  BY <1>2, EmptyFraction DEF Pairs
<1>4. SubSeq(b, 1, n) \in Fractions /\ (Len(b) > 1 => SubSeq(b, 1, 1) \in Fractions)
  BY <1>1, FirstIs
<1>5. <<DigitA(a)>> \in Fractions
  BY DigitsAre DEF Fractions
<1>6. DigitB(b) - DigitA(a) > 1 => <<(DigitA(a) + DigitB(b) + 1) \div 2>> \in Fractions
  <2> SUFFICES ASSUME DigitB(b) - DigitA(a) > 1
               PROVE  (DigitA(a) + DigitB(b) + 1) \div 2 \in Digit
    BY DEF Fractions
  <2> QED
    BY DigitsAre, MiddleIs
<1>7. /\ Under(SubSeq(b, 1, n), f[<<Rest(a, n), Rest(b, n)>>]) \in Fractions
      /\ Under(<<DigitA(a)>>, f[<<Rest(a, 1), Empty>>]) \in Fractions
  BY <1>3, <1>4, <1>5, UnderIs
<1>8. Error \in Fractions
  BY EmptyFraction DEF Error, Empty
<1> HIDE DEF n
<1> QED
  BY <1>4, <1>6, <1>7, <1>8 DEF MidpointStep, n

(* Its calls of itself are for shorter fractions.                          *)
LEMMA MidpointDescends ==
  ASSUME NEW a \in Fractions, NEW b \in Fractions
  PROVE  LET n == CommonPrefix(a, b)
         IN /\ n > 0 => /\ <<Rest(a, n), Rest(b, n)>> \in Pairs
                        /\ Len(Rest(a, n)) + Len(Rest(b, n)) < Len(a) + Len(b)
            /\ ~(DigitB(b) - DigitA(a) > 1) => /\ <<Rest(a, 1), Empty>> \in Pairs
                                               /\ Len(Rest(a, 1)) + Len(Empty) < Len(a) + Len(b)
<1> DEFINE n == CommonPrefix(a, b)
<1>1. n \in Nat /\ n <= Len(b) /\ Len(a) \in Nat /\ Len(b) \in Nat
  BY CommonPrefixIs, FractionHas
<1> HIDE DEF n
<1>2. n > 0 => /\ <<Rest(a, n), Rest(b, n)>> \in Pairs
               /\ Len(Rest(a, n)) + Len(Rest(b, n)) < Len(a) + Len(b)
  <2>1. /\ Rest(a, n) \in Fractions /\ Rest(b, n) \in Fractions
        /\ Len(Rest(b, n)) = Len(b) - n
        /\ Len(Rest(a, n)) = IF n <= Len(a) THEN Len(a) - n ELSE 0
    BY <1>1, RestIs
  <2> QED
    BY <1>1, <2>1 DEF Pairs
<1>3. ~(DigitB(b) - DigitA(a) > 1) => /\ <<Rest(a, 1), Empty>> \in Pairs
                                      /\ Len(Rest(a, 1)) + Len(Empty) < Len(a) + Len(b)
  <2> SUFFICES ASSUME ~(DigitB(b) - DigitA(a) > 1)
               PROVE  /\ <<Rest(a, 1), Empty>> \in Pairs
                      /\ Len(Rest(a, 1)) + Len(Empty) < Len(a) + Len(b)
    OBVIOUS
  <2>1. /\ Rest(a, 1) \in Fractions
        /\ Len(Rest(a, 1)) = IF 1 <= Len(a) THEN Len(a) - 1 ELSE 0
    BY RestIs
  <2>2. a # Empty \/ b # Empty
    BY DigitsAre DEF DigitA, DigitB
  <2>3. Len(a) >= 1 \/ Len(b) >= 1
    BY <2>2, EmptyFraction
  <2> QED
    BY <1>1, <2>1, <2>3, EmptyFraction DEF Pairs
<1> QED
  BY <1>2, <1>3 DEF n

(* midpoint terminates: the recursive function exists and unfolds as the   *)
(* code does.                                                              *)
LEMMA MidpointDef ==
  /\ Midpoint \in [Pairs -> Fractions]
  /\ \A a, b \in Fractions : Midpoint[<<a, b>>] = MidpointStep(Midpoint, a, b)
<1> DEFINE rank == [p \in Pairs |-> Len(p[1]) + Len(p[2])]
           step == [f \in [Pairs -> Fractions] |-> [p \in Pairs |-> MidpointStep(f, p[1], p[2])]]
<1>1. \A p \in Pairs : /\ p[1] \in Fractions /\ p[2] \in Fractions /\ p = <<p[1], p[2]>>
                       /\ Len(p[1]) \in Nat /\ Len(p[2]) \in Nat
  BY FractionHas DEF Pairs
<1>2. rank \in [Pairs -> Nat]
  <2>1. ASSUME NEW p \in Pairs PROVE Len(p[1]) + Len(p[2]) \in Nat
    <3>1. PICK m, n \in Nat : m = Len(p[1]) /\ n = Len(p[2])
      BY <1>1
    <3>2. m + n \in Nat
      OBVIOUS
    <3> QED
      BY <3>1, <3>2, Zenon
  <2> QED
    BY <2>1
<1>3. \A f \in [Pairs -> Fractions], p \in Pairs : MidpointStep(f, p[1], p[2]) \in Fractions
  BY <1>1, MidpointStepIs
<1>4. step \in [[Pairs -> Fractions] -> [Pairs -> Fractions]]
  BY <1>3
<1>5. ASSUME NEW f, NEW g, NEW p \in Pairs,
             \A q \in Pairs : rank[q] < rank[p] => f[q] = g[q]
      PROVE  MidpointStep(f, p[1], p[2]) = MidpointStep(g, p[1], p[2])
  <2> DEFINE a == p[1]
             b == p[2]
             n == CommonPrefix(a, b)
             q == <<Rest(a, n), Rest(b, n)>>
             r == <<Rest(a, 1), Empty>>
  <2>1. a \in Fractions /\ b \in Fractions /\ rank[p] = Len(a) + Len(b)
    BY <1>1
  <2>2. n > 0 => q \in Pairs /\ rank[q] < rank[p]
    BY <2>1, MidpointDescends
  <2>3. ~(DigitB(b) - DigitA(a) > 1) => r \in Pairs /\ rank[r] < rank[p]
    BY <2>1, MidpointDescends
  <2> HIDE DEF rank
  <2>4. (n > 0 => f[q] = g[q]) /\ (~(DigitB(b) - DigitA(a) > 1) => f[r] = g[r])
    BY <1>5, <2>2, <2>3
  <2>5. MidpointStep(f, a, b) = MidpointStep(g, a, b)
    <3> HIDE DEF a, b
    <3> QED
      BY <2>4 DEF MidpointStep
  <2> QED
    BY <2>5
<1>6. Descends(Pairs, Fractions, rank, step)
  <2>1. \A f, g \in [Pairs -> Fractions], p \in Pairs :
          (\A q \in Pairs : rank[q] < rank[p] => f[q] = g[q]) => step[f][p] = step[g][p]
    <3> HIDE DEF rank
    <3> QED
      BY <1>5
  <2> HIDE DEF rank, step
  <2> QED
    BY <1>2, <1>4, <2>1 DEF Descends
<1> HIDE DEF rank, step
<1>7. PICK f \in [Pairs -> Fractions] : f = step[f]
  BY <1>6, EmptyFraction, RecursionHolds
<1>8. f = [p \in Pairs |-> MidpointStep(f, p[1], p[2])]
  BY <1>7 DEF step
<1>9. Midpoint = CHOOSE h : h = [p \in Pairs |-> MidpointStep(h, p[1], p[2])]
  BY DEF Midpoint, MidpointStep, DigitA, DigitB, Pairs
<1>10. Midpoint = [p \in Pairs |-> MidpointStep(Midpoint, p[1], p[2])]
  <2> DEFINE P(h) == h = [p \in Pairs |-> MidpointStep(h, p[1], p[2])]
  <2>1. P(f) /\ Midpoint = CHOOSE h : P(h)
    BY <1>8, <1>9
  <2> HIDE DEF P
  <2>2. P(Midpoint)
    BY <2>1
  <2> QED
    BY <2>2 DEF P
<1>11. Midpoint = f
  <2> DEFINE S == {p \in Pairs : Midpoint[p] = f[p]}
  <2>1. \A p \in Pairs : /\ Midpoint[p] = MidpointStep(Midpoint, p[1], p[2])
                         /\ f[p] = MidpointStep(f, p[1], p[2])
    BY <1>8, <1>10
  <2>2. ASSUME NEW p \in Pairs, \A q \in Pairs : rank[q] < rank[p] => q \in S
        PROVE  p \in S
    <3>1. MidpointStep(Midpoint, p[1], p[2]) = MidpointStep(f, p[1], p[2])
      BY <1>5, <2>2
    <3> QED
      BY <2>1, <3>1
  <2>3. Pairs \subseteq S
    <3> HIDE DEF S
    <3> QED
      BY <1>2, <2>2, RankInduction
  <2>4. \A p \in Pairs : Midpoint[p] = f[p]
    BY <2>3
  <2>5. DOMAIN Midpoint = Pairs /\ Midpoint = [p \in DOMAIN Midpoint |-> Midpoint[p]]
    BY <1>10
  <2> QED
    BY <2>4, <2>5
<1>12. ASSUME NEW a \in Fractions, NEW b \in Fractions
       PROVE  Midpoint[<<a, b>>] = MidpointStep(Midpoint, a, b)
  <2>1. <<a, b>> \in Pairs
    BY DEF Pairs
  <2> QED
    BY <1>10, <2>1
<1> QED
  BY <1>11, <1>12

(* Fractions that end in no zero, and their parts.                         *)
LEMMA TrailingIs ==
  ASSUME NEW f \in Fractions
  PROVE  TrailingZero(f) <=> Len(f) >= 1 /\ f[Len(f)] = 0
<1>1. f # Empty <=> Len(f) >= 1
  BY EmptyFraction
<1> QED
  BY <1>1 DEF TrailingZero

(* Without its first digits a fraction ends as it did.                     *)
LEMMA TrailingRest ==
  ASSUME NEW f \in Fractions, ~TrailingZero(f), NEW n \in Nat
  PROVE  ~TrailingZero(Rest(f, n))
<1> DEFINE r == Rest(f, n)
<1>1. /\ r \in Fractions /\ Len(f) \in Nat
      /\ Len(r) = IF n <= Len(f) THEN Len(f) - n ELSE 0
      /\ \A i \in 1..Len(r) : r[i] = f[n + i]
  BY RestIs, FractionHas
<1> HIDE DEF r
<1> SUFFICES ASSUME Len(r) >= 1 PROVE r[Len(r)] # 0
  BY <1>1, TrailingIs DEF r
<1>2. n + Len(r) = Len(f) /\ Len(r) \in 1..Len(r)
  BY <1>1
<1>3. r[Len(r)] = f[Len(f)]
  BY <1>1, <1>2
<1> QED
  BY <1>1, <1>2, <1>3, TrailingIs

(* The digits of one fraction after another, and how they end.             *)
LEMMA ConcatFractions ==
  ASSUME NEW f \in Fractions, NEW g \in Fractions
  PROVE  /\ f \o g \in Fractions /\ Len(f \o g) = Len(f) + Len(g)
         /\ \A i \in 1..Len(f) : (f \o g)[i] = f[i]
         /\ \A i \in 1..Len(g) : (f \o g)[Len(f) + i] = g[i]
         /\ g # Empty => f \o g # Empty /\ (TrailingZero(f \o g) => TrailingZero(g))
<1> DEFINE k == f \o g
<1>1. /\ k \in Seq(Digit) /\ Len(k) = Len(f) + Len(g)
      /\ \A i \in 1..(Len(f) + Len(g)) : k[i] = IF i <= Len(f) THEN f[i] ELSE g[i - Len(f)]
  BY ConcatProperties DEF Fractions
<1>2. Len(f) \in Nat /\ Len(g) \in Nat
  BY FractionHas
<1> HIDE DEF k
<1>3. \A i \in 1..Len(f) : k[i] = f[i]
  BY <1>1, <1>2
<1>4. ASSUME NEW i \in 1..Len(g) PROVE k[Len(f) + i] = g[i]
  <2>1. Len(f) + i \in 1..(Len(f) + Len(g)) /\ ~(Len(f) + i <= Len(f)) /\ (Len(f) + i) - Len(f) = i
    BY <1>2
  <2> QED
    BY <1>1, <2>1
<1>5. ASSUME g # Empty
      PROVE  k # Empty /\ (TrailingZero(k) => TrailingZero(g))
  <2>1. Len(g) \in 1..Len(g) /\ Len(g) >= 1
    BY <1>2, <1>5, EmptyFraction
  <2>2. k[Len(k)] = g[Len(g)] /\ Len(k) # 0
    BY <1>1, <1>2, <1>4, <2>1
  <2>3. k # Empty
    BY <2>2, EmptyFraction
  <2> QED
    BY <1>5, <2>2, <2>3 DEF TrailingZero
<1> QED
  BY <1>1, <1>3, <1>4, <1>5 DEF k, Fractions

(* The empty fraction is below every other one.                            *)
LEMMA EmptyIsLess ==
  ASSUME NEW f \in Fractions, f # Empty
  PROVE  Less(Empty, f)
<1>1. 1 \in 1..Len(f) /\ 1..(1 - 1) = {} /\ Len(Empty) = 0
  BY EmptyFraction
<1> QED
  BY <1>1 DEF Less

(* a begins with the first digits of b, or is used up within them and only *)
(* zeros follow in b.                                                      *)
LEMMA PrefixSplit ==
  ASSUME NEW a \in Fractions, NEW b \in Fractions, NEW n \in 0..Len(b),
         \A i \in 1..n : Padded(a, i) = b[i], NEW g \in Fractions
  PROVE  IF n <= Len(a) THEN a = SubSeq(b, 1, n) \o Rest(a, n)
         ELSE Rest(a, n) = Empty /\ Less(a, SubSeq(b, 1, n) \o g)
<1> DEFINE p == SubSeq(b, 1, n)
           r == Rest(a, n)
<1>1. /\ n \in Nat /\ Len(a) \in Nat /\ Len(b) \in Nat /\ Len(g) \in Nat
      /\ p \in Fractions /\ Len(p) = n /\ \A i \in 1..n : p[i] = b[i]
  BY FirstIs, FractionHas
<1>2. /\ r \in Fractions /\ Len(r) = IF n <= Len(a) THEN Len(a) - n ELSE 0
      /\ \A i \in 1..Len(r) : r[i] = a[n + i]
  BY <1>1, RestIs
<1> HIDE DEF p, r
<1>3. CASE n <= Len(a)
  <2>1. \A i \in 1..n : p[i] = a[i]
    BY <1>1, <1>3 DEF Padded
  <2>0. /\ p \o r \in Fractions /\ Len(p \o r) = Len(p) + Len(r)
        /\ \A i \in 1..Len(p) : (p \o r)[i] = p[i]
        /\ \A i \in 1..Len(r) : (p \o r)[Len(p) + i] = r[i]
    BY <1>1, <1>2, ConcatFractions
  <2>2. /\ p \o r \in Fractions /\ Len(p \o r) = Len(a)
        /\ \A i \in 1..n : (p \o r)[i] = p[i]
        /\ \A i \in 1..Len(r) : (p \o r)[n + i] = r[i]
    BY <1>1, <1>2, <1>3, <2>0
  <2>3. ASSUME NEW i \in 1..Len(a) PROVE a[i] = (p \o r)[i]
    <3>1. CASE i <= n
      BY <1>1, <2>1, <2>2, <3>1
    <3>2. CASE i > n
      <4>1. PICK k \in 1..Len(r) : i = n + k
        BY <1>1, <1>2, <1>3, <3>2
      <4> QED
        BY <1>2, <2>2, <4>1
    <3>3. i <= n \/ i > n
      BY <1>1
    <3> QED
      BY <3>1, <3>2, <3>3
  <2>4. a = p \o r
    BY <2>2, <2>3, SeqEqual DEF Fractions
  <2> QED
    BY <1>3, <2>4 DEF p, r
<1>4. CASE ~(n <= Len(a))
  <2>1. r = Empty
    BY <1>1, <1>2, <1>4, EmptyFraction
  <2>2. /\ Len(p \o g) = n + Len(g)
        /\ \A i \in 1..n : (p \o g)[i] = p[i]
    BY <1>1, ConcatFractions
  <2>3. PICK l \in 1..n : l = Len(a) + 1
    BY <1>1, <1>4
  <2>4. l \in 1..Len(p \o g) /\ ~(l <= Len(a))
    BY <1>1, <2>2, <2>3
  <2>5. ASSUME NEW j \in 1..(l - 1) PROVE j <= Len(a) /\ a[j] = (p \o g)[j]
    <3>1. j <= Len(a) /\ j \in 1..n
      BY <1>1, <2>3
    <3>2. Padded(a, j) = b[j] /\ (p \o g)[j] = b[j]
      BY <1>1, <2>2, <3>1
    <3> QED
      BY <3>1, <3>2 DEF Padded
  <2>6. Less(a, p \o g)
    BY <2>4, <2>5 DEF Less
  <2> QED
    BY <1>4, <2>1, <2>6 DEF p, r
<1> QED
  BY <1>3, <1>4

(* b ends after what it has in common with a: the rest of b is not 1.      *)
LEMMA CommonIsShorter ==
  ASSUME NEW a \in Fractions, NEW b \in Fractions, Less(a, b), ~TrailingZero(b)
  PROVE  CommonPrefix(a, b) < Len(b)
<1> DEFINE n == CommonPrefix(a, b)
<1>1. n \in 0..Len(b) /\ \A i \in 1..n : Padded(a, i) = b[i]
  BY CommonPrefixIs
<1>2. Len(a) \in Nat /\ Len(b) \in Nat /\ \A i \in 1..Len(b) : b[i] \in Int
  BY FractionHas
<1>3. PICK i \in 1..Len(b) : i <= Len(a) => a[i] < b[i]
  BY DEF Less
<1> HIDE DEF n
<1> SUFFICES ASSUME n = Len(b) PROVE FALSE
  BY <1>1, <1>2 DEF n
<1>4. ~(i <= Len(a))
  <2> SUFFICES ASSUME i <= Len(a) PROVE FALSE
    OBVIOUS
  <2>1. Padded(a, i) = b[i] /\ Padded(a, i) = a[i] /\ b[i] \in Int
    BY <1>1, <1>2 DEF Padded
  <2> QED
    BY <1>3, <2>1
<1>5. Len(b) \in 1..n /\ ~(Len(b) <= Len(a))
  BY <1>2, <1>4
<1>6. b[Len(b)] = 0 /\ Len(b) >= 1
  BY <1>1, <1>2, <1>5 DEF Padded
<1> QED
  BY <1>6, TrailingIs

(* Without a common prefix, the first digits are apart.                    *)
LEMMA DigitsApart ==
  ASSUME NEW a \in Fractions, NEW b \in Fractions, b # Empty, Less(a, b), CommonPrefix(a, b) = 0
  PROVE  DigitA(a) < DigitB(b) /\ DigitB(b) = b[1] /\ (a # Empty => DigitA(a) = a[1])
<1>1. Len(b) >= 1 /\ Len(a) \in Nat /\ Len(b) \in Nat
  BY EmptyFraction, FractionHas
<1>2. DigitA(a) # b[1]
  <2>1. Padded(a, 1) # b[1]
    BY <1>1, CommonPrefixIs
  <2> QED
    BY <2>1, DigitsAre
<1>3. PICK i \in 1..Len(b) : /\ \A j \in 1..(i - 1) : j <= Len(a) /\ a[j] = b[j]
                             /\ i <= Len(a) => a[i] < b[i]
  BY DEF Less
<1>4. DigitB(b) = b[1] /\ (a # Empty => DigitA(a) = a[1])
  BY DEF DigitA, DigitB
<1>5. i = 1
  <2> SUFFICES ASSUME i # 1 PROVE FALSE
    OBVIOUS
  <2>1. 1 \in 1..(i - 1)
    BY <1>1
  <2>2. 1 <= Len(a) /\ a[1] = b[1]
    BY <1>3, <2>1
  <2>3. a # Empty
    BY <2>2, EmptyFraction
  <2> QED
    BY <1>2, <1>4, <2>2, <2>3
<1>6. CASE a = Empty
  <2>1. DigitA(a) = 0
    BY <1>6 DEF DigitA
  <2> QED
    BY <1>2, <1>4, <2>1, DigitsAre
<1>7. CASE a # Empty
  <2>1. 1 <= Len(a)
    BY <1>7, EmptyFraction
  <2> QED
    BY <1>3, <1>4, <1>5, <1>7, <2>1
<1> QED
  BY <1>4, <1>6, <1>7

FractionGap(a, b) == ~TrailingZero(a) /\ ~TrailingZero(b) /\ (b = Empty \/ Less(a, b))

FractionInside(a, b, m) ==
    m \in Fractions /\ m # Empty /\ ~TrailingZero(m) /\ Less(a, m) /\ (b # Empty => Less(m, b))

(* Below a prefix, and below a's own first digit.                          *)
LEMMA InsidePrefix ==
  ASSUME NEW a \in Fractions, NEW b \in Fractions, FractionGap(a, b), CommonPrefix(a, b) > 0
  PROVE  LET n == CommonPrefix(a, b)
         IN /\ FractionGap(Rest(a, n), Rest(b, n))
            /\ \A m : FractionInside(Rest(a, n), Rest(b, n), m)
                        => FractionInside(a, b, Under(SubSeq(b, 1, n), m))
<1> DEFINE n == CommonPrefix(a, b)
           p == SubSeq(b, 1, n)
           ra == Rest(a, n)
           rb == Rest(b, n)
<1>1. n \in 0..Len(b) /\ n \in Nat /\ n > 0 /\ (\A i \in 1..n : Padded(a, i) = b[i]) /\ Len(b) \in Nat
  BY CommonPrefixIs, FractionHas
<1>2. b # Empty
  BY <1>1, EmptyFraction
<1>3. ~TrailingZero(a) /\ ~TrailingZero(b) /\ Less(a, b)
  BY <1>2 DEF FractionGap
<1>4. n < Len(b)
  BY <1>3, CommonIsShorter
<1>5. p \in Fractions /\ ra \in Fractions /\ rb \in Fractions /\ Len(rb) = Len(b) - n
  BY <1>1, FirstIs, RestIs
<1>6. rb # Empty
  BY <1>1, <1>4, <1>5, EmptyFraction
<1>7. ~TrailingZero(ra) /\ ~TrailingZero(rb)
  BY <1>1, <1>3, TrailingRest
<1>8. b = p \o rb
  <2>1. \A i \in 1..n : Padded(b, i) = b[i]
    BY <1>1 DEF Padded
  <2>2. n <= Len(b) /\ Empty \in Fractions
    BY <1>1 DEF Empty, Fractions
  <2>3. IF n <= Len(b) THEN b = p \o rb ELSE rb = Empty /\ Less(b, p \o Empty)
    BY <1>1, <2>1, <2>2, PrefixSplit
  <2> QED
    BY <2>2, <2>3
<1>9. \A g \in Fractions : IF n <= Len(a) THEN a = p \o ra ELSE ra = Empty /\ Less(a, p \o g)
  BY <1>1, PrefixSplit
<1> HIDE DEF n, p, ra, rb
<1>10. p \in Seq(Int) /\ ra \in Seq(Int) /\ rb \in Seq(Int)
  BY <1>5, FractionHas
<1>11. Less(ra, rb)
  <2>1. CASE n <= Len(a)
    <3>1. a = p \o ra
      BY <1>5, <1>9, <2>1
    <3> QED
      BY <1>3, <1>8, <1>10, <3>1, LessUnder
  <2>2. CASE ~(n <= Len(a))
    <3>1. ra = Empty
      BY <1>5, <1>9, <2>2
    <3> QED
      BY <1>5, <1>6, <3>1, EmptyIsLess
  <2> QED
    BY <2>1, <2>2
<1>12. ASSUME NEW m, FractionInside(ra, rb, m)
       PROVE  FractionInside(a, b, Under(p, m))
  <2>1. m \in Fractions /\ m # Empty /\ ~TrailingZero(m) /\ Less(ra, m) /\ Less(m, rb) /\ m \in Seq(Int)
    BY <1>6, <1>12, FractionHas DEF FractionInside
  <2>2. Under(p, m) = p \o m
    BY <2>1 DEF Under, Error, Empty
  <2>3. p \o m \in Fractions /\ p \o m # Empty /\ ~TrailingZero(p \o m)
    BY <1>5, <2>1, ConcatFractions
  <2>4. Less(p \o m, b)
    BY <1>8, <1>10, <2>1, LessUnder
  <2>5. Less(a, p \o m)
    <3>1. CASE n <= Len(a)
      <4>1. a = p \o ra
        BY <1>5, <1>9, <3>1
      <4> QED
        BY <1>10, <2>1, <4>1, LessUnder
    <3>2. CASE ~(n <= Len(a))
      BY <1>9, <2>1, <3>2
    <3> QED
      BY <3>1, <3>2
  <2> QED
    BY <2>2, <2>3, <2>4, <2>5 DEF FractionInside
<1> QED
  BY <1>7, <1>11, <1>12 DEF FractionGap, n, p, ra, rb

(* Where no digit fits, one under a's first digit does.                    *)
LEMMA InsideDeeper ==
  ASSUME NEW a \in Fractions, NEW b \in Fractions, FractionGap(a, b), CommonPrefix(a, b) = 0
  PROVE  /\ FractionGap(Rest(a, 1), Empty)
         /\ \A m : FractionInside(Rest(a, 1), Empty, m) => FractionInside(a, b, Under(<<DigitA(a)>>, m))
<1> DEFINE d == DigitA(a)
           e == <<d>>
           ra == Rest(a, 1)
<1>1. d \in Digit /\ d \in Int
  BY DigitsAre
<1>2. e \in Fractions /\ Len(e) = 1 /\ e[1] = d /\ e \in Seq(Int)
  BY <1>1 DEF Fractions
<1>3. ra \in Fractions /\ ~TrailingZero(ra) /\ ra \in Seq(Int)
  BY RestIs, TrailingRest, FractionHas DEF FractionGap
<1>4. a # Empty => a = e \o ra
  <2> SUFFICES ASSUME a # Empty PROVE a = e \o ra
    OBVIOUS
  <2>1. Len(a) >= 1 /\ Len(a) \in Nat /\ d = a[1]
    BY EmptyFraction DEF DigitA
  <2>2. Len(ra) = Len(a) - 1 /\ \A i \in 1..Len(ra) : ra[i] = a[1 + i]
    BY <2>1, RestIs
  <2> HIDE DEF ra, e, d
  <2>3. /\ e \o ra \in Fractions /\ Len(e \o ra) = Len(e) + Len(ra)
        /\ \A i \in 1..Len(e) : (e \o ra)[i] = e[i]
        /\ \A i \in 1..Len(ra) : (e \o ra)[Len(e) + i] = ra[i]
    BY <1>2, <1>3, ConcatFractions
  <2>4. ASSUME NEW i \in 1..Len(a) PROVE a[i] = (e \o ra)[i]
    <3>1. CASE i = 1
      BY <1>2, <2>1, <2>3, <3>1
    <3>2. CASE i # 1
      <4>1. PICK k \in 1..Len(ra) : i = 1 + k
        BY <2>1, <2>2, <3>2
      <4> QED
        BY <1>2, <2>2, <2>3, <4>1
    <3> QED
      BY <3>1, <3>2
  <2>5. Len(a) = Len(e \o ra)
    BY <1>2, <2>1, <2>2, <2>3
  <2> QED
    BY <2>3, <2>4, <2>5, SeqEqual DEF Fractions
<1> HIDE DEF d, e, ra
<1>5. ASSUME NEW m, FractionInside(ra, Empty, m)
      PROVE  FractionInside(a, b, Under(e, m))
  <2>1. m \in Fractions /\ m # Empty /\ ~TrailingZero(m) /\ Less(ra, m) /\ m \in Seq(Int)
    BY <1>5, FractionHas DEF FractionInside
  <2>2. Under(e, m) = e \o m
    BY <2>1 DEF Under, Error, Empty
  <2>3. /\ e \o m \in Fractions /\ e \o m # Empty /\ ~TrailingZero(e \o m)
        /\ Len(e \o m) = Len(e) + Len(m) /\ \A i \in 1..Len(e) : (e \o m)[i] = e[i]
    BY <1>2, <2>1, ConcatFractions
  <2>4. Less(a, e \o m)
    <3>1. CASE a = Empty
      BY <2>3, <3>1, EmptyIsLess
    <3>2. CASE a # Empty
      <4>1. a = e \o ra
        BY <1>4, <3>2
      <4>2. Less(e \o ra, e \o m)
        BY <1>2, <1>3, <2>1, LessUnder
      <4> QED
        BY <4>1, <4>2
    <3> QED
      BY <3>1, <3>2
  <2>5. ASSUME b # Empty PROVE Less(e \o m, b)
    <3>1. d < b[1]
      BY <2>5, DigitsApart DEF FractionGap, d
    <3>2. (e \o m)[1] = d
      BY <1>2, <2>3
    <3>3. 1 \in 1..Len(b) /\ 1..(1 - 1) = {}
      BY <2>5, EmptyFraction
    <3> QED
      BY <3>1, <3>2, <3>3 DEF Less
  <2> QED
    BY <2>2, <2>3, <2>4, <2>5 DEF FractionInside
<1>6. ~TrailingZero(Empty)
  BY DEF TrailingZero
<1> QED
  BY <1>3, <1>5, <1>6 DEF FractionGap, d, e, ra

(* One digit says it.                                                      *)
LEMMA InsideDigit ==
  ASSUME NEW a \in Fractions, NEW b \in Fractions, FractionGap(a, b), CommonPrefix(a, b) = 0
  PROVE  /\ DigitB(b) - DigitA(a) > 1 => FractionInside(a, b, <<(DigitA(a) + DigitB(b) + 1) \div 2>>)
         /\ ~(DigitB(b) - DigitA(a) > 1) /\ Len(b) > 1 => FractionInside(a, b, SubSeq(b, 1, 1))
<1>1. ASSUME NEW d \in Digit, d # 0, DigitA(a) < d, b # Empty => d < b[1] \/ (d = b[1] /\ Len(b) > 1),
             NEW m \in Fractions, Len(m) = 1, m[1] = d
      PROVE  FractionInside(a, b, m)
  <2>1. m # Empty /\ ~TrailingZero(m)
    BY <1>1, EmptyFraction DEF TrailingZero
  <2>2. Less(a, m)
    <3>1. a # Empty => a[1] < m[1]
      BY <1>1 DEF DigitA
    <3>2. 1 <= Len(a) => a # Empty
      BY EmptyFraction
    <3>3. 1 \in 1..Len(m) /\ 1..(1 - 1) = {}
      BY <1>1
    <3> QED
      BY <3>1, <3>2, <3>3 DEF Less
  <2>3. ASSUME b # Empty PROVE Less(m, b)
    <3>1. Len(b) \in Nat /\ Len(b) >= 1
      BY <2>3, EmptyFraction
    <3>2. CASE d < b[1]
      <4>1. 1 \in 1..Len(b) /\ 1..(1 - 1) = {}
        BY <3>1
      <4> QED
        BY <1>1, <3>2, <4>1 DEF Less
    <3>3. CASE d = b[1] /\ Len(b) > 1
      <4>1. 2 \in 1..Len(b) /\ ~(2 <= Len(m)) /\ \A j \in 1..(2 - 1) : j = 1 /\ j <= Len(m)
        BY <1>1, <3>1, <3>3
      <4>2. \A j \in 1..(2 - 1) : j <= Len(m) /\ m[j] = b[j]
        BY <1>1, <3>3, <4>1
      <4> QED
        BY <4>1, <4>2 DEF Less
    <3> QED
      BY <1>1, <2>3, <3>2, <3>3
  <2> QED
    BY <2>1, <2>2, <2>3 DEF FractionInside
<1>2. ASSUME DigitB(b) - DigitA(a) > 1
      PROVE  FractionInside(a, b, <<(DigitA(a) + DigitB(b) + 1) \div 2>>)
  <2> DEFINE d == (DigitA(a) + DigitB(b) + 1) \div 2
  <2>1. d \in Digit /\ DigitA(a) < d /\ d < DigitB(b) /\ d # 0
    BY <1>2, DigitsAre, MiddleIs
  <2> HIDE DEF d
  <2>2. b # Empty => d < b[1]
    BY <2>1 DEF DigitB
  <2>3. <<d>> \in Fractions /\ Len(<<d>>) = 1 /\ <<d>>[1] = d
    BY <2>1 DEF Fractions
  <2>4. FractionInside(a, b, <<d>>)
    BY <1>1, <2>1, <2>2, <2>3
  <2> QED
    BY <2>4 DEF d
<1>3. ASSUME ~(DigitB(b) - DigitA(a) > 1), Len(b) > 1
      PROVE  FractionInside(a, b, SubSeq(b, 1, 1))
  <2>1. b # Empty /\ Len(b) \in Nat
    BY <1>3, EmptyFraction, FractionHas
  <2>2. DigitA(a) < b[1]
    BY <2>1, DigitsApart DEF FractionGap
  <2>3. b[1] \in Digit /\ b[1] # 0
    BY <1>3, <2>1, <2>2, FractionHas, DigitsAre
  <2>4. SubSeq(b, 1, 1) \in Fractions /\ Len(SubSeq(b, 1, 1)) = 1 /\ SubSeq(b, 1, 1)[1] = b[1]
    BY <1>3, <2>1, FirstIs
  <2> QED
    BY <1>1, <1>3, <2>2, <2>3, <2>4
<1> QED
  BY <1>2, <1>3

(***************************************************************************)
(* midpoint: strictly between two fractions of which the first is below    *)
(* the second there is a fraction that ends in no zero, and it is found.   *)
(***************************************************************************)
LEMMA MidpointIs ==
  ASSUME NEW a \in Fractions, NEW b \in Fractions, FractionGap(a, b)
  PROVE  FractionInside(a, b, Midpoint[<<a, b>>])
<1> DEFINE rank == [p \in Pairs |-> Len(p[1]) + Len(p[2])]
           S == {p \in Pairs : FractionGap(p[1], p[2]) => FractionInside(p[1], p[2], Midpoint[p])}
<1>1. rank \in [Pairs -> Nat]
  <2>1. ASSUME NEW p \in Pairs PROVE Len(p[1]) + Len(p[2]) \in Nat
    <3>1. PICK m, n \in Nat : m = Len(p[1]) /\ n = Len(p[2])
      BY FractionHas DEF Pairs
    <3>2. m + n \in Nat
      OBVIOUS
    <3> QED
      BY <3>1, <3>2, Zenon
  <2> QED
    BY <2>1
<1>2. ASSUME NEW p \in Pairs, \A q \in Pairs : rank[q] < rank[p] => q \in S
      PROVE  p \in S
  <2>1. PICK x, y \in Fractions : p = <<x, y>>
    BY DEF Pairs
  <2> SUFFICES ASSUME FractionGap(x, y) PROVE FractionInside(x, y, Midpoint[<<x, y>>])
    BY <2>1
  <2> DEFINE n == CommonPrefix(x, y)
             q == <<Rest(x, n), Rest(y, n)>>
             r == <<Rest(x, 1), Empty>>
  <2>2. Midpoint[<<x, y>>] = MidpointStep(Midpoint, x, y)
    BY MidpointDef
  <2>3. ~((y # Empty /\ ~Less(x, y)) \/ TrailingZero(x) \/ TrailingZero(y))
    BY DEF FractionGap
  <2>4. n \in Nat
    BY CommonPrefixIs, FractionHas
  <2>5. CASE n > 0
    <3>1. q \in Pairs /\ rank[q] < rank[p]
      BY <2>1, <2>5, MidpointDescends
    <3>2. q \in S
      BY <1>2, <3>1
    <3>3. FractionInside(Rest(x, n), Rest(y, n), Midpoint[q])
      BY <2>5, <3>2, InsidePrefix
    <3>4. FractionInside(x, y, Under(SubSeq(y, 1, n), Midpoint[q]))
      BY <2>5, <3>3, InsidePrefix
    <3>5. Midpoint[<<x, y>>] = Under(SubSeq(y, 1, n), Midpoint[q])
      BY <2>2, <2>3, <2>5 DEF MidpointStep
    <3> QED
      BY <3>4, <3>5
  <2>6. CASE n = 0 /\ DigitB(y) - DigitA(x) > 1
    BY <2>2, <2>3, <2>6, InsideDigit DEF MidpointStep
  <2>7. CASE n = 0 /\ ~(DigitB(y) - DigitA(x) > 1) /\ Len(y) > 1
    <3>1. FractionInside(x, y, SubSeq(y, 1, 1))
      BY <2>7, InsideDigit
    <3>2. Midpoint[<<x, y>>] = SubSeq(y, 1, 1)
      BY <2>2, <2>3, <2>7 DEF MidpointStep
    <3> QED
      BY <3>1, <3>2
  <2>8. CASE n = 0 /\ ~(DigitB(y) - DigitA(x) > 1) /\ ~(Len(y) > 1)
    <3>1. r \in Pairs /\ rank[r] < rank[p]
      BY <2>1, <2>8, MidpointDescends
    <3>2. r \in S
      BY <1>2, <3>1
    <3>3. FractionInside(Rest(x, 1), Empty, Midpoint[r])
      BY <2>8, <3>2, InsideDeeper
    <3>4. FractionInside(x, y, Under(<<DigitA(x)>>, Midpoint[r]))
      BY <2>8, <3>3, InsideDeeper
    <3>5. Midpoint[<<x, y>>] = Under(<<DigitA(x)>>, Midpoint[r])
      BY <2>2, <2>3, <2>8 DEF MidpointStep
    <3> QED
      BY <3>4, <3>5
  <2> QED
    BY <2>4, <2>5, <2>6, <2>7, <2>8
<1> HIDE DEF rank, S
<1>3. Pairs \subseteq S
  BY <1>1, <1>2, RankInduction
<1>4. <<a, b>> \in S
  BY <1>3 DEF Pairs
<1> QED
  BY <1>4 DEF S

-----------------------------------------------------------------------------
(* What KeyBetween is asked for, and what it makes                         *)

Bound(k) == k \in Seq(Int) /\ (k = Empty \/ ValidateOrderKey(k))

Gap(a, b) == Bound(a) /\ Bound(b) /\ (a = Empty \/ b = Empty \/ Less(a, b))

Between(a, b, k) ==
    /\ k \in Seq(Int) /\ k # Error
    /\ a # Empty => Less(a, k)
    /\ b # Empty => Less(k, b)
    /\ ValidateOrderKey(k) \/ (k = SmallestInteger /\ a = Empty)

(* An integer is a key without a fraction; only the smallest is reserved.  *)
LEMMA IntegerAlone ==
  ASSUME NEW x, Integer(x)
  PROVE  /\ x \o Empty = x /\ x # Error /\ x \in Seq(Int)
         /\ x # SmallestInteger => ValidateOrderKey(x)
<1>1. x \in Seq(Int) /\ x # Empty
  BY DEF Integer
<1>2. x \o Empty = x
  BY <1>1, ConcatEmptySeq DEF Empty
<1>3. Empty \in Fractions /\ ~TrailingZero(Empty)
  BY EmptyFraction DEF TrailingZero
<1>4. x # SmallestInteger => ValidateOrderKey(x \o Empty)
  BY <1>3, KeyMade
<1> QED
  BY <1>1, <1>2, <1>4 DEF Error, Empty

(* A midpoint under an integer is a key, where the fractions say.          *)
LEMMA UnderInteger ==
  ASSUME NEW x, Integer(x), NEW f \in Fractions, NEW g \in Fractions, FractionGap(f, g)
  PROVE  LET k == Under(x, Midpoint[<<f, g>>])
         IN /\ k \in Seq(Int) /\ k # Error /\ ValidateOrderKey(k)
            /\ Less(x \o f, k)
            /\ g # Empty => Less(k, x \o g)
            /\ \A y : Integer(y) /\ Less(x, y) => \A h \in Fractions : Less(k, y \o h)
<1> DEFINE m == Midpoint[<<f, g>>]
<1>1. FractionInside(f, g, m)
  BY MidpointIs
<1> HIDE DEF m
<1>2. m \in Fractions /\ m # Empty /\ ~TrailingZero(m) /\ Less(f, m) /\ (g # Empty => Less(m, g))
  BY <1>1 DEF FractionInside
<1>3. Under(x, m) = x \o m
  BY <1>2 DEF Under, Error, Empty
<1>4. x \in Seq(Int) /\ m \in Seq(Int) /\ f \in Seq(Int) /\ g \in Seq(Int)
  BY <1>2, FractionHas, IntegerHas
<1>5. x \o m \in Seq(Int) /\ ValidateOrderKey(x \o m) /\ x \o m # Error
  BY <1>2, KeyMade
<1>6. Less(x \o f, x \o m) /\ (g # Empty => Less(x \o m, x \o g))
  BY <1>2, <1>4, LessUnder
<1>7. \A y : Integer(y) /\ Less(x, y) => \A h \in Fractions : Less(x \o m, y \o h)
  BY <1>4, FractionHas, LessIntegers
<1> QED
  BY <1>3, <1>5, <1>6, <1>7 DEF m

(* A key below b (KeyBetween without a lower bound).                       *)
LEMMA KeyBeforeIs ==
  ASSUME NEW b \in Seq(Int), ValidateOrderKey(b)
  PROVE  Between(Empty, b, KeyBefore(b))
<1> DEFINE ib == IntegerPart(b)
           fb == Fraction(b)
<1>1. /\ Integer(ib) /\ fb \in Fractions /\ ~TrailingZero(fb) /\ b = ib \o fb
      /\ fb = Empty => ib # SmallestInteger
  BY KeyParts
<1>2. Empty \in Fractions /\ ~TrailingZero(Empty) /\ fb \in Seq(Int)
  BY <1>1, EmptyFraction, FractionHas DEF TrailingZero
<1>3. KeyBefore(b) = CASE ib = SmallestInteger -> Under(ib, Midpoint[<<Empty, fb>>])
                       [] ib # SmallestInteger /\ Less(ib, b) -> ib
                       [] OTHER -> DecrementInteger(ib)
  BY DEF KeyBefore
<1> HIDE DEF ib, fb
<1>4. CASE ib = SmallestInteger
  <2> DEFINE k == Under(ib, Midpoint[<<Empty, fb>>])
  <2>1. FractionGap(Empty, fb)
    BY <1>1, <1>2, <1>4, EmptyIsLess DEF FractionGap
  <2>2. k \in Seq(Int) /\ k # Error /\ ValidateOrderKey(k) /\ (fb # Empty => Less(k, ib \o fb))
    BY <1>1, <1>2, <2>1, UnderInteger
  <2>3. KeyBefore(b) = k
    BY <1>3, <1>4
  <2> HIDE DEF k
  <2> QED
    BY <1>1, <1>4, <2>2, <2>3 DEF Between
<1>5. CASE ib # SmallestInteger /\ Less(ib, b)
  <2>1. KeyBefore(b) = ib
    BY <1>3, <1>5
  <2>2. ib \in Seq(Int) /\ ib # Error /\ ValidateOrderKey(ib)
    BY <1>1, <1>5, IntegerAlone
  <2> QED
    BY <1>5, <2>1, <2>2 DEF Between
<1>6. CASE ib # SmallestInteger /\ ~Less(ib, b)
  <2> DEFINE k == DecrementInteger(ib)
  <2>1. KeyBefore(b) = k
    BY <1>3, <1>6
  <2>2. k # Error /\ Integer(k) /\ Less(k, ib)
    BY <1>1, <1>6, DecrementIs
  <2> HIDE DEF k
  <2>3. k \in Seq(Int) /\ k \o Empty = k /\ (k # SmallestInteger => ValidateOrderKey(k))
    BY <2>2, IntegerAlone
  <2>4. Empty \in Seq(Int)
    BY EmptySeq DEF Empty
  <2>5. Less(k \o Empty, ib \o fb)
    BY <1>1, <1>2, <2>2, <2>4, LessIntegers
  <2> QED
    BY <1>1, <2>1, <2>2, <2>3, <2>5 DEF Between
<1> QED
  BY <1>4, <1>5, <1>6

(* The next integer is above a key, and never the reserved bound.          *)
LEMMA NextInteger ==
  ASSUME NEW x, Integer(x), NEW f \in Fractions, IncrementInteger(x) # Error
  PROVE  /\ IncrementInteger(x) \in Seq(Int) /\ ValidateOrderKey(IncrementInteger(x))
         /\ Less(x \o f, IncrementInteger(x))
<1> DEFINE k == IncrementInteger(x)
<1>1. Integer(k) /\ Less(x, k)
  BY IncrementIs
<1> HIDE DEF k
<1>2. k # SmallestInteger
  BY <1>1, NoneBelowSmallest
<1>3. k \in Seq(Int) /\ k \o Empty = k /\ ValidateOrderKey(k)
  BY <1>1, <1>2, IntegerAlone
<1>4. Empty \in Seq(Int) /\ f \in Seq(Int)
  BY EmptySeq, FractionHas DEF Empty
<1>5. Less(x \o f, k \o Empty)
  BY <1>1, <1>4, LessIntegers
<1> QED
  BY <1>3, <1>5 DEF k

(* A key above a (KeyBetween without an upper bound).                      *)
LEMMA KeyAfterIs ==
  ASSUME NEW a \in Seq(Int), ValidateOrderKey(a)
  PROVE  Between(a, Empty, KeyAfter(a)) /\ ValidateOrderKey(KeyAfter(a))
<1> DEFINE ia == IntegerPart(a)
           fa == Fraction(a)
           i == IncrementInteger(ia)
<1>1. Integer(ia) /\ fa \in Fractions /\ ~TrailingZero(fa) /\ a = ia \o fa
  BY KeyParts
<1>2. FractionGap(fa, Empty) /\ Empty \in Fractions
  BY <1>1, EmptyFraction DEF TrailingZero, FractionGap
<1>3. KeyAfter(a) = IF i = Error THEN Under(ia, Midpoint[<<fa, Empty>>]) ELSE i
  BY DEF KeyAfter
<1> HIDE DEF ia, fa
<1>4. CASE i = Error
  <2> DEFINE k == Under(ia, Midpoint[<<fa, Empty>>])
  <2>1. k \in Seq(Int) /\ k # Error /\ ValidateOrderKey(k) /\ Less(ia \o fa, k)
    BY <1>1, <1>2, UnderInteger
  <2>2. KeyAfter(a) = k
    BY <1>3, <1>4
  <2> HIDE DEF k
  <2> QED
    BY <1>1, <2>1, <2>2 DEF Between
<1>5. CASE i # Error
  <2>1. i \in Seq(Int) /\ ValidateOrderKey(i) /\ Less(ia \o fa, i)
    BY <1>1, <1>5, NextInteger
  <2>2. KeyAfter(a) = i
    BY <1>3, <1>5
  <2> HIDE DEF i
  <2> QED
    BY <1>1, <1>5, <2>1, <2>2 DEF Between
<1> QED
  BY <1>4, <1>5

(* A key between two keys (KeyBetween with both bounds).                   *)
LEMMA KeyInsideIs ==
  ASSUME NEW a \in Seq(Int), ValidateOrderKey(a), NEW b \in Seq(Int), ValidateOrderKey(b), Less(a, b)
  PROVE  Between(a, b, KeyInside(a, b)) /\ ValidateOrderKey(KeyInside(a, b))
<1> DEFINE ia == IntegerPart(a)
           fa == Fraction(a)
           ib == IntegerPart(b)
           fb == Fraction(b)
           i == IncrementInteger(ia)
           k == KeyInside(a, b)
<1>1. Integer(ia) /\ fa \in Fractions /\ ~TrailingZero(fa) /\ a = ia \o fa
  BY KeyParts
<1>2. Integer(ib) /\ fb \in Fractions /\ ~TrailingZero(fb) /\ b = ib \o fb
  BY KeyParts
<1>3. FractionGap(fa, Empty) /\ Empty \in Fractions
  BY <1>1, EmptyFraction DEF TrailingZero, FractionGap
<1>4. k = CASE ia = ib -> Under(ia, Midpoint[<<fa, fb>>])
            [] ia # ib /\ i = Error -> Error
            [] ia # ib /\ i # Error /\ Less(i, b) -> i
            [] OTHER -> Under(ia, Midpoint[<<fa, Empty>>])
  BY DEF KeyInside
<1>5. ia \in Seq(Int) /\ ib \in Seq(Int) /\ fa \in Seq(Int) /\ fb \in Seq(Int)
  BY <1>1, <1>2, IntegerHas, FractionHas
<1> HIDE DEF ia, ib, fa, fb, i, k
<1> SUFFICES ASSUME TRUE PROVE k \in Seq(Int) /\ k # Error /\ ValidateOrderKey(k) /\ Less(a, k) /\ Less(k, b)
  BY DEF Between, k
<1>6. CASE ia = ib
  <2>1. Less(fa, fb)
    BY <1>1, <1>2, <1>5, <1>6, LessUnder
  <2>2. fb # Empty
    BY <2>1 DEF Less, Empty
  <2>3. FractionGap(fa, fb)
    BY <1>1, <1>2, <2>1 DEF FractionGap
  <2> DEFINE m == Under(ia, Midpoint[<<fa, fb>>])
  <2>4. m \in Seq(Int) /\ m # Error /\ ValidateOrderKey(m) /\ Less(ia \o fa, m) /\ Less(m, ia \o fb)
    BY <1>1, <1>2, <2>2, <2>3, UnderInteger
  <2>5. k = m
    BY <1>4, <1>6
  <2> HIDE DEF m
  <2> QED
    BY <1>1, <1>2, <1>6, <2>4, <2>5
<1>7. ASSUME ia # ib PROVE Less(ia, ib) /\ i # Error
  <2>1. ~Less(ib, ia)
    <3> SUFFICES ASSUME Less(ib, ia) PROVE FALSE
      OBVIOUS
    <3>1. Less(b, a)
      BY <1>1, <1>2, <1>5, LessIntegers
    <3> QED
      BY <3>1, LessTransitive, LessIrreflexive
  <2>2. Less(ia, ib)
    BY <1>5, <1>7, <2>1, LessTotal
  <2> QED
    BY <1>1, <1>2, <2>2, IncrementIs DEF i
<1>8. CASE ia # ib /\ Less(i, b)
  <2>1. k = i
    BY <1>4, <1>7, <1>8
  <2>2. i \in Seq(Int) /\ ValidateOrderKey(i) /\ Less(ia \o fa, i)
    BY <1>1, <1>7, <1>8, NextInteger DEF i
  <2> QED
    BY <1>1, <1>7, <1>8, <2>1, <2>2
<1>9. CASE ia # ib /\ ~Less(i, b)
  <2> DEFINE m == Under(ia, Midpoint[<<fa, Empty>>])
  <2>1. /\ m \in Seq(Int) /\ m # Error /\ ValidateOrderKey(m) /\ Less(ia \o fa, m)
        /\ \A y : Integer(y) /\ Less(ia, y) => \A h \in Fractions : Less(m, y \o h)
    BY <1>1, <1>3, UnderInteger
  <2>2. k = m
    BY <1>4, <1>7, <1>9
  <2> HIDE DEF m
  <2>3. Less(m, ib \o fb)
    BY <1>2, <1>7, <1>9, <2>1
  <2> QED
    BY <1>1, <1>2, <2>1, <2>2, <2>3
<1> QED
  BY <1>6, <1>8, <1>9

(* The first key of all.                                                   *)
LEMMA FirstKey == First \in Seq(Int) /\ First # Error /\ ValidateOrderKey(First)
<1>1. 0 \in Heads /\ 0 \in Digit /\ IntegerLength(0) = 2
  BY FracdexAssumption DEF Heads, Digit, IntegerLength
<1>2. First \in Seq(Int) /\ First # Empty /\ First[1] = 0 /\ First[2] = 0 /\ Len(First) = 2
  BY DEF First, Empty
<1>3. \A i \in 2..Len(First) : First[i] \in Digit
  BY <1>1, <1>2
<1>4. Integer(First)
  BY <1>1, <1>2, <1>3 DEF Integer
<1>5. First # SmallestInteger
  BY <1>2, SmallestIsInteger, FracdexAssumption
<1> QED
  BY <1>2, <1>4, <1>5, IntegerAlone

(***************************************************************************)
(* KeyBetween: for a gap it makes a key strictly inside, valid unless it   *)
(* is the reserved bound below everything; and otherwise it is an error.   *)
(***************************************************************************)
LEMMA KeyBetweenIs ==
  ASSUME NEW a \in Seq(Int), NEW b \in Seq(Int)
  PROVE  /\ KeyBetween(a, b) \in Seq(Int)
         /\ Gap(a, b) => Between(a, b, KeyBetween(a, b))
         /\ ~Gap(a, b) => KeyBetween(a, b) = Error
<1>1. Error \in Seq(Int)
  BY EmptySeq DEF Error
<1>2. CASE ~Bound(a) \/ ~Bound(b)
  BY <1>1, <1>2 DEF Gap, Bound, KeyBetween
<1>3. CASE Bound(a) /\ Bound(b) /\ a = Empty /\ b = Empty
  <2>1. KeyBetween(a, b) = First
    BY <1>3 DEF KeyBetween
  <2> QED
    BY <1>3, <2>1, FirstKey DEF Gap, Between
<1>4. CASE Bound(a) /\ Bound(b) /\ a = Empty /\ b # Empty
  <2>1. KeyBetween(a, b) = KeyBefore(b) /\ ValidateOrderKey(b)
    BY <1>4 DEF KeyBetween, Bound
  <2>2. Between(a, b, KeyBetween(a, b))
    BY <1>4, <2>1, KeyBeforeIs
  <2> QED
    BY <1>4, <2>2 DEF Gap, Between
<1>5. CASE Bound(a) /\ Bound(b) /\ a # Empty /\ b = Empty
  <2>1. KeyBetween(a, b) = KeyAfter(a) /\ ValidateOrderKey(a)
    BY <1>5 DEF KeyBetween, Bound
  <2>2. Between(a, b, KeyBetween(a, b))
    BY <1>5, <2>1, KeyAfterIs
  <2> QED
    BY <1>5, <2>2 DEF Gap, Between
<1>6. CASE Bound(a) /\ Bound(b) /\ a # Empty /\ b # Empty
  <2>1. /\ KeyBetween(a, b) = (IF Less(a, b) THEN KeyInside(a, b) ELSE Error)
        /\ ValidateOrderKey(a) /\ ValidateOrderKey(b)
    BY <1>6 DEF KeyBetween, Bound
  <2>2. CASE Less(a, b)
    <3>1. Between(a, b, KeyBetween(a, b))
      BY <2>1, <2>2, KeyInsideIs
    <3> QED
      BY <1>6, <2>2, <3>1 DEF Gap, Between
  <2>3. CASE ~Less(a, b)
    BY <1>1, <1>6, <2>1, <2>3 DEF Gap
  <2> QED
    BY <2>2, <2>3
<1> QED
  BY <1>2, <1>3, <1>4, <1>5, <1>6

-----------------------------------------------------------------------------
(* The bulk keys                                                           *)

Requests == Seq(Int) \X Seq(Int) \X Nat

KeyLists == Seq(Seq(Int))

(* One unfolding of NKeysBetween.                                          *)
NKeysStep(f, a, b, n) ==
    IF n = 0 \/ KeyBetween(a, b) = Error THEN <<>>
    ELSE IF n = 1 THEN <<KeyBetween(a, b)>>
    ELSE AllOrError(n,
           IF b = Empty THEN <<KeyBetween(a, b)>> \o f[<<KeyBetween(a, b), b, n - 1>>]
           ELSE IF a = Empty
                THEN LowerFirst(f[<<a, KeyBetween(a, b), n - 1>>], KeyBetween(a, b))
           ELSE f[<<a, KeyBetween(a, b), n \div 2>>] \o <<KeyBetween(a, b)>>
                  \o f[<<KeyBetween(a, b), b, n - n \div 2 - 1>>])

(* How many keys are left to make on either side of one.                   *)
LEMMA Halves ==
  ASSUME NEW n \in Nat, n # 0, n # 1
  PROVE  /\ n - 1 \in Nat /\ n - 1 < n
         /\ n \div 2 \in Nat /\ n \div 2 < n
         /\ n - n \div 2 - 1 \in Nat /\ n - n \div 2 - 1 < n
         /\ n \div 2 + 1 + (n - n \div 2 - 1) = n
OBVIOUS

Parts(x, c, y) == x \in KeyLists /\ c \in Seq(Int) /\ y \in KeyLists

(* A list, a key and a list, one after the other.                          *)
LEMMA ListsJoin ==
  ASSUME NEW x, NEW c, NEW y, Parts(x, c, y)
  PROVE  /\ x \o <<c>> \o y \in KeyLists
         /\ Len(x \o <<c>> \o y) = Len(x) + 1 + Len(y)
         /\ \A i \in 1..Len(x) : (x \o <<c>> \o y)[i] = x[i]
         /\ (x \o <<c>> \o y)[Len(x) + 1] = c
         /\ \A i \in 1..Len(y) : (x \o <<c>> \o y)[Len(x) + 1 + i] = y[i]
         /\ <<c>> \o y = (<<>> \o <<c>>) \o y /\ x \o <<c>> = (x \o <<c>>) \o <<>>
         /\ <<c>> \in KeyLists /\ <<>> \in KeyLists
<1> x \in KeyLists /\ c \in Seq(Int) /\ y \in KeyLists
  BY DEF Parts
<1> DEFINE u == x \o <<c>>
           w == u \o y
<1>1. Len(x) \in Nat /\ Len(y) \in Nat /\ <<c>> \in KeyLists /\ Len(<<c>>) = 1 /\ <<c>>[1] = c
  BY LenProperties DEF KeyLists
<1>2. /\ u \in KeyLists /\ Len(u) = Len(x) + 1
      /\ \A i \in 1..(Len(x) + 1) : u[i] = IF i <= Len(x) THEN x[i] ELSE <<c>>[i - Len(x)]
  BY <1>1, ConcatProperties DEF KeyLists
<1> HIDE DEF u
<1>3. /\ w \in KeyLists /\ Len(w) = Len(u) + Len(y)
      /\ \A i \in 1..(Len(u) + Len(y)) : w[i] = IF i <= Len(u) THEN u[i] ELSE y[i - Len(u)]
  <2>1. u \in Seq(Seq(Int)) /\ y \in Seq(Seq(Int))
    BY <1>2 DEF KeyLists
  <2> QED
    BY <2>1, ConcatProperties DEF KeyLists
<1> HIDE DEF w
<1>4. \A i \in 1..Len(x) : w[i] = x[i]
  <2> TAKE i \in 1..Len(x)
  <2>1. i \in 1..(Len(x) + 1) /\ i \in 1..(Len(u) + Len(y)) /\ i <= Len(u) /\ i <= Len(x)
    BY <1>1, <1>2
  <2> QED
    BY <1>2, <1>3, <2>1
<1>5. w[Len(x) + 1] = c
  <2> DEFINE k == Len(x) + 1
  <2>1. k \in 1..(Len(x) + 1) /\ k \in 1..(Len(u) + Len(y)) /\ k <= Len(u) /\ ~(k <= Len(x))
    BY <1>1, <1>2
  <2>2. k - Len(x) = 1
    BY <1>1
  <2> HIDE DEF k
  <2>3. w[k] = c
    BY <1>1, <1>2, <1>3, <2>1, <2>2
  <2> QED
    BY <2>3 DEF k
<1>6. \A i \in 1..Len(y) : w[Len(x) + 1 + i] = y[i]
  <2> TAKE i \in 1..Len(y)
  <2>1. PICK k \in Nat : k = Len(x) + 1 + i
    BY <1>1
  <2>2. k \in 1..(Len(u) + Len(y)) /\ ~(k <= Len(u)) /\ k - Len(u) = i
    BY <1>1, <1>2, <2>1
  <2> QED
    BY <1>3, <2>1, <2>2
<1>7. <<>> \o <<c>> = <<c>> /\ u \o <<>> = u
  BY <1>1, <1>2, ConcatEmptySeq DEF KeyLists
<1>8. <<>> \in KeyLists
  BY DEF KeyLists
<1> QED
  BY <1>1, <1>2, <1>3, <1>4, <1>5, <1>6, <1>7, <1>8 DEF u, w

(* One unfolding of NKeysBetween makes a list of keys.                     *)
LEMMA NKeysStepIs ==
  ASSUME NEW f \in [Requests -> KeyLists], NEW a \in Seq(Int), NEW b \in Seq(Int), NEW n \in Nat
  PROVE  NKeysStep(f, a, b, n) \in KeyLists
<1> DEFINE c == KeyBetween(a, b)
<1>1. c \in Seq(Int)
  BY KeyBetweenIs
<1> HIDE DEF c
<1>2. <<c>> \in KeyLists /\ <<>> \in KeyLists
  BY <1>1 DEF KeyLists
<1>3. CASE n = 0 \/ c = Error \/ n = 1
  BY <1>2, <1>3 DEF NKeysStep, c
<1>4. CASE n # 0 /\ n # 1
  <2>1. n - 1 \in Nat /\ n \div 2 \in Nat /\ n - n \div 2 - 1 \in Nat
    BY <1>4, Halves
  <2> DEFINE u == f[<<c, b, n - 1>>]
             v == f[<<a, c, n - 1>>]
             x == f[<<a, c, n \div 2>>]
             y == f[<<c, b, n - n \div 2 - 1>>]
  <2>2. <<c, b, n - 1>> \in Requests /\ <<a, c, n - 1>> \in Requests
    BY <1>1, <2>1 DEF Requests
  <2>3. <<a, c, n \div 2>> \in Requests /\ <<c, b, n - n \div 2 - 1>> \in Requests
    BY <1>1, <2>1 DEF Requests
  <2>4. u \in KeyLists /\ v \in KeyLists /\ x \in KeyLists /\ y \in KeyLists
    BY <2>2, <2>3
  <2> HIDE DEF u, v, x, y
  <2>5. <<c>> \o u \in KeyLists /\ LowerFirst(v, c) \in KeyLists /\ x \o <<c>> \o y \in KeyLists
    BY <1>1, <1>2, <2>4, ConcatProperties DEF KeyLists, LowerFirst
  <2>6. \A k \in KeyLists : AllOrError(n, k) \in KeyLists
    BY <1>2 DEF AllOrError, Error
  <2> QED
    BY <1>2, <1>4, <2>5, <2>6 DEF NKeysStep, c, u, v, x, y
<1> QED
  BY <1>3, <1>4

(* NKeysBetween terminates: the recursive function exists and unfolds as   *)
(* the code does.                                                          *)
LEMMA NKeysDef ==
  /\ NKeys \in [Requests -> KeyLists]
  /\ \A a, b \in Seq(Int), n \in Nat : NKeys[<<a, b, n>>] = NKeysStep(NKeys, a, b, n)
<1> DEFINE rank == [q \in Requests |-> q[3]]
           step == [f \in [Requests -> KeyLists] |->
                      [q \in Requests |-> NKeysStep(f, q[1], q[2], q[3])]]
<1>1. \A q \in Requests : /\ q[1] \in Seq(Int) /\ q[2] \in Seq(Int) /\ q[3] \in Nat
                          /\ q = <<q[1], q[2], q[3]>>
  BY DEF Requests
<1>2. rank \in [Requests -> Nat]
  BY <1>1
<1>3. \A f \in [Requests -> KeyLists], q \in Requests : NKeysStep(f, q[1], q[2], q[3]) \in KeyLists
  BY <1>1, NKeysStepIs
<1>4. step \in [[Requests -> KeyLists] -> [Requests -> KeyLists]]
  BY <1>3
<1>5. ASSUME NEW f, NEW g, NEW q \in Requests,
             \A r \in Requests : rank[r] < rank[q] => f[r] = g[r]
      PROVE  NKeysStep(f, q[1], q[2], q[3]) = NKeysStep(g, q[1], q[2], q[3])
  <2> DEFINE a == q[1]
             b == q[2]
             n == q[3]
             c == KeyBetween(a, b)
  <2>1. a \in Seq(Int) /\ b \in Seq(Int) /\ n \in Nat /\ c \in Seq(Int) /\ rank[q] = n
    BY <1>1, KeyBetweenIs
  <2>2. ASSUME NEW x \in Seq(Int), NEW y \in Seq(Int), NEW m \in Nat, m < n
        PROVE  f[<<x, y, m>>] = g[<<x, y, m>>]
    <3>1. <<x, y, m>> \in Requests /\ rank[<<x, y, m>>] = m
      BY DEF Requests
    <3> HIDE DEF rank
    <3> QED
      BY <1>5, <2>1, <2>2, <3>1
  <2> HIDE DEF a, b, n, c
  <2>3. CASE n = 0 \/ n = 1
    BY <2>3 DEF NKeysStep, a, b, n
  <2>4. CASE n # 0 /\ n # 1
    <3>1. /\ n - 1 \in Nat /\ n - 1 < n /\ n \div 2 \in Nat /\ n \div 2 < n
          /\ n - n \div 2 - 1 \in Nat /\ n - n \div 2 - 1 < n
      BY <2>1, <2>4, Halves
    <3>2. /\ f[<<c, b, n - 1>>] = g[<<c, b, n - 1>>] /\ f[<<a, c, n - 1>>] = g[<<a, c, n - 1>>]
          /\ f[<<a, c, n \div 2>>] = g[<<a, c, n \div 2>>]
          /\ f[<<c, b, n - n \div 2 - 1>>] = g[<<c, b, n - n \div 2 - 1>>]
      BY <2>1, <2>2, <3>1
    <3>3. NKeysStep(f, a, b, n) = NKeysStep(g, a, b, n)
      BY <3>2 DEF NKeysStep, c
    <3> QED
      BY <3>3 DEF a, b, n
  <2> QED
    BY <2>3, <2>4
<1>6. Descends(Requests, KeyLists, rank, step)
  <2>1. \A f, g \in [Requests -> KeyLists], q \in Requests :
          (\A r \in Requests : rank[r] < rank[q] => f[r] = g[r]) => step[f][q] = step[g][q]
    <3> HIDE DEF rank
    <3> QED
      BY <1>5
  <2> HIDE DEF rank, step
  <2> QED
    BY <1>2, <1>4, <2>1 DEF Descends
<1> HIDE DEF rank, step
<1>7. PICK f \in [Requests -> KeyLists] : f = step[f]
  <2>1. <<>> \in KeyLists
    BY DEF KeyLists
  <2> QED
    BY <1>6, <2>1, RecursionHolds
<1>8. f = [q \in Requests |-> NKeysStep(f, q[1], q[2], q[3])]
  BY <1>7 DEF step
<1>9. NKeys = CHOOSE h : h = [q \in Requests |-> NKeysStep(h, q[1], q[2], q[3])]
  BY DEF NKeys, NKeysStep, Requests
<1>10. NKeys = [q \in Requests |-> NKeysStep(NKeys, q[1], q[2], q[3])]
  <2> DEFINE P(h) == h = [q \in Requests |-> NKeysStep(h, q[1], q[2], q[3])]
  <2>1. P(f) /\ NKeys = CHOOSE h : P(h)
    BY <1>8, <1>9
  <2> HIDE DEF P
  <2>2. P(NKeys)
    BY <2>1
  <2> QED
    BY <2>2 DEF P
<1>11. NKeys = f
  <2> DEFINE S == {q \in Requests : NKeys[q] = f[q]}
  <2>1. \A q \in Requests : /\ NKeys[q] = NKeysStep(NKeys, q[1], q[2], q[3])
                            /\ f[q] = NKeysStep(f, q[1], q[2], q[3])
    BY <1>8, <1>10
  <2>2. ASSUME NEW q \in Requests, \A r \in Requests : rank[r] < rank[q] => r \in S
        PROVE  q \in S
    <3>1. NKeysStep(NKeys, q[1], q[2], q[3]) = NKeysStep(f, q[1], q[2], q[3])
      BY <1>5, <2>2
    <3> QED
      BY <2>1, <3>1
  <2>3. Requests \subseteq S
    <3> HIDE DEF S
    <3> QED
      BY <1>2, <2>2, RankInduction
  <2>4. \A q \in Requests : NKeys[q] = f[q]
    BY <2>3
  <2>5. DOMAIN NKeys = Requests /\ NKeys = [q \in DOMAIN NKeys |-> NKeys[q]]
    BY <1>10
  <2> QED
    BY <2>4, <2>5
<1>12. ASSUME NEW a \in Seq(Int), NEW b \in Seq(Int), NEW n \in Nat
       PROVE  NKeys[<<a, b, n>>] = NKeysStep(NKeys, a, b, n)
  <2>1. <<a, b, n>> \in Requests
    BY DEF Requests
  <2> QED
    BY <1>10, <2>1
<1> QED
  BY <1>11, <1>12

(* Ascending, and inside the bounds.                                       *)
Chain(a, b, s) ==
    /\ \A i \in 1..(Len(s) - 1) : Less(s[i], s[i + 1])
    /\ Len(s) # 0 /\ a # Empty => Less(a, s[1])
    /\ Len(s) # 0 /\ b # Empty => Less(s[Len(s)], b)

(* A chain below a key, the key and a chain above it are a chain.          *)
LEMMA ChainsJoin ==
  ASSUME NEW a \in Seq(Int), NEW b \in Seq(Int), NEW c \in Seq(Int),
         c # Empty, a # Empty => Less(a, c), b # Empty => Less(c, b),
         NEW x \in KeyLists, NEW y \in KeyLists, Chain(a, c, x), Chain(c, b, y)
  PROVE  Chain(a, b, x \o <<c>> \o y)
<1> DEFINE w == x \o <<c>> \o y
<1>1. /\ Len(w) = Len(x) + 1 + Len(y)
      /\ \A i \in 1..Len(x) : w[i] = x[i]
      /\ w[Len(x) + 1] = c
      /\ \A i \in 1..Len(y) : w[Len(x) + 1 + i] = y[i]
  <2>1. Parts(x, c, y)
    BY DEF Parts
  <2> QED
    BY <2>1, ListsJoin
<1>2. Len(x) \in Nat /\ Len(y) \in Nat
  BY LenProperties DEF KeyLists
<1> HIDE DEF w
<1>3. ASSUME NEW i \in 1..(Len(w) - 1) PROVE Less(w[i], w[i + 1])
  <2>1. CASE i < Len(x)
    <3>1. i \in 1..Len(x) /\ i + 1 \in 1..Len(x) /\ i \in 1..(Len(x) - 1)
      BY <1>2, <2>1
    <3>2. w[i] = x[i] /\ w[i + 1] = x[i + 1]
      BY <1>1, <3>1
    <3> QED
      BY <3>1, <3>2 DEF Chain
  <2>2. CASE i = Len(x)
    <3>1. i \in 1..Len(x) /\ Len(x) # 0
      BY <1>2, <2>2
    <3>2. w[i] = x[Len(x)] /\ w[i + 1] = c
      BY <1>1, <2>2, <3>1
    <3> QED
      BY <3>1, <3>2 DEF Chain
  <2>3. CASE i = Len(x) + 1
    <3>1. 1 \in 1..Len(y) /\ Len(y) # 0 /\ i + 1 = Len(x) + 1 + 1
      BY <1>1, <1>2, <2>3
    <3>2. w[i] = c /\ w[i + 1] = y[1]
      BY <1>1, <2>3, <3>1
    <3> QED
      BY <3>1, <3>2 DEF Chain
  <2>4. CASE i > Len(x) + 1
    <3>1. PICK k \in 1..(Len(y) - 1) : i = Len(x) + 1 + k
      <4>1. i - Len(x) - 1 \in 1..(Len(y) - 1) /\ i = Len(x) + 1 + (i - Len(x) - 1)
        BY <1>1, <1>2, <2>4
      <4> QED
        BY <4>1
    <3>2. k \in 1..Len(y) /\ k + 1 \in 1..Len(y) /\ i + 1 = Len(x) + 1 + (k + 1)
      BY <1>2, <3>1
    <3>3. w[i] = y[k] /\ w[i + 1] = y[k + 1]
      BY <1>1, <3>1, <3>2
    <3> QED
      BY <3>1, <3>3 DEF Chain
  <2>5. i \in Int
    OBVIOUS
  <2> QED
    BY <1>2, <2>1, <2>2, <2>3, <2>4, <2>5
<1>4. ASSUME a # Empty PROVE Less(a, w[1])
  <2>1. CASE Len(x) = 0
    <3>1. w[1] = c
      BY <1>1, <2>1
    <3> QED
      BY <1>4, <3>1
  <2>2. CASE Len(x) # 0
    <3>1. w[1] = x[1]
      BY <1>1, <1>2, <2>2
    <3> QED
      BY <1>4, <2>2, <3>1 DEF Chain
  <2> QED
    BY <2>1, <2>2
<1>5. ASSUME b # Empty PROVE Less(w[Len(w)], b)
  <2>1. CASE Len(y) = 0
    <3>1. w[Len(w)] = c
      BY <1>1, <1>2, <2>1
    <3> QED
      BY <1>5, <3>1
  <2>2. CASE Len(y) # 0
    <3>1. Len(y) \in 1..Len(y)
      BY <1>2, <2>2
    <3>2. w[Len(w)] = y[Len(y)]
      BY <1>1, <3>1
    <3> QED
      BY <1>5, <2>2, <3>2 DEF Chain
  <2> QED
    BY <2>1, <2>2
<1> QED
  BY <1>3, <1>4, <1>5 DEF Chain, w

(* All the keys, or none.                                                  *)
LEMMA AllOrNone ==
  ASSUME NEW a \in Seq(Int), NEW b \in Seq(Int), NEW n \in Nat
  PROVE  /\ NKeys[<<a, b, n>>] \in KeyLists
         /\ NKeys[<<a, b, n>>] = Error \/ Len(NKeys[<<a, b, n>>]) = n
         /\ NKeys[<<a, b, n>>] = Error => Len(NKeys[<<a, b, n>>]) = 0
<1> DEFINE k == NKeys[<<a, b, n>>]
           c == KeyBetween(a, b)
<1>1. k \in KeyLists /\ k = NKeysStep(NKeys, a, b, n)
  <2>1. <<a, b, n>> \in Requests
    BY DEF Requests
  <2> QED
    BY <2>1, NKeysDef
<1> HIDE DEF k
<1>2. PICK s : k = IF n = 0 \/ c = Error THEN <<>> ELSE IF n = 1 THEN <<c>> ELSE AllOrError(n, s)
  BY <1>1, Zenon DEF NKeysStep
<1>3. k = Error \/ Len(k) = n
  <2>1. CASE n = 0 \/ c = Error
    BY <1>2, <2>1 DEF Error
  <2>2. CASE ~(n = 0 \/ c = Error) /\ n = 1
    <3>1. Len(<<c>>) = 1
      OBVIOUS
    <3> HIDE DEF c
    <3> QED
      BY <1>2, <2>2, <3>1
  <2>3. CASE ~(n = 0 \/ c = Error) /\ n # 1
    <3>1. k = AllOrError(n, s)
      BY <1>2, <2>3
    <3> QED
      BY <3>1 DEF AllOrError
  <2> QED
    BY <2>1, <2>2, <2>3
<1>4. k = Error => Len(k) = 0
  BY DEF Error
<1> QED
  BY <1>1, <1>3, <1>4 DEF k

(* A number of keys asked for, and the first that is made.                 *)
Request(a, b, n, c) ==
    a \in Seq(Int) /\ b \in Seq(Int) /\ n \in Nat /\ Gap(a, b) /\ c = KeyBetween(a, b)

(* No key and one key.                                                     *)
LEMMA NKeysFew ==
  ASSUME NEW a, NEW b, NEW n, NEW c, Request(a, b, n, c)
  PROVE  (n = 0 => NKeys[<<a, b, n>>] = <<>>) /\ (n = 1 => NKeys[<<a, b, n>>] = <<c>>)
<1> a \in Seq(Int) /\ b \in Seq(Int) /\ n \in Nat /\ Gap(a, b) /\ c = KeyBetween(a, b)
  BY DEF Request
<1>1. c # Error
  BY KeyBetweenIs DEF Between
<1>2. NKeys[<<a, b, n>>] = NKeysStep(NKeys, a, b, n)
  BY NKeysDef
<1> QED
  BY <1>1, <1>2 DEF NKeysStep, LowerFirst

(* Several keys above a: one, and the rest above it.                       *)
LEMMA NKeysAbove ==
  ASSUME NEW a, NEW b, NEW n, NEW c, Request(a, b, n, c), n # 0, n # 1, b = Empty
  PROVE  NKeys[<<a, b, n>>] = AllOrError(n, <<c>> \o NKeys[<<c, b, n - 1>>])
<1> a \in Seq(Int) /\ b \in Seq(Int) /\ n \in Nat /\ Gap(a, b) /\ c = KeyBetween(a, b)
  BY DEF Request
<1>1. c # Error
  BY KeyBetweenIs DEF Between
<1>2. NKeys[<<a, b, n>>] = NKeysStep(NKeys, a, b, n)
  BY NKeysDef
<1> QED
  BY <1>1, <1>2 DEF NKeysStep, LowerFirst

(* Several keys below b: one, and the rest below it.                       *)
LEMMA NKeysBelow ==
  ASSUME NEW a, NEW b, NEW n, NEW c, Request(a, b, n, c), n # 0, n # 1, a = Empty, b # Empty
  PROVE  NKeys[<<a, b, n>>] = AllOrError(n, NKeys[<<a, c, n - 1>>] \o <<c>>)
<1> a \in Seq(Int) /\ b \in Seq(Int) /\ n \in Nat /\ Gap(a, b) /\ c = KeyBetween(a, b)
  BY DEF Request
<1>1. c # Error
  BY KeyBetweenIs DEF Between
<1>2. NKeys[<<a, b, n>>] = NKeysStep(NKeys, a, b, n)
  BY NKeysDef
<1> QED
  BY <1>1, <1>2 DEF NKeysStep, LowerFirst

Halved(a, b, n, c, h, l) ==
    Request(a, b, n, c) /\ n \notin {0, 1} /\ a # Empty /\ b # Empty /\ h = n \div 2 /\ l = n - n \div 2 - 1

(* Several keys between a and b: one, and half of the rest on each side.   *)
LEMMA NKeysInside ==
  ASSUME NEW a, NEW b, NEW n, NEW c, NEW h, NEW l, Halved(a, b, n, c, h, l),
         NEW x, NEW y, x = NKeys[<<a, c, h>>], y = NKeys[<<c, b, l>>]
  PROVE  NKeys[<<a, b, n>>] = AllOrError(n, x \o <<c>> \o y)
<1> a \in Seq(Int) /\ b \in Seq(Int) /\ n \in Nat /\ Gap(a, b) /\ c = KeyBetween(a, b)
  BY DEF Request, Halved
<1>1. c # Error
  BY KeyBetweenIs DEF Between
<1>2. NKeys[<<a, b, n>>] = NKeysStep(NKeys, a, b, n)
  BY NKeysDef
<1> QED
  BY <1>1, <1>2 DEF NKeysStep, LowerFirst, Halved

(* The reserved bound is not one of the bounds of a gap.                   *)
LEMMA GapNotReserved ==
  ASSUME NEW a, NEW b, Gap(a, b)
  PROVE  SmallestInteger \notin {a, b}
<1>1. SmallestInteger # Empty
  BY SmallestIsInteger DEF Integer
<1> QED
  BY <1>1 DEF Gap, Bound, ValidateOrderKey

(* A gap below b runs dry when the gap below the next key down does.       *)
LEMMA ExhaustedBelow ==
  ASSUME NEW b \in Seq(Int), b # Empty, Gap(Empty, b), NEW n \in Nat, n # 0, n # 1,
         NEW c, c = KeyBetween(Empty, b), c # SmallestInteger
  PROVE  Gap(Empty, c) /\ c # Empty /\ (Exhausted(Empty, b, n) <=> Exhausted(Empty, c, n - 1))
<1>1. Empty \in Seq(Int)
  BY DEF Empty
<1>2. Between(Empty, b, c)
  BY <1>1, KeyBetweenIs
<1>3. c \in Seq(Int) /\ c # Empty /\ ValidateOrderKey(c)
  BY <1>2 DEF Between, Error, Empty
<1>4. Gap(Empty, c)
  BY <1>1, <1>3 DEF Gap, Bound
<1> DEFINE At(x, m) == NKeys[<<Empty, x, m>>] # Error /\ NKeys[<<Empty, x, m>>][1] = SmallestInteger
<1>5. /\ Exhausted(Empty, b, n) <=> \E m \in 1..(n - 1) : At(b, m)
      /\ Exhausted(Empty, c, n - 1) <=> \E m \in 1..(n - 1 - 1) : At(c, m)
  <2>1. SmallestInteger \notin {Empty, b} /\ SmallestInteger \notin {Empty, c}
    BY <1>4, GapNotReserved
  <2> QED
    BY <1>3, <2>1 DEF Exhausted, NKeysBetween
<1>6. ~At(b, 1)
  <2>1. NKeys[<<Empty, b, 1>>] = <<c>>
    <3>1. PICK p \in Nat : p = 1
      OBVIOUS
    <3>2. Request(Empty, b, p, c)
      BY <1>1 DEF Request
    <3>3. NKeys[<<Empty, b, p>>] = <<c>>
      BY <3>1, <3>2, NKeysFew
    <3> QED
      BY <3>1, <3>3
  <2>2. <<c>>[1] = c
    OBVIOUS
  <2> QED
    BY <2>1, <2>2
<1>7. ASSUME NEW m \in Nat, m # 0 PROVE At(b, m + 1) <=> At(c, m)
  <2> DEFINE s == NKeys[<<Empty, c, m>>]
             t == NKeys[<<Empty, b, m + 1>>]
  <2>1. m + 1 \in Nat /\ m + 1 # 0 /\ m + 1 # 1 /\ m + 1 - 1 = m
    BY <1>7
  <2>2. t = AllOrError(m + 1, s \o <<c>>)
    <3>1. PICK p \in Nat : p = m + 1 /\ p # 0 /\ p # 1
      BY <2>1
    <3>2. p - 1 = m
      BY <3>1
    <3>3. Request(Empty, b, p, c)
      BY <1>1 DEF Request
    <3>4. NKeys[<<Empty, b, p>>] = AllOrError(p, NKeys[<<Empty, c, p - 1>>] \o <<c>>)
      BY <3>1, <3>3, NKeysBelow
    <3> QED
      BY <3>1, <3>2, <3>4, Zenon
  <2>3. s \in KeyLists /\ (s = Error \/ Len(s) = m) /\ (s = Error => Len(s) = 0)
    BY <1>1, <1>3, AllOrNone
  <2> HIDE DEF s, t
  <2>4. Len(s \o <<c>>) = Len(s) + 1 /\ Len(s) \in Nat /\ (Len(s) # 0 => (s \o <<c>>)[1] = s[1])
    BY <1>3, <2>3 DEF KeyLists
  <2>5. CASE s = Error
    <3>1. t = Error
      BY <1>7, <2>1, <2>2, <2>3, <2>4, <2>5 DEF AllOrError
    <3> QED
      BY <2>5, <3>1 DEF s, t
  <2>6. CASE s # Error
    <3>1. t = s \o <<c>> /\ Len(s) # 0 /\ Len(s \o <<c>>) # 0
      BY <1>7, <2>1, <2>2, <2>3, <2>4, <2>6 DEF AllOrError
    <3>2. t # Error
      BY <3>1 DEF Error
    <3> QED
      BY <2>4, <2>6, <3>1, <3>2 DEF s, t
  <2> QED
    BY <2>5, <2>6
<1> HIDE DEF At
<1>8. (\E m \in 1..(n - 1) : At(b, m)) <=> (\E m \in 1..(n - 1 - 1) : At(c, m))
  <2>1. ASSUME NEW m \in 1..(n - 1), At(b, m) PROVE \E k \in 1..(n - 1 - 1) : At(c, k)
    <3>1. m # 1
      BY <1>6, <2>1
    <3>2. m - 1 \in Nat /\ m - 1 # 0 /\ m - 1 + 1 = m /\ m - 1 \in 1..(n - 1 - 1)
      BY <3>1
    <3> QED
      BY <1>7, <2>1, <3>2
  <2>2. ASSUME NEW m \in 1..(n - 1 - 1), At(c, m) PROVE \E k \in 1..(n - 1) : At(b, k)
    <3>1. m \in Nat /\ m # 0 /\ m + 1 \in 1..(n - 1)
      OBVIOUS
    <3> QED
      BY <1>7, <2>2, <3>1
  <2> QED
    BY <2>1, <2>2
<1> QED
  BY <1>3, <1>4, <1>5, <1>8

Bulk(a, b, n) ==
    IF Exhausted(a, b, n) THEN NKeys[<<a, b, n>>] = Error
    ELSE Len(NKeys[<<a, b, n>>]) = n /\ Chain(a, b, NKeys[<<a, b, n>>])

(* Only a gap below all keys runs dry, and not at once.                    *)
LEMMA NeverExhausted ==
  ASSUME NEW a, NEW b, Gap(a, b), NEW n \in Nat, a # Empty \/ b = Empty \/ n = 0 \/ n = 1
  PROVE  ~Exhausted(a, b, n)
<1>1. SmallestInteger \notin {a, b}
  BY GapNotReserved
<1>2. n = 0 \/ n = 1 => 1..(n - 1) = {}
  OBVIOUS
<1> QED
  BY <1>1, <1>2 DEF Exhausted

(* The key, with the keys asked for below and above it.                    *)
Joins(a, b, c, x, y, n, k) ==
    /\ a \in Seq(Int) /\ b \in Seq(Int) /\ Between(a, b, c)
    /\ x \in KeyLists /\ y \in KeyLists /\ Chain(a, c, x) /\ Chain(c, b, y)
    /\ n = Len(x) + 1 + Len(y) /\ k = AllOrError(n, x \o <<c>> \o y)

(* With chains on both sides of a key all the keys are made.               *)
LEMMA BulkJoins ==
  ASSUME NEW a, NEW b, NEW c, NEW x, NEW y, NEW n, NEW k, Joins(a, b, c, x, y, n, k)
  PROVE  Len(k) = n /\ Chain(a, b, k)
<1> /\ a \in Seq(Int) /\ b \in Seq(Int) /\ Between(a, b, c)
    /\ x \in KeyLists /\ y \in KeyLists /\ Chain(a, c, x) /\ Chain(c, b, y)
    /\ n = Len(x) + 1 + Len(y) /\ k = AllOrError(n, x \o <<c>> \o y)
  BY DEF Joins
<1>1. c \in Seq(Int) /\ c # Empty /\ (a # Empty => Less(a, c)) /\ (b # Empty => Less(c, b))
  BY DEF Between, Error, Empty
<1>2. Parts(x, c, y)
  BY <1>1 DEF Parts
<1>3. Len(x \o <<c>> \o y) = n
  BY <1>2, ListsJoin
<1>4. Chain(a, b, x \o <<c>> \o y)
  BY <1>1, ChainsJoin
<1>5. k = x \o <<c>> \o y
  BY <1>3 DEF AllOrError
<1> QED
  BY <1>3, <1>4, <1>5

(* No keys are a chain.                                                    *)
LEMMA NoKeysChain ==
  ASSUME NEW a, NEW b
  PROVE  Chain(a, b, <<>>) /\ <<>> \in KeyLists /\ Len(<<>>) = 0
BY DEF Chain, KeyLists

(***************************************************************************)
(* NKeysBetween: for every gap it makes all the keys, ascending and inside *)
(* it, or none because it comes down to the reserved bound first.          *)
(***************************************************************************)
LEMMA BulkIs ==
  ASSUME NEW a \in Seq(Int), NEW b \in Seq(Int), NEW n \in Nat, Gap(a, b)
  PROVE  Bulk(a, b, n)
<1> DEFINE rank == [q \in Requests |-> q[3]]
           S == {q \in Requests : Gap(q[1], q[2]) => Bulk(q[1], q[2], q[3])}
<1>1. rank \in [Requests -> Nat]
  BY DEF Requests
<1>2. ASSUME NEW q \in Requests, \A r \in Requests : rank[r] < rank[q] => r \in S
      PROVE  q \in S
  <2>1. PICK x \in Seq(Int), y \in Seq(Int), m \in Nat : q = <<x, y, m>>
    BY DEF Requests
  <2> SUFFICES ASSUME Gap(x, y) PROVE Bulk(x, y, m)
    BY <2>1
  <2>2. ASSUME NEW u \in Seq(Int), NEW v \in Seq(Int), NEW k \in Nat, k < m, Gap(u, v)
        PROVE  Bulk(u, v, k)
    <3>1. <<u, v, k>> \in Requests /\ rank[<<u, v, k>>] = k /\ rank[q] = m
      BY <2>1 DEF Requests
    <3>2. <<u, v, k>> \in S
      <4> HIDE DEF rank, S
      <4> QED
        BY <1>2, <2>2, <3>1
    <3> QED
      BY <2>2, <3>2
  <2> HIDE DEF rank, S
  <2>3. PICK c : c = KeyBetween(x, y)
    OBVIOUS
  <2>4. Between(x, y, c)
    BY <2>3, KeyBetweenIs
  <2>5. c \in Seq(Int) /\ c # Empty /\ (ValidateOrderKey(c) \/ (c = SmallestInteger /\ x = Empty))
    BY <2>4 DEF Between, Error, Empty
  <2>6. Request(x, y, m, c)
    BY <2>3 DEF Request
  <2>7. CASE m = 0
    <3>1. NKeys[<<x, y, m>>] = <<>>
      BY <2>6, <2>7, NKeysFew
    <3>2. ~Exhausted(x, y, m)
      BY <2>7, NeverExhausted
    <3> QED
      BY <2>7, <3>1, <3>2, NoKeysChain DEF Bulk
  <2>8. CASE m = 1
    <3>1. NKeys[<<x, y, m>>] = <<c>>
      BY <2>6, <2>8, NKeysFew
    <3>2. ~Exhausted(x, y, m)
      BY <2>8, NeverExhausted
    <3>3. Len(<<c>>) = 1 /\ <<c>>[1] = c /\ 1..(1 - 1) = {}
      OBVIOUS
    <3>4. Chain(x, y, <<c>>)
      BY <2>4, <3>3 DEF Chain, Between
    <3> QED
      BY <2>8, <3>1, <3>2, <3>3, <3>4 DEF Bulk
  <2>9. CASE m # 0 /\ m # 1 /\ y = Empty
    <3> DEFINE t == NKeys[<<c, y, m - 1>>]
    <3>1. m - 1 \in Nat /\ m - 1 < m /\ m = 0 + 1 + (m - 1)
      BY <2>9
    <3>2. c # SmallestInteger
      BY <2>3, <2>5, <2>9, FirstKey DEF KeyBetween, ValidateOrderKey
    <3>3. Gap(c, y)
      BY <2>5, <2>9, <3>2 DEF Gap, Bound
    <3>4. ~Exhausted(c, y, m - 1) /\ ~Exhausted(x, y, m)
      BY <2>9, <3>1, <3>3, NeverExhausted
    <3>5. t \in KeyLists /\ Len(t) = m - 1 /\ Chain(c, y, t)
      BY <2>2, <2>5, <3>1, <3>3, <3>4, AllOrNone DEF Bulk
    <3>6. NKeys[<<x, y, m>>] = AllOrError(m, <<c>> \o t)
      BY <2>6, <2>9, NKeysAbove
    <3> HIDE DEF t
    <3>7. <<c>> \o t = <<>> \o <<c>> \o t
      BY <2>5, <3>5, ListsJoin, NoKeysChain DEF Parts
    <3>8. m = Len(<<>>) + 1 + Len(t)
      BY <3>1, <3>5
    <3>9. Len(NKeys[<<x, y, m>>]) = m /\ Chain(x, y, NKeys[<<x, y, m>>])
      <4>1. NKeys[<<x, y, m>>] = AllOrError(m, <<>> \o <<c>> \o t) /\ m = Len(<<>>) + 1 + Len(t)
        BY <3>6, <3>7, <3>8, Zenon
      <4>2. PICK e \in KeyLists : /\ Chain(x, c, e) /\ m = Len(e) + 1 + Len(t)
                                  /\ NKeys[<<x, y, m>>] = AllOrError(m, e \o <<c>> \o t)
        BY <4>1, NoKeysChain, Zenon
      <4>3. Joins(x, y, c, e, t, m, NKeys[<<x, y, m>>])
        BY <2>4, <3>5, <4>2, Zenon DEF Joins
      <4> QED
        BY <4>3, BulkJoins
    <3> QED
      BY <3>4, <3>9 DEF Bulk
  <2>10. CASE m # 0 /\ m # 1 /\ x = Empty /\ y # Empty /\ c # SmallestInteger
    <3> DEFINE s == NKeys[<<x, c, m - 1>>]
    <3>1. m - 1 \in Nat /\ m - 1 < m /\ m = (m - 1) + 1 + 0
      BY <2>10
    <3>2. Gap(x, c) /\ (Exhausted(x, y, m) <=> Exhausted(x, c, m - 1))
      BY <2>3, <2>10, ExhaustedBelow
    <3>3. Bulk(x, c, m - 1)
      BY <2>2, <2>5, <3>1, <3>2
    <3>4. NKeys[<<x, y, m>>] = AllOrError(m, s \o <<c>>)
      BY <2>6, <2>10, NKeysBelow
    <3>5. s \in KeyLists /\ (s = Error => Len(s) = 0)
      BY <2>5, <3>1, AllOrNone
    <3>6. CASE Exhausted(x, c, m - 1)
      <4>1. s = Error
        BY <3>3, <3>6 DEF Bulk
      <4> HIDE DEF s
      <4>2. Len(s \o <<c>>) = 1
        BY <2>5, <3>5, <4>1 DEF KeyLists
      <4>3. NKeys[<<x, y, m>>] = Error
        BY <2>10, <3>4, <4>2 DEF AllOrError
      <4> QED
        BY <3>2, <3>6, <4>3 DEF Bulk
    <3>7. CASE ~Exhausted(x, c, m - 1)
      <4>1. Len(s) = m - 1 /\ Chain(x, c, s)
        BY <3>3, <3>7 DEF Bulk
      <4> HIDE DEF s
      <4>2. s \o <<c>> = s \o <<c>> \o <<>>
        BY <2>5, <3>5, ListsJoin, NoKeysChain DEF Parts
      <4>3. m = Len(s) + 1 + Len(<<>>)
        BY <3>1, <4>1
      <4>4. Len(NKeys[<<x, y, m>>]) = m /\ Chain(x, y, NKeys[<<x, y, m>>])
        <5>1. NKeys[<<x, y, m>>] = AllOrError(m, s \o <<c>> \o <<>>) /\ m = Len(s) + 1 + Len(<<>>)
          BY <3>4, <4>2, <4>3, Zenon
        <5>2. PICK e \in KeyLists : /\ Chain(c, y, e) /\ m = Len(s) + 1 + Len(e)
                                    /\ NKeys[<<x, y, m>>] = AllOrError(m, s \o <<c>> \o e)
          BY <5>1, NoKeysChain, Zenon
        <5>3. Joins(x, y, c, s, e, m, NKeys[<<x, y, m>>])
          BY <2>4, <3>5, <4>1, <5>2, Zenon DEF Joins
        <5> QED
          BY <5>3, BulkJoins
      <4> QED
        BY <3>2, <3>7, <4>4 DEF Bulk
    <3> QED
      BY <3>6, <3>7
  <2>11. CASE m # 0 /\ m # 1 /\ x = Empty /\ y # Empty /\ c = SmallestInteger
    <3> DEFINE s == NKeys[<<x, c, m - 1>>]
    <3>1. m - 1 \in Nat /\ m - 1 # 0 /\ 1 \in 1..(m - 1)
      BY <2>11
    <3>2. KeyBetween(x, c) = Error
      BY <2>5, <2>11, GapNotReserved, KeyBetweenIs
    <3>3. s = <<>>
      <4>1. s = NKeysStep(NKeys, x, c, m - 1)
        BY <2>5, <3>1, NKeysDef
      <4> QED
        BY <3>2, <4>1 DEF NKeysStep
    <3>4. NKeys[<<x, y, m>>] = AllOrError(m, s \o <<c>>)
      BY <2>6, <2>11, NKeysBelow
    <3> HIDE DEF s
    <3>5. Len(s \o <<c>>) = 1
      BY <2>5, <3>3, NoKeysChain DEF KeyLists
    <3>6. NKeys[<<x, y, m>>] = Error
      BY <2>11, <3>4, <3>5 DEF AllOrError
    <3>7. Exhausted(x, y, m)
      <4>1. PICK p \in Nat : p = 1
        OBVIOUS
      <4>2. Request(x, y, p, c)
        BY <2>3 DEF Request
      <4>3. NKeys[<<x, y, p>>] = <<c>>
        BY <4>1, <4>2, NKeysFew
      <4>4. <<c>> # Error /\ <<c>>[1] = c
        BY DEF Error
      <4>5. NKeysBetween(x, y, p) # Error /\ NKeysBetween(x, y, p)[1] = SmallestInteger
        BY <2>11, <4>3, <4>4 DEF NKeysBetween
      <4> QED
        BY <2>11, <3>1, <4>1, <4>5 DEF Exhausted
    <3> QED
      BY <3>6, <3>7 DEF Bulk
  <2>12. CASE m # 0 /\ m # 1 /\ x # Empty /\ y # Empty
    <3>1. PICK h \in Nat, l \in Nat : /\ h = m \div 2 /\ l = m - m \div 2 - 1 /\ h < m /\ l < m
                                      /\ m = h + 1 + l
      BY <2>12, Halves
    <3> DEFINE s == NKeys[<<x, c, h>>]
               t == NKeys[<<c, y, l>>]
    <3>2. Less(x, c) /\ Less(c, y) /\ ValidateOrderKey(c)
      BY <2>4, <2>12 DEF Between
    <3>3. Gap(x, c) /\ Gap(c, y)
      BY <2>5, <3>2 DEF Gap, Bound
    <3>4. ~Exhausted(x, c, h) /\ ~Exhausted(c, y, l) /\ ~Exhausted(x, y, m)
      BY <2>5, <2>12, <3>3, NeverExhausted
    <3>5. Bulk(x, c, h) /\ Bulk(c, y, l)
      BY <2>2, <2>5, <3>1, <3>3
    <3>6. s \in KeyLists /\ Len(s) = h /\ Chain(x, c, s)
      BY <2>5, <3>4, <3>5, AllOrNone DEF Bulk
    <3>7. t \in KeyLists /\ Len(t) = l /\ Chain(c, y, t)
      BY <2>5, <3>4, <3>5, AllOrNone DEF Bulk
    <3>8. NKeys[<<x, y, m>>] = AllOrError(m, s \o <<c>> \o t)
      <4>1. Halved(x, y, m, c, h, l)
        BY <2>6, <2>12, <3>1 DEF Halved
      <4> QED
        BY <4>1, NKeysInside
    <3> HIDE DEF s, t
    <3>9. m = Len(s) + 1 + Len(t)
      BY <3>1, <3>6, <3>7
    <3>10. Len(NKeys[<<x, y, m>>]) = m /\ Chain(x, y, NKeys[<<x, y, m>>])
      <4>1. Joins(x, y, c, s, t, m, NKeys[<<x, y, m>>])
        BY <2>4, <3>6, <3>7, <3>8, <3>9, Zenon DEF Joins
      <4> QED
        BY <4>1, BulkJoins
    <3> QED
      BY <3>4, <3>10 DEF Bulk
  <2> QED
    BY <2>7, <2>8, <2>9, <2>10, <2>11, <2>12
<1> HIDE DEF rank, S
<1>3. Requests \subseteq S
  BY <1>1, <1>2, RankInduction
<1>4. <<a, b, n>> \in S
  BY <1>3 DEF Requests
<1> QED
  BY <1>4 DEF S

-----------------------------------------------------------------------------
(* The keys of the rows                                                    *)

(* What the set of keys is made of.                                        *)
LEMMA KeysAre ==
  ASSUME NEW k
  PROVE  k \in Keys <=> /\ k \in Seq(Int) /\ Len(k) <= MaxLength
                        /\ ValidateOrderKey(k) \/ k = SmallestInteger
<1>1. ASSUME k \in Keys
      PROVE  k \in Seq(Int) /\ Len(k) <= MaxLength /\ (ValidateOrderKey(k) \/ k = SmallestInteger)
  <2>1. CASE k = SmallestInteger
    BY <1>1, <2>1, SmallestIsInteger DEF Keys, Integer
  <2>2. CASE k # SmallestInteger
    <3>1. PICK m \in 2..MaxLength : k \in [1..m -> Heads \cup Digit] /\ ValidateOrderKey(k)
      BY <1>1, <2>2 DEF Keys, OrderKeys
    <3>2. m \in Nat /\ Heads \cup Digit \subseteq Int
      BY PositionsAssumption, FracdexAssumption DEF Heads, Digit
    <3>3. k \in [1..m -> Int]
      BY <3>1, <3>2
    <3>4. k \in Seq(Int)
      BY <3>2, <3>3, SeqDef
    <3> QED
      BY <1>1, <3>1, <3>4 DEF Keys
  <2> QED
    BY <2>1, <2>2
<1>2. ASSUME k \in Seq(Int), Len(k) <= MaxLength, ValidateOrderKey(k)
      PROVE  k \in Keys
  <2>1. /\ k # Empty /\ k[1] \in Heads /\ IntegerLength(k[1]) <= Len(k)
        /\ \A i \in 2..Len(k) : k[i] \in Digit
    BY <1>2 DEF ValidateOrderKey, ValidateInteger
  <2>2. IntegerLength(k[1]) >= 2 /\ IntegerLength(k[1]) \in Int
    BY <2>1, FracdexAssumption DEF Heads, IntegerLength
  <2>3. Len(k) \in Nat /\ Len(k) \in 2..MaxLength
    BY <1>2, <2>1, <2>2, LenProperties, PositionsAssumption
  <2>4. k \in [1..Len(k) -> Int]
    BY <1>2, LenProperties
  <2>5. \A i \in 1..Len(k) : k[i] \in Heads \cup Digit
    BY <2>1, <2>3
  <2>6. k \in [1..Len(k) -> Heads \cup Digit]
    BY <2>4, <2>5
  <2>7. k \in OrderKeys(MaxLength)
    BY <1>2, <2>3, <2>6 DEF OrderKeys
  <2> QED
    BY <1>2, <2>7 DEF Keys
<1>3. ASSUME k = SmallestInteger, Len(k) <= MaxLength
      PROVE  k \in Keys
  BY <1>3 DEF Keys
<1> QED
  BY <1>1, <1>2, <1>3

(* The order of the keys is strict and total.                              *)
LEMMA KeysOrdered ==
  /\ \A p \in Keys : ~Less(p, p) /\ p # Empty /\ p \in Seq(Int)
  /\ \A p, q, r \in Keys : Less(p, q) /\ Less(q, r) => Less(p, r)
  /\ \A p, q \in Keys : p # q => Less(p, q) \/ Less(q, p)
<1>1. \A p \in Keys : p \in Seq(Int)
  BY KeysAre
<1>2. \A p \in Keys : p # Empty
  <2>1. SmallestInteger # Empty
    BY SmallestIsInteger DEF Integer
  <2> QED
    BY <2>1, KeysAre DEF ValidateOrderKey, ValidateInteger
<1> QED
  BY <1>1, <1>2, LessIrreflexive, LessTransitive, LessTotal

(* A key that is short enough to be stored is a key, strictly between the  *)
(* bounds it was asked for (validatePosition checks no more).              *)
LEMMA KeyStored ==
  ASSUME NEW a \in Keys \cup {Empty}, NEW b \in Keys \cup {Empty}, Storable(KeyBetween(a, b))
  PROVE  /\ KeyBetween(a, b) \in Keys
         /\ a \in Keys => Less(a, KeyBetween(a, b))
         /\ b \in Keys => Less(KeyBetween(a, b), b)
<1> DEFINE k == KeyBetween(a, b)
<1>1. Empty \in Seq(Int)
  BY EmptySeq DEF Empty
<1>2. a \in Seq(Int) /\ b \in Seq(Int) /\ (a \in Keys => a # Empty) /\ (b \in Keys => b # Empty)
  BY <1>1, KeysOrdered
<1>3. k # Error /\ Len(k) <= MaxLength
  BY DEF Storable
<1>4. Between(a, b, k)
  BY <1>2, <1>3, KeyBetweenIs
<1> HIDE DEF k
<1>5. k \in Keys
  BY <1>3, <1>4, KeysAre DEF Between
<1> QED
  BY <1>2, <1>4, <1>5 DEF Between, k

-----------------------------------------------------------------------------
(* What a placement does to the slots: one row gets a bucket and a key.    *)
SlotPut(s, day, k) ==
    /\ \A r \in Slots : r # s => slots'[r] = slots[r]
    /\ slots'[s].day = day
    /\ slots'[s].position = k

DayPut(d, k) ==
    /\ \A e \in Days : e # d => days'[e] = days[e]
    /\ days'[d].position = k

(* The side of every row of a bucket on which a key is.                    *)
SlotSides(day, anchor, k) ==
    /\ anchor # Nil => Less(slots[anchor].position, k)
    /\ \A r \in InBucket(day) :
          IF anchor = Nil \/ SlotBefore(anchor, r)
          THEN Less(k, slots[r].position)
          ELSE Less(slots[r].position, k)

DaySides(anchor, k) ==
    /\ anchor # Nil => Less(days[anchor].position, k)
    /\ \A e \in LiveDays :
          IF anchor = Nil \/ DayBefore(anchor, e)
          THEN Less(k, days[e].position)
          ELSE Less(days[e].position, k)

-----------------------------------------------------------------------------
(***************************************************************************)
(* A key strictly below the first of two rows in the query's order is      *)
(* strictly below the second (ORDER BY position, id).                      *)
(***************************************************************************)
LEMMA BelowFirst ==
    ASSUME NEW k \in Keys, NEW p \in Keys, NEW i \in Int, NEW q \in Keys, NEW j \in Int,
           Less(k, p), RowBefore(p, i, q, j)
    PROVE  Less(k, q)
BY KeysOrdered DEF RowBefore

(***************************************************************************)
(* A key strictly above a row is strictly above every row that does not    *)
(* sort after it.                                                          *)
(***************************************************************************)
LEMMA AboveRest ==
    ASSUME NEW k \in Keys, NEW p \in Keys, NEW i \in Int, NEW q \in Keys, NEW j \in Int,
           Less(p, k), ~RowBefore(p, i, q, j)
    PROVE  Less(q, k)
<1>1. p = q \/ Less(q, p)
  BY KeysOrdered DEF RowBefore
<1>2. QED
  BY <1>1, KeysOrdered

(***************************************************************************)
(* The bounds that SlotNeighbourPositions reads are neighbours             *)
(* (repository/slot.go): a key between them is below every slot of the     *)
(* bucket that sorts after the anchor and above every other.               *)
(***************************************************************************)
LEMMA SlotGap ==
    ASSUME TypeOK,
           NEW day \in Buckets, NEW anchor \in Slots \cup {Nil},
           anchor # Nil => SlotLive(anchor),
           NEW b \in SlotNeighbourPositions(day, anchor),
           Storable(KeyBetween(b.prev, b.next))
    PROVE  KeyBetween(b.prev, b.next) \in Keys /\ SlotSides(day, anchor, KeyBetween(b.prev, b.next))
<1> DEFINE k == KeyBetween(b.prev, b.next)
           after == {r \in InBucket(day) : anchor = Nil \/ SlotBefore(anchor, r)}
<1>1. \A r \in Slots : SlotLive(r) => slots[r].position \in Keys
  BY DEF TypeOK, SlotLive
<1>2. \A r \in InBucket(day) : r \in Slots /\ r \in Int /\ slots[r].position \in Keys
  BY <1>1, PositionsAssumption DEF InBucket
<1>3. /\ b.next \in FirstSlotOf(after)
      /\ b.prev = IF anchor = Nil THEN Empty ELSE slots[anchor].position
  <2>1. CASE anchor = Nil
    <3>1. after = InBucket(day)
      BY <2>1
    <3>2. PICK n \in FirstSlotOf(InBucket(day)) : b = [prev |-> Empty, next |-> n]
      BY <2>1 DEF SlotNeighbourPositions, FirstSlotPosition
    <3> HIDE DEF after
    <3>3. QED
      BY <2>1, <3>1, <3>2
  <2>2. CASE anchor # Nil
    <3>1. after = {s \in InBucket(day) : SlotBefore(anchor, s)}
      BY <2>2
    <3>2. PICK n \in FirstSlotOf({s \in InBucket(day) : SlotBefore(anchor, s)}) :
             b = [prev |-> slots[anchor].position, next |-> n]
      BY <2>2 DEF SlotNeighbourPositions, SlotPositionAfter
    <3> HIDE DEF after
    <3>3. QED
      BY <2>2, <3>1, <3>2
  <2>3. QED
    BY <2>1, <2>2
<1>4. b.prev \in Keys \cup {Empty}
  BY <1>1, <1>3
<1>5. b.next \in Keys \cup {Empty}
  BY <1>2, <1>3 DEF FirstSlotOf
<1>6. k \in Keys /\ (b.prev \in Keys => Less(b.prev, k)) /\ (b.next \in Keys => Less(k, b.next))
  BY <1>4, <1>5, KeyStored
<1> HIDE DEF k
<1>7. \A r \in after : Less(k, slots[r].position)
  <2>1. SUFFICES ASSUME NEW r \in after
                 PROVE  Less(k, slots[r].position)
    OBVIOUS
  <2>2. PICK t \in after : /\ b.next = slots[t].position
                           /\ \A x \in after \ {t} : SlotBefore(t, x)
    BY <1>3 DEF FirstSlotOf
  <2>3. b.next \in Keys
    BY <1>2, <2>2
  <2>4. Less(k, b.next)
    BY <1>6, <2>3
  <2>5. CASE r = t
    BY <2>2, <2>4, <2>5
  <2>6. CASE r # t
    <3>1. RowBefore(slots[t].position, t, slots[r].position, r)
      BY <2>2, <2>6 DEF SlotBefore
    <3>2. QED
      BY <1>2, <1>6, <2>2, <2>4, <3>1, BelowFirst
  <2>7. QED
    BY <2>5, <2>6
<1>8. ASSUME anchor # Nil
      PROVE  Less(slots[anchor].position, k)
  <2>1. b.prev \in Keys /\ b.prev = slots[anchor].position
    BY <1>1, <1>3, <1>8
  <2>2. QED
    BY <1>6, <2>1
<1>9. ASSUME NEW r \in InBucket(day), anchor # Nil, ~SlotBefore(anchor, r)
      PROVE  Less(slots[r].position, k)
  <2>1. anchor \in Int /\ slots[anchor].position \in Keys
    BY <1>1, <1>9, PositionsAssumption
  <2>2. ~RowBefore(slots[anchor].position, anchor, slots[r].position, r)
    BY <1>9 DEF SlotBefore
  <2>3. QED
    BY <1>2, <1>8, <1>9, <1>6, <2>1, <2>2, AboveRest
<1>10. QED
  BY <1>7, <1>8, <1>9, <1>6 DEF SlotSides, k

(***************************************************************************)
(* The same for the days of the trip (repository/day.go).                  *)
(***************************************************************************)
LEMMA DayGap ==
    ASSUME TypeOK,
           NEW anchor \in Days \cup {Nil},
           anchor # Nil => DayLive(anchor),
           NEW b \in DayNeighbourPositions(anchor),
           Storable(KeyBetween(b.prev, b.next))
    PROVE  KeyBetween(b.prev, b.next) \in Keys /\ DaySides(anchor, KeyBetween(b.prev, b.next))
<1> DEFINE k == KeyBetween(b.prev, b.next)
           after == {e \in LiveDays : anchor = Nil \/ DayBefore(anchor, e)}
<1>1. \A e \in Days : DayLive(e) => days[e].position \in Keys
  BY DEF TypeOK, DayLive
<1>2. \A e \in LiveDays : e \in Days /\ e \in Int /\ days[e].position \in Keys
  BY <1>1, PositionsAssumption DEF LiveDays
<1>3. /\ b.next \in FirstDayOf(after)
      /\ b.prev = IF anchor = Nil THEN Empty ELSE days[anchor].position
  <2>1. CASE anchor = Nil
    <3>1. after = LiveDays
      BY <2>1
    <3>2. PICK n \in FirstDayOf(LiveDays) : b = [prev |-> Empty, next |-> n]
      BY <2>1 DEF DayNeighbourPositions, FirstDayPosition
    <3> HIDE DEF after
    <3>3. QED
      BY <2>1, <3>1, <3>2
  <2>2. CASE anchor # Nil
    <3>1. after = {d \in LiveDays : DayBefore(anchor, d)}
      BY <2>2
    <3>2. PICK n \in FirstDayOf({d \in LiveDays : DayBefore(anchor, d)}) :
             b = [prev |-> days[anchor].position, next |-> n]
      BY <2>2 DEF DayNeighbourPositions, DayPositionAfter
    <3> HIDE DEF after
    <3>3. QED
      BY <2>2, <3>1, <3>2
  <2>3. QED
    BY <2>1, <2>2
<1>4. b.prev \in Keys \cup {Empty}
  BY <1>1, <1>3
<1>5. b.next \in Keys \cup {Empty}
  BY <1>2, <1>3 DEF FirstDayOf
<1>6. k \in Keys /\ (b.prev \in Keys => Less(b.prev, k)) /\ (b.next \in Keys => Less(k, b.next))
  BY <1>4, <1>5, KeyStored
<1> HIDE DEF k
<1>7. \A e \in after : Less(k, days[e].position)
  <2>1. SUFFICES ASSUME NEW e \in after
                 PROVE  Less(k, days[e].position)
    OBVIOUS
  <2>2. PICK t \in after : /\ b.next = days[t].position
                           /\ \A x \in after \ {t} : DayBefore(t, x)
    BY <1>3 DEF FirstDayOf
  <2>3. b.next \in Keys
    BY <1>2, <2>2
  <2>4. Less(k, b.next)
    BY <1>6, <2>3
  <2>5. CASE e = t
    BY <2>2, <2>4, <2>5
  <2>6. CASE e # t
    <3>1. RowBefore(days[t].position, t, days[e].position, e)
      BY <2>2, <2>6 DEF DayBefore
    <3>2. QED
      BY <1>2, <1>6, <2>2, <2>4, <3>1, BelowFirst
  <2>7. QED
    BY <2>5, <2>6
<1>8. ASSUME anchor # Nil
      PROVE  Less(days[anchor].position, k)
  <2>1. b.prev \in Keys /\ b.prev = days[anchor].position
    BY <1>1, <1>3, <1>8
  <2>2. QED
    BY <1>6, <2>1
<1>9. ASSUME NEW e \in LiveDays, anchor # Nil, ~DayBefore(anchor, e)
      PROVE  Less(days[e].position, k)
  <2>1. anchor \in Int /\ days[anchor].position \in Keys
    BY <1>1, <1>9, PositionsAssumption
  <2>2. ~RowBefore(days[anchor].position, anchor, days[e].position, e)
    BY <1>9 DEF DayBefore
  <2>3. QED
    BY <1>2, <1>8, <1>9, <1>6, <2>1, <2>2, AboveRest
<1>10. QED
  BY <1>7, <1>8, <1>9, <1>6 DEF DaySides, k

-----------------------------------------------------------------------------
(***************************************************************************)
(* A slot put where SlotGap says keeps the buckets unambiguous and stands  *)
(* where its anchor asks for it (service/slot.go, Create and Move).        *)
(***************************************************************************)
LEMMA SlotPutKeeps ==
    ASSUME TypeOK, OrderUnambiguous,
           NEW s \in Slots, NEW day \in Buckets, NEW anchor \in Slots \cup {Nil},
           NEW k \in Keys,
           SlotSides(day, anchor, k), SlotPut(s, day, k), UNCHANGED days
    PROVE  OrderUnambiguous' /\ SlotPlaced(s, anchor)'
<1>1. \A r \in InBucket(day) : slots[r].position \in Keys /\ slots[r].position # k
  <2>1. SUFFICES ASSUME NEW r \in InBucket(day)
                 PROVE  slots[r].position \in Keys /\ slots[r].position # k
    OBVIOUS
  <2>2. slots[r].position \in Keys
    BY DEF TypeOK, InBucket, SlotLive
  <2>3. Less(k, slots[r].position) \/ Less(slots[r].position, k)
    BY DEF SlotSides
  <2>4. QED
    BY <2>2, <2>3, KeysOrdered
<1>2. \A r \in Slots : (SlotLive(r)' /\ r # s /\ slots'[r].day = day)
                          => r \in InBucket(day) /\ slots'[r] = slots[r]
  BY DEF SlotPut, SlotLive, InBucket
<1>3. OrderUnambiguous'
  <2>1. ASSUME NEW x \in Slots, NEW y \in Slots, SlotLive(x)', SlotLive(y)', x # y,
               slots'[x].day = slots'[y].day
        PROVE  slots'[x].position # slots'[y].position
    <3>1. CASE x = s
      BY <1>1, <1>2, <2>1, <3>1 DEF SlotPut
    <3>2. CASE y = s
      BY <1>1, <1>2, <2>1, <3>2 DEF SlotPut
    <3>3. CASE x # s /\ y # s
      BY <2>1, <3>3 DEF SlotPut, SlotLive, OrderUnambiguous
    <3>4. QED
      BY <3>1, <3>2, <3>3
  <2>2. QED
    BY <2>1 DEF OrderUnambiguous, DayLive
<1>4. SlotPlaced(s, anchor)'
  <2>1. \A r \in InBucket(day)' \ {s} : r \in InBucket(day) /\ slots'[r] = slots[r]
    BY <1>2 DEF InBucket
  <2>2. slots'[s].position = k /\ slots'[s].day = day
    BY DEF SlotPut
  <2>3. CASE anchor = Nil
    <3>1. \A r \in InBucket(day)' \ {s} : Less(k, slots'[r].position)
      BY <2>1, <2>3 DEF SlotSides
    <3>2. QED
      BY <2>2, <2>3, <3>1 DEF SlotPlaced, SlotBefore, RowBefore
  <2>4. CASE anchor # Nil /\ anchor # s
    <3>1. slots'[anchor] = slots[anchor]
      BY <2>4 DEF SlotPut
    <3>2. SlotBefore(anchor, s)'
      BY <2>2, <2>4, <3>1 DEF SlotSides, SlotBefore, RowBefore
    <3>3. ASSUME NEW r \in InBucket(day)' \ {s, anchor},
                 SlotBefore(anchor, r)', SlotBefore(r, s)'
          PROVE  FALSE
      <4>1. r \in InBucket(day) /\ slots'[r] = slots[r]
        BY <2>1
      <4>2. SlotBefore(anchor, r)
        BY <3>1, <3>3, <4>1 DEF SlotBefore
      <4>3. Less(k, slots[r].position)
        BY <4>1, <4>2 DEF SlotSides
      <4>4. Less(slots[r].position, k)
        BY <1>1, <2>2, <3>3, <4>1 DEF SlotBefore, RowBefore
      <4>5. QED
        BY <1>1, <4>1, <4>3, <4>4, KeysOrdered
    <3>4. QED
      BY <2>2, <2>4, <3>2, <3>3 DEF SlotPlaced
  <2>5. CASE anchor # Nil /\ anchor = s
    BY <2>5 DEF SlotPlaced
  <2>6. QED
    BY <2>3, <2>4, <2>5
<1>5. QED
  BY <1>3, <1>4

(***************************************************************************)
(* The same for a day (service/day.go, Create and Move).                   *)
(***************************************************************************)
LEMMA DayPutKeeps ==
    ASSUME TypeOK, OrderUnambiguous,
           NEW d \in Days, NEW anchor \in Days \cup {Nil}, NEW k \in Keys,
           DaySides(anchor, k), DayPut(d, k), UNCHANGED slots
    PROVE  OrderUnambiguous' /\ DayPlaced(d, anchor)'
<1>1. \A e \in LiveDays : days[e].position \in Keys /\ days[e].position # k
  <2>1. SUFFICES ASSUME NEW e \in LiveDays
                 PROVE  days[e].position \in Keys /\ days[e].position # k
    OBVIOUS
  <2>2. days[e].position \in Keys
    BY DEF TypeOK, LiveDays, DayLive
  <2>3. Less(k, days[e].position) \/ Less(days[e].position, k)
    BY DEF DaySides
  <2>4. QED
    BY <2>2, <2>3, KeysOrdered
<1>2. \A e \in Days : (DayLive(e)' /\ e # d) => e \in LiveDays /\ days'[e] = days[e]
  BY DEF DayPut, DayLive, LiveDays
<1>3. OrderUnambiguous'
  <2>1. ASSUME NEW x \in Days, NEW y \in Days, DayLive(x)', DayLive(y)', x # y
        PROVE  days'[x].position # days'[y].position
    <3>1. CASE x = d
      BY <1>1, <1>2, <2>1, <3>1 DEF DayPut
    <3>2. CASE y = d
      BY <1>1, <1>2, <2>1, <3>2 DEF DayPut
    <3>3. CASE x # d /\ y # d
      BY <2>1, <3>3 DEF DayPut, DayLive, OrderUnambiguous
    <3>4. QED
      BY <3>1, <3>2, <3>3
  <2>2. QED
    BY <2>1 DEF OrderUnambiguous, SlotLive
<1>4. DayPlaced(d, anchor)'
  <2>1. \A e \in LiveDays' \ {d} : e \in LiveDays /\ days'[e] = days[e]
    BY <1>2 DEF LiveDays
  <2>2. days'[d].position = k
    BY DEF DayPut
  <2>3. CASE anchor = Nil
    <3>1. \A e \in LiveDays' \ {d} : Less(k, days'[e].position)
      BY <2>1, <2>3 DEF DaySides
    <3>2. QED
      BY <2>2, <2>3, <3>1 DEF DayPlaced, DayBefore, RowBefore
  <2>4. CASE anchor # Nil /\ anchor # d
    <3>1. days'[anchor] = days[anchor]
      BY <2>4 DEF DayPut
    <3>2. DayBefore(anchor, d)'
      BY <2>2, <2>4, <3>1 DEF DaySides, DayBefore, RowBefore
    <3>3. ASSUME NEW e \in LiveDays' \ {d, anchor},
                 DayBefore(anchor, e)', DayBefore(e, d)'
          PROVE  FALSE
      <4>1. e \in LiveDays /\ days'[e] = days[e]
        BY <2>1
      <4>2. DayBefore(anchor, e)
        BY <3>1, <3>3, <4>1 DEF DayBefore
      <4>3. Less(k, days[e].position)
        BY <4>1, <4>2 DEF DaySides
      <4>4. Less(days[e].position, k)
        BY <1>1, <2>2, <3>3, <4>1 DEF DayBefore, RowBefore
      <4>5. QED
        BY <1>1, <4>1, <4>3, <4>4, KeysOrdered
    <3>4. QED
      BY <2>4, <3>2, <3>3 DEF DayPlaced
  <2>5. CASE anchor # Nil /\ anchor = d
    BY <2>5 DEF DayPlaced
  <2>6. QED
    BY <2>3, <2>4, <2>5
<1>5. QED
  BY <1>3, <1>4

-----------------------------------------------------------------------------
(* What the three properties need of each other.                           *)
IInv == TypeOK /\ OrderUnambiguous /\ PlacedAfterAnchor

(***************************************************************************)
(* Creating a slot (service/slot.go, Create) preserves the invariant.      *)
(***************************************************************************)
LEMMA CreateSlotKeeps ==
    ASSUME IInv, NEW s \in Slots, NEW day \in Buckets, NEW anchor \in Slots \cup {Nil},
           CreateSlot(s, day, anchor)
    PROVE  IInv'
<1> USE DEF IInv
<1>1. PICK b \in SlotNeighbourPositions(day, anchor) :
         /\ Storable(KeyBetween(b.prev, b.next))
         /\ slots' = [slots EXCEPT ![s] =
               [day |-> day, position |-> KeyBetween(b.prev, b.next), live |-> TRUE]]
  BY DEF CreateSlot
<1>2. KeyBetween(b.prev, b.next) \in Keys /\ SlotSides(day, anchor, KeyBetween(b.prev, b.next))
  BY <1>1, SlotGap DEF CreateSlot
<1>3. SlotPut(s, day, KeyBetween(b.prev, b.next))
  BY <1>1 DEF SlotPut, TypeOK
<1>4. OrderUnambiguous' /\ SlotPlaced(s, anchor)'
  BY <1>1, <1>2, <1>3, SlotPutKeeps DEF CreateSlot
<1>5. placed' = [of |-> "slot", id |-> s, anchor |-> anchor]
  BY DEF CreateSlot
<1>6. PlacedAfterAnchor'
  BY <1>4, <1>5 DEF PlacedAfterAnchor
<1>7. TypeOK'
  <2>1. slots' \in [Slots -> [day : Buckets, position : Keys, live : BOOLEAN] \cup {Nil}]
    BY <1>1, <1>2 DEF TypeOK
  <2>2. writes' \in 0..MaxWrites
    BY PositionsAssumption DEF TypeOK, CreateSlot, Write
  <2>3. QED
    BY <1>5, <2>1, <2>2 DEF TypeOK, CreateSlot
<1>8. QED
  BY <1>4, <1>6, <1>7

(***************************************************************************)
(* Moving a slot (service/slot.go, Move), also out of its bucket or after  *)
(* itself, preserves the invariant.                                        *)
(***************************************************************************)
LEMMA MoveSlotKeeps ==
    ASSUME IInv, NEW s \in Slots, NEW day \in Buckets, NEW anchor \in Slots \cup {Nil},
           MoveSlot(s, day, anchor)
    PROVE  IInv'
<1> USE DEF IInv
<1>1. PICK b \in SlotNeighbourPositions(day, anchor) :
         /\ Storable(KeyBetween(b.prev, b.next))
         /\ slots' = [slots EXCEPT ![s].day = day,
                                  ![s].position = KeyBetween(b.prev, b.next)]
  BY DEF MoveSlot
<1>2. KeyBetween(b.prev, b.next) \in Keys /\ SlotSides(day, anchor, KeyBetween(b.prev, b.next))
  BY <1>1, SlotGap DEF MoveSlot
<1>3. slots[s] \in [day : Buckets, position : Keys, live : BOOLEAN]
  BY DEF TypeOK, MoveSlot, SlotLive
<1>4. SlotPut(s, day, KeyBetween(b.prev, b.next))
  BY <1>1, <1>3 DEF SlotPut, TypeOK
<1>5. OrderUnambiguous' /\ SlotPlaced(s, anchor)'
  BY <1>1, <1>2, <1>4, SlotPutKeeps DEF MoveSlot
<1>6. placed' = [of |-> "slot", id |-> s, anchor |-> anchor]
  BY DEF MoveSlot
<1>7. PlacedAfterAnchor'
  BY <1>5, <1>6 DEF PlacedAfterAnchor
<1>8. TypeOK'
  <2>1. slots' \in [Slots -> [day : Buckets, position : Keys, live : BOOLEAN] \cup {Nil}]
    BY <1>1, <1>2, <1>3 DEF TypeOK
  <2>2. writes' \in 0..MaxWrites
    BY PositionsAssumption DEF TypeOK, MoveSlot, Write
  <2>3. QED
    BY <1>6, <2>1, <2>2 DEF TypeOK, MoveSlot
<1>9. QED
  BY <1>5, <1>7, <1>8

(***************************************************************************)
(* Deleting a slot or a day (service/slot.go, service/day.go, Delete)      *)
(* preserves the invariant.                                                *)
(***************************************************************************)
LEMMA DeleteKeeps ==
    ASSUME IInv, \/ \E s \in Slots : DeleteSlot(s)
                 \/ \E d \in Days : DeleteDay(d)
    PROVE  IInv'
<1> USE DEF IInv
<1>1. ASSUME NEW s \in Slots, DeleteSlot(s)
      PROVE  IInv'
  <2>1. slots[s] \in [day : Buckets, position : Keys, live : BOOLEAN]
    BY <1>1 DEF TypeOK, DeleteSlot, SlotLive
  <2>2. slots' \in [Slots -> [day : Buckets, position : Keys, live : BOOLEAN] \cup {Nil}]
    BY <1>1, <2>1 DEF TypeOK, DeleteSlot
  <2>3. writes' \in 0..MaxWrites
    BY <1>1, PositionsAssumption DEF TypeOK, DeleteSlot, Write
  <2>4. TypeOK'
    BY <1>1, <2>2, <2>3 DEF TypeOK, DeleteSlot
  <2>5. \A r \in Slots : SlotLive(r)' => SlotLive(r) /\ slots'[r] = slots[r]
    BY <1>1, <2>1 DEF TypeOK, DeleteSlot, SlotLive
  <2>6. OrderUnambiguous'
    BY <1>1, <2>5 DEF DeleteSlot, OrderUnambiguous, DayLive
  <2>7. PlacedAfterAnchor'
    BY <1>1 DEF DeleteSlot, PlacedAfterAnchor
  <2>8. QED
    BY <2>4, <2>6, <2>7
<1>2. ASSUME NEW d \in Days, DeleteDay(d)
      PROVE  IInv'
  <2>1. days[d] \in [position : Keys, live : BOOLEAN]
    BY <1>2 DEF TypeOK, DeleteDay, DayLive
  <2>2. days' \in [Days -> [position : Keys, live : BOOLEAN] \cup {Nil}]
    BY <1>2, <2>1 DEF TypeOK, DeleteDay
  <2>3. writes' \in 0..MaxWrites
    BY <1>2, PositionsAssumption DEF TypeOK, DeleteDay, Write
  <2>4. TypeOK'
    BY <1>2, <2>2, <2>3 DEF TypeOK, DeleteDay
  <2>5. \A e \in Days : DayLive(e)' => DayLive(e) /\ days'[e] = days[e]
    BY <1>2, <2>1 DEF TypeOK, DeleteDay, DayLive
  <2>6. OrderUnambiguous'
    BY <1>2, <2>5 DEF DeleteDay, OrderUnambiguous, SlotLive
  <2>7. PlacedAfterAnchor'
    BY <1>2 DEF DeleteDay, PlacedAfterAnchor
  <2>8. QED
    BY <2>4, <2>6, <2>7
<1>3. QED
  BY <1>1, <1>2

(***************************************************************************)
(* Creating or moving a day (service/day.go) preserves the invariant.      *)
(***************************************************************************)
LEMMA PlaceDayKeeps ==
    ASSUME IInv, NEW d \in Days, NEW anchor \in Days \cup {Nil},
           CreateDay(d, anchor) \/ MoveDay(d, anchor)
    PROVE  IInv'
<1> USE DEF IInv
<1>1. /\ anchor # Nil => DayLive(anchor)
      /\ placed' = [of |-> "day", id |-> d, anchor |-> anchor]
      /\ UNCHANGED slots
      /\ Write
  BY DEF CreateDay, MoveDay
<1>2. PICK b \in DayNeighbourPositions(anchor) :
         /\ Storable(KeyBetween(b.prev, b.next)) /\ KeyBetween(b.prev, b.next) \in Keys
         /\ DayPut(d, KeyBetween(b.prev, b.next))
         /\ days' \in [Days -> [position : Keys, live : BOOLEAN] \cup {Nil}]
  <2>1. \A b \in DayNeighbourPositions(anchor) :
           Storable(KeyBetween(b.prev, b.next)) => KeyBetween(b.prev, b.next) \in Keys
    BY <1>1, DayGap
  <2>2. CASE CreateDay(d, anchor)
    BY <2>1, <2>2 DEF CreateDay, DayPut, TypeOK
  <2>3. CASE MoveDay(d, anchor)
    <3>1. days[d] \in [position : Keys, live : BOOLEAN]
      BY <2>3 DEF TypeOK, MoveDay, DayLive
    <3>2. QED
      BY <2>1, <2>3, <3>1 DEF MoveDay, DayPut, TypeOK
  <2>4. QED
    BY <2>2, <2>3
<1>3. DaySides(anchor, KeyBetween(b.prev, b.next))
  BY <1>1, <1>2, DayGap
<1>4. OrderUnambiguous' /\ DayPlaced(d, anchor)'
  BY <1>1, <1>2, <1>3, DayPutKeeps
<1>5. PlacedAfterAnchor'
  BY <1>1, <1>4 DEF PlacedAfterAnchor
<1>6. writes' \in 0..MaxWrites
  BY <1>1, PositionsAssumption DEF TypeOK, Write
<1>7. TypeOK'
  BY <1>1, <1>2, <1>6 DEF TypeOK
<1>8. QED
  BY <1>4, <1>5, <1>7

(***************************************************************************)
(* The three properties hold together in every state of every behaviour.   *)
(***************************************************************************)
LEMMA Invariance == Spec => []IInv
<1>1. Init => IInv
  BY PositionsAssumption DEF Init, IInv, TypeOK, OrderUnambiguous, PlacedAfterAnchor, SlotLive, DayLive
<1>2. IInv /\ [Next]_vars => IInv'
  <2>1. SUFFICES ASSUME IInv, [Next]_vars
                 PROVE  IInv'
    OBVIOUS
  <2>2. CASE UNCHANGED vars
    BY <2>1, <2>2 DEF vars, IInv, TypeOK, OrderUnambiguous, PlacedAfterAnchor, SlotPlaced,
                      DayPlaced, SlotLive, DayLive, InBucket, LiveDays, SlotBefore, DayBefore
  <2>3. CASE Next
    BY <2>1, <2>3, CreateSlotKeeps, MoveSlotKeeps, DeleteKeeps, PlaceDayKeeps DEF Next
  <2>4. QED
    BY <2>1, <2>2, <2>3
<1>3. QED
  BY <1>1, <1>2, PTL DEF Spec

(***************************************************************************)
(* Rows keep their shape and their keys stay valid (domain.Slot.Validate,  *)
(* the length constraints), for any number of rows and calls.              *)
(***************************************************************************)
THEOREM TypeCorrect == Spec => []TypeOK
<1>1. IInv => TypeOK
  BY DEF IInv
<1>2. QED
  BY <1>1, Invariance, PTL

(***************************************************************************)
(* No two live slots of one bucket and no two live days ever share a       *)
(* position (repository/slot.go, repository/day.go).                       *)
(***************************************************************************)
THEOREM PositionsDistinct == Spec => []OrderUnambiguous
<1>1. IInv => OrderUnambiguous
  BY DEF IInv
<1>2. QED
  BY <1>1, Invariance, PTL

(***************************************************************************)
(* What is placed stands first, or right after its anchor                  *)
(* (service/slot.go, service/day.go).                                      *)
(***************************************************************************)
THEOREM PlacementCorrect == Spec => []PlacedAfterAnchor
<1>1. IInv => PlacedAfterAnchor
  BY DEF IInv
<1>2. QED
  BY <1>1, Invariance, PTL

-----------------------------------------------------------------------------
(* The gaps of a list                                                      *)

(***************************************************************************)
(* A query ordered by a strict total order and limited to one row has an   *)
(* answer when it has rows: of finitely many, one has the fewest before it.*)
(***************************************************************************)
LEMMA HasFirst ==
  ASSUME NEW S, IsFiniteSet(S), S # {}, NEW R,
         \A x, y \in S : x # y => <<x, y>> \in R \/ <<y, x>> \in R,
         \A x \in S : <<x, x>> \notin R,
         \A x, y, z \in S : <<x, y>> \in R /\ <<y, z>> \in R => <<x, z>> \in R
  PROVE  \E t \in S : \A x \in S \ {t} : <<t, x>> \in R
<1> DEFINE Below(s) == {x \in S : <<x, s>> \in R}
           T == {Cardinality(Below(s)) : s \in S}
<1>1. \A s \in S : IsFiniteSet(Below(s)) /\ Cardinality(Below(s)) \in Nat
  BY FS_Subset, FS_CardinalityType
<1>2. T \subseteq Nat /\ T # {}
  <2> HIDE DEF Below
  <2> QED
    BY <1>1
<1>3. PICK n \in T : \A m \in T : n <= m
  BY <1>2, Least
<1>4. PICK t \in S : n = Cardinality(Below(t))
  OBVIOUS
<1>5. ASSUME NEW x \in S \ {t}, <<t, x>> \notin R PROVE FALSE
  <2>1. <<x, t>> \in R
    BY <1>5
  <2>2. Below(x) \in SUBSET Below(t) /\ x \in Below(t) /\ x \notin Below(x)
    BY <2>1
  <2>3. Cardinality(Below(x)) \in T /\ Cardinality(Below(x)) \in Nat /\ Cardinality(Below(t)) \in Nat
    <3> HIDE DEF Below
    <3> QED
      BY <1>1
  <2> HIDE DEF Below, T
  <2>4. /\ Cardinality(Below(x)) <= Cardinality(Below(t))
        /\ Cardinality(Below(t)) = Cardinality(Below(x)) => Below(t) = Below(x)
    BY <1>1, <2>2, FS_Subset
  <2>5. Cardinality(Below(t)) <= Cardinality(Below(x))
    BY <1>3, <1>4, <2>3
  <2> QED
    BY <2>2, <2>3, <2>4, <2>5
<1> QED
  BY <1>5

(* The order of rows is strict and total.                                  *)
LEMMA RowsOrdered ==
  ASSUME NEW p \in Keys, NEW i \in Int, NEW q \in Keys, NEW j \in Int
  PROVE  /\ i # j => RowBefore(p, i, q, j) \/ RowBefore(q, j, p, i)
         /\ ~RowBefore(p, i, p, i)
         /\ \A r \in Keys, l \in Int :
               RowBefore(p, i, q, j) /\ RowBefore(q, j, r, l) => RowBefore(p, i, r, l)
<1>1. p = q \/ Less(p, q) \/ Less(q, p)
  BY KeysOrdered
<1>2. i # j => RowBefore(p, i, q, j) \/ RowBefore(q, j, p, i)
  BY <1>1 DEF RowBefore
<1>3. ~RowBefore(p, i, p, i)
  BY KeysOrdered DEF RowBefore
<1>4. ASSUME NEW r \in Keys, NEW l \in Int, RowBefore(p, i, q, j), RowBefore(q, j, r, l)
      PROVE  RowBefore(p, i, r, l)
  BY <1>4, KeysOrdered DEF RowBefore
<1> QED
  BY <1>2, <1>3, <1>4

(* ORDER BY position, id LIMIT 1 has an answer among slots.                *)
LEMMA FirstSlotExists ==
  ASSUME TypeOK, NEW S, S \subseteq {s \in Slots : SlotLive(s)}
  PROVE  \E n : n \in FirstSlotOf(S)
<1>1. CASE S = {}
  BY <1>1 DEF FirstSlotOf
<1>2. CASE S # {}
  <2> DEFINE R == {e \in S \X S : SlotBefore(e[1], e[2])}
  <2>1. \A s \in S : s \in Slots /\ s \in Int /\ slots[s].position \in Keys
    BY PositionsAssumption DEF TypeOK, SlotLive
  <2>2. IsFiniteSet(S)
    <3>1. S \in SUBSET Slots
      OBVIOUS
    <3> QED
      BY <3>1, PositionsAssumption, FS_Subset
  <2>3. \A x, y \in S : <<x, y>> \in R <=> SlotBefore(x, y)
    OBVIOUS
  <2> HIDE DEF R
  <2>4. \A x, y \in S : x # y => SlotBefore(x, y) \/ SlotBefore(y, x)
    BY <2>1, RowsOrdered DEF SlotBefore
  <2>5. \A x \in S : ~SlotBefore(x, x)
    BY <2>1, RowsOrdered DEF SlotBefore
  <2>6. \A x, y, z \in S : SlotBefore(x, y) /\ SlotBefore(y, z) => SlotBefore(x, z)
    BY <2>1, RowsOrdered DEF SlotBefore
  <2>7. \E t \in S : \A x \in S \ {t} : <<t, x>> \in R
    <3>1. /\ \A x, y \in S : x # y => <<x, y>> \in R \/ <<y, x>> \in R
          /\ \A x \in S : <<x, x>> \notin R
          /\ \A x, y, z \in S : <<x, y>> \in R /\ <<y, z>> \in R => <<x, z>> \in R
      BY <2>3, <2>4, <2>5, <2>6
    <3> QED
      BY <1>2, <2>2, <3>1, HasFirst
  <2>8. PICK t \in S : \A x \in S \ {t} : SlotBefore(t, x)
    BY <2>3, <2>7
  <2>9. slots[t].position \in FirstSlotOf(S)
    BY <1>2, <2>8 DEF FirstSlotOf
  <2> QED
    BY <2>9
<1> QED
  BY <1>1, <1>2

(* ORDER BY position, id LIMIT 1 has an answer among days.                 *)
LEMMA FirstDayExists ==
  ASSUME TypeOK, NEW S, S \subseteq LiveDays
  PROVE  \E n : n \in FirstDayOf(S)
<1>1. CASE S = {}
  BY <1>1 DEF FirstDayOf
<1>2. CASE S # {}
  <2> DEFINE R == {e \in S \X S : DayBefore(e[1], e[2])}
  <2>1. \A d \in S : d \in Days /\ d \in Int /\ days[d].position \in Keys
    BY PositionsAssumption DEF TypeOK, DayLive, LiveDays
  <2>2. IsFiniteSet(S)
    <3>1. S \in SUBSET Days
      BY <2>1
    <3> QED
      BY <3>1, PositionsAssumption, FS_Subset
  <2>3. \A x, y \in S : <<x, y>> \in R <=> DayBefore(x, y)
    OBVIOUS
  <2> HIDE DEF R
  <2>4. \A x, y \in S : x # y => DayBefore(x, y) \/ DayBefore(y, x)
    BY <2>1, RowsOrdered DEF DayBefore
  <2>5. \A x \in S : ~DayBefore(x, x)
    BY <2>1, RowsOrdered DEF DayBefore
  <2>6. \A x, y, z \in S : DayBefore(x, y) /\ DayBefore(y, z) => DayBefore(x, z)
    BY <2>1, RowsOrdered DEF DayBefore
  <2>7. \E t \in S : \A x \in S \ {t} : <<t, x>> \in R
    <3>1. /\ \A x, y \in S : x # y => <<x, y>> \in R \/ <<y, x>> \in R
          /\ \A x \in S : <<x, x>> \notin R
          /\ \A x, y, z \in S : <<x, y>> \in R /\ <<y, z>> \in R => <<x, z>> \in R
      BY <2>3, <2>4, <2>5, <2>6
    <3> QED
      BY <1>2, <2>2, <3>1, HasFirst
  <2>8. PICK t \in S : \A x \in S \ {t} : DayBefore(t, x)
    BY <2>3, <2>7
  <2>9. days[t].position \in FirstDayOf(S)
    BY <1>2, <2>8 DEF FirstDayOf
  <2> QED
    BY <2>9
<1> QED
  BY <1>1, <1>2

(* The bounds of a gap: keys or none, the first below the second.          *)
Bounds(b) ==
    /\ b.prev \in Keys \cup {Empty} /\ b.next \in Keys \cup {Empty}
    /\ b.prev = Empty \/ b.next = Empty \/ Less(b.prev, b.next)

(***************************************************************************)
(* The gaps of a bucket exist and have bounds in order: no two of its rows *)
(* have one position (repository/slot.go, NeighbourPositions).             *)
(***************************************************************************)
LEMMA SlotBounds ==
  ASSUME TypeOK, OrderUnambiguous, NEW day \in Buckets, NEW anchor \in InBucket(day) \cup {Nil}
  PROVE  /\ \E b : b \in SlotNeighbourPositions(day, anchor)
         /\ \A b \in SlotNeighbourPositions(day, anchor) : Bounds(b)
<1>1. \A r \in InBucket(day) :
         /\ r \in Slots /\ r \in Int /\ SlotLive(r) /\ slots[r].day = day
         /\ slots[r].position \in Keys
  BY PositionsAssumption DEF TypeOK, SlotLive, InBucket
<1>2. CASE anchor = Nil
  <2>1. PICK n : n \in FirstSlotOf(InBucket(day))
    BY <1>1, FirstSlotExists
  <2>2. [prev |-> Empty, next |-> n] \in SlotNeighbourPositions(day, anchor)
    BY <1>2, <2>1 DEF SlotNeighbourPositions, FirstSlotPosition
  <2>3. ASSUME NEW b \in SlotNeighbourPositions(day, anchor) PROVE Bounds(b)
    <3>1. PICK m \in FirstSlotOf(InBucket(day)) : b = [prev |-> Empty, next |-> m]
      BY <1>2 DEF SlotNeighbourPositions, FirstSlotPosition
    <3>2. m \in Keys \cup {Empty}
      BY <1>1 DEF FirstSlotOf
    <3> QED
      BY <3>1, <3>2 DEF Bounds
  <2> QED
    BY <2>2, <2>3
<1>3. CASE anchor # Nil
  <2> DEFINE after == {s \in InBucket(day) : SlotBefore(anchor, s)}
             p == slots[anchor].position
  <2>1. anchor \in InBucket(day)
    BY <1>3
  <2>2. PICK n : n \in FirstSlotOf(after)
    BY <1>1, FirstSlotExists
  <2>3. [prev |-> p, next |-> n] \in SlotNeighbourPositions(day, anchor)
    BY <1>3, <2>2 DEF SlotNeighbourPositions, SlotPositionAfter
  <2>4. ASSUME NEW b \in SlotNeighbourPositions(day, anchor) PROVE Bounds(b)
    <3>1. PICK m \in FirstSlotOf(after) : b = [prev |-> p, next |-> m]
      BY <1>3 DEF SlotNeighbourPositions, SlotPositionAfter
    <3>2. m = Empty \/ \E t \in after : m = slots[t].position
      BY DEF FirstSlotOf
    <3>3. \A t \in after : slots[t].position \in Keys /\ Less(p, slots[t].position)
      <4> TAKE t \in after
      <4>1. Less(p, slots[t].position) \/ (p = slots[t].position /\ anchor < t)
        BY DEF SlotBefore, RowBefore
      <4>2. anchor < t => anchor # t
        BY <1>1, <2>1
      <4>3. anchor # t => p # slots[t].position
        BY <1>1, <2>1 DEF OrderUnambiguous
      <4> QED
        BY <1>1, <4>1, <4>2, <4>3
    <3> HIDE DEF after
    <3>4. p \in Keys
      BY <1>1, <2>1
    <3> HIDE DEF p
    <3> QED
      BY <3>1, <3>2, <3>3, <3>4 DEF Bounds
  <2> QED
    BY <2>3, <2>4
<1> QED
  BY <1>2, <1>3

(***************************************************************************)
(* The same for the days of the trip (repository/day.go).                  *)
(***************************************************************************)
LEMMA DayBounds ==
  ASSUME TypeOK, OrderUnambiguous, NEW anchor \in LiveDays \cup {Nil}
  PROVE  /\ \E b : b \in DayNeighbourPositions(anchor)
         /\ \A b \in DayNeighbourPositions(anchor) : Bounds(b)
<1>1. \A e \in LiveDays : e \in Days /\ e \in Int /\ DayLive(e) /\ days[e].position \in Keys
  BY PositionsAssumption DEF TypeOK, DayLive, LiveDays
<1>2. CASE anchor = Nil
  <2>1. PICK n : n \in FirstDayOf(LiveDays)
    BY FirstDayExists
  <2>2. [prev |-> Empty, next |-> n] \in DayNeighbourPositions(anchor)
    BY <1>2, <2>1 DEF DayNeighbourPositions, FirstDayPosition
  <2>3. ASSUME NEW b \in DayNeighbourPositions(anchor) PROVE Bounds(b)
    <3>1. PICK m \in FirstDayOf(LiveDays) : b = [prev |-> Empty, next |-> m]
      BY <1>2 DEF DayNeighbourPositions, FirstDayPosition
    <3>2. m \in Keys \cup {Empty}
      BY <1>1 DEF FirstDayOf
    <3> QED
      BY <3>1, <3>2 DEF Bounds
  <2> QED
    BY <2>2, <2>3
<1>3. CASE anchor # Nil
  <2> DEFINE after == {d \in LiveDays : DayBefore(anchor, d)}
             p == days[anchor].position
  <2>1. anchor \in LiveDays
    BY <1>3
  <2>2. PICK n : n \in FirstDayOf(after)
    BY FirstDayExists
  <2>3. [prev |-> p, next |-> n] \in DayNeighbourPositions(anchor)
    BY <1>3, <2>2 DEF DayNeighbourPositions, DayPositionAfter
  <2>4. ASSUME NEW b \in DayNeighbourPositions(anchor) PROVE Bounds(b)
    <3>1. PICK m \in FirstDayOf(after) : b = [prev |-> p, next |-> m]
      BY <1>3 DEF DayNeighbourPositions, DayPositionAfter
    <3>2. m = Empty \/ \E t \in after : m = days[t].position
      BY DEF FirstDayOf
    <3>3. \A t \in after : days[t].position \in Keys /\ Less(p, days[t].position)
      <4> TAKE t \in after
      <4>1. Less(p, days[t].position) \/ (p = days[t].position /\ anchor < t)
        BY DEF DayBefore, RowBefore
      <4>2. anchor < t => anchor # t
        BY <1>1, <2>1
      <4>3. anchor # t => p # days[t].position
        BY <1>1, <2>1 DEF OrderUnambiguous
      <4> QED
        BY <1>1, <4>1, <4>2, <4>3
    <3> HIDE DEF after
    <3>4. p \in Keys
      BY <1>1, <2>1
    <3> HIDE DEF p
    <3> QED
      BY <3>1, <3>2, <3>3, <3>4 DEF Bounds
  <2> QED
    BY <2>3, <2>4
<1> QED
  BY <1>2, <1>3

(* Such bounds are a gap for KeyBetween, unless one is the reserved bound. *)
LEMMA BoundsGap ==
  ASSUME NEW b, Bounds(b)
  PROVE  /\ b.prev \in Seq(Int) /\ b.next \in Seq(Int)
         /\ SmallestInteger \notin {b.prev, b.next} <=> Gap(b.prev, b.next)
<1>1. Empty \in Seq(Int)
  BY EmptySeq DEF Empty
<1>2. b.prev \in Seq(Int) /\ b.next \in Seq(Int)
  BY <1>1, KeysOrdered DEF Bounds
<1>3. ASSUME SmallestInteger \notin {b.prev, b.next} PROVE Gap(b.prev, b.next)
  <2>1. b.prev = Empty \/ ValidateOrderKey(b.prev)
    BY <1>3, KeysAre DEF Bounds
  <2>2. b.next = Empty \/ ValidateOrderKey(b.next)
    BY <1>3, KeysAre DEF Bounds
  <2> QED
    BY <1>2, <2>1, <2>2 DEF Bounds, Gap, Bound
<1>4. ASSUME Gap(b.prev, b.next) PROVE SmallestInteger \notin {b.prev, b.next}
  BY <1>4, GapNotReserved
<1> QED
  BY <1>2, <1>3, <1>4

(* Such a gap is open.                                                     *)
LEMMA BoundsOpen ==
  ASSUME NEW b, Bounds(b)
  PROVE  Open(b)
<1> SUFFICES ASSUME SmallestInteger \notin {b.prev, b.next} PROVE KeyBetween(b.prev, b.next) # Error
  BY DEF Open
<1>1. Gap(b.prev, b.next) /\ b.prev \in Seq(Int) /\ b.next \in Seq(Int)
  BY BoundsGap
<1> QED
  BY <1>1, KeyBetweenIs DEF Between

(***************************************************************************)
(* The bulk keys for such bounds.                                          *)
(***************************************************************************)
LEMMA BoundsBulk ==
  ASSUME NEW a \in Seq(Int), NEW b \in Seq(Int), SmallestInteger \notin {a, b} <=> Gap(a, b),
         NEW n \in Nat, n # 0
  PROVE  IF Exhausted(a, b, n) THEN NKeysBetween(a, b, n) = Error
         ELSE KeysInside(a, b, n, NKeysBetween(a, b, n))
<1> DEFINE keys == NKeys[<<a, b, n>>]
<1>1. NKeysBetween(a, b, n) = keys
  BY DEF NKeysBetween
<1>2. CASE Gap(a, b)
  <2>1. Bulk(a, b, n)
    BY <1>2, BulkIs
  <2>2. CASE Exhausted(a, b, n)
    BY <1>1, <2>1, <2>2 DEF Bulk
  <2>3. CASE ~Exhausted(a, b, n)
    <3>1. Len(keys) = n /\ Chain(a, b, keys)
      BY <2>1, <2>3 DEF Bulk
    <3> HIDE DEF keys
    <3>2. KeysInside(a, b, n, keys)
      BY <3>1 DEF Chain, KeysInside
    <3> QED
      BY <1>1, <2>3, <3>2
  <2> QED
    BY <2>2, <2>3
<1>3. CASE ~Gap(a, b)
  <2>1. Exhausted(a, b, n)
    BY <1>3 DEF Exhausted
  <2>2. KeyBetween(a, b) = Error
    BY <1>3, KeyBetweenIs
  <2>3. keys = NKeysStep(NKeys, a, b, n)
    BY NKeysDef
  <2>4. keys = Error
    BY <2>2, <2>3 DEF NKeysStep, Error
  <2> QED
    BY <1>1, <2>1, <2>4
<1> QED
  BY <1>2, <1>3

-----------------------------------------------------------------------------
(***************************************************************************)
(* KeyBetween (pkg/fracdex) makes a key strictly inside every interval     *)
(* that is not empty, for every base, every number of heads and keys of    *)
(* every length: valid bounds are never too close.                         *)
(***************************************************************************)
THEOREM KeyBetweenIsStrict ==
  ASSUME NEW a \in Seq(Int), NEW b \in Seq(Int),
         a = Empty \/ ValidateOrderKey(a), b = Empty \/ ValidateOrderKey(b),
         a = Empty \/ b = Empty \/ Less(a, b)
  PROVE  BetweenStrict(a, b)
<1>1. Gap(a, b)
  BY DEF Gap, Bound
<1> QED
  BY <1>1, KeyBetweenIs DEF Between, BetweenStrict

(***************************************************************************)
(* NKeysBetween (pkg/fracdex) makes as many keys as it is asked for,       *)
(* ascending and strictly inside the interval, whatever the number; only   *)
(* below all keys can it come to the reserved bound, and then it fails as  *)
(* a whole.                                                                *)
(***************************************************************************)
THEOREM NKeysBetweenAscend ==
  ASSUME NEW a \in Seq(Int), NEW b \in Seq(Int),
         a = Empty \/ ValidateOrderKey(a), b = Empty \/ ValidateOrderKey(b),
         a = Empty \/ b = Empty \/ Less(a, b), NEW n \in Nat \ {0}
  PROVE  IF Exhausted(a, b, n) THEN NKeysBetween(a, b, n) = Error /\ a = Empty /\ b # Empty
         ELSE KeysInside(a, b, n, NKeysBetween(a, b, n))
<1>1. Gap(a, b)
  BY DEF Gap, Bound
<1>2. SmallestInteger \notin {a, b}
  BY <1>1, GapNotReserved
<1>3. Exhausted(a, b, n) => a = Empty /\ b # Empty
  BY <1>2 DEF Exhausted
<1>4. n \in Nat /\ n # 0
  OBVIOUS
<1> QED
  BY <1>1, <1>2, <1>3, <1>4, BoundsBulk

(***************************************************************************)
(* Every gap of every list stays open: whatever was created, moved and     *)
(* deleted before, there is a key for it (service/slot.go, service/day.go),*)
(* but beside the reserved bound.                                          *)
(***************************************************************************)
THEOREM GapsStayOpen == Spec => []EveryGapOpen
<1>1. IInv => EveryGapOpen
  <2> SUFFICES ASSUME IInv PROVE EveryGapOpen
    OBVIOUS
  <2>1. ASSUME NEW day \in Buckets, NEW anchor \in InBucket(day) \cup {Nil}
        PROVE  \E b \in SlotNeighbourPositions(day, anchor) : Open(b)
    BY SlotBounds, BoundsOpen DEF IInv
  <2>2. ASSUME NEW anchor \in LiveDays \cup {Nil}
        PROVE  \E b \in DayNeighbourPositions(anchor) : Open(b)
    BY DayBounds, BoundsOpen DEF IInv
  <2> QED
    BY <2>1, <2>2 DEF EveryGapOpen
<1> QED
  BY <1>1, Invariance, PTL

(***************************************************************************)
(* The bulk keys for a gap of a bucket are all inside it, or none are made *)
(* (fracdex.NKeysBetween), for any number of them.                         *)
(***************************************************************************)
THEOREM BulkKeysCorrect == Spec => []BulkKeysInside
<1>1. IInv => BulkKeysInside
  <2> SUFFICES ASSUME IInv, NEW day \in Buckets, NEW n \in 1..MaxBulk,
                      NEW anchor \in InBucket(day) \cup {Nil},
                      NEW b \in SlotNeighbourPositions(day, anchor)
               PROVE  IF Exhausted(b.prev, b.next, n) THEN NKeysBetween(b.prev, b.next, n) = Error
                      ELSE KeysInside(b.prev, b.next, n, NKeysBetween(b.prev, b.next, n))
    BY DEF BulkKeysInside
  <2>1. Bounds(b)
    BY SlotBounds DEF IInv
  <2>2. n \in Nat /\ n # 0
    BY PositionsAssumption
  <2> QED
    BY <2>1, <2>2, BoundsGap, BoundsBulk
<1> QED
  BY <1>1, Invariance, PTL
=============================================================================
