------------------------------- MODULE Counting -------------------------------
(***************************************************************************)
(* Facts that the proofs share: about counting finite sets, and about what *)
(* is computed one step at a time.                                         *)
(*                                                                         *)
(* The counting argument is that the elements of a finite set with         *)
(* distinct integer keys are ranked 0, 1, 2, ... without a gap.            *)
(*                                                                         *)
(* Induction is used as a statement about a set: a set of numbers that has *)
(* 0, and the successor of each of its elements up to n, has all numbers   *)
(* up to n.  What a fold over a sequence yields, what lies where in a      *)
(* concatenation, and what stays of a sequence that is filtered follow     *)
(* from it: of each there is a sequence of intermediate results, each made *)
(* from the one before.                                                    *)
(*                                                                         *)
(* Lists whose elements are all different are as long as they have         *)
(* elements, also when they are cut into pieces or put together from them. *)
(***************************************************************************)
EXTENDS Integers, Sequences, FiniteSets, SequencesExt, FiniteSetTheorems, FunctionTheorems,
        SequenceTheorems, TLAPS

\* What happens to every element of a finite set leaves a finite set; when
\* different elements stay different, none is lost.
LEMMA FiniteImage ==
    ASSUME NEW S, IsFiniteSet(S), NEW T, NEW f \in [S -> T]
    PROVE  LET image == {f[x] : x \in S}
           IN  /\ IsFiniteSet(image)
               /\ (\A x, y \in S : f[x] = f[y] => x = y)
                     => Cardinality(image) = Cardinality(S)
<1> DEFINE image == {f[x] : x \in S}
<1>1. f \in [S -> image] /\ \A t \in image : \E x \in S : f[x] = t
  OBVIOUS
<1>2. f \in Surjection(S, image)
  BY <1>1, Fun_IsSurj
<1>3. IsFiniteSet(image)
  BY <1>2, FS_Surjection
<1>4. ASSUME \A x, y \in S : f[x] = f[y] => x = y
      PROVE  Cardinality(image) = Cardinality(S)
  <2>1. f \in Injection(S, image)
    BY <1>1, <1>4, Fun_IsInj
  <2> QED BY <1>2, <2>1, FS_Surjection
<1> QED BY <1>3, <1>4

-----------------------------------------------------------------------------
(* Ranks. *)

\* How many elements of S have a smaller key than x.
Below(S, key, x) == {y \in S : key[y] < key[x]}
Ranking(S, key) == [x \in S |-> Cardinality(Below(S, key, x))]

\* A set with an element removed is smaller, and the part of S below x is part
\* of S without x.
LEMMA RankIsBelowSize ==
    ASSUME NEW S, IsFiniteSet(S), NEW key \in [S -> Int], NEW x \in S
    PROVE  /\ IsFiniteSet(Below(S, key, x))
           /\ Cardinality(Below(S, key, x)) \in 0..(Cardinality(S) - 1)
<1>1. Below(S, key, x) \in SUBSET (S \ {x})
  BY DEF Below
<1>2. IsFiniteSet(S \ {x}) /\ Cardinality(S \ {x}) = Cardinality(S) - 1
  BY FS_RemoveElement
<1>3. IsFiniteSet(Below(S, key, x)) /\ Cardinality(Below(S, key, x)) <= Cardinality(S) - 1
  BY <1>1, <1>2, FS_Subset
<1>4. Cardinality(Below(S, key, x)) \in Nat /\ Cardinality(S) \in Nat
  BY <1>3, FS_CardinalityType
<1> QED BY <1>3, <1>4

\* A smaller key has a smaller rank.
LEMMA RankIsMonotonic ==
    ASSUME NEW S, IsFiniteSet(S), NEW key \in [S -> Int],
           NEW x \in S, NEW y \in S, key[x] < key[y]
    PROVE  Cardinality(Below(S, key, x)) < Cardinality(Below(S, key, y))
<1>1. Below(S, key, x) \in SUBSET (Below(S, key, y) \ {x}) /\ x \in Below(S, key, y)
  BY DEF Below
<1>2. IsFiniteSet(Below(S, key, y)) /\ Cardinality(Below(S, key, y)) \in Nat
  BY RankIsBelowSize, FS_CardinalityType
<1>3. /\ IsFiniteSet(Below(S, key, y) \ {x})
      /\ Cardinality(Below(S, key, y) \ {x}) = Cardinality(Below(S, key, y)) - 1
  BY <1>1, <1>2, FS_RemoveElement
<1>4. /\ IsFiniteSet(Below(S, key, x))
      /\ Cardinality(Below(S, key, x)) <= Cardinality(Below(S, key, y) \ {x})
  BY <1>1, <1>3, FS_Subset
<1>5. Cardinality(Below(S, key, x)) \in Nat
  BY <1>4, FS_CardinalityType
<1> QED BY <1>2, <1>3, <1>4, <1>5

\* With distinct keys the ranks are exactly 0..(Cardinality(S) - 1).
LEMMA RankIsBijection ==
    ASSUME NEW S, IsFiniteSet(S), NEW key \in [S -> Int],
           \A x, y \in S : key[x] = key[y] => x = y
    PROVE  Ranking(S, key) \in Bijection(S, 0..(Cardinality(S) - 1))
<1> DEFINE T == 0..(Cardinality(S) - 1)
           r == Ranking(S, key)
<1>1. r \in [S -> T]
  BY RankIsBelowSize DEF Ranking
<1>2. \A x, y \in S : r[x] = r[y] => x = y
  <2>1. SUFFICES ASSUME NEW x \in S, NEW y \in S, x # y PROVE r[x] # r[y]
    OBVIOUS
  <2>2. key[x] < key[y] \/ key[y] < key[x]
    BY <2>1
  <2>3. r[x] = Cardinality(Below(S, key, x)) /\ r[y] = Cardinality(Below(S, key, y))
    BY DEF Ranking
  <2>4. r[x] \in T /\ r[y] \in T
    BY <1>1
  <2> QED BY <2>2, <2>3, <2>4, RankIsMonotonic
<1>3. r \in Injection(S, T)
  BY <1>1, <1>2, Fun_IsInj
<1>4. Cardinality(S) \in Nat
  BY FS_CardinalityType
<1>5. IsFiniteSet(T) /\ Cardinality(T) = Cardinality(S)
  BY <1>4, FS_Interval
<1>6. r \in Surjection(S, T)
  BY <1>3, <1>5, FS_Injection
<1> QED BY <1>3, <1>6 DEF Bijection

\* The n elements with the smallest keys are n elements.
LEMMA FirstOfRank ==
    ASSUME NEW S, IsFiniteSet(S), NEW key \in [S -> Int],
           \A x, y \in S : key[x] = key[y] => x = y,
           NEW n \in Nat, n <= Cardinality(S)
    PROVE  LET first == {x \in S : Ranking(S, key)[x] < n}
           IN  IsFiniteSet(first) /\ Cardinality(first) = n
<1> DEFINE r == Ranking(S, key)
           first == {x \in S : r[x] < n}
           f == Restrict(r, first)
<1>1. r \in Bijection(S, 0..(Cardinality(S) - 1))
  BY RankIsBijection
<1> HIDE DEF r
<1>2. /\ r \in [S -> 0..(Cardinality(S) - 1)]
      /\ \A x, y \in S : r[x] = r[y] => x = y
      /\ \A k \in 0..(Cardinality(S) - 1) : \E x \in S : r[x] = k
  BY <1>1 DEF Bijection, Injection, IsInjective, Surjection
<1>3. Cardinality(S) \in Nat
  BY FS_CardinalityType
<1>4. f \in [first -> 0..(n - 1)]
  BY <1>2, <1>3 DEF Restrict
<1>5. f \in Injection(first, 0..(n - 1))
  <2>1. \A x, y \in first : f[x] = f[y] => x = y
    BY <1>2 DEF Restrict
  <2> QED BY <1>4, <2>1, Fun_IsInj
<1>6. f \in Surjection(first, 0..(n - 1))
  <2>1. ASSUME NEW k \in 0..(n - 1) PROVE \E x \in first : f[x] = k
    <3>1. PICK x \in S : r[x] = k
      BY <1>2, <1>3
    <3>2. x \in first /\ f[x] = k
      BY <3>1 DEF Restrict
    <3> QED BY <3>2
  <2> QED BY <1>4, <2>1, Fun_IsSurj
<1>7. IsFiniteSet(first)
  BY FS_Subset
<1>8. Cardinality(first) = Cardinality(0..(n - 1))
  BY <1>5, <1>6, <1>7, FS_Surjection
<1>9. Cardinality(0..(n - 1)) = n
  BY FS_Interval
<1> QED BY <1>7, <1>8, <1>9 DEF r

-----------------------------------------------------------------------------
(* The smallest element of a finite set of integers. *)

\* A finite set of integers that is not empty has a smallest element.
LEMMA SmallestExists ==
    ASSUME NEW S \in SUBSET Int, IsFiniteSet(S), S # {}
    PROVE  \E x \in S : \A y \in S : x <= y
<1> DEFINE key == [x \in S |-> x]
<1>1. Cardinality(S) \in Nat \ {0}
  BY FS_CardinalityType, FS_EmptySet
<1>2. /\ key \in [S -> Int]
      /\ \A x, y \in S : key[x] = key[y] => x = y
  OBVIOUS
<1> HIDE DEF key
<1>3. Ranking(S, key) \in Surjection(S, 0..(Cardinality(S) - 1))
  BY <1>2, RankIsBijection DEF Bijection
<1>4. PICK x \in S : Ranking(S, key)[x] = 0
  BY <1>1, <1>3 DEF Surjection
<1>5. IsFiniteSet(Below(S, key, x)) /\ Cardinality(Below(S, key, x)) = 0
  BY <1>2, <1>4, RankIsBelowSize DEF Ranking
<1>6. Below(S, key, x) = {}
  BY <1>5, FS_EmptySet
<1>7. \A y \in S : ~(y < x)
  BY <1>6 DEF Below, key
<1> QED BY <1>7

-----------------------------------------------------------------------------
(* Induction, folds and concatenations. *)

\* A set of numbers has a smallest one.
LEMMA Smallest == ASSUME NEW S \in SUBSET Nat, S # {} PROVE \E n \in S : \A m \in S : n <= m
<1>1. PICK n \in S : \A y \in S : ~(<<y, n>> \in OpToRel(<, Nat))
  BY NatLessThanWellFounded, WFMin
<1>2. \A y \in S : ~(y < n)
  BY <1>1, Zenon DEF OpToRel
<1> QED BY <1>2

\* Induction: a set that has 0 and, up to n, each successor has all numbers up to n.
LEMMA UpTo ==
    ASSUME NEW n \in Nat, NEW S, 0 \in S, \A k \in 0..(n - 1) : k \in S => k + 1 \in S
    PROVE  0..n \subseteq S
<1> DEFINE out == {k \in 0..n : k \notin S}
<1>1. SUFFICES ASSUME out # {} PROVE FALSE
  OBVIOUS
<1>2. PICK k \in out : \A m \in out : k <= m
  <2>1. out \in SUBSET Nat
    OBVIOUS
  <2> HIDE DEF out
  <2> QED BY <1>1, <2>1, Smallest
<1>3. k # 0 /\ k - 1 \in 0..(n - 1) /\ k - 1 \notin out
  BY <1>2
<1> QED BY <1>2, <1>3

\* The maximum
LEMMA Largest ==
    ASSUME NEW n \in Nat, NEW S \in SUBSET (1..n), S # {}
    PROVE  Max(S) \in S /\ \A k \in S : k <= Max(S)
<1> DEFINE left == {m \in 0..n : \E k \in S : m = n - k}
<1>1. left \in SUBSET Nat /\ left # {}
  <2>1. PICK k \in S : TRUE
    OBVIOUS
  <2>2. n - k \in left
    BY <2>1
  <2>3. left \subseteq Nat
    OBVIOUS
  <2> HIDE DEF left
  <2> QED BY <2>2, <2>3
<1>2. PICK m \in left : \A k \in left : m <= k
  <2> HIDE DEF left
  <2> QED BY <1>1, Smallest
<1>3. n - m \in S
  BY <1>2
<1>4. ASSUME NEW k \in S PROVE k <= n - m
  <2>1. k \in 1..n /\ n - k \in left
    OBVIOUS
  <2>2. m <= n - k /\ m \in Nat
    BY <1>2, <2>1
  <2> QED BY <2>1, <2>2
<1> QED BY <1>3, <1>4, Zenon DEF Max

\* What the fold of a function over a sequence is for each set of its places.
FoldsTo(iter, Typ, base, G, seq, n) ==
    iter \in [SUBSET (1..n) -> Typ] /\ \A s \in SUBSET (1..n) :
        iter[s] = IF s = {} THEN base ELSE G[<<iter[s \ {Max(s)}], seq[Max(s)]>>]

\* There is such a fold.
LEMMA Folded ==
    ASSUME NEW Typ, NEW Elem, NEW base \in Typ, NEW G \in [Typ \X Elem -> Typ],
           NEW n \in Nat, NEW seq \in [1..n -> Elem]
    PROVE  \E iter : FoldsTo(iter, Typ, base, G, seq, n)
<1> DEFINE Sub(k) == SUBSET (1..k)
           Eq(f, k) == /\ f \in [SUBSET (1..k) -> Typ]
                       /\ \A s \in SUBSET (1..k) :
                                 f[s] = IF s = {} THEN base ELSE G[<<f[s \ {Max(s)}], seq[Max(s)]>>]
           S == {k \in 0..n : \E f : Eq(f, k)}
<1>1. 0 \in S
  <2> DEFINE f == [s \in SUBSET (1..0) |-> base]
  <2>1. \A s \in SUBSET (1..0) : s = {}
    OBVIOUS
  <2>2. Eq(f, 0)
    BY <2>1
  <2> HIDE DEF Eq
  <2> QED BY <2>2
<1>2. ASSUME NEW k \in 0..(n - 1), k \in S PROVE k + 1 \in S
  <2>1. PICK f : Eq(f, k)
    BY <1>2
  <2> DEFINE g == [s \in SUBSET (1..(k + 1)) |->
                     IF k + 1 \in s THEN G[<<f[s \ {k + 1}], seq[k + 1]>>] ELSE f[s]]
  <2>2. \A s \in SUBSET (1..(k + 1)) : /\ s \ {k + 1} \in SUBSET (1..k)
                                       /\ k + 1 \notin s => s \in SUBSET (1..k)
                                       /\ s # {} => s \ {Max(s)} \in SUBSET (1..k) /\ Max(s) \in s
                                       /\ k + 1 \in s => Max(s) = k + 1
    <3> SUFFICES ASSUME NEW s \in SUBSET (1..(k + 1))
                 PROVE  /\ s \ {k + 1} \in SUBSET (1..k)
                        /\ k + 1 \notin s => s \in SUBSET (1..k)
                        /\ s # {} => s \ {Max(s)} \in SUBSET (1..k) /\ Max(s) \in s
                        /\ k + 1 \in s => Max(s) = k + 1
      OBVIOUS
    <3>1. s # {} => Max(s) \in s /\ \A j \in s : j <= Max(s)
      BY Largest, k + 1 \in Nat
    <3>2. CASE s = {}
      BY <3>2
    <3>3. CASE s # {}
      <4>1. Max(s) \in s /\ (\A j \in s : j <= Max(s)) /\ s \subseteq 1..(k + 1)
        BY <3>1, <3>3
      <4>2. \A j \in 1..(k + 1) : j # k + 1 => j \in 1..k
        OBVIOUS
      <4>3. s \ {Max(s)} \subseteq 1..k
        <5> SUFFICES ASSUME NEW j \in s, j # Max(s) PROVE j \in 1..k
          OBVIOUS
        <5>1. j \in 1..(k + 1) /\ Max(s) \in 1..(k + 1) /\ j <= Max(s)
          BY <4>1
        <5> HIDE DEF Max
        <5> QED BY <5>1
      <4>4. k + 1 \in s => Max(s) = k + 1
        <5>1. Max(s) \in 1..(k + 1) /\ (k + 1 \in s => k + 1 <= Max(s))
          BY <4>1
        <5> QED BY <5>1
      <4> QED BY <4>1, <4>2, <4>3, <4>4
    <3> QED BY <3>2, <3>3
  <2>3. seq[k + 1] \in Elem
    OBVIOUS
  <2>4. Eq(g, k + 1)
    <3>1. ASSUME NEW s \in SUBSET (1..(k + 1))
          PROVE  g[s] \in Typ
      BY <2>1, <2>2, <2>3
    <3>2. ASSUME NEW s \in SUBSET (1..(k + 1))
          PROVE  g[s] = IF s = {} THEN base ELSE G[<<g[s \ {Max(s)}], seq[Max(s)]>>]
      <4>1. CASE k + 1 \in s
        <5>1. g[s] = G[<<f[s \ {k + 1}], seq[k + 1]>>] /\ Max(s) = k + 1
          BY <2>2, <4>1
        <5>2. s \ {k + 1} \in SUBSET (1..(k+1)) /\ k + 1 \notin s \ {k + 1}
          OBVIOUS
        <5>3. g[s \ {k + 1}] = f[s \ {k + 1}]
          BY <5>2
        <5> HIDE DEF g
        <5> QED BY <4>1, <5>1, <5>3
      <4>2. CASE k + 1 \notin s
        <5>1. g[s] = f[s] /\ s \in SUBSET (1..k)
          BY <2>2, <4>2
        <5>2. CASE s = {}
          BY <5>1, <5>2, <2>1
        <5>3. CASE s # {}
          <6>1. s \ {Max(s)} \in SUBSET (1..(k + 1)) /\ k + 1 \notin s \ {Max(s)}
            BY <4>2
          <6>2. g[s \ {Max(s)}] = f[s \ {Max(s)}]
            BY <6>1
          <6>3. f[s] = G[<<f[s \ {Max(s)}], seq[Max(s)]>>]
            BY <2>1, <5>1, <5>3
          <6> HIDE DEF g
          <6> QED BY <5>1, <5>3, <6>2, <6>3
        <5> QED BY <5>2, <5>3
      <4> QED BY <4>1, <4>2
    <3> HIDE DEF g
    <3>3. g \in [SUBSET (1..(k + 1)) -> Typ]
      BY <3>1 DEF g
    <3> QED BY <3>2, <3>3
  <2> HIDE DEF g, Eq
  <2> QED BY <2>4
<1>3. n \in S
  <2> HIDE DEF S
  <2>1. \A k \in 0..(n - 1) : k \in S => k + 1 \in S
    BY <1>2
  <2>2. 0..n \subseteq S
    BY <1>1, <2>1, UpTo
  <2> QED BY <2>2
<1>4. PICK f : Eq(f, n)
  BY <1>3
<1> QED BY <1>4 DEF FoldsTo

\* The last of the first k + 1 places.
LEMMA LastPlace ==
    ASSUME NEW n \in Nat, NEW k \in 0..(n - 1)
    PROVE  /\ 1..(k + 1) \in SUBSET (1..n) /\ 1..(k + 1) # {}
           /\ Max(1..(k + 1)) = k + 1 /\ (1..(k + 1)) \ {k + 1} = 1..k
<1>1. 1..(k + 1) # {} /\ 1..(k + 1) \in SUBSET (1..(k + 1)) /\ k + 1 \in Nat /\ k + 1 \in 1..(k + 1)
  OBVIOUS
<1>2. Max(1..(k + 1)) \in 1..(k + 1) /\ \A j \in 1..(k + 1) : j <= Max(1..(k + 1))
  BY <1>1, Largest
<1>3. k + 1 <= Max(1..(k + 1))
  BY <1>1, <1>2
<1>4. Max(1..(k + 1)) = k + 1
  BY <1>2, <1>3
<1> QED BY <1>1, <1>4


\* Where the pieces of a concatenation start.
LEMMA Starts ==
    ASSUME NEW n \in Nat, NEW len \in [1..n -> Nat]
    PROVE  \E start \in [0..n -> Nat] :
               start[0] = 0 /\ \A k \in 0..(n - 1) : start[k + 1] = start[k] + len[k + 1]
<1> DEFINE Eq(f, k) == /\ f \in [0..k -> Nat] /\ f[0] = 0
                       /\ \A j \in 0..(k - 1) : f[j + 1] = f[j] + len[j + 1]
           S == {k \in 0..n : \E f : Eq(f, k)}
<1>1. 0 \in S
  <2>1. Eq([j \in 0..0 |-> 0], 0)
    OBVIOUS
  <2> HIDE DEF Eq
  <2> QED BY <2>1
<1>2. ASSUME NEW k \in 0..(n - 1), k \in S PROVE k + 1 \in S
  <2>1. PICK f : Eq(f, k)
    BY <1>2
  <2> DEFINE g == [j \in 0..(k + 1) |-> IF j = k + 1 THEN f[k] + len[k + 1] ELSE f[j]]
  <2>2. Eq(g, k + 1)
    <3>1. f \in [0..k -> Nat] /\ len[k + 1] \in Nat /\ k \in 0..k
      BY <2>1
    <3>2. g \in [0..(k + 1) -> Nat]
      <4> SUFFICES ASSUME NEW j \in 0..(k + 1)
                   PROVE  (IF j = k + 1 THEN f[k] + len[k + 1] ELSE f[j]) \in Nat
        OBVIOUS
      <4>1. j # k + 1 => j \in 0..k
        OBVIOUS
      <4> QED BY <3>1, <4>1
    <3>3. g[0] = 0
      BY <2>1
    <3>4. ASSUME NEW j \in 0..k PROVE g[j + 1] = g[j] + len[j + 1]
      <4>1. g[j] = f[j]
        OBVIOUS
      <4>2. CASE j = k
        BY <4>1, <4>2
      <4>3. CASE j # k
        <5>1. j \in 0..(k - 1) /\ j + 1 \in 0..(k + 1) /\ j + 1 # k + 1
          BY <4>3
        <5>2. g[j + 1] = f[j + 1]
          BY <5>1
        <5> QED BY <2>1, <4>1, <5>1, <5>2
      <4> QED BY <4>2, <4>3
    <3> HIDE DEF g
    <3> QED BY <3>2, <3>3, <3>4
  <2> HIDE DEF Eq, g
  <2> QED BY <2>2
<1>3. n \in S
  <2> HIDE DEF S
  <2>1. \A k \in 0..(n - 1) : k \in S => k + 1 \in S
    BY <1>2
  <2>2. 0..n \subseteq S
    BY <1>1, <2>1, UpTo
  <2> QED BY <2>2
<1> QED BY <1>3

\* Two sequences one after the other.
LEMMA Joined ==
    ASSUME NEW T, NEW a \in Seq(T), NEW b \in Seq(T)
    PROVE  /\ a \o b \in Seq(T) /\ Len(a) \in Nat /\ Len(b) \in Nat
           /\ Len(a \o b) = Len(a) + Len(b)
           /\ \A p \in 1..Len(a) : (a \o b)[p] = a[p]
           /\ \A j \in 1..Len(b) : (a \o b)[Len(a) + j] = b[j]
<1>1. Len(a) \in Nat /\ Len(b) \in Nat
  OBVIOUS
<1>2. /\ a \o b \in Seq(T) /\ Len(a \o b) = Len(a) + Len(b)
      /\ \A p \in 1..(Len(a) + Len(b)) :
             (a \o b)[p] = IF p <= Len(a) THEN a[p] ELSE b[p - Len(a)]
  BY ConcatProperties
<1>3. \A j \in 1..Len(b) : /\ Len(a) + j \in 1..(Len(a) + Len(b))
                           /\ ~(Len(a) + j <= Len(a)) /\ (Len(a) + j) - Len(a) = j
  BY <1>1
<1>4. \A p \in 1..Len(a) : p \in 1..(Len(a) + Len(b)) /\ p <= Len(a)
  BY <1>1
<1> QED BY <1>1, <1>2, <1>3, <1>4

\* The pieces start where those before them end, and flat has them there.
StartsOf(start, seqs, n) ==
    /\ start \in [0..n -> Nat] /\ start[0] = 0
    /\ \A k \in 0..(n - 1) : start[k + 1] = start[k] + Len(seqs[k + 1])
LaysOut(flat, seqs, start, n) ==
    /\ Len(flat) = start[n]
    /\ \A i \in 1..n : \A j \in 1..Len(seqs[i]) :
           start[i - 1] + j \in 1..start[n] /\ flat[start[i - 1] + j] = seqs[i][j]
    /\ \A p \in 1..start[n] : \E i \in 1..n : \E j \in 1..Len(seqs[i]) : p = start[i - 1] + j

\* FlattenSeq lays the pieces one after the other.
LEMMA Flattened ==
    ASSUME NEW T, NEW n \in Nat, NEW seqs \in [1..n -> Seq(T)],
           NEW start, StartsOf(start, seqs, n)
    PROVE  FlattenSeq(seqs) \in Seq(T) /\ LaysOut(FlattenSeq(seqs), seqs, start, n)
<1> USE DEF StartsOf
<1>1. seqs \in Seq(Seq(T)) /\ Len(seqs) = n
  OBVIOUS
<1>2. CASE n = 0
  <2>1. FlattenSeq(seqs) = seqs /\ seqs = << >>
    BY <1>1, <1>2 DEF FlattenSeq
  <2>2. << >> \in Seq(T) /\ Len(<< >>) = 0
    OBVIOUS
  <2> QED BY <1>2, <2>1, <2>2 DEF LaysOut
<1>3. CASE n # 0
  <2> DEFINE Is(f) == f = [i \in 1..n |-> IF i = 1 THEN seqs[i] ELSE f[i - 1] \o seqs[i]]
             F == CHOOSE f : Is(f)
             Eq(f, k) == /\ f \in [1..k -> Seq(T)]
                         /\ \A i \in 1..k : f[i] = IF i = 1 THEN seqs[i] ELSE f[i - 1] \o seqs[i]
             S == {k \in 0..n : \E f : Eq(f, k)}
  <2>1. FlattenSeq(seqs) = F[n]
    <3>1. Len(seqs) = n /\ Len(seqs) # 0
      BY <1>1, <1>3
    <3> QED BY <3>1, Zenon DEF FlattenSeq
  <2>2. 0 \in S
    <3>1. Eq([i \in 1..0 |-> << >>], 0)
      OBVIOUS
    <3> HIDE DEF Eq
    <3> QED BY <3>1
  <2>3. ASSUME NEW k \in 0..(n - 1), k \in S PROVE k + 1 \in S
    <3>1. PICK f : Eq(f, k)
      BY <2>3
    <3> DEFINE next == IF k = 0 THEN seqs[1] ELSE f[k] \o seqs[k + 1]
               g == [i \in 1..(k + 1) |-> IF i = k + 1 THEN next ELSE f[i]]
    <3>2. next \in Seq(T)
      <4>1. seqs[k + 1] \in Seq(T) /\ (k # 0 => f[k] \in Seq(T)) /\ (k = 0 => seqs[1] \in Seq(T))
        BY <3>1
      <4> QED BY <4>1
    <3>3. g \in [1..(k + 1) -> Seq(T)]
      <4> SUFFICES ASSUME NEW i \in 1..(k + 1) PROVE (IF i = k + 1 THEN next ELSE f[i]) \in Seq(T)
        OBVIOUS
      <4>1. i # k + 1 => i \in 1..k
        OBVIOUS
      <4> HIDE DEF next
      <4> QED BY <3>1, <3>2, <4>1
    <3>4. ASSUME NEW i \in 1..(k + 1)
          PROVE  g[i] = IF i = 1 THEN seqs[i] ELSE g[i - 1] \o seqs[i]
      <4>1. CASE i = k + 1
        <5>1. g[i] = next
          BY <4>1
        <5>2. CASE k = 0
          BY <4>1, <5>1, <5>2
        <5>3. CASE k # 0
          <6>1. k \in 1..(k + 1) /\ k # k + 1
            BY <5>3
          <6>2. g[k] = f[k]
            BY <6>1
          <6>3. i # 1 /\ i - 1 = k
            BY <4>1, <5>3
          <6> HIDE DEF g
          <6> QED BY <4>1, <5>1, <5>3, <6>2, <6>3
        <5> QED BY <5>2, <5>3
      <4>2. CASE i # k + 1
        <5>1. i \in 1..k /\ g[i] = f[i]
          BY <4>2
        <5>2. i # 1 => i - 1 \in 1..(k + 1) /\ i - 1 # k + 1
          OBVIOUS
        <5>3. i # 1 => g[i - 1] = f[i - 1]
          BY <5>2
        <5> HIDE DEF g
        <5> QED BY <3>1, <5>1, <5>3
      <4> QED BY <4>1, <4>2
    <3>5. Eq(g, k + 1)
      <4> HIDE DEF g
      <4> QED BY <3>3, <3>4
    <3> HIDE DEF Eq, g
    <3> QED BY <3>5
  <2>4. n \in S
    <3> HIDE DEF S
    <3>1. \A k \in 0..(n - 1) : k \in S => k + 1 \in S
      BY <2>3
    <3>2. 0..n \subseteq S
      BY <2>2, <3>1, UpTo
    <3> QED BY <3>2
  <2>5. PICK f : Eq(f, n)
    BY <2>4
  <2>6. Is(f)
    <3>1. f = [i \in 1..n |-> f[i]]
      BY <2>5
    <3> QED BY <2>5, <3>1
  <2>7. Is(F)
    <3> HIDE DEF Is
    <3> QED BY <2>6
  <2> HIDE DEF F
  <2>8. F[1] = seqs[1] /\ \A i \in 2..n : F[i] = F[i - 1] \o seqs[i]
    <3>1. \A i \in 1..n : F[i] = IF i = 1 THEN seqs[i] ELSE F[i - 1] \o seqs[i]
      BY <2>7, Zenon
    <3> HIDE DEF Is
    <3>2. 1 \in 1..n /\ \A i \in 2..n : i \in 1..n /\ i # 1
      BY <1>3
    <3> QED BY <3>1, <3>2, Zenon
  <2> DEFINE Laid(k) ==
                 /\ F[k] \in Seq(T) /\ Len(F[k]) = start[k]
                 /\ \A i \in 1..k : \A j \in 1..Len(seqs[i]) :
                        /\ start[i - 1] + j \in 1..start[k]
                        /\ F[k][start[i - 1] + j] = seqs[i][j]
                 /\ \A p \in 1..start[k] : \E i \in 1..k : \E j \in 1..Len(seqs[i]) :
                        p = start[i - 1] + j
             R == {k \in 0..n : k # 0 => Laid(k)}
  <2>9. ASSUME NEW k \in 0..(n - 1), k \in R PROVE Laid(k + 1)
    <3>1. seqs[k + 1] \in Seq(T) /\ start[k + 1] = start[k] + Len(seqs[k + 1]) /\ start[k] \in Nat
          /\ Len(seqs[k + 1]) \in Nat
      OBVIOUS
    <3>2. CASE k = 0
      <4>1. F[1] = seqs[1] /\ start[0] = 0 /\ start[1] = Len(seqs[1])
        BY <2>8, <3>1, <3>2
      <4> QED BY <3>1, <3>2, <4>1
    <3>3. CASE k # 0
      <4>1. Laid(k) /\ F[k + 1] = F[k] \o seqs[k + 1]
        <5>1. Laid(k)
          <6> HIDE DEF Laid
          <6> QED BY <2>9, <3>3
        <5> HIDE DEF Laid, R, Is
        <5>2. k + 1 \in 2..n /\ (k + 1) - 1 = k
          BY <3>3
        <5>3. F[k + 1] = F[(k + 1) - 1] \o seqs[k + 1]
          BY <2>8, <5>2, Zenon
        <5> QED BY <5>1, <5>2, <5>3
      <4>2. /\ F[k + 1] \in Seq(T) /\ Len(F[k + 1]) = start[k + 1]
            /\ \A p \in 1..start[k] : F[k + 1][p] = F[k][p]
            /\ \A j \in 1..Len(seqs[k + 1]) : F[k + 1][start[k] + j] = seqs[k + 1][j]
        <5> DEFINE a == F[k]
                   b == seqs[k + 1]
        <5>1. a \in Seq(T) /\ b \in Seq(T) /\ Len(a) = start[k] /\ F[k + 1] = a \o b
          BY <3>1, <4>1
        <5> HIDE DEF a, b
        <5>2. /\ a \o b \in Seq(T) /\ Len(a \o b) = Len(a) + Len(b)
              /\ \A p \in 1..Len(a) : (a \o b)[p] = a[p]
              /\ \A j \in 1..Len(b) : (a \o b)[Len(a) + j] = b[j]
          <6>1. a \in Seq(T) /\ b \in Seq(T)
            BY <5>1, Zenon
          <6>2. a \o b \in Seq(T)
            BY <6>1, Joined, Zenon
          <6>3. Len(a \o b) = Len(a) + Len(b)
            BY <6>1, Joined, Zenon
          <6>4. \A p \in 1..Len(a) : (a \o b)[p] = a[p]
            BY <6>1, Joined
          <6>5. \A j \in 1..Len(b) : (a \o b)[Len(a) + j] = b[j]
            BY <6>1, Joined
          <6> QED BY <6>2, <6>3, <6>4, <6>5
        <5> QED BY <3>1, <5>1, <5>2 DEF a, b
      <4>3. ASSUME NEW i \in 1..(k + 1), NEW j \in 1..Len(seqs[i])
            PROVE  /\ start[i - 1] + j \in 1..start[k + 1]
                   /\ F[k + 1][start[i - 1] + j] = seqs[i][j]
        <5>1. CASE i = k + 1
          <6>1. i - 1 = k
            BY <5>1
          <6> QED BY <3>1, <4>2, <5>1, <6>1
        <5>2. CASE i # k + 1
          <6>1. i \in 1..k
            BY <5>2
          <6>2. start[i - 1] + j \in 1..start[k] /\ F[k][start[i - 1] + j] = seqs[i][j]
            BY <4>1, <6>1
          <6>3. 1..start[k] \subseteq 1..start[k + 1]
            BY <3>1
          <6> QED BY <4>2, <6>2, <6>3
        <5> QED BY <5>1, <5>2
      <4>4. ASSUME NEW p \in 1..start[k + 1]
            PROVE  \E i \in 1..(k + 1) : \E j \in 1..Len(seqs[i]) : p = start[i - 1] + j
        <5>1. CASE p \in 1..start[k]
          <6>1. PICK i \in 1..k : \E j \in 1..Len(seqs[i]) : p = start[i - 1] + j
            BY <4>1, <5>1
          <6>2. i \in 1..(k + 1)
            OBVIOUS
          <6> QED BY <6>1, <6>2
        <5>2. CASE p \notin 1..start[k]
          <6>1. p - start[k] \in 1..Len(seqs[k + 1]) /\ p = start[k] + (p - start[k])
            BY <3>1, <5>2
          <6>2. k + 1 \in 1..(k + 1) /\ (k + 1) - 1 = k
            OBVIOUS
          <6> QED BY <6>1, <6>2
        <5> QED BY <5>1, <5>2
      <4> QED BY <4>2, <4>3, <4>4
    <3> QED BY <3>2, <3>3
  <2>10. n \in R
    <3>1. 0 \in R
      OBVIOUS
    <3>2. \A k \in 0..(n - 1) : k \in R => k + 1 \in R
      <4> HIDE DEF Laid
      <4> QED BY <2>9
    <3> HIDE DEF R
    <3>3. 0..n \subseteq R
      BY <3>1, <3>2, UpTo
    <3> QED BY <3>3
  <2>11. Laid(n)
    BY <1>3, <2>10
  <2> QED BY <2>1, <2>11 DEF LaysOut
<1> QED BY <1>2, <1>3

\* A fold passes through a history of values, one element at a time.
Steps(h, Typ, base, G, seq, n) ==
    /\ h \in [0..n -> Typ] /\ h[0] = base
    /\ \A k \in 0..(n - 1) : h[k + 1] = G[<<h[k], seq[k + 1]>>]

Unfolds(f, Typ, base, G, seq, n) ==
    /\ f[{}] = base
    /\ \A s \in SUBSET (1..n) : s # {} /\ f[s \ {Max(s)}] \in Typ =>
           f[s] = G[<<f[s \ {Max(s)}], seq[Max(s)]>>]
Ends(h, n, value) == h[n] = value

\* What unfolds from the greatest element down is made step by step from 0 up.
LEMMA FoldedSteps ==
    ASSUME NEW Typ, NEW Elem, NEW base \in Typ, NEW G \in [Typ \X Elem -> Typ],
           NEW n \in Nat, NEW seq \in [1..n -> Elem], NEW f, Unfolds(f, Typ, base, G, seq, n)
    PROVE  \E h : Steps(h, Typ, base, G, seq, n) /\ Ends(h, n, f[1..n])
<1> USE DEF Unfolds
<1> DEFINE h == [k \in 0..n |-> f[1..k]]
           S == {k \in 0..n : f[1..k] \in Typ}
<1>1. 1..0 = {}
  OBVIOUS
<1>2. \A k \in 0..(n - 1) : f[1..k] \in Typ => f[1..(k + 1)] = G[<<f[1..k], seq[k + 1]>>]
  <2> SUFFICES ASSUME NEW k \in 0..(n - 1), f[1..k] \in Typ
               PROVE  f[1..(k + 1)] = G[<<f[1..k], seq[k + 1]>>]
    OBVIOUS
  <2>1. /\ 1..(k + 1) \in SUBSET (1..n) /\ 1..(k + 1) # {}
        /\ Max(1..(k + 1)) = k + 1 /\ (1..(k + 1)) \ {k + 1} = 1..k
    BY LastPlace
  <2> HIDE DEF Max
  <2> QED BY <2>1
<1>3. 0 \in S
  BY <1>1
<1>4. \A k \in 0..(n - 1) : k \in S => k + 1 \in S
  <2> SUFFICES ASSUME NEW k \in 0..(n - 1), f[1..k] \in Typ PROVE f[1..(k + 1)] \in Typ
    OBVIOUS
  <2>1. f[1..(k + 1)] = G[<<f[1..k], seq[k + 1]>>] /\ seq[k + 1] \in Elem
    BY <1>2
  <2> QED BY <2>1
<1> HIDE DEF S
<1>5. 0..n \subseteq S
  BY <1>3, <1>4, UpTo
<1>6. h \in [0..n -> Typ]
  BY <1>5 DEF S
<1>7. h[0] = base /\ f[1..n] = h[n] /\ \A k \in 0..(n - 1) : h[k + 1] = G[<<h[k], seq[k + 1]>>]
  <2>1. \A k \in 0..n : f[1..k] \in Typ
    BY <1>5 DEF S
  <2>2. h[0] = base
    BY <1>1
  <2>3. f[1..n] = h[n]
    OBVIOUS
  <2>4. \A k \in 0..(n - 1) : h[k + 1] = G[<<h[k], seq[k + 1]>>]
    <3> SUFFICES ASSUME NEW k \in 0..(n - 1) PROVE h[k + 1] = G[<<h[k], seq[k + 1]>>]
      OBVIOUS
    <3>1. h[k] = f[1..k] /\ h[k + 1] = f[1..(k + 1)] /\ k \in 0..n
      OBVIOUS
    <3> HIDE DEF h
    <3> QED BY <1>2, <2>1, <3>1
  <2> QED BY <2>2, <2>3, <2>4
<1> HIDE DEF h
<1> QED BY <1>6, <1>7 DEF Steps, Ends

\* Two histories are one as long as their steps are the same.
LEMMA SameSteps ==
    ASSUME NEW n \in Nat, NEW m \in Nat, n <= m, NEW h, NEW g, NEW Typ, NEW base, NEW G,
           NEW a, NEW b, \A k \in 1..n : a[k] = b[k],
           Steps(h, Typ, base, G, a, n), Steps(g, Typ, base, G, b, m)
    PROVE  \A k \in 0..n : h[k] = g[k]
<1> DEFINE S == {k \in 0..n : h[k] = g[k]}
<1>1. 0 \in S
  BY DEF Steps
<1>2. ASSUME NEW k \in 0..(n - 1), k \in S PROVE k + 1 \in S
  <2>1. k \in 0..(m - 1) /\ k + 1 \in 1..n
    OBVIOUS
  <2>2. h[k + 1] = G[<<h[k], a[k + 1]>>] /\ g[k + 1] = G[<<g[k], b[k + 1]>>]
    BY <2>1 DEF Steps
  <2> QED BY <1>2, <2>1, <2>2
<1> HIDE DEF S
<1>3. 0..n \subseteq S
  BY <1>1, <1>2, UpTo
<1> QED BY <1>3 DEF S

\* Sums and products.
Plus == [p \in Nat \X Nat |-> p[1] + p[2]]

\* Addition as a function.
LEMMA PlusAdds == Plus \in [Nat \X Nat -> Nat] /\ \A a, b \in Nat : Plus[<<a, b>>] = a + b
  BY DEF Plus

\* The product of a pair.
Times == [p \in Nat \X Nat |-> p[1] * p[2]]

\* Multiplication as a function.
LEMMA TimesMultiplies ==
    Times \in [Nat \X Nat -> Nat] /\ \A a, b \in Nat : Times[<<a, b>>] = a * b
  BY DEF Times

\* Sequences cut alike are laid out alike.
Alongside(flatA, flatB, a, b, n) ==
    /\ Len(flatA) = Len(flatB)
    /\ \A p \in 1..Len(flatA) : \E i \in 1..n : \E j \in 1..Len(a[i]) :
           flatA[p] = a[i][j] /\ flatB[p] = b[i][j]
    /\ \A i \in 1..n : \A j \in 1..Len(a[i]) : \E p \in 1..Len(flatA) :
           flatA[p] = a[i][j] /\ flatB[p] = b[i][j]

\* So are the sequences that two lists of equally long ones flatten to.
LEMMA SideBySide ==
    ASSUME NEW A, NEW B, NEW n \in Nat, NEW a \in [1..n -> Seq(A)], NEW b \in [1..n -> Seq(B)],
           \A i \in 1..n : Len(a[i]) = Len(b[i])
    PROVE  /\ FlattenSeq(a) \in Seq(A) /\ FlattenSeq(b) \in Seq(B)
           /\ Alongside(FlattenSeq(a), FlattenSeq(b), a, b, n)
<1> DEFINE len == [i \in 1..n |-> Len(a[i])]
<1>1. len \in [1..n -> Nat]
  OBVIOUS
<1>2. PICK start \in [0..n -> Nat] :
          start[0] = 0 /\ \A k \in 0..(n - 1) : start[k + 1] = start[k] + len[k + 1]
  <2> HIDE DEF len
  <2> QED BY <1>1, Starts
<1>3. \A k \in 0..(n - 1) : len[k + 1] = Len(a[k + 1]) /\ len[k + 1] = Len(b[k + 1])
  OBVIOUS
<1> HIDE DEF len
<1>4. StartsOf(start, a, n) /\ StartsOf(start, b, n)
  BY <1>2, <1>3 DEF StartsOf
<1>5. FlattenSeq(a) \in Seq(A) /\ LaysOut(FlattenSeq(a), a, start, n)
  BY <1>4, Flattened
<1>6. FlattenSeq(b) \in Seq(B) /\ LaysOut(FlattenSeq(b), b, start, n)
  BY <1>4, Flattened
<1>7. ASSUME NEW i \in 1..n, NEW j \in 1..Len(a[i])
      PROVE  /\ start[i - 1] + j \in 1..start[n]
             /\ FlattenSeq(a)[start[i - 1] + j] = a[i][j]
             /\ FlattenSeq(b)[start[i - 1] + j] = b[i][j]
  BY <1>5, <1>6 DEF LaysOut
<1>8. ASSUME NEW p \in 1..Len(FlattenSeq(a))
      PROVE  \E i \in 1..n : \E j \in 1..Len(a[i]) :
                 FlattenSeq(a)[p] = a[i][j] /\ FlattenSeq(b)[p] = b[i][j]
  <2>1. PICK i \in 1..n : \E j \in 1..Len(a[i]) : p = start[i - 1] + j
    BY <1>5 DEF LaysOut
  <2> QED BY <1>7, <2>1
<1>9. ASSUME NEW i \in 1..n, NEW j \in 1..Len(a[i])
      PROVE  \E p \in 1..Len(FlattenSeq(a)) :
                 FlattenSeq(a)[p] = a[i][j] /\ FlattenSeq(b)[p] = b[i][j]
  <2> DEFINE p == start[i - 1] + j
  <2>1. p \in 1..Len(FlattenSeq(a))
    BY <1>5, <1>7 DEF LaysOut
  <2>2. FlattenSeq(a)[p] = a[i][j] /\ FlattenSeq(b)[p] = b[i][j]
    BY <1>7
  <2> HIDE DEF p
  <2> QED BY <2>1, <2>2
<1>10. Len(FlattenSeq(a)) = Len(FlattenSeq(b))
  BY <1>5, <1>6 DEF LaysOut
<1> QED BY <1>5, <1>6, <1>8, <1>9, <1>10 DEF Alongside

\* The elements that are kept, in their order.
KeepsThose(flat, seq, keep, n) ==
    /\ \A p \in 1..Len(flat) : \E k \in 1..n : keep[k] /\ flat[p] = seq[k]
    /\ \A k \in 1..n : keep[k] => \E p \in 1..Len(flat) : flat[p] = seq[k]

\* Filtering keeps those elements and no others.
LEMMA Kept ==
    ASSUME NEW S, NEW n \in Nat, NEW seq \in [1..n -> S], NEW keep \in [1..n -> BOOLEAN],
           NEW flat, flat = FlattenSeq([k \in 1..n |-> IF keep[k] THEN <<seq[k]>> ELSE << >>])
    PROVE  flat \in Seq(S) /\ KeepsThose(flat, seq, keep, n)
<1> DEFINE pieces == [k \in 1..n |-> IF keep[k] THEN <<seq[k]>> ELSE << >>]
           len == [k \in 1..n |-> Len(pieces[k])]
<1>1. \A k \in 1..n : /\ pieces[k] \in Seq(S)
                      /\ keep[k] => Len(pieces[k]) = 1 /\ pieces[k][1] = seq[k]
                      /\ ~keep[k] => Len(pieces[k]) = 0
  OBVIOUS
<1>2. pieces \in [1..n -> Seq(S)]
  <2>1. pieces = [k \in 1..n |-> pieces[k]]
    OBVIOUS
  <2> HIDE DEF pieces
  <2> QED BY <1>1, <2>1
<1>3. flat = FlattenSeq(pieces)
  OBVIOUS
<1> HIDE DEF pieces
<1>4. len \in [1..n -> Nat]
  BY <1>1
<1>5. PICK start \in [0..n -> Nat] :
          start[0] = 0 /\ \A k \in 0..(n - 1) : start[k + 1] = start[k] + len[k + 1]
  <2> HIDE DEF len
  <2> QED BY <1>4, Starts
<1>6. StartsOf(start, pieces, n)
  <2>1. \A k \in 0..(n - 1) : len[k + 1] = Len(pieces[k + 1])
    OBVIOUS
  <2> HIDE DEF len
  <2> QED BY <1>5, <2>1 DEF StartsOf
<1>7. flat \in Seq(S) /\ LaysOut(flat, pieces, start, n)
  BY <1>2, <1>3, <1>6, Flattened
<1>8. ASSUME NEW p \in 1..Len(flat) PROVE \E k \in 1..n : keep[k] /\ flat[p] = seq[k]
  <2>1. p \in 1..start[n]
    BY <1>7 DEF LaysOut
  <2>2. PICK i \in 1..n : \E j \in 1..Len(pieces[i]) : p = start[i - 1] + j
    BY <1>7, <2>1 DEF LaysOut
  <2>3. PICK j \in 1..Len(pieces[i]) : p = start[i - 1] + j
    BY <2>2
  <2>4. flat[p] = pieces[i][j]
    BY <1>7, <2>3 DEF LaysOut
  <2>5. keep[i]
    <3>1. Len(pieces[i]) # 0
      BY <1>1, <2>3
    <3> QED BY <1>1, <3>1
  <2>6. j = 1 /\ pieces[i][1] = seq[i]
    <3>1. Len(pieces[i]) = 1 /\ pieces[i][1] = seq[i]
      BY <1>1, <2>5
    <3>2. j \in 1..1
      BY <2>3, <3>1
    <3> QED BY <3>1, <3>2
  <2> QED BY <2>4, <2>5, <2>6
<1>9. ASSUME NEW k \in 1..n, keep[k] PROVE \E p \in 1..Len(flat) : flat[p] = seq[k]
  <2>1. 1 \in 1..Len(pieces[k])
    BY <1>1, <1>9
  <2>2. start[k - 1] + 1 \in 1..start[n] /\ flat[start[k - 1] + 1] = pieces[k][1]
    BY <1>7, <2>1 DEF LaysOut
  <2>3. 1..start[n] = 1..Len(flat)
    BY <1>7 DEF LaysOut
  <2> DEFINE p == start[k - 1] + 1
  <2>4. p \in 1..Len(flat) /\ flat[p] = seq[k]
    BY <1>1, <1>9, <2>2, <2>3
  <2> HIDE DEF p
  <2> QED BY <2>4
<1> QED BY <1>7, <1>8, <1>9 DEF KeepsThose

-----------------------------------------------------------------------------
(* Division. *)

\* Quotient and remainder, and numbers made of them.
LEMMA Division ==
    ASSUME NEW a \in Nat, NEW b \in Nat \ {0}
    PROVE  /\ a \div b \in Nat /\ a % b \in 0..(b - 1)
           /\ a = b * (a \div b) + (a % b)
OBVIOUS

\* The quotient and the remainder of a number given by them.
LEMMA Quotient ==
    ASSUME NEW b \in Nat \ {0}, NEW q \in Nat, NEW r \in 0..(b - 1)
    PROVE  (b * q + r) \div b = q /\ (b * q + r) % b = r
OBVIOUS

\* Products are in the order of their factors.
LEMMA Order ==
    ASSUME NEW a \in Nat, NEW b \in Nat, NEW c \in Nat, a <= b PROVE a * c <= b * c
OBVIOUS

\* The quotient of what is below a product.
LEMMA QuotientBelow ==
    ASSUME NEW a \in Nat, NEW b \in Nat \ {0}, NEW c \in Nat, a < b * c
    PROVE  a \div b < c
OBVIOUS

-----------------------------------------------------------------------------
(* Flattening. *)

\* Sequences are equal when they are element by element.
LEMMA SameSeq ==
    ASSUME NEW S, NEW T, NEW s \in Seq(S), NEW t \in Seq(T), Len(s) = Len(t),
           \A k \in 1..Len(s) : s[k] = t[k]
    PROVE  s = t
<1>1. DOMAIN s = 1..Len(s) /\ DOMAIN t = 1..Len(s)
  OBVIOUS
<1>2. s = [k \in 1..Len(s) |-> s[k]] /\ t = [k \in 1..Len(s) |-> t[k]]
  BY <1>1
<1> QED BY <1>2

\* The pieces of any sequence of sequences start somewhere.
LEMMA StartsAre ==
    ASSUME NEW T, NEW n \in Nat, NEW seqs, seqs \in [1..n -> Seq(T)]
    PROVE  \E start : StartsOf(start, seqs, n)
<1> DEFINE len == [k \in 1..n |-> Len(seqs[k])]
<1>1. len \in [1..n -> Nat]
  <2> SUFFICES ASSUME NEW k \in 1..n PROVE Len(seqs[k]) \in Nat
    OBVIOUS
  <2>1. seqs[k] \in Seq(T)
    OBVIOUS
  <2> QED BY <2>1
<1>2. \A k \in 0..(n - 1) : len[k + 1] = Len(seqs[k + 1])
  OBVIOUS
<1> HIDE DEF len
<1>3. PICK start \in [0..n -> Nat] :
          start[0] = 0 /\ \A k \in 0..(n - 1) : start[k + 1] = start[k] + len[k + 1]
  BY <1>1, Starts
<1>4. StartsOf(start, seqs, n)
  BY <1>2, <1>3 DEF StartsOf
<1> QED BY <1>4

\* Another piece comes after the others.
LEMMA FlattenMore ==
    ASSUME NEW T, NEW n \in Nat, NEW seqs, seqs \in [1..(n + 1) -> Seq(T)],
           NEW old, old = [k \in 1..n |-> seqs[k]]
    PROVE  FlattenSeq(seqs) = FlattenSeq(old) \o seqs[n + 1] /\ FlattenSeq(seqs) \in Seq(T)
<1> DEFINE N == n + 1
           flat == FlattenSeq(seqs)
           a == FlattenSeq(old)
           b == seqs[n + 1]
<1>0. N \in Nat /\ n + 1 \in 1..N /\ n \in 0..(N - 1) /\ n \in 0..N
  OBVIOUS
<1>1. seqs \in [1..N -> Seq(T)]
  OBVIOUS
<1>2. PICK start : StartsOf(start, seqs, N)
  <2> HIDE DEF N
  <2> QED BY <1>0, <1>1, StartsAre
<1>3. old \in [1..n -> Seq(T)]
  OBVIOUS
<1> DEFINE first == [k \in 0..n |-> start[k]]
<1>4. StartsOf(first, old, n)
  <2>1. /\ start \in [0..N -> Nat] /\ start[0] = 0
        /\ \A k \in 0..(N - 1) : start[k + 1] = start[k] + Len(seqs[k + 1])
    BY <1>2 DEF StartsOf
  <2>2. first \in [0..n -> Nat] /\ first[0] = 0
    BY <2>1
  <2>3. \A k \in 0..(n - 1) : first[k + 1] = first[k] + Len(old[k + 1])
    BY <2>1
  <2> HIDE DEF first
  <2> QED BY <2>2, <2>3 DEF StartsOf
<1>5. flat \in Seq(T) /\ LaysOut(flat, seqs, start, N)
  <2> HIDE DEF N
  <2> QED BY <1>0, <1>1, <1>2, Flattened
<1>6. a \in Seq(T) /\ LaysOut(a, old, first, n)
  <2> HIDE DEF first
  <2> QED BY <1>3, <1>4, Flattened
<1>7. first[n] = start[n] /\ \A i \in 1..n : first[i - 1] = start[i - 1]
  OBVIOUS
<1>8. start[n] \in Nat /\ start[N] = start[n] + Len(b) /\ \A i \in 0..N : start[i] \in Nat
  BY <1>0, <1>2 DEF StartsOf
<1>9. b \in Seq(T)
  BY <1>0, <1>1
<1>10. \A i \in 1..n : old[i] = seqs[i]
  OBVIOUS
<1>11. Len(a) = start[n] /\ Len(flat) = start[n] + Len(b)
  BY <1>5, <1>6, <1>7, <1>8 DEF LaysOut
<1>12. /\ a \o b \in Seq(T) /\ Len(a) \in Nat /\ Len(b) \in Nat
       /\ Len(a \o b) = Len(a) + Len(b)
       /\ \A p \in 1..Len(a) : (a \o b)[p] = a[p]
       /\ \A j \in 1..Len(b) : (a \o b)[Len(a) + j] = b[j]
  <2> HIDE DEF a, b
  <2> QED BY <1>6, <1>9, Joined
<1>13. ASSUME NEW p \in 1..Len(flat) PROVE flat[p] = (a \o b)[p]
  <2>1. CASE p \in 1..Len(a)
    <3>1. p \in 1..first[n]
      BY <2>1, <1>6, <1>7, <1>11
    <3>2. PICK i \in 1..n : \E j \in 1..Len(old[i]) : p = first[i - 1] + j
      BY <3>1, <1>6 DEF LaysOut
    <3>3. PICK j \in 1..Len(old[i]) : p = first[i - 1] + j
      BY <3>2
    <3>4. a[p] = old[i][j]
      BY <3>3, <1>6 DEF LaysOut
    <3>5. i \in 1..N /\ j \in 1..Len(seqs[i]) /\ p = start[i - 1] + j
      BY <1>7, <1>10, <3>3
    <3>6. flat[p] = seqs[i][j]
      BY <3>5, <1>5 DEF LaysOut
    <3> HIDE DEF a, b, flat, first
    <3> QED BY <2>1, <3>4, <3>6, <1>10, <1>12
  <2>2. CASE p \notin 1..Len(a)
    <3> DEFINE j == p - Len(a)
    <3>1. j \in 1..Len(b) /\ p = Len(a) + j
      BY <2>2, <1>11, <1>12, <1>13
    <3> HIDE DEF j, a, b, flat
    <3>2. p = start[(n + 1) - 1] + j
      <4>1. (n + 1) - 1 = n
        OBVIOUS
      <4>2. p = start[n] + j
        BY <3>1, <1>11
      <4> QED BY <4>1, <4>2
    <3>3. flat[p] = seqs[n + 1][j]
      BY <3>1, <3>2, <1>0, <1>5 DEF LaysOut, b
    <3>4. (a \o b)[p] = b[j]
      BY <3>1, <1>12
    <3> QED BY <3>3, <3>4 DEF b
  <2> QED BY <2>1, <2>2
<1>14. Len(flat) = Len(a \o b)
  BY <1>11, <1>12
<1> HIDE DEF a, b, flat
<1>15. flat = a \o b
  BY <1>5, <1>12, <1>13, <1>14, SameSeq
<1> QED BY <1>5, <1>15 DEF a, b, flat

\* The elements of a list with a tag.
Tagged(x, list) == [k \in DOMAIN list |-> <<x, list[k]>>]

\* What a tagged list is.
LEMMA TaggedSeq ==
    ASSUME NEW T, NEW list, list \in Seq(T), NEW x
    PROVE  Tagged(x, list) \in Seq({x} \X T) /\ Len(Tagged(x, list)) = Len(list)
<1> DEFINE t == Tagged(x, list)
           U == {x} \X T
           n == Len(list)
<1>1. n \in Nat /\ DOMAIN list = 1..n /\ \A k \in 1..n : list[k] \in T
  OBVIOUS
<1>2. t = [k \in 1..n |-> <<x, list[k]>>]
  BY <1>1 DEF Tagged
<1>3. \A k \in 1..n : <<x, list[k]>> \in U
  BY <1>1
<1> HIDE DEF t, U, n
<1>4. t \in [1..n -> U]
  BY <1>2, <1>3
<1>5. t \in Seq(U) /\ Len(t) = n
  BY <1>1, <1>4
<1> QED BY <1>5 DEF t, U, n

\* Tagging the pieces is tagging the whole.
TaggedPieces(x, a) == [i \in DOMAIN a |-> Tagged(x, a[i])]

\* Flattening tagged pieces is tagging the flattened ones.
LEMMA FlattenTagged ==
    ASSUME NEW T, NEW n \in Nat, NEW a, a \in [1..n -> Seq(T)], NEW x,
           NEW b, b = TaggedPieces(x, a)
    PROVE  /\ FlattenSeq(b) = Tagged(x, FlattenSeq(a)) /\ FlattenSeq(a) \in Seq(T)
<1> DEFINE U == {x} \X T
           fa == FlattenSeq(a)
           fb == FlattenSeq(b)
<1>b. b = [i \in 1..n |-> Tagged(x, a[i])]
  BY DEF TaggedPieces
<1>1. \A i \in 1..n : a[i] \in Seq(T)
  OBVIOUS
<1>2. \A i \in 1..n : Tagged(x, a[i]) \in Seq(U) /\ Len(Tagged(x, a[i])) = Len(a[i])
  BY <1>1, TaggedSeq
<1> HIDE DEF U
<1>3. b \in [1..n -> Seq(U)] /\ \A i \in 1..n : Len(a[i]) = Len(b[i])
  BY <1>2, <1>b
<1>4. fa \in Seq(T) /\ fb \in Seq(U) /\ Alongside(fa, fb, a, b, n)
  BY <1>3, SideBySide
<1>5. Tagged(x, fa) \in Seq(U) /\ Len(Tagged(x, fa)) = Len(fa)
  BY <1>4, TaggedSeq DEF U
<1>6. ASSUME NEW p \in 1..Len(fb) PROVE fb[p] = Tagged(x, fa)[p]
  <2>1. p \in 1..Len(fa) /\ Len(fa) = Len(fb)
    BY <1>4, <1>6 DEF Alongside
  <2>2. PICK i \in 1..n : \E j \in 1..Len(a[i]) : fa[p] = a[i][j] /\ fb[p] = b[i][j]
    BY <1>4, <2>1 DEF Alongside
  <2>3. PICK j \in 1..Len(a[i]) : fa[p] = a[i][j] /\ fb[p] = b[i][j]
    BY <2>2
  <2>4. j \in DOMAIN a[i]
    BY <1>1, <2>3
  <2>5. b[i][j] = <<x, a[i][j]>>
    BY <1>b, <2>4 DEF Tagged
  <2>6. p \in DOMAIN fa
    BY <1>4, <2>1
  <2> QED BY <2>3, <2>5, <2>6 DEF Tagged
<1>7. Len(fb) = Len(Tagged(x, fa))
  BY <1>4, <1>5 DEF Alongside
<1> HIDE DEF fa, fb
<1>8. fb = Tagged(x, fa)
  BY <1>4, <1>5, <1>6, <1>7, SameSeq
<1> QED BY <1>4, <1>8 DEF fa, fb

\* How many of the places up to k have a piece; the others are empty.
Scattered(c, seqs, pieces, N, n) ==
    /\ c \in [0..N -> 0..n] /\ c[0] = 0 /\ c[N] = n
    /\ \A k \in 1..N : \/ c[k] = c[k - 1] /\ seqs[k] = << >>
                       \/ c[k] = c[k - 1] + 1 /\ seqs[k] = pieces[c[k]]

\* Empty sequences between the pieces make no difference.
LEMMA FlattenScattered ==
    ASSUME NEW T, NEW n, n \in Nat, NEW pieces, pieces \in [1..n -> Seq(T)],
           NEW N, N \in Nat, NEW seqs, seqs \in [1..N -> Seq(T)],
           NEW c, Scattered(c, seqs, pieces, N, n)
    PROVE  FlattenSeq(seqs) = FlattenSeq(pieces) /\ FlattenSeq(pieces) \in Seq(T)
<1> DEFINE fa == FlattenSeq(pieces)
           fb == FlattenSeq(seqs)
<1>1. PICK start : StartsOf(start, pieces, n)
  BY StartsAre
<1> DEFINE first == [k \in 0..N |-> start[c[k]]]
<1>2. c \in [0..N -> 0..n] /\ c[0] = 0 /\ c[N] = n
  BY DEF Scattered
<1>3. /\ start \in [0..n -> Nat] /\ start[0] = 0
      /\ \A k \in 0..(n - 1) : start[k + 1] = start[k] + Len(pieces[k + 1])
  BY <1>1 DEF StartsOf
<1>4. first \in [0..N -> Nat] /\ first[0] = 0 /\ first[N] = start[n]
  <2>1. 0 \in 0..N /\ N \in 0..N
    OBVIOUS
  <2> QED BY <1>2, <1>3, <2>1
<1>5. ASSUME NEW k \in 0..(N - 1) PROVE first[k + 1] = first[k] + Len(seqs[k + 1])
  <2>1. k + 1 \in 1..N /\ (k + 1) - 1 = k /\ k \in 0..N /\ k + 1 \in 0..N
    OBVIOUS
  <2>2. \/ c[k + 1] = c[k] /\ seqs[k + 1] = << >>
        \/ c[k + 1] = c[k] + 1 /\ seqs[k + 1] = pieces[c[k + 1]]
    <3>1. \/ c[k + 1] = c[(k + 1) - 1] /\ seqs[k + 1] = << >>
          \/ c[k + 1] = c[(k + 1) - 1] + 1 /\ seqs[k + 1] = pieces[c[k + 1]]
      BY <2>1 DEF Scattered
    <3> QED BY <2>1, <3>1
  <2>3. first[k + 1] = start[c[k + 1]] /\ first[k] = start[c[k]]
    BY <2>1
  <2>4. c[k] \in 0..n /\ c[k + 1] \in 0..n
    BY <2>1, <1>2
  <2>5. start[c[k]] \in Nat
    BY <2>4, <1>3
  <2> HIDE DEF first
  <2>6. CASE c[k + 1] = c[k] /\ seqs[k + 1] = << >>
    <3>1. Len(<< >>) = 0
      OBVIOUS
    <3> QED BY <2>3, <2>5, <2>6, <3>1
  <2>7. CASE c[k + 1] = c[k] + 1 /\ seqs[k + 1] = pieces[c[k + 1]]
    <3>1. c[k] \in 0..(n - 1)
      BY <2>4, <2>7
    <3>2. start[c[k] + 1] = start[c[k]] + Len(pieces[c[k] + 1])
      BY <1>3, <3>1
    <3> QED BY <2>3, <2>7, <3>2
  <2> QED BY <2>2, <2>6, <2>7
<1> HIDE DEF first
<1>6. StartsOf(first, seqs, N)
  BY <1>4, <1>5 DEF StartsOf
<1>7. fa \in Seq(T) /\ LaysOut(fa, pieces, start, n)
  BY <1>1, Flattened
<1>8. fb \in Seq(T) /\ LaysOut(fb, seqs, first, N)
  BY <1>6, Flattened
<1>9. Len(fa) = start[n] /\ Len(fb) = start[n]
  BY <1>4, <1>7, <1>8 DEF LaysOut
<1>10. ASSUME NEW p \in 1..Len(fb) PROVE fb[p] = fa[p]
  <2>1. p \in 1..first[N]
    BY <1>4, <1>9
  <2>2. PICK k \in 1..N : \E j \in 1..Len(seqs[k]) : p = first[k - 1] + j
    BY <1>8, <2>1 DEF LaysOut
  <2>3. PICK j \in 1..Len(seqs[k]) : p = first[k - 1] + j
    BY <2>2
  <2>4. fb[p] = seqs[k][j]
    BY <1>8, <2>3 DEF LaysOut
  <2>5. seqs[k] # << >>
    <3>1. Len(<< >>) = 0 /\ 1..0 = {}
      OBVIOUS
    <3> QED BY <2>3, <3>1
  <2>6. c[k] = c[k - 1] + 1 /\ seqs[k] = pieces[c[k]]
    BY <2>5 DEF Scattered
  <2>7. k - 1 \in 0..N /\ k \in 0..N
    OBVIOUS
  <2>8. c[k] \in 1..n /\ c[k] - 1 = c[k - 1]
    <3> DEFINE x == c[k - 1]
               y == c[k]
    <3>1. x \in 0..n /\ y \in 0..n
      BY <1>2, <2>7
    <3>2. y = x + 1
      BY <2>6
    <3> HIDE DEF x, y
    <3>3. y \in 1..n /\ y - 1 = x
      BY <3>1, <3>2
    <3> QED BY <3>3 DEF x, y
  <2>9. first[k - 1] = start[c[k] - 1]
    BY <2>7, <2>8 DEF first
  <2>10. fa[start[c[k] - 1] + j] = pieces[c[k]][j]
    <3> DEFINE i == c[k]
    <3>1. i \in 1..n /\ j \in 1..Len(pieces[i])
      BY <2>3, <2>6, <2>8
    <3> HIDE DEF i
    <3>2. fa[start[i - 1] + j] = pieces[i][j]
      BY <1>7, <3>1 DEF LaysOut
    <3> QED BY <3>2 DEF i
  <2> QED BY <2>3, <2>4, <2>6, <2>9, <2>10
<1> HIDE DEF fa, fb
<1>11. fb = fa
  BY <1>7, <1>8, <1>9, <1>10, SameSeq
<1> QED BY <1>7, <1>11 DEF fa, fb

(* Lists of elements that are all different. *)

\* A list without repetition.
Distinct(list, S) ==
    /\ list \in Seq(S)
    /\ \A k, l \in 1..Len(list) : list[k] = list[l] => k = l

\* Pieces that have no element in common, nor one of them twice.
Apart(pieces, n) ==
    \A k, l \in 1..n : \A i \in 1..Len(pieces[k]) : \A j \in 1..Len(pieces[l]) :
        pieces[k][i] = pieces[l][j] => k = l /\ i = j

\* What two equal elements of such pieces are.
LEMMA ApartAt ==
    ASSUME NEW pieces, NEW n, Apart(pieces, n), NEW k \in 1..n, NEW l \in 1..n,
           NEW i \in 1..Len(pieces[k]), NEW j \in 1..Len(pieces[l]), pieces[k][i] = pieces[l][j]
    PROVE  k = l /\ i = j
BY DEF Apart

\* Such pieces, one after the other, are a list without repetition, of their elements.
AllOf(list, pieces, n) ==
    /\ \A p \in 1..Len(list) : \E k \in 1..n : \E i \in 1..Len(pieces[k]) : list[p] = pieces[k][i]
    /\ \A k \in 1..n : \A i \in 1..Len(pieces[k]) : \E p \in 1..Len(list) : list[p] = pieces[k][i]

\* The elements of the list such pieces flatten to.
LEMMA ApartFlattens ==
    ASSUME NEW S, NEW n, n \in Nat, NEW pieces, pieces \in [1..n -> Seq(S)], Apart(pieces, n)
    PROVE  Distinct(FlattenSeq(pieces), S) /\ AllOf(FlattenSeq(pieces), pieces, n)
<1> DEFINE flat == FlattenSeq(pieces)
<1>1. PICK start : StartsOf(start, pieces, n)
  BY StartsAre
<1>2. flat \in Seq(S) /\ LaysOut(flat, pieces, start, n)
  BY <1>1, Flattened
<1> HIDE DEF flat
<1>3. Len(flat) = start[n]
  BY <1>2 DEF LaysOut
<1>4. ASSUME NEW p \in 1..Len(flat)
      PROVE  \E k \in 1..n : \E i \in 1..Len(pieces[k]) :
                 p = start[k - 1] + i /\ flat[p] = pieces[k][i]
  <2>1. PICK k \in 1..n : \E i \in 1..Len(pieces[k]) : p = start[k - 1] + i
    BY <1>2, <1>3, <1>4 DEF LaysOut
  <2>2. PICK i \in 1..Len(pieces[k]) : p = start[k - 1] + i
    BY <2>1
  <2>3. flat[start[k - 1] + i] = pieces[k][i]
    BY <1>2 DEF LaysOut
  <2> QED BY <2>2, <2>3
<1>5. ASSUME NEW p \in 1..Len(flat), NEW q \in 1..Len(flat), flat[p] = flat[q] PROVE p = q
  <2>1. PICK k \in 1..n : \E i \in 1..Len(pieces[k]) :
            p = start[k - 1] + i /\ flat[p] = pieces[k][i]
    BY <1>4
  <2>2. PICK i \in 1..Len(pieces[k]) : p = start[k - 1] + i /\ flat[p] = pieces[k][i]
    BY <2>1
  <2>3. PICK l \in 1..n : \E j \in 1..Len(pieces[l]) :
            q = start[l - 1] + j /\ flat[q] = pieces[l][j]
    BY <1>4
  <2>4. PICK j \in 1..Len(pieces[l]) : q = start[l - 1] + j /\ flat[q] = pieces[l][j]
    BY <2>3
  <2>5. k = l /\ i = j
    BY <1>5, <2>2, <2>4 DEF Apart
  <2> QED BY <2>2, <2>4, <2>5
<1>6. AllOf(flat, pieces, n)
  <2>1. \A p \in 1..Len(flat) : \E k \in 1..n : \E i \in 1..Len(pieces[k]) : flat[p] = pieces[k][i]
    BY <1>4
  <2>2. \A k \in 1..n : \A i \in 1..Len(pieces[k]) : \E p \in 1..Len(flat) : flat[p] = pieces[k][i]
    BY <1>2, <1>3 DEF LaysOut
  <2> QED BY <2>1, <2>2 DEF AllOf
<1> QED BY <1>2, <1>5, <1>6 DEF Distinct, flat

\* Pieces of the same size.
Tied(ws, S, e) ==
    /\ ws \in Seq(Seq(S)) /\ \A k \in 1..Len(ws) : Len(ws[k]) = e
    /\ Apart(ws, Len(ws))

\* Where the pieces of one size are.
Evenly(flat, ws, e) ==
    /\ Len(flat) = Len(ws) * e
    /\ \A k \in 1..Len(ws) : \A i \in 1..e : flat[(k - 1) * e + i] = ws[k][i]
    /\ \A p \in 1..Len(flat) : \E k \in 1..Len(ws) : \E i \in 1..e : p = (k - 1) * e + i

\* Pieces of one size, one after the other.
LEMMA TiedFlattens ==
    ASSUME NEW S, NEW e, e \in Nat, NEW ws, Tied(ws, S, e)
    PROVE  /\ Distinct(FlattenSeq(ws), S) /\ AllOf(FlattenSeq(ws), ws, Len(ws))
           /\ Evenly(FlattenSeq(ws), ws, e)
<1> DEFINE n == Len(ws)
           flat == FlattenSeq(ws)
           start == [k \in 0..n |-> k * e]
<1>1. n \in Nat /\ ws \in [1..n -> Seq(S)] /\ Apart(ws, n)
  BY DEF Tied
<1>2. Distinct(flat, S) /\ AllOf(flat, ws, n)
  BY <1>1, ApartFlattens
<1>3. StartsOf(start, ws, n)
  <2>1. start \in [0..n -> Nat] /\ start[0] = 0
    BY <1>1
  <2>2. ASSUME NEW k \in 0..(n - 1) PROVE start[k + 1] = start[k] + Len(ws[k + 1])
    <3>1. k + 1 \in 1..n /\ k \in 0..n /\ k + 1 \in 0..n
      BY <1>1
    <3>2. Len(ws[k + 1]) = e
      BY <3>1 DEF Tied
    <3>3. (k + 1) * e = k * e + e
      BY <1>1, <3>1
    <3> QED BY <3>1, <3>2, <3>3
  <2> QED BY <2>1, <2>2 DEF StartsOf
<1>4. LaysOut(flat, ws, start, n)
  BY <1>1, <1>3, Flattened
<1>5. \A k \in 1..n : Len(ws[k]) = e /\ start[k - 1] = (k - 1) * e
  BY <1>1 DEF Tied
<1>6. start[n] = n * e
  BY <1>1
<1> HIDE DEF flat, start
<1>7. \A k \in 1..n : \A i \in 1..e : flat[(k - 1) * e + i] = ws[k][i]
  BY <1>4, <1>5 DEF LaysOut
<1>8. ASSUME NEW p \in 1..Len(flat)
      PROVE  \E k \in 1..n : \E i \in 1..e : p = (k - 1) * e + i
  <2>1. p \in 1..start[n]
    BY <1>4 DEF LaysOut
  <2>2. PICK k \in 1..n : \E i \in 1..Len(ws[k]) : p = start[k - 1] + i
    BY <1>4, <2>1 DEF LaysOut
  <2>3. PICK i \in 1..Len(ws[k]) : p = start[k - 1] + i
    BY <2>2
  <2>4. Len(ws[k]) = e /\ start[k - 1] = (k - 1) * e
    BY <1>5
  <2>5. i \in 1..e /\ p = (k - 1) * e + i
    BY <2>3, <2>4
  <2> QED BY <2>5
<1>9. Len(flat) = n * e
  BY <1>4, <1>6 DEF LaysOut
<1>10. Evenly(flat, ws, e)
  BY <1>7, <1>8, <1>9 DEF Evenly
<1> QED BY <1>2, <1>10 DEF flat

\* Lists of such pieces, one after the other.
LEMMA TiedPieces ==
    ASSUME NEW S, NEW e, e \in Nat \ {0}, NEW n, n \in Nat,
           NEW pieces, pieces \in [1..n -> Seq(Seq(S))], \A g \in 1..n : Tied(pieces[g], S, e),
           \A g, h \in 1..n : \A k \in 1..Len(pieces[g]), l \in 1..Len(pieces[h]) :
               \A i, j \in 1..e : pieces[g][k][i] = pieces[h][l][j] => g = h
    PROVE  Tied(FlattenSeq(pieces), S, e) /\ AllOf(FlattenSeq(pieces), pieces, n)
<1> DEFINE flat == FlattenSeq(pieces)
<1>1. ASSUME NEW g \in 1..n, NEW h \in 1..n, NEW k \in 1..Len(pieces[g]), NEW l \in 1..Len(pieces[h]),
             NEW i \in 1..e, NEW j \in 1..e, pieces[g][k][i] = pieces[h][l][j]
      PROVE  g = h /\ k = l /\ i = j
  <2>1. g = h
    BY <1>1
  <2>2. /\ Apart(pieces[g], Len(pieces[g])) /\ Len(pieces[g][k]) = e /\ Len(pieces[g][l]) = e
        /\ l \in 1..Len(pieces[g]) /\ pieces[g][k][i] = pieces[g][l][j]
    BY <1>1, <2>1 DEF Tied
  <2> DEFINE ws == pieces[g]
  <2>3. /\ Apart(ws, Len(ws)) /\ k \in 1..Len(ws) /\ l \in 1..Len(ws)
        /\ i \in 1..Len(ws[k]) /\ j \in 1..Len(ws[l]) /\ ws[k][i] = ws[l][j]
    BY <2>2
  <2> HIDE DEF ws
  <2>4. k = l /\ i = j
    BY ONLY <2>3, ApartAt
  <2> QED BY <2>1, <2>4
<1>2. Apart(pieces, n)
  <2> SUFFICES ASSUME NEW g \in 1..n, NEW h \in 1..n, NEW k \in 1..Len(pieces[g]),
                      NEW l \in 1..Len(pieces[h]), pieces[g][k] = pieces[h][l]
               PROVE  g = h /\ k = l
    BY DEF Apart
  <2>1. 1 \in 1..e
    OBVIOUS
  <2>2. \A i, j \in 1..e : pieces[g][k][i] = pieces[h][l][j] => g = h /\ k = l /\ i = j
    BY <1>1
  <2> QED BY <2>1, <2>2
<1>3. Distinct(flat, Seq(S)) /\ AllOf(flat, pieces, n)
  BY <1>2, ApartFlattens
<1> HIDE DEF flat
<1>4. ASSUME NEW p \in 1..Len(flat) PROVE Len(flat[p]) = e
  <2>1. PICK g \in 1..n : \E k \in 1..Len(pieces[g]) : flat[p] = pieces[g][k]
    BY <1>3 DEF AllOf
  <2>2. PICK k \in 1..Len(pieces[g]) : flat[p] = pieces[g][k]
    BY <2>1
  <2> QED BY <2>2 DEF Tied
<1>5. Apart(flat, Len(flat))
  <2> SUFFICES ASSUME NEW p \in 1..Len(flat), NEW q \in 1..Len(flat), NEW i \in 1..e, NEW j \in 1..e,
                      flat[p][i] = flat[q][j]
               PROVE  p = q /\ i = j
    BY <1>4 DEF Apart
  <2>1. PICK g \in 1..n : \E k \in 1..Len(pieces[g]) : flat[p] = pieces[g][k]
    BY <1>3 DEF AllOf
  <2>2. PICK k \in 1..Len(pieces[g]) : flat[p] = pieces[g][k]
    BY <2>1
  <2>3. PICK h \in 1..n : \E l \in 1..Len(pieces[h]) : flat[q] = pieces[h][l]
    BY <1>3 DEF AllOf
  <2>4. PICK l \in 1..Len(pieces[h]) : flat[q] = pieces[h][l]
    BY <2>3
  <2>5. g = h /\ k = l /\ i = j
    BY <1>1, <2>2, <2>4
  <2>6. flat[p] = flat[q]
    BY <2>2, <2>4, <2>5
  <2> QED BY <1>3, <2>5, <2>6 DEF Distinct
<1>6. flat \in Seq(Seq(S))
  BY <1>3 DEF Distinct
<1> QED BY <1>3, <1>4, <1>5, <1>6 DEF Tied, flat

\* A list without repetition has as many elements as places.
LEMMA DistinctCounts ==
    ASSUME NEW S, NEW list, Distinct(list, S)
    PROVE  IsFiniteSet(ToSet(list)) /\ Cardinality(ToSet(list)) = Len(list) /\ ToSet(list) \subseteq S
<1> DEFINE n == Len(list)
           D == 1..n
           f == [k \in D |-> list[k]]
<1>1. n \in Nat /\ list \in [D -> S] /\ DOMAIN list = D
  BY DEF Distinct
<1>2. IsFiniteSet(D) /\ Cardinality(D) = n
  BY <1>1, FS_Interval
<1>3. f \in [D -> S] /\ \A x, y \in D : f[x] = f[y] => x = y
  BY <1>1 DEF Distinct
<1>4. ToSet(list) = {f[x] : x \in D}
  BY <1>1 DEF ToSet
<1> HIDE DEF n, D, f
<1>5. IsFiniteSet({f[x] : x \in D}) /\ Cardinality({f[x] : x \in D}) = Cardinality(D)
  BY <1>2, <1>3, FiniteImage
<1>6. \A x \in D : f[x] \in S
  BY <1>3
<1> QED BY <1>1, <1>2, <1>4, <1>5, <1>6 DEF n

\* Another piece after the others.
LEMMA AppendTied ==
    ASSUME NEW S, NEW e, NEW ws, Tied(ws, S, e), NEW g, Distinct(g, S), Len(g) = e,
           \A k \in 1..Len(ws) : \A i \in 1..Len(ws[k]) : \A j \in 1..Len(g) : ws[k][i] # g[j]
    PROVE  /\ Tied(Append(ws, g), S, e) /\ Len(Append(ws, g)) = Len(ws) + 1 /\ Len(ws) \in Nat
           /\ \A k \in 1..Len(ws) : Append(ws, g)[k] = ws[k]
           /\ Append(ws, g)[Len(ws) + 1] = g
<1> DEFINE n == Len(ws)
           all == Append(ws, g)
<1>1. ws \in Seq(Seq(S)) /\ g \in Seq(S) /\ Apart(ws, n) /\ \A k \in 1..n : Len(ws[k]) = e
  BY DEF Tied, Distinct
<1>2. /\ all \in Seq(Seq(S)) /\ Len(all) = n + 1 /\ n \in Nat
      /\ (\A k \in 1..n : all[k] = ws[k]) /\ all[n + 1] = g
  BY <1>1
<1> HIDE DEF n, all
<1>3. \A k \in 1..(n + 1) : k \in 1..n \/ k = n + 1
  BY <1>2
<1>4. \A k \in 1..(n + 1) : Len(all[k]) = e
  BY <1>1, <1>2, <1>3
<1>5. Apart(all, n + 1)
  <2> SUFFICES ASSUME NEW k \in 1..(n + 1), NEW l \in 1..(n + 1), NEW i \in 1..Len(all[k]),
                      NEW j \in 1..Len(all[l]), all[k][i] = all[l][j]
               PROVE  k = l /\ i = j
    BY DEF Apart
  <2>1. CASE k \in 1..n /\ l \in 1..n
    <3>1. all[k] = ws[k] /\ all[l] = ws[l]
      BY <1>2, <2>1
    <3>2. i \in 1..Len(ws[k]) /\ j \in 1..Len(ws[l]) /\ ws[k][i] = ws[l][j]
      BY <3>1
    <3> QED BY ONLY <1>1, <2>1, <3>2, ApartAt
  <2>2. CASE k = n + 1 /\ l = n + 1
    <3>1. all[k] = g /\ all[l] = g
      BY <1>2, <2>2
    <3> QED BY <2>2, <3>1 DEF Distinct
  <2>3. CASE k \in 1..n /\ l = n + 1
    <3>1. all[k] = ws[k] /\ all[l] = g
      BY <1>2, <2>3
    <3> QED BY <2>3, <3>1 DEF n
  <2>4. CASE k = n + 1 /\ l \in 1..n
    <3>1. all[k] = g /\ all[l] = ws[l]
      BY <1>2, <2>4
    <3> QED BY <2>4, <3>1 DEF n
  <2> QED BY <1>3, <2>1, <2>2, <2>3, <2>4
<1> QED BY <1>2, <1>4, <1>5 DEF Tied, n, all

\* Workers on single GPUs are on different ones.
LEMMA SinglesAreApart ==
    ASSUME NEW S, NEW ws, Tied(ws, S, 1)
    PROVE  /\ Len(ws) \in Nat
           /\ \A k, l \in 1..Len(ws) : ws[k][1] = ws[l][1] => k = l
<1>1. /\ ws \in Seq(Seq(S)) /\ (\A k \in 1..Len(ws) : Len(ws[k]) = 1) /\ Apart(ws, Len(ws))
  BY DEF Tied
<1>2. ASSUME NEW k \in 1..Len(ws), NEW l \in 1..Len(ws), ws[k][1] = ws[l][1] PROVE k = l
  <2>1. 1 \in 1..Len(ws[k]) /\ 1 \in 1..Len(ws[l])
    <3>1. Len(ws[k]) = 1 /\ Len(ws[l]) = 1 /\ 1 \in 1..1
      BY <1>1
    <3> QED BY ONLY <3>1
  <2> QED BY ONLY <1>1, <1>2, <2>1, ApartAt
<1> QED BY <1>1, <1>2

\* Pieces of one size that go on numbering where the piece before them ends.
Numbers(pieces, W, E, e) ==
    /\ pieces \in [1..E -> Seq(Nat)]
    /\ \A k \in 1..E : Len(pieces[k]) = e /\ \A i \in 1..e : pieces[k][i] = W + (k - 1) * e + i - 1
Counts(list, W, n) ==
    list \in Seq(Nat) /\ Len(list) = n /\ \A p \in 1..n : list[p] = W + p - 1

\* One after the other they are numbered throughout.
LEMMA NumbersCount ==
    ASSUME NEW W, W \in Nat, NEW E, E \in Nat, NEW e, e \in Nat \ {0},
           NEW pieces, Numbers(pieces, W, E, e)
    PROVE  Counts(FlattenSeq(pieces), W, E * e)
<1>1. /\ pieces \in [1..E -> Seq(Nat)] /\ pieces \in Seq(Seq(Nat)) /\ Len(pieces) = E
      /\ \A k \in 1..E : Len(pieces[k]) = e
      /\ \A k \in 1..E : \A i \in 1..e : pieces[k][i] = W + (k - 1) * e + i - 1
  BY DEF Numbers
<1>2. ASSUME NEW k \in 1..E, NEW l \in 1..E, NEW i \in 1..e, NEW j \in 1..e,
             pieces[k][i] = pieces[l][j]
      PROVE  k = l /\ i = j
  <2> DEFINE a == k - 1
             b == l - 1
             r == i - 1
             s == j - 1
  <2>1. a \in Nat /\ b \in Nat /\ r \in 0..(e - 1) /\ s \in 0..(e - 1)
    OBVIOUS
  <2>2. W + a * e + i - 1 = W + b * e + j - 1
    BY <1>1, <1>2
  <2>3. k = a + 1 /\ l = b + 1 /\ i = r + 1 /\ j = s + 1
    OBVIOUS
  <2> HIDE DEF a, b, r, s
  <2>4. e * a + r = e * b + s
    BY <2>1, <2>2, <2>3
  <2>5. a = b /\ r = s
    BY ONLY <2>1, <2>4, Quotient, e \in Nat \ {0}
  <2> QED BY <2>3, <2>5
<1>3. Tied(pieces, Nat, e)
  <2>1. Apart(pieces, E)
    BY <1>1, <1>2 DEF Apart
  <2> QED BY <1>1, <2>1 DEF Tied
<1>4. /\ FlattenSeq(pieces) \in Seq(Nat) /\ Len(FlattenSeq(pieces)) = E * e
      /\ \A k \in 1..E : \A i \in 1..e : FlattenSeq(pieces)[(k - 1) * e + i] = pieces[k][i]
      /\ \A p \in 1..Len(FlattenSeq(pieces)) : \E k \in 1..E : \E i \in 1..e : p = (k - 1) * e + i
  <2> DEFINE flat == FlattenSeq(pieces)
  <2>1. e \in Nat
    OBVIOUS
  <2>2. Distinct(flat, Nat) /\ Evenly(flat, pieces, e)
    BY ONLY <1>3, <2>1, TiedFlattens
  <2>3. flat \in Seq(Nat)
    BY <2>2 DEF Distinct
  <2>4. Len(pieces) = E
    BY <1>1
  <2> HIDE DEF flat
  <2>5. /\ Len(flat) = E * e
        /\ \A k \in 1..E : \A i \in 1..e : flat[(k - 1) * e + i] = pieces[k][i]
        /\ \A p \in 1..Len(flat) : \E k \in 1..E : \E i \in 1..e : p = (k - 1) * e + i
    BY <2>2, <2>4 DEF Evenly
  <2> QED BY <2>3, <2>5 DEF flat
<1>5. ASSUME NEW p \in 1..(E * e) PROVE FlattenSeq(pieces)[p] = W + p - 1
  <2>1. PICK k \in 1..E : \E i \in 1..e : p = (k - 1) * e + i
    BY <1>4
  <2>2. PICK i \in 1..e : p = (k - 1) * e + i
    BY <2>1
  <2> DEFINE m == (k - 1) * e
             flat == FlattenSeq(pieces)
  <2>3. flat[m + i] = pieces[k][i] /\ pieces[k][i] = W + m + i - 1 /\ p = m + i
    BY <1>1, <1>4, <2>2
  <2>4. m \in Nat
    OBVIOUS
  <2> HIDE DEF m, flat
  <2>5. flat[m + i] = W + m + i - 1 /\ p = m + i
    BY <2>3
  <2>6. flat[p] = W + p - 1
    BY ONLY <2>4, <2>5, W \in Nat, i \in 1..e, e \in Nat \ {0}
  <2> QED BY <2>6 DEF flat
<1> QED BY <1>4, <1>5 DEF Counts

(* Products. *)

\* The product of sizes is made one factor at a time.
SizeProduct(seq) == FoldLeft(LAMBDA n, axis : n * axis.size, 1, seq)

\* A product of sizes passes through the products of the first ones.
LEMMA SizesMultiply ==
    ASSUME NEW seq, NEW n \in Nat, DOMAIN seq = 1..n,
           NEW sizes, sizes \in [1..n -> Nat], \A k \in 1..n : seq[k].size = sizes[k]
    PROVE  \E h : Steps(h, Nat, 1, Times, sizes, n) /\ Ends(h, n, SizeProduct(seq))
<1> DEFINE Is(f) == f = [s \in SUBSET (1..n) |->
                       IF s = {} THEN 1 ELSE f[s \ {Max(s)}] * seq[Max(s)].size]
           C == CHOOSE f : Is(f)
<1>1. SizeProduct(seq) = C[1..n]
  <2>1. DOMAIN seq = 1..n
    OBVIOUS
  <2> QED BY <2>1, ZenonT(30) DEF SizeProduct, FoldLeft, MapThenFoldSet
<1>max. \A s \in SUBSET (1..n) : s # {} => Max(s) \in 1..n /\ s \ {Max(s)} \in SUBSET (1..n)
  BY Largest
<1> HIDE DEF Max
<1>3. \E f : Is(f)
  <2>1. PICK f : FoldsTo(f, Nat, 1, Times, sizes, n)
    <3>1. 1 \in Nat
      OBVIOUS
    <3> QED BY <3>1, TimesMultiplies, Folded
  <2>2. \A s \in SUBSET (1..n) : f[s] = IF s = {} THEN 1
                       ELSE f[s \ {Max(s)}] * seq[Max(s)].size
    <3> SUFFICES ASSUME NEW s \in SUBSET (1..n), s # {}
                 PROVE  f[s] = f[s \ {Max(s)}] * seq[Max(s)].size
      BY <2>1 DEF FoldsTo
    <3>1. f[s \ {Max(s)}] \in Nat /\ Max(s) \in 1..n
      BY <1>max, <2>1 DEF FoldsTo
    <3>2. f[s] = Times[<<f[s \ {Max(s)}], sizes[Max(s)]>>]
      BY <2>1 DEF FoldsTo
    <3>3. sizes[Max(s)] \in Nat /\ seq[Max(s)].size = sizes[Max(s)]
      BY <3>1
    <3>4. Times[<<f[s \ {Max(s)}], sizes[Max(s)]>>] = f[s \ {Max(s)}] * sizes[Max(s)]
      BY TimesMultiplies, <3>1, <3>3
    <3> QED BY <3>2, <3>3, <3>4
  <2>3. f = [s \in SUBSET (1..n) |-> f[s]]
    BY <2>1 DEF FoldsTo
  <2>4. Is(f)
    BY <2>2, <2>3
  <2> QED BY <2>4
<1>4. Is(C)
  <2> HIDE DEF Is
  <2> QED BY <1>3
<1> HIDE DEF C
<1>5. C[{}] = 1
  BY <1>4
<1>6. ASSUME NEW s \in SUBSET (1..n), s # {}, C[s \ {Max(s)}] \in Nat
      PROVE  C[s] = Times[<<C[s \ {Max(s)}], sizes[Max(s)]>>]
  <2>1. C[s] = C[s \ {Max(s)}] * seq[Max(s)].size
    BY <1>4, <1>6
  <2> HIDE DEF Is
  <2>2. sizes[Max(s)] \in Nat /\ seq[Max(s)].size = sizes[Max(s)]
    BY <1>max, <1>6
  <2>3. Times[<<C[s \ {Max(s)}], sizes[Max(s)]>>] = C[s \ {Max(s)}] * sizes[Max(s)]
    BY TimesMultiplies, <1>6, <2>2
  <2> QED BY <2>1, <2>2, <2>3
<1> HIDE DEF Is
<1>7. PICK h : Steps(h, Nat, 1, Times, sizes, n) /\ Ends(h, n, C[1..n])
  <2>1. Times \in [Nat \X Nat -> Nat] /\ 1 \in Nat
    BY TimesMultiplies
  <2>2. Unfolds(C, Nat, 1, Times, sizes, n)
    BY <1>5, <1>6 DEF Unfolds
  <2> QED BY <2>1, <2>2, FoldedSteps
<1> QED BY <1>1, <1>7

\* What two sizes make, and none.
LEMMA TwoSizes ==
    ASSUME NEW seq, DOMAIN seq = 1..2, seq[1].size \in Nat, seq[2].size \in Nat
    PROVE  SizeProduct(seq) = seq[1].size * seq[2].size
<1> DEFINE sizes == [k \in 1..2 |-> seq[k].size]
<1>0. \A x, y \in Nat : Times[<<x, y>>] = x * y
  BY TimesMultiplies
<1>1. sizes \in [1..2 -> Nat] /\ sizes[1] = seq[1].size /\ sizes[2] = seq[2].size
      /\ \A k \in 1..2 : seq[k].size = sizes[k]
  <2>1. \A k \in 1..2 : k = 1 \/ k = 2
    OBVIOUS
  <2> QED BY <2>1
<1> HIDE DEF sizes
<1>2. PICK h : Steps(h, Nat, 1, Times, sizes, 2) /\ Ends(h, 2, SizeProduct(seq))
  <2>1. 2 \in Nat
    OBVIOUS
  <2> QED BY <1>1, <2>1, SizesMultiply
<1>3. h[0] = 1 /\ h[1] = Times[<<h[0], sizes[1]>>] /\ h[2] = Times[<<h[1], sizes[2]>>]
  <2>1. 0 \in 0..(2 - 1) /\ 1 \in 0..(2 - 1) /\ 0 + 1 = 1 /\ 1 + 1 = 2
    OBVIOUS
  <2>2. h[0] = 1 /\ \A k \in 0..(2 - 1) : h[k + 1] = Times[<<h[k], sizes[k + 1]>>]
    BY <1>2 DEF Steps
  <2> HIDE DEF Times
  <2> QED BY <2>1, <2>2
<1>4. h[1] = seq[1].size
  <2>1. Times[<<1, seq[1].size>>] = 1 * seq[1].size
    BY <1>0
  <2>2. 1 * seq[1].size = seq[1].size
    OBVIOUS
  <2> QED BY <1>1, <1>3, <2>1, <2>2
<1>5. h[2] = seq[1].size * seq[2].size
  BY <1>0, <1>1, <1>3, <1>4
<1> QED BY <1>2, <1>5 DEF Ends

\* The product of no sizes.
LEMMA NoSize == ASSUME NEW seq, DOMAIN seq = 1..0 PROVE SizeProduct(seq) = 1
<1> DEFINE sizes == [k \in 1..0 |-> 0]
<1>1. sizes \in [1..0 -> Nat] /\ \A k \in 1..0 : seq[k].size = sizes[k]
  OBVIOUS
<1>2. 0 \in Nat
  OBVIOUS
<1> HIDE DEF sizes
<1>3. PICK h : Steps(h, Nat, 1, Times, sizes, 0) /\ Ends(h, 0, SizeProduct(seq))
  BY <1>1, <1>2, SizesMultiply
<1> QED BY <1>3 DEF Ends, Steps
=============================================================================
