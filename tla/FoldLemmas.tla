----------------------------- MODULE FoldLemmas -----------------------------
(***************************************************************************)
(* What the folds the models are written with compute: sums over a finite  *)
(* set and selections of a sequence.  Induction is stated with a set, the  *)
(* set of what the statement holds for, in place of a predicate.           *)
(***************************************************************************)
EXTENDS Keeping, Integers, SequencesExt, FiniteSetTheorems, SequenceTheorems,
        WellFoundedInduction, TLAPS

\* A set of numbers with 0, and with n + 1 whenever with n, has every number.
LEMMA NatInducts ==
    ASSUME NEW G, 0 \in G, \A n \in Nat : n \in G => n + 1 \in G
    PROVE  Nat \subseteq G
<1> DEFINE T == Nat \ G
<1>1. SUFFICES ASSUME T # {}
               PROVE  FALSE
  OBVIOUS
<1>2. T \subseteq Nat
  OBVIOUS
<1>3. PICK n \in T : \A m \in T : ~(<<m, n>> \in OpToRel(<, Nat))
  <2> HIDE DEF T
  <2>1. QED
    BY <1>1, <1>2, NatLessThanWellFounded, WFMin
<1>4. \A m \in T : ~(m < n)
  BY <1>3 DEF OpToRel
<1>5. n # 0 /\ n \in Nat
  OBVIOUS
<1>6. n - 1 \in Nat /\ n - 1 \in G
  BY <1>4, <1>5
<1>7. QED
  BY <1>5, <1>6

\* The same up to a number.
LEMMA UptoInducts ==
    ASSUME NEW N \in Nat, NEW G, 0 \in G, \A i \in 1 .. N : i - 1 \in G => i \in G
    PROVE  \A i \in 0 .. N : i \in G
<1> DEFINE H == {n \in Nat : n <= N => n \in G}
<1>1. 0 \in H
  OBVIOUS
<1>2. ASSUME NEW n \in Nat, n \in H PROVE n + 1 \in H
  <2>1. CASE n + 1 <= N
    <3>1. n \in G /\ n + 1 \in 1 .. N /\ (n + 1) - 1 = n
      BY <1>2, <2>1
    <3>2. n + 1 \in G
      BY <3>1
    <3>. QED  BY <3>2
  <2>2. CASE ~(n + 1 <= N)
    BY <2>2
  <2>. QED  BY <2>1, <2>2
<1>3. Nat \subseteq H
  <2> HIDE DEF H
  <2>. QED  BY <1>1, <1>2, NatInducts
<1>. QED  BY <1>3

\* A run of steps from a start: the state after each.
IsRun(f, N, base, step) == f[0] = base /\ \A i \in 1 .. N : f[i] = step[i][f[i - 1]]

\* A recursion along the numbers up to N defines a run.
LEMMA RecursionExists ==
    ASSUME NEW N \in Nat, NEW X, NEW base \in X, NEW step \in [1 .. N -> [X -> X]]
    PROVE  \E f \in [0 .. N -> X] : IsRun(f, N, base, step)
<1> DEFINE States == [0 .. N -> X]
           After(f, i) == IF i = 0 THEN base ELSE step[i][f[i - 1]]
           Upto(n, f) == \A i \in 0 .. N : i <= n => f[i] = After(f, i)
           G == {n \in Nat : \E f \in States : Upto(n, f)}
<1>1. 0 \in G
  <2> DEFINE start == [i \in 0 .. N |-> base]
  <2>1. start \in States
    OBVIOUS
  <2>2. \A i \in 0 .. N : i <= 0 => i = 0 /\ start[i] = base
    OBVIOUS
  <2>3. Upto(0, start)
    BY <2>2
  <2> HIDE DEF start, Upto
  <2>. QED  BY <2>1, <2>3
<1>2. \A f \in States, i \in 0 .. N : After(f, i) \in X
  <2>1. SUFFICES ASSUME NEW f \in States, NEW i \in 0 .. N, i # 0 PROVE step[i][f[i - 1]] \in X
    OBVIOUS
  <2>2. i \in 1 .. N /\ i - 1 \in 0 .. N
    BY <2>1
  <2>3. step[i] \in [X -> X] /\ f[i - 1] \in X
    BY <2>2
  <2>. QED  BY <2>3
<1>3. ASSUME NEW n \in Nat, n \in G PROVE n + 1 \in G
  <2>1. PICK f \in States : Upto(n, f)
    BY <1>3
  <2> DEFINE next == [i \in 0 .. N |-> After(f, i)]
  <2>2. next \in States
    BY <1>2
  <2>3. ASSUME NEW i \in 0 .. N, i <= n + 1 PROVE next[i] = After(next, i)
    <3>1. CASE i = 0
      BY <3>1
    <3>2. CASE i # 0
      <4>1. i - 1 \in 0 .. N /\ i - 1 <= n
        BY <2>3, <3>2
      <4>2. next[i - 1] = f[i - 1]
        BY <2>1, <4>1
      <4>3. next[i] = step[i][f[i - 1]]
        BY <3>2
      <4>. QED  BY <3>2, <4>2, <4>3
    <3>. QED  BY <3>1, <3>2
  <2>4. Upto(n + 1, next)
    BY <2>3
  <2> HIDE DEF next, Upto
  <2>. QED  BY <2>2, <2>4
<1>4. N \in G
  <2> HIDE DEF G
  <2>. QED  BY <1>1, <1>3, NatInducts
<1>5. PICK f \in States : Upto(N, f)
  BY <1>4
<1>6. \A i \in 0 .. N : f[i] = After(f, i)
  <2>1. \A i \in 0 .. N : i <= N
    OBVIOUS
  <2> HIDE DEF After
  <2>. QED  BY <1>5, <2>1
<1>7. f[0] = base
  BY <1>6
<1>8. ASSUME NEW i \in 1 .. N PROVE f[i] = step[i][f[i - 1]]
  <2>1. i \in 0 .. N /\ i # 0
    OBVIOUS
  <2>. QED  BY <1>6, <2>1
<1>. QED  BY <1>7, <1>8 DEF IsRun

\* A set of sets with the empty one, and with a set whenever with what is left of it
\* without any of its elements, has every part of a finite set.
LEMMA SubsetsInduct ==
    ASSUME NEW D, IsFiniteSet(D), NEW G, {} \in G,
           \A S \in SUBSET D : S # {} /\ (\A x \in S : S \ {x} \in G) => S \in G
    PROVE  SUBSET D \subseteq G
<1> DEFINE H == {n \in Nat : \A S \in SUBSET D : Cardinality(S) = n => S \in G}
<1>1. \A S \in SUBSET D : IsFiniteSet(S) /\ Cardinality(S) \in Nat
  BY FS_Subset, FS_CardinalityType
<1>2. 0 \in H
  BY <1>1, FS_EmptySet
<1>3. ASSUME NEW n \in Nat, n \in H
      PROVE  n + 1 \in H
  <2>1. ASSUME NEW S \in SUBSET D, Cardinality(S) = n + 1
        PROVE  S \in G
    <3>1. S # {}
      <4>1. n + 1 # 0
        OBVIOUS
      <4>2. QED
        BY <2>1, <4>1, FS_EmptySet
    <3>2. ASSUME NEW x \in S
          PROVE  S \ {x} \in G
      <4>1. Cardinality(S \ {x}) = n
        BY <1>1, <2>1, FS_RemoveElement
      <4>2. QED
        BY <1>3, <4>1
    <3>3. QED
      BY <3>1, <3>2
  <2>2. QED
    BY <2>1
<1>4. Nat \subseteq H
  <2> HIDE DEF H
  <2>1. QED
    BY <1>2, <1>3, NatInducts
<1>5. QED
  BY <1>1, <1>4

-----------------------------------------------------------------------------
(* Sums.                                                                   *)

Sum(f, D) == MapThenSumSet(LAMBDA x : f[x], D)

\* The sum over a set, from the sum over what is left without the element chosen.
First(S) == CHOOSE x \in S : TRUE
AddFirst(f, sum, S) == IF S = {} THEN 0 ELSE f[First(S)] + sum[S \ {First(S)}]
IsSum(f, D, sum) == sum = [S \in SUBSET D |-> AddFirst(f, sum, S)]

LEMMA FirstIsIn ==
    ASSUME NEW D, NEW S \in SUBSET D, S # {}
    PROVE  First(S) \in S /\ First(S) \in D /\ S \ {First(S)} \in SUBSET D
  BY DEF First

\* The recursion defines the sums of a function.
LEMMA SumExists ==
    ASSUME NEW D, IsFiniteSet(D), NEW f \in [D -> Int]
    PROVE  \E sum \in [SUBSET D -> Int] : IsSum(f, D, sum)
<1> DEFINE Sums == [SUBSET D -> Int]
           Upto(n, sum) == \A S \in SUBSET D :
                              Cardinality(S) <= n => sum[S] = AddFirst(f, sum, S)
           G == {n \in Nat : \E sum \in Sums : Upto(n, sum)}
<1>1. \A S \in SUBSET D : IsFiniteSet(S) /\ Cardinality(S) \in Nat
  BY FS_Subset, FS_CardinalityType
<1>2. 0 \in G
  <2>1. \A S \in SUBSET D : Cardinality(S) <= 0 => S = {}
    BY <1>1, FS_EmptySet
  <2> DEFINE zero == [S \in SUBSET D |-> 0]
  <2>2. zero \in Sums /\ Upto(0, zero)
    BY <2>1 DEF AddFirst
  <2>3. QED
    BY <2>2
<1>3. ASSUME NEW n \in Nat, n \in G
      PROVE  n + 1 \in G
  <2>1. PICK sum \in Sums : Upto(n, sum)
    BY <1>3
  <2> DEFINE next == [S \in SUBSET D |-> AddFirst(f, sum, S)]
  <2>2. ASSUME NEW S \in SUBSET D
        PROVE  AddFirst(f, sum, S) \in Int
    BY FirstIsIn DEF AddFirst
  <2>3. next \in Sums
    BY <2>2
  <2>4. ASSUME NEW S \in SUBSET D, Cardinality(S) <= n + 1
        PROVE  next[S] = AddFirst(f, next, S)
    <3>1. CASE S = {}
      BY <3>1 DEF AddFirst
    <3>2. CASE S # {}
      <4>1. First(S) \in S /\ S \ {First(S)} \in SUBSET D
        BY <3>2, FirstIsIn
      <4>2. Cardinality(S \ {First(S)}) <= n
        <5>1. Cardinality(S \ {First(S)}) = Cardinality(S) - 1
          BY <1>1, <4>1, FS_RemoveElement
        <5>2. QED
          BY <1>1, <2>4, <5>1
      <4>3. next[S \ {First(S)}] = sum[S \ {First(S)}]
        BY <2>1, <4>1, <4>2
      <4>4. next[S] = AddFirst(f, sum, S)
        OBVIOUS
      <4> HIDE DEF next
      <4>5. QED
        BY <3>2, <4>3, <4>4 DEF AddFirst
    <3>3. QED
      BY <3>1, <3>2
  <2>5. Upto(n + 1, next)
    BY <2>4
  <2> HIDE DEF next, Upto
  <2>6. QED
    BY <2>3, <2>5
<1>4. Cardinality(D) \in G
  <2>1. Nat \subseteq G
    <3> HIDE DEF G
    <3>1. QED
      BY <1>2, <1>3, NatInducts
  <2>2. QED
    BY <1>1, <2>1
<1>5. PICK sum \in Sums : Upto(Cardinality(D), sum)
  BY <1>4
<1>6. \A S \in SUBSET D : sum[S] = AddFirst(f, sum, S)
  BY <1>5, FS_Subset
<1>7. IsSum(f, D, sum)
  BY <1>6 DEF IsSum
<1>8. QED
  BY <1>7

\* The sum over the whole set is the last of them.
LEMMA SumUnfolds ==
    ASSUME NEW D, IsFiniteSet(D), NEW f \in [D -> Int]
    PROVE  \E sum \in [SUBSET D -> Int] :
              /\ \A S \in SUBSET D : sum[S] = AddFirst(f, sum, S)
              /\ Sum(f, D) = sum[D]
<1> DEFINE sum == CHOOSE g : IsSum(f, D, g)
           G   == {S \in SUBSET D : sum[S] \in Int}
<1>1. Sum(f, D) = sum[D]
  BY DEF Sum, MapThenSumSet, MapThenFoldSet, IsSum, AddFirst, First
<1>2. IsSum(f, D, sum)
  BY SumExists
<1> HIDE DEF sum
<1>3. \A S \in SUBSET D : sum[S] = AddFirst(f, sum, S)
  BY <1>2 DEF IsSum
<1>4. {} \in G
  <2>1. sum[{}] = 0
    BY <1>3 DEF AddFirst
  <2>2. QED
    BY <2>1
<1>5. ASSUME NEW S \in SUBSET D, S # {}, \A x \in S : S \ {x} \in G
      PROVE  S \in G
  <2>1. First(S) \in S /\ First(S) \in D
    BY <1>5, FirstIsIn
  <2>2. sum[S \ {First(S)}] \in Int /\ f[First(S)] \in Int
    BY <1>5, <2>1
  <2>3. sum[S] = f[First(S)] + sum[S \ {First(S)}]
    BY <1>3, <1>5 DEF AddFirst
  <2>4. QED
    BY <2>2, <2>3
<1>6. SUBSET D \subseteq G
  <2> HIDE DEF G
  <2>1. QED
    BY <1>4, <1>5, SubsetsInduct
<1>7. sum \in [SUBSET D -> Int]
  <2>1. sum = [S \in SUBSET D |-> AddFirst(f, sum, S)]
    BY <1>2 DEF IsSum
  <2>2. \A S \in SUBSET D : AddFirst(f, sum, S) \in Int
    BY <1>3, <1>6
  <2>3. QED
    BY <2>1, <2>2
<1>8. QED
  BY <1>1, <1>3, <1>7

\* A sum of numbers is a number.
LEMMA SumType ==
    ASSUME NEW D, IsFiniteSet(D), NEW f \in [D -> Int]
    PROVE  Sum(f, D) \in Int
<1>1. \E sum \in [SUBSET D -> Int] : Sum(f, D) = sum[D]
  BY SumUnfolds
<1>2. QED
  BY <1>1

\* A sum of zeros is zero.
LEMMA SumOfZeros ==
    ASSUME NEW D, IsFiniteSet(D), NEW f \in [D -> Int], \A x \in D : f[x] = 0
    PROVE  Sum(f, D) = 0
<1>1. PICK sum \in [SUBSET D -> Int] :
          /\ \A S \in SUBSET D : sum[S] = AddFirst(f, sum, S)
          /\ Sum(f, D) = sum[D]
  BY SumUnfolds
<1> DEFINE G == {S \in SUBSET D : sum[S] = 0}
<1>2. {} \in G
  BY <1>1 DEF AddFirst
<1>3. ASSUME NEW S \in SUBSET D, S # {}, \A x \in S : S \ {x} \in G
      PROVE  S \in G
  <2>1. First(S) \in S /\ First(S) \in D
    BY <1>3, FirstIsIn
  <2>2. sum[S \ {First(S)}] = 0 /\ f[First(S)] = 0
    BY <1>3, <2>1
  <2>3. QED
    BY <1>1, <1>3, <2>2 DEF AddFirst
<1>4. SUBSET D \subseteq G
  <2> HIDE DEF G
  <2>1. QED
    BY <1>2, <1>3, SubsetsInduct
<1>5. QED
  BY <1>1, <1>4

\* A sum changes by as much as the one number of it that changes.
LEMMA SumUpdated ==
    ASSUME NEW D, IsFiniteSet(D), NEW f \in [D -> Int], NEW g \in [D -> Int], NEW d \in D,
           \A x \in D \ {d} : g[x] = f[x]
    PROVE  Sum(g, D) = Sum(f, D) + (g[d] - f[d])
<1>1. PICK old \in [SUBSET D -> Int] :
          /\ \A S \in SUBSET D : old[S] = AddFirst(f, old, S)
          /\ Sum(f, D) = old[D]
  BY SumUnfolds
<1>2. PICK new \in [SUBSET D -> Int] :
          /\ \A S \in SUBSET D : new[S] = AddFirst(g, new, S)
          /\ Sum(g, D) = new[D]
  BY SumUnfolds
<1> DEFINE change(S) == IF d \in S THEN g[d] - f[d] ELSE 0
           G == {S \in SUBSET D : new[S] = old[S] + change(S)}
<1>3. {} \in G
  <2>1. new[{}] = 0 /\ old[{}] = 0
    BY <1>1, <1>2 DEF AddFirst
  <2>2. QED
    BY <2>1
<1>4. ASSUME NEW S \in SUBSET D, S # {}, \A x \in S : S \ {x} \in G
      PROVE  S \in G
  <2>1. First(S) \in S /\ First(S) \in D /\ S \ {First(S)} \in SUBSET D
    BY <1>4, FirstIsIn
  <2>2. new[S \ {First(S)}] = old[S \ {First(S)}] + change(S \ {First(S)})
    BY <1>4, <2>1
  <2>3. /\ new[S] = g[First(S)] + new[S \ {First(S)}]
        /\ old[S] = f[First(S)] + old[S \ {First(S)}]
    BY <1>1, <1>2, <1>4 DEF AddFirst
  <2>4. g[First(S)] + change(S \ {First(S)}) = f[First(S)] + change(S)
    BY <2>1
  <2>5. QED
    BY <2>1, <2>2, <2>3, <2>4
<1>5. SUBSET D \subseteq G
  <2> HIDE DEF G
  <2>1. QED
    BY <1>3, <1>4, SubsetsInduct
<1>6. QED
  BY <1>1, <1>2, <1>5

\* A sum of which some numbers grow by one at most grows by their number at most.
LEMMA SumBounded ==
    ASSUME NEW D, IsFiniteSet(D), NEW f \in [D -> Int], NEW g \in [D -> Int],
           NEW C \in SUBSET D,
           \A x \in D : g[x] <= f[x] + (IF x \in C THEN 1 ELSE 0)
    PROVE  Sum(g, D) <= Sum(f, D) + Cardinality(C)
<1>1. PICK old \in [SUBSET D -> Int] :
          /\ \A S \in SUBSET D : old[S] = AddFirst(f, old, S)
          /\ Sum(f, D) = old[D]
  BY SumUnfolds
<1>2. PICK new \in [SUBSET D -> Int] :
          /\ \A S \in SUBSET D : new[S] = AddFirst(g, new, S)
          /\ Sum(g, D) = new[D]
  BY SumUnfolds
<1> DEFINE G == {S \in SUBSET D : new[S] <= old[S] + Cardinality(S \cap C)}
<1>3. {} \in G
  <2>1. {} \cap C = {} /\ Cardinality({}) = 0
    BY FS_EmptySet
  <2>2. new[{}] = 0 /\ old[{}] = 0
    BY <1>1, <1>2 DEF AddFirst
  <2>3. QED
    BY <2>1, <2>2
<1>4. ASSUME NEW S \in SUBSET D, S # {}, \A x \in S : S \ {x} \in G
      PROVE  S \in G
  <2> DEFINE x == First(S)
  <2>1. x \in S /\ x \in D /\ S \ {x} \in SUBSET D
    BY <1>4, FirstIsIn
  <2>2. new[S \ {x}] <= old[S \ {x}] + Cardinality((S \ {x}) \cap C)
    BY <1>4, <2>1
  <2>3. /\ new[S] = g[x] + new[S \ {x}]
        /\ old[S] = f[x] + old[S \ {x}]
    BY <1>1, <1>2, <1>4 DEF AddFirst
  <2> HIDE DEF x
  <2>4. /\ IsFiniteSet(S \cap C)
        /\ Cardinality(S \cap C) \in Nat
        /\ Cardinality((S \cap C) \ {x}) = IF x \in S \cap C THEN Cardinality(S \cap C) - 1
                                           ELSE Cardinality(S \cap C)
    BY FS_Subset, FS_RemoveElement, FS_CardinalityType
  <2>5. (S \ {x}) \cap C = (S \cap C) \ {x}
    OBVIOUS
  <2>6. /\ new[S] \in Int /\ old[S] \in Int /\ g[x] \in Int /\ f[x] \in Int
        /\ new[S \ {x}] \in Int /\ old[S \ {x}] \in Int
        /\ g[x] <= f[x] + (IF x \in C THEN 1 ELSE 0)
    BY <2>1
  <2>7. new[S] <= old[S] + Cardinality(S \cap C)
    <3>1. CASE x \in C
      <4>1. Cardinality((S \ {x}) \cap C) = Cardinality(S \cap C) - 1
        BY <2>1, <2>4, <2>5, <3>1
      <4>2. QED
        BY <2>2, <2>3, <2>4, <2>6, <3>1, <4>1
    <3>2. CASE x \notin C
      <4>1. Cardinality((S \ {x}) \cap C) = Cardinality(S \cap C)
        BY <2>4, <2>5, <3>2
      <4>2. QED
        BY <2>2, <2>3, <2>4, <2>6, <3>2, <4>1
    <3>3. QED
      BY <3>1, <3>2
  <2>8. QED
    BY <2>7
<1>5. SUBSET D \subseteq G
  <2> HIDE DEF G
  <2>1. QED
    BY <1>3, <1>4, SubsetsInduct
<1>6. D \cap C = C
  OBVIOUS
<1>7. QED
  BY <1>1, <1>2, <1>5, <1>6

-----------------------------------------------------------------------------
(* Selections of a sequence.                                               *)

\* Appending adds an element to what is in a sequence.
LEMMA AppendRange ==
    ASSUME NEW X, NEW s \in Seq(X), NEW x \in X
    PROVE  Range(Append(s, x)) = Range(s) \cup {x}
<1>1. /\ DOMAIN s = 1 .. Len(s) /\ Len(s) \in Nat
      /\ DOMAIN Append(s, x) = 1 .. Len(s) + 1
      /\ \A i \in 1 .. Len(s) : Append(s, x)[i] = s[i]
      /\ Append(s, x)[Len(s) + 1] = x
  BY AppendProperties
<1>2. 1 .. Len(s) + 1 = (1 .. Len(s)) \cup {Len(s) + 1}
  BY <1>1
<1> DEFINE t == Append(s, x)
<1> HIDE DEF t
<1>3. {t[i] : i \in DOMAIN t} = {s[i] : i \in DOMAIN s} \cup {x}
  BY <1>1, <1>2 DEF t
<1>4. QED
  BY <1>3 DEF Range, t

\* Concatenating adds what is in the other sequence.
LEMMA ConcatRange ==
    ASSUME NEW X, NEW s \in Seq(X), NEW t \in Seq(X)
    PROVE  s \o t \in Seq(X) /\ Range(s \o t) = Range(s) \cup Range(t)
<1> DEFINE u == s \o t
<1>1. /\ u \in Seq(X) /\ Len(u) = Len(s) + Len(t) /\ Len(s) \in Nat /\ Len(t) \in Nat
      /\ DOMAIN s = 1 .. Len(s) /\ DOMAIN t = 1 .. Len(t) /\ DOMAIN u = 1 .. Len(u)
      /\ \A i \in 1 .. Len(u) : u[i] = IF i <= Len(s) THEN s[i] ELSE t[i - Len(s)]
  BY ConcatProperties
<1> HIDE DEF u
<1>2. ASSUME NEW i \in DOMAIN u
      PROVE  u[i] \in Range(s) \cup Range(t)
  <2>1. CASE i <= Len(s)
    BY <1>1, <2>1 DEF Range
  <2>2. CASE ~(i <= Len(s))
    <3>1. i - Len(s) \in DOMAIN t
      BY <1>1, <2>2
    <3>2. QED
      BY <1>1, <2>2, <3>1 DEF Range
  <2>3. QED
    BY <2>1, <2>2
<1>3. ASSUME NEW i \in DOMAIN s
      PROVE  s[i] \in Range(u)
  <2>1. i \in DOMAIN u /\ u[i] = s[i]
    BY <1>1
  <2>2. QED
    BY <2>1 DEF Range
<1>4. ASSUME NEW i \in DOMAIN t
      PROVE  t[i] \in Range(u)
  <2>1. i + Len(s) \in DOMAIN u /\ u[i + Len(s)] = t[i]
    BY <1>1
  <2>2. QED
    BY <2>1 DEF Range
<1>5. Range(u) = Range(s) \cup Range(t)
  BY <1>2, <1>3, <1>4 DEF Range
<1>6. QED
  BY <1>1, <1>5 DEF u

\* What is kept of the first i elements, from what is kept of those before them.
KeepNext(s, S, kept, i) ==
    IF i = 0 THEN <<>>
    ELSE IF s[i] \in S THEN Append(kept[i - 1], s[i]) ELSE kept[i - 1]
IsKept(s, S, kept) == kept = [i \in 0 .. Len(s) |-> KeepNext(s, S, kept, i)]

\* The recursion defines what is kept.
LEMMA KeptExists ==
    ASSUME NEW X, NEW s \in Seq(X), NEW S
    PROVE  \E kept \in [0 .. Len(s) -> Seq(X)] : IsKept(s, S, kept)
<1> DEFINE step == [i \in 1 .. Len(s) |->
                        [k \in Seq(X) |-> IF s[i] \in S THEN Append(k, s[i]) ELSE k]]
<1>1. Len(s) \in Nat /\ \A i \in 1 .. Len(s) : s[i] \in X
  OBVIOUS
<1>2. step \in [1 .. Len(s) -> [Seq(X) -> Seq(X)]]
  BY <1>1, AppendProperties
<1>3. \A i \in 1 .. Len(s), k \in Seq(X) :
        step[i][k] = IF s[i] \in S THEN Append(k, s[i]) ELSE k
  OBVIOUS
<1> HIDE DEF step
<1>4. PICK kept \in [0 .. Len(s) -> Seq(X)] :
        kept[0] = <<>> /\ \A i \in 1 .. Len(s) : kept[i] = step[i][kept[i - 1]]
  <2> DEFINE T == Seq(X)
             N == Len(s)
             none == <<>>
  <2>1. none \in T /\ step \in [1 .. N -> [T -> T]] /\ N \in Nat
    BY <1>1, <1>2, EmptySeq
  <2> HIDE DEF T, N, none
  <2>2. \E k \in [0 .. N -> T] : IsRun(k, N, none, step)
    BY <2>1, RecursionExists
  <2>. QED  BY <2>2 DEF T, N, none, IsRun
<1>5. ASSUME NEW i \in 0 .. Len(s) PROVE kept[i] = KeepNext(s, S, kept, i)
  <2>1. CASE i = 0
    BY <1>4, <2>1 DEF KeepNext
  <2>2. CASE i # 0
    <3>1. i \in 1 .. Len(s) /\ i - 1 \in 0 .. Len(s)
      BY <1>1, <2>2
    <3>. QED  BY <1>3, <1>4, <2>2, <3>1 DEF KeepNext
  <2>. QED  BY <2>1, <2>2
<1>6. kept = [i \in 0 .. Len(s) |-> KeepNext(s, S, kept, i)]
  BY <1>5
<1>. QED  BY <1>6 DEF IsKept

\* What is kept of a sequence is a sequence of those of its elements that are in the set.
LEMMA KeepProperties ==
    ASSUME NEW X, NEW s \in Seq(X), NEW S
    PROVE  /\ Keep(s, S) \in Seq(X)
           /\ Range(Keep(s, S)) = Range(s) \cap S
<1> DEFINE kept == CHOOSE k : IsKept(s, S, k)
<1>0. Len(s) \in Nat /\ DOMAIN s = 1 .. Len(s) /\ \A i \in 1 .. Len(s) : s[i] \in X
  OBVIOUS
<1>1. Keep(s, S) = kept[Len(s)]
  BY DEF Keep, IsKept, KeepNext
<1>2. IsKept(s, S, kept)
  BY KeptExists
<1> HIDE DEF kept
<1>3. \A i \in 0 .. Len(s) : kept[i] = KeepNext(s, S, kept, i)
  BY <1>2 DEF IsKept
<1> DEFINE Of(n) == {s[i] : i \in 1 .. n} \cap S
           G == {n \in Nat : n <= Len(s) => kept[n] \in Seq(X) /\ Range(kept[n]) = Of(n)}
<1>4. 0 \in G
  <2>1. kept[0] = <<>>
    BY <1>0, <1>3 DEF KeepNext
  <2>2. Range(<<>>) = {} /\ Of(0) = {} /\ <<>> \in Seq(X)
    BY EmptySeq DEF Range
  <2>3. QED
    BY <2>1, <2>2
<1>5. ASSUME NEW n \in Nat, n \in G
      PROVE  n + 1 \in G
  <2>1. SUFFICES ASSUME n + 1 <= Len(s)
                 PROVE  kept[n + 1] \in Seq(X) /\ Range(kept[n + 1]) = Of(n + 1)
    OBVIOUS
  <2>2. /\ kept[n] \in Seq(X) /\ Range(kept[n]) = Of(n)
        /\ n + 1 \in 0 .. Len(s) /\ n + 1 \in 1 .. Len(s) /\ s[n + 1] \in X
    BY <1>0, <1>5, <2>1
  <2>3. kept[n + 1] = IF s[n + 1] \in S THEN Append(kept[n], s[n + 1]) ELSE kept[n]
    BY <1>3, <2>2 DEF KeepNext
  <2>4. {s[i] : i \in 1 .. n + 1} = {s[i] : i \in 1 .. n} \cup {s[n + 1]}
    OBVIOUS
  <2>5. CASE s[n + 1] \in S
    <3>1. Append(kept[n], s[n + 1]) \in Seq(X)
      BY <2>2, AppendProperties
    <3>2. Range(Append(kept[n], s[n + 1])) = Range(kept[n]) \cup {s[n + 1]}
      BY <2>2, AppendRange
    <3>3. QED
      BY <2>2, <2>3, <2>4, <2>5, <3>1, <3>2
  <2>6. CASE s[n + 1] \notin S
    BY <2>2, <2>3, <2>4, <2>6
  <2>7. QED
    BY <2>5, <2>6
<1>6. Nat \subseteq G
  <2> HIDE DEF G
  <2>1. QED
    BY <1>4, <1>5, NatInducts
<1>7. kept[Len(s)] \in Seq(X) /\ Range(kept[Len(s)]) = Of(Len(s))
  <2>1. Len(s) \in Nat /\ Len(s) <= Len(s)
    BY <1>0
  <2>2. Len(s) \in G
    <3> HIDE DEF G
    <3>1. QED
      BY <1>6, <2>1
  <2>3. QED
    BY <2>1, <2>2
<1>8. Of(Len(s)) = Range(s) \cap S
  BY <1>0 DEF Range
<1>9. QED
  BY <1>1, <1>7, <1>8

\* What the lists of a list have, in one list.
LEMMA FlattenProperties ==
    ASSUME NEW X, NEW s \in Seq(Seq(X))
    PROVE  /\ FlattenSeq(s) \in Seq(X)
           /\ Range(FlattenSeq(s)) = UNION {Range(s[i]) : i \in DOMAIN s}
<1>1. Len(s) \in Nat /\ DOMAIN s = 1 .. Len(s) /\ \A i \in 1 .. Len(s) : s[i] \in Seq(X)
  OBVIOUS
<1>2. CASE Len(s) = 0
  <2>1. s = <<>> /\ FlattenSeq(s) = s
    BY <1>2, EmptySeq DEF FlattenSeq
  <2>2. DOMAIN s = {}
    BY <1>1, <1>2
  <2>3. Range(s) = {} /\ UNION {Range(s[i]) : i \in DOMAIN s} = {}
    BY <2>2 DEF Range
  <2>. QED  BY <2>1, <2>3, EmptySeq
<1>3. CASE Len(s) # 0
  <2> DEFINE Next(f) == [i \in 1 .. Len(s) |-> IF i = 1 THEN s[i] ELSE f[i - 1] \o s[i]]
             flatten == CHOOSE f : f = Next(f)
             step == [i \in 1 .. Len(s) |-> [k \in Seq(X) |-> IF i = 1 THEN s[1] ELSE k \o s[i]]]
             Of(n) == UNION {Range(s[i]) : i \in 1 .. n}
             G == {n \in Nat : n # 0 => flatten[n] \in Seq(X) /\ Range(flatten[n]) = Of(n)}
  <2>1. FlattenSeq(s) = flatten[Len(s)]
    BY <1>3 DEF FlattenSeq
  <2>2. \E f : f = Next(f)
    <3>1. \A i \in 1 .. Len(s), k \in Seq(X) : (IF i = 1 THEN s[1] ELSE k \o s[i]) \in Seq(X)
      BY <1>1, <1>3, ConcatProperties
    <3>2. step \in [1 .. Len(s) -> [Seq(X) -> Seq(X)]]
      BY <3>1
    <3>3. \A i \in 1 .. Len(s), k \in Seq(X) : step[i][k] = IF i = 1 THEN s[1] ELSE k \o s[i]
      OBVIOUS
    <3> HIDE DEF step
    <3>4. PICK g \in [0 .. Len(s) -> Seq(X)] :
            g[0] = <<>> /\ \A i \in 1 .. Len(s) : g[i] = step[i][g[i - 1]]
      <4> DEFINE T == Seq(X)
                 N == Len(s)
                 none == <<>>
      <4>1. none \in T /\ step \in [1 .. N -> [T -> T]] /\ N \in Nat
        BY <1>1, <3>2, EmptySeq
      <4> HIDE DEF T, N, none
      <4>2. \E k \in [0 .. N -> T] : IsRun(k, N, none, step)
        BY <4>1, RecursionExists
      <4>. QED  BY <4>2 DEF T, N, none, IsRun
    <3> DEFINE f == [i \in 1 .. Len(s) |-> g[i]]
    <3>5. ASSUME NEW i \in 1 .. Len(s) PROVE f[i] = IF i = 1 THEN s[i] ELSE f[i - 1] \o s[i]
      <4>1. f[i] = step[i][g[i - 1]]
        BY <3>4
      <4>0. i - 1 \in 0 .. Len(s)
        BY <1>1
      <4>2. i # 1 => f[i - 1] = g[i - 1]
        BY <1>1
      <4> HIDE DEF f
      <4>. QED  BY <3>3, <4>0, <4>1, <4>2
    <3>6. f = Next(f)
      BY <3>5
    <3>. QED  BY <3>6
  <2>3. flatten = Next(flatten)
    BY <2>2
  <2> HIDE DEF flatten, step
  <2>4. \A i \in 1 .. Len(s) : flatten[i] = IF i = 1 THEN s[i] ELSE flatten[i - 1] \o s[i]
    BY <2>3
  <2>5. ASSUME NEW n \in 1 .. Len(s), n - 1 \in G PROVE n \in G
    <3>1. CASE n = 1
      <4>1. Of(1) = Range(s[1])
        OBVIOUS
      <4> HIDE DEF Of
      <4>. QED  BY <1>1, <2>4, <3>1, <4>1
    <3>2. CASE n # 1
      <4>1. n - 1 # 0 /\ flatten[n - 1] \in Seq(X) /\ Range(flatten[n - 1]) = Of(n - 1)
        BY <2>5, <3>2
      <4>2. flatten[n] = flatten[n - 1] \o s[n] /\ s[n] \in Seq(X)
        BY <1>1, <2>4, <3>2
      <4>3. flatten[n] \in Seq(X) /\ Range(flatten[n]) = Range(flatten[n - 1]) \cup Range(s[n])
        BY <4>1, <4>2, ConcatRange
      <4>4. 1 .. n = (1 .. (n - 1)) \cup {n}
        OBVIOUS
      <4>5. Of(n) = Of(n - 1) \cup Range(s[n])
        BY <4>4
      <4> HIDE DEF Of
      <4>6. n \in Nat
        OBVIOUS
      <4>. QED  BY <4>1, <4>3, <4>5, <4>6
    <3>. QED  BY <3>1, <3>2
  <2>6. 0 \in G
    OBVIOUS
  <2>7. Len(s) \in G
    <3> HIDE DEF G
    <3>1. \A n \in 0 .. Len(s) : n \in G
      BY <1>1, <2>5, <2>6, UptoInducts
    <3>. QED  BY <1>1, <3>1
  <2>. QED  BY <1>1, <1>3, <2>1, <2>7
<1>. QED  BY <1>2, <1>3

\* Each element of a sequence is one of the first n of another, and in their order.
Picks(r, s, n, pos) ==
    /\ pos \in [DOMAIN r -> 1 .. n]
    /\ \A k \in DOMAIN r : r[k] = s[pos[k]]
    /\ \A j, k \in DOMAIN r : j < k => pos[j] < pos[k]

\* What is kept of a sequence is picked from it in its order.
LEMMA KeepPicks ==
    ASSUME NEW X, NEW s \in Seq(X), NEW S
    PROVE  \E pos : Picks(Keep(s, S), s, Len(s), pos)
<1> DEFINE kept == CHOOSE k : IsKept(s, S, k)
<1>0. Len(s) \in Nat /\ DOMAIN s = 1 .. Len(s) /\ \A i \in 1 .. Len(s) : s[i] \in X
  OBVIOUS
<1>1. Keep(s, S) = kept[Len(s)]
  BY DEF Keep, IsKept, KeepNext
<1>3. IsKept(s, S, kept)
  BY KeptExists
<1> HIDE DEF kept
<1>4. \A i \in 0 .. Len(s) : kept[i] = KeepNext(s, S, kept, i)
  BY <1>3 DEF IsKept
<1> DEFINE G == {n \in Nat : n <= Len(s) =>
                    kept[n] \in Seq(X) /\ \E pos : Picks(kept[n], s, n, pos)}
<1>5. 0 \in G
  <2>1. kept[0] = <<>> /\ <<>> \in Seq(X)
    BY <1>0, <1>4, EmptySeq DEF KeepNext
  <2>2. Picks(<<>>, s, 0, <<>>)
    BY DEF Picks
  <2>. QED  BY <2>1, <2>2
<1>6. ASSUME NEW n \in Nat, n \in G PROVE n + 1 \in G
  <2>1. SUFFICES ASSUME n + 1 <= Len(s)
                 PROVE  kept[n + 1] \in Seq(X) /\ \E pos : Picks(kept[n + 1], s, n + 1, pos)
    OBVIOUS
  <2>2. /\ kept[n] \in Seq(X)
        /\ n + 1 \in 0 .. Len(s) /\ n + 1 \in 1 .. Len(s) /\ s[n + 1] \in X
    BY <1>0, <1>6, <2>1
  <2>3. PICK pos : Picks(kept[n], s, n, pos)
    BY <1>6, <2>1
  <2>4. kept[n + 1] = IF s[n + 1] \in S THEN Append(kept[n], s[n + 1]) ELSE kept[n]
    BY <1>4, <2>2 DEF KeepNext
  <2>5. CASE s[n + 1] \notin S
    <3>1. Picks(kept[n], s, n + 1, pos)
      BY <2>3 DEF Picks
    <3>. QED  BY <2>2, <2>4, <2>5, <3>1
  <2>6. CASE s[n + 1] \in S
    <3> DEFINE last == Len(kept[n]) + 1
               r == Append(kept[n], s[n + 1])
               at == [k \in 1 .. last |-> IF k = last THEN n + 1 ELSE pos[k]]
    <3>1. /\ r \in Seq(X) /\ Len(kept[n]) \in Nat
          /\ DOMAIN kept[n] = 1 .. Len(kept[n])
          /\ DOMAIN r = 1 .. last /\ r[last] = s[n + 1]
          /\ \A k \in DOMAIN kept[n] : r[k] = kept[n][k]
      BY <2>2, AppendProperties
    <3>2. \A k \in 1 .. last : k = last \/ k \in DOMAIN kept[n]
      BY <3>1
    <3>3. /\ \A k \in DOMAIN kept[n] : pos[k] \in 1 .. n /\ kept[n][k] = s[pos[k]]
          /\ \A j, k \in DOMAIN kept[n] : j < k => pos[j] < pos[k]
      BY <2>3 DEF Picks
    <3>4. /\ at[last] = n + 1
          /\ \A k \in DOMAIN kept[n] : at[k] = pos[k] /\ k \in 1 .. last /\ k < last
      BY <3>1
    <3>5. at \in [1 .. last -> 1 .. n + 1]
      BY <3>2, <3>3
    <3> HIDE DEF r, at, last
    <3>6. ASSUME NEW k \in 1 .. last PROVE r[k] = s[at[k]]
      BY <3>1, <3>2, <3>3, <3>4
    <3>7. ASSUME NEW j \in 1 .. last, NEW k \in 1 .. last, j < k PROVE at[j] < at[k]
      <4>1. last \in Nat
        BY <3>1 DEF last
      <4>2. j # last
        BY <3>7, <4>1
      <4>3. j \in DOMAIN kept[n] /\ at[j] = pos[j] /\ pos[j] \in 1 .. n
        BY <3>2, <3>3, <3>4, <4>2
      <4>4. CASE k = last
        BY <3>4, <4>3, <4>4
      <4>5. CASE k # last
        BY <3>2, <3>3, <3>4, <3>7, <4>3, <4>5
      <4>. QED  BY <4>4, <4>5
    <3>8. Picks(r, s, n + 1, at)
      BY <3>1, <3>5, <3>6, <3>7 DEF Picks
    <3>9. kept[n + 1] = r
      BY <2>4, <2>6 DEF r
    <3>. QED  BY <3>1, <3>8, <3>9
  <2>. QED  BY <2>5, <2>6
<1>7. Nat \subseteq G
  <2> HIDE DEF G
  <2>. QED  BY <1>5, <1>6, NatInducts
<1>8. \E pos : Picks(kept[Len(s)], s, Len(s), pos)
  <2>1. Len(s) \in Nat /\ Len(s) <= Len(s)
    BY <1>0
  <2>2. Len(s) \in G
    <3> HIDE DEF G
    <3>. QED  BY <1>7, <2>1
  <2>. QED  BY <2>1, <2>2
<1>. QED  BY <1>1, <1>8

\* A finite set has a sequence of its elements.
LEMMA SequenceOfSet ==
    ASSUME NEW S, IsFiniteSet(S)
    PROVE  SetToSeq(S) \in Seq(S) /\ Range(SetToSeq(S)) = S
<1> DEFINE n == Cardinality(S)
           f == SetToSeq(S)
<1>1. n \in Nat /\ ExistsBijection(1 .. n, S)
  BY FS_CardinalityType
<1>2. f \in [1 .. n -> S] /\ IsInjective(f)
  <2>1. PICK g \in [1 .. n -> S] : g \in Bijection(1 .. n, S)
    BY <1>1 DEF ExistsBijection, Bijection, Injection
  <2>2. IsInjective(g)
    BY <2>1 DEF Bijection, Injection, IsInjective
  <2>. QED  BY <2>1, <2>2 DEF SetToSeq
<1> HIDE DEF f
<1>3. f \in Injection(1 .. n, S)
  BY <1>2 DEF Injection
<1>4. IsFiniteSet(1 .. n) /\ Cardinality(1 .. n) = n
  BY <1>1, FS_Interval
<1>5. f \in Surjection(1 .. n, S)
  BY <1>3, <1>4, FS_Injection
<1>6. Range(f) = S
  BY <1>2, <1>5 DEF Surjection, Range
<1>7. f \in Seq(S)
  BY <1>1, <1>2
<1>. QED  BY <1>6, <1>7 DEF f


=============================================================================
