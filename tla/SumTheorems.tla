----------------------------- MODULE SumTheorems -----------------------------
(* What the sum of a function with finitely many values does when one of   *)
(* the values changes: the book-keeping behind the theorems about wallets. *)
EXTENDS Integers, FiniteSets, Functions, FiniteSetTheorems,
        WellFoundedInduction, TLAPS

(* How SumFunction(amount) is computed: the sums of the parts of the domain*)
(* S, one chosen element after the other.                                  *)
Chosen(part) == CHOOSE x \in part : TRUE
NextSum(amount, sum, part) ==
  IF part = {} THEN 0 ELSE amount[Chosen(part)] + sum[part \ {Chosen(part)}]
Sums(amount, S, sum) == sum = [part \in SUBSET S |-> NextSum(amount, sum, part)]

(* Induction, in the two forms used here: a set of numbers has a least     *)
(* number, a set of parts of a finite set has a minimal part.              *)
LEMMA LeastNumber ==
  ASSUME NEW T, T \subseteq Nat, T # {}
  PROVE  \E n \in T : \A m \in T : n <= m
  <1> DEFINE Less == {p \in Nat \X Nat : p[1] < p[2]}
  <1>1. IsWellFoundedOn(Less, Nat)
    BY NatLessThanWellFounded DEF OpToRel
  <1>2. \E x \in T : \A y \in T : ~ (<<y, x>> \in Less)
    <2> HIDE DEF Less
    <2> QED BY <1>1, WFMin
  <1>3. PICK n \in T : \A m \in T : ~ (<<m, n>> \in Less)
    BY <1>2
  <1>4. ASSUME NEW m \in T
        PROVE  n <= m
    <2>1. ~ (<<m, n>> \in Less)
      BY <1>3
    <2>2. m \in Nat /\ n \in Nat
      OBVIOUS
    <2> QED BY <2>1, <2>2
  <1> QED BY <1>4

LEMMA MinimalPart ==
  ASSUME NEW S, IsFiniteSet(S), NEW T, T \subseteq SUBSET S, T # {}
  PROVE  \E s \in T : \A t \in T : t \subseteq s => t = s
  <1> DEFINE Less == StrictSubsetOrdering(S)
  <1>1. IsWellFoundedOn(Less, SUBSET S)
    BY FS_StrictSubsetOrderingWellFounded, FS_FiniteSubsetsOfFinite
  <1>2. \E s \in T : \A t \in T : ~ (<<t, s>> \in Less)
    <2> HIDE DEF Less
    <2> QED BY <1>1, WFMin
  <1> QED BY <1>2 DEF StrictSubsetOrdering

LEMMA ChosenInPart ==
  ASSUME NEW S, NEW part \in SUBSET S, part # {}
  PROVE  /\ Chosen(part) \in part
         /\ part \ {Chosen(part)} \in SUBSET S
         /\ part \ {Chosen(part)} # part
  BY DEF Chosen

(* The recursion has a solution: one that is right for all parts of at     *)
(* most n elements can be made right for those of n + 1.                   *)
LEMMA SumsExist ==
  ASSUME NEW S, IsFiniteSet(S), NEW amount \in [S -> Int]
  PROVE  \E sum : Sums(amount, S, sum)
  <1> DEFINE Right(sum, n) ==
               \A part \in SUBSET S :
                 Cardinality(part) <= n => sum[part] = NextSum(amount, sum, part)
             Bad == {n \in Nat : ~ \E sum \in [SUBSET S -> Int] : Right(sum, n)}
  <1>1. \A part \in SUBSET S : /\ IsFiniteSet(part)
                               /\ Cardinality(part) \in Nat
                               /\ Cardinality(part) <= Cardinality(S)
    BY FS_Subset, FS_CardinalityType
  <1>2. 0 \notin Bad
    <2> DEFINE zero == [part \in SUBSET S |-> 0]
    <2>1. ASSUME NEW part \in SUBSET S, Cardinality(part) <= 0
          PROVE  zero[part] = NextSum(amount, zero, part)
      <3>1. part = {}
        BY <1>1, <2>1, FS_EmptySet
      <3> QED BY <3>1 DEF NextSum
    <2>2. Right(zero, 0) /\ zero \in [SUBSET S -> Int]
      BY <2>1
    <2> QED BY <2>2
  <1>3. ASSUME NEW n \in Nat, n \notin Bad
        PROVE  n + 1 \notin Bad
    <2>1. PICK sum \in [SUBSET S -> Int] : Right(sum, n)
      BY <1>3
    <2> DEFINE more == [part \in SUBSET S |-> IF Cardinality(part) = n + 1
                                              THEN NextSum(amount, sum, part)
                                              ELSE sum[part]]
    <2>2. ASSUME NEW part \in SUBSET S, part # {}
          PROVE  /\ amount[Chosen(part)] \in Int
                 /\ part \ {Chosen(part)} \in SUBSET S
                 /\ Cardinality(part \ {Chosen(part)}) = Cardinality(part) - 1
      <3>1. Chosen(part) \in part /\ part \ {Chosen(part)} \in SUBSET S
        BY <2>2, ChosenInPart
      <3>2. Cardinality(part \ {Chosen(part)}) = Cardinality(part) - 1
        BY <3>1, <1>1, FS_RemoveElement
      <3> QED BY <3>1, <3>2
    <2>3. more \in [SUBSET S -> Int]
      <3>1. \A part \in SUBSET S : NextSum(amount, sum, part) \in Int
        BY <2>2 DEF NextSum
      <3> QED BY <3>1
    <2>4. ASSUME NEW part \in SUBSET S, Cardinality(part) <= n + 1
          PROVE  more[part] = NextSum(amount, more, part)
      <3>1. CASE part = {}
        <4>1. Cardinality(part) = 0 /\ sum[part] = 0
          BY <3>1, <2>1, FS_EmptySet DEF NextSum
        <4> QED BY <4>1, <3>1 DEF NextSum
      <3>2. CASE part # {}
        <4> DEFINE rest == part \ {Chosen(part)}
        <4>1. rest \in SUBSET S /\ Cardinality(rest) = Cardinality(part) - 1
          BY <2>2, <3>2
        <4>2. Cardinality(part) \in Nat
          BY <1>1
        <4>3. more[rest] = sum[rest]
          <5> HIDE DEF rest
          <5> QED BY <4>1, <4>2, <2>4
        <4>4. NextSum(amount, more, part) = NextSum(amount, sum, part)
          BY <4>3 DEF NextSum
        <4>5. more[part] = NextSum(amount, sum, part)
          <5> HIDE DEF rest
          <5>1. CASE Cardinality(part) = n + 1
            BY <5>1
          <5>2. CASE Cardinality(part) <= n
            BY <5>2, <2>1, <4>2
          <5> QED BY <5>1, <5>2, <2>4, <4>2
        <4> QED BY <4>4, <4>5
      <3> QED BY <3>1, <3>2
    <2>5. Right(more, n + 1)
      <3> HIDE DEF more
      <3> QED BY <2>4
    <2> QED BY <2>3, <2>5
  <1>4. Bad = {}
    <2> SUFFICES ASSUME Bad # {} PROVE FALSE
      OBVIOUS
    <2>1. PICK n \in Bad : \A m \in Bad : n <= m
      <3>1. Bad \subseteq Nat
        OBVIOUS
      <3> HIDE DEF Bad
      <3> QED BY <3>1, LeastNumber
    <2>2. n \in Nat /\ n # 0
      BY <1>2
    <2>3. n - 1 \in Nat /\ n - 1 \notin Bad
      <3> HIDE DEF Bad
      <3> QED BY <2>1, <2>2
    <2>4. (n - 1) + 1 \notin Bad
      <3> HIDE DEF Bad
      <3> QED BY <2>3, <1>3
    <2>5. (n - 1) + 1 = n
      BY <2>2
    <2> HIDE DEF Bad
    <2> QED BY <2>1, <2>4, <2>5
  <1>5. PICK sum \in [SUBSET S -> Int] : Right(sum, Cardinality(S))
    BY <1>4, FS_CardinalityType
  <1>6. Sums(amount, S, sum)
    <2>1. \A part \in SUBSET S : sum[part] = NextSum(amount, sum, part)
      BY <1>1, <1>5
    <2> QED BY <2>1 DEF Sums
  <1> QED BY <1>6

(* The chosen solution, whose value at S the sum is.                       *)
SumOf(amount, S) == CHOOSE sum : Sums(amount, S, sum)

LEMMA SumOfType ==
  ASSUME NEW S, IsFiniteSet(S), NEW amount \in [S -> Int]
  PROVE  /\ \A part \in SUBSET S :
              /\ SumOf(amount, S)[part] = NextSum(amount, SumOf(amount, S), part)
              /\ SumOf(amount, S)[part] \in Int
         /\ SumFunction(amount) = SumOf(amount, S)[S]
  <1> DEFINE sum == SumOf(amount, S)
             Bad == {part \in SUBSET S : sum[part] \notin Int}
  <1>1. Sums(amount, S, sum)
    BY SumsExist DEF SumOf
  <1>2. \A part \in SUBSET S : sum[part] = NextSum(amount, sum, part)
    <2> HIDE DEF sum
    <2> QED BY <1>1 DEF Sums
  <1>3. Bad = {}
    <2> HIDE DEF sum
    <2> SUFFICES ASSUME Bad # {} PROVE FALSE
      OBVIOUS
    <2>1. PICK part \in Bad : \A t \in Bad : t \subseteq part => t = part
      <3>1. Bad \subseteq SUBSET S
        OBVIOUS
      <3> HIDE DEF Bad
      <3> QED BY <3>1, MinimalPart
    <2>2. part # {}
      <3>1. {} \in SUBSET S /\ sum[{}] = 0
        BY <1>2 DEF NextSum
      <3> QED BY <3>1
    <2> DEFINE rest == part \ {Chosen(part)}
    <2>3. /\ rest \in SUBSET S /\ rest \subseteq part /\ rest # part
          /\ Chosen(part) \in S
      BY <2>2, ChosenInPart
    <2>4. sum[rest] \in Int
      BY <2>1, <2>3
    <2>5. sum[part] = amount[Chosen(part)] + sum[rest]
      BY <1>2, <2>2 DEF NextSum
    <2> QED BY <2>3, <2>4, <2>5
  <1>4. SumFunction(amount) = sum[S]
    <2>1. DOMAIN amount = S
      OBVIOUS
    <2>2. SumFunction(amount) = SumOf(amount, DOMAIN amount)[DOMAIN amount]
      BY DEF SumFunction, SumFunctionOnSet, FoldFunctionOnSet, MapThenFoldSet,
             SumOf, Sums, NextSum, Chosen
    <2> QED BY <2>1, <2>2
  <1> QED BY <1>2, <1>3, <1>4

(* A sum of integers is an integer.                                        *)
LEMMA SumType ==
  ASSUME NEW S, IsFiniteSet(S), NEW amount \in [S -> Int]
  PROVE  SumFunction(amount) \in Int
  BY SumOfType

(* Nothing sums up to nothing.                                             *)
LEMMA SumOfZeros ==
  ASSUME NEW S, IsFiniteSet(S), NEW amount \in [S -> Int],
         \A x \in S : amount[x] = 0
  PROVE  SumFunction(amount) = 0
  <1> DEFINE sum == SumOf(amount, S)
             Bad == {part \in SUBSET S : sum[part] # 0}
  <1>1. \A part \in SUBSET S : sum[part] = NextSum(amount, sum, part)
    BY SumOfType
  <1>2. Bad = {}
    <2> HIDE DEF sum
    <2> SUFFICES ASSUME Bad # {} PROVE FALSE
      OBVIOUS
    <2>1. PICK part \in Bad : \A t \in Bad : t \subseteq part => t = part
      <3>1. Bad \subseteq SUBSET S
        OBVIOUS
      <3> HIDE DEF Bad
      <3> QED BY <3>1, MinimalPart
    <2>2. part # {}
      BY <1>1 DEF NextSum
    <2> DEFINE rest == part \ {Chosen(part)}
    <2>3. /\ rest \in SUBSET S /\ rest \subseteq part /\ rest # part
          /\ Chosen(part) \in S
      BY <2>2, ChosenInPart
    <2>4. sum[rest] = 0
      BY <2>1, <2>3
    <2>5. sum[part] = amount[Chosen(part)] + sum[rest]
      BY <1>1, <2>2 DEF NextSum
    <2> QED BY <2>3, <2>4, <2>5
  <1> QED BY <1>2, SumOfType

(* When one value changes, the sum changes by as much.                     *)
LEMMA SumChangesByOne ==
  ASSUME NEW S, IsFiniteSet(S), NEW f \in [S -> Int], NEW g \in [S -> Int],
         NEW x \in S, \A y \in S \ {x} : g[y] = f[y]
  PROVE  SumFunction(g) = SumFunction(f) + (g[x] - f[x])
  <1> DEFINE old == SumOf(f, S)
             new == SumOf(g, S)
             Change(part) == IF x \in part THEN g[x] - f[x] ELSE 0
             Bad == {part \in SUBSET S : new[part] # old[part] + Change(part)}
  <1>1. \A part \in SUBSET S : /\ old[part] = NextSum(f, old, part)
                               /\ new[part] = NextSum(g, new, part)
                               /\ old[part] \in Int /\ new[part] \in Int
    BY SumOfType
  <1>2. Bad = {}
    <2> HIDE DEF old, new
    <2> SUFFICES ASSUME Bad # {} PROVE FALSE
      OBVIOUS
    <2>1. PICK part \in Bad : \A t \in Bad : t \subseteq part => t = part
      <3>1. Bad \subseteq SUBSET S
        OBVIOUS
      <3> HIDE DEF Bad
      <3> QED BY <3>1, MinimalPart
    <2>2. part # {}
      <3>1. {} \in SUBSET S /\ new[{}] = 0 /\ old[{}] = 0
        BY <1>1 DEF NextSum
      <3>2. Change({}) = 0
        OBVIOUS
      <3>3. new[{}] = old[{}] + Change({})
        <4> HIDE DEF Change
        <4> QED BY <3>1, <3>2
      <3>4. {} \notin Bad
        BY <3>3
      <3> HIDE DEF Bad
      <3> QED BY <3>4
    <2> DEFINE c == Chosen(part)
               rest == part \ {c}
    <2>3. /\ rest \in SUBSET S /\ rest \subseteq part /\ rest # part
          /\ c \in part /\ c \in S
      BY <2>2, ChosenInPart
    <2>4. new[rest] = old[rest] + Change(rest)
      <3> HIDE DEF c
      <3> QED BY <2>1, <2>3
    <2>5. old[part] = f[c] + old[rest] /\ new[part] = g[c] + new[rest]
      BY <1>1, <2>2 DEF NextSum
    <2>6. Change(part) = Change(rest) + (g[c] - f[c])
      <3> HIDE DEF c
      <3>1. CASE c = x
        BY <3>1, <2>3
      <3>2. CASE c # x
        <4>1. g[c] = f[c]
          BY <3>2, <2>3
        <4> QED BY <4>1, <3>2, <2>3
      <3> QED BY <3>1, <3>2
    <2>7. /\ f[c] \in Int /\ g[c] \in Int /\ Change(rest) \in Int
          /\ old[rest] \in Int /\ new[rest] \in Int
      BY <1>1, <2>3
    <2>8. new[part] = old[part] + Change(part)
      <3> HIDE DEF c, rest, Change
      <3> QED BY <2>4, <2>5, <2>6, <2>7
    <2> QED BY <2>8
  <1>3. new[S] = old[S] + Change(S)
    BY <1>2
  <1> QED BY <1>3, SumOfType

(* Larger values have a larger sum.                                        *)
LEMMA SumGrows ==
  ASSUME NEW S, IsFiniteSet(S), NEW f \in [S -> Int], NEW g \in [S -> Int],
         \A x \in S : f[x] <= g[x]
  PROVE  SumFunction(f) <= SumFunction(g)
  <1> DEFINE low == SumOf(f, S)
             high == SumOf(g, S)
             Bad == {part \in SUBSET S : ~(low[part] <= high[part])}
  <1>1. \A part \in SUBSET S : /\ low[part] = NextSum(f, low, part)
                               /\ high[part] = NextSum(g, high, part)
                               /\ low[part] \in Int /\ high[part] \in Int
    BY SumOfType
  <1>2. Bad = {}
    <2> HIDE DEF low, high
    <2> SUFFICES ASSUME Bad # {} PROVE FALSE
      OBVIOUS
    <2>1. PICK part \in Bad : \A t \in Bad : t \subseteq part => t = part
      <3>1. Bad \subseteq SUBSET S
        OBVIOUS
      <3> HIDE DEF Bad
      <3> QED BY <3>1, MinimalPart
    <2>2. part # {}
      BY <1>1 DEF NextSum
    <2> DEFINE c == Chosen(part)
               rest == part \ {c}
    <2>3. /\ rest \in SUBSET S /\ rest \subseteq part /\ rest # part
          /\ c \in S
      BY <2>2, ChosenInPart
    <2>4. low[rest] <= high[rest]
      <3> HIDE DEF c
      <3> QED BY <2>1, <2>3
    <2>5. low[part] = f[c] + low[rest] /\ high[part] = g[c] + high[rest]
      BY <1>1, <2>2 DEF NextSum
    <2>6. /\ f[c] \in Int /\ g[c] \in Int /\ f[c] <= g[c]
          /\ low[rest] \in Int /\ high[rest] \in Int
      BY <1>1, <2>3
    <2>7. low[part] <= high[part]
      <3> HIDE DEF c, rest
      <3> QED BY <2>4, <2>5, <2>6
    <2> QED BY <2>7
  <1> QED BY <1>2, SumOfType
=============================================================================
