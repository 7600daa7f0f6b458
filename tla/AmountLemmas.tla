---------------------------- MODULE AmountLemmas ----------------------------
(***************************************************************************)
(* Facts about amounts that the proofs of several modules use: what is     *)
(* computed modulo the size of a word, and sums over finite sets.  The     *)
(* sums are those of MapThenSumSet, which adds the terms in an order that  *)
(* it chooses; the lemmas say that the order makes no difference.          *)
(***************************************************************************)
EXTENDS Integers, FiniteSetsExt, FiniteSetTheorems, TLAPS

(* The quotient and the remainder of a division. *)
LEMMA Division ==
  ASSUME NEW m \in Nat \ {0}, NEW n \in Int
  PROVE  n \div m \in Int /\ n % m \in 0 .. m - 1 /\ n = (m * (n \div m)) + (n % m)
  BY SMT

(* A number is divided in one way only. *)
LEMMA RemainderUnique ==
  ASSUME NEW m \in Nat \ {0}, NEW q \in Int, NEW r \in 0 .. m - 1
  PROVE  ((m * q) + r) % m = r
<1>1. m * q \in Int
  OBVIOUS
<1> DEFINE n == (m * q) + r
<1>2. PICK d \in Int, e \in 0 .. m - 1 : d = n \div m /\ e = n % m /\ n = (m * d) + e
  BY <1>1, Division
<1>3. CASE q - d >= 1
  <2>1. m * (q - d) >= m
    BY <1>3
  <2>2. m * (q - d) = (m * q) - (m * d)
    OBVIOUS
  <2> QED
    BY <1>1, <1>2, <2>1, <2>2
<1>4. CASE d - q >= 1
  <2>1. m * (d - q) >= m
    BY <1>4
  <2>2. m * (d - q) = (m * d) - (m * q)
    OBVIOUS
  <2> QED
    BY <1>1, <1>2, <2>1, <2>2
<1>5. CASE d = q
  BY <1>1, <1>2, <1>5
<1> QED
  BY <1>3, <1>4, <1>5

(* An amount that has wrapped adds like the amount itself. *)
LEMMA WrapAdd ==
  ASSUME NEW m \in Nat \ {0}, NEW x \in Int, NEW y \in Int
  PROVE  (x + (y % m)) % m = (x + y) % m
<1>1. PICK a \in Int, c \in 0 .. m - 1 : c = y % m /\ y = (m * a) + c
  BY Division
<1>2. PICK b \in Int, e \in 0 .. m - 1 : e = (x + c) % m /\ x + c = (m * b) + e
  <2>1. x + c \in Int
    OBVIOUS
  <2> DEFINE z == x + c
  <2> HIDE DEF z
  <2> QED
    BY <2>1, Division DEF z
<1> DEFINE ma == m * a
           mb == m * b
           mab == m * (a + b)
<1>3. mab = ma + mb /\ ma \in Int /\ mb \in Int /\ mab \in Int /\ a + b \in Int
  OBVIOUS
<1>4. x + y = mab + e
  <2>1. y = ma + c /\ x + c = mb + e
    BY <1>1, <1>2
  <2> HIDE DEF ma, mb, mab
  <2> QED
    BY <1>3, <2>1
<1>5. (mab + e) % m = e
  BY <1>3, RemainderUnique
<1> QED
  BY <1>1, <1>2, <1>4, <1>5

(* What is taken off again after a sum has wrapped leaves the other amount. *)
LEMMA WrapTakeBack ==
  ASSUME NEW m \in Nat \ {0}, NEW t \in Int, NEW x \in Int
  PROVE  (((t + x) % m) - t) % m = x % m
<1> DEFINE y == t + x
           minus == 0 - t
<1>1. y \in Int /\ minus \in Int /\ minus + y = x
  OBVIOUS
<1>2. y % m \in Int /\ (y % m) - t = minus + (y % m)
  <2>1. y % m \in Int
    BY <1>1, Division
  <2> DEFINE w == y % m
  <2> HIDE DEF w
  <2>2. w \in Int => w - t = minus + w
    OBVIOUS
  <2> QED
    BY <2>1, <2>2 DEF w
<1> HIDE DEF y, minus
<1>3. (minus + (y % m)) % m = (minus + y) % m
  BY <1>1, WrapAdd
<1> QED
  BY <1>1, <1>2, <1>3 DEF y

-----------------------------------------------------------------------------
(* Sums *)

(* A set of subsets of U has all of them if it has each one whose strict subsets it has. *)
LEMMA SubsetInduction ==
  ASSUME NEW U, IsFiniteSet(U), NEW G,
         \A T \in SUBSET U : (\A R \in SUBSET T : R # T => R \in G) => T \in G
  PROVE  \A T \in SUBSET U : T \in G
<1> DEFINE Bad == {T \in SUBSET U : T \notin G}
<1> SUFFICES ASSUME Bad # {} PROVE FALSE
  OBVIOUS
<1>1. Bad \subseteq FiniteSubsetsOf(U)
  BY FS_FiniteSubsetsOfFinite
<1>2. PICK T \in Bad : \A R \in Bad : ~ (<<R, T>> \in StrictSubsetOrdering(U))
  <2> HIDE DEF Bad
  <2>1. IsWellFoundedOn(StrictSubsetOrdering(U), FiniteSubsetsOf(U))
    BY FS_StrictSubsetOrderingWellFounded
  <2> QED
    BY <1>1, <2>1, WFMin
<1>3. \A R \in SUBSET T : R # T => <<R, T>> \in StrictSubsetOrdering(U)
  BY DEF StrictSubsetOrdering
<1>4. ASSUME NEW R \in SUBSET T, R # T PROVE R \in G
  <2>1. R \notin Bad
    BY <1>2, <1>3, <1>4
  <2> QED
    BY <2>1
<1> QED
  BY <1>4

(* The partial sums that MapThenSumSet adds up, as a function of the set. *)
Chosen(s) == CHOOSE x \in s : TRUE
PartialSums(g, f, U) == [s \in SUBSET U |-> IF s = {} THEN 0 ELSE f[Chosen(s)] + g[s \ {Chosen(s)}]]
SumOver(f, S) == MapThenSumSet(LAMBDA x : f[x], S)

(* There is at most one such function, on a set as on a larger one. *)
LEMMA PartialUnique ==
  ASSUME NEW f, NEW U, IsFiniteSet(U), NEW V, U \subseteq V,
         NEW g, g = PartialSums(g, f, U), NEW h, h = PartialSums(h, f, V)
  PROVE  g[U] = h[U]
<1> DEFINE G == {T \in SUBSET U : g[T] = h[T]}
<1>1. ASSUME NEW T \in SUBSET U, \A R \in SUBSET T : R # T => R \in G
      PROVE  T \in G
  <2>1. CASE T = {}
    BY <2>1 DEF PartialSums
  <2>2. CASE T # {}
    <3>1. PICK x \in T : x = Chosen(T)
      BY <2>2 DEF Chosen
    <3>2. T \ {x} \in G
      BY <1>1, <3>1
    <3>3. g[T] = f[x] + g[T \ {x}] /\ h[T] = f[x] + h[T \ {x}]
      BY <2>2, <3>1 DEF PartialSums
    <3> QED
      BY <3>2, <3>3
  <2> QED
    BY <2>1, <2>2
<1>2. U \in G
  <2> HIDE DEF G
  <2> QED
    BY <1>1, SubsetInduction
<1> QED
  BY <1>2

(* There is one: recursion over the subsets of a finite set is well founded. *)
LEMMA PartialExists ==
  ASSUME NEW f, NEW U, IsFiniteSet(U)
  PROVE  \E g : g = PartialSums(g, f, U)
<1> DEFINE G == {T \in SUBSET U : \E g : g = PartialSums(g, f, T)}
           sums(T) == CHOOSE g : g = PartialSums(g, f, T)
<1>1. ASSUME NEW T \in SUBSET U, \A R \in SUBSET T : R # T => R \in G
      PROVE  T \in G
  <2>1. ASSUME NEW R \in SUBSET T, R # T PROVE sums(R) = PartialSums(sums(R), f, R)
    <3>1. \E g : g = PartialSums(g, f, R)
      BY <1>1, <2>1
    <3> QED
      BY <3>1
  <2>2. ASSUME NEW R \in SUBSET T, R # T, NEW Q \in SUBSET R PROVE sums(R)[Q] = sums(Q)[Q]
    <3>1. IsFiniteSet(Q) /\ Q \in SUBSET T /\ Q # T
      BY <2>2, FS_Subset
    <3>2. sums(R) = PartialSums(sums(R), f, R) /\ sums(Q) = PartialSums(sums(Q), f, Q)
      BY <2>1, <2>2, <3>1
    <3> HIDE DEF sums
    <3> QED
      BY <3>1, <3>2, PartialUnique
  <2> DEFINE g == [s \in SUBSET T |-> IF s = {} THEN 0 ELSE f[Chosen(s)] + sums(s \ {Chosen(s)})[s \ {Chosen(s)}]]
  <2>3. ASSUME NEW Q \in SUBSET T, Q # T PROVE g[Q] = sums(Q)[Q]
    <3>1. sums(Q)[Q] = IF Q = {} THEN 0 ELSE f[Chosen(Q)] + sums(Q)[Q \ {Chosen(Q)}]
      <4>1. sums(Q) = PartialSums(sums(Q), f, Q)
        BY <2>1, <2>3
      <4> HIDE DEF sums
      <4>2. \A h : h = PartialSums(h, f, Q) =>
               h[Q] = IF Q = {} THEN 0 ELSE f[Chosen(Q)] + h[Q \ {Chosen(Q)}]
        BY DEF PartialSums
      <4> QED
        BY <4>1, <4>2
    <3>2. sums(Q)[Q \ {Chosen(Q)}] = sums(Q \ {Chosen(Q)})[Q \ {Chosen(Q)}]
      BY <2>2, <2>3
    <3> HIDE DEF sums
    <3> QED
      BY <3>1, <3>2
  <2>4. ASSUME NEW s \in SUBSET T, s # {} PROVE g[s \ {Chosen(s)}] = sums(s \ {Chosen(s)})[s \ {Chosen(s)}]
    <3>1. Chosen(s) \in s
      BY <2>4 DEF Chosen
    <3>2. s \ {Chosen(s)} \in SUBSET T /\ s \ {Chosen(s)} # T
      BY <3>1
    <3> HIDE DEF g, sums
    <3> QED
      BY <2>3, <3>2
  <2>5. g = PartialSums(g, f, T)
    <3> HIDE DEF sums
    <3> QED
      BY <2>4 DEF PartialSums
  <2> HIDE DEF g
  <2> QED
    BY <2>5
<1>2. U \in G
  <2> HIDE DEF G
  <2> QED
    BY <1>1, SubsetInduction
<1> QED
  BY <1>2

(* So the sum is the last of the partial sums. *)
LEMMA SumIsPartial ==
  ASSUME NEW f, NEW S, IsFiniteSet(S)
  PROVE  \E g : g = PartialSums(g, f, S) /\ SumOver(f, S) = g[S]
<1> DEFINE g == CHOOSE h : h = PartialSums(h, f, S)
<1>1. g = PartialSums(g, f, S)
  <2>1. \E h : h = PartialSums(h, f, S)
    BY PartialExists
  <2> QED
    BY <2>1
<1>2. SumOver(f, S) = g[S]
  BY DEF SumOver, MapThenSumSet, MapThenFoldSet, PartialSums, Chosen
<1> QED
  BY <1>1, <1>2

(* Nothing adds up to 0. *)
LEMMA SumEmpty == ASSUME NEW f PROVE SumOver(f, {}) = 0
<1>1. PICK g : g = PartialSums(g, f, {}) /\ SumOver(f, {}) = g[{}]
  BY SumIsPartial, FS_EmptySet
<1>2. g[{}] = 0
  BY <1>1 DEF PartialSums
<1> QED
  BY <1>1, <1>2

(* One term is added after another. *)
LEMMA SumStep ==
  ASSUME NEW f, NEW S, IsFiniteSet(S), S # {}
  PROVE  \E x \in S : x = Chosen(S) /\ SumOver(f, S) = f[x] + SumOver(f, S \ {x})
<1>1. PICK x \in S : x = Chosen(S)
  BY DEF Chosen
<1>2. PICK g : g = PartialSums(g, f, S) /\ SumOver(f, S) = g[S]
  BY SumIsPartial
<1>3. IsFiniteSet(S \ {x})
  BY FS_RemoveElement
<1>4. PICK h : h = PartialSums(h, f, S \ {x}) /\ SumOver(f, S \ {x}) = h[S \ {x}]
  BY <1>3, SumIsPartial
<1>5. h[S \ {x}] = g[S \ {x}]
  BY <1>2, <1>3, <1>4, PartialUnique
<1>6. g[S] = f[x] + g[S \ {x}]
  BY <1>1, <1>2 DEF PartialSums
<1> QED
  BY <1>1, <1>2, <1>4, <1>5, <1>6

(* A sum of integers is an integer. *)
LEMMA SumInteger ==
  ASSUME NEW f, NEW S, IsFiniteSet(S), \A x \in S : f[x] \in Int
  PROVE  SumOver(f, S) \in Int
<1> DEFINE G == {T \in SUBSET S : SumOver(f, T) \in Int}
<1>1. ASSUME NEW T \in SUBSET S, \A R \in SUBSET T : R # T => R \in G
      PROVE  T \in G
  <2>1. CASE T = {}
    BY <2>1, SumEmpty
  <2>2. CASE T # {}
    <3>1. IsFiniteSet(T)
      BY FS_Subset
    <3>2. PICK x \in T : SumOver(f, T) = f[x] + SumOver(f, T \ {x})
      BY <2>2, <3>1, SumStep
    <3>3. SumOver(f, T \ {x}) \in Int
      BY <1>1
    <3> QED
      BY <3>2, <3>3
  <2> QED
    BY <2>1, <2>2
<1>2. S \in G
  <2> HIDE DEF G
  <2> QED
    BY <1>1, SubsetInduction
<1> QED
  BY <1>2

(* The order of the terms does not matter: any of them may be taken out of the sum. *)
LEMMA SumRemove ==
  ASSUME NEW f, NEW S, IsFiniteSet(S), \A x \in S : f[x] \in Int, NEW x \in S
  PROVE  SumOver(f, S) = f[x] + SumOver(f, S \ {x})
<1> DEFINE G == {T \in SUBSET S : \A y \in T : SumOver(f, T) = f[y] + SumOver(f, T \ {y})}
<1>1. ASSUME NEW T \in SUBSET S, \A R \in SUBSET T : R # T => R \in G
      PROVE  T \in G
  <2> SUFFICES ASSUME NEW y \in T PROVE SumOver(f, T) = f[y] + SumOver(f, T \ {y})
    OBVIOUS
  <2>1. IsFiniteSet(T) /\ IsFiniteSet(T \ {y})
    BY FS_Subset, FS_RemoveElement
  <2>2. PICK z \in T : z = Chosen(T) /\ SumOver(f, T) = f[z] + SumOver(f, T \ {z})
    BY <2>1, SumStep
  <2>3. CASE y = z
    BY <2>2, <2>3
  <2>4. CASE y # z
    <3>1. SumOver(f, T \ {z}) = f[y] + SumOver(f, (T \ {z}) \ {y})
      BY <1>1, <2>2, <2>4
    <3>2. SumOver(f, T \ {y}) = f[z] + SumOver(f, (T \ {y}) \ {z})
      BY <1>1, <2>2, <2>4
    <3>3. (T \ {y}) \ {z} = (T \ {z}) \ {y}
      OBVIOUS
    <3>4. SumOver(f, (T \ {z}) \ {y}) \in Int
      <4>1. IsFiniteSet((T \ {z}) \ {y})
        BY <2>1, FS_RemoveElement
      <4> QED
        BY <4>1, SumInteger
    <3> DEFINE rest == SumOver(f, (T \ {z}) \ {y})
    <3>5. f[y] \in Int /\ f[z] \in Int /\ rest \in Int
      BY <3>4
    <3>6. SumOver(f, T) = f[z] + (f[y] + rest) /\ SumOver(f, T \ {y}) = f[z] + rest
      BY <2>2, <3>1, <3>2, <3>3
    <3> HIDE DEF rest
    <3> QED
      BY <3>5, <3>6
  <2> QED
    BY <2>3, <2>4
<1>2. S \in G
  <2> HIDE DEF G
  <2> QED
    BY <1>1, SubsetInduction
<1> QED
  BY <1>2

(* One more term. *)
LEMMA SumAdd ==
  ASSUME NEW f, NEW S, IsFiniteSet(S), \A y \in S : f[y] \in Int, NEW x, x \notin S, f[x] \in Int
  PROVE  SumOver(f, S \cup {x}) = f[x] + SumOver(f, S)
<1>1. IsFiniteSet(S \cup {x}) /\ (S \cup {x}) \ {x} = S
  BY FS_AddElement
<1> QED
  BY <1>1, SumRemove

(* A sum of natural numbers is one. *)
LEMMA SumNatural ==
  ASSUME NEW f, NEW S, IsFiniteSet(S), \A x \in S : f[x] \in Nat
  PROVE  SumOver(f, S) \in Nat
<1> DEFINE G == {T \in SUBSET S : SumOver(f, T) \in Nat}
<1>1. ASSUME NEW T \in SUBSET S, \A R \in SUBSET T : R # T => R \in G
      PROVE  T \in G
  <2>1. CASE T = {}
    BY <2>1, SumEmpty
  <2>2. CASE T # {}
    <3>1. IsFiniteSet(T)
      BY FS_Subset
    <3>2. PICK x \in T : SumOver(f, T) = f[x] + SumOver(f, T \ {x})
      BY <2>2, <3>1, SumStep
    <3>3. SumOver(f, T \ {x}) \in Nat
      BY <1>1
    <3> QED
      BY <3>2, <3>3
  <2> QED
    BY <2>1, <2>2
<1>2. S \in G
  <2> HIDE DEF G
  <2> QED
    BY <1>1, SubsetInduction
<1> QED
  BY <1>2

(* Fewer and smaller terms add up to no more. *)
LEMMA SumMonotone ==
  ASSUME NEW f, NEW g, NEW S, IsFiniteSet(S), NEW T \in SUBSET S,
         \A x \in S : f[x] \in Nat /\ g[x] \in Nat, \A x \in T : f[x] <= g[x]
  PROVE  SumOver(f, T) <= SumOver(g, S)
<1> DEFINE G == {R \in SUBSET S : SumOver(f, R \cap T) <= SumOver(g, R)}
<1>1. ASSUME NEW R \in SUBSET S, \A Q \in SUBSET R : Q # R => Q \in G
      PROVE  R \in G
  <2>1. CASE R = {}
    <3>1. R \cap T = {}
      BY <2>1
    <3> QED
      BY <2>1, <3>1, SumEmpty
  <2>2. CASE R # {}
    <3>1. IsFiniteSet(R)
      BY FS_Subset
    <3>2. PICK x \in R : SumOver(g, R) = g[x] + SumOver(g, R \ {x})
      BY <2>2, <3>1, SumStep
    <3>3. SumOver(f, (R \ {x}) \cap T) <= SumOver(g, R \ {x})
      BY <1>1
    <3>4. IsFiniteSet(R \ {x}) /\ IsFiniteSet((R \ {x}) \cap T) /\ IsFiniteSet(R \cap T)
      BY <3>1, FS_Subset
    <3>5. SumOver(g, R \ {x}) \in Nat /\ SumOver(f, (R \ {x}) \cap T) \in Nat
      <4>1. \A y \in R \ {x} : g[y] \in Nat
        OBVIOUS
      <4>2. \A y \in (R \ {x}) \cap T : f[y] \in Nat
        OBVIOUS
      <4> QED
        BY <3>4, <4>1, <4>2, SumNatural
    <3>6. CASE x \in T
      <4>1. (R \cap T) \ {x} = (R \ {x}) \cap T
        OBVIOUS
      <4>2. SumOver(f, R \cap T) = f[x] + SumOver(f, (R \cap T) \ {x})
        <5>1. \A y \in R \cap T : f[y] \in Int
          OBVIOUS
        <5> QED
          BY <3>4, <3>6, <5>1, SumRemove
      <4>3. f[x] \in Nat /\ g[x] \in Nat /\ f[x] <= g[x]
        BY <3>6
      <4>4. SumOver(f, R \cap T) = f[x] + SumOver(f, (R \ {x}) \cap T)
        BY <4>1, <4>2
      <4>5. SumOver(f, R \cap T) <= SumOver(g, R)
        BY <3>2, <3>3, <3>5, <4>3, <4>4
      <4> QED
        BY <4>5
    <3>7. CASE x \notin T
      <4>1. R \cap T = (R \ {x}) \cap T
        BY <3>7
      <4>2. g[x] \in Nat
        OBVIOUS
      <4>3. SumOver(g, R \ {x}) <= SumOver(g, R)
        BY <3>2, <3>5, <4>2
      <4>4. SumOver(f, R \cap T) <= SumOver(g, R \ {x})
        BY <3>3, <4>1
      <4>5. SumOver(f, R \cap T) \in Nat /\ SumOver(g, R) \in Nat
        <5>1. SumOver(g, R) \in Nat
          BY <3>2, <3>5, <4>2
        <5>2. SumOver(f, R \cap T) \in Nat
          BY <3>5, <4>1
        <5> QED
          BY <5>1, <5>2
      <4>6. SumOver(f, R \cap T) <= SumOver(g, R)
        BY <3>5, <4>3, <4>4, <4>5
      <4> QED
        BY <4>6
    <3> QED
      BY <3>6, <3>7
  <2> QED
    BY <2>1, <2>2
<1>2. S \in G
  <2> HIDE DEF G
  <2> QED
    BY <1>1, SubsetInduction
<1>3. S \cap T = T
  OBVIOUS
<1> QED
  BY <1>2, <1>3

(* Nothing but zeros adds up to zero. *)
LEMMA SumZero ==
  ASSUME NEW f, NEW S, IsFiniteSet(S), \A x \in S : f[x] = 0
  PROVE  SumOver(f, S) = 0
<1> DEFINE G == {T \in SUBSET S : SumOver(f, T) = 0}
<1>1. ASSUME NEW T \in SUBSET S, \A R \in SUBSET T : R # T => R \in G
      PROVE  T \in G
  <2>1. CASE T = {}
    BY <2>1, SumEmpty
  <2>2. CASE T # {}
    <3>1. IsFiniteSet(T)
      BY FS_Subset
    <3>2. PICK x \in T : SumOver(f, T) = f[x] + SumOver(f, T \ {x})
      BY <2>2, <3>1, SumStep
    <3>3. SumOver(f, T \ {x}) = 0 /\ f[x] = 0
      BY <1>1
    <3> QED
      BY <3>2, <3>3
  <2> QED
    BY <2>1, <2>2
<1>2. S \in G
  <2> HIDE DEF G
  <2> QED
    BY <1>1, SubsetInduction
<1> QED
  BY <1>2

(* Equal terms have equal sums. *)
LEMMA SumSame ==
  ASSUME NEW f, NEW g, NEW S, IsFiniteSet(S), \A x \in S : f[x] = g[x]
  PROVE  SumOver(f, S) = SumOver(g, S)
<1> DEFINE G == {T \in SUBSET S : SumOver(f, T) = SumOver(g, T)}
<1>1. ASSUME NEW T \in SUBSET S, \A R \in SUBSET T : R # T => R \in G
      PROVE  T \in G
  <2>1. CASE T = {}
    BY <2>1, SumEmpty
  <2>2. CASE T # {}
    <3>1. IsFiniteSet(T)
      BY FS_Subset
    <3>2. PICK x \in T : x = Chosen(T) /\ SumOver(f, T) = f[x] + SumOver(f, T \ {x})
      BY <2>2, <3>1, SumStep
    <3>3. PICK y \in T : y = Chosen(T) /\ SumOver(g, T) = g[y] + SumOver(g, T \ {y})
      BY <2>2, <3>1, SumStep
    <3>4. SumOver(f, T \ {x}) = SumOver(g, T \ {x})
      BY <1>1
    <3> QED
      BY <3>2, <3>3, <3>4
  <2> QED
    BY <2>1, <2>2
<1>2. S \in G
  <2> HIDE DEF G
  <2> QED
    BY <1>1, SubsetInduction
<1> QED
  BY <1>2

(* Two sums without a common term are one. *)
LEMMA SumUnion ==
  ASSUME NEW f, NEW S, IsFiniteSet(S), NEW T, IsFiniteSet(T), S \cap T = {},
         \A x \in S \cup T : f[x] \in Int
  PROVE  SumOver(f, S \cup T) = SumOver(f, S) + SumOver(f, T)
<1> DEFINE G == {R \in SUBSET T : SumOver(f, S \cup R) = SumOver(f, S) + SumOver(f, R)}
<1>0. SumOver(f, S) \in Int
  BY SumInteger
<1>1. ASSUME NEW R \in SUBSET T, \A Q \in SUBSET R : Q # R => Q \in G
      PROVE  R \in G
  <2>1. CASE R = {}
    <3>1. S \cup R = S
      BY <2>1
    <3> QED
      BY <1>0, <2>1, <3>1, SumEmpty
  <2>2. CASE R # {}
    <3>1. PICK x \in R : TRUE
      BY <2>2
    <3> DEFINE Q == R \ {x}
    <3>2. Q \in G
      BY <1>1, <3>1
    <3>3. IsFiniteSet(R) /\ IsFiniteSet(Q) /\ IsFiniteSet(S \cup Q)
      <4>1. IsFiniteSet(R) /\ IsFiniteSet(Q)
        BY FS_Subset
      <4> HIDE DEF Q
      <4> QED
        BY <4>1, FS_Union
    <3>4. SumOver(f, R) = f[x] + SumOver(f, Q)
      <4>1. \A y \in R : f[y] \in Int
        OBVIOUS
      <4> QED
        BY <3>3, <4>1, SumRemove
    <3>5. SumOver(f, (S \cup Q) \cup {x}) = f[x] + SumOver(f, S \cup Q)
      <4>1. (\A y \in S \cup Q : f[y] \in Int) /\ f[x] \in Int /\ x \notin S \cup Q
        BY <3>1
      <4> HIDE DEF Q
      <4> QED
        BY <3>3, <4>1, SumAdd
    <3>6. (S \cup Q) \cup {x} = S \cup R
      BY <3>1
    <3>7. SumOver(f, S \cup Q) = SumOver(f, S) + SumOver(f, Q)
      BY <3>2
    <3>8. SumOver(f, Q) \in Int /\ f[x] \in Int
      <4>1. \A y \in Q : f[y] \in Int
        OBVIOUS
      <4> QED
        BY <3>1, <3>3, <4>1, SumInteger
    <3> HIDE DEF Q, G
    <3>9. SumOver(f, S \cup R) = SumOver(f, S) + SumOver(f, R)
      <4> DEFINE a == SumOver(f, S)
                 c == SumOver(f, Q)
      <4>1. SumOver(f, S \cup R) = f[x] + (a + c) /\ SumOver(f, R) = f[x] + c
        BY <3>4, <3>5, <3>6, <3>7
      <4>2. a \in Int /\ c \in Int /\ f[x] \in Int
        BY <1>0, <3>8
      <4>3. SumOver(f, S) = a
        OBVIOUS
      <4> HIDE DEF a, c
      <4> QED
        BY <4>1, <4>2, <4>3
    <3> QED
      BY <3>9 DEF G
  <2> QED
    BY <2>1, <2>2
<1>2. T \in G
  <2> HIDE DEF G
  <2> QED
    BY <1>1, SubsetInduction
<1> QED
  BY <1>2

=============================================================================
