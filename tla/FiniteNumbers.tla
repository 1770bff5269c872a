---------------------------- MODULE FiniteNumbers -----------------------------
(***************************************************************************)
(* Facts about finite sets and natural numbers that the proofs of the      *)
(* modules need: the largest of a set of numbers, and the sum of a         *)
(* function over a set (MapThenSumSet of FiniteSetsExt). Both rest on      *)
(* least counterexamples: a set of numbers has a least one, and so a set   *)
(* of finite sets has a smallest.                                          *)
(***************************************************************************)
EXTENDS Integers, FiniteSets, FiniteSetsExt, FiniteSetTheorems, WellFoundedInduction, TLAPS

\* The smaller and the larger of two numbers.
LEMMA MinOfTwo == ASSUME NEW a \in Int, NEW b \in Int PROVE Min({a, b}) = IF a <= b THEN a ELSE b
<1> DEFINE x == Min({a, b})
<1>1. \E y \in {a, b} : \A z \in {a, b} : y <= z
  BY SMT
<1>2. x \in {a, b} /\ \A z \in {a, b} : x <= z
  BY <1>1 DEF Min
<1> QED
  BY <1>2

LEMMA MaxOfTwo == ASSUME NEW a \in Int, NEW b \in Int PROVE Max({a, b}) = IF a >= b THEN a ELSE b
<1> DEFINE x == Max({a, b})
<1>1. \E y \in {a, b} : \A z \in {a, b} : y >= z
  BY SMT
<1>2. x \in {a, b} /\ \A z \in {a, b} : x >= z
  BY <1>1 DEF Max
<1> QED
  BY <1>2

\* A set of numbers has a least one.
LEMMA LeastNatural ==
    ASSUME NEW T, T \subseteq Nat, T # {}
    PROVE  \E x \in T : \A y \in T : x <= y
<1> DEFINE R == OpToRel(<, Nat)
<1>1. IsWellFoundedOn(R, Nat)
  BY NatLessThanWellFounded
<1>2. \A x, y \in Nat : x < y => <<x, y>> \in R
  BY DEF OpToRel
<1> HIDE DEF R
<1>3. PICK x \in T : \A y \in T : ~ (<<y, x>> \in R)
  BY <1>1, WFMin
<1>4. ASSUME NEW y \in T PROVE x <= y
  <2>1. x \in Nat /\ y \in Nat /\ <<y, x>> \notin R
    BY <1>3
  <2> QED
    BY <1>2, <2>1
<1> QED
  BY <1>4

\* Of some finite sets, one is the smallest: nothing in the set is smaller.
LEMMA SmallestSet ==
    ASSUME NEW F, F # {}, \A s \in F : IsFiniteSet(s)
    PROVE  \E s \in F : \A t \in F : ~ Cardinality(t) < Cardinality(s)
<1> DEFINE T == {Cardinality(s) : s \in F}
<1>1. \A s \in F : Cardinality(s) \in Nat
  BY FS_CardinalityType
<1>2. T \subseteq Nat /\ T # {}
  BY <1>1
<1>3. PICK x \in T : \A y \in T : x <= y
  <2> HIDE DEF T
  <2> QED
    BY <1>2, LeastNatural
<1>4. PICK s \in F : x = Cardinality(s)
  OBVIOUS
<1>5. ASSUME NEW t \in F PROVE ~ Cardinality(t) < Cardinality(s)
  BY <1>1, <1>3, <1>4
<1> QED
  BY <1>5

\* A set without one of its elements is smaller.
LEMMA Smaller ==
    ASSUME NEW s, IsFiniteSet(s), NEW x \in s
    PROVE  /\ IsFiniteSet(s \ {x})
           /\ Cardinality(s \ {x}) < Cardinality(s)
<1>1. IsFiniteSet(s \ {x}) /\ Cardinality(s \ {x}) = Cardinality(s) - 1
  BY FS_RemoveElement
<1>2. Cardinality(s) \in Nat
  BY FS_CardinalityType
<1> QED
  BY <1>1, <1>2

\* Sets that have nothing in common add up.
LEMMA DisjointAdds ==
    ASSUME NEW S, IsFiniteSet(S), NEW T, IsFiniteSet(T), S \cap T = {}
    PROVE  Cardinality(S \cup T) = Cardinality(S) + Cardinality(T)
<1>1. Cardinality(S \cup T) = Cardinality(S) + Cardinality(T) - Cardinality(S \cap T)
  BY FS_Union
<1>2. Cardinality(S) \in Nat /\ Cardinality(T) \in Nat /\ Cardinality({}) = 0
  BY FS_CardinalityType, FS_EmptySet
<1>3. Cardinality(S \cap T) = 0
  BY <1>2
<1> QED
  BY <1>1, <1>2, <1>3

-----------------------------------------------------------------------------
(* Largest numbers.                                                        *)

\* The largest of a bounded set of numbers.
LEMMA BoundedHasMax ==
    ASSUME NEW T, T \subseteq Nat, T # {}, NEW bound \in Nat, \A y \in T : y <= bound
    PROVE  Max(T) \in T /\ \A y \in T : y <= Max(T)
<1> DEFINE Above == {n \in Nat : \A y \in T : y <= n}
<1>1. Above \subseteq Nat /\ Above # {}
  OBVIOUS
<1> HIDE DEF Above
<1>2. PICK least \in Above : \A n \in Above : least <= n
  BY <1>1, LeastNatural
<1>3. least \in Nat /\ \A y \in T : y <= least
  BY <1>2 DEF Above
<1>4. least \in T
  <2>1. SUFFICES ASSUME least \notin T PROVE FALSE
    OBVIOUS
  <2>2. PICK y \in T : TRUE
    OBVIOUS
  <2>3. y \in Nat /\ y <= least /\ y # least
    BY <1>3, <2>1
  <2>4. least - 1 \in Nat
    BY <1>3, <2>3
  <2>5. \A z \in T : z \in Nat /\ z <= least /\ z # least
    BY <1>3, <2>1
  <2>6. \A z \in T : z <= least - 1
    BY <1>3, <2>5
  <2>7. least - 1 \in Above
    BY <2>4, <2>6 DEF Above
  <2> QED
    BY <1>2, <1>3, <2>7
<1> QED
  BY <1>3, <1>4 DEF Max

\* ... which a finite set is.
LEMMA FiniteIsBounded ==
    ASSUME NEW S, IsFiniteSet(S), S \subseteq Nat
    PROVE  \E bound \in Nat : \A y \in S : y <= bound
<1> DEFINE F == {s \in SUBSET S : ~ \E bound \in Nat : \A y \in s : y <= bound}
<1>1. SUFFICES ASSUME F # {} PROVE FALSE
  OBVIOUS
<1>2. \A s \in F : IsFiniteSet(s)
  BY FS_Subset
<1>3. PICK s \in F : \A t \in F : ~ Cardinality(t) < Cardinality(s)
  <2> HIDE DEF F
  <2> QED
    BY <1>1, <1>2, SmallestSet
<1>4. PICK x \in s : x \in Nat
  OBVIOUS
<1>5. s \ {x} \notin F
  BY <1>2, <1>3, Smaller
<1>6. PICK bound \in Nat : \A y \in s \ {x} : y <= bound
  BY <1>5
<1>7. bound + x \in Nat /\ \A y \in s : y <= bound + x
  BY <1>4, <1>6
<1>8. \E b \in Nat : \A y \in s : y <= b
  BY <1>7
<1> QED
  BY <1>8

-----------------------------------------------------------------------------
(* Sums.                                                                   *)

\* The sum of f over the set S.
SumOf(f, S) == MapThenSumSet(LAMBDA x : f[x], S)

\* What a fold takes first.
First(s) == CHOOSE x \in s : TRUE

\* g sums f over every subset of S.
Sums(f, S, g) ==
    g = [s \in SUBSET S |-> IF s = {} THEN 0 ELSE f[First(s)] + g[s \ {First(s)}]]

\* The definition of the community modules, which folds whichever is first.
LEMMA SumUnfolds == ASSUME NEW f, NEW S PROVE SumOf(f, S) = (CHOOSE g : Sums(f, S, g))[S]
BY DEF SumOf, MapThenSumSet, MapThenFoldSet, Sums, First

\* Such a function there is, one size of subset after another.
LEMMA SumsExist == ASSUME NEW f, NEW S, IsFiniteSet(S) PROVE \E g : Sums(f, S, g)
<1> DEFINE Next(g, s) == IF s = {} THEN 0 ELSE f[First(s)] + g[s \ {First(s)}]
           Upto(n, g) == /\ g = [s \in SUBSET S |-> g[s]]
                         /\ \A s \in SUBSET S : Cardinality(s) <= n => g[s] = Next(g, s)
           None == {n \in Nat : ~ \E g : Upto(n, g)}
<1>1. \A s \in SUBSET S : IsFiniteSet(s) /\ Cardinality(s) \in Nat /\ (Cardinality(s) = 0 <=> s = {})
  BY FS_Subset, FS_CardinalityType, FS_EmptySet
<1>2. \A s \in SUBSET S : s # {} => /\ First(s) \in s /\ s \ {First(s)} \in SUBSET S
                                    /\ Cardinality(s \ {First(s)}) < Cardinality(s)
  BY <1>1, Smaller DEF First
<1>3. 0 \notin None
  <2> DEFINE g == [s \in SUBSET S |-> 0]
  <2>1. Upto(0, g)
    <3>1. ASSUME NEW s \in SUBSET S, Cardinality(s) <= 0 PROVE g[s] = Next(g, s)
      BY <1>1, <3>1
    <3> QED
      BY <3>1
  <2> HIDE DEF Upto, g
  <2> QED
    BY <2>1
<1>4. ASSUME NEW n \in Nat, n \notin None PROVE n + 1 \notin None
  <2>1. PICK g : Upto(n, g)
    BY <1>4
  <2> DEFINE h == [s \in SUBSET S |-> Next(g, s)]
  <2>2. ASSUME NEW s \in SUBSET S, Cardinality(s) <= n + 1 PROVE h[s] = Next(h, s)
    <3>1. CASE s = {}
      BY <3>1
    <3>2. CASE s # {}
      <4> DEFINE t == s \ {First(s)}
      <4>1. t \in SUBSET S /\ Cardinality(t) <= n
        BY <1>1, <1>2, <2>2, <3>2
      <4>2. g[t] = Next(g, t) /\ h[t] = Next(g, t)
        BY <2>1, <4>1
      <4> QED
        BY <3>2, <4>2
    <3> QED
      BY <3>1, <3>2
  <2>3. Upto(n + 1, h)
    BY <2>2
  <2> HIDE DEF Upto, h
  <2> QED
    BY <2>3
<1>5. None = {}
  <2>1. SUFFICES ASSUME None # {} PROVE FALSE
    OBVIOUS
  <2>2. None \subseteq Nat
    OBVIOUS
  <2> HIDE DEF None
  <2>3. PICK x \in None : \A y \in None : x <= y
    BY <2>1, <2>2, LeastNatural
  <2>4. x \in Nat /\ x # 0
    BY <1>3, <2>2, <2>3
  <2>5. x - 1 \in Nat /\ x - 1 \notin None
    BY <2>3, <2>4
  <2>6. x - 1 + 1 \notin None
    BY <1>4, <2>5
  <2> QED
    BY <2>3, <2>4, <2>6
<1>6. PICK g : Upto(Cardinality(S), g)
  BY <1>1, <1>5
<1>7. \A s \in SUBSET S : Cardinality(s) <= Cardinality(S)
  BY FS_Subset
<1>8. g = [s \in SUBSET S |-> Next(g, s)]
  BY <1>6, <1>7
<1> QED
  BY <1>8 DEF Sums

\* The sum of a part does not depend on the whole it is taken from.
LEMMA SumsAgree ==
    ASSUME NEW f, NEW S, NEW U, NEW g, NEW h, IsFiniteSet(S), IsFiniteSet(U),
           Sums(f, S, g), Sums(f, U, h)
    PROVE  \A s \in SUBSET (S \cap U) : g[s] = h[s]
<1> DEFINE F == {s \in SUBSET (S \cap U) : g[s] # h[s]}
<1>1. SUFFICES ASSUME F # {} PROVE FALSE
  OBVIOUS
<1>2. \A s \in F : IsFiniteSet(s)
  BY FS_Subset
<1>3. PICK s \in F : \A t \in F : ~ Cardinality(t) < Cardinality(s)
  <2> HIDE DEF F
  <2> QED
    BY <1>1, <1>2, SmallestSet
<1>4. s # {}
  BY DEF Sums
<1>5. First(s) \in s
  BY <1>4 DEF First
<1>6. Cardinality(s \ {First(s)}) < Cardinality(s)
  BY <1>2, <1>5, Smaller
<1>7. s \ {First(s)} \in SUBSET (S \cap U)
  OBVIOUS
<1>8. g[s \ {First(s)}] = h[s \ {First(s)}]
  BY <1>3, <1>6, <1>7
<1>9. g[s] = f[First(s)] + g[s \ {First(s)}] /\ h[s] = f[First(s)] + h[s \ {First(s)}]
  BY <1>4 DEF Sums
<1> QED
  BY <1>8, <1>9

\* The sum is what is first and the sum of the rest.
LEMMA SumRecurs ==
    ASSUME NEW f, NEW S, IsFiniteSet(S)
    PROVE  SumOf(f, S) = IF S = {} THEN 0 ELSE f[First(S)] + SumOf(f, S \ {First(S)})
<1> DEFINE R == S \ {First(S)}
<1>1. IsFiniteSet(R)
  BY FS_Subset
<1>2. PICK g : g = (CHOOSE k : Sums(f, S, k)) /\ Sums(f, S, g)
  BY SumsExist
<1>3. PICK h : h = (CHOOSE k : Sums(f, R, k)) /\ Sums(f, R, h)
  BY <1>1, SumsExist
<1>4. g[R] = h[R]
  BY <1>1, <1>2, <1>3, SumsAgree
<1>5. g[S] = IF S = {} THEN 0 ELSE f[First(S)] + g[R]
  BY <1>2 DEF Sums
<1>6. SumOf(f, S) = g[S] /\ SumOf(f, R) = h[R]
  BY <1>2, <1>3, SumUnfolds
<1> QED
  BY <1>4, <1>5, <1>6

\* Nothing adds up to nothing.
LEMMA SumEmpty == ASSUME NEW f PROVE SumOf(f, {}) = 0
BY SumRecurs, FS_EmptySet

\* A sum of numbers is a number.
LEMMA SumIsInt ==
    ASSUME NEW f, NEW S, IsFiniteSet(S), \A x \in S : f[x] \in Int
    PROVE  SumOf(f, S) \in Int
<1> DEFINE F == {s \in SUBSET S : SumOf(f, s) \notin Int}
<1>1. SUFFICES ASSUME F # {} PROVE FALSE
  OBVIOUS
<1>2. \A s \in F : IsFiniteSet(s)
  BY FS_Subset
<1>3. PICK s \in F : \A t \in F : ~ Cardinality(t) < Cardinality(s)
  <2> HIDE DEF F
  <2> QED
    BY <1>1, <1>2, SmallestSet
<1>4. s # {}
  BY SumEmpty
<1>5. First(s) \in s
  BY <1>4 DEF First
<1>6. Cardinality(s \ {First(s)}) < Cardinality(s)
  BY <1>2, <1>5, Smaller
<1>7. SumOf(f, s \ {First(s)}) \in Int
  BY <1>3, <1>6
<1>8. SumOf(f, s) = f[First(s)] + SumOf(f, s \ {First(s)})
  BY <1>2, <1>4, SumRecurs
<1> QED
  BY <1>5, <1>7, <1>8

\* Whichever is taken first.
LEMMA SumTakesAny ==
    ASSUME NEW f, NEW S, IsFiniteSet(S), \A x \in S : f[x] \in Int, NEW y \in S
    PROVE  SumOf(f, S) = f[y] + SumOf(f, S \ {y})
<1> DEFINE F == {s \in SUBSET S : \E z \in s : SumOf(f, s) # f[z] + SumOf(f, s \ {z})}
<1>1. SUFFICES ASSUME F # {} PROVE FALSE
  OBVIOUS
<1>2. \A s \in SUBSET S : IsFiniteSet(s) /\ SumOf(f, s) \in Int
  <2>1. ASSUME NEW s \in SUBSET S PROVE IsFiniteSet(s)
    BY FS_Subset
  <2> QED
    BY <2>1, SumIsInt
<1>3. PICK s \in F : \A t \in F : ~ Cardinality(t) < Cardinality(s)
  <2>1. \A t \in F : IsFiniteSet(t)
    BY <1>2
  <2> HIDE DEF F
  <2> QED
    BY <1>1, <2>1, SmallestSet
<1>4. PICK z \in s : SumOf(f, s) # f[z] + SumOf(f, s \ {z})
  OBVIOUS
<1>5. PICK x \in s : x = First(s)
  BY <1>4 DEF First
<1>6. SumOf(f, s) = f[x] + SumOf(f, s \ {x})
  BY <1>2, <1>4, <1>5, SumRecurs
<1>7. x # z
  BY <1>4, <1>6
<1>8. s \ {x} \in SUBSET S /\ s \ {z} \in SUBSET S /\ (s \ {x}) \ {z} = (s \ {z}) \ {x}
  OBVIOUS
<1>9. s \ {x} \notin F /\ s \ {z} \notin F
  <2>1. Cardinality(s \ {x}) < Cardinality(s) /\ Cardinality(s \ {z}) < Cardinality(s)
    BY <1>2, Smaller
  <2> HIDE DEF F
  <2> QED
    BY <1>3, <2>1
<1>10. /\ SumOf(f, s \ {x}) = f[z] + SumOf(f, (s \ {x}) \ {z})
       /\ SumOf(f, s \ {z}) = f[x] + SumOf(f, (s \ {x}) \ {z})
  BY <1>7, <1>8, <1>9
<1>11. SumOf(f, (s \ {x}) \ {z}) \in Int /\ f[x] \in Int /\ f[z] \in Int
  BY <1>2, <1>8
<1> QED
  BY <1>4, <1>6, <1>10, <1>11

\* One more element adds its value.
LEMMA SumAdds ==
    ASSUME NEW f, NEW S, IsFiniteSet(S), NEW y, y \notin S, \A x \in S \cup {y} : f[x] \in Int
    PROVE  SumOf(f, S \cup {y}) = SumOf(f, S) + f[y]
<1>1. IsFiniteSet(S \cup {y})
  BY FS_AddElement
<1>2. (S \cup {y}) \ {y} = S
  OBVIOUS
<1>3. SumOf(f, S \cup {y}) = f[y] + SumOf(f, S)
  BY <1>1, <1>2, SumTakesAny
<1>4. SumOf(f, S) \in Int /\ f[y] \in Int
  BY SumIsInt
<1> QED
  BY <1>3, <1>4

\* A sum depends on the values at what is summed over.
LEMMA SumSame ==
    ASSUME NEW f, NEW g, NEW S, IsFiniteSet(S), \A x \in S : f[x] = g[x]
    PROVE  SumOf(f, S) = SumOf(g, S)
<1>1. ASSUME NEW h PROVE Sums(f, S, h) <=> Sums(g, S, h)
  <2>1. \A s \in SUBSET S : s # {} => f[First(s)] = g[First(s)]
    BY DEF First
  <2> QED
    BY <2>1 DEF Sums
<1>2. PICK h : h = (CHOOSE k : Sums(f, S, k)) /\ Sums(f, S, h)
  BY SumsExist
<1>3. PICK i : i = (CHOOSE k : Sums(g, S, k)) /\ Sums(g, S, i)
  BY SumsExist
<1>4. h[S] = i[S]
  BY <1>1, <1>2, <1>3, SumsAgree
<1> QED
  BY <1>2, <1>3, <1>4, SumUnfolds

\* A part of a sum of natural numbers is no larger than the whole.
LEMMA SumOfPart ==
    ASSUME NEW f, NEW S, IsFiniteSet(S), \A x \in S : f[x] \in Nat, NEW P \in SUBSET S
    PROVE  SumOf(f, P) <= SumOf(f, S)
<1> DEFINE F == {s \in SUBSET S : P \subseteq s /\ ~ SumOf(f, P) <= SumOf(f, s)}
<1>1. SUFFICES ASSUME F # {} PROVE FALSE
  OBVIOUS
<1>2. \A s \in SUBSET S : IsFiniteSet(s) /\ SumOf(f, s) \in Int
  <2>1. ASSUME NEW s \in SUBSET S PROVE IsFiniteSet(s)
    BY FS_Subset
  <2>2. \A x \in S : f[x] \in Int
    OBVIOUS
  <2> QED
    BY <2>1, <2>2, SumIsInt
<1>3. PICK s \in F : \A t \in F : ~ Cardinality(t) < Cardinality(s)
  <2>1. \A t \in F : IsFiniteSet(t)
    BY <1>2
  <2> HIDE DEF F
  <2> QED
    BY <1>1, <2>1, SmallestSet
<1>4. PICK x \in s : x \notin P
  BY <1>2, <1>3
<1>5. Cardinality(s \ {x}) < Cardinality(s)
  BY <1>2, Smaller
<1>6. SumOf(f, P) <= SumOf(f, s \ {x})
  BY <1>3, <1>4, <1>5
<1>7. SumOf(f, s) = f[x] + SumOf(f, s \ {x})
  BY <1>2, SumTakesAny
<1>8. f[x] \in Nat /\ SumOf(f, P) \in Int /\ SumOf(f, s \ {x}) \in Int
  BY <1>2
<1> QED
  BY <1>3, <1>6, <1>7, <1>8
===============================================================================
