----------------------------- MODULE Induction -----------------------------
(***************************************************************************)
(* Induction over the numbers and over finite sets, and what follows from  *)
(* it for the sums by which the counts of Tracker and Stats are stated.    *)
(* The induction theorems of the library take an operator as a parameter,  *)
(* which the provers cannot instantiate; these take the set of the values  *)
(* that have the property.                                                 *)
(***************************************************************************)
EXTENDS FiniteSetTheorems, TLAPS

\* A set of numbers that is not empty has a least element.
LEMMA LeastElement ==
  ASSUME NEW S \in SUBSET Nat, S # {}
  PROVE  \E n \in S : \A m \in S : n <= m
<1> DEFINE R == {ss \in Nat \X Nat : ss[1] < ss[2]}
<1>1. IsWellFoundedOn(R, Nat)
  BY NatLessThanWellFounded, Zenon DEF OpToRel
<1>2. \A m, n \in Nat : m < n => <<m, n>> \in R
  BY SMT
<1> HIDE DEF R
<1>3. PICK n \in S : \A m \in S : <<m, n>> \notin R
  BY <1>1, WFMin
<1>4. ASSUME NEW m \in S, ~ n <= m
      PROVE  FALSE
  <2>1. m \in Nat /\ n \in Nat /\ m < n
    BY <1>4
  <2>2. <<m, n>> \in R
    BY <1>2, <2>1
  <2>3. QED
    BY <1>3, <2>2
<1>5. QED
  BY <1>3, <1>4

\* Induction over the numbers, for a set of them.
LEMMA SetInduction ==
  ASSUME NEW Good, 0 \in Good, \A n \in Nat : n \in Good => n + 1 \in Good
  PROVE  Nat \subseteq Good
<1> DEFINE Bad == {n \in Nat : n \notin Good}
<1>1. SUFFICES ASSUME Bad # {} PROVE FALSE
  OBVIOUS
<1>2. PICK n \in Bad : \A m \in Bad : n <= m
  <2> Bad \in SUBSET Nat
    OBVIOUS
  <2> HIDE DEF Bad
  <2>1. QED
    BY <1>1, LeastElement
<1>3. n \in Nat /\ n # 0 /\ n - 1 \in Nat
  BY <1>2
<1>4. n - 1 \in Good
  BY <1>2, <1>3
<1>5. (n - 1) + 1 \in Good /\ (n - 1) + 1 = n
  BY <1>3, <1>4
<1>6. QED
  BY <1>2, <1>5

\* Induction over the subsets of a finite set by the subset relation.
LEMMA SubsetInduction ==
  ASSUME NEW S, IsFiniteSet(S), NEW Good,
         \A T \in SUBSET S :
           (\A U \in SUBSET T : U # T => U \in Good) => T \in Good
  PROVE  SUBSET S \subseteq Good
<1> DEFINE Bad == {T \in SUBSET S : T \notin Good}
<1>1. SUFFICES ASSUME Bad # {} PROVE FALSE
  OBVIOUS
<1>2. IsWellFoundedOn(StrictSubsetOrdering(S), SUBSET S)
  BY FS_StrictSubsetOrderingWellFounded, FS_FiniteSubsetsOfFinite
<1> DEFINE R == StrictSubsetOrdering(S)
<1>3. \A T, U \in SUBSET S : T \subseteq U /\ T # U => <<T, U>> \in R
  BY DEF StrictSubsetOrdering
<1>4. Bad \subseteq SUBSET S
  OBVIOUS
<1>5. PICK T \in Bad : \A U \in Bad : <<U, T>> \notin R
  <2> HIDE DEF Bad, R
  <2>1. IsWellFoundedOn(R, SUBSET S)
    BY <1>2 DEF R
  <2>2. QED
    BY <2>1, <1>1, <1>4, WFMin
<1>6. ASSUME NEW U \in SUBSET T, U # T
      PROVE  U \in Good
  <2>1. T \in SUBSET S /\ U \in SUBSET S
    BY <1>4, <1>5
  <2>2. <<U, T>> \in R
    BY <1>3, <1>6, <2>1
  <2>3. U \notin Bad
    <3> HIDE DEF R, Bad
    <3>1. QED
      BY <1>5, <2>2
  <2>4. QED
    BY <2>1, <2>3
<1>7. QED
  BY <1>5, <1>6

\* Induction over the subsets of a finite set, one element at a time.
LEMMA FiniteInduction ==
  ASSUME NEW S, IsFiniteSet(S), NEW Good, {} \in Good,
         \A T \in SUBSET S : \A x \in S \ T : T \in Good => T \cup {x} \in Good
  PROVE  S \in Good
<1>1. ASSUME NEW T \in SUBSET S, \A U \in SUBSET T : U # T => U \in Good
      PROVE  T \in Good
  <2>1. CASE T = {}
    BY <2>1
  <2>2. CASE T # {}
    <3>1. PICK x \in T : TRUE
      BY <2>2
    <3>2. T \ {x} \in Good /\ T \ {x} \in SUBSET S /\ x \in S \ (T \ {x})
      BY <1>1, <3>1
    <3>3. (T \ {x}) \cup {x} = T
      BY <3>1
    <3>4. QED
      BY <3>2, <3>3
  <2>3. QED
    BY <2>1, <2>2
<1>2. SUBSET S \subseteq Good
  BY <1>1, SubsetInduction, Zenon
<1>3. QED
  BY <1>2

---------------------------------------------------------------------------

\* What SumFunctionOnSet is by definition, and a step of it.
Sums(f, S) ==
  CHOOSE sum : sum = [s \in SUBSET S |->
                        IF s = {} THEN 0
                        ELSE LET x == CHOOSE x \in s : TRUE
                             IN  f[x] + sum[s \ {x}]]

\* The sum of the community modules is a recursive function on the subsets.
LEMMA SumIsFold ==
  ASSUME NEW f, NEW S
  PROVE  SumFunctionOnSet(f, S) = Sums(f, S)[S]
BY DEF SumFunctionOnSet, FoldFunctionOnSet, MapThenFoldSet, Sums

Chosen(s) == CHOOSE x \in s : TRUE

SumStep(f, sum, s) ==
  IF s = {} THEN 0 ELSE f[Chosen(s)] + sum[s \ {Chosen(s)}]

\* That function exists,
LEMMA SumsExist ==
  ASSUME NEW f, NEW S, IsFiniteSet(S)
  PROVE  \E sum : sum = [s \in SUBSET S |-> SumStep(f, sum, s)]
<1> DEFINE Level(n) == {s \in SUBSET S : Cardinality(s) <= n}
           Good == {n \in Nat : \E sum : sum = [s \in Level(n) |-> SumStep(f, sum, s)]}
<1>0. \A s \in SUBSET S : IsFiniteSet(s) /\ Cardinality(s) \in Nat
  BY FS_Subset, FS_CardinalityType
<1>1. \A s \in SUBSET S : s # {} => /\ Chosen(s) \in s
                                    /\ s \ {Chosen(s)} \in SUBSET S
                                    /\ Cardinality(s \ {Chosen(s)}) = Cardinality(s) - 1
  BY <1>0, FS_RemoveElement DEF Chosen
<1>2. 0 \in Good
  <2>1. \A s \in Level(0) : s = {}
    BY <1>0, FS_EmptySet
  <2> DEFINE sum == [s \in Level(0) |-> 0]
  <2>2. sum = [s \in Level(0) |-> SumStep(f, sum, s)]
    BY <2>1 DEF SumStep
  <2>3. QED
    BY <2>2
<1>3. ASSUME NEW n \in Nat, n \in Good
      PROVE  n + 1 \in Good
  <2>1. PICK sum : sum = [s \in Level(n) |-> SumStep(f, sum, s)]
    BY <1>3
  <2> DEFINE next == [s \in Level(n + 1) |-> SumStep(f, sum, s)]
  <2>2. \A s \in Level(n) : sum[s] = SumStep(f, sum, s)
    BY <2>1, Zenon
  <2>3. \A s \in Level(n) : s \in Level(n + 1)
    BY <1>0
  <2>4. \A s \in Level(n) : next[s] = sum[s]
    BY <2>2, <2>3
  <2>5. \A s \in Level(n + 1) : s # {} => s \ {Chosen(s)} \in Level(n)
    BY <1>0, <1>1
  <2> HIDE DEF Level
  <2>6. \A s \in Level(n + 1) : SumStep(f, sum, s) = SumStep(f, next, s)
    <3> HIDE DEF next
    <3>1. QED
      BY <2>4, <2>5 DEF SumStep
  <2>7. next = [s \in Level(n + 1) |-> SumStep(f, next, s)]
    <3> DEFINE g == next
    <3>1. next = [s \in Level(n + 1) |-> SumStep(f, g, s)]
      <4> HIDE DEF g
      <4>1. \A s \in Level(n + 1) : SumStep(f, sum, s) = SumStep(f, g, s)
        BY <2>6 DEF g
      <4>2. QED
        BY <4>1, Zenon
    <3>2. QED
      BY <3>1
  <2>8. n + 1 \in Nat
    OBVIOUS
  <2>9. QED
    <3> HIDE DEF next
    <3>1. QED
      BY <2>7, <2>8, Zenon
<1>4. Nat \subseteq Good
  <2> HIDE DEF Good
  <2>1. QED
    BY <1>2, <1>3, SetInduction
<1>5. Level(Cardinality(S)) = SUBSET S
  <2>1. \A s \in SUBSET S : Cardinality(s) <= Cardinality(S)
    BY FS_Subset
  <2>2. QED
    BY <2>1
<1>6. Cardinality(S) \in Good
  BY <1>0, <1>4
<1>7. QED
  BY <1>5, <1>6

\* so that it satisfies its equation.
LEMMA SumsEquation ==
  ASSUME NEW f, NEW S, IsFiniteSet(S), NEW s \in SUBSET S
  PROVE  Sums(f, S)[s] = SumStep(f, Sums(f, S), s)
<1> DEFINE Is(sum) == sum = [t \in SUBSET S |-> SumStep(f, sum, t)]
<1>1. Sums(f, S) = CHOOSE sum : Is(sum)
  BY DEF Sums, Chosen, SumStep
<1>2. \E sum : Is(sum)
  BY SumsExist
<1>3. Is(Sums(f, S))
  <2> HIDE DEF Is
  <2>1. QED
    BY <1>1, <1>2, Zenon
<1>4. QED
  BY <1>3, Zenon

\* Sums of numbers are numbers.
LEMMA SumsType ==
  ASSUME NEW S, IsFiniteSet(S), NEW f, \A x \in S : f[x] \in Nat,
         NEW T \in SUBSET S
  PROVE  Sums(f, S)[T] \in Nat
<1> DEFINE Good == {U \in SUBSET S : Sums(f, S)[U] \in Nat}
<1>1. ASSUME NEW U \in SUBSET S, \A V \in SUBSET U : V # U => V \in Good
      PROVE  U \in Good
  <2>1. CASE U = {}
    <3>1. Sums(f, S)[U] = SumStep(f, Sums(f, S), U)
      BY SumsEquation
    <3>2. SumStep(f, Sums(f, S), U) = 0
      BY <2>1 DEF SumStep
    <3>3. QED
      BY <3>1, <3>2
  <2>2. CASE U # {}
    <3>1. Chosen(U) \in U /\ U \ {Chosen(U)} \in SUBSET U /\ U \ {Chosen(U)} # U
      BY <2>2 DEF Chosen
    <3>2. Sums(f, S)[U] = f[Chosen(U)] + Sums(f, S)[U \ {Chosen(U)}]
      BY <2>2, SumsEquation DEF SumStep
    <3>3. f[Chosen(U)] \in Nat /\ Sums(f, S)[U \ {Chosen(U)}] \in Nat
      BY <1>1, <3>1
    <3>4. QED
      BY <3>2, <3>3
  <2>3. QED
    BY <2>1, <2>2
<1>2. SUBSET S \subseteq Good
  <2> HIDE DEF Good
  <2>1. QED
    BY <1>1, SubsetInduction
<1>3. QED
  BY <1>2

\* Whichever element the equation chooses, any one can be taken out.
LEMMA SumsRemove ==
  ASSUME NEW S, IsFiniteSet(S), NEW f, \A x \in S : f[x] \in Nat,
         NEW T \in SUBSET S, NEW y \in T
  PROVE  Sums(f, S)[T] = f[y] + Sums(f, S)[T \ {y}]
<1> DEFINE sum == Sums(f, S)
           Good == {U \in SUBSET S : \A z \in U : sum[U] = f[z] + sum[U \ {z}]}
<1>0. \A U \in SUBSET S : sum[U] \in Nat
  BY SumsType
<1>1. ASSUME NEW U \in SUBSET S, \A V \in SUBSET U : V # U => V \in Good
      PROVE  U \in Good
  <2> SUFFICES ASSUME NEW z \in U PROVE sum[U] = f[z] + sum[U \ {z}]
    OBVIOUS
  <2> DEFINE x == Chosen(U)
  <2>1. x \in U /\ sum[U] = f[x] + sum[U \ {x}]
    <3>1. x \in U /\ U # {}
      BY DEF Chosen
    <3>2. sum[U] = SumStep(f, sum, U)
      BY SumsEquation
    <3>3. QED
      BY <3>1, <3>2 DEF SumStep
  <2> HIDE DEF x, sum
  <2>2. CASE x = z
    BY <2>1, <2>2
  <2>3. CASE x # z
    <3>1. /\ U \ {x} \in SUBSET U /\ U \ {x} # U /\ z \in U \ {x}
          /\ U \ {z} \in SUBSET U /\ U \ {z} # U /\ x \in U \ {z}
      BY <2>1, <2>3
    <3>2. sum[U \ {x}] = f[z] + sum[(U \ {x}) \ {z}]
      BY <1>1, <3>1
    <3>3. sum[U \ {z}] = f[x] + sum[(U \ {z}) \ {x}]
      BY <1>1, <3>1
    <3>4. (U \ {x}) \ {z} = (U \ {z}) \ {x}
      OBVIOUS
    <3> DEFINE rest == sum[(U \ {x}) \ {z}]
    <3>5. f[x] \in Nat /\ f[z] \in Nat /\ rest \in Nat
      BY <1>0, <2>1
    <3>6. /\ sum[U \ {x}] = f[z] + rest
          /\ sum[U \ {z}] = f[x] + rest
      BY <3>2, <3>3, <3>4
    <3> HIDE DEF rest
    <3>7. QED
      BY <2>1, <3>5, <3>6
  <2>4. QED
    BY <2>2, <2>3
<1>2. SUBSET S \subseteq Good
  <2> HIDE DEF Good
  <2>1. QED
    BY <1>1, SubsetInduction
<1>3. QED
  BY <1>2

\* The domain of the fold does not matter.
LEMMA SumsAgree ==
  ASSUME NEW S, IsFiniteSet(S), NEW f, NEW T \in SUBSET S
  PROVE  Sums(f, S)[T] = SumFunctionOnSet(f, T)
<1> DEFINE Good == {U \in SUBSET T : Sums(f, S)[U] = Sums(f, T)[U]}
<1>0. IsFiniteSet(T)
  BY FS_Subset
<1>1. ASSUME NEW U \in SUBSET T, \A V \in SUBSET U : V # U => V \in Good
      PROVE  U \in Good
  <2>0. U \in SUBSET S
    OBVIOUS
  <2>1. /\ Sums(f, S)[U] = SumStep(f, Sums(f, S), U)
        /\ Sums(f, T)[U] = SumStep(f, Sums(f, T), U)
    BY <1>0, <2>0, SumsEquation
  <2>2. CASE U = {}
    BY <2>1, <2>2 DEF SumStep
  <2>3. CASE U # {}
    <3>1. U \ {Chosen(U)} \in SUBSET U /\ U \ {Chosen(U)} # U
      BY <2>3 DEF Chosen
    <3>2. Sums(f, S)[U \ {Chosen(U)}] = Sums(f, T)[U \ {Chosen(U)}]
      BY <1>1, <3>1
    <3>3. QED
      BY <2>1, <2>3, <3>2 DEF SumStep
  <2>4. QED
    BY <2>2, <2>3
<1>2. SUBSET T \subseteq Good
  <2> HIDE DEF Good
  <2>1. QED
    BY <1>0, <1>1, SubsetInduction
<1>3. QED
  BY <1>2, SumIsFold
---------------------------------------------------------------------------

\* The sum over nothing is 0.
LEMMA SumEmpty ==
  ASSUME NEW f
  PROVE  SumFunctionOnSet(f, {}) = 0
<1>1. IsFiniteSet({})
  BY FS_EmptySet
<1>2. Sums(f, {})[{}] = 0
  BY <1>1, SumsEquation DEF SumStep
<1>3. QED
  BY <1>2, SumIsFold

\* A sum of numbers is a number.
LEMMA SumType ==
  ASSUME NEW S, IsFiniteSet(S), NEW f, \A x \in S : f[x] \in Nat
  PROVE  SumFunctionOnSet(f, S) \in Nat
BY SumsType, SumIsFold

\* An element can be taken out of a sum,
LEMMA SumRemove ==
  ASSUME NEW S, IsFiniteSet(S), NEW f, \A x \in S : f[x] \in Nat, NEW y \in S
  PROVE  SumFunctionOnSet(f, S) = f[y] + SumFunctionOnSet(f, S \ {y})
<1>1. Sums(f, S)[S] = f[y] + Sums(f, S)[S \ {y}]
  BY SumsRemove
<1>2. QED
  BY <1>1, SumsAgree

\* or put into it.
LEMMA SumAdd ==
  ASSUME NEW S, IsFiniteSet(S), NEW f, NEW y, y \notin S,
         \A x \in S \cup {y} : f[x] \in Nat
  PROVE  SumFunctionOnSet(f, S \cup {y}) = f[y] + SumFunctionOnSet(f, S)
<1>1. IsFiniteSet(S \cup {y})
  BY FS_AddElement
<1>2. (S \cup {y}) \ {y} = S
  OBVIOUS
<1>3. SumFunctionOnSet(f, S \cup {y}) = f[y] + SumFunctionOnSet(f, (S \cup {y}) \ {y})
  BY <1>1, SumRemove
<1>4. QED
  BY <1>2, <1>3

\* The sum of two functions is the sum of their sums.
LEMMA SumPlus ==
  ASSUME NEW S, IsFiniteSet(S), NEW f, NEW g, NEW h,
         \A x \in S : f[x] \in Nat /\ g[x] \in Nat /\ h[x] = f[x] + g[x]
  PROVE  SumFunctionOnSet(h, S) = SumFunctionOnSet(f, S) + SumFunctionOnSet(g, S)
<1> DEFINE Sum(k, T) == SumFunctionOnSet(k, T)
           Good == {T \in SUBSET S : Sum(h, T) = Sum(f, T) + Sum(g, T)}
<1>1. {} \in Good
  BY SumEmpty
<1>2. ASSUME NEW T \in SUBSET S, NEW x \in S \ T, T \in Good
      PROVE  T \cup {x} \in Good
  <2>1. IsFiniteSet(T) /\ \A y \in T \cup {x} : f[y] \in Nat /\ g[y] \in Nat /\ h[y] \in Nat
    BY FS_Subset
  <2>2. /\ Sum(f, T \cup {x}) = f[x] + Sum(f, T)
        /\ Sum(g, T \cup {x}) = g[x] + Sum(g, T)
        /\ Sum(h, T \cup {x}) = h[x] + Sum(h, T)
    BY <2>1, SumAdd
  <2>3. Sum(f, T) \in Nat /\ Sum(g, T) \in Nat /\ Sum(h, T) \in Nat
    BY <2>1, SumType
  <2>4. Sum(h, T) = Sum(f, T) + Sum(g, T) /\ h[x] = f[x] + g[x]
    BY <1>2
  <2>5. f[x] \in Nat /\ g[x] \in Nat
    OBVIOUS
  <2>6. Sum(h, T \cup {x}) = Sum(f, T \cup {x}) + Sum(g, T \cup {x})
    <3> HIDE DEF Sum
    <3>1. QED
      BY <2>2, <2>3, <2>4, <2>5
  <2>7. QED
    BY <2>6
<1>3. S \in Good
  <2> HIDE DEF Good
  <2>1. QED
    BY <1>1, <1>2, FiniteInduction
<1>4. QED
  BY <1>3

\* A sum of zeros is 0.
LEMMA SumZeros ==
  ASSUME NEW S, IsFiniteSet(S), NEW f, \A x \in S : f[x] = 0
  PROVE  SumFunctionOnSet(f, S) = 0
<1> DEFINE Sum(T) == SumFunctionOnSet(f, T)
           Good == {T \in SUBSET S : Sum(T) = 0}
<1>1. {} \in Good
  BY SumEmpty
<1>2. ASSUME NEW T \in SUBSET S, NEW x \in S \ T, T \in Good
      PROVE  T \cup {x} \in Good
  <2>1. IsFiniteSet(T) /\ \A y \in T \cup {x} : f[y] \in Nat
    BY FS_Subset
  <2>2. Sum(T \cup {x}) = f[x] + Sum(T)
    BY <2>1, SumAdd
  <2>3. f[x] = 0 /\ Sum(T) = 0
    BY <1>2
  <2>4. QED
    BY <2>2, <2>3
<1>3. S \in Good
  <2> HIDE DEF Good
  <2>1. QED
    BY <1>1, <1>2, FiniteInduction
<1>4. QED
  BY <1>3

\* Sum over a set, and over a larger one on which the function is 0
LEMMA SumExtend ==
  ASSUME NEW S, IsFiniteSet(S), NEW T \in SUBSET S, NEW f, NEW g,
         \A x \in S : f[x] = IF x \in T THEN g[x] ELSE 0,
         \A x \in T : g[x] \in Nat
  PROVE  SumFunctionOnSet(f, S) = SumFunctionOnSet(g, T)
<1> DEFINE Sum(k, U) == SumFunctionOnSet(k, U)
           Good == {U \in SUBSET S : Sum(f, U) = Sum(g, U \cap T)}
<1>1. {} \in Good
  <2>1. {} \cap T = {}
    OBVIOUS
  <2>2. QED
    BY <2>1, SumEmpty
<1>2. ASSUME NEW U \in SUBSET S, NEW x \in S \ U, U \in Good
      PROVE  U \cup {x} \in Good
  <2>1. /\ IsFiniteSet(U) /\ IsFiniteSet(U \cap T)
        /\ \A y \in U \cup {x} : f[y] \in Nat
    BY FS_Subset
  <2>2. Sum(f, U \cup {x}) = f[x] + Sum(f, U) /\ Sum(f, U) \in Nat
    BY <2>1, SumAdd, SumType
  <2>3. CASE x \in T
    <3>1. (U \cup {x}) \cap T = (U \cap T) \cup {x} /\ x \notin U \cap T
      BY <2>3
    <3>2. \A y \in (U \cap T) \cup {x} : g[y] \in Nat
      BY <2>3
    <3>3. Sum(g, (U \cap T) \cup {x}) = g[x] + Sum(g, U \cap T)
      BY <2>1, <3>1, <3>2, SumAdd
    <3>4. f[x] = g[x] /\ Sum(f, U) = Sum(g, U \cap T)
      BY <1>2, <2>3
    <3>5. QED
      BY <2>2, <3>1, <3>3, <3>4
  <2>4. CASE x \notin T
    <3>1. (U \cup {x}) \cap T = U \cap T
      BY <2>4
    <3>2. f[x] = 0 /\ Sum(f, U) = Sum(g, U \cap T)
      BY <1>2, <2>4
    <3>3. Sum(g, (U \cup {x}) \cap T) = Sum(g, U \cap T)
      BY <3>1, Zenon
    <3> HIDE DEF Sum
    <3>4. QED
      BY <2>2, <3>2, <3>3
  <2>5. QED
    BY <2>3, <2>4
<1>3. S \in Good
  <2> HIDE DEF Good
  <2>1. QED
    BY <1>1, <1>2, FiniteInduction
<1>4. S \cap T = T
  OBVIOUS
<1>5. QED
  BY <1>3, <1>4

\* A set is counted by adding up ones.
LEMMA SumOnes ==
  ASSUME NEW S, IsFiniteSet(S), NEW T \in SUBSET S, NEW f,
         \A x \in S : f[x] = IF x \in T THEN 1 ELSE 0
  PROVE  SumFunctionOnSet(f, S) = Cardinality(T)
<1> DEFINE Sum(U) == SumFunctionOnSet(f, U)
           Good == {U \in SUBSET S : Sum(U) = Cardinality(U \cap T)}
<1>1. {} \in Good
  <2>1. {} \cap T = {}
    OBVIOUS
  <2>2. QED
    BY <2>1, SumEmpty, FS_EmptySet
<1>2. ASSUME NEW U \in SUBSET S, NEW x \in S \ U, U \in Good
      PROVE  U \cup {x} \in Good
  <2>1. /\ IsFiniteSet(U) /\ IsFiniteSet(U \cap T)
        /\ \A y \in U \cup {x} : f[y] \in Nat
    BY FS_Subset
  <2>2. Sum(U \cup {x}) = f[x] + Sum(U) /\ Cardinality(U \cap T) \in Nat
    BY <2>1, SumAdd, FS_CardinalityType
  <2>3. CASE x \in T
    <3>1. (U \cup {x}) \cap T = (U \cap T) \cup {x} /\ x \notin U \cap T
      BY <2>3
    <3>2. Cardinality((U \cap T) \cup {x}) = Cardinality(U \cap T) + 1
      BY <2>1, <3>1, FS_AddElement
    <3>3. f[x] = 1 /\ Sum(U) = Cardinality(U \cap T)
      BY <1>2, <2>3
    <3>4. Cardinality((U \cup {x}) \cap T) = Cardinality(U \cap T) + 1
      BY <3>1, <3>2, Zenon
    <3> HIDE DEF Sum
    <3>5. QED
      BY <2>2, <3>3, <3>4
  <2>4. CASE x \notin T
    <3>1. (U \cup {x}) \cap T = U \cap T
      BY <2>4
    <3>2. f[x] = 0 /\ Sum(U) = Cardinality(U \cap T)
      BY <1>2, <2>4
    <3>3. Cardinality((U \cup {x}) \cap T) = Cardinality(U \cap T)
      BY <3>1, Zenon
    <3> HIDE DEF Sum
    <3>4. QED
      BY <2>2, <3>2, <3>3
  <2>5. QED
    BY <2>3, <2>4
<1>3. S \in Good
  <2> HIDE DEF Good
  <2>1. QED
    BY <1>1, <1>2, FiniteInduction
<1>4. S \cap T = T
  OBVIOUS
<1>5. QED
  BY <1>3, <1>4

\* A term of a sum of zero is zero
LEMMA SumOfZero ==
  ASSUME NEW S, IsFiniteSet(S), NEW f, \A x \in S : f[x] \in Nat,
         SumFunctionOnSet(f, S) = 0, NEW x \in S
  PROVE  f[x] = 0
<1>1. SumFunctionOnSet(f, S) = f[x] + SumFunctionOnSet(f, S \ {x})
  BY SumRemove
<1>2. SumFunctionOnSet(f, S \ {x}) \in Nat
  BY SumType, FS_Subset
<1>3. QED
  BY <1>1, <1>2
\* A function has no more values on a finite set than the set has elements.
LEMMA ImageFinite ==
  ASSUME NEW S, IsFiniteSet(S), NEW f
  PROVE  /\ IsFiniteSet({f[x] : x \in S})
         /\ Cardinality({f[x] : x \in S}) <= Cardinality(S)
<1> DEFINE g == [x \in S |-> f[x]]
           T == {f[x] : x \in S}
<1>1. g \in Surjection(S, T)
  BY DEF Surjection
<1>2. QED
  <2> HIDE DEF g
  <2>1. QED
    BY <1>1, FS_Surjection
=============================================================================
