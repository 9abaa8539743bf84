-------------------------------- MODULE SumFacts --------------------------------
(***************************************************************************)
(* Sums over finite sets: the laws of SumFunctionOnSet, which is a         *)
(* recursive function on the subsets that takes one element after the      *)
(* other.                                                                  *)
(*                                                                         *)
(* Induction goes through the smallest counterexample: a set of finite     *)
(* sets has a member of least cardinality, because < is well-founded on    *)
(* the natural numbers.                                                    *)
(***************************************************************************)
EXTENDS Integers, Functions, FiniteSetTheorems, WellFoundedInduction, TLAPS

\* The element that is added first
Pick(s) == CHOOSE x \in s : TRUE

\* What it adds to the sum of the others
Adding(g, f, s) == IF s = {} THEN 0 ELSE f[Pick(s)] + g[s \ {Pick(s)}]

\* g sums f over each of the sets in L.
SumsOn(g, f, L) == g = [s \in L |-> Adding(g, f, s)]

----------------------------------------------------------------------------
\* Induction

\* A set of natural numbers that is not empty has a least member.
LEMMA LeastNumber ==
  ASSUME NEW T, T \subseteq Nat, T # {}
  PROVE  \E m \in T : \A n \in T : m <= n
  <1> DEFINE Less == { p \in Nat \X Nat : p[1] < p[2] }
  <1>1. IsWellFoundedOn(Less, Nat)
    BY NatLessThanWellFounded, Zenon DEF OpToRel
  <1>2. ASSUME NEW m \in Nat, NEW n \in Nat, ~(<<n, m>> \in Less) PROVE m <= n
    <2>1. ~(n < m)
      BY <1>2
    <2> QED
      BY <2>1
  <1> HIDE DEF Less
  <1>3. PICK m \in T : \A n \in T : ~(<<n, m>> \in Less)
    BY <1>1, WFMin
  <1>4. ASSUME NEW n \in T PROVE m <= n
    BY <1>2, <1>3
  <1> QED
    BY <1>4

\* Among finite sets one has the fewest members.
LEMMA SmallestSet ==
  ASSUME NEW B, B # {}, \A s \in B : IsFiniteSet(s)
  PROVE  \E s \in B : \A t \in B : Cardinality(s) <= Cardinality(t)
  <1> DEFINE T == { Cardinality(s) : s \in B }
  <1>1. T \subseteq Nat
    BY FS_CardinalityType
  <1>2. T # {}
    OBVIOUS
  <1>3. PICK m \in T : \A n \in T : m <= n
    BY <1>1, <1>2, LeastNumber
  <1> QED
    BY <1>3

\* A set of finite sets that has, with each member, a smaller one is empty.
LEMMA NoSmallest ==
  ASSUME NEW B, \A s \in B : IsFiniteSet(s),
         \A s \in B : \E x \in s : s \ {x} \in B
  PROVE  B = {}
  <1> SUFFICES ASSUME B # {} PROVE FALSE
    OBVIOUS
  <1>1. PICK s \in B : \A t \in B : Cardinality(s) <= Cardinality(t)
    BY SmallestSet
  <1>2. PICK x \in s : s \ {x} \in B
    OBVIOUS
  <1>3. Cardinality(s \ {x}) = Cardinality(s) - 1 /\ Cardinality(s) \in Nat
    BY <1>2, FS_RemoveElement, FS_CardinalityType
  <1> QED
    BY <1>1, <1>2, <1>3

----------------------------------------------------------------------------
\* The recursion defines a function

Level(S, n) == { s \in SUBSET S : Cardinality(s) <= n }

\* The element added first is one of the set.
LEMMA PickIsMember ==
  ASSUME NEW s, s # {} PROVE Pick(s) \in s
  BY Zenon DEF Pick

\* A recursion that is right for sets of n elements can be continued to n + 1.
LEMMA LevelStep ==
  ASSUME NEW S, IsFiniteSet(S), NEW f, NEW n \in Nat, NEW g, SumsOn(g, f, Level(S, n))
  PROVE  \E h : SumsOn(h, f, Level(S, n + 1))
  <1> DEFINE h == [s \in Level(S, n + 1) |-> Adding(g, f, s)]
  <1>1. \A s \in Level(S, n) : g[s] = Adding(g, f, s) /\ s \in Level(S, n + 1)
    <2> SUFFICES ASSUME NEW s \in Level(S, n) PROVE g[s] = Adding(g, f, s) /\ s \in Level(S, n + 1)
      OBVIOUS
    <2>1. g[s] = Adding(g, f, s)
      BY DEF SumsOn
    <2>2. IsFiniteSet(s)
      BY FS_Subset DEF Level
    <2>3. Cardinality(s) \in Nat
      BY <2>2, FS_CardinalityType
    <2> QED
      BY <2>1, <2>3 DEF Level
  <1>2. ASSUME NEW s \in Level(S, n + 1) PROVE Adding(g, f, s) = Adding(h, f, s)
    <2>1. CASE s = {}
      BY <2>1 DEF Adding
    <2>2. CASE s # {}
      <3>1. Pick(s) \in s
        BY <2>2, PickIsMember
      <3>2. IsFiniteSet(s) /\ s \ {Pick(s)} \in SUBSET S
        BY FS_Subset DEF Level
      <3>3. Cardinality(s \ {Pick(s)}) = Cardinality(s) - 1 /\ Cardinality(s) \in Nat
        BY <3>1, <3>2, FS_RemoveElement, FS_CardinalityType
      <3>4. s \ {Pick(s)} \in Level(S, n)
        BY <3>2, <3>3 DEF Level
      <3>5. h[s \ {Pick(s)}] = g[s \ {Pick(s)}]
        BY <1>1, <3>4
      <3> HIDE DEF h
      <3> QED
        BY <3>5 DEF Adding
    <2> QED
      BY <2>1, <2>2
  <1>3. h = [s \in Level(S, n + 1) |-> Adding(h, f, s)]
    <2> DEFINE k == [s \in Level(S, n + 1) |-> Adding(h, f, s)]
    <2>1. \A s \in Level(S, n + 1) : h[s] = k[s]
      BY <1>2
    <2>2. DOMAIN h = DOMAIN k /\ h = [s \in DOMAIN h |-> h[s]] /\ k = [s \in DOMAIN k |-> k[s]]
      OBVIOUS
    <2> QED
      BY <1>2, Zenon
  <1> HIDE DEF h
  <1> QED
    BY <1>3 DEF SumsOn

\* Hence there is a function that sums f over every part of a finite set.
LEMMA SumsExist ==
  ASSUME NEW S, IsFiniteSet(S), NEW f PROVE \E g : SumsOn(g, f, SUBSET S)
  <1> DEFINE Good(n) == \E g : SumsOn(g, f, Level(S, n))
             Bad == { n \in Nat : ~Good(n) }
  <1>1. Good(0)
    <2>1. Level(S, 0) \subseteq {{}}
      <3> SUFFICES ASSUME NEW s \in Level(S, 0) PROVE s = {}
        OBVIOUS
      <3>1. IsFiniteSet(s) /\ Cardinality(s) <= 0
        BY FS_Subset DEF Level
      <3>2. Cardinality(s) = 0
        BY <3>1, FS_CardinalityType
      <3> QED
        BY <3>1, <3>2, FS_EmptySet
    <2> DEFINE g == [s \in Level(S, 0) |-> 0]
    <2>2. g = [s \in Level(S, 0) |-> Adding(g, f, s)]
      BY <2>1 DEF Adding
    <2> HIDE DEF g
    <2> QED
      BY <2>2 DEF SumsOn
  <1>2. \A n \in Nat : Good(n) => Good(n + 1)
    BY LevelStep
  <1> HIDE DEF Good
  <1>3. Bad = {}
    <2> SUFFICES ASSUME Bad # {} PROVE FALSE
      OBVIOUS
    <2>1. PICK m \in Bad : \A n \in Bad : m <= n
      BY LeastNumber
    <2>2. m # 0 /\ m \in Nat
      BY <1>1
    <2>3. m - 1 \in Nat /\ m - 1 \notin Bad
      BY <2>1, <2>2
    <2>4. Good(m - 1 + 1)
      BY <1>2, <2>3
    <2> QED
      BY <2>2, <2>4
  <1>4. Cardinality(S) \in Nat /\ Level(S, Cardinality(S)) = SUBSET S
    BY FS_CardinalityType, FS_Subset DEF Level
  <1>5. Good(Cardinality(S))
    BY <1>3, <1>4
  <1> QED
    BY <1>4, <1>5 DEF Good

----------------------------------------------------------------------------
\* What sums are

\* Its value at a set is its value at one element less, and that element.
LEMMA SumsAt ==
  ASSUME NEW g, NEW f, NEW S, SumsOn(g, f, SUBSET S), NEW s \in SUBSET S
  PROVE  g[s] = Adding(g, f, s)
  BY DEF SumsOn

\* Functions that agree on a set have the same sum over it.
LEMMA SumsAgree ==
  ASSUME NEW S, NEW T, IsFiniteSet(S), S \subseteq T, NEW f, NEW e, NEW g, NEW h,
         SumsOn(g, f, SUBSET S), SumsOn(h, e, SUBSET T),
         \A x \in S : f[x] = e[x]
  PROVE  g[S] = h[S]
  <1> DEFINE B == { s \in SUBSET S : g[s] # h[s] }
  <1>1. \A s \in B : IsFiniteSet(s)
    BY FS_Subset
  <1>2. ASSUME NEW s \in B PROVE \E x \in s : s \ {x} \in B
    <2>1. g[s] = Adding(g, f, s) /\ h[s] = Adding(h, e, s) /\ s \in SUBSET S
      BY SumsAt
    <2>2. s # {}
      BY <2>1 DEF Adding
    <2>3. Pick(s) \in s
      BY <2>2, PickIsMember
    <2>4. g[s \ {Pick(s)}] # h[s \ {Pick(s)}]
      BY <2>1, <2>2, <2>3 DEF Adding
    <2> QED
      BY <2>1, <2>3, <2>4
  <1> HIDE DEF B
  <1>3. B = {}
    BY <1>1, <1>2, NoSmallest
  <1> QED
    BY <1>3 DEF B

\* The recursive sum is the one and only that SumsOn describes.
LEMMA TotalSums ==
  ASSUME NEW S, IsFiniteSet(S), NEW f
  PROVE  \E g : SumsOn(g, f, SUBSET S) /\ SumFunctionOnSet(f, S) = g[S]
  <1> DEFINE Next(g, s) == IF s = {} THEN 0
                           ELSE f[CHOOSE x \in s : TRUE] + g[s \ {CHOOSE x \in s : TRUE}]
             IsSum(g) == g = [s \in SUBSET S |-> Next(g, s)]
  <1>1. SumFunctionOnSet(f, S) = (CHOOSE g : IsSum(g))[S]
    BY DEF SumFunctionOnSet, FoldFunctionOnSet, MapThenFoldSet
  <1>2. ASSUME NEW g PROVE IsSum(g) <=> SumsOn(g, f, SUBSET S)
    <2>1. \A s \in SUBSET S : Adding(g, f, s) = Next(g, s)
      BY Zenon DEF Adding, Pick
    <2>2. [s \in SUBSET S |-> Adding(g, f, s)] = [s \in SUBSET S |-> Next(g, s)]
      BY Zenon, <2>1
    <2> QED
      BY <2>2 DEF SumsOn
  <1>3. PICK h : SumsOn(h, f, SUBSET S)
    BY SumsExist
  <1> HIDE DEF IsSum
  <1>4. IsSum(h)
    BY <1>2, <1>3
  <1>5. IsSum(CHOOSE g : IsSum(g))
    BY <1>4
  <1> QED
    BY <1>1, <1>2, <1>5

\* The recursion over any larger set gives the same sum.
LEMMA TotalIs ==
  ASSUME NEW S, NEW T, IsFiniteSet(S), S \subseteq T, NEW f, NEW h, SumsOn(h, f, SUBSET T)
  PROVE  SumFunctionOnSet(f, S) = h[S]
  <1>1. PICK g : SumsOn(g, f, SUBSET S) /\ SumFunctionOnSet(f, S) = g[S]
    BY TotalSums
  <1>2. SumsOn(g, f, SUBSET S) /\ \A x \in S : f[x] = f[x]
    BY <1>1
  <1>3. g[S] = h[S]
    BY <1>2, SumsAgree
  <1> QED
    BY <1>1, <1>3

\* A sum depends only on what is summed.
LEMMA TotalAgree ==
  ASSUME NEW S, IsFiniteSet(S), NEW f, NEW e, \A x \in S : f[x] = e[x]
  PROVE  SumFunctionOnSet(f, S) = SumFunctionOnSet(e, S)
  <1>1. PICK g : SumsOn(g, f, SUBSET S) /\ SumFunctionOnSet(f, S) = g[S]
    BY TotalSums
  <1>2. PICK h : SumsOn(h, e, SUBSET S) /\ SumFunctionOnSet(e, S) = h[S]
    BY TotalSums
  <1> QED
    BY <1>1, <1>2, SumsAgree

\* Over nothing the sum is zero.
LEMMA TotalEmpty ==
  ASSUME NEW f PROVE SumFunctionOnSet(f, {}) = 0
  <1>1. PICK g : SumsOn(g, f, SUBSET {}) /\ SumFunctionOnSet(f, {}) = g[{}]
    BY TotalSums, FS_EmptySet
  <1>2. g[{}] = Adding(g, f, {})
    BY <1>1, SumsAt
  <1> QED
    BY <1>1, <1>2 DEF Adding

\* The recursion, as an equation.
LEMMA TotalPick ==
  ASSUME NEW S, IsFiniteSet(S), S # {}, NEW f
  PROVE  SumFunctionOnSet(f, S) = f[Pick(S)] + SumFunctionOnSet(f, S \ {Pick(S)})
  <1>1. PICK g : SumsOn(g, f, SUBSET S) /\ SumFunctionOnSet(f, S) = g[S]
    BY TotalSums
  <1>2. g[S] = f[Pick(S)] + g[S \ {Pick(S)}]
    BY <1>1, SumsAt DEF Adding
  <1>3. IsFiniteSet(S \ {Pick(S)}) /\ S \ {Pick(S)} \subseteq S
    BY FS_Subset
  <1>4. SumFunctionOnSet(f, S \ {Pick(S)}) = g[S \ {Pick(S)}]
    BY <1>1, <1>3, TotalIs
  <1> QED
    BY <1>1, <1>2, <1>4

\* A sum of integers is an integer.
LEMMA TotalType ==
  ASSUME NEW S, IsFiniteSet(S), NEW f, \A x \in S : f[x] \in Int
  PROVE  SumFunctionOnSet(f, S) \in Int
  <1> DEFINE B == { s \in SUBSET S : SumFunctionOnSet(f, s) \notin Int }
  <1>1. \A s \in B : IsFiniteSet(s)
    BY FS_Subset
  <1>2. ASSUME NEW s \in B PROVE \E x \in s : s \ {x} \in B
    <2>1. s # {}
      BY TotalEmpty
    <2>2. Pick(s) \in s
      BY <2>1, PickIsMember
    <2>3. SumFunctionOnSet(f, s) = f[Pick(s)] + SumFunctionOnSet(f, s \ {Pick(s)})
      BY <1>1, <2>1, TotalPick
    <2>4. f[Pick(s)] \in Int /\ SumFunctionOnSet(f, s) \notin Int
      BY <2>2
    <2>5. SumFunctionOnSet(f, s \ {Pick(s)}) \notin Int
      BY <2>3, <2>4
    <2> QED
      BY <2>2, <2>5
  <1>3. B = {}
    <2> HIDE DEF B
    <2> QED
      BY <1>1, <1>2, NoSmallest
  <1> QED
    BY <1>3

\* The order of addition does not matter: any element may be the first.
LEMMA TotalRemove ==
  ASSUME NEW S, IsFiniteSet(S), NEW f, \A x \in S : f[x] \in Int, NEW a \in S
  PROVE  SumFunctionOnSet(f, S) = f[a] + SumFunctionOnSet(f, S \ {a})
  <1> DEFINE B == { s \in SUBSET S :
                   \E x \in s : SumFunctionOnSet(f, s) # f[x] + SumFunctionOnSet(f, s \ {x}) }
  <1>1. \A s \in B : IsFiniteSet(s)
    BY FS_Subset
  <1>2. ASSUME NEW s \in B PROVE \E y \in s : s \ {y} \in B
    <2>0. s \subseteq S /\ IsFiniteSet(s)
      BY <1>1
    <2>1. PICK x \in s : SumFunctionOnSet(f, s) # f[x] + SumFunctionOnSet(f, s \ {x})
      OBVIOUS
    <2> PICK p : p = Pick(s)
      OBVIOUS
    <2>2. p \in s
      BY PickIsMember
    <2>3. SumFunctionOnSet(f, s) = f[p] + SumFunctionOnSet(f, s \ {p})
      BY <2>0, TotalPick
    <2>4. p # x
      BY <2>1, <2>3
    <2>5. s \ {p} \in B \/ s \ {x} \in B
      <3> SUFFICES ASSUME s \ {p} \notin B, s \ {x} \notin B PROVE FALSE
        OBVIOUS
      <3>1. SumFunctionOnSet(f, s \ {p}) = f[x] + SumFunctionOnSet(f, (s \ {p}) \ {x})
        BY <2>0, <2>4
      <3>2. SumFunctionOnSet(f, s \ {x}) = f[p] + SumFunctionOnSet(f, (s \ {x}) \ {p})
        BY <2>0, <2>2, <2>4
      <3>3. (s \ {p}) \ {x} = (s \ {x}) \ {p}
        OBVIOUS
      <3> PICK r : r = (s \ {x}) \ {p}
        OBVIOUS
      <3>4. f[p] \in Int /\ f[x] \in Int /\ SumFunctionOnSet(f, r) \in Int
        BY <2>0, <2>2, FS_Subset, TotalType
      <3>5. /\ SumFunctionOnSet(f, s \ {p}) = f[x] + SumFunctionOnSet(f, r)
            /\ SumFunctionOnSet(f, s \ {x}) = f[p] + SumFunctionOnSet(f, r)
        BY <3>1, <3>2, <3>3
      <3> PICK u, v, y, z : /\ u = f[p] /\ v = f[x]
                            /\ y = SumFunctionOnSet(f, r) /\ z = SumFunctionOnSet(f, s)
        OBVIOUS
      <3>6. z = u + (v + y) /\ z # v + (u + y)
        BY <2>1, <2>3, <3>5
      <3>7. u \in Int /\ v \in Int /\ y \in Int
        BY <3>4
      <3> HIDE DEF B
      <3> QED
        BY <3>6, <3>7
    <2> QED
      BY <2>2, <2>5
  <1>3. B = {}
    <2> HIDE DEF B
    <2> QED
      BY <1>1, <1>2, NoSmallest
  <1> QED
    BY <1>3

\* A sum of zeros is zero.
LEMMA TotalIsZero ==
  ASSUME NEW S, IsFiniteSet(S), NEW f, \A x \in S : f[x] = 0
  PROVE  SumFunctionOnSet(f, S) = 0
  <1> DEFINE B == { s \in SUBSET S : SumFunctionOnSet(f, s) # 0 }
  <1>1. \A s \in B : IsFiniteSet(s)
    BY FS_Subset
  <1>2. ASSUME NEW s \in B PROVE \E x \in s : s \ {x} \in B
    <2>1. s # {}
      BY TotalEmpty
    <2>2. Pick(s) \in s
      BY <2>1, PickIsMember
    <2>3. SumFunctionOnSet(f, s) = f[Pick(s)] + SumFunctionOnSet(f, s \ {Pick(s)})
      BY <1>1, <2>1, TotalPick
    <2>4. f[Pick(s)] = 0 /\ SumFunctionOnSet(f, s) # 0
      BY <2>2
    <2>5. IsFiniteSet(s \ {Pick(s)}) /\ s \ {Pick(s)} \subseteq S
      BY <1>1, FS_Subset
    <2>6. SumFunctionOnSet(f, s \ {Pick(s)}) \in Int
      BY <2>5, TotalType
    <2>7. SumFunctionOnSet(f, s \ {Pick(s)}) # 0
      BY <2>3, <2>4, <2>6
    <2> QED
      BY <2>2, <2>7
  <1>3. B = {}
    <2> HIDE DEF B
    <2> QED
      BY <1>1, <1>2, NoSmallest
  <1> QED
    BY <1>3

\* Sums may be added term by term.
LEMMA TotalPlus ==
  ASSUME NEW S, IsFiniteSet(S), NEW f, NEW e, NEW h,
         \A x \in S : f[x] \in Int /\ e[x] \in Int /\ h[x] = f[x] + e[x]
  PROVE  SumFunctionOnSet(h, S) = SumFunctionOnSet(f, S) + SumFunctionOnSet(e, S)
  <1> DEFINE B == { s \in SUBSET S :
                   ~(SumFunctionOnSet(h, s) = SumFunctionOnSet(f, s) + SumFunctionOnSet(e, s)) }
  <1>1. \A s \in B : IsFiniteSet(s)
    BY FS_Subset
  <1>2. ASSUME NEW s \in B PROVE \E x \in s : s \ {x} \in B
    <2>6. ~(SumFunctionOnSet(h, s) = SumFunctionOnSet(f, s) + SumFunctionOnSet(e, s))
      OBVIOUS
    <2>1. s # {}
      <3>1. /\ SumFunctionOnSet(h, {}) = 0
            /\ SumFunctionOnSet(f, {}) = 0 /\ SumFunctionOnSet(e, {}) = 0
        BY TotalEmpty
      <3> HIDE DEF B
      <3> QED
        BY <2>6, <3>1
    <2>2. Pick(s) \in s /\ s \subseteq S
      BY <2>1, PickIsMember
    <2> PICK r : r = s \ {Pick(s)}
      OBVIOUS
    <2>3. /\ SumFunctionOnSet(f, s) = f[Pick(s)] + SumFunctionOnSet(f, r)
          /\ SumFunctionOnSet(e, s) = e[Pick(s)] + SumFunctionOnSet(e, r)
          /\ SumFunctionOnSet(h, s) = h[Pick(s)] + SumFunctionOnSet(h, r)
      BY <1>1, <2>1, TotalPick
    <2>4. /\ SumFunctionOnSet(f, r) \in Int /\ SumFunctionOnSet(e, r) \in Int
          /\ SumFunctionOnSet(h, r) \in Int
      <3>1. IsFiniteSet(r) /\ r \subseteq S
        BY <2>2, <1>1, FS_Subset
      <3>2. \A x \in r : f[x] \in Int /\ e[x] \in Int /\ h[x] \in Int
        BY <3>1
      <3> HIDE DEF B
      <3> QED
        BY <3>1, <3>2, TotalType
    <2>5. f[Pick(s)] \in Int /\ e[Pick(s)] \in Int /\ h[Pick(s)] = f[Pick(s)] + e[Pick(s)]
      BY <2>2
    <2>7. ~(SumFunctionOnSet(h, r) = SumFunctionOnSet(f, r) + SumFunctionOnSet(e, r))
      BY <2>3, <2>4, <2>5, <2>6
    <2> QED
      BY <2>2, <2>7
  <1>3. B = {}
    <2> HIDE DEF B
    <2> QED
      BY <1>1, <1>2, NoSmallest
  <1> QED
    BY <1>3

\* A part sums up to no more than the whole, if no term is negative.
LEMMA TotalSubset ==
  ASSUME NEW T, IsFiniteSet(T), NEW S, S \subseteq T, NEW f, \A x \in T : f[x] \in Nat
  PROVE  SumFunctionOnSet(f, S) <= SumFunctionOnSet(f, T)
  <1> DEFINE B == { s \in SUBSET T :
                   S \subseteq s /\ ~(SumFunctionOnSet(f, S) <= SumFunctionOnSet(f, s)) }
  <1>1. \A s \in B : IsFiniteSet(s)
    BY FS_Subset
  <1>2. ASSUME NEW s \in B PROVE \E x \in s : s \ {x} \in B
    <2>1. s \subseteq T /\ S \subseteq s /\ ~(SumFunctionOnSet(f, S) <= SumFunctionOnSet(f, s))
      OBVIOUS
    <2>2. IsFiniteSet(S) /\ IsFiniteSet(s)
      BY <2>1, FS_Subset
    <2>3. SumFunctionOnSet(f, S) \in Int
      BY <2>2, TotalType
    <2>4. S # s
      BY <2>1, <2>3
    <2>5. PICK x \in s : x \notin S
      BY <2>1, <2>4
    <2>6. SumFunctionOnSet(f, s) = f[x] + SumFunctionOnSet(f, s \ {x})
      BY <2>1, <2>2, TotalRemove
    <2>7. IsFiniteSet(s \ {x}) /\ s \ {x} \subseteq T
      BY <2>1, <2>2, FS_Subset
    <2>8. SumFunctionOnSet(f, s \ {x}) \in Int /\ f[x] \in Nat
      BY <2>1, <2>7, TotalType
    <2>9. ~(SumFunctionOnSet(f, S) <= SumFunctionOnSet(f, s \ {x}))
      BY <2>1, <2>3, <2>6, <2>8
    <2> QED
      BY <2>1, <2>5, <2>9
  <1>3. B = {}
    <2> HIDE DEF B
    <2> QED
      BY <1>1, <1>2, NoSmallest
  <1> QED
    BY <1>3

\* A sum of natural numbers is a natural number.
LEMMA TotalIsNat ==
  ASSUME NEW S, IsFiniteSet(S), NEW f, \A x \in S : f[x] \in Nat
  PROVE  SumFunctionOnSet(f, S) \in Nat
  <1>1. SumFunctionOnSet(f, S) \in Int
    BY TotalType
  <1>2. SumFunctionOnSet(f, {}) <= SumFunctionOnSet(f, S)
    BY TotalSubset
  <1> QED
    BY <1>1, <1>2, TotalEmpty

\* A sum over a set is that over a part of it and that over the rest.
LEMMA TotalSplit ==
  ASSUME NEW T, IsFiniteSet(T), NEW S, S \subseteq T, NEW f, \A x \in T : f[x] \in Int
  PROVE  SumFunctionOnSet(f, T) = SumFunctionOnSet(f, S) + SumFunctionOnSet(f, T \ S)
  <1> DEFINE B == { s \in SUBSET T :
                   ~(SumFunctionOnSet(f, s) =
                       SumFunctionOnSet(f, s \cap S) + SumFunctionOnSet(f, s \ S)) }
  <1>1. \A s \in B : IsFiniteSet(s)
    BY FS_Subset
  <1>2. ASSUME NEW s \in B PROVE \E x \in s : s \ {x} \in B
    <2>1. /\ s \subseteq T /\ IsFiniteSet(s)
          /\ ~(SumFunctionOnSet(f, s) =
                 SumFunctionOnSet(f, s \cap S) + SumFunctionOnSet(f, s \ S))
      BY <1>1
    <2> HIDE DEF B
    <2> PICK in, out : in = s \cap S /\ out = s \ S
      OBVIOUS
    <2>2. ~(SumFunctionOnSet(f, s) = SumFunctionOnSet(f, in) + SumFunctionOnSet(f, out))
      BY <2>1
    <2>3. s # {}
      <3>1. SumFunctionOnSet(f, {}) = 0
        BY TotalEmpty
      <3>2. s = {} => in = {} /\ out = {}
        OBVIOUS
      <3>3. s = {} => /\ SumFunctionOnSet(f, s) = 0
                      /\ SumFunctionOnSet(f, in) = 0 /\ SumFunctionOnSet(f, out) = 0
        BY <3>1, <3>2
      <3> QED
        BY <2>2, <3>3
    <2>4. PICK x \in s : TRUE
      BY <2>3
    <2> PICK r, rin, rout : r = s \ {x} /\ rin = (s \ {x}) \cap S /\ rout = (s \ {x}) \ S
      OBVIOUS
    <2>5. /\ IsFiniteSet(r) /\ IsFiniteSet(in) /\ IsFiniteSet(out)
          /\ IsFiniteSet(rin) /\ IsFiniteSet(rout)
          /\ r \subseteq T /\ rin \subseteq T /\ rout \subseteq T
          /\ in \subseteq T /\ out \subseteq T
      BY <2>1, FS_Subset
    <2>6. /\ SumFunctionOnSet(f, s) = f[x] + SumFunctionOnSet(f, r)
          /\ f[x] \in Int
      BY <2>1, TotalRemove
    <2>7. /\ SumFunctionOnSet(f, rin) \in Int /\ SumFunctionOnSet(f, rout) \in Int
          /\ SumFunctionOnSet(f, r) \in Int
      BY <2>5, TotalType
    <2> PICK m, n, p, k : /\ m = f[x] /\ n = SumFunctionOnSet(f, rin)
                          /\ p = SumFunctionOnSet(f, rout) /\ k = SumFunctionOnSet(f, r)
      OBVIOUS
    <2>8. \/ SumFunctionOnSet(f, in) = m + n /\ SumFunctionOnSet(f, out) = p
          \/ SumFunctionOnSet(f, in) = n /\ SumFunctionOnSet(f, out) = m + p
      <3>1. CASE x \in S
        <4>1. out = rout /\ x \in in /\ rin = in \ {x}
          BY <3>1
        <4>2. SumFunctionOnSet(f, in) = f[x] + SumFunctionOnSet(f, in \ {x})
          BY <2>5, <4>1, TotalRemove
        <4> QED
          BY <4>1, <4>2
      <3>2. CASE x \notin S
        <4>1. in = rin /\ x \in out /\ rout = out \ {x}
          BY <3>2
        <4>2. SumFunctionOnSet(f, out) = f[x] + SumFunctionOnSet(f, out \ {x})
          BY <2>5, <4>1, TotalRemove
        <4> QED
          BY <4>1, <4>2
      <3> QED
        BY <3>1, <3>2
    <2>9. k # n + p
      <3>1. SumFunctionOnSet(f, s) = m + k /\ m \in Int /\ n \in Int /\ p \in Int /\ k \in Int
        BY <2>6, <2>7
      <3> QED
        BY <2>2, <2>8, <3>1
    <2>10. r \in B
      BY <2>5, <2>9 DEF B
    <2> QED
      BY <2>10
  <1>3. B = {}
    <2> HIDE DEF B
    <2> QED
      BY <1>1, <1>2, NoSmallest
  <1>4. T \cap S = S
    OBVIOUS
  <1> QED
    BY <1>3, <1>4

\* Where a function is zero nothing is added.
LEMMA TotalOutside ==
  ASSUME NEW T, IsFiniteSet(T), NEW S, S \subseteq T, NEW f, \A x \in T : f[x] \in Int,
         \A x \in T \ S : f[x] = 0
  PROVE  SumFunctionOnSet(f, T) = SumFunctionOnSet(f, S)
  <1>1. IsFiniteSet(S) /\ IsFiniteSet(T \ S)
    BY FS_Subset
  <1>2. SumFunctionOnSet(f, T \ S) = 0
    BY <1>1, TotalIsZero
  <1>3. SumFunctionOnSet(f, S) \in Int
    BY <1>1, TotalType
  <1>4. SumFunctionOnSet(f, T) = SumFunctionOnSet(f, S) + SumFunctionOnSet(f, T \ S)
    BY TotalSplit
  <1> QED
    BY <1>2, <1>3, <1>4

\* e is the column of f at a, for the lines in S.
IsColumn(e, f, a, S) == \A x \in S : e[x] \in Int /\ f[<< x, a >>] = e[x]

\* The sum over one column of a table is that of the column.
LEMMA TotalColumn ==
  ASSUME NEW S, IsFiniteSet(S), NEW a, NEW f, NEW e, IsColumn(e, f, a, S)
  PROVE  SumFunctionOnSet(f, S \X {a}) = SumFunctionOnSet(e, S)
  <1>0. \A x \in S : e[x] \in Int /\ f[<< x, a >>] = e[x]
    BY DEF IsColumn
  <1> DEFINE B == { s \in SUBSET S :
                   ~(SumFunctionOnSet(f, s \X {a}) = SumFunctionOnSet(e, s)) }
  <1>1. \A s \in B : IsFiniteSet(s)
    BY FS_Subset
  <1>2. ASSUME NEW s \in B PROVE \E x \in s : s \ {x} \in B
    <2>1. /\ s \subseteq S /\ IsFiniteSet(s)
          /\ ~(SumFunctionOnSet(f, s \X {a}) = SumFunctionOnSet(e, s))
      BY <1>1
    <2> HIDE DEF B
    <2>2. s # {}
      <3>1. SumFunctionOnSet(f, {}) = 0 /\ SumFunctionOnSet(e, {}) = 0 /\ {} \X {a} = {}
        BY TotalEmpty
      <3> QED
        BY <2>1, <3>1
    <2>3. PICK x \in s : TRUE
      BY <2>2
    <2> PICK t, u : t = s \X {a} /\ u = (s \ {x}) \X {a}
      OBVIOUS
    <2>4. t \ {<< x, a >>} = u /\ << x, a >> \in t
      OBVIOUS
    <2>5. IsFiniteSet(t)
      BY <2>1, FS_Singleton, FS_Product
    <2>6. \A y \in t : f[y] \in Int
      BY <1>0, <2>1
    <2>7. SumFunctionOnSet(f, t) = f[<< x, a >>] + SumFunctionOnSet(f, u)
      BY <2>4, <2>5, <2>6, TotalRemove
    <2>8. SumFunctionOnSet(e, s) = e[x] + SumFunctionOnSet(e, s \ {x})
      BY <1>0, <2>1, TotalRemove
    <2>9. ~(SumFunctionOnSet(f, u) = SumFunctionOnSet(e, s \ {x}))
      BY <1>0, <2>1, <2>7, <2>8
    <2> QED
      BY <2>1, <2>9 DEF B
  <1>3. B = {}
    <2> HIDE DEF B
    <2> QED
      BY <1>1, <1>2, NoSmallest
  <1> QED
    BY <1>3

----------------------------------------------------------------------------
\* Groups

\* The sets P[g] share D out.
IsShared(P, G, D) ==
  /\ \A g \in G : P[g] \subseteq D
  /\ \A x \in D : \E g \in G : x \in P[g]
  /\ \A g, h \in G : g # h => P[g] \cap P[h] = {}

\* What some of the groups hold
InGroups(P, H) == UNION { P[g] : g \in H }

\* A sum is the sum of its groups' sums.
LEMMA TotalOfGroups ==
  ASSUME NEW D, IsFiniteSet(D), NEW G, IsFiniteSet(G), NEW P, IsShared(P, G, D),
         NEW f, \A x \in D : f[x] \in Int,
         NEW e, \A g \in G : e[g] = SumFunctionOnSet(f, P[g])
  PROVE  SumFunctionOnSet(f, D) = SumFunctionOnSet(e, G)
  <1> DEFINE B == { H \in SUBSET G : SumFunctionOnSet(f, InGroups(P, H)) # SumFunctionOnSet(e, H) }
  <1>1. \A H \in B : IsFiniteSet(H)
    BY FS_Subset
  <1>2. ASSUME NEW H \in SUBSET G PROVE InGroups(P, H) \subseteq D /\ IsFiniteSet(InGroups(P, H))
    <2>1. InGroups(P, H) \subseteq D
      BY DEF InGroups, IsShared
    <2> QED
      BY <2>1, FS_Subset
  <1>3. \A g \in G : P[g] \subseteq D /\ IsFiniteSet(P[g]) /\ e[g] \in Int
    <2> SUFFICES ASSUME NEW g \in G PROVE P[g] \subseteq D /\ IsFiniteSet(P[g]) /\ e[g] \in Int
      OBVIOUS
    <2>1. P[g] \subseteq D
      BY DEF IsShared
    <2>2. IsFiniteSet(P[g])
      BY <2>1, FS_Subset
    <2> QED
      BY <2>1, <2>2, TotalType
  <1>4. \A H \in B : \E a \in H : H \ {a} \in B
    <2> SUFFICES ASSUME NEW H \in B PROVE \E a \in H : H \ {a} \in B
      OBVIOUS
    <2>1. H # {}
      <3> SUFFICES ASSUME H = {} PROVE FALSE
        OBVIOUS
      <3>1. InGroups(P, H) = {}
        BY DEF InGroups
      <3> QED
        BY <3>1, TotalEmpty
    <2>2. PICK a : a \in H
      BY <2>1
    <2> DEFINE R == H \ {a}
    <2>3. H \in SUBSET G /\ R \in SUBSET G /\ a \in G
      BY <2>2
    <2>4. P[a] \subseteq InGroups(P, H)
      BY <2>2 DEF InGroups
    <2>5. InGroups(P, H) \ P[a] = InGroups(P, R)
      BY <2>2, <2>3 DEF InGroups, IsShared
    <2>6. SumFunctionOnSet(f, InGroups(P, H)) = e[a] + SumFunctionOnSet(f, InGroups(P, R))
      <3>1. /\ IsFiniteSet(InGroups(P, H)) /\ P[a] \subseteq InGroups(P, H)
            /\ \A x \in InGroups(P, H) : f[x] \in Int
        BY <1>2, <2>3, <2>4
      <3>2. SumFunctionOnSet(f, InGroups(P, H)) =
              SumFunctionOnSet(f, P[a]) + SumFunctionOnSet(f, InGroups(P, H) \ P[a])
        BY <3>1, TotalSplit
      <3> QED
        BY <2>3, <2>5, <3>2
    <2>7. SumFunctionOnSet(e, H) = e[a] + SumFunctionOnSet(e, R)
      <3>1. IsFiniteSet(H) /\ \A g \in H : e[g] \in Int
        BY <1>1, <1>3, <2>3
      <3> QED
        BY <2>2, <3>1, TotalRemove
    <2>8. SumFunctionOnSet(f, InGroups(P, R)) # SumFunctionOnSet(e, R)
      BY <2>6, <2>7
    <2> QED
      BY <2>2, <2>3, <2>8
  <1>5. B = {}
    <2> HIDE DEF B
    <2> QED
      BY <1>1, <1>4, NoSmallest
  <1>6. InGroups(P, G) = D
    BY DEF InGroups, IsShared
  <1> QED
    BY <1>5, <1>6

\* The number of members is a sum of ones.
LEMMA NumberIsTotal ==
  ASSUME NEW S, IsFiniteSet(S), NEW f, \A x \in S : f[x] = 1
  PROVE  Cardinality(S) = SumFunctionOnSet(f, S)
  <1> DEFINE B == { s \in SUBSET S : Cardinality(s) # SumFunctionOnSet(f, s) }
  <1>1. \A s \in B : IsFiniteSet(s)
    BY FS_Subset
  <1>2. \A s \in B : \E x \in s : s \ {x} \in B
    <2> SUFFICES ASSUME NEW s \in B PROVE \E x \in s : s \ {x} \in B
      OBVIOUS
    <2>1. s # {}
      BY TotalEmpty, FS_EmptySet
    <2>2. PICK x : x \in s
      BY <2>1
    <2>3. IsFiniteSet(s) /\ \A y \in s : f[y] \in Int
      BY <1>1
    <2>4. SumFunctionOnSet(f, s) = f[x] + SumFunctionOnSet(f, s \ {x})
      BY <2>2, <2>3, TotalRemove
    <2>5. /\ Cardinality(s \ {x}) = Cardinality(s) - 1 /\ Cardinality(s) \in Nat
      BY <2>2, <2>3, FS_RemoveElement, FS_CardinalityType
    <2>6. f[x] = 1
      BY <2>2
    <2>7. Cardinality(s \ {x}) # SumFunctionOnSet(f, s \ {x})
      BY <2>4, <2>5, <2>6
    <2> QED
      BY <2>2, <2>7
  <1>3. B = {}
    <2> HIDE DEF B
    <2> QED
      BY <1>1, <1>2, NoSmallest
  <1> QED
    BY <1>3

\* A set has as many members as its groups together.
LEMMA NumberOfGroups ==
  ASSUME NEW D, IsFiniteSet(D), NEW G, IsFiniteSet(G), NEW P, IsShared(P, G, D),
         NEW e, \A g \in G : e[g] = Cardinality(P[g])
  PROVE  Cardinality(D) = SumFunctionOnSet(e, G)
  <1> DEFINE one == [x \in D |-> 1]
  <1>1. \A x \in D : one[x] = 1
    OBVIOUS
  <1> HIDE DEF one
  <1>2. \A g \in G : e[g] = SumFunctionOnSet(one, P[g])
    <2> SUFFICES ASSUME NEW g \in G PROVE e[g] = SumFunctionOnSet(one, P[g])
      OBVIOUS
    <2>1. P[g] \subseteq D
      BY DEF IsShared
    <2>2. IsFiniteSet(P[g]) /\ \A x \in P[g] : one[x] = 1
      BY <1>1, <2>1, FS_Subset
    <2> QED
      BY <2>2, NumberIsTotal
  <1>3. SumFunctionOnSet(one, D) = SumFunctionOnSet(e, G)
    BY <1>1, <1>2, TotalOfGroups
  <1> QED
    BY <1>1, <1>3, NumberIsTotal

\* Term by term no less, the sum is no less.
LEMMA TotalGrows ==
  ASSUME NEW S, IsFiniteSet(S), NEW f, NEW e, \A x \in S : f[x] \in Int /\ e[x] \in Int /\ f[x] <= e[x]
  PROVE  SumFunctionOnSet(f, S) <= SumFunctionOnSet(e, S)
  <1> DEFINE d == [x \in S |-> e[x] - f[x]]
  <1>1. \A x \in S : d[x] \in Nat /\ d[x] \in Int /\ f[x] \in Int /\ e[x] = f[x] + d[x]
    OBVIOUS
  <1> HIDE DEF d
  <1>2. SumFunctionOnSet(e, S) = SumFunctionOnSet(f, S) + SumFunctionOnSet(d, S)
    BY <1>1, TotalPlus
  <1>3. SumFunctionOnSet(d, S) \in Nat /\ SumFunctionOnSet(f, S) \in Int
    BY <1>1, TotalIsNat, TotalType
  <1> QED
    BY <1>2, <1>3
=============================================================================
