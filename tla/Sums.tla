-------------------------------- MODULE Sums --------------------------------
(***************************************************************************)
(* Facts about sums over finite sets, which the theorems about money rest  *)
(* on.  SumFunctionOnSet of the community modules is defined by recursion  *)
(* over the subsets of the set.  The prover cannot instantiate the         *)
(* induction theorems of its library with a predicate; the inductions here *)
(* are arguments by a smallest counterexample instead, which need only a   *)
(* set: of the subsets of a finite set that violate a claim, some have no  *)
(* violating subset of their own.                                          *)
(***************************************************************************)
EXTENDS FiniteSetsExt, FiniteSetTheorems, TLAPS

\* The element the recursion takes out of a set, and its one step: h has the
\* sums of the smaller sets.
AnyOf(s) == CHOOSE x \in s : TRUE
OneTerm(f, h, s) == IF s = {} THEN 0 ELSE f[AnyOf(s)] + h[s \ {AnyOf(s)}]

\* h has the sum of f over every subset of S.
SumsUp(f, h, S) == h = [s \in SUBSET S |-> OneTerm(f, h, s)]

\* What is taken out of a set was in it.
LEMMA AnyOfIsIn ==
    ASSUME NEW s, s # {}
    PROVE  AnyOf(s) \in s
  BY DEF AnyOf

\* Among sets of subsets of a finite set there is one with no other inside it.
LEMMA FiniteSubsetsWellFounded ==
    ASSUME NEW S, IsFiniteSet(S), NEW B \in SUBSET SUBSET S, B # {}
    PROVE  \E T \in B : \A U \in B : U \subseteq T => U = T
  <1>1. IsWellFoundedOn(StrictSubsetOrdering(S), FiniteSubsetsOf(S))
    BY FS_StrictSubsetOrderingWellFounded
  <1>2. FiniteSubsetsOf(S) = SUBSET S
    BY FS_FiniteSubsetsOfFinite
  <1>3. \E T \in B : \A U \in B : <<U, T>> \notin StrictSubsetOrdering(S)
    BY <1>1, <1>2, WFMin
  <1> QED BY <1>3 DEF StrictSubsetOrdering

\* A finite set of numbers has a largest.
LEMMA LargestExists ==
    \A S : IsFiniteSet(S) /\ S \subseteq Int /\ S # {}
              => Max(S) \in S /\ \A y \in S : Max(S) >= y
  <1>1. SUFFICES ASSUME NEW S, IsFiniteSet(S) /\ S # {}, S \subseteq Int
                 PROVE  \E x \in S : \A y \in S : x >= y
    BY DEF Max
  <1> DEFINE Above(v) == {w \in S : w > v}
  <1>2. PICK B : B = {Above(v) : v \in S}
    OBVIOUS
  <1>3. B \in SUBSET SUBSET S /\ B # {}
    BY <1>1, <1>2
  <1>4. PICK T \in B : \A U \in B : U \subseteq T => U = T
    <2>1. IsFiniteSet(S)
      BY <1>1
    <2> HIDE DEF Above
    <2> QED BY <1>3, <2>1, FiniteSubsetsWellFounded
  <1>5. PICK x \in S : T = Above(x)
    BY <1>2
  <1>6. ASSUME NEW y \in S PROVE x >= y
    <2>1. Above(y) \in B /\ x \in Int /\ y \in Int
      BY <1>1, <1>2
    <2>2. SUFFICES ASSUME y > x PROVE FALSE
      BY <2>1
    <2>3. ASSUME NEW w \in Above(y) PROVE w \in T
      <3>1. w \in S /\ w \in Int /\ w > y
        BY <1>1
      <3> QED BY <1>5, <2>1, <2>2, <3>1
    <2>4. y \in T /\ y \notin Above(y)
      BY <1>5, <2>1, <2>2
    <2> QED BY <1>4, <2>1, <2>3, <2>4
  <1> QED BY <1>6

\* Two such functions agree wherever both are defined.
LEMMA SumsAgree ==
    ASSUME NEW S, IsFiniteSet(S), NEW f, NEW A \in SUBSET S, NEW B \in SUBSET S,
           NEW g, NEW h, SumsUp(f, g, A), SumsUp(f, h, B)
    PROVE  \A T \in SUBSET (A \cap B) : g[T] = h[T]
  <1> DEFINE Bad == {T \in SUBSET (A \cap B) : g[T] # h[T]}
  <1> SUFFICES ASSUME Bad # {} PROVE FALSE
    OBVIOUS
  <1>1. PICK T \in Bad : \A U \in Bad : U \subseteq T => U = T
    <2>1. Bad \in SUBSET SUBSET S
      OBVIOUS
    <2> HIDE DEF Bad
    <2> QED BY <2>1, FiniteSubsetsWellFounded
  <1>2. T \in SUBSET A /\ T \in SUBSET B /\ g[T] # h[T]
    BY <1>1
  <1>3. g[T] = OneTerm(f, g, T) /\ h[T] = OneTerm(f, h, T)
    BY <1>2 DEF SumsUp
  <1>4. T # {}
    BY <1>2, <1>3 DEF OneTerm
  <1>5. T \ {AnyOf(T)} \notin Bad
    BY <1>1, <1>4, AnyOfIsIn
  <1>6. g[T \ {AnyOf(T)}] = h[T \ {AnyOf(T)}]
    BY <1>2, <1>5
  <1> QED BY <1>2, <1>3, <1>4, <1>6 DEF OneTerm

\* One such function.
SubsetSums(f, S) == CHOOSE h : SumsUp(f, h, S)

\* There is such a function: assembled from those of the smaller sets.
LEMMA SumsExist ==
    ASSUME NEW S, IsFiniteSet(S), NEW f
    PROVE  SumsUp(f, SubsetSums(f, S), S)
  <1> DEFINE Bad == {T \in SUBSET S : ~ SumsUp(f, SubsetSums(f, T), T)}
  <1> SUFFICES ASSUME Bad # {} PROVE FALSE
    OBVIOUS
  <1>1. PICK T \in Bad : \A U \in Bad : U \subseteq T => U = T
    <2>1. Bad \in SUBSET SUBSET S
      OBVIOUS
    <2> HIDE DEF Bad
    <2> QED BY <2>1, FiniteSubsetsWellFounded
  <1>2. \A U \in SUBSET T : U # T => SumsUp(f, SubsetSums(f, U), U)
    BY <1>1
  <1> DEFINE rest(s) == s \ {AnyOf(s)}
             h == [s \in SUBSET T |-> OneTerm(f, SubsetSums(f, rest(s)), s)]
  <1>3. ASSUME NEW s \in SUBSET T, s # {}
        PROVE  h[rest(s)] = SubsetSums(f, rest(s))[rest(s)]
    <2>1. rest(s) \in SUBSET T /\ rest(s) # T
      BY <1>3, AnyOfIsIn
    <2>2. h[rest(s)] = OneTerm(f, SubsetSums(f, rest(rest(s))), rest(s))
      BY <2>1
    <2>3. SumsUp(f, SubsetSums(f, rest(s)), rest(s))
      BY <2>1, <1>2
    <2>4. SubsetSums(f, rest(s))[rest(s)] = OneTerm(f, SubsetSums(f, rest(s)), rest(s))
      BY <2>3 DEF SumsUp
    <2>5. CASE rest(s) = {}
      BY <2>2, <2>4, <2>5 DEF OneTerm
    <2>6. CASE rest(s) # {}
      <3>1. rest(rest(s)) \in SUBSET T /\ rest(rest(s)) # T /\ rest(rest(s)) \subseteq rest(s)
        BY <2>1
      <3>2. SumsUp(f, SubsetSums(f, rest(rest(s))), rest(rest(s)))
        BY <3>1, <1>2
      <3>3. SubsetSums(f, rest(rest(s)))[rest(rest(s))] = SubsetSums(f, rest(s))[rest(rest(s))]
        <4> HIDE DEF rest
        <4> QED BY <2>1, <2>3, <3>1, <3>2, SumsAgree
      <3> QED BY <2>2, <2>4, <3>3 DEF OneTerm
    <2> QED BY <2>5, <2>6
  <1>4. \A s \in SUBSET T : h[s] = OneTerm(f, h, s)
    <2> SUFFICES ASSUME NEW s \in SUBSET T PROVE h[s] = OneTerm(f, h, s)
      OBVIOUS
    <2>1. h[s] = OneTerm(f, SubsetSums(f, rest(s)), s)
      OBVIOUS
    <2> HIDE DEF h
    <2> QED BY <2>1, <1>3 DEF OneTerm
  <1>5. SumsUp(f, h, T)
    <2>1. h = [s \in SUBSET T |-> h[s]]
      OBVIOUS
    <2> HIDE DEF h
    <2> QED BY <2>1, <1>4 DEF SumsUp
  <1>6. SumsUp(f, SubsetSums(f, T), T)
    <2> HIDE DEF h
    <2> QED BY <1>5 DEF SubsetSums
  <1> QED BY <1>1, <1>6

\* SumFunctionOnSet is the value such a function has at the whole set.
LEMMA SumIsSubsetSum ==
    ASSUME NEW S, IsFiniteSet(S), NEW f
    PROVE  SumFunctionOnSet(f, S) = SubsetSums(f, S)[S]
  BY DEF SumFunctionOnSet, FoldFunctionOnSet, MapThenFoldSet, SubsetSums, SumsUp, OneTerm, AnyOf

-----------------------------------------------------------------------------
(* What the other modules use *)

\* An empty sum is 0.
LEMMA SumOfNone ==
    ASSUME NEW f
    PROVE  SumFunctionOnSet(f, {}) = 0
  <1>1. IsFiniteSet({})
    BY FS_EmptySet
  <1>2. SumFunctionOnSet(f, {}) = SubsetSums(f, {})[{}]
    BY <1>1, SumIsSubsetSum
  <1>3. SumsUp(f, SubsetSums(f, {}), {})
    BY <1>1, SumsExist
  <1> QED BY <1>2, <1>3 DEF SumsUp, OneTerm

\* The recursion equation, for the element it happens to take.
LEMMA SumFromAny ==
    ASSUME NEW S, IsFiniteSet(S), NEW f, S # {}
    PROVE  SumFunctionOnSet(f, S)
              = f[AnyOf(S)] + SumFunctionOnSet(f, S \ {AnyOf(S)})
  <1> DEFINE R == S \ {AnyOf(S)}
  <1>1. IsFiniteSet(R) /\ R \in SUBSET S
    BY FS_RemoveElement
  <1>2. SumsUp(f, SubsetSums(f, S), S) /\ SumsUp(f, SubsetSums(f, R), R)
    BY <1>1, SumsExist
  <1>3. SubsetSums(f, S)[S] = f[AnyOf(S)] + SubsetSums(f, S)[R]
    BY <1>2 DEF SumsUp, OneTerm
  <1>4. SubsetSums(f, S)[R] = SubsetSums(f, R)[R]
    <2> HIDE DEF R
    <2> QED BY <1>1, <1>2, SumsAgree
  <1>5. SumFunctionOnSet(f, S) = SubsetSums(f, S)[S]
    BY SumIsSubsetSum
  <1>6. SumFunctionOnSet(f, R) = SubsetSums(f, R)[R]
    BY <1>1, SumIsSubsetSum
  <1> QED BY <1>3, <1>4, <1>5, <1>6

\* A sum of integers is an integer.
LEMMA SumIsInteger ==
    ASSUME NEW S, IsFiniteSet(S), NEW f, \A x \in S : f[x] \in Int
    PROVE  SumFunctionOnSet(f, S) \in Int
  <1> DEFINE Bad == {T \in SUBSET S : SumFunctionOnSet(f, T) \notin Int}
  <1> SUFFICES ASSUME Bad # {} PROVE FALSE
    OBVIOUS
  <1>1. PICK T \in Bad : \A U \in Bad : U \subseteq T => U = T
    <2>1. Bad \in SUBSET SUBSET S
      OBVIOUS
    <2> HIDE DEF Bad
    <2> QED BY <2>1, FiniteSubsetsWellFounded
  <1>2. T \in SUBSET S /\ IsFiniteSet(T) /\ SumFunctionOnSet(f, T) \notin Int
    BY <1>1, FS_Subset
  <1>3. T # {}
    BY <1>2, SumOfNone
  <1>4. AnyOf(T) \in T
    BY <1>3, AnyOfIsIn
  <1>5. SumFunctionOnSet(f, T \ {AnyOf(T)}) \in Int
    BY <1>1, <1>2, <1>4
  <1>6. f[AnyOf(T)] \in Int
    BY <1>2, <1>4
  <1>7. SumFunctionOnSet(f, T) = f[AnyOf(T)] + SumFunctionOnSet(f, T \ {AnyOf(T)})
    BY <1>2, <1>3, SumFromAny
  <1> QED BY <1>2, <1>5, <1>6, <1>7

\* The recursion equation, for every element.
LEMMA SumWithout ==
    ASSUME NEW S, IsFiniteSet(S), NEW f, \A x \in S : f[x] \in Int, NEW x \in S
    PROVE  SumFunctionOnSet(f, S) = f[x] + SumFunctionOnSet(f, S \ {x})
  <1> DEFINE Bad == {T \in SUBSET S : \E y \in T : 
                   SumFunctionOnSet(f, T) # f[y] + SumFunctionOnSet(f, T \ {y})}
  <1> SUFFICES ASSUME Bad # {} PROVE FALSE
    OBVIOUS
  <1>1. PICK T \in Bad : \A U \in Bad : U \subseteq T => U = T
    <2>1. Bad \in SUBSET SUBSET S
      OBVIOUS
    <2> HIDE DEF Bad
    <2> QED BY <2>1, FiniteSubsetsWellFounded
  <1>2. PICK y \in T : SumFunctionOnSet(f, T) # f[y] + SumFunctionOnSet(f, T \ {y})
    BY <1>1
  <1>3. T \in SUBSET S /\ IsFiniteSet(T)
    BY <1>1, FS_Subset
  <1> DEFINE z == AnyOf(T)
  <1>4. z \in T
    BY <1>2, AnyOfIsIn
  <1>5. SumFunctionOnSet(f, T) = f[z] + SumFunctionOnSet(f, T \ {z})
    BY <1>2, <1>3, SumFromAny
  <1>6. z # y
    BY <1>2, <1>5
  <1> HIDE DEF z
  <1>7. SumFunctionOnSet(f, T \ {z}) = f[y] + SumFunctionOnSet(f, (T \ {z}) \ {y})
    <2>1. T \ {z} \in SUBSET S /\ T \ {z} # T /\ y \in T \ {z}
      BY <1>3, <1>4, <1>6
    <2>2. T \ {z} \notin Bad
      BY <1>1, <2>1
    <2> QED BY <2>1, <2>2
  <1>8. SumFunctionOnSet(f, T \ {y}) = f[z] + SumFunctionOnSet(f, (T \ {y}) \ {z})
    <2>1. T \ {y} \in SUBSET S /\ T \ {y} # T /\ z \in T \ {y}
      BY <1>3, <1>4, <1>6
    <2>2. T \ {y} \notin Bad
      BY <1>1, <2>1
    <2> QED BY <2>1, <2>2
  <1>9. (T \ {y}) \ {z} = (T \ {z}) \ {y}
    OBVIOUS
  <1>10. SumFunctionOnSet(f, (T \ {z}) \ {y}) \in Int
    <2>1. (T \ {z}) \ {y} \in SUBSET S
      BY <1>3
    <2>2. IsFiniteSet((T \ {z}) \ {y})
      BY <2>1, FS_Subset
    <2> QED BY <2>1, <2>2, SumIsInteger
  <1>11. f[y] \in Int /\ f[z] \in Int
    BY <1>2, <1>3, <1>4
  <1> DEFINE a == SumFunctionOnSet(f, (T \ {z}) \ {y})
  <1>12. SumFunctionOnSet(f, T) = f[z] + (f[y] + a)
    BY <1>5, <1>7
  <1>13. SumFunctionOnSet(f, T \ {y}) = f[z] + a
    BY <1>8, <1>9
  <1>14. a \in Int
    BY <1>10
  <1> HIDE DEF a
  <1> QED BY <1>2, <1>11, <1>12, <1>13, <1>14

\* A new element adds its term.
LEMMA SumWith ==
    ASSUME NEW S, IsFiniteSet(S), NEW f, \A y \in S : f[y] \in Int,
           NEW x, x \notin S, f[x] \in Int
    PROVE  SumFunctionOnSet(f, S \cup {x}) = SumFunctionOnSet(f, S) + f[x]
  <1> DEFINE T == S \cup {x}
  <1>1. IsFiniteSet(T) /\ x \in T /\ \A y \in T : f[y] \in Int
    BY FS_AddElement
  <1>2. T \ {x} = S
    OBVIOUS
  <1>3. SumFunctionOnSet(f, S) \in Int
    BY SumIsInteger
  <1> HIDE DEF T
  <1>4. SumFunctionOnSet(f, T) = f[x] + SumFunctionOnSet(f, T \ {x})
    BY <1>1, SumWithout
  <1>5. SumFunctionOnSet(f, T) = f[x] + SumFunctionOnSet(f, S)
    BY <1>2, <1>4
  <1> QED BY <1>3, <1>5 DEF T

\* A sum of natural numbers is one.
LEMMA SumIsNatural ==
    ASSUME NEW S, IsFiniteSet(S), NEW f, \A x \in S : f[x] \in Nat
    PROVE  SumFunctionOnSet(f, S) \in Nat
  <1> DEFINE Bad == {T \in SUBSET S : SumFunctionOnSet(f, T) \notin Nat}
  <1> SUFFICES ASSUME Bad # {} PROVE FALSE
    OBVIOUS
  <1>1. PICK T \in Bad : \A U \in Bad : U \subseteq T => U = T
    <2>1. Bad \in SUBSET SUBSET S
      OBVIOUS
    <2> HIDE DEF Bad
    <2> QED BY <2>1, FiniteSubsetsWellFounded
  <1>2. T \in SUBSET S /\ IsFiniteSet(T) /\ SumFunctionOnSet(f, T) \notin Nat
    BY <1>1, FS_Subset
  <1>3. T # {}
    BY <1>2, SumOfNone
  <1>4. AnyOf(T) \in T
    BY <1>3, AnyOfIsIn
  <1>5. SumFunctionOnSet(f, T \ {AnyOf(T)}) \in Nat
    BY <1>1, <1>2, <1>4
  <1>6. f[AnyOf(T)] \in Nat
    BY <1>2, <1>4
  <1>7. SumFunctionOnSet(f, T) = f[AnyOf(T)] + SumFunctionOnSet(f, T \ {AnyOf(T)})
    BY <1>2, <1>3, SumFromAny
  <1> QED BY <1>2, <1>5, <1>6, <1>7

\* Only the terms matter.
LEMMA SameSum ==
    ASSUME NEW S, IsFiniteSet(S), NEW f, NEW g, \A x \in S : f[x] = g[x]
    PROVE  SumFunctionOnSet(f, S) = SumFunctionOnSet(g, S)
  <1> DEFINE Bad == {T \in SUBSET S : SumFunctionOnSet(f, T) # SumFunctionOnSet(g, T)}
  <1> SUFFICES ASSUME Bad # {} PROVE FALSE
    OBVIOUS
  <1>1. PICK T \in Bad : \A U \in Bad : U \subseteq T => U = T
    <2>1. Bad \in SUBSET SUBSET S
      OBVIOUS
    <2> HIDE DEF Bad
    <2> QED BY <2>1, FiniteSubsetsWellFounded
  <1>2. T \in SUBSET S /\ IsFiniteSet(T) /\ SumFunctionOnSet(f, T) # SumFunctionOnSet(g, T)
    BY <1>1, FS_Subset
  <1>3. T # {}
    BY <1>2, SumOfNone
  <1>4. AnyOf(T) \in T
    BY <1>3, AnyOfIsIn
  <1>5. SumFunctionOnSet(f, T \ {AnyOf(T)}) = SumFunctionOnSet(g, T \ {AnyOf(T)})
    BY <1>1, <1>2, <1>4
  <1>6. f[AnyOf(T)] = g[AnyOf(T)]
    BY <1>2, <1>4
  <1>7. SumFunctionOnSet(f, T) = f[AnyOf(T)] + SumFunctionOnSet(f, T \ {AnyOf(T)})
    BY <1>2, <1>3, SumFromAny
  <1>8. SumFunctionOnSet(g, T) = g[AnyOf(T)] + SumFunctionOnSet(g, T \ {AnyOf(T)})
    BY <1>2, <1>3, SumFromAny
  <1> QED BY <1>2, <1>5, <1>6, <1>7, <1>8

\* Nothing sums to 0.
LEMMA SumOfZeros ==
    ASSUME NEW S, IsFiniteSet(S), NEW f, \A x \in S : f[x] = 0
    PROVE  SumFunctionOnSet(f, S) = 0
  <1> DEFINE Bad == {T \in SUBSET S : SumFunctionOnSet(f, T) # 0}
  <1> SUFFICES ASSUME Bad # {} PROVE FALSE
    OBVIOUS
  <1>1. PICK T \in Bad : \A U \in Bad : U \subseteq T => U = T
    <2>1. Bad \in SUBSET SUBSET S
      OBVIOUS
    <2> HIDE DEF Bad
    <2> QED BY <2>1, FiniteSubsetsWellFounded
  <1>2. T \in SUBSET S /\ IsFiniteSet(T) /\ SumFunctionOnSet(f, T) # 0
    BY <1>1, FS_Subset
  <1>3. T # {}
    BY <1>2, SumOfNone
  <1>4. AnyOf(T) \in T
    BY <1>3, AnyOfIsIn
  <1>5. SumFunctionOnSet(f, T \ {AnyOf(T)}) = 0
    BY <1>1, <1>2, <1>4
  <1>6. f[AnyOf(T)] = 0
    BY <1>2, <1>4
  <1>7. SumFunctionOnSet(f, T) = f[AnyOf(T)] + SumFunctionOnSet(f, T \ {AnyOf(T)})
    BY <1>2, <1>3, SumFromAny
  <1> QED BY <1>2, <1>5, <1>6, <1>7

\* One term changes.
LEMMA SumUpdated ==
    ASSUME NEW S, IsFiniteSet(S), NEW x \in S, NEW f, NEW g,
           \A y \in S : f[y] \in Int, g[x] \in Int,
           \A y \in S \ {x} : g[y] = f[y]
    PROVE  SumFunctionOnSet(g, S) = SumFunctionOnSet(f, S) - f[x] + g[x]
  <1>1. IsFiniteSet(S \ {x})
    BY FS_RemoveElement
  <1>2. SumFunctionOnSet(g, S \ {x}) = SumFunctionOnSet(f, S \ {x})
    BY <1>1, SameSum
  <1>3. \A y \in S : g[y] \in Int
    OBVIOUS
  <1>4. SumFunctionOnSet(f, S) = f[x] + SumFunctionOnSet(f, S \ {x})
    BY SumWithout
  <1>5. SumFunctionOnSet(g, S) = g[x] + SumFunctionOnSet(g, S \ {x})
    BY <1>3, SumWithout
  <1>6. SumFunctionOnSet(f, S \ {x}) \in Int
    BY <1>1, SumIsInteger
  <1> QED BY <1>2, <1>4, <1>5, <1>6

\* Two sets with nothing in common add up.
LEMMA SumOfUnion ==
    ASSUME NEW S, IsFiniteSet(S), NEW R, IsFiniteSet(R), S \cap R = {},
           NEW f, \A x \in S \cup R : f[x] \in Int
    PROVE  SumFunctionOnSet(f, S \cup R) = SumFunctionOnSet(f, S) + SumFunctionOnSet(f, R)
  <1> DEFINE Bad == {T \in SUBSET R : SumFunctionOnSet(f, S \cup T)
                                        # SumFunctionOnSet(f, S) + SumFunctionOnSet(f, T)}
  <1> SUFFICES ASSUME Bad # {} PROVE FALSE
    OBVIOUS
  <1>1. PICK T \in Bad : \A U \in Bad : U \subseteq T => U = T
    <2>1. Bad \in SUBSET SUBSET R
      OBVIOUS
    <2> HIDE DEF Bad
    <2> QED BY <2>1, FiniteSubsetsWellFounded
  <1>2. /\ T \in SUBSET R /\ IsFiniteSet(T)
        /\ SumFunctionOnSet(f, S \cup T) # SumFunctionOnSet(f, S) + SumFunctionOnSet(f, T)
    BY <1>1, FS_Subset
  <1>3. SumFunctionOnSet(f, S) \in Int
    BY SumIsInteger
  <1>4. T # {}
    <2>1. S \cup {} = S
      OBVIOUS
    <2> QED BY <1>2, <1>3, <2>1, SumOfNone
  <1>5. PICK x \in T : TRUE
    BY <1>4
  <1>6. /\ IsFiniteSet(T \ {x}) /\ T \ {x} \in SUBSET R
        /\ IsFiniteSet(S \cup (T \ {x})) /\ x \notin S \cup (T \ {x})
    BY <1>2, FS_RemoveElement, FS_Union
  <1>7. SumFunctionOnSet(f, S \cup (T \ {x}))
            = SumFunctionOnSet(f, S) + SumFunctionOnSet(f, T \ {x})
    BY <1>1, <1>5, <1>6
  <1>8. SumFunctionOnSet(f, T) = f[x] + SumFunctionOnSet(f, T \ {x})
    BY <1>2, <1>5, SumWithout
  <1>9. SumFunctionOnSet(f, S \cup T) = SumFunctionOnSet(f, S \cup (T \ {x})) + f[x]
    <2>1. PICK A : A = S \cup (T \ {x})
      OBVIOUS
    <2>2. S \cup T = A \cup {x}
      BY <1>5, <2>1
    <2>3. IsFiniteSet(A) /\ x \notin A /\ f[x] \in Int /\ \A y \in A : f[y] \in Int
      BY <1>2, <1>5, <1>6, <2>1
    <2>4. SumFunctionOnSet(f, A \cup {x}) = SumFunctionOnSet(f, A) + f[x]
      BY <2>3, SumWith
    <2> QED BY <2>1, <2>2, <2>4
  <1>10. SumFunctionOnSet(f, T \ {x}) \in Int
    BY <1>2, <1>6, SumIsInteger
  <1>11. f[x] \in Int
    BY <1>2, <1>5
  <1> QED BY <1>2, <1>3, <1>7, <1>8, <1>9, <1>10, <1>11

\* m pairs the members of S with those of R.
OneToOne(m, S, R) ==
    /\ \A x \in S : m[x] \in R
    /\ \A x, y \in S : m[x] = m[y] => x = y
    /\ \A z \in R : \E x \in S : m[x] = z

\* The members a pairing takes those of a subset to.
Taken(m, T) == {m[x] : x \in T}

\* Sets paired so that the terms are the same add up to the same, and are as large.
LEMMA SumPaired ==
    ASSUME NEW S, IsFiniteSet(S), NEW R, IsFiniteSet(R), NEW m, OneToOne(m, S, R),
           NEW f, NEW g, \A x \in S : f[x] \in Int /\ g[m[x]] = f[x]
    PROVE  SumFunctionOnSet(f, S) = SumFunctionOnSet(g, R)
  <1> DEFINE Bad == {T \in SUBSET S : SumFunctionOnSet(f, T) # SumFunctionOnSet(g, Taken(m, T))}
  <1>0. Taken(m, S) = R
    BY DEF Taken, OneToOne
  <1> SUFFICES ASSUME Bad # {} PROVE FALSE
    BY <1>0
  <1>1. PICK T \in Bad : \A U \in Bad : U \subseteq T => U = T
    <2>1. Bad \in SUBSET SUBSET S
      OBVIOUS
    <2> HIDE DEF Bad
    <2> QED BY <2>1, FiniteSubsetsWellFounded
  <1>2. /\ T \in SUBSET S /\ IsFiniteSet(T)
        /\ SumFunctionOnSet(f, T) # SumFunctionOnSet(g, Taken(m, T))
    BY <1>1, FS_Subset
  <1>4. T # {}
    <2>1. Taken(m, {}) = {}
      BY DEF Taken
    <2> QED BY <1>2, <2>1, SumOfNone
  <1>5. PICK x \in T : TRUE
    BY <1>4
  <1>6. IsFiniteSet(T \ {x}) /\ T \ {x} \in SUBSET S
    BY <1>2, FS_RemoveElement
  <1>7. SumFunctionOnSet(f, T \ {x}) = SumFunctionOnSet(g, Taken(m, T \ {x}))
    <2>1. T \ {x} \notin Bad
      BY <1>1, <1>5
    <2> QED BY <1>6, <2>1
  <1>8. SumFunctionOnSet(f, T) = f[x] + SumFunctionOnSet(f, T \ {x})
    BY <1>2, <1>5, SumWithout
  <1>9. Taken(m, T) \ {m[x]} = Taken(m, T \ {x}) /\ m[x] \in Taken(m, T)
    BY <1>2, <1>5 DEF Taken, OneToOne
  <1>10. PICK Q : Q = Taken(m, T)
    OBVIOUS
  <1>11. IsFiniteSet(Q) /\ \A z \in Q : g[z] \in Int
    <2>1. Q \subseteq R
      BY <1>2, <1>10 DEF Taken, OneToOne
    <2>2. \A z \in Q : g[z] \in Int
      BY <1>2, <1>10 DEF Taken
    <2> QED BY <2>1, <2>2, FS_Subset
  <1>12. SumFunctionOnSet(g, Q) = g[m[x]] + SumFunctionOnSet(g, Q \ {m[x]})
    BY <1>9, <1>10, <1>11, SumWithout
  <1> QED BY <1>2, <1>5, <1>7, <1>8, <1>9, <1>10, <1>12

LEMMA PairedAreAsMany ==
    ASSUME NEW S, IsFiniteSet(S), NEW R, NEW m, OneToOne(m, S, R)
    PROVE  IsFiniteSet(R) /\ Cardinality(S) = Cardinality(R)
  <1> DEFINE g == [x \in S |-> m[x]]
  <1>1. g \in Bijection(S, R)
    BY DEF OneToOne, Bijection, Injection, Surjection, IsInjective
  <1>2. ExistsBijection(S, R)
    BY <1>1 DEF ExistsBijection
  <1> QED BY <1>2, FS_Bijection

\* Each member of S is in one of the parts.
Partition(parts, D, S) ==
    /\ \A d \in D : parts[d] \subseteq S
    /\ \A x \in S : \E d \in D : x \in parts[d]
    /\ \A d, e \in D : \A x \in S : x \in parts[d] /\ x \in parts[e] => d = e

\* The parts of a set add up to it.
LEMMA SumOfParts ==
    ASSUME NEW D, IsFiniteSet(D), NEW S, IsFiniteSet(S), NEW parts, Partition(parts, D, S),
           NEW f, \A x \in S : f[x] \in Int,
           NEW g, \A d \in D : g[d] = SumFunctionOnSet(f, parts[d])
    PROVE  SumFunctionOnSet(g, D) = SumFunctionOnSet(f, S)
  <1> DEFINE of(E) == {x \in S : \E d \in E : x \in parts[d]}
             Bad == {E \in SUBSET D : SumFunctionOnSet(g, E) # SumFunctionOnSet(f, of(E))}
  <1>0. of(D) = S
    BY DEF Partition
  <1> SUFFICES ASSUME Bad # {} PROVE FALSE
    BY <1>0
  <1>1. PICK E \in Bad : \A U \in Bad : U \subseteq E => U = E
    <2>1. Bad \in SUBSET SUBSET D
      OBVIOUS
    <2> HIDE DEF Bad
    <2> QED BY <2>1, FiniteSubsetsWellFounded
  <1>2. /\ E \in SUBSET D /\ IsFiniteSet(E)
        /\ SumFunctionOnSet(g, E) # SumFunctionOnSet(f, of(E))
    BY <1>1, FS_Subset
  <1>4. E # {}
    <2>1. of({}) = {}
      OBVIOUS
    <2> QED BY <1>2, <2>1, SumOfNone
  <1>5. PICK d \in E : TRUE
    BY <1>4
  <1>6. IsFiniteSet(E \ {d}) /\ E \ {d} \in SUBSET D /\ E \ {d} \notin Bad
    BY <1>1, <1>2, <1>5, FS_RemoveElement
  <1>7. SumFunctionOnSet(g, E \ {d}) = SumFunctionOnSet(f, of(E \ {d}))
    BY <1>6
  <1>8. PICK A, B : A = of(E \ {d}) /\ B = parts[d]
    OBVIOUS
  <1>9. /\ of(E) = A \cup B /\ A \cap B = {}
        /\ IsFiniteSet(A) /\ IsFiniteSet(B) /\ \A x \in A \cup B : f[x] \in Int
    <2>1. A \subseteq S /\ B \subseteq S
      BY <1>2, <1>5, <1>8 DEF Partition
    <2>2. of(E) = A \cup B
      <3>1. \A x \in S : (\E e \in E : x \in parts[e])
                              <=> (\E e \in E \ {d} : x \in parts[e]) \/ x \in parts[d]
        BY <1>5
      <3> QED BY <1>8, <2>1, <3>1
    <2>3. A \cap B = {}
      <3>1. ASSUME NEW x \in S, NEW e \in E \ {d}, x \in parts[e], x \in parts[d] PROVE FALSE
        BY <1>2, <1>5, <3>1 DEF Partition
      <3> QED BY <1>8, <2>1, <3>1
    <2> QED BY <2>1, <2>2, <2>3, FS_Subset
  <1>10. SumFunctionOnSet(f, A \cup B) = SumFunctionOnSet(f, A) + SumFunctionOnSet(f, B)
    BY <1>9, SumOfUnion
  <1>11. \A e \in D : g[e] \in Int
    <2> SUFFICES ASSUME NEW e \in D PROVE g[e] \in Int
      OBVIOUS
    <2>1. PICK C : C = parts[e] /\ C \subseteq S
      BY DEF Partition
    <2>2. IsFiniteSet(C) /\ \A x \in C : f[x] \in Int
      BY <2>1, FS_Subset
    <2> QED BY <2>1, <2>2, SumIsInteger
  <1>12. SumFunctionOnSet(g, E) = g[d] + SumFunctionOnSet(g, E \ {d})
    BY <1>2, <1>5, <1>11, SumWithout
  <1>13. g[d] = SumFunctionOnSet(f, B)
    BY <1>2, <1>5, <1>8
  <1>14. SumFunctionOnSet(f, A) \in Int /\ SumFunctionOnSet(f, B) \in Int
    BY <1>9, SumIsInteger
  <1>15. SumFunctionOnSet(g, E) = SumFunctionOnSet(f, of(E))
    <2>1. SumFunctionOnSet(g, E \ {d}) = SumFunctionOnSet(f, A)
      BY <1>7, <1>8
    <2>2. SumFunctionOnSet(f, of(E)) = SumFunctionOnSet(f, A \cup B)
      BY <1>9
    <2> HIDE DEF of
    <2> QED BY <1>10, <1>12, <1>13, <1>14, <2>1, <2>2
  <1> QED BY <1>2, <1>15

\* Term by term, sums subtract.
LEMMA SumOfDifferences ==
    ASSUME NEW S, IsFiniteSet(S), NEW f, NEW g, NEW h,
           \A x \in S : f[x] \in Int /\ g[x] \in Int /\ h[x] = f[x] - g[x]
    PROVE  SumFunctionOnSet(h, S) = SumFunctionOnSet(f, S) - SumFunctionOnSet(g, S)
  <1> DEFINE Bad == {T \in SUBSET S : SumFunctionOnSet(h, T)
                                        # SumFunctionOnSet(f, T) - SumFunctionOnSet(g, T)}
  <1> SUFFICES ASSUME Bad # {} PROVE FALSE
    OBVIOUS
  <1>1. PICK T \in Bad : \A U \in Bad : U \subseteq T => U = T
    <2>1. Bad \in SUBSET SUBSET S
      OBVIOUS
    <2> HIDE DEF Bad
    <2> QED BY <2>1, FiniteSubsetsWellFounded
  <1>2. /\ T \in SUBSET S /\ IsFiniteSet(T)
        /\ SumFunctionOnSet(h, T) # SumFunctionOnSet(f, T) - SumFunctionOnSet(g, T)
    BY <1>1, FS_Subset
  <1>3. T # {}
    <2>1. /\ SumFunctionOnSet(f, {}) = 0 /\ SumFunctionOnSet(g, {}) = 0
          /\ SumFunctionOnSet(h, {}) = 0
      BY SumOfNone
    <2> QED BY <1>2, <2>1
  <1>4. PICK x \in T : TRUE
    BY <1>3
  <1>5. IsFiniteSet(T \ {x}) /\ T \ {x} \in SUBSET S
    BY <1>2, FS_RemoveElement
  <1>6. SumFunctionOnSet(h, T \ {x})
            = SumFunctionOnSet(f, T \ {x}) - SumFunctionOnSet(g, T \ {x})
    <2>1. T \ {x} \notin Bad
      BY <1>1, <1>4
    <2> QED BY <1>5, <2>1
  <1>7. /\ SumFunctionOnSet(f, T) = f[x] + SumFunctionOnSet(f, T \ {x})
        /\ SumFunctionOnSet(g, T) = g[x] + SumFunctionOnSet(g, T \ {x})
        /\ SumFunctionOnSet(h, T) = h[x] + SumFunctionOnSet(h, T \ {x})
    <2>1. \A y \in T : f[y] \in Int /\ g[y] \in Int /\ h[y] \in Int
      BY <1>2
    <2> QED BY <1>2, <1>4, <2>1, SumWithout
  <1>8. SumFunctionOnSet(f, T \ {x}) \in Int /\ SumFunctionOnSet(g, T \ {x}) \in Int
    BY <1>2, <1>5, SumIsInteger
  <1>9. f[x] \in Int /\ g[x] \in Int /\ h[x] = f[x] - g[x]
    BY <1>2, <1>4
  <1> HIDE DEF Bad
  <1> QED BY <1>2, <1>6, <1>7, <1>8, <1>9

\* Terms that exceed p times those of another sum by less than p each.
LEMMA SumOfRemainders ==
    ASSUME NEW S, IsFiniteSet(S), NEW p \in Nat \ {0}, NEW f, NEW g,
           \A x \in S : f[x] \in Int /\ g[x] \in Int /\ f[x] - p * g[x] \in 0..(p - 1)
    PROVE  SumFunctionOnSet(f, S) - p * SumFunctionOnSet(g, S) \in 0..((p - 1) * Cardinality(S))
  <1> DEFINE Right(T) == SumFunctionOnSet(f, T) - p * SumFunctionOnSet(g, T)
                             \in 0..((p - 1) * Cardinality(T))
             Bad == {T \in SUBSET S : ~Right(T)}
  <1> SUFFICES ASSUME Bad # {} PROVE FALSE
    OBVIOUS
  <1>1. PICK T \in Bad : \A U \in Bad : U \subseteq T => U = T
    <2>1. Bad \in SUBSET SUBSET S
      OBVIOUS
    <2> HIDE DEF Bad
    <2> QED BY <2>1, FiniteSubsetsWellFounded
  <1>2. T \in SUBSET S /\ IsFiniteSet(T) /\ ~Right(T)
    <2> HIDE DEF Right
    <2> QED BY <1>1, FS_Subset
  <1>3. T # {}
    <2>1. /\ SumFunctionOnSet(f, {}) = 0 /\ SumFunctionOnSet(g, {}) = 0
          /\ Cardinality({}) = 0
      BY SumOfNone, FS_EmptySet
    <2>2. Right({})
      BY <2>1
    <2> HIDE DEF Right
    <2> QED BY <1>2, <2>2
  <1>4. PICK x \in T : TRUE
    BY <1>3
  <1>5. IsFiniteSet(T \ {x}) /\ T \ {x} \in SUBSET S
    BY <1>2, FS_RemoveElement
  <1>6. Right(T \ {x})
    <2>1. T \ {x} \notin Bad
      BY <1>1, <1>4
    <2> HIDE DEF Right
    <2> QED BY <1>5, <2>1
  <1>7. /\ SumFunctionOnSet(f, T) = f[x] + SumFunctionOnSet(f, T \ {x})
        /\ SumFunctionOnSet(g, T) = g[x] + SumFunctionOnSet(g, T \ {x})
    <2>1. \A y \in T : f[y] \in Int /\ g[y] \in Int
      BY <1>2
    <2> QED BY <1>2, <1>4, <2>1, SumWithout
  <1>8. SumFunctionOnSet(f, T \ {x}) \in Int /\ SumFunctionOnSet(g, T \ {x}) \in Int
    BY <1>2, <1>5, SumIsInteger
  <1>9. f[x] \in Int /\ g[x] \in Int /\ f[x] - p * g[x] \in 0..(p - 1)
    BY <1>2, <1>4
  <1>10. /\ Cardinality(T) = Cardinality(T \ {x}) + 1 /\ Cardinality(T \ {x}) \in Nat
    BY <1>2, <1>4, <1>5, FS_RemoveElement, FS_CardinalityType
  <1>11. ASSUME NEW a \in Int, NEW b \in Int, NEW c \in Int, NEW d \in Int, NEW n \in Nat,
                a - p * b \in 0..(p - 1), c - p * d \in 0..((p - 1) * n)
         PROVE  (a + c) - p * (b + d) \in 0..((p - 1) * (n + 1))
    <2>1. p * (b + d) = p * b + p * d /\ p * b \in Int /\ p * d \in Int
      OBVIOUS
    <2>2. (p - 1) * (n + 1) = (p - 1) * n + (p - 1) /\ (p - 1) * n \in Int
      OBVIOUS
    <2> QED BY <1>11, <2>1, <2>2
  <1>12. Right(T)
    <2> HIDE DEF Bad
    <2> QED BY <1>6, <1>7, <1>8, <1>9, <1>10, <1>11
  <1> QED BY <1>2, <1>12

\* The sum over the values of an injective function.
LEMMA SumOfImage ==
    ASSUME NEW S, IsFiniteSet(S), NEW m, \A x, y \in S : m[x] = m[y] => x = y,
           NEW f, \A x \in S : f[x] \in Int, NEW g, \A x \in S : g[m[x]] = f[x]
    PROVE  /\ IsFiniteSet(Taken(m, S))
           /\ SumFunctionOnSet(g, Taken(m, S)) = SumFunctionOnSet(f, S)
  <1>1. OneToOne(m, S, Taken(m, S))
    BY DEF OneToOne, Taken
  <1>2. IsFiniteSet(Taken(m, S))
    BY <1>1, PairedAreAsMany
  <1>3. SumFunctionOnSet(f, S) = SumFunctionOnSet(g, Taken(m, S))
    BY <1>1, <1>2, SumPaired
  <1> QED BY <1>2, <1>3

\* Terms of 0 count for nothing.
LEMMA SumWithZeros ==
    ASSUME NEW S, NEW R, IsFiniteSet(R), S \subseteq R, NEW f, NEW g,
           \A x \in S : f[x] \in Int /\ g[x] = f[x], \A x \in R \ S : g[x] = 0
    PROVE  SumFunctionOnSet(g, R) = SumFunctionOnSet(f, S)
  <1>1. PICK Z : Z = R \ S
    OBVIOUS
  <1>2. /\ IsFiniteSet(S) /\ IsFiniteSet(Z) /\ R = S \cup Z /\ S \cap Z = {}
        /\ \A x \in S \cup Z : g[x] \in Int
    BY <1>1, FS_Subset
  <1>3. SumFunctionOnSet(g, S \cup Z) = SumFunctionOnSet(g, S) + SumFunctionOnSet(g, Z)
    BY <1>2, SumOfUnion
  <1>4. SumFunctionOnSet(g, Z) = 0
    BY <1>1, <1>2, SumOfZeros
  <1>5. SumFunctionOnSet(f, S) = SumFunctionOnSet(g, S)
    BY <1>2, SameSum
  <1>6. SumFunctionOnSet(g, S) \in Int
    BY <1>2, SumIsInteger
  <1> QED BY <1>2, <1>3, <1>4, <1>5, <1>6

\* T is three elements, each with an integer.
Three(f, T, a, b, c) ==
    /\ T = {a, b, c} /\ a # b /\ a # c /\ b # c
    /\ f[a] \in Int /\ f[b] \in Int /\ f[c] \in Int

\* Sums over a few.
LEMMA SumOfThree ==
    ASSUME NEW f, NEW T, NEW a, NEW b, NEW c, Three(f, T, a, b, c)
    PROVE  SumFunctionOnSet(f, T) = f[a] + f[b] + f[c]
  <1>0. /\ T = {a, b, c} /\ a # b /\ a # c /\ b # c
        /\ f[a] \in Int /\ f[b] \in Int /\ f[c] \in Int
    BY DEF Three
  <1>1. SumFunctionOnSet(f, {} \cup {a}) = SumFunctionOnSet(f, {}) + f[a]
    BY <1>0, FS_EmptySet, SumWith
  <1>2. SumFunctionOnSet(f, {a}) = f[a]
    <2>1. {} \cup {a} = {a}
      OBVIOUS
    <2> QED BY <1>0, <1>1, <2>1, SumOfNone
  <1>3. SumFunctionOnSet(f, {a} \cup {b}) = f[a] + f[b]
    <2>1. IsFiniteSet({a}) /\ b \notin {a} /\ \A x \in {a} : f[x] \in Int
      BY <1>0, FS_Singleton
    <2>2. SumFunctionOnSet(f, {a} \cup {b}) = SumFunctionOnSet(f, {a}) + f[b]
      BY <1>0, <2>1, SumWith
    <2> QED BY <1>0, <1>2, <2>2
  <1>4. SumFunctionOnSet(f, {a, b} \cup {c}) = f[a] + f[b] + f[c]
    <2>1. {a} \cup {b} = {a, b}
      OBVIOUS
    <2>2. IsFiniteSet({a, b}) /\ c \notin {a, b} /\ \A x \in {a, b} : f[x] \in Int
      <3>1. IsFiniteSet({a} \cup {b})
        BY FS_Singleton, FS_AddElement
      <3> QED BY <1>0, <2>1, <3>1
    <2>3. SumFunctionOnSet(f, {a, b} \cup {c}) = SumFunctionOnSet(f, {a, b}) + f[c]
      BY <1>0, <2>2, SumWith
    <2> QED BY <1>0, <1>3, <2>1, <2>3
  <1>5. {a, b} \cup {c} = {a, b, c}
    OBVIOUS
  <1> QED BY <1>0, <1>4, <1>5

LEMMA SumOfFour ==
    ASSUME NEW f, f[1] \in Int, f[2] \in Int, f[3] \in Int, f[4] \in Int
    PROVE  SumFunctionOnSet(f, {1, 2, 3, 4}) = f[1] + f[2] + f[3] + f[4]
  <1>1. SumFunctionOnSet(f, {1, 2, 3}) = f[1] + f[2] + f[3]
    <2>1. SumFunctionOnSet(f, {} \cup {1}) = SumFunctionOnSet(f, {}) + f[1]
      BY FS_EmptySet, SumWith
    <2>2. SumFunctionOnSet(f, {1}) = f[1]
      <3>1. {} \cup {1} = {1}
        OBVIOUS
      <3> QED BY <2>1, <3>1, SumOfNone
    <2>3. IsFiniteSet({1}) /\ 2 \notin {1} /\ \A x \in {1} : f[x] \in Int
      BY FS_Singleton
    <2>4. SumFunctionOnSet(f, {1} \cup {2}) = SumFunctionOnSet(f, {1}) + f[2]
      BY <2>3, SumWith
    <2>5. SumFunctionOnSet(f, {1, 2}) = f[1] + f[2]
      <3>1. {1} \cup {2} = {1, 2}
        OBVIOUS
      <3> QED BY <2>2, <2>4, <3>1
    <2>6. IsFiniteSet({1, 2}) /\ 3 \notin {1, 2} /\ \A x \in {1, 2} : f[x] \in Int
      <3>1. IsFiniteSet({1} \cup {2})
        BY <2>3, FS_AddElement
      <3>2. {1} \cup {2} = {1, 2}
        OBVIOUS
      <3> QED BY <3>1, <3>2
    <2>7. SumFunctionOnSet(f, {1, 2} \cup {3}) = SumFunctionOnSet(f, {1, 2}) + f[3]
      BY <2>6, SumWith
    <2>8. {1, 2} \cup {3} = {1, 2, 3}
      OBVIOUS
    <2> QED BY <2>5, <2>7, <2>8
  <1>2. IsFiniteSet({1, 2, 3}) /\ 4 \notin {1, 2, 3} /\ \A x \in {1, 2, 3} : f[x] \in Int
    <2>1. IsFiniteSet({1})
      BY FS_Singleton
    <2>2. IsFiniteSet({1} \cup {2})
      BY <2>1, FS_AddElement
    <2>3. IsFiniteSet(({1} \cup {2}) \cup {3})
      BY <2>2, FS_AddElement
    <2>4. ({1} \cup {2}) \cup {3} = {1, 2, 3}
      OBVIOUS
    <2> QED BY <2>3, <2>4
  <1>3. SumFunctionOnSet(f, {1, 2, 3} \cup {4}) = SumFunctionOnSet(f, {1, 2, 3}) + f[4]
    BY <1>2, SumWith
  <1>4. {1, 2, 3} \cup {4} = {1, 2, 3, 4}
    OBVIOUS
  <1> QED BY <1>1, <1>3, <1>4

\* Two terms for each element.
LEMMA SumOfSums ==
    ASSUME NEW S, IsFiniteSet(S), NEW f, NEW g, NEW h,
           \A x \in S : f[x] \in Int /\ g[x] \in Int /\ h[x] = f[x] + g[x]
    PROVE  SumFunctionOnSet(h, S) = SumFunctionOnSet(f, S) + SumFunctionOnSet(g, S)
  <1>1. \A x \in S : h[x] \in Int /\ g[x] \in Int /\ f[x] = h[x] - g[x]
    OBVIOUS
  <1>2. SumFunctionOnSet(f, S) = SumFunctionOnSet(h, S) - SumFunctionOnSet(g, S)
    BY <1>1, SumOfDifferences
  <1>3. SumFunctionOnSet(h, S) \in Int /\ SumFunctionOnSet(g, S) \in Int
    BY <1>1, SumIsInteger
  <1> QED BY <1>2, <1>3

\* Terms of at least p times others add up to at least as much.
LEMMA SumOfLarger ==
    ASSUME NEW S, IsFiniteSet(S), NEW p \in Nat \ {0}, NEW f, NEW g,
           \A x \in S : f[x] \in Int /\ g[x] \in Int /\ p * g[x] <= f[x]
    PROVE  p * SumFunctionOnSet(g, S) <= SumFunctionOnSet(f, S)
  <1>1. PICK b, r : b = [x \in S |-> p * g[x]] /\ r = [x \in S |-> f[x] - b[x]]
    OBVIOUS
  <1>2. \A x \in S : b[x] \in Int /\ b[x] - p * g[x] \in 0..(p - 1)
    <2> SUFFICES ASSUME NEW x \in S PROVE b[x] \in Int /\ b[x] - p * g[x] \in 0..(p - 1)
      OBVIOUS
    <2>1. PICK m \in Int : m = p * g[x]
      OBVIOUS
    <2>2. b[x] = m
      BY <1>1, <2>1
    <2>3. b[x] - m = 0 /\ 0 \in 0..(p - 1)
      BY <2>2
    <2> QED BY <2>1, <2>2, <2>3
  <1>3. \A x \in S : r[x] \in Nat /\ r[x] = f[x] - b[x] /\ f[x] \in Int
    <2> SUFFICES ASSUME NEW x \in S PROVE r[x] \in Nat /\ r[x] = f[x] - b[x] /\ f[x] \in Int
      OBVIOUS
    <2>1. PICK m \in Int : m = p * g[x]
      OBVIOUS
    <2>2. b[x] = m /\ m <= f[x] /\ f[x] \in Int /\ r[x] = f[x] - b[x]
      BY <1>1, <2>1
    <2> QED BY <2>2
  <1>4. \A x \in S : b[x] \in Int /\ g[x] \in Int /\ b[x] - p * g[x] \in 0..(p - 1)
    BY <1>2
  <1>5. SumFunctionOnSet(b, S) - p * SumFunctionOnSet(g, S) \in 0..((p - 1) * Cardinality(S))
    BY <1>4, SumOfRemainders
  <1>6. \A x \in S : f[x] \in Int /\ b[x] \in Int /\ r[x] = f[x] - b[x]
    BY <1>2, <1>3
  <1>7. SumFunctionOnSet(r, S) = SumFunctionOnSet(f, S) - SumFunctionOnSet(b, S)
    BY <1>6, SumOfDifferences
  <1>8. SumFunctionOnSet(r, S) \in Nat
    BY <1>3, SumIsNatural
  <1>9. SumFunctionOnSet(f, S) \in Int /\ SumFunctionOnSet(b, S) \in Int /\ SumFunctionOnSet(g, S) \in Int
    BY <1>6, SumIsInteger
  <1>10. PICK x, y, z, u : /\ x = SumFunctionOnSet(f, S) /\ y = SumFunctionOnSet(b, S)
                           /\ z = SumFunctionOnSet(g, S) /\ u = p * z
    OBVIOUS
  <1>11. x - y >= 0 /\ y - u >= 0 /\ u \in Int /\ x \in Int /\ y \in Int
    BY <1>5, <1>7, <1>8, <1>9, <1>10
  <1> QED BY <1>10, <1>11
=============================================================================
