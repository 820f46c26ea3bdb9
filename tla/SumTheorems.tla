------------------------------ MODULE SumTheorems ------------------------------
(***************************************************************************)
(* Sums of a function over a finite set, SumFunctionOnSet of the community *)
(* modules.  Its recursion has a solution and only one; from that follow   *)
(* the rules the money of the models is counted by: a sum does not depend  *)
(* on the order it is taken in, takes in or gives up one member, and       *)
(* depends on the function's values on the set only.                       *)
(*                                                                         *)
(* Induction over finite sets is by a smallest counterexample: a           *)
(* non-empty set of subsets has a member none of whose proper subsets      *)
(* belongs to it.                                                          *)
(***************************************************************************)
EXTENDS Integers, FiniteSets, Functions, FiniteSetTheorems, WellFoundedInduction, TLAPS

Chosen(s) == CHOOSE x \in s : TRUE

\* g is the table of sums of f that the recursion asks for, over the subsets of S.
IsTable(f, S, g) ==
    g = [s \in SUBSET S |-> IF s = {} THEN 0 ELSE f[Chosen(s)] + g[s \ {Chosen(s)}]]

Table(f, S) == CHOOSE g : IsTable(f, S, g)

LEMMA SmallestSubset ==
    ASSUME NEW S, IsFiniteSet(S), NEW X \in SUBSET SUBSET S, X # {}
    PROVE  \E T \in X : \A U \in X : U \subseteq T => U = T
<1>1. FiniteSubsetsOf(S) = SUBSET S
  BY FS_FiniteSubsetsOfFinite
<1>2. IsWellFoundedOn(StrictSubsetOrdering(S), FiniteSubsetsOf(S))
  BY FS_StrictSubsetOrderingWellFounded
<1>3. \E T \in X : \A U \in X : ~ (<<U, T>> \in StrictSubsetOrdering(S))
  BY <1>1, <1>2, WFMin
<1> QED BY <1>3 DEF StrictSubsetOrdering

LEMMA SumIsTable ==
    ASSUME NEW f, NEW S
    PROVE  SumFunctionOnSet(f, S) = Table(f, S)[S]
BY DEF SumFunctionOnSet, FoldFunctionOnSet, MapThenFoldSet, Table, IsTable, Chosen

LEMMA ChosenIn == ASSUME NEW s, s # {} PROVE Chosen(s) \in s
BY DEF Chosen

LEMMA TablesAgree ==
    ASSUME NEW f, NEW S, IsFiniteSet(S), NEW T \in SUBSET S,
           NEW g, IsTable(f, S, g), NEW h, IsTable(f, T, h)
    PROVE  \A u \in SUBSET T : g[u] = h[u]
<1> DEFINE X == {u \in SUBSET T : g[u] # h[u]}
<1> SUFFICES ASSUME X # {} PROVE FALSE
  OBVIOUS
<1>0. X \in SUBSET SUBSET S
  OBVIOUS
<1>1. PICK u \in X : \A v \in X : v \subseteq u => v = u
  <2> HIDE DEF X
  <2> QED BY <1>0, SmallestSubset
<1>2. \A s \in SUBSET S : g[s] = IF s = {} THEN 0 ELSE f[Chosen(s)] + g[s \ {Chosen(s)}]
  BY DEF IsTable
<1>3. \A s \in SUBSET T : h[s] = IF s = {} THEN 0 ELSE f[Chosen(s)] + h[s \ {Chosen(s)}]
  BY DEF IsTable
<1>4. u \in SUBSET T /\ u \in SUBSET S /\ g[u] # h[u] /\ u # {}
  BY <1>2, <1>3
<1>5. g[u \ {Chosen(u)}] = h[u \ {Chosen(u)}]
  BY <1>1, <1>4, ChosenIn
<1> QED BY <1>2, <1>3, <1>4, <1>5

LEMMA TableExists ==
    ASSUME NEW f, NEW S, IsFiniteSet(S)
    PROVE  IsTable(f, S, Table(f, S))
<1> DEFINE X == {T \in SUBSET S : ~ IsTable(f, T, Table(f, T))}
<1> SUFFICES ASSUME X # {} PROVE FALSE
  OBVIOUS
<1>0. X \in SUBSET SUBSET S
  OBVIOUS
<1>1. PICK T \in X : \A U \in X : U \subseteq T => U = T
  <2> HIDE DEF X
  <2> QED BY <1>0, SmallestSubset
<1>2. \A U \in SUBSET T : U # T => IsTable(f, U, Table(f, U))
  BY <1>1
<1>3. IsFiniteSet(T) /\ \A U \in SUBSET T : IsFiniteSet(U)
  BY FS_Subset
<1> DEFINE step(s) == f[Chosen(s)] + Table(f, s \ {Chosen(s)})[s \ {Chosen(s)}]
           g == [s \in SUBSET T |-> IF s = {} THEN 0 ELSE step(s)]
<1>4. ASSUME NEW s \in SUBSET T, s # T PROVE g[s] = Table(f, s)[s]
  <2>1. Table(f, s) = [u \in SUBSET s |-> IF u = {} THEN 0 ELSE f[Chosen(u)] + Table(f, s)[u \ {Chosen(u)}]]
    BY <1>2, <1>4 DEF IsTable
  <2>2. CASE s = {}
    BY <2>1, <2>2
  <2>3. CASE s # {}
    <3> DEFINE u == s \ {Chosen(s)}
    <3>1. u \in SUBSET s /\ u # s /\ u \in SUBSET T /\ u # T
      BY <2>3, ChosenIn
    <3>2. Table(f, s)[u] = Table(f, u)[u]
      BY <1>2, <1>3, <1>4, <3>1, TablesAgree
    <3> QED BY <2>1, <2>3, <3>2
  <2> QED BY <2>2, <2>3
<1>5. ASSUME NEW s \in SUBSET T, s # {} PROVE g[s] = f[Chosen(s)] + g[s \ {Chosen(s)}]
  <2>1. s \ {Chosen(s)} \in SUBSET T /\ s \ {Chosen(s)} # T
    BY <1>5, ChosenIn
  <2>2. g[s \ {Chosen(s)}] = Table(f, s \ {Chosen(s)})[s \ {Chosen(s)}]
    BY <1>4, <2>1
  <2> HIDE DEF g
  <2>3. g[s] = step(s)
    BY <1>5 DEF g
  <2> QED BY <2>2, <2>3
<1>6. IsTable(f, T, g)
  <2>1. g[{}] = 0
    OBVIOUS
  <2>2. g = [s \in SUBSET T |-> g[s]]
    OBVIOUS
  <2> HIDE DEF g
  <2> QED BY <1>5, <2>1, <2>2 DEF IsTable
<1>7. IsTable(f, T, Table(f, T))
  BY <1>6 DEF Table
<1> QED BY <1>1, <1>7

-----------------------------------------------------------------------------
LEMMA SumEmpty == ASSUME NEW f PROVE SumFunctionOnSet(f, {}) = 0
<1>1. IsTable(f, {}, Table(f, {}))
  BY FS_EmptySet, TableExists
<1> QED BY <1>1, SumIsTable DEF IsTable

LEMMA SumStep ==
    ASSUME NEW f, NEW S, IsFiniteSet(S), S # {}
    PROVE  SumFunctionOnSet(f, S) = f[Chosen(S)] + SumFunctionOnSet(f, S \ {Chosen(S)})
<1> DEFINE T == S \ {Chosen(S)}
<1>1. T \in SUBSET S /\ IsFiniteSet(T)
  BY FS_Subset
<1>2. IsTable(f, S, Table(f, S)) /\ IsTable(f, T, Table(f, T))
  BY <1>1, TableExists
<1>3. Table(f, S)[T] = Table(f, T)[T]
  <2>1. T \in SUBSET T
    OBVIOUS
  <2> HIDE DEF T
  <2> QED BY <1>1, <1>2, <2>1, TablesAgree
<1>4. Table(f, S)[S] = f[Chosen(S)] + Table(f, S)[T]
  BY <1>2 DEF IsTable
<1> QED BY <1>3, <1>4, SumIsTable

LEMMA SumIsInt ==
    ASSUME NEW S, IsFiniteSet(S), NEW f, \A x \in S : f[x] \in Int
    PROVE  SumFunctionOnSet(f, S) \in Int
<1> DEFINE X == {T \in SUBSET S : SumFunctionOnSet(f, T) \notin Int}
<1> SUFFICES ASSUME X # {} PROVE FALSE
  OBVIOUS
<1>0. X \in SUBSET SUBSET S
  OBVIOUS
<1>1. PICK T \in X : \A U \in X : U \subseteq T => U = T
  <2> HIDE DEF X
  <2> QED BY <1>0, SmallestSubset
<1>2. T # {} /\ IsFiniteSet(T) /\ T \in SUBSET S
  <2>1. SumFunctionOnSet(f, {}) = 0
    BY SumEmpty
  <2>2. T \in SUBSET S
    OBVIOUS
  <2>3. T # {}
    BY <2>1
  <2> QED BY <2>2, <2>3, FS_Subset
<1>3. Chosen(T) \in T
  BY <1>2, ChosenIn
<1>4. SumFunctionOnSet(f, T \ {Chosen(T)}) \in Int
  BY <1>1, <1>3
<1> QED BY <1>2, <1>3, <1>4, SumStep

LEMMA SumRemove ==
    ASSUME NEW S, IsFiniteSet(S), NEW f, \A x \in S : f[x] \in Int, NEW x \in S
    PROVE  SumFunctionOnSet(f, S) = f[x] + SumFunctionOnSet(f, S \ {x})
<1> DEFINE Sum(T) == SumFunctionOnSet(f, T)
           X == {T \in SUBSET S : \E y \in T : Sum(T) # f[y] + Sum(T \ {y})}
<1> SUFFICES ASSUME X # {} PROVE FALSE
  OBVIOUS
<1>0. X \in SUBSET SUBSET S
  OBVIOUS
<1>1. PICK T \in X : \A U \in X : U \subseteq T => U = T
  <2> HIDE DEF X
  <2> QED BY <1>0, SmallestSubset
<1>2. PICK y \in T : Sum(T) # f[y] + Sum(T \ {y})
  OBVIOUS
<1> DEFINE c == Chosen(T)
<1>3. IsFiniteSet(T) /\ c \in T /\ T \in SUBSET S
  BY FS_Subset, ChosenIn
<1>4. Sum(T) = f[c] + Sum(T \ {c})
  BY <1>3, SumStep
<1>5. c # y
  BY <1>2, <1>4
<1>6. /\ T \ {c} \notin X /\ T \ {y} \notin X
      /\ T \ {c} \in SUBSET S /\ T \ {y} \in SUBSET S /\ y \in T \ {c} /\ c \in T \ {y}
  BY <1>1, <1>3, <1>5
<1> DEFINE U == (T \ {y}) \ {c}
<1>7. Sum(T \ {c}) = f[y] + Sum(U) /\ Sum(T \ {y}) = f[c] + Sum(U)
  <2>1. (T \ {c}) \ {y} = U
    OBVIOUS
  <2>2. Sum(T \ {c}) = f[y] + Sum((T \ {c}) \ {y})
    BY <1>6
  <2>3. Sum(T \ {y}) = f[c] + Sum(U)
    BY <1>6
  <2> HIDE DEF U, Sum
  <2> QED BY <2>1, <2>2, <2>3
<1>8. f[c] \in Int /\ f[y] \in Int /\ Sum(U) \in Int
  <2>1. IsFiniteSet(U) /\ \A z \in U : f[z] \in Int
    BY <1>3, FS_Subset
  <2>2. Sum(U) \in Int
    <3> HIDE DEF U
    <3> QED BY <2>1, SumIsInt
  <2> QED BY <1>2, <1>3, <2>2
<1> HIDE DEF Sum, c, X, U
<1>9. Sum(T) = f[y] + Sum(T \ {y})
  BY <1>4, <1>7, <1>8
<1> QED BY <1>2, <1>9

LEMMA SumAdd ==
    ASSUME NEW S, IsFiniteSet(S), NEW x, x \notin S, NEW f, \A y \in S \cup {x} : f[y] \in Int
    PROVE  SumFunctionOnSet(f, S \cup {x}) = f[x] + SumFunctionOnSet(f, S)
<1>1. IsFiniteSet(S \cup {x}) /\ (S \cup {x}) \ {x} = S
  BY FS_AddElement
<1> QED BY <1>1, SumRemove

\* What bounds a function on a set bounds its sum; what it is elsewhere does not matter.
LEMMA SumMonotonic ==
    ASSUME NEW S, IsFiniteSet(S), NEW f, NEW g,
           \A x \in S : f[x] \in Int /\ g[x] \in Int /\ f[x] <= g[x]
    PROVE  SumFunctionOnSet(f, S) <= SumFunctionOnSet(g, S)
<1> DEFINE X == {T \in SUBSET S : ~ (SumFunctionOnSet(f, T) <= SumFunctionOnSet(g, T))}
<1> SUFFICES ASSUME X # {} PROVE FALSE
  OBVIOUS
<1>0. X \in SUBSET SUBSET S
  OBVIOUS
<1>1. PICK T \in X : \A U \in X : U \subseteq T => U = T
  <2> HIDE DEF X
  <2> QED BY <1>0, SmallestSubset
<1>2. T # {} /\ IsFiniteSet(T) /\ T \in SUBSET S
  <2>1. SumFunctionOnSet(f, {}) = 0 /\ SumFunctionOnSet(g, {}) = 0
    BY SumEmpty
  <2>2. T \in SUBSET S
    OBVIOUS
  <2>3. T # {}
    BY <2>1
  <2> QED BY <2>2, <2>3, FS_Subset
<1>3. Chosen(T) \in T /\ IsFiniteSet(T \ {Chosen(T)})
  BY <1>2, ChosenIn, FS_Subset
<1>4. SumFunctionOnSet(f, T \ {Chosen(T)}) <= SumFunctionOnSet(g, T \ {Chosen(T)})
  BY <1>1, <1>3
<1>5. /\ SumFunctionOnSet(f, T \ {Chosen(T)}) \in Int /\ SumFunctionOnSet(g, T \ {Chosen(T)}) \in Int
  BY <1>2, <1>3, SumIsInt
<1>6. /\ SumFunctionOnSet(f, T) = f[Chosen(T)] + SumFunctionOnSet(f, T \ {Chosen(T)})
      /\ SumFunctionOnSet(g, T) = g[Chosen(T)] + SumFunctionOnSet(g, T \ {Chosen(T)})
  BY <1>2, SumStep
<1> QED BY <1>2, <1>3, <1>4, <1>5, <1>6

LEMMA SumAgree ==
    ASSUME NEW S, IsFiniteSet(S), NEW f, NEW g, \A x \in S : f[x] \in Int /\ g[x] = f[x]
    PROVE  SumFunctionOnSet(f, S) = SumFunctionOnSet(g, S)
<1>1. /\ SumFunctionOnSet(f, S) <= SumFunctionOnSet(g, S) /\ SumFunctionOnSet(g, S) <= SumFunctionOnSet(f, S)
      /\ SumFunctionOnSet(f, S) \in Int /\ SumFunctionOnSet(g, S) \in Int
  BY SumMonotonic, SumIsInt
<1> QED BY <1>1

LEMMA SumChange ==
    ASSUME NEW S, IsFiniteSet(S), NEW x \in S, NEW f, NEW g,
           \A y \in S : f[y] \in Int /\ g[y] \in Int /\ (y # x => g[y] = f[y])
    PROVE  SumFunctionOnSet(g, S) = SumFunctionOnSet(f, S) - f[x] + g[x]
<1>1. IsFiniteSet(S \ {x})
  BY FS_Subset
<1>2. SumFunctionOnSet(f, S \ {x}) = SumFunctionOnSet(g, S \ {x})
  BY <1>1, SumAgree
<1>3. /\ SumFunctionOnSet(f, S) = f[x] + SumFunctionOnSet(f, S \ {x})
      /\ SumFunctionOnSet(g, S) = g[x] + SumFunctionOnSet(g, S \ {x})
  BY SumRemove
<1>4. SumFunctionOnSet(f, S \ {x}) \in Int
  BY <1>1, SumIsInt
<1> QED BY <1>2, <1>3, <1>4

LEMMA SumOfZeros ==
    ASSUME NEW S, IsFiniteSet(S), NEW f, \A x \in S : f[x] = 0
    PROVE  SumFunctionOnSet(f, S) = 0
<1> DEFINE X == {T \in SUBSET S : SumFunctionOnSet(f, T) # 0}
<1> SUFFICES ASSUME X # {} PROVE FALSE
  OBVIOUS
<1>0. X \in SUBSET SUBSET S
  OBVIOUS
<1>1. PICK T \in X : \A U \in X : U \subseteq T => U = T
  <2> HIDE DEF X
  <2> QED BY <1>0, SmallestSubset
<1>2. T # {} /\ IsFiniteSet(T) /\ T \in SUBSET S
  <2>1. SumFunctionOnSet(f, {}) = 0
    BY SumEmpty
  <2>2. T \in SUBSET S
    OBVIOUS
  <2>3. T # {}
    BY <2>1
  <2> QED BY <2>2, <2>3, FS_Subset
<1>3. Chosen(T) \in T
  BY <1>2, ChosenIn
<1>4. SumFunctionOnSet(f, T \ {Chosen(T)}) = 0
  BY <1>1, <1>3
<1> QED BY <1>2, <1>3, <1>4, SumStep

LEMMA SumIsNat ==
    ASSUME NEW S, IsFiniteSet(S), NEW f, \A x \in S : f[x] \in Nat
    PROVE  SumFunctionOnSet(f, S) \in Nat
<1> DEFINE z == [x \in S |-> 0]
<1>1. SumFunctionOnSet(z, S) = 0
  BY SumOfZeros
<1>2. SumFunctionOnSet(z, S) <= SumFunctionOnSet(f, S)
  <2>1. \A x \in S : z[x] \in Int /\ f[x] \in Int /\ z[x] <= f[x]
    OBVIOUS
  <2> HIDE DEF z
  <2> QED BY <2>1, SumMonotonic
<1>3. SumFunctionOnSet(f, S) \in Int
  BY SumIsInt
<1> HIDE DEF z
<1> QED BY <1>1, <1>2, <1>3

\* A part of what is counted in naturals is not more than all of it.
LEMMA SumOfPart ==
    ASSUME NEW S, IsFiniteSet(S), NEW T \in SUBSET S, NEW f, \A x \in S : f[x] \in Nat
    PROVE  SumFunctionOnSet(f, T) <= SumFunctionOnSet(f, S)
<1> DEFINE X == {U \in SUBSET S : T \subseteq U /\ ~ (SumFunctionOnSet(f, T) <= SumFunctionOnSet(f, U))}
<1> SUFFICES ASSUME X # {} PROVE FALSE
  OBVIOUS
<1>0. X \in SUBSET SUBSET S
  OBVIOUS
<1>1. PICK U \in X : \A V \in X : V \subseteq U => V = U
  <2> HIDE DEF X
  <2> QED BY <1>0, SmallestSubset
<1>2. IsFiniteSet(U) /\ IsFiniteSet(T) /\ U \in SUBSET S /\ T \subseteq U
  BY FS_Subset
<1>3. SumFunctionOnSet(f, T) \in Int
  BY <1>2, SumIsInt
<1>4. PICK x \in U : x \notin T
  <2>1. SumFunctionOnSet(f, T) # SumFunctionOnSet(f, U)
    BY <1>3
  <2>2. T # U
    BY <2>1
  <2> QED BY <1>2, <2>2
<1>5. SumFunctionOnSet(f, T) <= SumFunctionOnSet(f, U \ {x})
  BY <1>1, <1>2, <1>4
<1>6. SumFunctionOnSet(f, U) = f[x] + SumFunctionOnSet(f, U \ {x}) /\ SumFunctionOnSet(f, U \ {x}) \in Int
  <2>1. IsFiniteSet(U \ {x})
    BY <1>2, FS_Subset
  <2> QED BY <1>2, <2>1, SumRemove, SumIsInt
<1> QED BY <1>2, <1>3, <1>5, <1>6

\* What is summed over a part is summed over the whole with zero elsewhere.
LEMMA SumElsewhereZero ==
    ASSUME NEW S, IsFiniteSet(S), NEW T \in SUBSET S, NEW f, \A x \in T : f[x] \in Int,
           NEW g, \A x \in S : g[x] = IF x \in T THEN f[x] ELSE 0
    PROVE  SumFunctionOnSet(g, S) = SumFunctionOnSet(f, T)
<1> DEFINE X == {U \in SUBSET S : SumFunctionOnSet(g, U) # SumFunctionOnSet(f, U \cap T)}
<1> SUFFICES ASSUME X # {} PROVE FALSE
  <2>1. S \cap T = T
    OBVIOUS
  <2> QED BY <2>1
<1>0. X \in SUBSET SUBSET S
  OBVIOUS
<1>1. PICK U \in X : \A V \in X : V \subseteq U => V = U
  <2> HIDE DEF X
  <2> QED BY <1>0, SmallestSubset
<1>2. U \in SUBSET S /\ U # {}
  <2>1. {} \cap T = {}
    OBVIOUS
  <2> QED BY <2>1, SumEmpty
<1>3. PICK x \in U : TRUE
  BY <1>2
<1> DEFINE V == U \ {x}
<1>4. IsFiniteSet(U) /\ IsFiniteSet(V) /\ IsFiniteSet(U \cap T) /\ IsFiniteSet(V \cap T)
  BY <1>2, FS_Subset
<1>5. SumFunctionOnSet(g, V) = SumFunctionOnSet(f, V \cap T)
  BY <1>1, <1>2, <1>3
<1>6. SumFunctionOnSet(g, U) = g[x] + SumFunctionOnSet(g, V)
  BY <1>2, <1>3, <1>4, SumRemove
<1>7. SumFunctionOnSet(f, V \cap T) \in Int
  BY <1>4, SumIsInt
<1>8. CASE x \in T
  <2>1. (U \cap T) \ {x} = V \cap T /\ x \in U \cap T /\ \A y \in U \cap T : f[y] \in Int
    BY <1>3, <1>8
  <2>2. SumFunctionOnSet(f, U \cap T) = f[x] + SumFunctionOnSet(f, V \cap T)
    BY <1>4, <2>1, SumRemove
  <2> QED BY <1>1, <1>2, <1>3, <1>5, <1>6, <1>8, <2>2
<1>9. CASE x \notin T
  <2>1. U \cap T = V \cap T /\ g[x] = 0
    BY <1>2, <1>3, <1>9
  <2>2. SumFunctionOnSet(g, U) = SumFunctionOnSet(f, U \cap T)
    <3>1. \A m, k : k \in Int /\ m = 0 + k => m = k
      OBVIOUS
    <3> QED BY <1>5, <1>6, <1>7, <2>1, <3>1
  <2> QED BY <1>1, <2>2
<1> QED BY <1>8, <1>9

LEMMA SumPlus ==
    ASSUME NEW S, IsFiniteSet(S), NEW f, NEW g, NEW h,
           \A x \in S : f[x] \in Int /\ g[x] \in Int /\ h[x] = f[x] + g[x]
    PROVE  SumFunctionOnSet(h, S) = SumFunctionOnSet(f, S) + SumFunctionOnSet(g, S)
<1> DEFINE Sum(k, T) == SumFunctionOnSet(k, T)
           X == {U \in SUBSET S : Sum(h, U) # Sum(f, U) + Sum(g, U)}
<1> SUFFICES ASSUME X # {} PROVE FALSE
  OBVIOUS
<1>0. X \in SUBSET SUBSET S
  OBVIOUS
<1>1. PICK U \in X : \A V \in X : V \subseteq U => V = U
  <2> HIDE DEF X
  <2> QED BY <1>0, SmallestSubset
<1>2. U \in SUBSET S /\ U # {}
  <2>1. Sum(h, {}) = 0 /\ Sum(f, {}) = 0 /\ Sum(g, {}) = 0
    BY SumEmpty
  <2>2. Sum(h, {}) = Sum(f, {}) + Sum(g, {})
    <3> HIDE DEF Sum
    <3> QED BY <2>1
  <2> QED BY <2>2
<1>3. PICK x \in U : TRUE
  BY <1>2
<1> DEFINE V == U \ {x}
<1>4. IsFiniteSet(U) /\ IsFiniteSet(V)
  BY <1>2, FS_Subset
<1>5. Sum(h, V) = Sum(f, V) + Sum(g, V)
  BY <1>1, <1>2, <1>3
<1>6. Sum(h, U) = h[x] + Sum(h, V) /\ Sum(f, U) = f[x] + Sum(f, V) /\ Sum(g, U) = g[x] + Sum(g, V)
  BY <1>2, <1>3, <1>4, SumRemove
<1>7. Sum(f, V) \in Int /\ Sum(g, V) \in Int /\ f[x] \in Int /\ g[x] \in Int /\ h[x] = f[x] + g[x]
  BY <1>2, <1>3, <1>4, SumIsInt
<1>8. Sum(h, U) = Sum(f, U) + Sum(g, U)
  <2> HIDE DEF Sum, V
  <2> QED BY <1>5, <1>6, <1>7
<1> QED BY <1>1, <1>8

LEMMA ShortFinite == IsFiniteSet(1..2) /\ IsFiniteSet(1..3) /\ IsFiniteSet(1..4)
<1>1. IsFiniteSet({1})
  BY FS_Singleton
<1>2. IsFiniteSet({1} \cup {2}) /\ IsFiniteSet(({1} \cup {2}) \cup {3}) /\ IsFiniteSet((({1} \cup {2}) \cup {3}) \cup {4})
  BY <1>1, FS_AddElement
<1>3. 1..2 = {1} \cup {2} /\ 1..3 = ({1} \cup {2}) \cup {3} /\ 1..4 = (({1} \cup {2}) \cup {3}) \cup {4}
  OBVIOUS
<1> QED BY <1>2, <1>3

\* The sums of short sequences.
LEMMA SumOfTwo ==
    ASSUME NEW f, f[1] \in Int, f[2] \in Int
    PROVE  SumFunctionOnSet(f, 1..2) = f[1] + f[2]
<1>1. IsFiniteSet({1}) /\ IsFiniteSet({})
  BY FS_EmptySet, FS_Singleton
<1>2. SumFunctionOnSet(f, {} \cup {1}) = f[1] + SumFunctionOnSet(f, {})
  <2>1. \A y \in {} \cup {1} : f[y] \in Int
    OBVIOUS
  <2> QED BY <1>1, <2>1, SumAdd
<1>3. SumFunctionOnSet(f, {1} \cup {2}) = f[2] + SumFunctionOnSet(f, {1})
  <2>1. \A y \in {1} \cup {2} : f[y] \in Int
    OBVIOUS
  <2>2. 2 \notin {1}
    OBVIOUS
  <2> QED BY <1>1, <2>1, <2>2, SumAdd
<1>4. SumFunctionOnSet(f, {}) = 0
  BY SumEmpty
<1>5. 1..2 = {1} \cup {2}
  OBVIOUS
<1>6. {1} = {} \cup {1}
  OBVIOUS
<1>7. SumFunctionOnSet(f, {1}) = f[1] + 0
  BY <1>2, <1>4, <1>6
<1>8. SumFunctionOnSet(f, 1..2) = f[2] + SumFunctionOnSet(f, {1})
  BY <1>3, <1>5
<1> QED BY <1>7, <1>8

LEMMA SumOfThree ==
    ASSUME NEW f, f[1] \in Int, f[2] \in Int, f[3] \in Int
    PROVE  SumFunctionOnSet(f, 1..3) = f[1] + f[2] + f[3]
<1>1. SumFunctionOnSet(f, 1..2) = f[1] + f[2]
  BY SumOfTwo
<1>2. 1..3 = (1..2) \cup {3} /\ 3 \notin 1..2 /\ \A y \in (1..2) \cup {3} : f[y] \in Int
  OBVIOUS
<1>3. SumFunctionOnSet(f, (1..2) \cup {3}) = f[3] + SumFunctionOnSet(f, 1..2)
  <2>1. IsFiniteSet(1..2)
    BY ShortFinite
  <2> QED BY <1>2, <2>1, SumAdd
<1>4. SumFunctionOnSet(f, 1..3) = f[3] + SumFunctionOnSet(f, 1..2)
  BY <1>2, <1>3
<1> QED BY <1>1, <1>4

LEMMA SumOfFive ==
    ASSUME NEW f, f[1] \in Int, f[2] \in Int, f[3] \in Int, f[4] \in Int, f[5] \in Int
    PROVE  SumFunctionOnSet(f, 1..5) = f[1] + f[2] + f[3] + f[4] + f[5]
<1>1. SumFunctionOnSet(f, 1..3) = f[1] + f[2] + f[3]
  BY SumOfThree
<1>2. /\ 1..4 = (1..3) \cup {4} /\ 4 \notin 1..3 /\ \A y \in (1..3) \cup {4} : f[y] \in Int
      /\ 1..5 = (1..4) \cup {5} /\ 5 \notin 1..4 /\ \A y \in (1..4) \cup {5} : f[y] \in Int
  OBVIOUS
<1>3. SumFunctionOnSet(f, (1..3) \cup {4}) = f[4] + SumFunctionOnSet(f, 1..3)
  <2>1. IsFiniteSet(1..3)
    BY ShortFinite
  <2> QED BY <1>2, <2>1, SumAdd
<1>4. SumFunctionOnSet(f, (1..4) \cup {5}) = f[5] + SumFunctionOnSet(f, 1..4)
  <2>1. IsFiniteSet(1..4)
    BY ShortFinite
  <2> QED BY <1>2, <2>1, SumAdd
<1>5. /\ SumFunctionOnSet(f, 1..4) = f[4] + SumFunctionOnSet(f, 1..3)
      /\ SumFunctionOnSet(f, 1..5) = f[5] + SumFunctionOnSet(f, 1..4)
  BY <1>2, <1>3, <1>4
<1> QED BY <1>1, <1>5

\* A sum of which one term more is taken.
LEMMA SumExtended ==
    ASSUME NEW S, IsFiniteSet(S), NEW x, x \notin S, NEW f, NEW g, DOMAIN f = S \cup {x}, DOMAIN g = S,
           f[x] \in Int, \A y \in S : f[y] \in Int /\ g[y] = f[y]
    PROVE  SumFunction(f) = f[x] + SumFunction(g)
<1>1. SumFunction(f) = SumFunctionOnSet(f, S \cup {x}) /\ SumFunction(g) = SumFunctionOnSet(g, S)
  BY DEF SumFunction
<1>2. SumFunctionOnSet(f, S \cup {x}) = f[x] + SumFunctionOnSet(f, S)
  BY SumAdd
<1>3. SumFunctionOnSet(f, S) = SumFunctionOnSet(g, S)
  BY SumAgree
<1> QED BY <1>1, <1>2, <1>3

\* A table summed row by row, and column by column.
ByRows(F, S, U) == SumFunctionOnSet([x \in S |-> SumFunctionOnSet(F[x], U)], S)
ByColumns(F, S, T, U) == SumFunctionOnSet([y \in T |-> SumFunctionOnSet([x \in S |-> F[x][y]], S)], U)

LEMMA SumSwap ==
    ASSUME NEW S, IsFiniteSet(S), NEW T, IsFiniteSet(T), NEW F, \A x \in S : \A y \in T : F[x][y] \in Int
    PROVE  ByRows(F, S, T) = ByColumns(F, S, T, T)
<1> DEFINE C == [y \in T |-> SumFunctionOnSet([x \in S |-> F[x][y]], S)]
           Z == {U \in SUBSET T : ByRows(F, S, U) # ByColumns(F, S, T, U)}
<1>1. SUFFICES ASSUME Z # {} PROVE FALSE
  OBVIOUS
<1>2. PICK U \in Z : \A V \in Z : V \subseteq U => V = U
  <2> HIDE DEF Z
  <2>1. Z \in SUBSET SUBSET T
    BY DEF Z
  <2> QED BY <1>1, <2>1, SmallestSubset
<1>3. U \in SUBSET T /\ IsFiniteSet(U)
  BY FS_Subset
<1>4. \A y \in T : C[y] \in Int
  <2> TAKE y \in T
  <2> DEFINE g == [x \in S |-> F[x][y]]
  <2>1. \A x \in S : g[x] \in Int
    OBVIOUS
  <2>2. SumFunctionOnSet(g, S) \in Int
    <3> HIDE DEF g
    <3> QED BY <2>1, SumIsInt
  <2> QED BY <2>2
<1>5. CASE U = {}
  <2> DEFINE g == [x \in S |-> SumFunctionOnSet(F[x], {})]
  <2>1. \A x \in S : g[x] = 0
    BY SumEmpty
  <2>2. SumFunctionOnSet(g, S) = 0
    <3> HIDE DEF g
    <3> QED BY <2>1, SumOfZeros
  <2>3. SumFunctionOnSet(C, {}) = 0
    <3> HIDE DEF C
    <3> QED BY SumEmpty
  <2> QED BY <1>5, <2>2, <2>3 DEF ByRows, ByColumns
<1>6. CASE U # {}
  <2>1. PICK y \in U : TRUE
    BY <1>6
  <2> DEFINE V == U \ {y}
  <2>2. V \in SUBSET T /\ V # U /\ V \subseteq U /\ y \in T
    BY <1>3, <2>1
  <2>3. ByRows(F, S, V) = ByColumns(F, S, T, V)
    BY <1>2, <2>2
  <2> DEFINE f == [x \in S |-> F[x][y]]
             g == [x \in S |-> SumFunctionOnSet(F[x], V)]
             h == [x \in S |-> SumFunctionOnSet(F[x], U)]
  <2>4. \A x \in S : f[x] \in Int /\ g[x] \in Int /\ h[x] = f[x] + g[x]
    <3> TAKE x \in S
    <3>1. \A z \in U : F[x][z] \in Int
      BY <1>3
    <3>2. SumFunctionOnSet(F[x], U) = F[x][y] + SumFunctionOnSet(F[x], V)
      BY <1>3, <2>1, <3>1, SumRemove
    <3>3. IsFiniteSet(V) /\ \A z \in V : F[x][z] \in Int
      BY <1>3, <2>2, <3>1, FS_Subset
    <3>4. SumFunctionOnSet(F[x], V) \in Int
      <4> HIDE DEF V
      <4> QED BY <3>3, SumIsInt
    <3> QED BY <2>2, <3>2, <3>4
  <2>5. SumFunctionOnSet(h, S) = SumFunctionOnSet(f, S) + SumFunctionOnSet(g, S)
    <3> HIDE DEF f, g, h
    <3> QED BY <2>4, SumPlus
  <2>6. SumFunctionOnSet(C, U) = C[y] + SumFunctionOnSet(C, V)
    <3>1. \A z \in U : C[z] \in Int
      BY <1>3, <1>4
    <3> HIDE DEF C
    <3> QED BY <1>3, <2>1, <3>1, SumRemove
  <2>7. C[y] = SumFunctionOnSet(f, S)
    BY <2>2
  <2>8. ByRows(F, S, U) = SumFunctionOnSet(h, S) /\ ByRows(F, S, V) = SumFunctionOnSet(g, S)
    BY DEF ByRows
  <2>9. ByColumns(F, S, T, U) = SumFunctionOnSet(C, U) /\ ByColumns(F, S, T, V) = SumFunctionOnSet(C, V)
    BY DEF ByColumns
  <2>10. ByRows(F, S, U) = ByColumns(F, S, T, U)
    <3> HIDE DEF f, g, h, C, V
    <3> QED BY <2>3, <2>5, <2>6, <2>7, <2>8, <2>9
  <2> QED BY <1>2, <2>10
<1> QED BY <1>5, <1>6
===============================================================================
