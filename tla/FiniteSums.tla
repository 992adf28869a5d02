----------------------------- MODULE FiniteSums -----------------------------
(***************************************************************************)
(* Facts about SumFunctionOnSet of the community module Functions, the     *)
(* fold the ledgers of this project are stated with: the sum over a finite *)
(* set does not depend on the order the fold takes its elements in, and    *)
(* moves with one element, with one value, with a union.  (And the least   *)
(* of some naturals, which the models take with CHOOSE.)                   *)
(*                                                                         *)
(* Every fact is proved by descent: a set of subsets of a finite set that  *)
(* is not empty has a member none of whose proper subsets is in it.        *)
(***************************************************************************)
EXTENDS Integers, FiniteSets, Functions, FiniteSetTheorems, TLAPS

(* The recursive function the fold is made of. *)
IsSum(it, f, S) ==
    it = [s \in SUBSET S |-> IF s = {} THEN 0
                             ELSE LET x == CHOOSE x \in s : TRUE IN f[x] + it[s \ {x}]]

(* Descent: the least of some subsets of a finite set. *)
LEMMA LeastSubset ==
    ASSUME NEW S, IsFiniteSet(S), NEW T, T \subseteq SUBSET S, T # {}
    PROVE  \E x \in T : \A y \in T : ~(y \subseteq x /\ y # x)
<1>1. IsWellFoundedOn(StrictSubsetOrdering(S), SUBSET S)
  BY FS_StrictSubsetOrderingWellFounded, FS_FiniteSubsetsOfFinite
<1>2. PICK x \in T : \A y \in T : ~(<<y, x>> \in StrictSubsetOrdering(S))
  BY <1>1, WFMin
<1> QED BY <1>2 DEF StrictSubsetOrdering

(* Naturals have a least one. *)
LEMMA Lowest ==
    ASSUME NEW T, T \subseteq Nat, T # {}
    PROVE  \E p \in T : \A q \in T : p <= q
<1> DEFINE R == OpToRel(<, Nat)
<1>1. IsWellFoundedOn(R, Nat) BY NatLessThanWellFounded
<1>2. \A x, y \in Nat : y < x => <<y, x>> \in R BY DEF OpToRel
<1> HIDE DEF R
<1>3. PICK p \in T : \A q \in T : ~ (<<q, p>> \in R) BY <1>1, WFMin
<1>4. \A q \in T : ~ (q < p) BY <1>2, <1>3
<1>5. \A q \in T : q \in Nat OBVIOUS
<1> QED BY <1>4, <1>5

(* The fold's recursion has at most one solution. *)
LEMMA OneSum ==
    ASSUME NEW f, NEW S, IsFiniteSet(S), NEW i, NEW j, IsSum(i, f, S), IsSum(j, f, S)
    PROVE  i = j
<1> DEFINE T == {s \in SUBSET S : i[s] # j[s]}
<1>1. ASSUME T # {} PROVE FALSE
  <2>1. PICK s \in T : \A y \in T : ~(y \subseteq s /\ y # s)
    <3> HIDE DEF T
    <3>1. T \subseteq SUBSET S BY DEF T
    <3> QED BY <1>1, <3>1, LeastSubset
  <2>2. s # {} BY <2>1 DEF IsSum
  <2> DEFINE x == CHOOSE x \in s : TRUE
  <2>3. x \in s BY <2>2
  <2> HIDE DEF x
  <2>4. s \ {x} \in SUBSET S /\ i[s \ {x}] = j[s \ {x}] BY <2>1, <2>3
  <2>5. i[s] = f[x] + i[s \ {x}] /\ j[s] = f[x] + j[s \ {x}] BY <2>1, <2>2 DEF IsSum, x
  <2> QED BY <2>1, <2>4, <2>5
<1>2. DOMAIN i = SUBSET S /\ DOMAIN j = SUBSET S BY DEF IsSum
<1>3. i = [s \in DOMAIN i |-> i[s]] /\ j = [s \in DOMAIN j |-> j[s]] BY DEF IsSum
<1> QED BY <1>1, <1>2, <1>3

(* A solution on a set is one on its subsets. *)
LEMMA SumOfPart ==
    ASSUME NEW f, NEW S, NEW i, IsSum(i, f, S), NEW U \in SUBSET S
    PROVE  IsSum([s \in SUBSET U |-> i[s]], f, U)
<1> DEFINE g == [s \in SUBSET U |-> i[s]]
<1> SUFFICES ASSUME NEW s \in SUBSET U
             PROVE  i[s] = IF s = {} THEN 0
                           ELSE LET x == CHOOSE x \in s : TRUE IN f[x] + g[s \ {x}]
  BY DEF IsSum
<1> QED BY DEF IsSum

(* The recursion has a solution. *)
LEMMA SumExists ==
    ASSUME NEW f, NEW S, IsFiniteSet(S)
    PROVE  \E i : IsSum(i, f, S)
<1> DEFINE Bad == {T \in SUBSET S : ~ \E i : IsSum(i, f, T)}
<1>1. ASSUME Bad # {} PROVE FALSE
  <2>1. PICK T \in Bad : \A y \in Bad : ~(y \subseteq T /\ y # T)
    <3> HIDE DEF Bad
    <3>1. Bad \subseteq SUBSET S BY DEF Bad
    <3> QED BY <1>1, <3>1, LeastSubset
  <2> DEFINE W(s) == CHOOSE i : IsSum(i, f, s)
  <2>2. \A s \in SUBSET T : s # T => IsSum(W(s), f, s) BY <2>1
  <2> HIDE DEF W
  <2> DEFINE G == [s \in SUBSET T |-> IF s = {} THEN 0
                      ELSE LET x == CHOOSE x \in s : TRUE IN f[x] + W(s \ {x})[s \ {x}]]
  <2>3. \A u \in SUBSET T : u # T => G[u] = W(u)[u]
    <3> SUFFICES ASSUME NEW u \in SUBSET T, u # T PROVE G[u] = W(u)[u] OBVIOUS
    <3>1. IsSum(W(u), f, u) BY <2>2
    <3>2. CASE u = {} BY <3>1, <3>2 DEF IsSum
    <3>3. CASE u # {}
      <4> DEFINE x == CHOOSE x \in u : TRUE  v == u \ {x}
      <4>1. x \in u BY <3>3
      <4>2. W(u)[u] = f[x] + W(u)[v] BY <3>1, <3>3 DEF IsSum
      <4>3. G[u] = f[x] + W(v)[v] BY <3>3
      <4> HIDE DEF x, G
      <4>4. IsSum([s \in SUBSET v |-> W(u)[s]], f, v) BY <3>1, SumOfPart
      <4>5. IsSum(W(v), f, v) BY <2>2, <4>1
      <4>6. IsFiniteSet(v)
        <5>1. v \in SUBSET S BY <2>1
        <5> QED BY <5>1, FS_Subset
      <4>7. W(v) = [s \in SUBSET v |-> W(u)[s]] BY <4>4, <4>5, <4>6, OneSum
      <4>8. W(v)[v] = W(u)[v] BY <4>7
      <4> QED BY <4>2, <4>3, <4>8
    <3> QED BY <3>2, <3>3
  <2>4. \A s \in SUBSET T : s # {} =>
           LET x == CHOOSE x \in s : TRUE IN G[s \ {x}] = W(s \ {x})[s \ {x}]
    <3> SUFFICES ASSUME NEW s \in SUBSET T, s # {}, NEW x, x = CHOOSE y \in s : TRUE
                 PROVE  G[s \ {x}] = W(s \ {x})[s \ {x}]
      OBVIOUS
    <3>1. x \in s OBVIOUS
    <3> HIDE DEF G
    <3>2. s \ {x} \in SUBSET T /\ s \ {x} # T BY <3>1
    <3> QED BY <3>2, <2>3
  <2>5. IsSum(G, f, T)
    <3>1. \A s \in SUBSET T :
             G[s] = IF s = {} THEN 0
                    ELSE LET x == CHOOSE x \in s : TRUE IN f[x] + W(s \ {x})[s \ {x}]
      OBVIOUS
    <3>2. G = [s \in SUBSET T |-> G[s]] OBVIOUS
    <3> HIDE DEF G
    <3>3. \A s \in SUBSET T :
             G[s] = IF s = {} THEN 0
                    ELSE LET x == CHOOSE x \in s : TRUE IN f[x] + G[s \ {x}]
      <4> SUFFICES ASSUME NEW s \in SUBSET T, s # {}, NEW x, x = CHOOSE y \in s : TRUE
                   PROVE  G[s] = f[x] + G[s \ {x}]
        BY <3>1
      <4>1. G[s] = f[x] + W(s \ {x})[s \ {x}] BY <3>1
      <4>2. G[s \ {x}] = W(s \ {x})[s \ {x}] BY <2>4
      <4> QED BY <4>1, <4>2
    <3> QED BY <3>2, <3>3 DEF IsSum
  <2> QED BY <2>1, <2>5
<1> QED BY <1>1, FS_Subset

(* The fold is its recursion's solution. *)
LEMMA SumIs ==
    ASSUME NEW f, NEW S, IsFiniteSet(S)
    PROVE  \E i : IsSum(i, f, S) /\ SumFunctionOnSet(f, S) = i[S]
<1> DEFINE it == CHOOSE it : IsSum(it, f, S)
<1>1. IsSum(it, f, S) BY SumExists
<1>2. SumFunctionOnSet(f, S) = it[S]
  BY Zenon DEF IsSum, SumFunctionOnSet, FoldFunctionOnSet, MapThenFoldSet
<1> QED BY <1>1, <1>2

-----------------------------------------------------------------------------
(* The sum over nothing. *)
LEMMA SumEmpty == ASSUME NEW f PROVE SumFunctionOnSet(f, {}) = 0
<1>1. PICK i : IsSum(i, f, {}) /\ SumFunctionOnSet(f, {}) = i[{}] BY SumIs, FS_EmptySet
<1> QED BY <1>1 DEF IsSum

(* The fold takes one element, and goes on with the rest. *)
LEMMA SumStep ==
    ASSUME NEW f, NEW S, IsFiniteSet(S), S # {}
    PROVE  \E x \in S : SumFunctionOnSet(f, S) = f[x] + SumFunctionOnSet(f, S \ {x})
<1>1. PICK i : IsSum(i, f, S) /\ SumFunctionOnSet(f, S) = i[S] BY SumIs
<1> DEFINE x == CHOOSE x \in S : TRUE  U == S \ {x}
<1>2. x \in S OBVIOUS
<1>3. i[S] = f[x] + i[U] BY <1>1 DEF IsSum
<1> HIDE DEF x
<1>4. IsFiniteSet(U) BY FS_RemoveElement
<1>5. PICK j : IsSum(j, f, U) /\ SumFunctionOnSet(f, U) = j[U] BY <1>4, SumIs
<1>6. IsSum([s \in SUBSET U |-> i[s]], f, U)
  <2>1. U \in SUBSET S OBVIOUS
  <2> HIDE DEF U
  <2> QED BY <1>1, <2>1, SumOfPart
<1>7. j = [s \in SUBSET U |-> i[s]]
  <2> HIDE DEF U
  <2> QED BY <1>4, <1>5, <1>6, OneSum
<1>8. j[U] = i[U] BY <1>7
<1> QED BY <1>1, <1>2, <1>3, <1>5, <1>8

(* Sums of integers are integers, sums of naturals are naturals. *)
LEMMA SumInt ==
    ASSUME NEW f, NEW S, IsFiniteSet(S), \A x \in S : f[x] \in Int
    PROVE  SumFunctionOnSet(f, S) \in Int
<1> DEFINE Bad == {T \in SUBSET S : SumFunctionOnSet(f, T) \notin Int}
<1>1. ASSUME Bad # {} PROVE FALSE
  <2>1. PICK T \in Bad : \A y \in Bad : ~(y \subseteq T /\ y # T)
    <3> HIDE DEF Bad
    <3>1. Bad \subseteq SUBSET S BY DEF Bad
    <3> QED BY <1>1, <3>1, LeastSubset
  <2>2. T # {}
    <3>1. SumFunctionOnSet(f, {}) = 0 BY SumEmpty
    <3>2. SumFunctionOnSet(f, T) \notin Int BY <2>1
    <3> QED BY <3>1, <3>2
  <2>3. PICK x \in T : SumFunctionOnSet(f, T) = f[x] + SumFunctionOnSet(f, T \ {x})
    BY <2>2, SumStep, FS_Subset
  <2>4. T \ {x} \in SUBSET S /\ T \ {x} # T BY <2>3
  <2>5. SumFunctionOnSet(f, T \ {x}) \in Int BY <2>1, <2>4
  <2> QED BY <2>1, <2>3, <2>5
<1> QED BY <1>1, FS_Subset

LEMMA SumNat ==
    ASSUME NEW f, NEW S, IsFiniteSet(S), \A x \in S : f[x] \in Nat
    PROVE  SumFunctionOnSet(f, S) \in Nat
<1> DEFINE Bad == {T \in SUBSET S : SumFunctionOnSet(f, T) \notin Nat}
<1>1. ASSUME Bad # {} PROVE FALSE
  <2>1. PICK T \in Bad : \A y \in Bad : ~(y \subseteq T /\ y # T)
    <3> HIDE DEF Bad
    <3>1. Bad \subseteq SUBSET S BY DEF Bad
    <3> QED BY <1>1, <3>1, LeastSubset
  <2>2. T # {}
    <3>1. SumFunctionOnSet(f, {}) = 0 BY SumEmpty
    <3> QED BY <2>1, <3>1
  <2>3. PICK x \in T : SumFunctionOnSet(f, T) = f[x] + SumFunctionOnSet(f, T \ {x})
    BY <2>2, SumStep, FS_Subset
  <2>4. T \ {x} \in SUBSET S /\ T \ {x} # T BY <2>3
  <2>5. SumFunctionOnSet(f, T \ {x}) \in Nat BY <2>1, <2>4
  <2> QED BY <2>1, <2>3, <2>5
<1> QED BY <1>1, FS_Subset

(* The order of the fold does not matter: any element can be the first one. *)
LEMMA SumWithout ==
    ASSUME NEW f, NEW S, IsFiniteSet(S), \A x \in S : f[x] \in Int, NEW y \in S
    PROVE  SumFunctionOnSet(f, S) = f[y] + SumFunctionOnSet(f, S \ {y})
<1> DEFINE Sum(T) == SumFunctionOnSet(f, T)
           Bad == {T \in SUBSET S : \E z \in T : Sum(T) # f[z] + Sum(T \ {z})}
<1>1. ASSUME Bad # {} PROVE FALSE
  <2>1. PICK T \in Bad : \A u \in Bad : ~(u \subseteq T /\ u # T)
    <3> HIDE DEF Bad
    <3>1. Bad \subseteq SUBSET S BY DEF Bad
    <3> QED BY <1>1, <3>1, LeastSubset
  <2>2. PICK z \in T : Sum(T) # f[z] + Sum(T \ {z}) BY <2>1
  <2>3. PICK x \in T : Sum(T) = f[x] + Sum(T \ {x}) BY <2>2, SumStep, FS_Subset
  <2>4. x # z BY <2>2, <2>3
  <2>5. Sum(T \ {x}) = f[z] + Sum((T \ {x}) \ {z})
    <3>1. T \ {x} \in SUBSET S /\ T \ {x} # T /\ z \in T \ {x} BY <2>4
    <3> QED BY <2>1, <3>1
  <2>6. Sum(T \ {z}) = f[x] + Sum((T \ {z}) \ {x})
    <3>1. T \ {z} \in SUBSET S /\ T \ {z} # T /\ x \in T \ {z} BY <2>4
    <3> QED BY <2>1, <3>1
  <2>7. (T \ {x}) \ {z} = (T \ {z}) \ {x} OBVIOUS
  <2>8. Sum((T \ {z}) \ {x}) \in Int
    <3> DEFINE U == (T \ {z}) \ {x}
    <3>1. U \in SUBSET S BY <2>1
    <3>2. IsFiniteSet(U) /\ \A u \in U : f[u] \in Int BY <3>1, FS_Subset
    <3> HIDE DEF U
    <3>3. SumFunctionOnSet(f, U) \in Int BY <3>2, SumInt
    <3> QED BY <3>3 DEF U
  <2>9. f[x] \in Int /\ f[z] \in Int BY <2>1
  <2> DEFINE c == Sum((T \ {z}) \ {x})
  <2>10. Sum(T) = f[x] + (f[z] + c) BY <2>3, <2>5, <2>7
  <2>11. f[z] + Sum(T \ {z}) = f[z] + (f[x] + c) BY <2>6
  <2>12. \A a, b, d \in Int : a + (b + d) = b + (a + d) OBVIOUS
  <2> HIDE DEF c
  <2>13. f[x] + (f[z] + c) = f[z] + (f[x] + c) BY <2>8, <2>9, <2>12 DEF c
  <2> QED BY <2>2, <2>10, <2>11, <2>13
<1>2. S \notin Bad BY <1>1
<1> QED BY <1>2

(* A new element. *)
LEMMA SumWith ==
    ASSUME NEW f, NEW S, IsFiniteSet(S), \A x \in S : f[x] \in Int,
           NEW y, y \notin S, f[y] \in Int
    PROVE  SumFunctionOnSet(f, S \cup {y}) = f[y] + SumFunctionOnSet(f, S)
<1> DEFINE T == S \cup {y}
<1>1. IsFiniteSet(T) BY FS_AddElement
<1>2. T \ {y} = S /\ y \in T /\ \A x \in T : f[x] \in Int OBVIOUS
<1> HIDE DEF T
<1>3. SumFunctionOnSet(f, T) = f[y] + SumFunctionOnSet(f, T \ {y}) BY <1>1, <1>2, SumWithout
<1> QED BY <1>2, <1>3 DEF T

(* Equal values, equal sums. *)
LEMMA SumSame ==
    ASSUME NEW f, NEW g, NEW S, IsFiniteSet(S),
           \A x \in S : f[x] \in Int /\ f[x] = g[x]
    PROVE  SumFunctionOnSet(f, S) = SumFunctionOnSet(g, S)
<1> DEFINE Bad == {T \in SUBSET S : SumFunctionOnSet(f, T) # SumFunctionOnSet(g, T)}
<1>1. ASSUME Bad # {} PROVE FALSE
  <2>1. PICK T \in Bad : \A u \in Bad : ~(u \subseteq T /\ u # T)
    <3> HIDE DEF Bad
    <3>1. Bad \subseteq SUBSET S BY DEF Bad
    <3> QED BY <1>1, <3>1, LeastSubset
  <2>2. T # {}
    <3>1. SumFunctionOnSet(f, {}) = 0 /\ SumFunctionOnSet(g, {}) = 0 BY SumEmpty
    <3> QED BY <2>1, <3>1
  <2>3. IsFiniteSet(T) BY <2>1, FS_Subset
  <2>4. PICK x \in T : SumFunctionOnSet(f, T) = f[x] + SumFunctionOnSet(f, T \ {x})
    BY <2>2, <2>3, SumStep
  <2>5. SumFunctionOnSet(g, T) = g[x] + SumFunctionOnSet(g, T \ {x})
    <3>1. \A u \in T : g[u] \in Int BY <2>1
    <3> QED BY <2>3, <3>1, SumWithout
  <2>6. T \ {x} \in SUBSET S /\ T \ {x} # T BY <2>4
  <2>7. SumFunctionOnSet(f, T \ {x}) = SumFunctionOnSet(g, T \ {x}) BY <2>1, <2>6
  <2>8. f[x] = g[x] BY <2>1
  <2> QED BY <2>1, <2>4, <2>5, <2>7, <2>8
<1> QED BY <1>1, FS_Subset

(* One value changes. *)
LEMMA SumChange ==
    ASSUME NEW f, NEW g, NEW S, IsFiniteSet(S), NEW y \in S,
           \A x \in S : f[x] \in Int /\ g[x] \in Int /\ (x # y => f[x] = g[x])
    PROVE  SumFunctionOnSet(g, S) = SumFunctionOnSet(f, S) - f[y] + g[y]
<1> DEFINE U == S \ {y}
<1>1. IsFiniteSet(U) /\ \A x \in U : f[x] \in Int /\ f[x] = g[x] BY FS_RemoveElement
<1>2. SumFunctionOnSet(f, S) = f[y] + SumFunctionOnSet(f, U) BY SumWithout
<1>3. SumFunctionOnSet(g, S) = g[y] + SumFunctionOnSet(g, U) BY SumWithout
<1> HIDE DEF U
<1>4. SumFunctionOnSet(f, U) = SumFunctionOnSet(g, U) /\ SumFunctionOnSet(f, U) \in Int
  BY <1>1, SumSame, SumInt
<1> QED BY <1>2, <1>3, <1>4

(* The values of two functions added. *)
LEMMA SumPlus ==
    ASSUME NEW f, NEW g, NEW h, NEW S, IsFiniteSet(S),
           \A x \in S : f[x] \in Int /\ g[x] \in Int /\ h[x] = f[x] + g[x]
    PROVE  SumFunctionOnSet(h, S) = SumFunctionOnSet(f, S) + SumFunctionOnSet(g, S)
<1> DEFINE Bad == {T \in SUBSET S : SumFunctionOnSet(h, T)
                                      # SumFunctionOnSet(f, T) + SumFunctionOnSet(g, T)}
<1>1. ASSUME Bad # {} PROVE FALSE
  <2>1. PICK T \in Bad : \A u \in Bad : ~(u \subseteq T /\ u # T)
    <3> HIDE DEF Bad
    <3>1. Bad \subseteq SUBSET S BY DEF Bad
    <3> QED BY <1>1, <3>1, LeastSubset
  <2>2. T # {}
    <3>1. SumFunctionOnSet(f, {}) = 0 /\ SumFunctionOnSet(g, {}) = 0 /\ SumFunctionOnSet(h, {}) = 0 BY SumEmpty
    <3>2. SumFunctionOnSet(h, T) # SumFunctionOnSet(f, T) + SumFunctionOnSet(g, T) BY <2>1
    <3>3. ASSUME T = {} PROVE SumFunctionOnSet(h, {}) # 0 + 0 BY Zenon, <3>1, <3>2, <3>3
    <3> QED BY <3>1, <3>3
  <2>3. IsFiniteSet(T) /\ \A x \in T : f[x] \in Int /\ g[x] \in Int /\ h[x] \in Int
    BY <2>1, FS_Subset
  <2>4. PICK x \in T : SumFunctionOnSet(h, T) = h[x] + SumFunctionOnSet(h, T \ {x})
    BY <2>2, <2>3, SumStep
  <2>5. SumFunctionOnSet(f, T) = f[x] + SumFunctionOnSet(f, T \ {x}) BY <2>3, SumWithout
  <2>6. SumFunctionOnSet(g, T) = g[x] + SumFunctionOnSet(g, T \ {x}) BY <2>3, SumWithout
  <2>7. T \ {x} \in SUBSET S /\ T \ {x} # T BY <2>4
  <2>8. SumFunctionOnSet(h, T \ {x})
          = SumFunctionOnSet(f, T \ {x}) + SumFunctionOnSet(g, T \ {x}) BY <2>1, <2>7
  <2>9. SumFunctionOnSet(f, T \ {x}) \in Int /\ SumFunctionOnSet(g, T \ {x}) \in Int
    <3>1. IsFiniteSet(T \ {x}) BY <2>3, FS_RemoveElement
    <3> QED BY <2>3, <3>1, SumInt
  <2>10. h[x] = f[x] + g[x] /\ f[x] \in Int /\ g[x] \in Int BY <2>1
  <2> QED BY <2>1, <2>4, <2>5, <2>6, <2>8, <2>9, <2>10
<1> QED BY <1>1, FS_Subset

(* Two sets that share nothing. *)
LEMMA SumUnion ==
    ASSUME NEW f, NEW S, NEW T, IsFiniteSet(S), IsFiniteSet(T), S \cap T = {},
           \A x \in S \cup T : f[x] \in Int
    PROVE  SumFunctionOnSet(f, S \cup T) = SumFunctionOnSet(f, S) + SumFunctionOnSet(f, T)
<1> DEFINE Both(U) == SumFunctionOnSet(f, S \cup U)
           Bad == {U \in SUBSET T : Both(U) # SumFunctionOnSet(f, S) + SumFunctionOnSet(f, U)}
<1>1. ASSUME Bad # {} PROVE FALSE
  <2>1. PICK U \in Bad : \A u \in Bad : ~(u \subseteq U /\ u # U)
    <3> HIDE DEF Bad
    <3>1. Bad \subseteq SUBSET T BY DEF Bad
    <3> QED BY <1>1, <3>1, LeastSubset
  <2>2. IsFiniteSet(U) /\ IsFiniteSet(S \cup U) BY <2>1, FS_Subset, FS_Union
  <2>3. SumFunctionOnSet(f, S) \in Int BY SumInt
  <2>4. U # {}
    <3>1. S \cup {} = S /\ SumFunctionOnSet(f, {}) = 0 BY SumEmpty
    <3>2. Both(U) # SumFunctionOnSet(f, S) + SumFunctionOnSet(f, U) BY <2>1
    <3>3. ASSUME U = {} PROVE SumFunctionOnSet(f, S) # SumFunctionOnSet(f, S) + 0
      BY Zenon, <3>1, <3>2, <3>3
    <3> QED BY <2>3, <3>3
  <2>5. PICK x \in U : TRUE BY <2>4
  <2> DEFINE V == U \ {x}
  <2>6. V \in SUBSET T /\ V # U /\ V \subseteq U /\ x \in S \cup U /\ (S \cup U) \ {x} = S \cup V
    BY <2>1, <2>5
  <2>7. SumFunctionOnSet(f, U) = f[x] + SumFunctionOnSet(f, V)
    <3>1. \A y \in U : f[y] \in Int BY <2>1
    <3> QED BY <2>2, <3>1, SumWithout
  <2>8. Both(U) = f[x] + Both(V)
    <3>1. \A y \in S \cup U : f[y] \in Int BY <2>1
    <3>2. Both(U) = f[x] + SumFunctionOnSet(f, (S \cup U) \ {x}) BY <2>2, <2>6, <3>1, SumWithout
    <3> QED BY Zenon, <2>6, <3>2
  <2>9. Both(V) = SumFunctionOnSet(f, S) + SumFunctionOnSet(f, V) BY <2>1, <2>6
  <2>10. f[x] \in Int /\ SumFunctionOnSet(f, V) \in Int
    <3>1. IsFiniteSet(V) /\ \A y \in V : f[y] \in Int BY <2>1, <2>2, FS_RemoveElement
    <3> HIDE DEF V
    <3> QED BY <2>1, <3>1, SumInt
  <2>11. Both(U) # SumFunctionOnSet(f, S) + SumFunctionOnSet(f, U) BY <2>1
  <2> HIDE DEF V, Both
  <2> QED BY <2>3, <2>7, <2>8, <2>9, <2>10, <2>11
<1> QED BY <1>1

(* Nothing to add. *)
LEMMA SumZero ==
    ASSUME NEW f, NEW S, IsFiniteSet(S), \A x \in S : f[x] = 0
    PROVE  SumFunctionOnSet(f, S) = 0
<1> DEFINE Bad == {T \in SUBSET S : SumFunctionOnSet(f, T) # 0}
<1>1. ASSUME Bad # {} PROVE FALSE
  <2>1. PICK T \in Bad : \A u \in Bad : ~(u \subseteq T /\ u # T)
    <3> HIDE DEF Bad
    <3>1. Bad \subseteq SUBSET S BY DEF Bad
    <3> QED BY <1>1, <3>1, LeastSubset
  <2>2. T # {}
    <3>1. SumFunctionOnSet(f, {}) = 0 BY SumEmpty
    <3> QED BY <2>1, <3>1
  <2>3. IsFiniteSet(T) BY <2>1, FS_Subset
  <2>4. PICK x \in T : SumFunctionOnSet(f, T) = f[x] + SumFunctionOnSet(f, T \ {x})
    BY <2>2, <2>3, SumStep
  <2>5. T \ {x} \in SUBSET S /\ T \ {x} # T BY <2>4
  <2>6. SumFunctionOnSet(f, T \ {x}) = 0 /\ f[x] = 0 BY <2>1, <2>5
  <2> QED BY <2>1, <2>4, <2>6
<1> QED BY <1>1

(* What adds nothing may be left out. *)
LEMMA SumOfSupport ==
    ASSUME NEW f, NEW S, NEW T, IsFiniteSet(S), T \subseteq S, \A x \in S : f[x] \in Int,
           \A x \in S : x \notin T => f[x] = 0
    PROVE  SumFunctionOnSet(f, S) = SumFunctionOnSet(f, T)
<1> DEFINE U == S \ T
<1>1. IsFiniteSet(T) /\ IsFiniteSet(U) /\ T \cap U = {} /\ T \cup U = S BY FS_Subset
<1>2. SumFunctionOnSet(f, U) = 0
  <2>1. \A x \in U : f[x] = 0 OBVIOUS
  <2> HIDE DEF U
  <2> QED BY <1>1, <2>1, SumZero
<1> HIDE DEF U
<1>3. SumFunctionOnSet(f, T \cup U) = SumFunctionOnSet(f, T) + SumFunctionOnSet(f, U)
  <2>1. \A x \in T \cup U : f[x] \in Int BY <1>1
  <2> QED BY <1>1, <2>1, SumUnion
<1>4. SumFunctionOnSet(f, T) \in Int
  <2>1. \A x \in T : f[x] \in Int OBVIOUS
  <2> QED BY <1>1, <2>1, SumInt
<1>5. SumFunctionOnSet(f, S) = SumFunctionOnSet(f, T) + SumFunctionOnSet(f, U) BY Zenon, <1>1, <1>3
<1> QED BY <1>2, <1>4, <1>5

(* Ones count. *)
LEMMA SumOnes ==
    ASSUME NEW f, NEW S, IsFiniteSet(S), \A x \in S : f[x] = 1
    PROVE  SumFunctionOnSet(f, S) = Cardinality(S)
<1> DEFINE Bad == {T \in SUBSET S : SumFunctionOnSet(f, T) # Cardinality(T)}
<1>1. ASSUME Bad # {} PROVE FALSE
  <2>1. PICK T \in Bad : \A y \in Bad : ~(y \subseteq T /\ y # T)
    <3> HIDE DEF Bad
    <3>1. Bad \subseteq SUBSET S BY DEF Bad
    <3> QED BY <1>1, <3>1, LeastSubset
  <2>2. T # {}
    <3>1. SumFunctionOnSet(f, {}) = 0 /\ Cardinality({}) = 0 BY SumEmpty, FS_EmptySet
    <3> QED BY <2>1, <3>1
  <2>3. IsFiniteSet(T) BY <2>1, FS_Subset
  <2>4. PICK x \in T : SumFunctionOnSet(f, T) = f[x] + SumFunctionOnSet(f, T \ {x})
    BY <2>2, <2>3, SumStep
  <2>5. T \ {x} \in SUBSET S /\ T \ {x} \notin Bad BY <2>1, <2>4
  <2>6. SumFunctionOnSet(f, T \ {x}) = Cardinality(T \ {x}) BY <2>5
  <2>7. Cardinality(T \ {x}) = Cardinality(T) - 1 /\ Cardinality(T) \in Nat
    BY <2>3, <2>4, FS_RemoveElement, FS_CardinalityType
  <2>8. f[x] = 1 BY <2>1, <2>4
  <2> QED BY <2>1, <2>4, <2>6, <2>7, <2>8
<1> QED BY <1>1

(* Elements renamed one to one. *)
LEMMA SumRenamed ==
    ASSUME NEW f, NEW g, NEW h, NEW S, IsFiniteSet(S),
           \A x \in S : g[x] \in Int /\ f[h[x]] = g[x],
           \A x, y \in S : h[x] = h[y] => x = y
    PROVE  SumFunctionOnSet(f, {h[x] : x \in S}) = SumFunctionOnSet(g, S)
<1> DEFINE Im(T) == {h[x] : x \in T}
           Bad == {T \in SUBSET S : SumFunctionOnSet(f, Im(T)) # SumFunctionOnSet(g, T)}
<1>1. ASSUME Bad # {} PROVE FALSE
  <2>1. PICK T \in Bad : \A y \in Bad : ~(y \subseteq T /\ y # T)
    <3> HIDE DEF Bad
    <3>1. Bad \subseteq SUBSET S BY DEF Bad
    <3> QED BY <1>1, <3>1, LeastSubset
  <2>2. T # {}
    <3>1. SumFunctionOnSet(f, {}) = 0 /\ SumFunctionOnSet(g, {}) = 0 BY SumEmpty
    <3>2. Im({}) = {} OBVIOUS
    <3> QED BY <2>1, <3>1, <3>2
  <2>3. IsFiniteSet(T) BY <2>1, FS_Subset
  <2>4. PICK x \in T : SumFunctionOnSet(g, T) = g[x] + SumFunctionOnSet(g, T \ {x})
    BY <2>2, <2>3, SumStep
  <2> DEFINE U == T \ {x}
  <2>5. SumFunctionOnSet(f, Im(U)) = SumFunctionOnSet(g, U) BY <2>1, <2>4
  <2>6. IsFiniteSet(Im(U))
    <3>1. IsFiniteSet(U) BY <2>3, FS_Subset
    <3>2. [y \in U |-> h[y]] \in Surjection(U, Im(U)) BY DEF Surjection
    <3> QED BY <3>1, <3>2, FS_Surjection
  <2>7. h[x] \notin Im(U) /\ Im(T) = Im(U) \cup {h[x]} BY <2>1, <2>4
  <2>8. f[h[x]] \in Int /\ f[h[x]] = g[x] /\ \A y \in Im(U) : f[y] \in Int BY <2>1, <2>4
  <2> HIDE DEF Im
  <2>9. SumFunctionOnSet(f, Im(U) \cup {h[x]}) = f[h[x]] + SumFunctionOnSet(f, Im(U))
    BY <2>6, <2>7, <2>8, SumWith
  <2>10. SumFunctionOnSet(f, Im(T)) # SumFunctionOnSet(g, T) BY <2>1
  <2> QED BY <2>4, <2>5, <2>7, <2>8, <2>9, <2>10
<1> QED BY <1>1
=============================================================================
