----------------------------- MODULE SumTheorems -----------------------------
(***************************************************************************)
(* Sums over finite sets: MapThenSumSet takes the elements of a set in an  *)
(* order of its own, and the sum does not depend on it.                    *)
(*                                                                         *)
(* The induction over finite sets is the choice of a smallest              *)
(* counterexample (Smallest).                                              *)
(***************************************************************************)
EXTENDS Integers, FiniteSetsExt, FiniteSetTheorems, WellFoundedInduction, TLAPS

Sum(F, S) == MapThenSumSet(LAMBDA x : F[x], S)

Chosen(s) == CHOOSE x \in s : TRUE

(* g is the recursion that MapThenSumSet goes through. *)
Sums(g, F, S) ==
    g = [s \in SUBSET S |-> IF s = {} THEN 0 ELSE F[Chosen(s)] + g[s \ {Chosen(s)}]]

-----------------------------------------------------------------------------
(* Of the subsets of a finite set that are in X one has no other in it.    *)
LEMMA Smallest ==
    ASSUME NEW S, IsFiniteSet(S), NEW X \in SUBSET SUBSET S, X /= {}
    PROVE  \E s \in X : \A u \in SUBSET s : u /= s => u \notin X
<1> DEFINE R == StrictSubsetOrdering(S)
<1>1. IsWellFoundedOn(R, SUBSET S)
  BY FS_StrictSubsetOrderingWellFounded, FS_FiniteSubsetsOfFinite
<1> HIDE DEF R
<1>2. PICK s \in X : \A u \in X : ~(<<u, s>> \in R)
  BY <1>1, WFMin
<1>3. ASSUME NEW u \in SUBSET s, u /= s, u \in X  PROVE FALSE
  <2>1. u \in SUBSET S /\ s \in SUBSET S  OBVIOUS
  <2>2. <<u, s>> \in R  BY <1>3, <2>1 DEF R, StrictSubsetOrdering
  <2> QED  BY <1>2, <1>3, <2>2
<1> QED  BY <1>2, <1>3

(* A set that is not empty has its chosen element. *)
LEMMA ChosenIn == ASSUME NEW s, s /= {} PROVE Chosen(s) \in s
BY DEF Chosen

(* One step of the recursion. *)
LEMMA SumsStep ==
    ASSUME NEW S, NEW F, NEW g, Sums(g, F, S), NEW s \in SUBSET S
    PROVE  /\ s = {} => g[s] = 0
           /\ s /= {} => g[s] = F[Chosen(s)] + g[s \ {Chosen(s)}]
BY DEF Sums

(* Where the summands are the same, so are the sums. *)
LEMMA SumsAgree ==
    ASSUME NEW A, NEW B, NEW F, NEW G, NEW g, NEW h, IsFiniteSet(A),
           Sums(g, F, A), Sums(h, G, B),
           NEW s \in SUBSET A, s \subseteq B, \A x \in s : F[x] = G[x]
    PROVE  g[s] = h[s]
<1> DEFINE X == {u \in SUBSET s : g[u] /= h[u]}
<1>1. SUFFICES ASSUME X /= {} PROVE FALSE  OBVIOUS
<1>2. IsFiniteSet(s) /\ X \in SUBSET SUBSET s  BY FS_Subset
<1>3. PICK u \in X : \A v \in SUBSET u : v /= u => v \notin X
  <2> HIDE DEF X
  <2> QED  BY <1>1, <1>2, Smallest
<1>4. u \in SUBSET s /\ u \in SUBSET A /\ u \in SUBSET B /\ g[u] /= h[u]  BY <1>3
<1>5. u /= {}  BY <1>4, SumsStep
<1>6. Chosen(u) \in u  BY <1>5, ChosenIn
<1>7. g[u \ {Chosen(u)}] = h[u \ {Chosen(u)}]  BY <1>3, <1>4, <1>6
<1>8. F[Chosen(u)] = G[Chosen(u)]  BY <1>4, <1>6
<1> QED  BY <1>4, <1>5, <1>7, <1>8, SumsStep

(* So the recursion has one solution at most, *)
LEMMA SumsOne ==
    ASSUME NEW S, NEW F, NEW g, NEW h, IsFiniteSet(S), Sums(g, F, S), Sums(h, F, S)
    PROVE  g[S] = h[S]
<1>1. S \in SUBSET S /\ S \subseteq S /\ \A x \in S : F[x] = F[x]  OBVIOUS
<1> QED  BY <1>1, SumsAgree

(* and it has one. *)
LEMMA SumsExist ==
    ASSUME NEW S, NEW F, IsFiniteSet(S)
    PROVE  \E g : Sums(g, F, S)
<1> DEFINE X == {s \in SUBSET S : ~\E g : Sums(g, F, s)}
<1>1. SUFFICES ASSUME X /= {} PROVE FALSE  OBVIOUS
<1>2. PICK s \in X : \A u \in SUBSET s : u /= s => u \notin X
  <2>1. X \in SUBSET SUBSET S  OBVIOUS
  <2> HIDE DEF X
  <2> QED  BY <1>1, <2>1, Smallest
<1> DEFINE Of(u) == CHOOSE g : Sums(g, F, u)
           g == [u \in SUBSET s |->
                    IF u = {} THEN 0
                    ELSE F[Chosen(u)] + Of(u \ {Chosen(u)})[u \ {Chosen(u)}]]
<1>3. s \in SUBSET S /\ ~\E f : Sums(f, F, s)  BY <1>2
<1>4. ASSUME NEW u \in SUBSET s, u /= s  PROVE Sums(Of(u), F, u) /\ IsFiniteSet(u)
  <2>1. u \notin X /\ u \in SUBSET S  BY <1>2, <1>3, <1>4
  <2>2. \E f : Sums(f, F, u)  BY <2>1
  <2> QED  BY <2>1, <2>2, FS_Subset
<1> HIDE DEF Of, X
<1>5. ASSUME NEW u \in SUBSET s, u /= {}
      PROVE  g[u \ {Chosen(u)}] = Of(u \ {Chosen(u)})[u \ {Chosen(u)}]
  <2> DEFINE v == u \ {Chosen(u)}
  <2>1. v \in SUBSET s /\ v /= s  BY <1>5, ChosenIn
  <2>2. Sums(Of(v), F, v) /\ IsFiniteSet(v)  BY <1>4, <2>1
  <2> HIDE DEF v
  <2>3. CASE v = {}
    <3>1. g[v] = 0  BY <2>1, <2>3
    <3>2. Of(v)[v] = 0  BY <2>2, <2>3, SumsStep
    <3> QED  BY <3>1, <3>2 DEF v
  <2>4. CASE v /= {}
    <3> DEFINE w == v \ {Chosen(v)}
    <3>1. w \in SUBSET v /\ w \in SUBSET s /\ w /= s  BY <2>1, <2>4, ChosenIn
    <3>2. Sums(Of(w), F, w) /\ IsFiniteSet(w)  BY <1>4, <3>1
    <3>3. Of(v)[v] = F[Chosen(v)] + Of(v)[w]  BY <2>2, <2>4, SumsStep
    <3>4. g[v] = F[Chosen(v)] + Of(w)[w]  BY <2>1, <2>4
    <3> HIDE DEF w, g
    <3>5. Of(v)[w] = Of(w)[w]  BY <2>2, <3>1, <3>2, SumsAgree
    <3>6. g[v] = Of(v)[v]  BY <3>3, <3>4, <3>5
    <3> QED  BY <3>6 DEF v
  <2> QED  BY <2>3, <2>4
<1>6. Sums(g, F, s)  BY <1>5 DEF Sums
<1> QED  BY <1>3, <1>6

(* The sum is the value of the recursion for the whole set. *)
LEMMA SumIs ==
    ASSUME NEW F, NEW S, IsFiniteSet(S)
    PROVE  \E g : Sums(g, F, S) /\ Sum(F, S) = g[S]
<1>1. PICK g : Sums(g, F, S)  BY SumsExist
<1> QED  BY <1>1 DEF Sum, MapThenSumSet, MapThenFoldSet, Sums, Chosen

(* The recursion stays in the integers. *)
LEMMA SumsType ==
    ASSUME NEW S, NEW F, NEW g, IsFiniteSet(S), Sums(g, F, S),
           \A x \in S : F[x] \in Int, NEW s \in SUBSET S
    PROVE  g[s] \in Int
<1> DEFINE X == {u \in SUBSET S : g[u] \notin Int}
<1>1. SUFFICES ASSUME X /= {} PROVE FALSE  OBVIOUS
<1>2. PICK u \in X : \A v \in SUBSET u : v /= u => v \notin X
  <2>1. X \in SUBSET SUBSET S  OBVIOUS
  <2> HIDE DEF X
  <2> QED  BY <1>1, <2>1, Smallest
<1>3. u \in SUBSET S /\ g[u] \notin Int  BY <1>2
<1>4. u /= {}
  <2>1. u = {} => g[u] = 0  BY <1>3, SumsStep
  <2> QED  BY <1>3, <2>1
<1>5. Chosen(u) \in u  BY <1>4, ChosenIn
<1>6. g[u \ {Chosen(u)}] \in Int  BY <1>2, <1>3, <1>5
<1> HIDE DEF X
<1>7. g[u] = F[Chosen(u)] + g[u \ {Chosen(u)}]
  <2>1. Sums(g, F, S) /\ u \in SUBSET S  BY <1>3
  <2> QED  BY ONLY <1>4, <2>1, SumsStep
<1>8. F[Chosen(u)] \in Int  BY <1>3, <1>5
<1> QED  BY <1>3, <1>6, <1>7, <1>8

(* Any element may be taken first. *)
LEMMA SumsElement ==
    ASSUME NEW S, NEW F, NEW g, IsFiniteSet(S), Sums(g, F, S),
           \A x \in S : F[x] \in Int, NEW s \in SUBSET S, NEW y \in s
    PROVE  g[s] = F[y] + g[s \ {y}]
<1> DEFINE X == {u \in SUBSET S : \E x \in u : g[u] /= F[x] + g[u \ {x}]}
<1>1. SUFFICES ASSUME X /= {} PROVE FALSE  OBVIOUS
<1>2. PICK u \in X : \A v \in SUBSET u : v /= u => v \notin X
  <2>1. X \in SUBSET SUBSET S  OBVIOUS
  <2> HIDE DEF X
  <2> QED  BY <1>1, <2>1, Smallest
<1>3. u \in SUBSET S  BY <1>2
<1>4. PICK x \in u : g[u] /= F[x] + g[u \ {x}]  BY <1>2
<1> DEFINE c == Chosen(u)
<1>5. c \in u /\ g[u] = F[c] + g[u \ {c}]
  <2>1. u /= {}  BY <1>4
  <2>2. Chosen(u) \in u  BY <2>1, ChosenIn
  <2>3. g[u] = F[Chosen(u)] + g[u \ {Chosen(u)}]  BY <1>3, <2>1, SumsStep
  <2> QED  BY <2>2, <2>3
<1> HIDE DEF c
<1>6. c /= x  BY <1>4, <1>5
<1>7. u \ {c} \notin X /\ u \ {x} \notin X
  BY <1>2, <1>4, <1>5
<1>8. g[u \ {c}] = F[x] + g[(u \ {c}) \ {x}]
  BY <1>3, <1>4, <1>6, <1>7
<1>9. g[u \ {x}] = F[c] + g[(u \ {x}) \ {c}]
  BY <1>3, <1>5, <1>6, <1>7
<1>10. (u \ {c}) \ {x} = (u \ {x}) \ {c}  OBVIOUS
<1>11. F[x] \in Int /\ F[c] \in Int /\ g[(u \ {c}) \ {x}] \in Int
  BY <1>3, <1>4, <1>5, SumsType
<1>12. ASSUME NEW i \in Int, NEW j \in Int, NEW k \in Int  PROVE i + (j + k) = j + (i + k)
  OBVIOUS
<1>13. F[c] + (F[x] + g[(u \ {c}) \ {x}]) = F[x] + (F[c] + g[(u \ {c}) \ {x}])
  BY <1>11, <1>12
<1> QED  BY <1>4, <1>5, <1>8, <1>9, <1>10, <1>13, Zenon

-----------------------------------------------------------------------------
(* The sum over no element, and that a sum of integers is one. *)
LEMMA SumType ==
    ASSUME NEW F, NEW S, IsFiniteSet(S), \A x \in S : F[x] \in Int
    PROVE  Sum(F, S) \in Int /\ (S = {} => Sum(F, S) = 0)
<1>1. PICK g : Sums(g, F, S) /\ Sum(F, S) = g[S]  BY SumIs
<1> QED  BY <1>1, SumsStep, SumsType

(* Sums of the same summands. *)
LEMMA SumSame ==
    ASSUME NEW F, NEW G, NEW S, IsFiniteSet(S), \A x \in S : F[x] = G[x]
    PROVE  Sum(F, S) = Sum(G, S)
<1>1. PICK g : Sums(g, F, S) /\ Sum(F, S) = g[S]  BY SumIs
<1>2. PICK h : Sums(h, G, S) /\ Sum(G, S) = h[S]  BY SumIs
<1> QED  BY <1>1, <1>2, SumsAgree

(* A sum is that of the others and one summand, whichever it is. *)
LEMMA SumElement ==
    ASSUME NEW F, NEW S, IsFiniteSet(S), \A x \in S : F[x] \in Int, NEW y \in S
    PROVE  Sum(F, S) = F[y] + Sum(F, S \ {y})
<1>1. PICK g : Sums(g, F, S) /\ Sum(F, S) = g[S]  BY SumIs
<1>2. IsFiniteSet(S \ {y})  BY FS_Subset
<1>3. PICK h : Sums(h, F, S \ {y}) /\ Sum(F, S \ {y}) = h[S \ {y}]  BY <1>2, SumIs
<1>4. g[S \ {y}] = h[S \ {y}]  BY <1>1, <1>3, SumsAgree
<1> QED  BY <1>1, <1>3, <1>4, SumsElement

(* When one summand changes, so does the sum, by as much. *)
LEMMA SumChange ==
    ASSUME NEW F, NEW G, NEW S, IsFiniteSet(S), NEW y \in S,
           \A x \in S : F[x] \in Int, G[y] \in Int,
           \A x \in S \ {y} : G[x] = F[x]
    PROVE  Sum(G, S) = Sum(F, S) + G[y] - F[y]
<1>1. \A x \in S : G[x] \in Int  OBVIOUS
<1>2. IsFiniteSet(S \ {y})  BY FS_Subset
<1>3. Sum(G, S \ {y}) = Sum(F, S \ {y})  BY <1>2, SumSame
<1>4. Sum(F, S) = F[y] + Sum(F, S \ {y})  BY SumElement
<1>5. Sum(G, S) = G[y] + Sum(G, S \ {y})  BY <1>1, SumElement
<1>6. Sum(F, S \ {y}) \in Int /\ F[y] \in Int  BY <1>2, SumType
<1> QED  BY <1>3, <1>4, <1>5, <1>6

(* A sum of nothing but 0. *)
LEMMA SumZero ==
    ASSUME NEW F, NEW S, IsFiniteSet(S), \A x \in S : F[x] = 0
    PROVE  Sum(F, S) = 0
<1>1. PICK g : Sums(g, F, S) /\ Sum(F, S) = g[S]  BY SumIs
<1> DEFINE X == {u \in SUBSET S : g[u] /= 0}
<1>2. SUFFICES ASSUME X /= {} PROVE FALSE  BY <1>1
<1>3. PICK u \in X : \A v \in SUBSET u : v /= u => v \notin X
  <2>1. X \in SUBSET SUBSET S  OBVIOUS
  <2> HIDE DEF X
  <2> QED  BY <1>2, <2>1, Smallest
<1>4. u \in SUBSET S /\ g[u] /= 0  BY <1>3
<1>5. u /= {}
  <2>1. u = {} => g[u] = 0  BY <1>1, <1>4, SumsStep
  <2> QED  BY <1>4, <2>1
<1>6. Chosen(u) \in u  BY <1>5, ChosenIn
<1>7. g[u \ {Chosen(u)}] = 0 /\ F[Chosen(u)] = 0  BY <1>3, <1>4, <1>6
<1> HIDE DEF X
<1>8. g[u] = F[Chosen(u)] + g[u \ {Chosen(u)}]
  <2>1. Sums(g, F, S) /\ u \in SUBSET S  BY <1>1, <1>4
  <2> QED  BY ONLY <1>5, <2>1, SumsStep
<1> QED  BY <1>4, <1>7, <1>8
=============================================================================
