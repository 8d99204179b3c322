---------------------------- MODULE SumTheorems ----------------------------
(***************************************************************************)
(* What Total computes, for every function with a finite domain. A fold    *)
(* chooses the order of its steps, so what has to be shown is that the     *)
(* recursion it stands for is well defined and that the order makes no     *)
(* difference. The library states induction over sets with an operator for *)
(* the predicate, which no backend can instantiate; here it is done by a   *)
(* smallest counterexample, which exists because a finite set has no       *)
(* infinite descending sequence of subsets (WFMin).                        *)
(***************************************************************************)
EXTENDS Sums, FiniteSetTheorems, TLAPS

\* The recursion behind a sum of h over S: an element, any at all, and the rest.
First(S) == CHOOSE x \in S : TRUE
Adds(h, g, S) ==
  g = [s \in SUBSET S |-> IF s = {} THEN 0 ELSE h[First(s)] + g[s \ {First(s)}]]
Fold(h, S) == CHOOSE g : Adds(h, g, S)
SumOver(h, S) == Fold(h, S)[S]

LEMMA TotalIsSum == \A f : Total(f) = SumOver(f, DOMAIN f)
BY DEF Total, FoldFunction, FoldFunctionOnSet, MapThenFoldSet, SumOver, Fold, Adds, First

\* A set of finite sets has a member no other member is a part of.
LEMMA MinimalSet ==
  ASSUME NEW U, IsFiniteSet(U), NEW T \in SUBSET SUBSET U, T # {}
  PROVE  \E S \in T : \A s \in T : s \subseteq S => s = S
<1>1. IsWellFoundedOn(StrictSubsetOrdering(U), SUBSET U)
  BY FS_StrictSubsetOrderingWellFounded, FS_FiniteSubsetsOfFinite
<1>2. PICK S \in T : \A s \in T : ~(<<s, S>> \in StrictSubsetOrdering(U))
  BY <1>1, WFMin
<1> QED
  BY <1>2 DEF StrictSubsetOrdering


LEMMA FirstIn ==
  ASSUME NEW S, S # {}
  PROVE  First(S) \in S
BY DEF First

\* Two recursions agree on the sets both are defined on.
LEMMA AddsUnique ==
  ASSUME NEW h, NEW A, NEW B, IsFiniteSet(A), NEW f, NEW g, Adds(h, f, A), Adds(h, g, B)
  PROVE  \A s \in SUBSET (A \cap B) : f[s] = g[s]
<1> DEFINE bad == {s \in SUBSET (A \cap B) : f[s] # g[s]}
<1> SUFFICES ASSUME bad # {} PROVE FALSE
  OBVIOUS
<1>1. bad \in SUBSET SUBSET A
  OBVIOUS
<1>2. PICK s \in bad : \A t \in bad : t \subseteq s => t = s
  <2> HIDE DEF bad
  <2> QED
    BY <1>1, MinimalSet
<1>3. s # {}
  BY DEF Adds
<1> DEFINE t == s \ {First(s)}
<1>4. t \subseteq s /\ t # s /\ t \in SUBSET A /\ t \in SUBSET B
  BY <1>3, FirstIn
<1>5. f[t] = g[t]
  BY <1>2, <1>4
<1>6. f[s] = h[First(s)] + f[t] /\ g[s] = h[First(s)] + g[t]
  BY <1>3, <1>4 DEF Adds
<1> QED
  BY <1>5, <1>6

\* Where the recursion exists, it takes its step.
LEMMA StepOfSums ==
  ASSUME NEW h, NEW S, IsFiniteSet(S), S # {}, 
         \E g : Adds(h, g, S), \E g : Adds(h, g, S \ {First(S)})
  PROVE  SumOver(h, S) = h[First(S)] + SumOver(h, S \ {First(S)})
<1> DEFINE t == S \ {First(S)}
<1>1. Adds(h, Fold(h, S), S) /\ Adds(h, Fold(h, t), t)
  BY DEF Fold
<1>2. t \in SUBSET (S \cap t)
  OBVIOUS
<1>3. Fold(h, S)[t] = Fold(h, t)[t]
  <2> HIDE DEF t
  <2>1. \A s \in SUBSET (S \cap t) : Fold(h, S)[s] = Fold(h, t)[s]
    BY <1>1, AddsUnique
  <2> QED
    BY <1>2, <2>1
<1>4. Fold(h, S)[S] = h[First(S)] + Fold(h, S)[t]
  BY <1>1 DEF Adds
<1> QED
  BY <1>3, <1>4 DEF SumOver

LEMMA EmptyOfSums ==
  ASSUME NEW h, \E g : Adds(h, g, {})
  PROVE  SumOver(h, {}) = 0
<1>1. Adds(h, Fold(h, {}), {})
  BY DEF Fold
<1> QED
  BY <1>1 DEF Adds, SumOver

\* It exists for every finite set: a smallest one without it could be given it from
\* its subsets.
LEMMA SumsExist ==
  ASSUME NEW h, NEW U, IsFiniteSet(U)
  PROVE  \A S \in SUBSET U : \E g : Adds(h, g, S)
<1> DEFINE bad == {S \in SUBSET U : ~ \E g : Adds(h, g, S)}
<1> SUFFICES ASSUME bad # {} PROVE FALSE
  OBVIOUS
<1>1. bad \in SUBSET SUBSET U
  OBVIOUS
<1>2. PICK S \in bad : \A t \in bad : t \subseteq S => t = S
  <2> HIDE DEF bad
  <2> QED
    BY <1>1, MinimalSet
<1>3. \A t \in SUBSET S : t # S => \E g : Adds(h, g, t)
  BY <1>2
<1> DEFINE g == [s \in SUBSET S |-> IF s = {} THEN 0 
                                    ELSE h[First(s)] + SumOver(h, s \ {First(s)})]
<1>4. ASSUME NEW t \in SUBSET S, t # S PROVE SumOver(h, t) = g[t]
  <2>1. CASE t = {}
    BY <1>3, <1>4, <2>1, EmptyOfSums
  <2>2. CASE t # {}
    <3>1. IsFiniteSet(t)
      BY FS_Subset
    <3>2. t \ {First(t)} \in SUBSET S /\ t \ {First(t)} # S
      BY <1>4
    <3>3. SumOver(h, t) = h[First(t)] + SumOver(h, t \ {First(t)})
      BY <1>3, <1>4, <2>2, <3>1, <3>2, StepOfSums
    <3> QED
      BY <2>2, <3>3
  <2> QED
    BY <2>1, <2>2
<1>5. \A s \in SUBSET S : s # {} => SumOver(h, s \ {First(s)}) = g[s \ {First(s)}]
  <2> SUFFICES ASSUME NEW s \in SUBSET S, s # {} PROVE SumOver(h, s \ {First(s)}) = g[s \ {First(s)}]
    OBVIOUS
  <2>1. First(s) \in s
    BY FirstIn
  <2> HIDE DEF g
  <2> QED
    BY <1>4, <2>1
<1>6. g = [s \in SUBSET S |-> IF s = {} THEN 0 ELSE h[First(s)] + g[s \ {First(s)}]]
  <2> DEFINE G(s) == IF s = {} THEN 0 ELSE h[First(s)] + SumOver(h, s \ {First(s)})
             H(s) == IF s = {} THEN 0 ELSE h[First(s)] + g[s \ {First(s)}]
  <2>1. \A s \in SUBSET S : G(s) = H(s)
    <3> HIDE DEF g
    <3> QED BY <1>5
  <2>2. g = [s \in SUBSET S |-> G(s)]
    OBVIOUS
  <2>3. [s \in SUBSET S |-> G(s)] = [s \in SUBSET S |-> H(s)]
    <3> HIDE DEF G, H
    <3> QED BY <2>1
  <2> QED
    BY <2>2, <2>3
<1>7. Adds(h, g, S)
  <2> HIDE DEF g
  <2> QED BY <1>6 DEF Adds
<1> QED
  BY <1>2, <1>7

LEMMA SumOverEmpty == \A h : SumOver(h, {}) = 0
<1> SUFFICES ASSUME NEW h PROVE SumOver(h, {}) = 0
  OBVIOUS
<1>1. \E g : Adds(h, g, {})
  BY SumsExist, FS_EmptySet
<1> QED
  BY <1>1, EmptyOfSums

\* So a sum over a set is its first element and the rest of it.
LEMMA SumOverFirst ==
  ASSUME NEW h, NEW S, IsFiniteSet(S), S # {}
  PROVE  SumOver(h, S) = h[First(S)] + SumOver(h, S \ {First(S)})
<1>1. \A s \in SUBSET S : \E g : Adds(h, g, s)
  BY SumsExist
<1> QED
  BY <1>1, StepOfSums

\* What is summed matters on the set only.
LEMMA SumOverSame ==
  ASSUME NEW f, NEW g, NEW U, IsFiniteSet(U), \A i \in U : f[i] = g[i]
  PROVE  SumOver(f, U) = SumOver(g, U)
<1> DEFINE bad == {S \in SUBSET U : SumOver(f, S) # SumOver(g, S)}
<1> SUFFICES ASSUME bad # {} PROVE FALSE
  OBVIOUS
<1>1. bad \in SUBSET SUBSET U
  OBVIOUS
<1>2. PICK S \in bad : \A t \in bad : t \subseteq S => t = S
  <2> HIDE DEF bad
  <2> QED
    BY <1>1, MinimalSet
<1>3. S # {} /\ IsFiniteSet(S)
  BY SumOverEmpty, FS_Subset
<1> DEFINE t == S \ {First(S)}
<1>4. First(S) \in S /\ t \in SUBSET U /\ t # S /\ t \subseteq S
  BY <1>3, FirstIn
<1>5. SumOver(f, t) = SumOver(g, t)
  BY <1>2, <1>4
<1> QED
  BY <1>3, <1>4, <1>5, SumOverFirst

\* A sum stays in a set that has 0 and every sum of two of its elements.
LEMMA SumOverIn ==
  ASSUME NEW f, NEW U, IsFiniteSet(U), NEW V, 0 \in V, \A a, b \in V : a + b \in V,
         \A i \in U : f[i] \in V
  PROVE  SumOver(f, U) \in V
<1> DEFINE bad == {S \in SUBSET U : SumOver(f, S) \notin V}
<1> SUFFICES ASSUME bad # {} PROVE FALSE
  OBVIOUS
<1>1. bad \in SUBSET SUBSET U
  OBVIOUS
<1>2. PICK S \in bad : \A t \in bad : t \subseteq S => t = S
  <2> HIDE DEF bad
  <2> QED
    BY <1>1, MinimalSet
<1>3. S # {} /\ IsFiniteSet(S)
  <2>1. S \in SUBSET U /\ SumOver(f, S) \notin V
    BY <1>2
  <2>2. SumOver(f, {}) = 0
    BY SumOverEmpty
  <2>3. S # {}
    BY <2>1, <2>2, SMT
  <2> QED
    BY <2>1, <2>3, FS_Subset
<1> DEFINE t == S \ {First(S)}
<1>4. First(S) \in U /\ t \in SUBSET U /\ t # S /\ t \subseteq S
  BY <1>3, FirstIn
<1>5. SumOver(f, t) \in V
  BY <1>2, <1>4
<1> QED
  BY <1>3, <1>4, <1>5, SumOverFirst

LEMMA SumOverInt ==
  ASSUME NEW f, NEW U, IsFiniteSet(U), \A i \in U : f[i] \in Int
  PROVE  SumOver(f, U) \in Int
<1>1. 0 \in Int /\ \A a, b \in Int : a + b \in Int
  BY SMT
<1> QED
  BY <1>1, SumOverIn

LEMMA SumOverNat ==
  ASSUME NEW f, NEW U, IsFiniteSet(U), \A i \in U : f[i] \in Nat
  PROVE  SumOver(f, U) \in Nat
<1>1. 0 \in Nat /\ \A a, b \in Nat : a + b \in Nat
  BY SMT
<1> QED
  BY <1>1, SumOverIn

\* The order makes no difference: any element may be taken out first.
LEMMA SumOverAny ==
  ASSUME NEW f, NEW U, IsFiniteSet(U), \A i \in U : f[i] \in Int, NEW x \in U
  PROVE  SumOver(f, U) = f[x] + SumOver(f, U \ {x})
<1> DEFINE Splits(S) == \A y \in S : SumOver(f, S) = f[y] + SumOver(f, S \ {y})
           bad == {S \in SUBSET U : ~Splits(S)}
<1> SUFFICES ASSUME bad # {} PROVE FALSE
  OBVIOUS
<1>1. bad \in SUBSET SUBSET U
  OBVIOUS
<1>2. PICK S \in bad : \A t \in bad : t \subseteq S => t = S
  <2> HIDE DEF bad
  <2> QED
    BY <1>1, MinimalSet
<1>3. \A t \in SUBSET U : t \subseteq S /\ t # S => Splits(t)
  <2> HIDE DEF Splits
  <2> QED
    BY <1>2
<1>4. PICK y \in S : SumOver(f, S) # f[y] + SumOver(f, S \ {y})
  BY <1>2
<1> DEFINE c == First(S)
           rest == S \ {c, y}
<1>5. S # {} /\ IsFiniteSet(S) /\ c \in S /\ S \in SUBSET U
  <2>1. S \in SUBSET U
    BY <1>2
  <2> QED
    BY <1>4, <2>1, FirstIn, FS_Subset
<1>6. SumOver(f, S) = f[c] + SumOver(f, S \ {c})
  BY <1>5, SumOverFirst
<1>7. c # y
  BY <1>4, <1>6
<1> HIDE DEF c
<1>8. SumOver(f, S \ {c}) = f[y] + SumOver(f, rest)
  <2>1. /\ y \in S \ {c} /\ S \ {c} # S /\ S \ {c} \in SUBSET U
        /\ rest = (S \ {c}) \ {y}
    BY <1>4, <1>5, <1>7
  <2>2. Splits(S \ {c})
    BY <1>3, <2>1
  <2> QED
    BY <2>1, <2>2
<1>9. SumOver(f, S \ {y}) = f[c] + SumOver(f, rest)
  <2>1. /\ c \in S \ {y} /\ S \ {y} # S /\ S \ {y} \in SUBSET U
        /\ rest = (S \ {y}) \ {c}
    BY <1>4, <1>5, <1>7
  <2>2. Splits(S \ {y})
    BY <1>3, <2>1
  <2> QED
    BY <2>1, <2>2
<1>10. SumOver(f, rest) \in Int /\ f[c] \in Int /\ f[y] \in Int
  <2>1. rest \in SUBSET U
    BY <1>5
  <2> HIDE DEF rest
  <2>2. IsFiniteSet(rest) /\ \A i \in rest : f[i] \in Int
    BY <2>1, FS_Subset
  <2> QED
    BY <1>4, <1>5, <2>2, SumOverInt
<1> HIDE DEF rest
<1> QED
  BY <1>4, <1>6, <1>8, <1>9, <1>10, SMT

LEMMA SumOverUnion ==
  ASSUME NEW f, NEW A, NEW B, IsFiniteSet(A), IsFiniteSet(B), A \cap B = {},
         \A i \in A \cup B : f[i] \in Int
  PROVE  SumOver(f, A \cup B) = SumOver(f, A) + SumOver(f, B)
<1> DEFINE bad == {S \in SUBSET B : SumOver(f, A \cup S) # SumOver(f, A) + SumOver(f, S)}
<1> SUFFICES ASSUME bad # {} PROVE FALSE
  OBVIOUS
<1>1. bad \in SUBSET SUBSET B
  OBVIOUS
<1>2. PICK S \in bad : \A t \in bad : t \subseteq S => t = S
  <2> HIDE DEF bad
  <2> QED
    BY <1>1, MinimalSet
<1>3. SumOver(f, A) \in Int
  BY SumOverInt
<1>4. S # {}
  <2> SUFFICES ASSUME S = {} PROVE FALSE
    OBVIOUS
  <2>1. A \cup S = A /\ SumOver(f, S) = 0
    BY SumOverEmpty
  <2> QED
    BY <1>2, <1>3, <2>1
<1>5. S \in SUBSET B /\ IsFiniteSet(S) /\ IsFiniteSet(A \cup S)
  <2>1. S \in SUBSET B
    BY <1>2
  <2> QED
    BY <2>1, FS_Subset, FS_Union
<1>6. PICK x : x \in S
  BY <1>4
<1> DEFINE t == S \ {x}
<1>7. /\ t \in SUBSET B /\ t # S /\ t \subseteq S /\ (A \cup S) \ {x} = A \cup t
      /\ x \in A \cup S /\ f[x] \in Int
      /\ (\A i \in S : f[i] \in Int) /\ (\A i \in A \cup S : f[i] \in Int)
  BY <1>5, <1>6
<1>8. SumOver(f, A \cup t) = SumOver(f, A) + SumOver(f, t)
  BY <1>2, <1>7
<1>9. SumOver(f, S) = f[x] + SumOver(f, t)
  BY <1>5, <1>6, <1>7, SumOverAny
<1>10. SumOver(f, A \cup S) = f[x] + SumOver(f, A \cup t)
  <2> DEFINE V == A \cup S
  <2>1. IsFiniteSet(V) /\ x \in V /\ (\A i \in V : f[i] \in Int) /\ V \ {x} = A \cup t
    BY <1>5, <1>7
  <2>2. SumOver(f, V) = f[x] + SumOver(f, V \ {x})
    <3> HIDE DEF V, t
    <3> QED BY <2>1, SumOverAny
  <2> QED
    BY <2>1, <2>2
<1>11. SumOver(f, t) \in Int
  <2> HIDE DEF t
  <2>1. IsFiniteSet(t) /\ \A i \in t : f[i] \in Int
    BY <1>5, <1>7, FS_Subset
  <2> QED
    BY <2>1, SumOverInt
<1>12. SumOver(f, A \cup S) # SumOver(f, A) + SumOver(f, S)
  BY <1>2
<1> HIDE DEF t
<1> QED
  BY <1>3, <1>7, <1>8, <1>9, <1>10, <1>11, <1>12, SMT
-----------------------------------------------------------------------------
(* For functions *)

\* The sum of nothing.
LEMMA TotalEmpty ==
  ASSUME NEW f, DOMAIN f = {}
  PROVE  Total(f) = 0
BY TotalIsSum, SumOverEmpty

\* A sum of integers is an integer.
LEMMA TotalInt ==
  ASSUME NEW S, IsFiniteSet(S), NEW f \in [S -> Int]
  PROVE  Total(f) \in Int
<1>1. DOMAIN f = S /\ \A i \in S : f[i] \in Int
  OBVIOUS
<1> QED
  BY <1>1, TotalIsSum, SumOverInt

\* A sum of natural numbers is one too.
LEMMA TotalNat ==
  ASSUME NEW S, IsFiniteSet(S), NEW f \in [S -> Nat]
  PROVE  Total(f) \in Nat
<1>1. DOMAIN f = S /\ \A i \in S : f[i] \in Nat
  OBVIOUS
<1> QED
  BY <1>1, TotalIsSum, SumOverNat

\* One argument is taken out of a sum.
THEOREM TotalSplit ==
  ASSUME NEW S, IsFiniteSet(S), NEW f \in [S -> Int], NEW x \in S
  PROVE  Total(f) = f[x] + Total([i \in S \ {x} |-> f[i]])
<1> DEFINE rest == [i \in S \ {x} |-> f[i]]
<1>1. DOMAIN f = S /\ (\A i \in S : f[i] \in Int) /\ DOMAIN rest = S \ {x}
  OBVIOUS
<1>2. IsFiniteSet(S \ {x}) /\ \A i \in S \ {x} : f[i] = rest[i]
  BY FS_RemoveElement
<1> HIDE DEF rest
<1>3. SumOver(f, S) = f[x] + SumOver(f, S \ {x})
  BY <1>1, SumOverAny
<1>4. SumOver(f, S \ {x}) = SumOver(rest, S \ {x})
  <2> DEFINE R == S \ {x}
  <2>1. IsFiniteSet(R) /\ \A i \in R : f[i] = rest[i]
    BY <1>2
  <2> HIDE DEF R
  <2>2. SumOver(f, R) = SumOver(rest, R)
    BY <2>1, SumOverSame
  <2> QED
    BY <2>2 DEF R
<1> QED
  BY <1>1, <1>3, <1>4, TotalIsSum DEF rest

\* f is g on A, h on B and nothing else.
JoinOf(f, A, g, B, h) ==
  /\ IsFiniteSet(A) /\ IsFiniteSet(B) /\ A \cap B = {}
  /\ f \in [A \cup B -> Int] /\ g \in [A -> Int] /\ h \in [B -> Int]
  /\ \A i \in A : f[i] = g[i]
  /\ \A i \in B : f[i] = h[i]

\* The sum over two separate sets is the sum of the sums.
THEOREM TotalJoin ==
  ASSUME NEW f, NEW A, NEW g, NEW B, NEW h, JoinOf(f, A, g, B, h)
  PROVE  Total(f) = Total(g) + Total(h)
<1>1. /\ DOMAIN f = A \cup B /\ DOMAIN g = A /\ DOMAIN h = B
      /\ \A i \in A \cup B : f[i] \in Int
  BY DEF JoinOf
<1>2. SumOver(f, A \cup B) = SumOver(f, A) + SumOver(f, B)
  BY <1>1, SumOverUnion DEF JoinOf
<1>3. SumOver(f, A) = SumOver(g, A) /\ SumOver(f, B) = SumOver(h, B)
  BY SumOverSame DEF JoinOf
<1> QED
  BY <1>1, <1>2, <1>3, TotalIsSum

=============================================================================
