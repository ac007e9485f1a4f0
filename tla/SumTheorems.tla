----------------------------- MODULE SumTheorems -----------------------------
(***************************************************************************)
(* What the models add up, they add up with SumFunction of the community   *)
(* module Functions, a fold that takes the elements of a finite set in an  *)
(* order it chooses.  The lemmas here say that the order does not matter,  *)
(* what one element more or less does to a sum, and when two sums agree.   *)
(*                                                                         *)
(* The fold is a recursive function on the subsets of the set, and an      *)
(* induction over them is written as the absence of a smallest counter-    *)
(* example: MinimalSubset.                                                 *)
(***************************************************************************)
EXTENDS Integers, Functions, FiniteSets, FiniteSetTheorems, TLAPS

-----------------------------------------------------------------------------
(* The recursive function behind the fold                                  *)

\* The element the fold chooses from a set that is not empty
Chosen(s) == CHOOSE x \in s : TRUE

\* g is the fold of f on the subsets of S
IsFold(f, S, g) ==
  g = [s \in SUBSET S |-> IF s = {} THEN 0 ELSE f[Chosen(s)] + g[s \ {Chosen(s)}]]

\* The sum of f over S, by the fold
SumOf(f, S) == (CHOOSE g : IsFold(f, S, g))[S]

\* A set of subsets of a finite set has one that contains no other of them.
LEMMA MinimalSubset ==
  ASSUME NEW S, IsFiniteSet(S), NEW B, B \subseteq SUBSET S, B # {}
  PROVE  \E T \in B : \A U \in B : U \subseteq T => U = T
<1> DEFINE R == StrictSubsetOrdering(S)
<1>1. IsWellFoundedOn(R, FiniteSubsetsOf(S))
  BY FS_StrictSubsetOrderingWellFounded
<1>2. B \subseteq FiniteSubsetsOf(S)
  BY FS_FiniteSubsetsOfFinite
<1>3. PICK T \in B : \A U \in B : ~(<<U, T>> \in R)
  <2> HIDE DEF R
  <2> QED BY <1>1, <1>2, WFMin
<1>4. \A U \in B : U \subseteq T => U = T
  BY <1>3 DEF StrictSubsetOrdering
<1> QED BY <1>4

LEMMA ChosenIn == ASSUME NEW s, s # {} PROVE Chosen(s) \in s
BY DEF Chosen

\* The operator of the community module is this fold.
LEMMA SumFunctionIsSumOf == ASSUME NEW f, NEW S PROVE SumFunctionOnSet(f, S) = SumOf(f, S)
BY DEF SumFunctionOnSet, FoldFunctionOnSet, MapThenFoldSet, SumOf, IsFold, Chosen

\* At most one function is the fold.
LEMMA FoldUnique ==
  ASSUME NEW f, NEW S, IsFiniteSet(S), NEW g, NEW h, IsFold(f, S, g), IsFold(f, S, h)
  PROVE  g = h
<1> DEFINE B == {s \in SUBSET S : g[s] # h[s]}
<1>1. SUFFICES B = {}
  <2>1. /\ g = [s \in SUBSET S |-> g[s]]
        /\ h = [s \in SUBSET S |-> h[s]]
    BY DEF IsFold
  <2> QED BY <2>1
<1>2. SUFFICES ASSUME B # {} PROVE FALSE
  OBVIOUS
<1>3. PICK T \in B : \A U \in B : U \subseteq T => U = T
  <2>1. B \subseteq SUBSET S
    OBVIOUS
  <2> HIDE DEF B
  <2> QED BY <1>2, <2>1, MinimalSubset
<1>4. CASE T = {}
  BY <1>3, <1>4 DEF IsFold
<1>5. CASE T # {}
  <2> DEFINE c == Chosen(T)
  <2>1. c \in T
    BY <1>5, ChosenIn
  <2>2. T \ {c} \in SUBSET S /\ T \ {c} \subseteq T /\ T \ {c} # T
    BY <2>1
  <2>3. g[T \ {c}] = h[T \ {c}]
    BY <2>2, <1>3
  <2>4. g[T] = f[c] + g[T \ {c}] /\ h[T] = f[c] + h[T \ {c}]
    BY <1>5, <1>3 DEF IsFold
  <2> QED BY <2>3, <2>4, <1>3
<1> QED BY <1>4, <1>5

\* The fold on a set is, on the subsets of a part of it, the fold on that part.
LEMMA FoldPart ==
  ASSUME NEW f, NEW S, IsFiniteSet(S), NEW T, T \subseteq S, NEW g, IsFold(f, S, g),
         NEW h, h = [s \in SUBSET T |-> g[s]]
  PROVE  IsFold(f, T, h)
<1>1. \A s \in SUBSET T : g[s] = IF s = {} THEN 0 ELSE f[Chosen(s)] + g[s \ {Chosen(s)}]
  BY DEF IsFold
<1>2. \A s \in SUBSET T : h[s \ {Chosen(s)}] = g[s \ {Chosen(s)}]
  OBVIOUS
<1>3. \A s \in SUBSET T : h[s] = g[s]
  OBVIOUS
<1>4. h = [s \in SUBSET T |-> IF s = {} THEN 0 ELSE f[Chosen(s)] + h[s \ {Chosen(s)}]]
  BY <1>1, <1>2
<1> QED BY <1>4 DEF IsFold

\* The sum over a part is the value of the fold at that part.
LEMMA FoldValue ==
  ASSUME NEW f, NEW S, IsFiniteSet(S), NEW T, T \subseteq S, NEW g, IsFold(f, S, g)
  PROVE  SumOf(f, T) = g[T]
<1> DEFINE h == [s \in SUBSET T |-> g[s]]
<1> HIDE DEF h
<1>1. IsFold(f, T, h)
  BY FoldPart DEF h
<1>2. IsFold(f, T, CHOOSE k : IsFold(f, T, k))
  BY <1>1
<1>3. IsFiniteSet(T)
  BY FS_Subset
<1>4. h = CHOOSE k : IsFold(f, T, k)
  BY <1>1, <1>2, <1>3, FoldUnique
<1> QED BY <1>4 DEF SumOf, h

\* The fold exists.
LEMMA FoldExists ==
  ASSUME NEW f, NEW S, IsFiniteSet(S)
  PROVE  \E g : IsFold(f, S, g)
<1> DEFINE B == {T \in SUBSET S : ~ \E g : IsFold(f, T, g)}
<1>1. SUFFICES B = {}
  OBVIOUS
<1>2. SUFFICES ASSUME B # {} PROVE FALSE
  OBVIOUS
<1>3. PICK T \in B : \A U \in B : U \subseteq T => U = T
  <2>1. B \subseteq SUBSET S
    OBVIOUS
  <2> HIDE DEF B
  <2> QED BY <1>2, <2>1, MinimalSubset
<1>4. ASSUME NEW U \in SUBSET T, U # T
      PROVE  \E g : IsFold(f, U, g)
  BY <1>3, <1>4
<1> DEFINE V(s) == IF s = T /\ T # {} THEN f[Chosen(T)] + SumOf(f, T \ {Chosen(T)})
                   ELSE IF s = {} THEN 0 ELSE SumOf(f, s)
           G == [s \in SUBSET T |-> V(s)]
<1>5. ASSUME NEW s \in SUBSET T, s # {}
      PROVE  V(s) = f[Chosen(s)] + V(s \ {Chosen(s)})
  <2> DEFINE c == Chosen(s)
  <2>1. c \in s
    BY <1>5, ChosenIn
  <2>2. s \ {c} \in SUBSET T /\ s \ {c} # T
    BY <2>1
  <2>3. V(s \ {c}) = SumOf(f, s \ {c})
    <3>1. CASE s \ {c} # {}
      BY <3>1, <2>2
    <3>2. CASE s \ {c} = {}
      <4>1. PICK g : IsFold(f, {}, g)
        BY <3>2, <2>2, <1>4
      <4>2. SumOf(f, {}) = g[{}]
        BY <4>1, FoldValue, FS_EmptySet
      <4>3. g[{}] = 0
        BY <4>1 DEF IsFold
      <4>4. V({}) = 0
        BY <3>2, <2>2
      <4> QED BY <4>2, <4>3, <4>4, <3>2
    <3> QED BY <3>1, <3>2
  <2>4. CASE s = T
    BY <2>3, <2>4, <1>5
  <2>5. CASE s # T
    <3>1. PICK g : IsFold(f, s, g)
      BY <2>5, <1>4
    <3>2. IsFiniteSet(s)
      BY <1>3, FS_Subset
    <3>3. SumOf(f, s) = g[s] /\ SumOf(f, s \ {c}) = g[s \ {c}]
      BY <3>1, <3>2, FoldValue
    <3>4. g[s] = f[c] + g[s \ {c}]
      BY <3>1, <1>5 DEF IsFold
    <3>5. V(s) = SumOf(f, s)
      BY <2>5, <1>5
    <3> QED BY <3>3, <3>4, <3>5, <2>3
  <2> QED BY <2>4, <2>5
<1>6. V({}) = 0
  OBVIOUS
<1>7. \A s \in SUBSET T : G[s \ {Chosen(s)}] = V(s \ {Chosen(s)})
  OBVIOUS
<1>8. G = [s \in SUBSET T |-> IF s = {} THEN 0 ELSE f[Chosen(s)] + G[s \ {Chosen(s)}]]
  <2> HIDE DEF V
  <2>1. \A s \in SUBSET T : V(s) = IF s = {} THEN 0 ELSE f[Chosen(s)] + G[s \ {Chosen(s)}]
    BY <1>5, <1>6, <1>7
  <2> QED BY <2>1
<1>9. IsFold(f, T, G)
  BY <1>8 DEF IsFold
<1> QED BY <1>3, <1>9

-----------------------------------------------------------------------------
(* Sums: SumFunctionOnSet                                                  *)

\* A sum of nothing is 0.
LEMMA SumEmpty == ASSUME NEW f PROVE SumFunctionOnSet(f, {}) = 0
<1>1. PICK g : IsFold(f, {}, g)
  BY FoldExists, FS_EmptySet
<1>2. SumOf(f, {}) = g[{}]
  BY <1>1, FoldValue, FS_EmptySet
<1>3. g[{}] = 0
  BY <1>1 DEF IsFold
<1> QED BY <1>2, <1>3, SumFunctionIsSumOf

\* A sum is what the element chosen first adds to the sum of the others.
LEMMA SumChosen ==
  ASSUME NEW f, NEW S, IsFiniteSet(S), S # {}
  PROVE  SumFunctionOnSet(f, S) = f[Chosen(S)] + SumFunctionOnSet(f, S \ {Chosen(S)})
<1>1. PICK g : IsFold(f, S, g)
  BY FoldExists
<1>2. SumOf(f, S) = g[S] /\ SumOf(f, S \ {Chosen(S)}) = g[S \ {Chosen(S)}]
  BY <1>1, FoldValue
<1>3. g[S] = f[Chosen(S)] + g[S \ {Chosen(S)}]
  BY <1>1 DEF IsFold
<1> QED BY <1>2, <1>3, SumFunctionIsSumOf

\* A sum of natural numbers is a natural number.
LEMMA SumNat ==
  ASSUME NEW f, NEW S, IsFiniteSet(S), \A x \in S : f[x] \in Nat
  PROVE  SumFunctionOnSet(f, S) \in Nat
<1> DEFINE B == {s \in SUBSET S : SumFunctionOnSet(f, s) \notin Nat}
<1>1. SUFFICES ASSUME B # {} PROVE FALSE
  OBVIOUS
<1>2. PICK T \in B : \A U \in B : U \subseteq T => U = T
  <2>1. B \subseteq SUBSET S
    OBVIOUS
  <2> HIDE DEF B
  <2> QED BY <1>1, <2>1, MinimalSubset
<1>3. IsFiniteSet(T)
  BY FS_Subset
<1>4. CASE T = {}
  BY <1>2, <1>4, SumEmpty
<1>5. CASE T # {}
  <2>1. Chosen(T) \in T
    BY <1>5, ChosenIn
  <2>2. SumFunctionOnSet(f, T \ {Chosen(T)}) \in Nat
    BY <1>2, <2>1
  <2>3. f[Chosen(T)] \in Nat
    BY <2>1
  <2> QED BY <1>2, <1>3, <1>5, <2>2, <2>3, SumChosen
<1> QED BY <1>4, <1>5

\* The order does not matter: any element can be taken out first.
LEMMA SumWithout ==
  ASSUME NEW f, NEW S, IsFiniteSet(S), \A x \in S : f[x] \in Nat, NEW y \in S
  PROVE  SumFunctionOnSet(f, S) = f[y] + SumFunctionOnSet(f, S \ {y})
<1> DEFINE Splits(s) == \A x \in s : SumFunctionOnSet(f, s) = f[x] + SumFunctionOnSet(f, s \ {x})
           B == {s \in SUBSET S : ~Splits(s)}
<1>1. SUFFICES ASSUME B # {} PROVE FALSE
  OBVIOUS
<1>2. PICK T \in B : \A U \in B : U \subseteq T => U = T
  <2>1. B \subseteq SUBSET S
    OBVIOUS
  <2> HIDE DEF B
  <2> QED BY <1>1, <2>1, MinimalSubset
<1>3. PICK x \in T : SumFunctionOnSet(f, T) # f[x] + SumFunctionOnSet(f, T \ {x})
  BY <1>2
<1> DEFINE c == Chosen(T)
<1>4. c \in T /\ T # {}
  BY <1>3, ChosenIn
<1> HIDE DEF c
<1>5. IsFiniteSet(T)
  BY FS_Subset
<1>6. SumFunctionOnSet(f, T) = f[c] + SumFunctionOnSet(f, T \ {c})
  BY <1>4, <1>5, SumChosen DEF c
<1>7. x # c
  BY <1>3, <1>6
<1>8. SumFunctionOnSet(f, T \ {c}) = f[x] + SumFunctionOnSet(f, (T \ {c}) \ {x})
  <2>1. T \ {c} \notin B
    BY <1>2, <1>4
  <2>2. Splits(T \ {c})
    BY <2>1
  <2> QED BY <2>2, <1>7
<1>9. SumFunctionOnSet(f, T \ {x}) = f[c] + SumFunctionOnSet(f, (T \ {x}) \ {c})
  <2>1. T \ {x} \notin B
    BY <1>2
  <2>2. Splits(T \ {x})
    BY <2>1
  <2> QED BY <2>2, <1>7, <1>4
<1>10. (T \ {c}) \ {x} = (T \ {x}) \ {c}
  OBVIOUS
<1>11. SumFunctionOnSet(f, (T \ {x}) \ {c}) \in Nat /\ f[x] \in Nat /\ f[c] \in Nat
  BY <1>4, <1>5, SumNat, FS_Subset
<1> QED BY <1>3, <1>6, <1>8, <1>9, <1>10, <1>11

\* One element more.
LEMMA SumWith ==
  ASSUME NEW f, NEW S, IsFiniteSet(S), NEW y, y \notin S, \A x \in S \cup {y} : f[x] \in Nat
  PROVE  SumFunctionOnSet(f, S \cup {y}) = f[y] + SumFunctionOnSet(f, S)
<1>1. IsFiniteSet(S \cup {y})
  BY FS_AddElement
<1>2. (S \cup {y}) \ {y} = S
  OBVIOUS
<1> QED BY <1>1, <1>2, SumWithout

\* Two functions that agree on a set have the same sum over it.
LEMMA SumSame ==
  ASSUME NEW f, NEW g, NEW S, IsFiniteSet(S), \A x \in S : f[x] = g[x]
  PROVE  SumFunctionOnSet(f, S) = SumFunctionOnSet(g, S)
<1> DEFINE B == {s \in SUBSET S : SumFunctionOnSet(f, s) # SumFunctionOnSet(g, s)}
<1>1. SUFFICES ASSUME B # {} PROVE FALSE
  OBVIOUS
<1>2. PICK T \in B : \A U \in B : U \subseteq T => U = T
  <2>1. B \subseteq SUBSET S
    OBVIOUS
  <2> HIDE DEF B
  <2> QED BY <1>1, <2>1, MinimalSubset
<1>3. IsFiniteSet(T)
  BY FS_Subset
<1>4. CASE T = {}
  BY <1>2, <1>4, SumEmpty
<1>5. CASE T # {}
  <2>1. Chosen(T) \in T
    BY <1>5, ChosenIn
  <2>2. SumFunctionOnSet(f, T \ {Chosen(T)}) = SumFunctionOnSet(g, T \ {Chosen(T)})
    BY <1>2, <2>1
  <2>3. f[Chosen(T)] = g[Chosen(T)]
    BY <2>1
  <2>4. /\ SumFunctionOnSet(f, T) = f[Chosen(T)] + SumFunctionOnSet(f, T \ {Chosen(T)})
        /\ SumFunctionOnSet(g, T) = g[Chosen(T)] + SumFunctionOnSet(g, T \ {Chosen(T)})
    BY <1>3, <1>5, SumChosen
  <2> QED BY <1>2, <2>2, <2>3, <2>4
<1> QED BY <1>4, <1>5

\* Sums whose terms differ in one place differ by what is there.
LEMMA SumChange ==
  ASSUME NEW f, NEW g, NEW S, IsFiniteSet(S), \A x \in S : f[x] \in Nat /\ g[x] \in Nat,
         NEW y \in S, \A x \in S \ {y} : f[x] = g[x]
  PROVE  SumFunctionOnSet(f, S) + g[y] = SumFunctionOnSet(g, S) + f[y]
<1> DEFINE R == S \ {y}
<1>1. IsFiniteSet(R) /\ \A x \in R : f[x] = g[x] /\ f[x] \in Nat
  BY FS_Subset
<1>2. SumFunctionOnSet(f, R) = SumFunctionOnSet(g, R) /\ SumFunctionOnSet(f, R) \in Nat
  <2> HIDE DEF R
  <2> QED BY <1>1, SumSame, SumNat
<1>3. /\ SumFunctionOnSet(f, S) = f[y] + SumFunctionOnSet(f, R)
      /\ SumFunctionOnSet(g, S) = g[y] + SumFunctionOnSet(g, R)
  BY SumWithout
<1> HIDE DEF R
<1> QED BY <1>2, <1>3

\* Term by term at most, and so in all.
LEMMA SumAtMost ==
  ASSUME NEW f, NEW g, NEW S, IsFiniteSet(S),
         \A x \in S : f[x] \in Nat /\ g[x] \in Nat /\ f[x] <= g[x]
  PROVE  SumFunctionOnSet(f, S) <= SumFunctionOnSet(g, S)
<1> DEFINE B == {s \in SUBSET S : ~(SumFunctionOnSet(f, s) <= SumFunctionOnSet(g, s))}
<1>1. SUFFICES ASSUME B # {} PROVE FALSE
  OBVIOUS
<1>2. PICK T \in B : \A U \in B : U \subseteq T => U = T
  <2>1. B \subseteq SUBSET S
    OBVIOUS
  <2> HIDE DEF B
  <2> QED BY <1>1, <2>1, MinimalSubset
<1>3. T \subseteq S /\ IsFiniteSet(T) /\ ~(SumFunctionOnSet(f, T) <= SumFunctionOnSet(g, T))
  BY FS_Subset
<1>4. T # {}
  BY <1>3, SumEmpty
<1>5. PICK y \in T : TRUE
  BY <1>4
<1> DEFINE R == T \ {y}
<1>6. R \notin B /\ R \subseteq S /\ IsFiniteSet(R)
  BY <1>2, <1>3, <1>5, FS_Subset
<1>7. SumFunctionOnSet(f, R) <= SumFunctionOnSet(g, R)
  BY <1>6
<1>8. /\ SumFunctionOnSet(f, T) = f[y] + SumFunctionOnSet(f, R)
      /\ SumFunctionOnSet(g, T) = g[y] + SumFunctionOnSet(g, R)
  BY <1>3, <1>5, SumWithout
<1>9. SumFunctionOnSet(f, R) \in Nat /\ SumFunctionOnSet(g, R) \in Nat
  <2> HIDE DEF R, B
  <2> QED BY <1>6, SumNat
<1>10. f[y] \in Nat /\ g[y] \in Nat /\ f[y] <= g[y]
  BY <1>3, <1>5
<1> HIDE DEF R, B
<1> QED BY <1>3, <1>7, <1>8, <1>9, <1>10

\* Nothing in any place is nothing in all.
LEMMA SumOfZeros ==
  ASSUME NEW f, NEW S, IsFiniteSet(S), \A x \in S : f[x] = 0
  PROVE  SumFunctionOnSet(f, S) = 0
<1>1. \A x \in S : f[x] \in Nat
  OBVIOUS
<1> DEFINE B == {s \in SUBSET S : SumFunctionOnSet(f, s) # 0}
<1>2. SUFFICES ASSUME B # {} PROVE FALSE
  OBVIOUS
<1>3. PICK T \in B : \A U \in B : U \subseteq T => U = T
  <2>1. B \subseteq SUBSET S
    OBVIOUS
  <2> HIDE DEF B
  <2> QED BY <1>2, <2>1, MinimalSubset
<1>4. T \subseteq S /\ IsFiniteSet(T) /\ SumFunctionOnSet(f, T) # 0
  BY FS_Subset
<1>5. PICK y \in T : TRUE
  BY <1>4, SumEmpty
<1>6. SumFunctionOnSet(f, T \ {y}) = 0
  BY <1>3, <1>4, <1>5
<1>7. SumFunctionOnSet(f, T) = f[y] + SumFunctionOnSet(f, T \ {y})
  BY <1>1, <1>4, <1>5, SumWithout
<1>8. f[y] = 0
  BY <1>4, <1>5
<1> HIDE DEF B
<1> QED BY <1>4, <1>6, <1>7, <1>8

\* The elements of A that h puts in class s, and in one of the classes S
ClassOf(h, A, s) == {x \in A : h[x] = s}
Classed(h, A, S) == {x \in A : h[x] \in S}

\* Elements counted class by class.
LEMMA SumOfClasses ==
  ASSUME NEW A, IsFiniteSet(A), NEW S, IsFiniteSet(S), NEW h,
         NEW f, \A s \in S : f[s] = Cardinality(ClassOf(h, A, s))
  PROVE  SumFunctionOnSet(f, S) = Cardinality(Classed(h, A, S))
<1> USE DEF ClassOf, Classed
<1> DEFINE In(T) == {x \in A : h[x] \in T}
           B == {T \in SUBSET S : SumFunctionOnSet(f, T) # Cardinality(In(T))}
<1>0. \A T : IsFiniteSet(In(T)) /\ Cardinality(In(T)) \in Nat
  BY FS_Subset, FS_CardinalityType
<1>1. SUFFICES ASSUME B # {} PROVE FALSE
  OBVIOUS
<1>2. PICK T \in B : \A U \in B : U \subseteq T => U = T
  <2>1. B \subseteq SUBSET S
    OBVIOUS
  <2> HIDE DEF B
  <2> QED BY <1>1, <2>1, MinimalSubset
<1>3. T \subseteq S /\ IsFiniteSet(T) /\ SumFunctionOnSet(f, T) # Cardinality(In(T))
  BY FS_Subset
<1>4. T # {}
  <2>1. In({}) = {}
    OBVIOUS
  <2> HIDE DEF In
  <2> QED BY <1>3, <2>1, SumEmpty, FS_EmptySet
<1>5. PICK y \in T : TRUE
  BY <1>4
<1> DEFINE R == T \ {y}
           Y == {x \in A : h[x] = y}
<1>6. SumFunctionOnSet(f, R) = Cardinality(In(R))
  BY <1>2, <1>3, <1>5
<1>7. \A s \in T : f[s] \in Nat
  <2> SUFFICES ASSUME NEW s \in T
               PROVE  f[s] \in Nat
    OBVIOUS
  <2> DEFINE C == {x \in A : h[x] = s}
  <2>1. f[s] = Cardinality(C) /\ IsFiniteSet(C)
    BY <1>3, FS_Subset
  <2> HIDE DEF C
  <2> QED BY <2>1, FS_CardinalityType
<1>8. SumFunctionOnSet(f, T) = f[y] + SumFunctionOnSet(f, R)
  BY <1>3, <1>5, <1>7, SumWithout
<1>9. f[y] = Cardinality(Y) /\ IsFiniteSet(Y)
  BY <1>3, <1>5, FS_Subset
<1>10. In(T) = In(R) \cup Y /\ In(R) \cap Y = {}
  BY <1>5
<1> HIDE DEF In, R, Y, B
<1>11. Cardinality(In(R) \cup Y) = Cardinality(In(R)) + Cardinality(Y)
  <2>1. Cardinality(In(R) \cap Y) = 0
    BY <1>10, FS_EmptySet
  <2>2. Cardinality(In(R) \cup Y) = Cardinality(In(R)) + Cardinality(Y) - Cardinality(In(R) \cap Y)
    BY <1>0, <1>9, FS_Union
  <2>3. Cardinality(In(R)) \in Nat /\ Cardinality(Y) \in Nat
    BY <1>0, <1>9, FS_CardinalityType
  <2> QED BY <2>1, <2>2, <2>3
<1>12. Cardinality(In(R)) \in Nat /\ Cardinality(Y) \in Nat
  BY <1>0, <1>9, FS_CardinalityType
<1> QED BY <1>3, <1>6, <1>8, <1>9, <1>10, <1>11, <1>12

\* Two sets without a common element.
LEMMA SumDisjoint ==
  ASSUME NEW f, NEW S, NEW R, IsFiniteSet(S), IsFiniteSet(R), S \cap R = {},
         \A x \in S \cup R : f[x] \in Nat
  PROVE  SumFunctionOnSet(f, S \cup R) = SumFunctionOnSet(f, S) + SumFunctionOnSet(f, R)
<1> DEFINE Adds(s) == SumFunctionOnSet(f, S \cup s) = SumFunctionOnSet(f, S) + SumFunctionOnSet(f, s)
           B == {s \in SUBSET R : ~Adds(s)}
<1>1. SUFFICES ASSUME B # {} PROVE FALSE
  OBVIOUS
<1>2. PICK T \in B : \A U \in B : U \subseteq T => U = T
  <2>1. B \subseteq SUBSET R
    OBVIOUS
  <2> HIDE DEF B
  <2> QED BY <1>1, <2>1, MinimalSubset
<1>3. IsFiniteSet(T) /\ IsFiniteSet(S \cup T)
  BY FS_Subset, FS_Union
<1>4. SumFunctionOnSet(f, S) \in Nat
  BY SumNat
<1>5. CASE T = {}
  <2>1. S \cup {} = S
    OBVIOUS
  <2> QED BY <1>2, <1>4, <1>5, <2>1, SumEmpty
<1>6. CASE T # {}
  <2>1. PICK x \in T : TRUE
    BY <1>6
  <2>2. Adds(T \ {x})
    BY <1>2, <2>1
  <2>3. SumFunctionOnSet(f, T) = f[x] + SumFunctionOnSet(f, T \ {x})
    BY <1>3, <2>1, SumWithout
  <2>4. SumFunctionOnSet(f, S \cup T) = f[x] + SumFunctionOnSet(f, (S \cup T) \ {x})
    BY <1>3, <2>1, SumWithout
  <2>5. (S \cup T) \ {x} = S \cup (T \ {x})
    BY <2>1
  <2>6. SumFunctionOnSet(f, T \ {x}) \in Nat /\ f[x] \in Nat
    BY <1>3, <2>1, SumNat, FS_Subset
  <2>7. SumFunctionOnSet(f, (S \cup T) \ {x}) = SumFunctionOnSet(f, S) + SumFunctionOnSet(f, T \ {x})
    BY <2>2, <2>5
  <2>8. Adds(T)
    BY <1>4, <2>3, <2>4, <2>6, <2>7
  <2> QED BY <1>2, <2>8
<1> QED BY <1>5, <1>6

-----------------------------------------------------------------------------
(* The amounts of a set of payments or ledger entries                      *)

SumAmounts(payments) == SumFunction([p \in payments |-> p.amount])

LEMMA AmountsOnSet ==
  ASSUME NEW P, IsFiniteSet(P), NEW Q, P \subseteq Q
  PROVE  SumAmounts(P) = SumFunctionOnSet([p \in Q |-> p.amount], P)
<1> DEFINE f == [p \in P |-> p.amount]
           g == [p \in Q |-> p.amount]
<1>1. DOMAIN f = P /\ \A p \in P : f[p] = g[p]
  OBVIOUS
<1> HIDE DEF f, g
<1>2. SumFunctionOnSet(f, P) = SumFunctionOnSet(g, P)
  BY <1>1, SumSame
<1>3. SumAmounts(P) = SumFunctionOnSet(f, P)
  BY <1>1 DEF SumAmounts, SumFunction, f
<1> QED BY <1>2, <1>3 DEF g

LEMMA AmountsEmpty == SumAmounts({}) = 0
BY AmountsOnSet, SumEmpty, FS_EmptySet

LEMMA AmountsNat ==
  ASSUME NEW P, IsFiniteSet(P), \A p \in P : p.amount \in Nat
  PROVE  SumAmounts(P) \in Nat
<1> DEFINE f == [p \in P |-> p.amount]
<1>1. \A p \in P : f[p] \in Nat
  OBVIOUS
<1>2. SumAmounts(P) = SumFunctionOnSet(f, P)
  BY AmountsOnSet
<1> HIDE DEF f
<1> QED BY <1>1, <1>2, SumNat

\* One payment more.
LEMMA AmountsWith ==
  ASSUME NEW P, IsFiniteSet(P), \A p \in P : p.amount \in Nat,
         NEW x, x \notin P, x.amount \in Nat
  PROVE  SumAmounts(P \cup {x}) = SumAmounts(P) + x.amount
<1> DEFINE Q == P \cup {x}
           f == [p \in Q |-> p.amount]
<1>1. f[x] = x.amount /\ \A p \in Q : f[p] \in Nat
  OBVIOUS
<1>2. SumAmounts(P) = SumFunctionOnSet(f, P)
  BY AmountsOnSet
<1>3. IsFiniteSet(Q)
  BY FS_AddElement
<1>4. SumAmounts(Q) = SumFunctionOnSet(f, Q)
  BY <1>3, AmountsOnSet
<1>5. SumAmounts(P) \in Nat
  BY AmountsNat
<1> HIDE DEF f
<1>6. SumFunctionOnSet(f, Q) = f[x] + SumFunctionOnSet(f, P)
  BY <1>1, SumWith
<1> QED BY <1>1, <1>2, <1>4, <1>5, <1>6

\* One payment less.
LEMMA AmountsWithout ==
  ASSUME NEW P, IsFiniteSet(P), \A p \in P : p.amount \in Nat, NEW x \in P
  PROVE  SumAmounts(P) = SumAmounts(P \ {x}) + x.amount
<1>1. IsFiniteSet(P \ {x}) /\ P = (P \ {x}) \cup {x} /\ x \notin P \ {x}
  BY FS_RemoveElement
<1> QED BY <1>1, AmountsWith

\* Two sets of payments without a common one.
LEMMA AmountsDisjoint ==
  ASSUME NEW P, NEW R, IsFiniteSet(P), IsFiniteSet(R), P \cap R = {},
         \A p \in P \cup R : p.amount \in Nat
  PROVE  SumAmounts(P \cup R) = SumAmounts(P) + SumAmounts(R)
<1> DEFINE Q == P \cup R
           f == [p \in Q |-> p.amount]
<1>1. \A p \in Q : f[p] \in Nat
  OBVIOUS
<1>2. SumAmounts(P) = SumFunctionOnSet(f, P) /\ SumAmounts(R) = SumFunctionOnSet(f, R)
  BY AmountsOnSet
<1>3. IsFiniteSet(Q)
  BY FS_Union
<1>4. SumAmounts(Q) = SumFunctionOnSet(f, Q)
  BY <1>3, AmountsOnSet
<1> HIDE DEF f
<1> QED BY <1>1, <1>2, <1>4, SumDisjoint

\* The image of a finite set is finite.
LEMMA ImageFinite ==
  ASSUME NEW P, IsFiniteSet(P), NEW h, h = [p \in P |-> h[p]]
  PROVE  IsFiniteSet({h[p] : p \in P})
<1> DEFINE T == {h[p] : p \in P}
<1>1. h \in Surjection(P, T)
  BY DEF Surjection
<1> QED BY <1>1, FS_Surjection

\* Payments entered again, one by one and each under an entry of its own, have the same sum.
LEMMA AmountsImage ==
  ASSUME NEW P, IsFiniteSet(P), \A p \in P : p.amount \in Nat,
         NEW h, h = [p \in P |-> h[p]], \A p, q \in P : h[p] = h[q] => p = q,
         \A p \in P : h[p].amount = p.amount,
         NEW R, R = {h[p] : p \in P}
  PROVE  SumAmounts(R) = SumAmounts(P)
<1> DEFINE Same(s) == SumAmounts({h[p] : p \in s}) = SumAmounts(s)
           B == {s \in SUBSET P : ~Same(s)}
<1>1. SUFFICES ASSUME B # {} PROVE FALSE
  <2>1. Same(P) => SumAmounts(R) = SumAmounts(P)
    OBVIOUS
  <2>2. B = {} => Same(P)
    OBVIOUS
  <2> QED BY <2>1, <2>2
<1>2. PICK T \in B : \A U \in B : U \subseteq T => U = T
  <2>1. B \subseteq SUBSET P
    OBVIOUS
  <2> HIDE DEF B
  <2> QED BY <1>1, <2>1, MinimalSubset
<1>3. CASE T = {}
  <2>1. {h[p] : p \in {}} = {}
    OBVIOUS
  <2> QED BY <1>2, <1>3, <2>1
<1>4. CASE T # {}
  <2>1. PICK x \in T : TRUE
    BY <1>4
  <2> DEFINE S == T \ {x}
             I == {h[p] : p \in S}
  <2>2. Same(S)
    BY <1>2, <2>1
  <2>3. IsFiniteSet(S) /\ x \notin S /\ T = S \cup {x} /\ \A p \in S \cup {x} : p.amount \in Nat
    BY <2>1, FS_Subset
  <2>4. IsFiniteSet(I)
    <3> DEFINE k == [p \in S |-> h[p]]
    <3>1. k = [p \in S |-> k[p]] /\ {k[p] : p \in S} = I
      OBVIOUS
    <3> HIDE DEF k, I, S
    <3> QED BY <2>3, <3>1, ImageFinite
  <2>5. h[x] \notin I /\ {h[p] : p \in T} = I \cup {h[x]}
    BY <2>1
  <2>6. \A i \in I \cup {h[x]} : i.amount \in Nat
    BY <2>1
  <2> HIDE DEF I, S
  <2>7. SumAmounts(I \cup {h[x]}) = SumAmounts(I) + h[x].amount
    BY <2>4, <2>5, <2>6, AmountsWith
  <2>8. SumAmounts(T) = SumAmounts(S) + x.amount
    BY <2>3, AmountsWith
  <2>9. SumAmounts(I) = SumAmounts(S)
    BY <2>2 DEF I
  <2>10. Same(T)
    BY <2>1, <2>5, <2>7, <2>8, <2>9
  <2> QED BY <1>2, <2>10
<1> QED BY <1>3, <1>4
=============================================================================
