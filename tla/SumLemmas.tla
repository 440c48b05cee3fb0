----------------------------- MODULE SumLemmas -----------------------------
(***************************************************************************)
(* Sums over finite sets, as SumFunctionOnSet of the community modules     *)
(* computes them: an element at a time, in an order nobody chose.  The     *)
(* induction is over a set of sets, since no prover here instantiates an   *)
(* induction theorem over an operator.                                     *)
(***************************************************************************)
EXTENDS Integers, FiniteSets, FiniteSetsExt, Functions, FiniteSetTheorems, TLAPS

\* A family of sets that every set joins when each of its removals has, holds them all.
LEMMA FamilyOfAllSubsets ==
    ASSUME NEW U, IsFiniteSet(U), NEW G,
           {} \in G,
           \A T \in SUBSET U : T # {} /\ (\A x \in T : T \ {x} \in G) => T \in G
    PROVE  \A T \in SUBSET U : T \in G
<1> DEFINE Bad == {T \in SUBSET U : T \notin G}
<1> SUFFICES ASSUME Bad # {} PROVE FALSE
  OBVIOUS
<1>1. IsWellFoundedOn(StrictSubsetOrdering(U), SUBSET U)
  BY FS_StrictSubsetOrderingWellFounded, FS_FiniteSubsetsOfFinite
<1>2. Bad \subseteq SUBSET U
  OBVIOUS
<1>3. PICK T \in Bad : \A V \in Bad : ~ (<<V, T>> \in StrictSubsetOrdering(U))
  BY <1>1, <1>2, WFMin, Zenon
<1>4. ASSUME NEW x \in T PROVE T \ {x} \in G
  <2>1. T \ {x} \in SUBSET U /\ T \ {x} \subseteq T /\ T \ {x} # T /\ T \in SUBSET U
    OBVIOUS
  <2>2. <<T \ {x}, T>> \in StrictSubsetOrdering(U)
    BY <2>1 DEF StrictSubsetOrdering
  <2> QED BY <1>3, <2>1, <2>2
<1> QED BY <1>4

\* The fold's table of partial sums.
Chosen(s) == CHOOSE x \in s : TRUE
Adding(f, S, g) == [s \in SUBSET S |-> IF s = {} THEN 0 ELSE f[Chosen(s)] + g[s \ {Chosen(s)}]]
Adds(f, S, g) == g = Adding(f, S, g)

\* Any two tables of partial sums agree where both are defined.
LEMMA AddsAgree ==
    ASSUME NEW f, NEW S, NEW T, IsFiniteSet(S), NEW g, NEW k, Adds(f, S, g), Adds(f, T, k)
    PROVE  \A s \in SUBSET (S \cap T) : g[s] = k[s]
<1> DEFINE U == S \cap T
           G == {s \in SUBSET U : g[s] = k[s]}
<1>1. IsFiniteSet(U)
  BY FS_Intersection
<1>2. ASSUME NEW s \in SUBSET U, s # {}
      PROVE  /\ g[s] = f[Chosen(s)] + g[s \ {Chosen(s)}]
             /\ k[s] = f[Chosen(s)] + k[s \ {Chosen(s)}]
             /\ Chosen(s) \in s
  <2>1. s \in SUBSET S /\ s \in SUBSET T
    OBVIOUS
  <2>2. g[s] = Adding(f, S, g)[s] /\ k[s] = Adding(f, T, k)[s]
    BY DEF Adds
  <2>3. Chosen(s) \in s
    BY <1>2 DEF Chosen
  <2> QED BY <1>2, <2>1, <2>2, <2>3 DEF Adding
<1>3. g[{}] = 0 /\ k[{}] = 0
  <2>1. g[{}] = Adding(f, S, g)[{}] /\ k[{}] = Adding(f, T, k)[{}]
    BY DEF Adds
  <2>2. {} \in SUBSET S /\ {} \in SUBSET T
    OBVIOUS
  <2> QED BY <2>1, <2>2 DEF Adding
<1>4. {} \in G
  BY <1>3
<1>5. ASSUME NEW s \in SUBSET U, s # {}, \A x \in s : s \ {x} \in G
      PROVE  s \in G
  <2>1. g[s \ {Chosen(s)}] = k[s \ {Chosen(s)}]
    BY <1>2, <1>5
  <2> QED BY <1>2, <1>5, <2>1
<1> HIDE DEF G, U
<1>6. \A s \in SUBSET U : s \in G
  BY <1>1, <1>4, <1>5, FamilyOfAllSubsets
<1> QED BY <1>6 DEF G, U

\* Every finite set has a table of partial sums.
LEMMA AddsExist ==
    ASSUME NEW f, NEW U, IsFiniteSet(U)
    PROVE  \A S \in SUBSET U : \E g : Adds(f, S, g)
<1> DEFINE G == {S \in SUBSET U : \E g : Adds(f, S, g)}
<1>1. {} \in G
  <2> DEFINE g == [s \in SUBSET {} |-> 0]
  <2>1. Adding(f, {}, g) = g
    BY DEF Adding
  <2> QED BY <2>1 DEF Adds
<1>2. ASSUME NEW S \in SUBSET U, S # {}, \A x \in S : S \ {x} \in G
      PROVE  S \in G
  <2> DEFINE c == Chosen(S)
             R == S \ {c}
  <2>1. c \in S
    BY <1>2 DEF Chosen
  <2>2. IsFiniteSet(S)
    BY FS_Subset
  <2>3. \A x \in S : \E g : Adds(f, S \ {x}, g)
    BY <1>2
  <2> DEFINE T(x) == CHOOSE g : Adds(f, S \ {x}, g)
             val(s) == IF s = S THEN f[c] + T(c)[R]
                       ELSE LET x == CHOOSE y \in S : y \notin s IN T(x)[s]
             g == [s \in SUBSET S |-> val(s)]
  <2>4. \A x \in S : Adds(f, S \ {x}, T(x))
    BY <2>3
  <2> HIDE DEF T
  <2>5. ASSUME NEW x \in S, NEW y \in S, NEW s \in SUBSET S, x \notin s, y \notin s
        PROVE  T(x)[s] = T(y)[s]
    <3>1. s \in SUBSET ((S \ {x}) \cap (S \ {y})) /\ IsFiniteSet(S \ {x})
      BY <2>2, <2>5, FS_RemoveElement
    <3>2. Adds(f, S \ {x}, T(x)) /\ Adds(f, S \ {y}, T(y))
      BY <2>4
    <3>3. \A r \in SUBSET ((S \ {x}) \cap (S \ {y})) : T(x)[r] = T(y)[r]
      BY <3>1, <3>2, AddsAgree
    <3> QED BY <3>1, <3>3
  <2>6. ASSUME NEW s \in SUBSET S, NEW x \in S, x \notin s
        PROVE  g[s] = T(x)[s]
    <3>1. s # S
      BY <2>6
    <3>2. (CHOOSE y \in S : y \notin s) \in S /\ (CHOOSE y \in S : y \notin s) \notin s
      BY <2>6
    <3>3. g[s] = T(CHOOSE y \in S : y \notin s)[s]
      BY <3>1
    <3> QED BY <2>5, <2>6, <3>2, <3>3
  <2>7. ASSUME NEW s \in SUBSET S
        PROVE  g[s] = Adding(f, S, g)[s]
    <3>1. CASE s = S
      <4>1. g[s] = f[c] + T(c)[R]
        BY <3>1
      <4>2. g[R] = T(c)[R]
        BY <2>1, <2>6
      <4> QED BY <1>2, <3>1, <4>1, <4>2 DEF Adding
    <3>2. CASE s # S
      <4>1. PICK x \in S : x \notin s
        BY <3>2
      <4>2. g[s] = T(x)[s]
        BY <2>6, <4>1
      <4>3. T(x)[s] = Adding(f, S \ {x}, T(x))[s] /\ s \in SUBSET (S \ {x})
        BY <2>4, <4>1 DEF Adds
      <4>4. CASE s = {}
        BY <4>2, <4>3, <4>4 DEF Adding
      <4>5. CASE s # {}
        <5>1. T(x)[s] = f[Chosen(s)] + T(x)[s \ {Chosen(s)}]
          BY <4>3, <4>5 DEF Adding
        <5>2. g[s \ {Chosen(s)}] = T(x)[s \ {Chosen(s)}]
          BY <2>6, <4>1
        <5> HIDE DEF g
        <5> QED BY <4>2, <4>5, <5>1, <5>2 DEF Adding
      <4> QED BY <4>4, <4>5
    <3> QED BY <3>1, <3>2
  <2>8. DOMAIN g = SUBSET S /\ g = [s \in SUBSET S |-> g[s]]
    OBVIOUS
  <2>9. DOMAIN Adding(f, S, g) = SUBSET S
        /\ Adding(f, S, g) = [s \in SUBSET S |-> Adding(f, S, g)[s]]
    BY DEF Adding
  <2> HIDE DEF g
  <2>10. g = Adding(f, S, g)
    BY <2>7, <2>8, <2>9
  <2> QED BY <2>10 DEF Adds
<1> HIDE DEF G
<1>3. \A S \in SUBSET U : S \in G
  BY <1>1, <1>2, FamilyOfAllSubsets
<1> QED BY <1>3 DEF G

\* A sum is read from a table of partial sums.
LEMMA SumIsAdded ==
    ASSUME NEW f, NEW S, NEW g, IsFiniteSet(S), Adds(f, S, g)
    PROVE  SumFunctionOnSet(f, S) = g[S]
<1> DEFINE I == CHOOSE iter : iter = [s \in SUBSET S |->
                    IF s = {} THEN 0
                    ELSE f[CHOOSE x \in s : TRUE] + iter[s \ {CHOOSE x \in s : TRUE}]]
<1>1. SumFunctionOnSet(f, S) = I[S]
  BY DEF SumFunctionOnSet, FoldFunctionOnSet, MapThenFoldSet
<1>2. Adds(f, S, I)
  BY DEF Adds, Adding, Chosen
<1>3. I[S] = g[S]
  BY <1>2, AddsAgree
<1> QED BY <1>1, <1>3

\* The sum over nothing is zero; over more, an element and the sum of the rest.
LEMMA SumOfNothing ==
    ASSUME NEW f
    PROVE  SumFunctionOnSet(f, {}) = 0
<1>1. PICK g : Adds(f, {}, g)
  BY FS_EmptySet, AddsExist
<1>2. SumFunctionOnSet(f, {}) = g[{}]
  BY <1>1, FS_EmptySet, SumIsAdded
<1>3. g[{}] = Adding(f, {}, g)[{}]
  BY <1>1 DEF Adds
<1> QED BY <1>2, <1>3 DEF Adding

\* What the fold adds first: a chosen element, then the rest.
LEMMA SumIsFolded ==
    ASSUME NEW f, NEW S, IsFiniteSet(S), S # {}
    PROVE  /\ Chosen(S) \in S
           /\ SumFunctionOnSet(f, S) = f[Chosen(S)] + SumFunctionOnSet(f, S \ {Chosen(S)})
<1> DEFINE R == S \ {Chosen(S)}
<1>1. Chosen(S) \in S
  BY DEF Chosen
<1>2. PICK g : Adds(f, S, g)
  BY AddsExist
<1>3. IsFiniteSet(R)
  BY FS_RemoveElement
<1>4. PICK k : Adds(f, R, k)
  BY <1>3, AddsExist
<1>5. SumFunctionOnSet(f, S) = g[S] /\ SumFunctionOnSet(f, R) = k[R]
  BY <1>2, <1>3, <1>4, SumIsAdded
<1>6. R \in SUBSET (S \cap R)
  OBVIOUS
<1>7. g[R] = k[R]
  <2> HIDE DEF R
  <2>1. \A s \in SUBSET (S \cap R) : g[s] = k[s]
    BY <1>2, <1>4, AddsAgree
  <2> QED BY <1>6, <2>1
<1>8. g[S] = Adding(f, S, g)[S]
  BY <1>2 DEF Adds
<1>9. g[S] = f[Chosen(S)] + g[R]
  BY <1>8 DEF Adding
<1> QED BY <1>1, <1>5, <1>7, <1>9

\* Sums of integers are integers.
LEMMA SumType ==
    ASSUME NEW f, NEW S, IsFiniteSet(S), \A x \in S : f[x] \in Int
    PROVE  SumFunctionOnSet(f, S) \in Int
<1> DEFINE G == {T \in SUBSET S : SumFunctionOnSet(f, T) \in Int}
<1>1. {} \in G
  BY SumOfNothing
<1>2. ASSUME NEW T \in SUBSET S, T # {}, \A x \in T : T \ {x} \in G
      PROVE  T \in G
  <2>1. IsFiniteSet(T)
    BY FS_Subset
  <2>2. /\ Chosen(T) \in T
        /\ SumFunctionOnSet(f, T) = f[Chosen(T)] + SumFunctionOnSet(f, T \ {Chosen(T)})
    BY <1>2, <2>1, SumIsFolded
  <2>3. SumFunctionOnSet(f, T \ {Chosen(T)}) \in Int /\ f[Chosen(T)] \in Int
    BY <1>2, <2>2
  <2> QED BY <2>2, <2>3
<1> HIDE DEF G
<1>3. \A T \in SUBSET S : T \in G
  BY <1>1, <1>2, FamilyOfAllSubsets
<1> QED BY <1>3 DEF G

\* Any element may be the one taken out: the order of the fold does not matter.
LEMMA SumWithout ==
    ASSUME NEW f, NEW S, IsFiniteSet(S), \A x \in S : f[x] \in Int, NEW x \in S
    PROVE  SumFunctionOnSet(f, S) = f[x] + SumFunctionOnSet(f, S \ {x})
<1> DEFINE G == {T \in SUBSET S : \A y \in T :
                    SumFunctionOnSet(f, T) = f[y] + SumFunctionOnSet(f, T \ {y})}
<1>1. {} \in G
  OBVIOUS
<1>2. ASSUME NEW T \in SUBSET S, T # {}, \A y \in T : T \ {y} \in G
      PROVE  T \in G
  <2> DEFINE c == Chosen(T)
  <2>1. IsFiniteSet(T)
    BY FS_Subset
  <2>2. c \in T /\ SumFunctionOnSet(f, T) = f[c] + SumFunctionOnSet(f, T \ {c})
    BY <1>2, <2>1, SumIsFolded
  <2> HIDE DEF c
  <2>3. ASSUME NEW y \in T, y # c
        PROVE  SumFunctionOnSet(f, T) = f[y] + SumFunctionOnSet(f, T \ {y})
    <3> DEFINE R == (T \ {c}) \ {y}
    <3>1. SumFunctionOnSet(f, T \ {c}) = f[y] + SumFunctionOnSet(f, R)
      BY <1>2, <2>2, <2>3
    <3>2. R = (T \ {y}) \ {c}
      OBVIOUS
    <3>3. SumFunctionOnSet(f, T \ {y}) = f[c] + SumFunctionOnSet(f, R)
      BY <1>2, <2>2, <2>3, <3>2
    <3>4. IsFiniteSet(R) /\ R \subseteq S
      BY <2>1, FS_RemoveElement
    <3>5. SumFunctionOnSet(f, R) \in Int /\ f[y] \in Int /\ f[c] \in Int
      BY <2>2, <3>4, SumType
    <3> HIDE DEF R
    <3> QED BY <2>2, <3>1, <3>3, <3>5
  <2> QED BY <2>2, <2>3
<1> HIDE DEF G
<1>3. \A T \in SUBSET S : T \in G
  BY <1>1, <1>2, FamilyOfAllSubsets
<1> QED BY <1>3 DEF G

\* An element more adds its value.
LEMMA SumWith ==
    ASSUME NEW f, NEW S, IsFiniteSet(S), NEW x, x \notin S, \A y \in S \cup {x} : f[y] \in Int
    PROVE  SumFunctionOnSet(f, S \cup {x}) = SumFunctionOnSet(f, S) + f[x]
<1>1. IsFiniteSet(S \cup {x})
  BY FS_AddElement
<1>2. (S \cup {x}) \ {x} = S /\ x \in S \cup {x}
  OBVIOUS
<1>3. SumFunctionOnSet(f, S \cup {x}) = f[x] + SumFunctionOnSet(f, (S \cup {x}) \ {x})
  BY <1>1, <1>2, SumWithout
<1>4. SumFunctionOnSet(f, S) \in Int /\ f[x] \in Int
  BY SumType
<1>5. SumFunctionOnSet(f, (S \cup {x}) \ {x}) = SumFunctionOnSet(f, S)
  BY <1>2, Zenon
<1> QED BY <1>3, <1>4, <1>5

\* Only the values in the set matter.
LEMMA SumSame ==
    ASSUME NEW f, NEW g, NEW S, IsFiniteSet(S), \A x \in S : f[x] = g[x]
    PROVE  SumFunctionOnSet(f, S) = SumFunctionOnSet(g, S)
<1> DEFINE G == {T \in SUBSET S : SumFunctionOnSet(f, T) = SumFunctionOnSet(g, T)}
<1>1. {} \in G
  BY SumOfNothing
<1>2. ASSUME NEW T \in SUBSET S, T # {}, \A x \in T : T \ {x} \in G
      PROVE  T \in G
  <2>1. IsFiniteSet(T)
    BY FS_Subset
  <2>2. /\ Chosen(T) \in T
        /\ SumFunctionOnSet(f, T) = f[Chosen(T)] + SumFunctionOnSet(f, T \ {Chosen(T)})
        /\ SumFunctionOnSet(g, T) = g[Chosen(T)] + SumFunctionOnSet(g, T \ {Chosen(T)})
    BY <1>2, <2>1, SumIsFolded
  <2> QED BY <1>2, <2>2
<1> HIDE DEF G
<1>3. \A T \in SUBSET S : T \in G
  BY <1>1, <1>2, FamilyOfAllSubsets
<1> QED BY <1>3 DEF G

\* The sum over two parts of a set is the sum over the set.
LEMMA SumOfParts ==
    ASSUME NEW f, NEW S, IsFiniteSet(S), \A x \in S : f[x] \in Int, NEW P \in SUBSET S
    PROVE  SumFunctionOnSet(f, S) = SumFunctionOnSet(f, P) + SumFunctionOnSet(f, S \ P)
<1> DEFINE G == {T \in SUBSET P : SumFunctionOnSet(f, S) =
                    SumFunctionOnSet(f, T) + SumFunctionOnSet(f, S \ T)}
<1>1. IsFiniteSet(P)
  BY FS_Subset
<1>2. {} \in G
  <2>1. S \ {} = S /\ SumFunctionOnSet(f, {}) = 0 /\ SumFunctionOnSet(f, S) \in Int
    BY SumOfNothing, SumType
  <2> QED BY <2>1
<1>3. ASSUME NEW T \in SUBSET P, T # {}, \A x \in T : T \ {x} \in G
      PROVE  T \in G
  <2>1. PICK x \in T : TRUE
    BY <1>3
  <2> DEFINE R == T \ {x}
             Q == S \ T
  <2>2. IsFiniteSet(T) /\ IsFiniteSet(R) /\ IsFiniteSet(Q) /\ T \subseteq S
    BY <1>1, FS_Subset, FS_RemoveElement, FS_Difference
  <2>3. SumFunctionOnSet(f, S) = SumFunctionOnSet(f, R) + SumFunctionOnSet(f, S \ R)
    BY <1>3
  <2>4. S \ R = Q \cup {x} /\ x \notin Q
    BY <2>2
  <2>5. SumFunctionOnSet(f, T) = f[x] + SumFunctionOnSet(f, R)
    BY <2>2, SumWithout
  <2>6. SumFunctionOnSet(f, Q \cup {x}) = SumFunctionOnSet(f, Q) + f[x]
    BY <2>2, <2>4, SumWith
  <2>7. SumFunctionOnSet(f, R) \in Int /\ SumFunctionOnSet(f, Q) \in Int /\ f[x] \in Int
    BY <2>2, SumType
  <2>8. SumFunctionOnSet(f, S \ R) = SumFunctionOnSet(f, Q \cup {x})
    BY <2>4, Zenon
  <2> HIDE DEF R, Q
  <2>9. SumFunctionOnSet(f, S) = SumFunctionOnSet(f, T) + SumFunctionOnSet(f, Q)
    BY <2>3, <2>5, <2>6, <2>7, <2>8
  <2> QED BY <2>9 DEF Q
<1> HIDE DEF G
<1>4. \A T \in SUBSET P : T \in G
  BY <1>1, <1>2, <1>3, FamilyOfAllSubsets
<1> QED BY <1>4 DEF G

\* Summing two columns together is summing each.
LEMMA SumOfSums ==
    ASSUME NEW f, NEW g, NEW k, NEW S, IsFiniteSet(S),
           \A x \in S : f[x] \in Int /\ g[x] \in Int /\ k[x] = f[x] + g[x]
    PROVE  SumFunctionOnSet(k, S) = SumFunctionOnSet(f, S) + SumFunctionOnSet(g, S)
<1> DEFINE G == {T \in SUBSET S : SumFunctionOnSet(k, T) =
                    SumFunctionOnSet(f, T) + SumFunctionOnSet(g, T)}
<1>1. {} \in G
  BY SumOfNothing
<1>2. ASSUME NEW T \in SUBSET S, T # {}, \A x \in T : T \ {x} \in G
      PROVE  T \in G
  <2> DEFINE c == Chosen(T)
             R == T \ {c}
  <2>1. IsFiniteSet(T) /\ IsFiniteSet(R)
    BY FS_Subset, FS_RemoveElement
  <2>2. /\ c \in T
        /\ SumFunctionOnSet(f, T) = f[c] + SumFunctionOnSet(f, R)
        /\ SumFunctionOnSet(g, T) = g[c] + SumFunctionOnSet(g, R)
        /\ SumFunctionOnSet(k, T) = k[c] + SumFunctionOnSet(k, R)
    BY <1>2, <2>1, SumIsFolded
  <2>3. SumFunctionOnSet(k, R) = SumFunctionOnSet(f, R) + SumFunctionOnSet(g, R)
    BY <1>2, <2>2
  <2>4. /\ SumFunctionOnSet(f, R) \in Int /\ SumFunctionOnSet(g, R) \in Int
        /\ f[c] \in Int /\ g[c] \in Int /\ k[c] = f[c] + g[c]
    BY <2>1, <2>2, SumType
  <2> HIDE DEF c, R
  <2> QED BY <2>2, <2>3, <2>4
<1> HIDE DEF G
<1>3. \A T \in SUBSET S : T \in G
  BY <1>1, <1>2, FamilyOfAllSubsets
<1> QED BY <1>3 DEF G

\* A column nowhere above another sums to no more.
LEMMA SumNoMore ==
    ASSUME NEW f, NEW g, NEW S, IsFiniteSet(S),
           \A x \in S : f[x] \in Int /\ g[x] \in Int /\ f[x] <= g[x]
    PROVE  SumFunctionOnSet(f, S) <= SumFunctionOnSet(g, S)
<1> DEFINE G == {T \in SUBSET S : SumFunctionOnSet(f, T) <= SumFunctionOnSet(g, T)}
<1>1. {} \in G
  BY SumOfNothing
<1>2. ASSUME NEW T \in SUBSET S, T # {}, \A x \in T : T \ {x} \in G
      PROVE  T \in G
  <2> DEFINE c == Chosen(T)
             R == T \ {c}
  <2>1. IsFiniteSet(T) /\ IsFiniteSet(R)
    BY FS_Subset, FS_RemoveElement
  <2>2. /\ c \in T
        /\ SumFunctionOnSet(f, T) = f[c] + SumFunctionOnSet(f, R)
        /\ SumFunctionOnSet(g, T) = g[c] + SumFunctionOnSet(g, R)
    BY <1>2, <2>1, SumIsFolded
  <2>3. SumFunctionOnSet(f, R) <= SumFunctionOnSet(g, R)
    BY <1>2, <2>2
  <2>4. /\ SumFunctionOnSet(f, R) \in Int /\ SumFunctionOnSet(g, R) \in Int
        /\ f[c] \in Int /\ g[c] \in Int /\ f[c] <= g[c]
    BY <2>1, <2>2, SumType
  <2> HIDE DEF c, R
  <2> QED BY <2>2, <2>3, <2>4
<1> HIDE DEF G
<1>3. \A T \in SUBSET S : T \in G
  BY <1>1, <1>2, FamilyOfAllSubsets
<1> QED BY <1>3 DEF G

\* Zeroes sum to zero, and what is never negative sums to nothing negative.
LEMMA SumOfZeroes ==
    ASSUME NEW f, NEW S, IsFiniteSet(S), \A x \in S : f[x] = 0
    PROVE  SumFunctionOnSet(f, S) = 0
<1> DEFINE G == {T \in SUBSET S : SumFunctionOnSet(f, T) = 0}
<1>1. {} \in G
  BY SumOfNothing
<1>2. ASSUME NEW T \in SUBSET S, T # {}, \A x \in T : T \ {x} \in G
      PROVE  T \in G
  <2>1. IsFiniteSet(T)
    BY FS_Subset
  <2>2. /\ Chosen(T) \in T
        /\ SumFunctionOnSet(f, T) = f[Chosen(T)] + SumFunctionOnSet(f, T \ {Chosen(T)})
    BY <1>2, <2>1, SumIsFolded
  <2>3. SumFunctionOnSet(f, T \ {Chosen(T)}) = 0 /\ f[Chosen(T)] = 0
    BY <1>2, <2>2
  <2> QED BY <2>2, <2>3
<1> HIDE DEF G
<1>3. \A T \in SUBSET S : T \in G
  BY <1>1, <1>2, FamilyOfAllSubsets
<1> QED BY <1>3 DEF G

\* A sum of naturals is a natural.
LEMMA SumOfNaturals ==
    ASSUME NEW f, NEW S, IsFiniteSet(S), \A x \in S : f[x] \in Nat
    PROVE  SumFunctionOnSet(f, S) \in Nat
<1> DEFINE zero == [x \in S |-> 0]
<1>1. SumFunctionOnSet(zero, S) = 0
  BY SumOfZeroes
<1>2. \A x \in S : zero[x] \in Int /\ f[x] \in Int /\ zero[x] <= f[x]
  OBVIOUS
<1> HIDE DEF zero
<1>3. SumFunctionOnSet(zero, S) <= SumFunctionOnSet(f, S)
  BY <1>2, SumNoMore
<1>4. SumFunctionOnSet(f, S) \in Int
  BY SumType
<1> QED BY <1>1, <1>3, <1>4

\* A column read one to one from another sums to no more than it.
LEMMA SumInjected ==
    ASSUME NEW a, NEW b, NEW g, NEW S, NEW T, IsFiniteSet(S), IsFiniteSet(T),
           \A n \in S : g[n] \in T /\ a[n] = b[g[n]],
           \A n, m \in S : g[n] = g[m] => n = m,
           \A h \in T : b[h] \in Nat
    PROVE  SumFunctionOnSet(a, S) <= SumFunctionOnSet(b, T)
<1> DEFINE G == {U \in SUBSET S : \A V \in SUBSET T : (\A n \in U : g[n] \in V)
                    => SumFunctionOnSet(a, U) <= SumFunctionOnSet(b, V)}
<1>1. {} \in G
  <2> SUFFICES ASSUME NEW V \in SUBSET T
               PROVE  SumFunctionOnSet(a, {}) <= SumFunctionOnSet(b, V)
    OBVIOUS
  <2>1. SumFunctionOnSet(b, V) \in Nat
    BY FS_Subset, SumOfNaturals
  <2> QED BY <2>1, SumOfNothing
<1>2. ASSUME NEW U \in SUBSET S, U # {}, \A x \in U : U \ {x} \in G
      PROVE  U \in G
  <2> SUFFICES ASSUME NEW V \in SUBSET T, \A n \in U : g[n] \in V
               PROVE  SumFunctionOnSet(a, U) <= SumFunctionOnSet(b, V)
    OBVIOUS
  <2> DEFINE c == Chosen(U)
             R == U \ {c}
             W == V \ {g[c]}
  <2>1. IsFiniteSet(U) /\ IsFiniteSet(R) /\ IsFiniteSet(V) /\ IsFiniteSet(W)
    BY FS_Subset, FS_RemoveElement
  <2>2. c \in U /\ SumFunctionOnSet(a, U) = a[c] + SumFunctionOnSet(a, R)
    BY <1>2, <2>1, SumIsFolded
  <2>3. g[c] \in V /\ SumFunctionOnSet(b, V) = b[g[c]] + SumFunctionOnSet(b, W)
    BY <2>1, <2>2, SumWithout
  <2>4. \A n \in R : g[n] \in W
    BY <2>2
  <2>5. SumFunctionOnSet(a, R) <= SumFunctionOnSet(b, W)
    BY <1>2, <2>2, <2>4
  <2>6. \A n \in R : a[n] \in Int
    OBVIOUS
  <2>7. /\ SumFunctionOnSet(a, R) \in Int /\ SumFunctionOnSet(b, W) \in Int
        /\ a[c] = b[g[c]] /\ b[g[c]] \in Int
    BY <2>1, <2>2, <2>3, <2>6, SumType
  <2> HIDE DEF c, R, W
  <2> QED BY <2>2, <2>3, <2>5, <2>7
<1> HIDE DEF G
<1>3. \A U \in SUBSET S : U \in G
  BY <1>1, <1>2, FamilyOfAllSubsets
<1> QED BY <1>3 DEF G

\* Of finitely many naturals, nought among them, one is the greatest.
LEMMA GreatestOfColumn ==
    ASSUME NEW f, NEW S, IsFiniteSet(S), \A x \in S : f[x] \in Nat
    PROVE  \E m \in {0} \cup {f[x] : x \in S} : \A y \in {0} \cup {f[x] : x \in S} : m >= y
<1> DEFINE G == {T \in SUBSET S : \E m \in Nat :
                    /\ m = 0 \/ \E x \in T : m = f[x]
                    /\ \A x \in T : m >= f[x]}
<1>1. {} \in G
  OBVIOUS
<1>2. ASSUME NEW T \in SUBSET S, T # {}, \A x \in T : T \ {x} \in G
      PROVE  T \in G
  <2>1. PICK c \in T : TRUE
    BY <1>2
  <2>2. PICK m \in Nat : /\ m = 0 \/ \E x \in T \ {c} : m = f[x]
                         /\ \A x \in T \ {c} : m >= f[x]
    BY <1>2
  <2>3. CASE m >= f[c]
    BY <2>1, <2>2, <2>3
  <2>4. CASE ~ (m >= f[c])
    BY <2>1, <2>2, <2>4
  <2> QED BY <2>3, <2>4
<1> HIDE DEF G
<1>3. \A T \in SUBSET S : T \in G
  BY <1>1, <1>2, FamilyOfAllSubsets
<1>4. PICK m \in Nat : (m = 0 \/ \E x \in S : m = f[x]) /\ \A x \in S : m >= f[x]
  BY <1>3 DEF G
<1> QED BY <1>4

\* Sums that differ in one term alone differ by that term.
LEMMA SumBeside ==
    ASSUME NEW f, NEW g, NEW U, IsFiniteSet(U), NEW P \in SUBSET U, NEW Q \in SUBSET U, NEW c \in U,
           \A x \in U : f[x] \in Int /\ g[x] \in Int,
           \A x \in U : x # c => f[x] = g[x],
           P \ {c} = Q \ {c}
    PROVE  SumFunctionOnSet(f, P) - (IF c \in P THEN f[c] ELSE 0)
           = SumFunctionOnSet(g, Q) - (IF c \in Q THEN g[c] ELSE 0)
<1>1. IsFiniteSet(P) /\ IsFiniteSet(Q) /\ IsFiniteSet(P \ {c})
  BY FS_Subset
<1>2. SumFunctionOnSet(f, P \ {c}) = SumFunctionOnSet(g, P \ {c})
  <2>1. \A x \in P \ {c} : f[x] = g[x]
    OBVIOUS
  <2> QED BY <1>1, <2>1, SumSame
<1>3. SumFunctionOnSet(g, P \ {c}) = SumFunctionOnSet(g, Q \ {c})
  OBVIOUS
<1>4. SumFunctionOnSet(f, P) = SumFunctionOnSet(f, P \ {c}) + (IF c \in P THEN f[c] ELSE 0)
  <2>1. SumFunctionOnSet(f, P \ {c}) \in Int
    BY <1>1, SumType
  <2>2. CASE c \in P
    BY <1>1, <2>1, <2>2, SumWithout
  <2>3. CASE c \notin P
    <3>1. P \ {c} = P
      BY <2>3
    <3>2. SumFunctionOnSet(f, P \ {c}) = SumFunctionOnSet(f, P)
      BY <3>1
    <3> QED BY <2>1, <2>3, <3>2
  <2> QED BY <2>2, <2>3
<1>5. SumFunctionOnSet(g, Q) = SumFunctionOnSet(g, Q \ {c}) + (IF c \in Q THEN g[c] ELSE 0)
  <2>1. SumFunctionOnSet(g, Q \ {c}) \in Int
    BY <1>1, <1>2, <1>3, SumType
  <2>2. CASE c \in Q
    BY <1>1, <2>1, <2>2, SumWithout
  <2>3. CASE c \notin Q
    <3>1. Q \ {c} = Q
      BY <2>3
    <3>2. SumFunctionOnSet(g, Q \ {c}) = SumFunctionOnSet(g, Q)
      BY <3>1
    <3> QED BY <2>1, <2>3, <3>2
  <2> QED BY <2>2, <2>3
<1>6. SumFunctionOnSet(f, P \ {c}) \in Int /\ (IF c \in P THEN f[c] ELSE 0) \in Int
      /\ (IF c \in Q THEN g[c] ELSE 0) \in Int
  BY <1>1, SumType
<1> QED BY <1>2, <1>3, <1>4, <1>5, <1>6

\* Rows grouped by a column sum to what they sum to together.
LEMMA SumByColumn ==
    ASSUME NEW f, NEW col, NEW E, NEW S, IsFiniteSet(E), IsFiniteSet(S),
           \A x \in S : f[x] \in Int /\ col[x] \in E
    PROVE  SumFunctionOnSet([e \in E |-> SumFunctionOnSet(f, {x \in S : col[x] = e})], E)
           = SumFunctionOnSet(f, S)
<1> DEFINE of(T, e) == {x \in T : col[x] = e}
           groups(T) == [e \in E |-> SumFunctionOnSet(f, of(T, e))]
           G == {T \in SUBSET S : SumFunctionOnSet(groups(T), E) = SumFunctionOnSet(f, T)}
<1>1. {} \in G
  <2>1. \A e \in E : of({}, e) = {}
    OBVIOUS
  <2>2. \A e \in E : groups({})[e] = 0
    BY <2>1, SumOfNothing
  <2> HIDE DEF groups
  <2>3. SumFunctionOnSet(groups({}), E) = 0
    BY <2>2, SumOfZeroes
  <2> QED BY <2>3, SumOfNothing
<1>2. ASSUME NEW T \in SUBSET S, T # {}, \A x \in T : T \ {x} \in G
      PROVE  T \in G
  <2> DEFINE c == Chosen(T)
             R == T \ {c}
             single == [e \in E |-> IF e = col[c] THEN f[c] ELSE 0]
  <2>1. IsFiniteSet(T) /\ IsFiniteSet(R)
    BY FS_Subset, FS_RemoveElement
  <2>2. c \in T /\ SumFunctionOnSet(f, T) = f[c] + SumFunctionOnSet(f, R)
    BY <1>2, <2>1, SumIsFolded
  <2>3. SumFunctionOnSet(groups(R), E) = SumFunctionOnSet(f, R)
    BY <1>2, <2>2
  <2>4. f[c] \in Int /\ col[c] \in E
    BY <2>2
  <2> HIDE DEF c
  <2>5. ASSUME NEW e \in E
        PROVE  /\ groups(R)[e] \in Int /\ single[e] \in Int
               /\ groups(T)[e] = groups(R)[e] + single[e]
    <3> DEFINE A == of(T, e)
               B == of(R, e)
    <3>1. groups(T)[e] = SumFunctionOnSet(f, A) /\ groups(R)[e] = SumFunctionOnSet(f, B)
      OBVIOUS
    <3>2. A \subseteq T /\ B \subseteq T /\ \A x \in A : f[x] \in Int
      OBVIOUS
    <3>3. IsFiniteSet(A) /\ IsFiniteSet(B) /\ \A x \in B : f[x] \in Int
      BY <2>1, <3>2, FS_Subset
    <3>4. CASE e = col[c]
      <4>1. c \in A /\ B = A \ {c}
        BY <2>2, <3>4
      <4> HIDE DEF A, B
      <4>2. SumFunctionOnSet(f, A) = f[c] + SumFunctionOnSet(f, A \ {c})
        BY <3>2, <3>3, <4>1, SumWithout
      <4>3. SumFunctionOnSet(f, B) \in Int /\ single[e] = f[c]
        BY <3>3, <3>4, SumType
      <4> QED BY <2>4, <3>1, <4>1, <4>2, <4>3
    <3>5. CASE e # col[c]
      <4>1. B = A
        BY <3>5
      <4> HIDE DEF A, B
      <4>2. SumFunctionOnSet(f, B) \in Int /\ single[e] = 0
        BY <3>3, <3>5, SumType
      <4> QED BY <3>1, <4>1, <4>2
    <3> QED BY <3>4, <3>5
  <2>6. SumFunctionOnSet(single, E) = f[c]
    <3>1. single[col[c]] = f[c] /\ \A e \in E \ {col[c]} : single[e] = 0
      BY <2>4
    <3>2. \A e \in E : single[e] \in Int
      BY <2>4
    <3>3. IsFiniteSet(E \ {col[c]})
      BY FS_RemoveElement
    <3> HIDE DEF single
    <3>4. SumFunctionOnSet(single, E \ {col[c]}) = 0
      BY <3>1, <3>3, SumOfZeroes
    <3>5. SumFunctionOnSet(single, E)
          = single[col[c]] + SumFunctionOnSet(single, E \ {col[c]})
      BY <2>4, <3>2, SumWithout
    <3> QED BY <2>4, <3>1, <3>4, <3>5
  <2> HIDE DEF groups, single
  <2>7. SumFunctionOnSet(groups(T), E) = SumFunctionOnSet(groups(R), E) + SumFunctionOnSet(single, E)
    <3> DEFINE k == groups(T)
               g == groups(R)
    <3>1. \A e \in E : g[e] \in Int /\ single[e] \in Int /\ k[e] = g[e] + single[e]
      BY <2>5
    <3> HIDE DEF k, g
    <3>2. SumFunctionOnSet(k, E) = SumFunctionOnSet(g, E) + SumFunctionOnSet(single, E)
      BY <3>1, SumOfSums
    <3> QED BY <3>2 DEF k, g
  <2>8. SumFunctionOnSet(f, R) \in Int
    BY <2>1, SumType
  <2> HIDE DEF R
  <2> QED BY <2>2, <2>3, <2>4, <2>6, <2>7, <2>8
<1> HIDE DEF G
<1>3. \A T \in SUBSET S : T \in G
  BY <1>1, <1>2, FamilyOfAllSubsets
<1>4. SumFunctionOnSet(groups(S), E) = SumFunctionOnSet(f, S)
  BY <1>3 DEF G
<1> QED BY <1>4

(***************************************************************************)
(* Folds over a finite set that stay in a set.                             *)
(***************************************************************************)

\* A fold's table: what it has made of each part of the set.
Folding(G, base, S, g) ==
    [s \in SUBSET S |-> IF s = {} THEN base ELSE G[<<Chosen(s), g[s \ {Chosen(s)}]>>]]
Folds(G, base, S, g) == g = Folding(G, base, S, g)

\* Any two tables of a fold agree where both are defined.
LEMMA FoldsAgree ==
    ASSUME NEW G, NEW base, NEW S, NEW T, IsFiniteSet(S),
           NEW g, NEW k, Folds(G, base, S, g), Folds(G, base, T, k)
    PROVE  \A s \in SUBSET (S \cap T) : g[s] = k[s]
<1> DEFINE U == S \cap T
           Q == {s \in SUBSET U : g[s] = k[s]}
<1>1. IsFiniteSet(U)
  BY FS_Intersection
<1>2. ASSUME NEW s \in SUBSET U, s # {}
      PROVE  /\ g[s] = G[<<Chosen(s), g[s \ {Chosen(s)}]>>]
             /\ k[s] = G[<<Chosen(s), k[s \ {Chosen(s)}]>>]
             /\ Chosen(s) \in s
  <2>1. s \in SUBSET S /\ s \in SUBSET T
    OBVIOUS
  <2>2. g[s] = Folding(G, base, S, g)[s] /\ k[s] = Folding(G, base, T, k)[s]
    BY DEF Folds
  <2>3. Chosen(s) \in s
    BY <1>2 DEF Chosen
  <2> QED BY <1>2, <2>1, <2>2, <2>3 DEF Folding
<1>3. g[{}] = base /\ k[{}] = base
  <2>1. g[{}] = Folding(G, base, S, g)[{}] /\ k[{}] = Folding(G, base, T, k)[{}]
    BY DEF Folds
  <2>2. {} \in SUBSET S /\ {} \in SUBSET T
    OBVIOUS
  <2> QED BY <2>1, <2>2 DEF Folding
<1>4. {} \in Q
  BY <1>3
<1>5. ASSUME NEW s \in SUBSET U, s # {}, \A x \in s : s \ {x} \in Q
      PROVE  s \in Q
  <2>1. g[s \ {Chosen(s)}] = k[s \ {Chosen(s)}]
    BY <1>2, <1>5
  <2> QED BY <1>2, <1>5, <2>1
<1> HIDE DEF Q, U
<1>6. \A s \in SUBSET U : s \in Q
  BY <1>1, <1>4, <1>5, FamilyOfAllSubsets
<1> QED BY <1>6 DEF Q, U

\* Every finite set has a table of the fold.
LEMMA FoldsExist ==
    ASSUME NEW G, NEW base, NEW U, IsFiniteSet(U)
    PROVE  \A S \in SUBSET U : \E g : Folds(G, base, S, g)
<1> DEFINE Q == {S \in SUBSET U : \E g : Folds(G, base, S, g)}
<1>1. {} \in Q
  <2> DEFINE g == [s \in SUBSET {} |-> base]
  <2>1. Folding(G, base, {}, g) = g
    BY DEF Folding
  <2> QED BY <2>1 DEF Folds
<1>2. ASSUME NEW S \in SUBSET U, S # {}, \A x \in S : S \ {x} \in Q
      PROVE  S \in Q
  <2> DEFINE c == Chosen(S)
             R == S \ {c}
  <2>1. c \in S
    BY <1>2 DEF Chosen
  <2>2. IsFiniteSet(S)
    BY FS_Subset
  <2>3. \A x \in S : \E g : Folds(G, base, S \ {x}, g)
    BY <1>2
  <2> DEFINE T(x) == CHOOSE g : Folds(G, base, S \ {x}, g)
             val(s) == IF s = S THEN G[<<c, T(c)[R]>>]
                       ELSE LET x == CHOOSE y \in S : y \notin s IN T(x)[s]
             g == [s \in SUBSET S |-> val(s)]
  <2>4. \A x \in S : Folds(G, base, S \ {x}, T(x))
    BY <2>3
  <2> HIDE DEF T
  <2>5. ASSUME NEW x \in S, NEW y \in S, NEW s \in SUBSET S, x \notin s, y \notin s
        PROVE  T(x)[s] = T(y)[s]
    <3>1. s \in SUBSET ((S \ {x}) \cap (S \ {y})) /\ IsFiniteSet(S \ {x})
      BY <2>2, <2>5, FS_RemoveElement
    <3>2. Folds(G, base, S \ {x}, T(x)) /\ Folds(G, base, S \ {y}, T(y))
      BY <2>4
    <3>3. \A r \in SUBSET ((S \ {x}) \cap (S \ {y})) : T(x)[r] = T(y)[r]
      BY <3>1, <3>2, FoldsAgree
    <3> QED BY <3>1, <3>3
  <2>6. ASSUME NEW s \in SUBSET S, NEW x \in S, x \notin s
        PROVE  g[s] = T(x)[s]
    <3>1. s # S
      BY <2>6
    <3>2. (CHOOSE y \in S : y \notin s) \in S /\ (CHOOSE y \in S : y \notin s) \notin s
      BY <2>6
    <3>3. g[s] = T(CHOOSE y \in S : y \notin s)[s]
      BY <3>1
    <3> QED BY <2>5, <2>6, <3>2, <3>3
  <2>7. ASSUME NEW s \in SUBSET S
        PROVE  g[s] = Folding(G, base, S, g)[s]
    <3>1. CASE s = S
      <4>1. g[s] = G[<<c, T(c)[R]>>]
        BY <3>1
      <4>2. g[R] = T(c)[R]
        BY <2>1, <2>6
      <4> QED BY <1>2, <3>1, <4>1, <4>2 DEF Folding
    <3>2. CASE s # S
      <4>1. PICK x \in S : x \notin s
        BY <3>2
      <4>2. g[s] = T(x)[s]
        BY <2>6, <4>1
      <4>3. T(x)[s] = Folding(G, base, S \ {x}, T(x))[s] /\ s \in SUBSET (S \ {x})
        BY <2>4, <4>1 DEF Folds
      <4>4. CASE s = {}
        BY <4>2, <4>3, <4>4 DEF Folding
      <4>5. CASE s # {}
        <5>1. T(x)[s] = G[<<Chosen(s), T(x)[s \ {Chosen(s)}]>>]
          BY <4>3, <4>5 DEF Folding
        <5>2. g[s \ {Chosen(s)}] = T(x)[s \ {Chosen(s)}]
          BY <2>6, <4>1
        <5> HIDE DEF g
        <5> QED BY <4>2, <4>5, <5>1, <5>2 DEF Folding
      <4> QED BY <4>4, <4>5
    <3> QED BY <3>1, <3>2
  <2>8. DOMAIN g = SUBSET S /\ g = [s \in SUBSET S |-> g[s]]
    OBVIOUS
  <2>9. DOMAIN Folding(G, base, S, g) = SUBSET S
        /\ Folding(G, base, S, g) = [s \in SUBSET S |-> Folding(G, base, S, g)[s]]
    BY DEF Folding
  <2> HIDE DEF g
  <2>10. g = Folding(G, base, S, g)
    BY <2>7, <2>8, <2>9
  <2> QED BY <2>10 DEF Folds
<1> HIDE DEF Q
<1>3. \A S \in SUBSET U : S \in Q
  BY <1>1, <1>2, FamilyOfAllSubsets
<1> QED BY <1>3 DEF Q

\* A table whose every next entry is in a set if the one before it is has all of
\* them there.
LEMMA FoldStays ==
    ASSUME NEW S, IsFiniteSet(S), NEW T, NEW g, g[{}] \in T,
           \A s \in SUBSET S : s # {} /\ g[s \ {Chosen(s)}] \in T => g[s] \in T
    PROVE  \A s \in SUBSET S : g[s] \in T
<1> DEFINE Q == {s \in SUBSET S : g[s] \in T}
<1>1. {} \in Q
  OBVIOUS
<1>2. ASSUME NEW s \in SUBSET S, s # {}, \A x \in s : s \ {x} \in Q
      PROVE  s \in Q
  <2>1. Chosen(s) \in s
    BY <1>2 DEF Chosen
  <2>2. g[s \ {Chosen(s)}] \in T
    BY <1>2, <2>1
  <2> QED BY <1>2, <2>2
<1> HIDE DEF Q
<1>3. \A s \in SUBSET S : s \in Q
  BY <1>1, <1>2, FamilyOfAllSubsets
<1> QED BY <1>3 DEF Q

\* The fold of a set by an operation that stays in a set, as a function of what it
\* is applied to, has a table in that set.
LEMMA FoldsWithin ==
    ASSUME NEW S, IsFiniteSet(S), NEW T, NEW base \in T, NEW G,
           \A x \in S, v \in T : G[<<x, v>>] \in T
    PROVE  \E g : Folds(G, base, S, g) /\ \A s \in SUBSET S : g[s] \in T
<1>1. PICK g : Folds(G, base, S, g)
  BY FoldsExist
<1>2. g[{}] = base
  <2>1. g[{}] = Folding(G, base, S, g)[{}]
    BY <1>1 DEF Folds
  <2> QED BY <2>1 DEF Folding
<1>3. ASSUME NEW s \in SUBSET S, s # {}, g[s \ {Chosen(s)}] \in T
      PROVE  g[s] \in T
  <2>1. Chosen(s) \in S
    BY <1>3 DEF Chosen
  <2>2. g[s] = Folding(G, base, S, g)[s]
    BY <1>1 DEF Folds
  <2> QED BY <1>3, <2>1, <2>2 DEF Folding
<1>4. \A s \in SUBSET S : g[s] \in T
  BY <1>2, <1>3, FoldStays
<1> QED BY <1>1, <1>4

\* P relates what is done of S to the tables there, and a step of the fold goes on.
GoesOn(S, G, P) ==
    \A v : \A s \in SUBSET S, x \in S :
        x \in s /\ <<s \ {x}, v>> \in P => <<s, G[<<x, v>>]>> \in P

\* A fold whose every step goes on from what is done to what is done beside it.
LEMMA FoldFollows ==
    ASSUME NEW S, IsFiniteSet(S), NEW G, NEW base, NEW P, <<{}, base>> \in P,
           GoesOn(S, G, P)
    PROVE  \E g : Folds(G, base, S, g) /\ \A s \in SUBSET S : <<s, g[s]>> \in P
<1>1. PICK g : Folds(G, base, S, g)
  BY FoldsExist
<1>2. g = [s \in SUBSET S |-> IF s = {} THEN base ELSE G[<<Chosen(s), g[s \ {Chosen(s)}]>>]]
  BY <1>1, Zenon DEF Folds, Folding
<1> DEFINE J == [s \in SUBSET S |-> <<s, g[s]>>]
<1>3. J[{}] \in P
  <2>1. g[{}] = base /\ {} \in SUBSET S
    BY <1>2
  <2> QED BY <2>1
<1>4. ASSUME NEW s \in SUBSET S, s # {}, J[s \ {Chosen(s)}] \in P
      PROVE  J[s] \in P
  <2> DEFINE c == Chosen(s)
  <2>1. c \in s /\ c \in S
    BY <1>4 DEF Chosen
  <2>2. s \ {c} \in SUBSET S
    OBVIOUS
  <2>3. g[s] = G[<<c, g[s \ {c}]>>]
    BY <1>2, <1>4
  <2> HIDE DEF c
  <2>4. <<s \ {c}, g[s \ {c}]>> \in P
    BY <1>4, <2>2 DEF c
  <2>5. <<s, G[<<c, g[s \ {c}]>>]>> \in P
    BY <2>1, <2>4 DEF GoesOn
  <2> QED BY <2>3, <2>5
<1> HIDE DEF J
<1>5. \A s \in SUBSET S : J[s] \in P
  BY <1>3, <1>4, FoldStays
<1>6. \A s \in SUBSET S : <<s, g[s]>> \in P
  BY <1>5 DEF J
<1> QED BY <1>1, <1>6

\* A table whose every entry goes on from the entry before.
LEMMA FoldRelates ==
    ASSUME NEW S, IsFiniteSet(S), NEW I, NEW P, <<{}, I[{}]>> \in P,
           \A s \in SUBSET S :
               s # {} /\ <<s \ {Chosen(s)}, I[s \ {Chosen(s)}]>> \in P => <<s, I[s]>> \in P
    PROVE  <<S, I[S]>> \in P
<1> DEFINE J == [s \in SUBSET S |-> <<s, I[s]>>]
<1>1. J[{}] \in P
  OBVIOUS
<1>2. \A s \in SUBSET S : s # {} /\ J[s \ {Chosen(s)}] \in P => J[s] \in P
  <2>1. \A s \in SUBSET S : s \ {Chosen(s)} \in SUBSET S
    OBVIOUS
  <2> QED BY <2>1
<1> HIDE DEF J
<1>3. \A s \in SUBSET S : J[s] \in P
  BY <1>1, <1>2, FoldStays
<1>4. J[S] \in P
  BY <1>3
<1> QED BY <1>4 DEF J

(***************************************************************************)
(* Sums over a part, numbering without a gap, and the larger of two.       *)
(***************************************************************************)

\* A sum over some is the sum over all of what is zero on the rest.
LEMMA SumOfChosen ==
    ASSUME NEW f, NEW g, NEW U, IsFiniteSet(U), NEW S \in SUBSET U,
           \A x \in S : g[x] = f[x] /\ f[x] \in Int, \A x \in U \ S : g[x] = 0
    PROVE  SumFunctionOnSet(g, U) = SumFunctionOnSet(f, S)
<1>1. IsFiniteSet(S) /\ IsFiniteSet(U \ S)
  BY FS_Subset, FS_Difference
<1>2. \A x \in U : g[x] \in Int
  <2> SUFFICES ASSUME NEW x \in U PROVE g[x] \in Int
    OBVIOUS
  <2>1. CASE x \in S
    BY <2>1
  <2>2. CASE x \notin S
    BY <2>2
  <2> QED BY <2>1, <2>2
<1>3. SumFunctionOnSet(g, U) = SumFunctionOnSet(g, S) + SumFunctionOnSet(g, U \ S)
  BY <1>2, SumOfParts
<1>4. SumFunctionOnSet(g, U \ S) = 0
  BY <1>1, SumOfZeroes
<1>5. SumFunctionOnSet(g, S) = SumFunctionOnSet(f, S)
  BY <1>1, SumSame
<1>6. SumFunctionOnSet(f, S) \in Int
  BY <1>1, SumType
<1> QED BY <1>3, <1>4, <1>5, <1>6

\* What is numbered without a gap is numbered up to its count.
LEMMA NumberedWithoutGap ==
    ASSUME NEW N \in Nat, NEW S \in SUBSET (1 .. N),
           \A g, h \in 1 .. N : g < h /\ h \in S => g \in S
    PROVE  /\ Cardinality(S) \in Nat
           /\ \A h \in 1 .. N : h \in S <=> h <= Cardinality(S)
<1> DEFINE f == [x \in S |-> x]
<1>1. IsFiniteSet(S)
  <2>1. IsFiniteSet(1 .. N)
    BY FS_Interval
  <2> QED BY <2>1, FS_Subset
<1>2. PICK m \in {0} \cup {f[x] : x \in S} : \A y \in {0} \cup {f[x] : x \in S} : m >= y
  <2>1. \A x \in S : f[x] \in Nat
    OBVIOUS
  <2> HIDE DEF f
  <2> QED BY <1>1, <2>1, GreatestOfColumn
<1>3. m \in Nat /\ (m = 0 \/ m \in S) /\ \A x \in S : x <= m
  <2>1. m = 0 \/ \E x \in S : m = f[x]
    BY <1>2
  <2>2. \A x \in S : f[x] = x /\ x \in Nat
    OBVIOUS
  <2>3. \A x \in S : m >= f[x]
    BY <1>2
  <2> QED BY <2>1, <2>2, <2>3
<1>4. S = 1 .. m
  <2>1. \A x \in 1 .. m : x \in S
    BY <1>3
  <2>2. \A x \in S : x \in 1 .. m
    <3>1. \A x \in S : x \in 1 .. N /\ x <= m
      BY <1>3
    <3> QED BY <1>3, <3>1
  <2> QED BY <2>1, <2>2
<1>5. Cardinality(1 .. m) = m
  BY <1>3, FS_Interval
<1> QED BY <1>3, <1>4, <1>5

\* The larger and the smaller of two numbers.
LEMMA OfTwo ==
    ASSUME NEW a \in Int, NEW b \in Int
    PROVE  /\ Max({a, b}) \in Int /\ Max({a, b}) >= a /\ Max({a, b}) >= b
           /\ Max({a, b}) \in {a, b}
           /\ Min({a, b}) \in Int /\ Min({a, b}) <= a /\ Min({a, b}) <= b
<1>1. \E x \in {a, b} : \A y \in {a, b} : x >= y
  <2>1. CASE a >= b
    BY <2>1
  <2>2. CASE ~ (a >= b)
    BY <2>2
  <2> QED BY <2>1, <2>2
<1>2. \E x \in {a, b} : \A y \in {a, b} : x <= y
  <2>1. CASE a <= b
    BY <2>1
  <2>2. CASE ~ (a <= b)
    BY <2>2
  <2> QED BY <2>1, <2>2
<1>3. Max({a, b}) \in {a, b} /\ \A y \in {a, b} : Max({a, b}) >= y
  BY <1>1 DEF Max
<1>4. Min({a, b}) \in {a, b} /\ \A y \in {a, b} : Min({a, b}) <= y
  BY <1>2 DEF Min
<1> QED BY <1>3, <1>4
=============================================================================
