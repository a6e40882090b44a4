------------------------------- MODULE Induction -------------------------------
(***************************************************************************)
(* Induction over the naturals, and over the subsets of a finite set, in a *)
(* form that every prover can use: over a set in place of a predicate.  It *)
(* rests on the library's WFMin, every nonempty set of naturals has a      *)
(* minimal element.  With it, the algebra of the sums that MapThenSumSet   *)
(* of the community modules computes, the maxima of finite sets, and the   *)
(* existence of a function that a recursion along an interval defines.     *)
(***************************************************************************)
EXTENDS Integers, FiniteSetsExt, WellFoundedInduction, FiniteSetTheorems, TLAPS

Precedes == {p \in Nat \X Nat : p[1] < p[2]}

LEMMA PrecedesWellFounded == IsWellFoundedOn(Precedes, Nat)
<1>1. OpToRel(<, Nat) = Precedes
  BY DEF OpToRel, Precedes
<1>. QED  BY <1>1, NatLessThanWellFounded

LEMMA InductionOnNaturals ==
  ASSUME NEW S \in SUBSET Nat, 0 \in S, \A n \in S : n + 1 \in S
  PROVE  S = Nat
<1> SUFFICES ASSUME S # Nat  PROVE FALSE
  OBVIOUS
<1>. DEFINE T == Nat \ S
<1>1. T \subseteq Nat /\ T # {}
  OBVIOUS
<1>2. PICK x \in T : \A y \in T : <<y, x>> \notin Precedes
  <2>. HIDE DEF T
  <2>. QED  BY <1>1, PrecedesWellFounded, WFMin
<1>3. x \in Nat \ {0}
  OBVIOUS
<1>4. x - 1 \in Nat /\ <<x - 1, x>> \in Precedes
  BY <1>3 DEF Precedes
<1>5. x - 1 \in S /\ (x - 1) + 1 = x
  BY <1>2, <1>3, <1>4
<1>. QED  BY <1>5

\* Induction along an interval of integers.
LEMMA InductionOnInterval ==
  ASSUME NEW a \in Int, NEW b \in Int, NEW S,
         a \in S, \A h \in a..(b - 1) : h \in S => h + 1 \in S
  PROVE  \A h \in a..b : h \in S
<1>. DEFINE T == {n \in Nat : a + n <= b => a + n \in S}
<1>1. 0 \in T
  OBVIOUS
<1>2. ASSUME NEW n \in T  PROVE n + 1 \in T
  <2>1. a + (n + 1) <= b => a + n \in a..(b - 1) /\ a + (n + 1) = (a + n) + 1
    OBVIOUS
  <2>. QED  BY <2>1
<1>3. T = Nat
  <2>1. T \in SUBSET Nat
    OBVIOUS
  <2>. HIDE DEF T
  <2>. QED  BY <1>1, <1>2, <2>1, InductionOnNaturals
<1>4. ASSUME NEW h \in a..b  PROVE h \in S
  <2>1. h - a \in Nat /\ a + (h - a) = h
    OBVIOUS
  <2>2. h - a \in T
    <3>. HIDE DEF T
    <3>. QED  BY <1>3, <2>1
  <2>. QED  BY <2>1, <2>2
<1>. QED  BY <1>4

\* A set of naturals below a bound has a largest element, 0 if it has no other.
LEMMA BoundedSetHasMaximum ==
  ASSUME NEW n \in Nat, NEW A, A \subseteq 1..n
  PROVE  \E h \in A \cup {0} : \A g \in A : g <= h
<1>. DEFINE S == {k \in Nat : \A B \in SUBSET (1..k) : \E h \in B \cup {0} : \A g \in B : g <= h}
<1>1. 0 \in S
  OBVIOUS
<1>2. ASSUME NEW k \in S  PROVE k + 1 \in S
  <2>1. SUFFICES ASSUME NEW B \in SUBSET (1..(k + 1))
                 PROVE  \E h \in B \cup {0} : \A g \in B : g <= h
    OBVIOUS
  <2>2. CASE k + 1 \in B
    BY <2>2
  <2>3. CASE k + 1 \notin B
    <3>1. B \in SUBSET (1..k)
      BY <2>3
    <3>. QED  BY <3>1
  <2>. QED  BY <2>2, <2>3
<1>3. S = Nat
  <2>1. S \in SUBSET Nat
    OBVIOUS
  <2>. HIDE DEF S
  <2>. QED  BY <1>1, <1>2, <2>1, InductionOnNaturals
<1>. QED  BY <1>3

\* Induction over the subsets of a finite set.
LEMMA InductionOnSubsets ==
  ASSUME NEW S, IsFiniteSet(S), NEW Q, {} \in Q,
         \A T \in SUBSET S : T # {} /\ (\A x \in T : T \ {x} \in Q) => T \in Q
  PROVE  \A T \in SUBSET S : T \in Q
<1>. DEFINE N == {n \in Nat : \A T \in SUBSET S : Cardinality(T) = n => T \in Q}
<1>1. ASSUME NEW T \in SUBSET S  PROVE IsFiniteSet(T) /\ Cardinality(T) \in Nat
  BY FS_Subset, FS_CardinalityType
<1>2. 0 \in N
  <2>1. ASSUME NEW T \in SUBSET S, Cardinality(T) = 0  PROVE T \in Q
    <3>1. T = {}
      BY <1>1, <2>1, FS_EmptySet
    <3>. QED  BY <3>1
  <2>. QED  BY <2>1
<1>3. ASSUME NEW n \in N  PROVE n + 1 \in N
  <2>1. ASSUME NEW T \in SUBSET S, Cardinality(T) = n + 1  PROVE T \in Q
    <3>1. T # {}
      <4>1. n + 1 # 0
        OBVIOUS
      <4>. QED  BY <2>1, <4>1, FS_EmptySet
    <3>2. ASSUME NEW x \in T  PROVE T \ {x} \in Q
      <4>1. Cardinality(T \ {x}) = Cardinality(T) - 1
        BY <1>1, FS_RemoveElement
      <4>2. T \ {x} \in SUBSET S /\ Cardinality(T \ {x}) = n
        BY <2>1, <4>1
      <4>. QED  BY <4>2
    <3>. QED  BY <3>1, <3>2
  <2>. QED  BY <2>1
<1>4. N = Nat
  <2>1. N \in SUBSET Nat
    OBVIOUS
  <2>. HIDE DEF N
  <2>. QED  BY <1>2, <1>3, <2>1, InductionOnNaturals
<1>5. ASSUME NEW T \in SUBSET S  PROVE T \in Q
  <2>1. Cardinality(T) \in N
    BY <1>1, <1>4
  <2>. QED  BY <2>1
<1>. QED  BY <1>5

-----------------------------------------------------------------------------
(* Sums over finite sets.                                                  *)

SumOver(f, S) == MapThenSumSet(LAMBDA x : f[x], S)

Some(S) == CHOOSE x \in S : TRUE

\* What the recursion of MapThenSumSet makes of a function g on the subsets.
SumStep(f, S, g) ==
  [T \in SUBSET S |-> IF T = {} THEN 0 ELSE f[Some(T)] + g[T \ {Some(T)}]]

SumsOf(f, S) == CHOOSE g : g = SumStep(f, S, g)

LEMMA SumIsLast == ASSUME NEW f, NEW S PROVE SumOver(f, S) = SumsOf(f, S)[S]
BY DEF SumOver, SumsOf, SumStep, Some, MapThenSumSet, MapThenFoldSet

LEMMA SumsUnique ==
  ASSUME NEW f, NEW S, IsFiniteSet(S), NEW g, g = SumStep(f, S, g), NEW h, h = SumStep(f, S, h)
  PROVE  g = h
<1>. DEFINE Q == {T \in SUBSET S : g[T] = h[T]}
<1>1. \A T \in SUBSET S : /\ g[T] = IF T = {} THEN 0 ELSE f[Some(T)] + g[T \ {Some(T)}]
                          /\ h[T] = IF T = {} THEN 0 ELSE f[Some(T)] + h[T \ {Some(T)}]
  <2>1. ASSUME NEW k, k = SumStep(f, S, k)
        PROVE  \A T \in SUBSET S : k[T] = IF T = {} THEN 0 ELSE f[Some(T)] + k[T \ {Some(T)}]
    BY <2>1 DEF SumStep
  <2>2. \A T \in SUBSET S : g[T] = IF T = {} THEN 0 ELSE f[Some(T)] + g[T \ {Some(T)}]
    BY <2>1
  <2>3. \A T \in SUBSET S : h[T] = IF T = {} THEN 0 ELSE f[Some(T)] + h[T \ {Some(T)}]
    BY <2>1
  <2>. QED  BY <2>2, <2>3
<1>2. {} \in Q
  BY <1>1
<1>3. ASSUME NEW T \in SUBSET S, T # {}, \A x \in T : T \ {x} \in Q  PROVE T \in Q
  <2>1. Some(T) \in T
    BY <1>3 DEF Some
  <2>2. g[T \ {Some(T)}] = h[T \ {Some(T)}]
    BY <1>3, <2>1
  <2>. QED  BY <1>1, <1>3, <2>2
<1>4. \A T \in SUBSET S : T \in Q
  <2>. HIDE DEF Q
  <2>. QED  BY <1>2, <1>3, InductionOnSubsets
<1>5. \A T \in SUBSET S : g[T] = h[T]
  BY <1>4
<1>6. DOMAIN g = SUBSET S /\ DOMAIN h = SUBSET S
      /\ g = [T \in DOMAIN g |-> g[T]] /\ h = [T \in DOMAIN h |-> h[T]]
  BY DEF SumStep
<1>. QED  BY <1>5, <1>6, Zenon

\* The recursion defines every sum.
LEMMA SumUnfolds ==
  ASSUME NEW f, NEW S, IsFiniteSet(S)
  PROVE  SumOver(f, S) = IF S = {} THEN 0 ELSE f[Some(S)] + SumOver(f, S \ {Some(S)})
<1>. DEFINE unfolds(T) ==
              SumOver(f, T) = IF T = {} THEN 0 ELSE f[Some(T)] + SumOver(f, T \ {Some(T)})
            Q == {T \in SUBSET S : \A R \in SUBSET T : unfolds(R)}
<1>1. ASSUME NEW T \in SUBSET S, NEW G, G = SumStep(f, T, G)  PROVE SumOver(f, T) = G[T]
  <2>1. SumsOf(f, T) = SumStep(f, T, SumsOf(f, T))
    BY <1>1 DEF SumsOf
  <2>2. IsFiniteSet(T)
    BY FS_Subset
  <2>3. SumsOf(f, T) = G
    BY <1>1, <2>1, <2>2, SumsUnique
  <2>. QED  BY <2>3, SumIsLast
<1>2. ASSUME NEW T \in SUBSET S, \A R \in (SUBSET T) \ {T} : unfolds(R)  PROVE unfolds(T)
  <2>. DEFINE top == IF T = {} THEN 0 ELSE f[Some(T)] + SumOver(f, T \ {Some(T)})
              G == [R \in SUBSET T |-> IF R = T THEN top ELSE SumOver(f, R)]
  <2>1. ASSUME NEW R \in SUBSET T
        PROVE  G[R] = IF R = {} THEN 0 ELSE f[Some(R)] + G[R \ {Some(R)}]
    <3>1. R # {} => Some(R) \in R
      BY DEF Some
    <3>2. R # {} => R \ {Some(R)} # T /\ R \ {Some(R)} \in SUBSET T
      BY <3>1
    <3>3. R # {} => G[R \ {Some(R)}] = SumOver(f, R \ {Some(R)})
      BY <3>2
    <3>4. CASE R = T
      <4>1. G[R] = top
        BY <3>4
      <4>. QED  BY <3>3, <3>4, <4>1
    <3>5. CASE R # T
      <4>1. unfolds(R) /\ G[R] = SumOver(f, R)
        BY <1>2, <3>5
      <4>. QED  BY <3>3, <4>1
    <3>. QED  BY <3>4, <3>5
  <2>2. G = SumStep(f, T, G)
    <3>1. SumStep(f, T, G) = [R \in SUBSET T |-> G[R]]
      <4>. HIDE DEF G
      <4>. QED  BY <2>1 DEF SumStep
    <3>. QED  BY <3>1
  <2>3. G[T] = top
    OBVIOUS
  <2>4. SumOver(f, T) = G[T]
    <3>. HIDE DEF G
    <3>. QED  BY <1>1, <2>2
  <2>. QED  BY <2>3, <2>4
<1>. HIDE DEF unfolds
<1>3. {} \in Q
  <2>1. unfolds({})
    BY <1>2
  <2>. QED  BY <2>1
<1>4. ASSUME NEW T \in SUBSET S, T # {}, \A x \in T : T \ {x} \in Q  PROVE T \in Q
  <2>1. ASSUME NEW R \in (SUBSET T) \ {T}  PROVE unfolds(R)
    <3>1. PICK x \in T : x \notin R
      BY <2>1
    <3>2. R \in SUBSET (T \ {x}) /\ T \ {x} \in Q
      BY <1>4, <3>1
    <3>. QED  BY <3>2
  <2>2. unfolds(T)
    BY <1>2, <2>1
  <2>. QED  BY <2>1, <2>2
<1>5. S \in Q
  <2>. HIDE DEF Q
  <2>. QED  BY <1>3, <1>4, InductionOnSubsets
<1>. QED  BY <1>5 DEF unfolds

LEMMA SumTyped ==
  ASSUME NEW f, NEW S, IsFiniteSet(S), \A x \in S : f[x] \in Int
  PROVE  SumOver(f, S) \in Int
<1>. DEFINE Q == {T \in SUBSET S : SumOver(f, T) \in Int}
<1>1. \A T \in SUBSET S : IsFiniteSet(T)
  BY FS_Subset
<1>2. {} \in Q
  <2>1. SumOver(f, {}) = 0
    BY FS_EmptySet, SumUnfolds
  <2>. QED  BY <2>1
<1>3. ASSUME NEW T \in SUBSET S, T # {}, \A x \in T : T \ {x} \in Q  PROVE T \in Q
  <2>1. Some(T) \in T
    BY <1>3 DEF Some
  <2>2. SumOver(f, T) = f[Some(T)] + SumOver(f, T \ {Some(T)})
    BY <1>1, <1>3, SumUnfolds
  <2>3. f[Some(T)] \in Int /\ SumOver(f, T \ {Some(T)}) \in Int
    BY <1>3, <2>1
  <2>. QED  BY <2>2, <2>3
<1>4. S \in Q
  <2>. HIDE DEF Q
  <2>. QED  BY <1>2, <1>3, InductionOnSubsets
<1>. QED  BY <1>4

\* Any element may be taken out first.
LEMMA SumPick ==
  ASSUME NEW f, NEW S, IsFiniteSet(S), \A x \in S : f[x] \in Int, NEW e \in S
  PROVE  SumOver(f, S) = f[e] + SumOver(f, S \ {e})
<1>. DEFINE Q == {T \in SUBSET S : \A x \in T : SumOver(f, T) = f[x] + SumOver(f, T \ {x})}
<1>1. \A T \in SUBSET S : IsFiniteSet(T)
  BY FS_Subset
<1>2. {} \in Q
  OBVIOUS
<1>3. ASSUME NEW T \in SUBSET S, T # {}, \A x \in T : T \ {x} \in Q  PROVE T \in Q
  <2>. DEFINE c == Some(T)
  <2>1. c \in T
    BY <1>3 DEF Some
  <2>2. SumOver(f, T) = f[c] + SumOver(f, T \ {c})
    BY <1>1, <1>3, SumUnfolds
  <2>. HIDE DEF c
  <2>3. ASSUME NEW x \in T, x # c  PROVE SumOver(f, T) = f[x] + SumOver(f, T \ {x})
    <3>1. T \ {c} \in Q /\ T \ {x} \in Q /\ x \in T \ {c} /\ c \in T \ {x}
      BY <1>3, <2>1, <2>3
    <3>2. SumOver(f, T \ {c}) = f[x] + SumOver(f, (T \ {c}) \ {x})
      BY <3>1
    <3>3. SumOver(f, T \ {x}) = f[c] + SumOver(f, (T \ {x}) \ {c})
      BY <3>1
    <3>4. (T \ {x}) \ {c} = (T \ {c}) \ {x}
      OBVIOUS
    <3>5. SumOver(f, (T \ {c}) \ {x}) \in Int
      <4>1. (T \ {c}) \ {x} \in SUBSET S
        OBVIOUS
      <4>2. IsFiniteSet((T \ {c}) \ {x}) /\ \A y \in (T \ {c}) \ {x} : f[y] \in Int
        BY <1>1, <4>1
      <4>. QED  BY <4>2, SumTyped
    <3>6. f[c] \in Int /\ f[x] \in Int
      BY <2>1
    <3>. DEFINE rest == SumOver(f, (T \ {c}) \ {x})
    <3>7. /\ SumOver(f, T \ {c}) = f[x] + rest
          /\ SumOver(f, T \ {x}) = f[c] + rest /\ rest \in Int
      BY <3>2, <3>3, <3>4, <3>5
    <3>. HIDE DEF rest
    <3>. QED  BY <2>2, <3>6, <3>7
  <2>. QED  BY <2>2, <2>3
<1>4. \A T \in SUBSET S : T # {} /\ (\A x \in T : T \ {x} \in Q) => T \in Q
  <2>. HIDE DEF Q
  <2>. QED  BY <1>3
<1>5. \A T \in SUBSET S : T \in Q
  <2>. HIDE DEF Q
  <2>. QED  BY <1>2, <1>4, InductionOnSubsets
<1>6. S \in Q
  BY <1>5
<1>. QED  BY <1>6

LEMMA SumEmpty == ASSUME NEW f PROVE SumOver(f, {}) = 0
BY FS_EmptySet, SumUnfolds

LEMMA SumAdd ==
  ASSUME NEW f, NEW S, IsFiniteSet(S), \A x \in S : f[x] \in Int, NEW e, e \notin S, f[e] \in Int
  PROVE  SumOver(f, S \cup {e}) = SumOver(f, S) + f[e]
<1>. DEFINE T == S \cup {e}
<1>1. IsFiniteSet(T) /\ e \in T /\ T \ {e} = S /\ \A x \in T : f[x] \in Int
  BY FS_AddElement
<1>. HIDE DEF T
<1>2. SumOver(f, T) = f[e] + SumOver(f, S)
  BY <1>1, SumPick
<1>3. SumOver(f, S) \in Int
  BY SumTyped
<1>. QED  BY <1>2, <1>3 DEF T

\* Only the summands matter.
LEMMA SumSame ==
  ASSUME NEW f, NEW g, NEW S, IsFiniteSet(S), \A x \in S : f[x] = g[x]
  PROVE  SumOver(f, S) = SumOver(g, S)
<1>. DEFINE Q == {T \in SUBSET S : SumOver(f, T) = SumOver(g, T)}
<1>1. \A T \in SUBSET S : IsFiniteSet(T)
  BY FS_Subset
<1>2. {} \in Q
  BY SumEmpty
<1>3. ASSUME NEW T \in SUBSET S, T # {}, \A x \in T : T \ {x} \in Q  PROVE T \in Q
  <2>1. Some(T) \in T
    BY <1>3 DEF Some
  <2>2. SumOver(f, T) = f[Some(T)] + SumOver(f, T \ {Some(T)})
    BY <1>1, <1>3, SumUnfolds
  <2>3. SumOver(g, T) = g[Some(T)] + SumOver(g, T \ {Some(T)})
    BY <1>1, <1>3, SumUnfolds
  <2>4. f[Some(T)] = g[Some(T)] /\ SumOver(f, T \ {Some(T)}) = SumOver(g, T \ {Some(T)})
    BY <1>3, <2>1
  <2>. QED  BY <2>2, <2>3, <2>4
<1>4. S \in Q
  <2>. HIDE DEF Q
  <2>. QED  BY <1>2, <1>3, InductionOnSubsets
<1>. QED  BY <1>4

\* A sum moves with the one summand that does.
LEMMA SumMoved ==
  ASSUME NEW f, NEW g, NEW S, IsFiniteSet(S), \A x \in S : f[x] \in Int, NEW e \in S, NEW d \in Int,
         g[e] = f[e] + d, \A x \in S \ {e} : g[x] = f[x]
  PROVE  SumOver(g, S) = SumOver(f, S) + d
<1>1. IsFiniteSet(S \ {e}) BY FS_Subset
<1>2. SumOver(g, S \ {e}) = SumOver(f, S \ {e})
  <2>1. \A x \in S \ {e} : g[x] = f[x] OBVIOUS
  <2> QED BY <1>1, <2>1, SumSame
<1>3. SumOver(f, S \ {e}) \in Int BY <1>1, SumTyped
<1>4. SumOver(f, S) = f[e] + SumOver(f, S \ {e}) BY SumPick
<1>5. \A x \in S : g[x] \in Int
  <2>1. f[e] \in Int OBVIOUS
  <2>2. g[e] \in Int BY <2>1
  <2> QED BY <2>2
<1>6. SumOver(g, S) = g[e] + SumOver(g, S \ {e}) BY <1>5, SumPick
<1>7. f[e] \in Int OBVIOUS
<1> QED BY <1>2, <1>3, <1>4, <1>6, <1>7

\* A sum of naturals is no less than any of them.
LEMMA SumBounds ==
  ASSUME NEW f, NEW S, IsFiniteSet(S), \A x \in S : f[x] \in Nat
  PROVE  SumOver(f, S) \in Nat /\ \A e \in S : f[e] <= SumOver(f, S)
<1> DEFINE Q == {T \in SUBSET S : SumOver(f, T) \in Nat}
<1>1. \A T \in SUBSET S : IsFiniteSet(T) BY FS_Subset
<1>2. {} \in Q BY SumEmpty
<1>3. ASSUME NEW T \in SUBSET S, T # {}, \A x \in T : T \ {x} \in Q PROVE T \in Q
  <2>1. PICK c : c \in T BY <1>3
  <2>2. \A x \in T : f[x] \in Int OBVIOUS
  <2>3. SumOver(f, T) = f[c] + SumOver(f, T \ {c}) BY <1>1, <2>1, <2>2, SumPick
  <2>4. f[c] \in Nat /\ SumOver(f, T \ {c}) \in Nat BY <1>3, <2>1
  <2> QED BY <2>3, <2>4
<1>4. \A T \in SUBSET S : T \in Q
  <2> HIDE DEF Q
  <2> QED BY <1>2, <1>3, InductionOnSubsets
<1>5. ASSUME NEW e \in S PROVE f[e] <= SumOver(f, S)
  <2>1. \A x \in S : f[x] \in Int OBVIOUS
  <2>2. SumOver(f, S) = f[e] + SumOver(f, S \ {e}) BY <2>1, SumPick
  <2>3. SumOver(f, S \ {e}) \in Nat
    <3>1. S \ {e} \in SUBSET S OBVIOUS
    <3> QED BY <1>4, <3>1
  <2>4. f[e] \in Nat OBVIOUS
  <2> QED BY <2>2, <2>3, <2>4
<1>6. SumOver(f, S) \in Nat
  <2>1. S \in SUBSET S OBVIOUS
  <2> QED BY <1>4, <2>1
<1> QED BY <1>5, <1>6

\* A sum of zeros.
LEMMA SumOfNothing ==
  ASSUME NEW f, NEW S, IsFiniteSet(S), \A x \in S : f[x] = 0
  PROVE  SumOver(f, S) = 0
<1> DEFINE Q == {T \in SUBSET S : SumOver(f, T) = 0}
<1>1. \A T \in SUBSET S : IsFiniteSet(T) BY FS_Subset
<1>2. {} \in Q BY SumEmpty
<1>3. ASSUME NEW T \in SUBSET S, T # {}, \A x \in T : T \ {x} \in Q PROVE T \in Q
  <2>1. PICK c : c \in T BY <1>3
  <2>2. SumOver(f, T) = f[c] + SumOver(f, T \ {c})
    <3>1. \A x \in T : f[x] \in Int OBVIOUS
    <3> QED BY <1>1, <2>1, <3>1, SumPick
  <2>3. f[c] = 0 /\ SumOver(f, T \ {c}) = 0 BY <1>3, <2>1
  <2> QED BY <2>2, <2>3
<1>4. S \in Q
  <2> HIDE DEF Q
  <2> QED BY <1>2, <1>3, InductionOnSubsets
<1> QED BY <1>4

\* h is the sum of f and g on S.
Adds(f, g, h, S) == \A x \in S : f[x] \in Int /\ g[x] \in Int /\ h[x] = f[x] + g[x]

\* Sums of sums.
LEMMA SumsAdd ==
  ASSUME NEW f, NEW g, NEW h, NEW S, IsFiniteSet(S), Adds(f, g, h, S)
  PROVE  /\ SumOver(h, S) = SumOver(f, S) + SumOver(g, S)
         /\ SumOver(f, S) \in Int /\ SumOver(g, S) \in Int
<1> DEFINE Q == {T \in SUBSET S : SumOver(h, T) = SumOver(f, T) + SumOver(g, T)}
<1>1. \A T \in SUBSET S : IsFiniteSet(T) BY FS_Subset
<1>2. {} \in Q BY SumEmpty
<1>3. \A x \in S : f[x] \in Int /\ g[x] \in Int /\ h[x] \in Int /\ h[x] = f[x] + g[x]
  BY DEF Adds
<1>4. ASSUME NEW T \in SUBSET S, T # {}, \A x \in T : T \ {x} \in Q PROVE T \in Q
  <2>1. PICK c : c \in T BY <1>4
  <2>2. /\ SumOver(f, T) = f[c] + SumOver(f, T \ {c})
        /\ SumOver(g, T) = g[c] + SumOver(g, T \ {c})
        /\ SumOver(h, T) = h[c] + SumOver(h, T \ {c})
    BY <1>1, <1>3, <2>1, SumPick
  <2>3. SumOver(f, T \ {c}) \in Int /\ SumOver(g, T \ {c}) \in Int
    <3>1. IsFiniteSet(T \ {c}) BY <1>1
    <3>2. \A x \in T \ {c} : f[x] \in Int /\ g[x] \in Int BY <1>3
    <3> QED BY <3>1, <3>2, SumTyped
  <2>4. SumOver(h, T \ {c}) = SumOver(f, T \ {c}) + SumOver(g, T \ {c}) BY <1>4, <2>1
  <2>5. f[c] \in Int /\ g[c] \in Int /\ h[c] = f[c] + g[c] BY <1>3, <2>1
  <2> QED BY <2>2, <2>3, <2>4, <2>5
<1>5. S \in Q
  <2> HIDE DEF Q
  <2> QED BY <1>2, <1>4, InductionOnSubsets
<1>6. SumOver(f, S) \in Int /\ SumOver(g, S) \in Int BY <1>3, SumTyped
<1> QED BY <1>5, <1>6

-----------------------------------------------------------------------------
(* Maxima and quotients.                                                   *)

\* An element as large as any is the largest.
LEMMA MaxIs ==
  ASSUME NEW S \in SUBSET Int, NEW m \in S, \A y \in S : m >= y PROVE Max(S) = m
<1>1. Max(S) \in S /\ \A y \in S : Max(S) >= y BY DEF Max
<1>2. PICK x \in Int : x = Max(S) BY <1>1
<1>3. m \in Int /\ m >= x /\ x >= m BY <1>1, <1>2
<1>4. x = m BY <1>3
<1> QED BY <1>2, <1>4

\* A finite set of integers has a largest element.
LEMMA MaxOf ==
  ASSUME NEW S \in SUBSET Int, IsFiniteSet(S), S # {}
  PROVE  Max(S) \in S /\ \A y \in S : Max(S) >= y
<1> DEFINE Q == {T \in SUBSET S : T = {} \/ \E x \in T : \A y \in T : x >= y}
<1>1. {} \in Q OBVIOUS
<1>2. ASSUME NEW T \in SUBSET S, T # {}, \A x \in T : T \ {x} \in Q PROVE T \in Q
  <2>1. PICK c : c \in T BY <1>2
  <2>2. T \ {c} = {} \/ \E x \in T \ {c} : \A y \in T \ {c} : x >= y BY <1>2, <2>1
  <2>3. CASE T \ {c} = {}
    <3>1. \A y \in T : y = c BY <2>3
    <3>2. c \in Int BY <2>1
    <3> QED BY <2>1, <3>1, <3>2
  <2>4. ASSUME NEW x \in T \ {c}, \A y \in T \ {c} : x >= y PROVE T \in Q
    <3>1. x \in Int /\ c \in Int BY <2>1
    <3>2. CASE x >= c
      <4>1. \A y \in T : x >= y BY <2>4, <3>2
      <4> QED BY <4>1
    <3>3. CASE c >= x
      <4>1. \A y \in T : c >= y BY <2>4, <3>1, <3>3
      <4> QED BY <2>1, <4>1
    <3> QED BY <3>1, <3>2, <3>3
  <2> QED BY <2>2, <2>3, <2>4
<1>3. S \in Q
  <2> HIDE DEF Q
  <2> QED BY <1>1, <1>2, InductionOnSubsets
<1>4. PICK x \in S : \A y \in S : x >= y BY <1>3
<1>5. Max(S) = x BY <1>4, MaxIs
<1> QED BY <1>4, <1>5

\* Some element of a finite set has the largest value a function takes there.
LEMMA MaxOfImage ==
  ASSUME NEW S, IsFiniteSet(S), S # {}, NEW f \in [S -> Int]
  PROVE  LET R == {f[x] : x \in S}
         IN  \E x \in S : f[x] = Max(R) /\ \A y \in S : Max(R) >= f[y]
<1> DEFINE R == {f[x] : x \in S}
<1>1. f \in Surjection(S, R) BY DEF Surjection
<1>2. IsFiniteSet(R)
  <2> HIDE DEF R
  <2> QED BY <1>1, FS_Surjection
<1>3. R \in SUBSET Int /\ R # {} BY SMT
<1>4. Max(R) \in R /\ \A y \in R : Max(R) >= y
  <2> HIDE DEF R
  <2> QED BY <1>2, <1>3, MaxOf
<1>5. PICK x \in S : f[x] = Max(R)
  <2>1. PICK m : m = Max(R) OBVIOUS
  <2>2. m \in R BY <1>4, <2>1
  <2>3. \E x \in S : f[x] = m BY <2>2
  <2> QED BY <2>1, <2>3
<1>6. \A y \in S : Max(R) >= f[y]
  <2>1. \A y \in S : f[y] \in R OBVIOUS
  <2> HIDE DEF R
  <2> QED BY <1>4, <2>1
<1> QED BY <1>5, <1>6

\* A larger dividend has no smaller quotient.
LEMMA QuotientGrows ==
  ASSUME NEW a \in Nat, NEW b \in Nat, a <= b, NEW u \in Nat \ {0}
  PROVE  a \div u \in 0..(b \div u)
<1>1. PICK x \in Nat : x = a \div u OBVIOUS
<1>2. PICK y \in Nat : y = b \div u OBVIOUS
<1>3. u * x <= a /\ b < u * y + u
  <2>1. u * (a \div u) <= a OBVIOUS
  <2>2. b < u * (b \div u) + u OBVIOUS
  <2> QED BY <1>1, <1>2, <2>1, <2>2
<1>4. u * x < u * y + u
  <2>1. PICK p \in Int, q \in Int : p = u * x /\ q = u * y OBVIOUS
  <2> QED BY <1>3, <2>1
<1>5. CASE x > y
  <2>1. x = y + (x - y - 1) + 1 /\ x - y - 1 \in Nat BY <1>5
  <2>2. \A d \in Nat : u * (y + d + 1) = u * y + u * d + u /\ u * d >= 0 OBVIOUS
  <2>3. PICK d \in Nat : d = x - y - 1 /\ x = y + d + 1 BY <2>1
  <2>4. PICK p \in Int, q \in Int : p = u * y /\ q = u * d /\ q >= 0 BY <2>2
  <2>5. u * x = p + q + u BY <2>2, <2>3, <2>4
  <2>6. FALSE BY <1>4, <2>4, <2>5
  <2> QED BY <2>6
<1>6. CASE x <= y BY <1>1, <1>2, <1>6
<1> QED BY <1>5, <1>6

-----------------------------------------------------------------------------
(* Functions defined by recursion along an interval.                       *)

\* F makes a value of S at a place from the one before it.
IsStep(F, a, b, S) == F \in [((a + 1)..b) \X S -> S]

\* What the recursion from s along an interval makes of a function.
Along(a, b, s, F, g) == [k \in a..b |-> IF k = a THEN s ELSE F[<<k, g[k - 1]>>]]

\* Such a recursion defines a function.
LEMMA RecursionDefined ==
  ASSUME NEW a \in Int, NEW b \in Int, NEW S, NEW s \in S, NEW F, IsStep(F, a, b, S)
  PROVE  \E g \in [a..b -> S] : g = Along(a, b, s, F, g)
<1> DEFINE Good(h) == \E g \in [a..h -> S] :
                        \A k \in a..h : g[k] = IF k = a THEN s ELSE F[<<k, g[k - 1]>>]
           T == {h \in a..b : Good(h)}
<1>1. CASE b < a
  <2>1. a..b = {} BY <1>1
  <2>2. PICK g \in [a..b -> S] : TRUE
    <3>1. [k \in a..b |-> s] \in [a..b -> S] OBVIOUS
    <3> QED BY <3>1
  <2>3. g = Along(a, b, s, F, g) BY <2>1 DEF Along
  <2> QED BY <2>3
<1>2. CASE a <= b
  <2>1. a \in T
    <3>1. [k \in a..a |-> s] \in [a..a -> S] /\ \A k \in a..a : k = a OBVIOUS
    <3>2. Good(a) BY <3>1
    <3> QED BY <1>2, <3>2
  <2>2. ASSUME NEW h \in a..(b - 1), h \in T PROVE h + 1 \in T
    <3>1. PICK g \in [a..h -> S] : \A k \in a..h : g[k] = IF k = a THEN s ELSE F[<<k, g[k - 1]>>]
      BY <2>2
    <3>2. h \in a..h /\ h + 1 \in (a + 1)..b /\ h + 1 \in a..b BY <2>2
    <3>3. F[<<h + 1, g[h]>>] \in S
      <4>1. <<h + 1, g[h]>> \in ((a + 1)..b) \X S BY <3>2
      <4> QED BY <4>1 DEF IsStep
    <3> DEFINE G == [k \in a..(h + 1) |-> IF k = h + 1 THEN F[<<h + 1, g[h]>>] ELSE g[k]]
    <3>4. G \in [a..(h + 1) -> S]
      <4>1. \A k \in a..(h + 1) : k # h + 1 => k \in a..h BY <3>2
      <4> QED BY <3>3, <4>1
    <3>5. ASSUME NEW k \in a..(h + 1) PROVE G[k] = IF k = a THEN s ELSE F[<<k, G[k - 1]>>]
      <4>1. CASE k = h + 1
        <5>1. k # a /\ k - 1 = h /\ h \in a..(h + 1) /\ h # h + 1 BY <3>2, <4>1
        <5>2. G[h] = g[h] /\ G[k] = F[<<h + 1, g[h]>>] BY <4>1, <5>1
        <5> QED BY <4>1, <5>1, <5>2
      <4>2. CASE k # h + 1
        <5>1. k \in a..h /\ (k # a => k - 1 \in a..(h + 1) /\ k - 1 # h + 1) BY <4>2
        <5>2. G[k] = g[k] /\ (k # a => G[k - 1] = g[k - 1]) BY <5>1
        <5> QED BY <3>1, <5>1, <5>2
      <4> QED BY <4>1, <4>2
    <3>6. Good(h + 1)
      <4> HIDE DEF G
      <4> QED BY <3>4, <3>5
    <3> QED BY <3>2, <3>6
  <2>3. b \in T
    <3> HIDE DEF T
    <3>1. \A h \in a..b : h \in T BY <2>1, <2>2, InductionOnInterval
    <3> QED BY <1>2, <3>1
  <2>4. PICK g \in [a..b -> S] : \A k \in a..b : g[k] = IF k = a THEN s ELSE F[<<k, g[k - 1]>>]
    BY <2>3
  <2>5. g = Along(a, b, s, F, g) BY <2>4 DEF Along
  <2> QED BY <2>5
<1> QED BY <1>1, <1>2
=============================================================================
