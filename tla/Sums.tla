-------------------------------- MODULE Sums --------------------------------
(***************************************************************************)
(* Facts about SumFunctionOnSet, the sum of f[x] over the elements x of a  *)
(* finite set, which says what a ledger, a log of usage or an invoice      *)
(* comes to.  It is a fold: a recursive function that takes out one chosen *)
(* element after another, so that it has to be shown to be a function at   *)
(* all (IterExists), and not to depend on the choice (SumRemove).  The     *)
(* rest follows: what a sum does when an element is added, and that it is  *)
(* the sum of the sums over the parts of a partition.                      *)
(*                                                                         *)
(* The inductions are over sets rather than predicates: a set of numbers   *)
(* with 0 and the successor of each of its members has no least number     *)
(* missing (WFMin).                                                        *)
(***************************************************************************)
EXTENDS Integers, FiniteSets, Functions, FiniteSetTheorems, WellFoundedInduction, TLAPS

\* The element that the fold takes out of s.
Pick(s) == CHOOSE x \in s : TRUE

\* One step of the fold over s, given its values g on smaller sets.
Body(f, g, s) == IF s = {} THEN 0 ELSE f[Pick(s)] + g[s \ {Pick(s)}]

\* The fold as a function on the subsets of S.
Iter(f, S) == CHOOSE g : g = [s \in SUBSET S |-> Body(f, g, s)]

\* The community module's definition is that function at S.
LEMMA SumIsIter ==
  ASSUME NEW f, NEW S
  PROVE  SumFunctionOnSet(f, S) = Iter(f, S)[S]
BY DEF SumFunctionOnSet, FoldFunctionOnSet, MapThenFoldSet, Iter, Body, Pick

\* What is taken out of a set was in it.
LEMMA PickIn == ASSUME NEW s, s # {} PROVE Pick(s) \in s
BY DEF Pick

\* A set of numbers that holds 0 and the successor of each of its members holds
\* every number.
LEMMA Induction ==
  ASSUME NEW T \in SUBSET Nat, 0 \in T, \A n \in T : n + 1 \in T
  PROVE  T = Nat
<1> SUFFICES ASSUME Nat \ T # {} PROVE FALSE
  OBVIOUS
<1>1. PICK n \in Nat \ T : \A m \in Nat \ T : ~(<<m, n>> \in OpToRel(<, Nat))
  <2>1. Nat \ T \subseteq Nat /\ Nat \ T # {}
    OBVIOUS
  <2>2. QED
    BY <2>1, NatLessThanWellFounded, WFMin
<1>2. n # 0 /\ n - 1 \in Nat /\ n - 1 < n
  OBVIOUS
<1>3. n - 1 \in T
  BY <1>1, <1>2 DEF OpToRel
<1>4. QED
  BY <1>2, <1>3

\* A set that holds {}, and every subset A of a finite S for which it holds A
\* without any one element, holds every subset of S.
LEMMA SubsetInduction ==
  ASSUME NEW S, IsFiniteSet(S), NEW T, {} \in T,
         \A A \in SUBSET S : A # {} /\ (\A x \in A : A \ {x} \in T) => A \in T
  PROVE  SUBSET S \subseteq T
<1> DEFINE N == {n \in Nat : \A A \in SUBSET S : Cardinality(A) = n => A \in T}
<1>1. \A A \in SUBSET S : IsFiniteSet(A) /\ Cardinality(A) \in Nat
  BY FS_Subset, FS_CardinalityType
<1>2. 0 \in N
  BY <1>1, FS_EmptySet
<1>3. ASSUME NEW n \in N PROVE n + 1 \in N
  <2> SUFFICES ASSUME NEW A \in SUBSET S, Cardinality(A) = n + 1 PROVE A \in T
    OBVIOUS
  <2>1. A # {}
    BY <1>1, FS_EmptySet
  <2>2. ASSUME NEW x \in A PROVE A \ {x} \in T
    <3>1. Cardinality(A \ {x}) = n
      BY <1>1, FS_RemoveElement
    <3>2. QED
      BY <3>1
  <2>3. QED
    BY <2>1, <2>2
<1> HIDE DEF N
<1>4. N = Nat
  BY <1>2, <1>3, Induction DEF N
<1>5. QED
  BY <1>1, <1>4 DEF N

\* The recursion has a solution, so Iter satisfies it: by induction on the size
\* of the subsets it is defined on.
LEMMA IterExists ==
  ASSUME NEW f, NEW S, IsFiniteSet(S)
  PROVE  \A A \in SUBSET S : Iter(f, S)[A] = Body(f, Iter(f, S), A)
<1> DEFINE Dom(n) == {s \in SUBSET S : Cardinality(s) <= n}
           N == {n \in Nat : \E g : g = [s \in Dom(n) |-> Body(f, g, s)]}
<1>1. \A A \in SUBSET S : IsFiniteSet(A) /\ Cardinality(A) \in Nat
  BY FS_Subset, FS_CardinalityType
<1>2. \A A \in SUBSET S : A # {} => /\ Pick(A) \in A /\ A \ {Pick(A)} \in SUBSET S
                                    /\ Cardinality(A \ {Pick(A)}) = Cardinality(A) - 1
  BY <1>1, PickIn, FS_RemoveElement
<1>3. 0 \in N
  <2>1. Dom(0) = {{}}
    BY <1>1, FS_EmptySet
  <2> DEFINE g == [s \in Dom(0) |-> 0]
  <2>2. g = [s \in Dom(0) |-> Body(f, g, s)]
    BY <2>1 DEF Body
  <2>3. QED
    BY <2>2
<1>4. ASSUME NEW n \in N PROVE n + 1 \in N
  <2>1. PICK g : g = [s \in Dom(n) |-> Body(f, g, s)]
    OBVIOUS
  <2> DEFINE h == [s \in Dom(n + 1) |-> Body(f, g, s)]
  <2>2. ASSUME NEW s \in Dom(n) PROVE s \in Dom(n + 1) /\ h[s] = g[s]
    BY <1>1, <2>1, <2>2
  <2>3. ASSUME NEW s \in Dom(n + 1) PROVE Body(f, g, s) = Body(f, h, s)
    <3>1. s # {} => s \ {Pick(s)} \in Dom(n)
      BY <1>1, <1>2
    <3> HIDE DEF h, Dom
    <3>2. QED
      BY <2>2, <3>1 DEF Body
  <2>4. h = [s \in Dom(n + 1) |-> Body(f, h, s)]
    <3>1. \A s \in Dom(n + 1) : h[s] = Body(f, h, s)
      BY <2>3
    <3>2. h = [s \in Dom(n + 1) |-> h[s]]
      OBVIOUS
    <3> HIDE DEF h, Dom
    <3>3. QED
      BY <3>1, <3>2
  <2> HIDE DEF h
  <2>5. QED
    BY <2>4
<1> HIDE DEF N
<1>5. N = Nat
  BY <1>3, <1>4, Induction DEF N
<1>6. Dom(Cardinality(S)) = SUBSET S
  BY <1>1, FS_Subset
<1>7. \E g : g = [s \in SUBSET S |-> Body(f, g, s)]
  <2>1. Cardinality(S) \in N
    BY <1>1, <1>5
  <2>2. QED
    BY <1>6, <2>1 DEF N
<1>8. Iter(f, S) = [s \in SUBSET S |-> Body(f, Iter(f, S), s)]
  BY <1>7 DEF Iter
<1>9. \A it : it = [s \in SUBSET S |-> Body(f, it, s)] => \A A \in SUBSET S : it[A] = Body(f, it, A)
  OBVIOUS
<1>10. QED
  BY <1>8, <1>9

\* The fold of a set looks at no more than its elements.
LEMMA IterAgrees ==
  ASSUME NEW f, NEW g, NEW S, IsFiniteSet(S), NEW A \in SUBSET S, \A x \in A : f[x] = g[x]
  PROVE  Iter(f, S)[A] = Iter(g, A)[A]
<1> DEFINE T == {B \in SUBSET A : Iter(f, S)[B] = Iter(g, A)[B]}
<1>1. IsFiniteSet(A)
  BY FS_Subset
<1>2. \A B \in SUBSET A : /\ Iter(f, S)[B] = Body(f, Iter(f, S), B)
                          /\ Iter(g, A)[B] = Body(g, Iter(g, A), B)
  BY <1>1, IterExists
<1>3. {} \in T
  BY <1>2 DEF Body
<1>4. ASSUME NEW B \in SUBSET A, B # {}, \A x \in B : B \ {x} \in T PROVE B \in T
  BY <1>2, <1>4, PickIn DEF Body
<1> HIDE DEF T
<1>5. SUBSET A \subseteq T
  BY <1>1, <1>3, <1>4, SubsetInduction
<1>6. QED
  BY <1>5 DEF T

\* Nothing sums to nothing.
LEMMA SumEmpty == ASSUME NEW f PROVE SumFunctionOnSet(f, {}) = 0
<1>1. Iter(f, {})[{}] = Body(f, Iter(f, {}), {})
  BY IterExists, FS_EmptySet
<1>2. QED
  BY <1>1, SumIsIter DEF Body

\* Equal terms have equal sums.
LEMMA SumAgrees ==
  ASSUME NEW S, IsFiniteSet(S), NEW f, NEW g, \A x \in S : f[x] = g[x]
  PROVE  SumFunctionOnSet(f, S) = SumFunctionOnSet(g, S)
BY SumIsIter, IterAgrees

\* The sum is the chosen element's term and the sum of the others.
LEMMA SumPick ==
  ASSUME NEW f, NEW S, IsFiniteSet(S), S # {}
  PROVE  SumFunctionOnSet(f, S) = f[Pick(S)] + SumFunctionOnSet(f, S \ {Pick(S)})
<1>1. Iter(f, S)[S] = f[Pick(S)] + Iter(f, S)[S \ {Pick(S)}]
  <2>1. Iter(f, S)[S] = Body(f, Iter(f, S), S)
    BY IterExists
  <2>2. QED
    BY <2>1 DEF Body
<1>2. S \ {Pick(S)} \in SUBSET S
  OBVIOUS
<1>3. QED
  BY <1>1, <1>2, SumIsIter, IterAgrees

\* Integers sum to an integer.
LEMMA SumType ==
  ASSUME NEW f, NEW S, IsFiniteSet(S), \A x \in S : f[x] \in Int
  PROVE  SumFunctionOnSet(f, S) \in Int
<1> DEFINE T == {A \in SUBSET S : SumFunctionOnSet(f, A) \in Int}
<1>1. {} \in T
  BY SumEmpty
<1>2. ASSUME NEW A \in SUBSET S, A # {}, \A x \in A : A \ {x} \in T PROVE A \in T
  <2> DEFINE c == Pick(A)
  <2>1. c \in A /\ A \ {c} \in T
    BY <1>2, PickIn
  <2>2. SumFunctionOnSet(f, A) = f[c] + SumFunctionOnSet(f, A \ {c})
    BY <1>2, SumPick, FS_Subset
  <2> HIDE DEF c
  <2>3. QED
    BY <2>1, <2>2
<1> HIDE DEF T
<1>3. SUBSET S \subseteq T
  BY <1>1, <1>2, SubsetInduction
<1>4. QED
  BY <1>3 DEF T

\* Any element may be taken out first: two that are exchanged give the same sum.
THEOREM SumRemove ==
  ASSUME NEW f, NEW S, IsFiniteSet(S), \A x \in S : f[x] \in Int, NEW y \in S
  PROVE  SumFunctionOnSet(f, S) = f[y] + SumFunctionOnSet(f, S \ {y})
<1> DEFINE SumOver(A) == SumFunctionOnSet(f, A)
           T == {A \in SUBSET S : \A x \in A : SumOver(A) = f[x] + SumOver(A \ {x})}
<1>1. \A A \in SUBSET S : IsFiniteSet(A) /\ SumOver(A) \in Int
  BY FS_Subset, SumType
<1>2. {} \in T
  OBVIOUS
<1>3. ASSUME NEW A \in SUBSET S, A # {}, \A x \in A : A \ {x} \in T PROVE A \in T
  <2> DEFINE c == Pick(A)
  <2>1. c \in A /\ SumOver(A) = f[c] + SumOver(A \ {c})
    BY <1>1, <1>3, SumPick, PickIn
  <2> HIDE DEF c
  <2>2. ASSUME NEW x \in A PROVE SumOver(A) = f[x] + SumOver(A \ {x})
    <3>1. CASE x = c
      BY <2>1, <3>1
    <3>2. CASE x # c
      <4> DEFINE R == (A \ {c}) \ {x}
      <4>1. SumOver(A \ {c}) = f[x] + SumOver(R)
        BY <1>3, <2>1, <3>2
      <4>2. R = (A \ {x}) \ {c} /\ R \in SUBSET S
        OBVIOUS
      <4>3. SumOver(A \ {x}) = f[c] + SumOver(R)
        BY <1>3, <2>1, <3>2, <4>2
      <4>4. f[x] \in Int /\ f[c] \in Int /\ SumOver(R) \in Int
        BY <1>1, <2>1, <4>2
      <4> HIDE DEF SumOver, R
      <4>5. QED
        BY <2>1, <4>1, <4>3, <4>4
    <3>3. QED
      BY <3>1, <3>2
  <2>3. QED
    BY <2>2
<1> HIDE DEF T
<1>4. SUBSET S \subseteq T
  BY <1>2, <1>3, SubsetInduction
<1>5. QED
  BY <1>4 DEF T

\* A new element adds its term.
LEMMA SumAdd ==
  ASSUME NEW f, NEW S, IsFiniteSet(S), \A x \in S : f[x] \in Int, NEW y, y \notin S, f[y] \in Int
  PROVE  SumFunctionOnSet(f, S \cup {y}) = SumFunctionOnSet(f, S) + f[y]
<1>1. IsFiniteSet(S \cup {y}) /\ SumFunctionOnSet(f, S) \in Int
  BY FS_AddElement, SumType
<1>2. (S \cup {y}) \ {y} = S
  OBVIOUS
<1>3. SumFunctionOnSet(f, S \cup {y}) = f[y] + SumFunctionOnSet(f, (S \cup {y}) \ {y})
  BY <1>1, SumRemove
<1>4. \A a, b \in Int : a + b = b + a
  OBVIOUS
<1>5. QED
  BY <1>1, <1>2, <1>3, <1>4

\* Numbers sum to a number.
LEMMA SumNat ==
  ASSUME NEW f, NEW S, IsFiniteSet(S), \A x \in S : f[x] \in Nat
  PROVE  SumFunctionOnSet(f, S) \in Nat
<1> DEFINE T == {A \in SUBSET S : SumFunctionOnSet(f, A) \in Nat}
<1>1. {} \in T
  BY SumEmpty
<1>2. ASSUME NEW A \in SUBSET S, A # {}, \A x \in A : A \ {x} \in T PROVE A \in T
  <2> DEFINE c == Pick(A)
  <2>1. c \in A /\ A \ {c} \in T
    BY <1>2, PickIn
  <2>2. SumFunctionOnSet(f, A) = f[c] + SumFunctionOnSet(f, A \ {c})
    BY <1>2, SumPick, FS_Subset
  <2> HIDE DEF c
  <2>3. QED
    BY <2>1, <2>2
<1> HIDE DEF T
<1>3. SUBSET S \subseteq T
  BY <1>1, <1>2, SubsetInduction
<1>4. QED
  BY <1>3 DEF T

\* A sum is the sum over a part and the sum over the rest.
LEMMA SumSplit ==
  ASSUME NEW f, NEW S, IsFiniteSet(S), \A x \in S : f[x] \in Int, NEW A \in SUBSET S
  PROVE  SumFunctionOnSet(f, S) = SumFunctionOnSet(f, A) + SumFunctionOnSet(f, S \ A)
<1> DEFINE SumOver(X) == SumFunctionOnSet(f, X)
           T == {B \in SUBSET A : SumOver(S) = SumOver(B) + SumOver(S \ B)}
<1>1. \A B \in SUBSET S : IsFiniteSet(B) /\ SumOver(B) \in Int
  BY FS_Subset, SumType
<1>2. {} \in T
  <2>1. S \ {} = S /\ SumOver(S) \in Int
    BY <1>1
  <2>2. \A n \in Int : n = 0 + n
    OBVIOUS
  <2>3. SumOver({}) = 0
    BY SumEmpty
  <2> HIDE DEF SumOver
  <2>4. QED
    BY <2>1, <2>2, <2>3
<1>3. ASSUME NEW B \in SUBSET A, B # {}, \A x \in B : B \ {x} \in T PROVE B \in T
  <2>1. PICK x \in B : TRUE
    BY <1>3
  <2> DEFINE C == B \ {x}
  <2>2. SumOver(S) = SumOver(C) + SumOver(S \ C)
    BY <1>3
  <2>3. SumOver(B) = f[x] + SumOver(C)
    <3>1. IsFiniteSet(B) /\ \A y \in B : f[y] \in Int
      BY <1>1
    <3>2. QED
      BY <3>1, SumRemove
  <2>4. SumOver(S \ C) = f[x] + SumOver(S \ B)
    <3>1. /\ IsFiniteSet(S \ C) /\ \A y \in S \ C : f[y] \in Int
          /\ x \in S \ C /\ (S \ C) \ {x} = S \ B
      BY <1>1
    <3> HIDE DEF C
    <3>2. SumOver(S \ C) = f[x] + SumOver((S \ C) \ {x})
      BY <3>1, SumRemove
    <3>3. QED
      BY <3>1, <3>2
  <2>5. SumOver(C) \in Int /\ SumOver(S \ B) \in Int /\ f[x] \in Int
    BY <1>1
  <2> HIDE DEF C, SumOver
  <2>6. SumOver(S) = SumOver(B) + SumOver(S \ B)
    BY <2>2, <2>3, <2>4, <2>5
  <2>7. QED
    BY <2>6
<1> HIDE DEF T
<1>4. SUBSET A \subseteq T
  BY <1>2, <1>3, FS_Subset, SubsetInduction
<1>5. QED
  BY <1>4 DEF T

\* A sum of numbers does not fall when terms are added.
LEMMA SumGrows ==
  ASSUME NEW f, NEW g, NEW T, IsFiniteSet(T), NEW S \in SUBSET T,
         \A x \in S : f[x] = g[x], \A x \in T : g[x] \in Nat
  PROVE  SumFunctionOnSet(f, S) <= SumFunctionOnSet(g, T)
<1>1. IsFiniteSet(S) /\ IsFiniteSet(T \ S)
  BY FS_Subset
<1>2. SumFunctionOnSet(g, S) \in Nat /\ SumFunctionOnSet(g, T \ S) \in Nat
  BY <1>1, SumNat
<1>3. SumFunctionOnSet(g, T) = SumFunctionOnSet(g, S) + SumFunctionOnSet(g, T \ S)
  BY SumSplit
<1>4. SumFunctionOnSet(f, S) = SumFunctionOnSet(g, S)
  BY <1>1, SumAgrees
<1>5. QED
  BY <1>2, <1>3, <1>4

\* Multiplication is distributive, which the provers do not find by themselves.
LEMMA Distributes ==
  ASSUME NEW a \in Int, NEW b \in Int, NEW c \in Int
  PROVE  (a + b) * c = a * c + b * c /\ a * c \in Int /\ b * c \in Int
OBVIOUS

\* Terms that are each within half of p of p's multiples are, summed, within as
\* many halves as there are terms.
LEMMA SumOff ==
  ASSUME NEW f, NEW g, NEW S, IsFiniteSet(S), NEW p \in Nat,
         \A x \in S : /\ f[x] \in Int /\ g[x] \in Int
                      /\ 2 * (f[x] * p - g[x]) <= p /\ -(2 * (f[x] * p - g[x])) <= p
  PROVE  LET off == 2 * (SumFunctionOnSet(f, S) * p - SumFunctionOnSet(g, S)) IN
         off <= Cardinality(S) * p /\ -off <= Cardinality(S) * p
<1> DEFINE F(A) == SumFunctionOnSet(f, A)
           G(A) == SumFunctionOnSet(g, A)
           Near(A) == /\ 2 * (F(A) * p - G(A)) <= Cardinality(A) * p
                      /\ -(2 * (F(A) * p - G(A))) <= Cardinality(A) * p
           T == {A \in SUBSET S : Near(A)}
<1>1. \A A \in SUBSET S : IsFiniteSet(A) /\ Cardinality(A) \in Nat
  BY FS_Subset, FS_CardinalityType
<1>2. \A A \in SUBSET S : F(A) \in Int /\ G(A) \in Int
  BY <1>1, SumType
<1>3. {} \in T
  BY SumEmpty, FS_EmptySet
<1>4. ASSUME NEW A \in SUBSET S, A # {}, \A x \in A : A \ {x} \in T PROVE A \in T
  <2>1. PICK x \in A : TRUE
    BY <1>4
  <2> DEFINE B == A \ {x}
  <2>2. F(A) = f[x] + F(B) /\ G(A) = g[x] + G(B)
    <3>1. IsFiniteSet(A) /\ \A y \in A : f[y] \in Int /\ g[y] \in Int
      BY <1>1
    <3>2. QED
      BY <3>1, SumRemove
  <2>3. Near(B)
    BY <1>4
  <2>4. Cardinality(A) = Cardinality(B) + 1 /\ Cardinality(B) \in Nat
    <3>1. IsFiniteSet(A) /\ Cardinality(A) \in Nat /\ B \in SUBSET S
      BY <1>1
    <3>2. Cardinality(B) = Cardinality(A) - 1
      BY <3>1, FS_RemoveElement
    <3> HIDE DEF B
    <3>3. QED
      BY <1>1, <3>1, <3>2
  <2>5. /\ F(B) \in Int /\ G(B) \in Int /\ f[x] \in Int /\ g[x] \in Int
        /\ 2 * (f[x] * p - g[x]) <= p /\ -(2 * (f[x] * p - g[x])) <= p
    BY <1>2
  <2> HIDE DEF B, F, G
  <2>6. /\ F(A) * p = f[x] * p + F(B) * p /\ f[x] * p \in Int /\ F(B) * p \in Int
        /\ Cardinality(A) * p = Cardinality(B) * p + p /\ Cardinality(B) * p \in Int
    <3>1. Cardinality(A) * p = Cardinality(B) * p + 1 * p
      BY <2>4, Distributes
    <3>2. 1 * p = p /\ Cardinality(B) * p \in Int
      BY <2>4, Distributes
    <3>3. QED
      BY <2>2, <2>5, <3>1, <3>2, Distributes
  <2>7. Near(A)
    BY <2>2, <2>3, <2>5, <2>6
  <2>8. QED
    BY <2>7
<1> HIDE DEF T
<1>5. SUBSET S \subseteq T
  BY <1>3, <1>4, SubsetInduction
<1>6. QED
  BY <1>5 DEF T

\* What a function maps a finite set to is finite.
LEMMA FiniteImage ==
  ASSUME NEW S, IsFiniteSet(S), NEW kind
  PROVE  IsFiniteSet({kind[x] : x \in S})
<1> DEFINE T == {kind[x] : x \in S}
           h == [x \in S |-> kind[x]]
<1>1. h \in Surjection(S, T)
  BY DEF Surjection
<1>2. QED
  BY <1>1, FS_Surjection DEF ExistsSurjection

\* The elements of S of the kinds K.
OfKinds(S, kind, K) == {x \in S : kind[x] \in K}

\* A sum is the sum of the sums over each kind of element.
THEOREM SumByKind ==
  ASSUME NEW f, NEW g, NEW kind, NEW S, NEW K,
         IsFiniteSet(S), IsFiniteSet(K), \A x \in S : f[x] \in Int,
         \A k \in K : g[k] = SumFunctionOnSet(f, OfKinds(S, kind, {k}))
  PROVE  SumFunctionOnSet(g, K) = SumFunctionOnSet(f, OfKinds(S, kind, K))
<1> DEFINE Those(L) == OfKinds(S, kind, L)
           T == {L \in SUBSET K : SumFunctionOnSet(g, L) = SumFunctionOnSet(f, Those(L))}
<1>1. \A A \in SUBSET S : IsFiniteSet(A) /\ SumFunctionOnSet(f, A) \in Int
  BY FS_Subset, SumType
<1>2. \A k \in K : g[k] \in Int
  BY <1>1 DEF OfKinds
<1>3. {} \in T
  <2>1. Those({}) = {}
    BY DEF OfKinds
  <2>2. QED
    BY <2>1, SumEmpty
<1>4. ASSUME NEW L \in SUBSET K, L # {}, \A k \in L : L \ {k} \in T PROVE L \in T
  <2>1. PICK k \in L : TRUE
    BY <1>4
  <2> DEFINE M == L \ {k}
             A == Those({k})
  <2>2. SumFunctionOnSet(g, M) = SumFunctionOnSet(f, Those(M))
    BY <1>4
  <2>3. SumFunctionOnSet(g, L) = g[k] + SumFunctionOnSet(g, M)
    <3>1. IsFiniteSet(L) /\ \A y \in L : g[y] \in Int
      BY <1>2, FS_Subset
    <3>2. QED
      BY <3>1, SumRemove
  <2>4. SumFunctionOnSet(f, Those(L)) = SumFunctionOnSet(f, A) + SumFunctionOnSet(f, Those(M))
    <3>1. /\ IsFiniteSet(Those(L)) /\ A \in SUBSET Those(L) /\ Those(L) \ A = Those(M)
          /\ \A x \in Those(L) : f[x] \in Int
      BY <1>1 DEF OfKinds
    <3> HIDE DEF A, M, Those
    <3>2. QED
      BY <3>1, SumSplit
  <2>5. QED
    BY <2>2, <2>3, <2>4
<1> HIDE DEF T
<1>5. K \in T
  BY <1>3, <1>4, SubsetInduction
<1>6. QED
  BY <1>5 DEF T
=============================================================================
