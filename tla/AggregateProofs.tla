--------------------------- MODULE AggregateProofs ---------------------------
(***************************************************************************)
(* Proofs about the data structures of aggregate: the t-digest, for any    *)
(* digests, finite set of values, buffer capacity and increasing scale;    *)
(* and groupTable, for any keys, any hash function however it collides,    *)
(* and any initial capacity.                                               *)
(*                                                                         *)
(* A digest is built by a sort, a fold and sums over sequences and sets,   *)
(* which are recursive.  What they compute is proved by induction, in four *)
(* steps: induction over naturals and finite sets, sums, the greedy pass   *)
(* and the sort of compress, and then the inductive invariant.             *)
(***************************************************************************)
EXTENDS GroupTable, TDigest, SequenceTheorems, FiniteSetTheorems, WellFoundedInduction, TLAPS

-----------------------------------------------------------------------------
(* Induction, stated over sets: the library's induction theorems take a      *)
(* predicate as a parameter, which has no first-order instance, but not the  *)
(* one that every set of naturals has a least element.                       *)

\* A set of naturals has a least element.
LEMMA LeastNatural ==
    ASSUME NEW T, T \subseteq Nat, T # {}
    PROVE  \E x \in T : \A y \in T : x <= y
<1> DEFINE R == {p \in Nat \X Nat : p[1] < p[2]}
<1>1. IsWellFoundedOn(R, Nat)
  BY NatLessThanWellFounded DEF OpToRel
<1>2. \E x \in T : \A y \in T : <<y, x>> \notin R
  <2> HIDE DEF R
  <2> QED BY <1>1, WFMin
<1>3. ASSUME NEW x \in T, \A y \in T : <<y, x>> \notin R,
             NEW y \in T
      PROVE  x <= y
  <2>1. <<y, x>> \in Nat \X Nat /\ ~(y < x)
    BY <1>3
  <2> QED BY <2>1
<1> HIDE DEF R
<1> QED BY <1>2, <1>3

\* Induction over the naturals.
LEMMA NaturalsByInduction ==
    ASSUME NEW Q, 0 \in Q, \A n \in Nat : n \in Q => n + 1 \in Q
    PROVE  \A n \in Nat : n \in Q
<1> DEFINE T == Nat \ Q
<1>1. CASE T # {}
  <2>1. PICK x \in T : \A y \in T : x <= y
    BY LeastNatural, <1>1
  <2>2. x \in Nat /\ x # 0 /\ x - 1 \in Nat
    BY <2>1
  <2>3. x - 1 \in Q
    BY <2>1, <2>2
  <2>4. (x - 1) + 1 \in Q
    BY <2>2, <2>3
  <2> QED BY <2>2, <2>4, <2>1
<1> QED BY <1>1

\* Induction over finite sets: a property of the empty set that T has whenever
\* it has it without any one of its elements.
LEMMA FiniteSetsByInduction ==
    ASSUME NEW S, IsFiniteSet(S),
           NEW Q, {} \in Q,
           \A T \in SUBSET S : T # {} /\ (\A x \in T : T \ {x} \in Q) => T \in Q
    PROVE  \A T \in SUBSET S : T \in Q
<1> DEFINE P == {n \in Nat : \A T \in SUBSET S : Cardinality(T) = n => T \in Q}
<1>1. 0 \in P
  <2>1. ASSUME NEW T \in SUBSET S, Cardinality(T) = 0
        PROVE  T = {}
    BY <2>1, FS_Subset, FS_EmptySet
  <2> QED BY <2>1
<1>2. ASSUME NEW n \in Nat, n \in P,
             NEW T \in SUBSET S, Cardinality(T) = n + 1
      PROVE  T \in Q
  <2>1. IsFiniteSet(T)
    BY FS_Subset
  <2>2. T # {}
    BY <1>2, <2>1, FS_EmptySet
  <2>3. ASSUME NEW x \in T
        PROVE  T \ {x} \in Q
    <3>1. Cardinality(T \ {x}) = Cardinality(T) - 1
      BY <2>1, FS_RemoveElement
    <3> QED BY <1>2, <3>1
  <2> QED BY <2>2, <2>3
<1>3. \A n \in Nat : n \in P
  <2>1. \A n \in Nat : n \in P => n + 1 \in P
    BY <1>2
  <2> HIDE DEF P
  <2> QED BY <1>1, <2>1, NaturalsByInduction
<1>4. ASSUME NEW T \in SUBSET S
      PROVE  Cardinality(T) \in Nat
  BY FS_Subset, FS_CardinalityType
<1> QED BY <1>3, <1>4

\* A proper subset of a finite set has fewer elements.
LEMMA ProperSubset ==
    ASSUME NEW T, IsFiniteSet(T), NEW U \in SUBSET T, U # T
    PROVE  Cardinality(U) < Cardinality(T)
<1>1. Cardinality(T) \in Nat /\ Cardinality(U) \in Nat
  BY FS_Subset, FS_CardinalityType
<1>2. Cardinality(U) <= Cardinality(T) /\ Cardinality(U) # Cardinality(T)
  BY FS_Subset
<1> QED BY <1>1, <1>2

\* G computes the value in A of a subset of S from the values of its proper subsets.
ComputesFromSmaller(G, S, A) ==
    /\ G \in [(SUBSET S) \X [SUBSET S -> A] -> A]
    /\ \A T \in SUBSET S, g, h \in [SUBSET S -> A] :
           (\A U \in SUBSET T : U # T => g[U] = h[U]) => G[<<T, g>>] = G[<<T, h>>]

\* h has at each subset the value G computes.
ComputedBy(h, G, S, A) ==
    h \in [SUBSET S -> A] /\ \A T \in SUBSET S : h[T] = G[<<T, h>>]

\* Recursion over the subsets of a finite set.
LEMMA SubsetRecursion ==
    ASSUME NEW S, IsFiniteSet(S), NEW A, A # {},
           NEW G, ComputesFromSmaller(G, S, A)
    PROVE  \E h : ComputedBy(h, G, S, A)
<1> USE DEF ComputesFromSmaller
<1> PICK base \in A : TRUE
  OBVIOUS
<1> DEFINE UpTo(n, h) == \A T \in SUBSET S : Cardinality(T) <= n => h[T] = G[<<T, h>>]
           P == {n \in Nat : \E h \in [SUBSET S -> A] : UpTo(n, h)}
           Next1(h) == [T \in SUBSET S |-> G[<<T, h>>]]
<1>0. ASSUME NEW h \in [SUBSET S -> A]
      PROVE  Next1(h) \in [SUBSET S -> A]
  OBVIOUS
<1>1. ASSUME NEW T \in SUBSET S
      PROVE  IsFiniteSet(T) /\ Cardinality(T) \in Nat
  BY FS_Subset, FS_CardinalityType
<1>2. 0 \in P
  <2> DEFINE h == [T \in SUBSET S |-> base]
  <2>1. h \in [SUBSET S -> A]
    OBVIOUS
  <2>2. ASSUME NEW T \in SUBSET S, Cardinality(T) <= 0
        PROVE  Next1(h)[T] = G[<<T, Next1(h)>>]
    <3>1. T = {}
      BY <2>2, <1>1, FS_EmptySet
    <3>2. \A U \in SUBSET T : U = T
      BY <3>1
    <3> HIDE DEF h
    <3>3. \A U \in SUBSET T : U # T => h[U] = Next1(h)[U]
      BY <3>2
    <3>4. G[<<T, h>>] = G[<<T, Next1(h)>>]
      <4>1. h \in [SUBSET S -> A] /\ Next1(h) \in [SUBSET S -> A]
        BY <2>1, <1>0
      <4> HIDE DEF Next1, h
      <4> QED BY <3>3, <4>1
    <3> QED BY <3>4
  <2> QED BY <2>1, <2>2, <1>0
<1>3. ASSUME NEW n \in Nat, n \in P
      PROVE  n + 1 \in P
  <2>1. PICK h \in [SUBSET S -> A] : UpTo(n, h)
    BY <1>3
  <2>2. ASSUME NEW T \in SUBSET S, Cardinality(T) <= n + 1
        PROVE  Next1(h)[T] = G[<<T, Next1(h)>>]
    <3>1. ASSUME NEW U \in SUBSET T, U # T
          PROVE  h[U] = Next1(h)[U]
      <4>1. Cardinality(U) < Cardinality(T)
        BY <3>1, <1>1, ProperSubset
      <4>2. U \in SUBSET S /\ Cardinality(U) <= n
        BY <4>1, <2>2, <1>1
      <4> QED BY <4>2, <2>1
    <3>2. G[<<T, h>>] = G[<<T, Next1(h)>>]
      <4> HIDE DEF Next1
      <4> QED BY <3>1, <1>0
    <3> QED BY <3>2
  <2>3. UpTo(n + 1, Next1(h))
    BY <2>2
  <2>4. Next1(h) \in [SUBSET S -> A]
    BY <1>0
  <2> HIDE DEF UpTo, Next1
  <2> QED BY <2>3, <2>4
<1>4. \A n \in Nat : n \in P
  <2> HIDE DEF P
  <2> QED BY <1>2, <1>3, NaturalsByInduction
<1>5. PICK h \in [SUBSET S -> A] : UpTo(Cardinality(S), h)
  <2>1. Cardinality(S) \in P
    BY <1>1, <1>4
  <2> QED BY <2>1
<1>6. ASSUME NEW T \in SUBSET S
      PROVE  Cardinality(T) <= Cardinality(S)
  BY FS_Subset
<1>7. \A T \in SUBSET S : h[T] = G[<<T, h>>]
  BY <1>5, <1>6
<1> QED BY <1>7 DEF ComputedBy

-----------------------------------------------------------------------------
(* Sums over finite sets. *)

\* h adds up the values of f in the order in which CHOOSE picks the elements.
AddsUp(h, f, S) ==
    /\ h \in [SUBSET S -> Int]
    /\ \A T \in SUBSET S :
          h[T] = IF T = {} THEN 0
                 ELSE f[CHOOSE x \in T : TRUE] + h[T \ {CHOOSE x \in T : TRUE}]

\* SumFunctionOnSet takes one element of the set after the other.
LEMMA SumIterates ==
    ASSUME NEW S, IsFiniteSet(S), NEW f, \A x \in S : f[x] \in Int
    PROVE  \E h : AddsUp(h, f, S) /\ SumFunctionOnSet(f, S) = h[S]
<1> DEFINE Pick(T) == CHOOSE x \in T : TRUE
           Rest(T, h) == IF T = {} THEN 0 ELSE f[Pick(T)] + h[T \ {Pick(T)}]
           G == [z \in (SUBSET S) \X [SUBSET S -> Int] |-> Rest(z[1], z[2])]
<1>1. ASSUME NEW T \in SUBSET S, T # {}
      PROVE  /\ Pick(T) \in T /\ f[Pick(T)] \in Int
             /\ T \ {Pick(T)} \in SUBSET T /\ T \ {Pick(T)} # T
             /\ T \ {Pick(T)} \in SUBSET S
  BY <1>1
<1>2. ASSUME NEW T \in SUBSET S, NEW h \in [SUBSET S -> Int]
      PROVE  G[<<T, h>>] = Rest(T, h) /\ Rest(T, h) \in Int
  <2>1. G[<<T, h>>] = Rest(T, h)
    <3> HIDE DEF Rest
    <3> QED OBVIOUS
  <2>2. Rest(T, h) \in Int
    <3> HIDE DEF Pick
    <3> QED BY <1>1
  <2> QED BY <2>1, <2>2
<1>3. G \in [(SUBSET S) \X [SUBSET S -> Int] -> Int]
  <2>1. ASSUME NEW z \in (SUBSET S) \X [SUBSET S -> Int]
        PROVE  G[z] \in Int
    <3>1. z = <<z[1], z[2]>> /\ z[1] \in SUBSET S /\ z[2] \in [SUBSET S -> Int]
      OBVIOUS
    <3>2. G[<<z[1], z[2]>>] \in Int
      <4> HIDE DEF G, Rest
      <4> QED BY <3>1, <1>2
    <3> HIDE DEF G
    <3> QED BY <3>1, <3>2
  <2>2. DOMAIN G = (SUBSET S) \X [SUBSET S -> Int] /\ G = [z \in DOMAIN G |-> G[z]]
    BY DEF G
  <2> HIDE DEF G
  <2> QED BY <2>1, <2>2
<1>4. ASSUME NEW T \in SUBSET S,
             NEW g \in [SUBSET S -> Int], NEW h \in [SUBSET S -> Int],
             \A U \in SUBSET T : U # T => g[U] = h[U]
      PROVE  G[<<T, g>>] = G[<<T, h>>]
  <2>1. Rest(T, g) = Rest(T, h)
    <3>1. CASE T = {}
      BY <3>1
    <3>2. CASE T # {}
      <4>1. g[T \ {Pick(T)}] = h[T \ {Pick(T)}]
        <5> HIDE DEF Pick
        <5> QED BY <1>4, <1>1, <3>2
      <4> HIDE DEF Pick
      <4> QED BY <4>1
    <3> QED BY <3>1, <3>2
  <2> HIDE DEF G, Rest
  <2> QED BY <2>1, <1>2
<1>5. PICK h \in [SUBSET S -> Int] : \A T \in SUBSET S : h[T] = G[<<T, h>>]
  <2>1. ComputesFromSmaller(G, S, Int)
    <3> HIDE DEF G
    <3> QED BY <1>3, <1>4 DEF ComputesFromSmaller
  <2>2. Int # {}
    OBVIOUS
  <2> HIDE DEF G
  <2>3. \E h : ComputedBy(h, G, S, Int)
    BY <2>1, <2>2, SubsetRecursion
  <2> QED BY <2>3 DEF ComputedBy
<1>6. \A T \in SUBSET S : h[T] = Rest(T, h)
  <2> HIDE DEF G, Rest
  <2> QED BY <1>5, <1>2
<1> DEFINE iter == CHOOSE iter : iter = [T \in SUBSET S |-> Rest(T, iter)]
<1>7. iter = [T \in SUBSET S |-> Rest(T, iter)]
  <2>1. h = [T \in SUBSET S |-> Rest(T, h)]
    <3> HIDE DEF Rest
    <3> QED BY <1>6
  <2> HIDE DEF Rest
  <2> QED BY <2>1
<1>8. SumFunctionOnSet(f, S) = iter[S]
  BY DEF SumFunctionOnSet, FoldFunctionOnSet, MapThenFoldSet
<1> DEFINE Q == {T \in SUBSET S : iter[T] = h[T]}
<1>9. S \in Q
  <2>1. {} \in Q
    BY <1>6, <1>7
  <2>2. ASSUME NEW T \in SUBSET S, T # {}, \A x \in T : T \ {x} \in Q
        PROVE  T \in Q
    <3>1. iter[T \ {Pick(T)}] = h[T \ {Pick(T)}]
      <4> HIDE DEF Pick, iter
      <4> QED BY <2>2, <1>1
    <3>2. iter[T] = Rest(T, iter)
      <4> HIDE DEF Rest, iter
      <4> QED BY <1>7
    <3>3. Rest(T, iter) = Rest(T, h)
      <4> HIDE DEF Pick, iter
      <4> QED BY <2>2, <3>1
    <3> HIDE DEF Rest, iter
    <3> QED BY <1>6, <3>2, <3>3
  <2> HIDE DEF Q
  <2> QED BY <2>1, <2>2, FiniteSetsByInduction
<1> QED BY <1>6, <1>8, <1>9 DEF AddsUp

\* The sum over a set is the value of the element chosen first and the sum over
\* the others.
LEMMA SumPicks ==
    ASSUME NEW S, IsFiniteSet(S), NEW f, \A x \in S : f[x] \in Int
    PROVE  /\ SumFunctionOnSet(f, S) \in Int
           /\ SumFunctionOnSet(f, {}) = 0
           /\ S # {} => SumFunctionOnSet(f, S)
                          = f[CHOOSE x \in S : TRUE]
                            + SumFunctionOnSet(f, S \ {CHOOSE x \in S : TRUE})
<1> DEFINE Pick(T) == CHOOSE x \in T : TRUE
           Rest(T, h) == IF T = {} THEN 0 ELSE f[Pick(T)] + h[T \ {Pick(T)}]
<1>1. PICK h \in [SUBSET S -> Int] :
         SumFunctionOnSet(f, S) = h[S] /\ \A T \in SUBSET S : h[T] = Rest(T, h)
  <2>1. PICK h : AddsUp(h, f, S) /\ SumFunctionOnSet(f, S) = h[S]
    BY SumIterates
  <2> QED BY <2>1 DEF AddsUp
<1>2. ASSUME NEW T \in SUBSET S, T # {}
      PROVE  /\ Pick(T) \in T
             /\ T \ {Pick(T)} \in SUBSET S /\ T \ {Pick(T)} \in SUBSET T
  BY <1>2
<1> DEFINE Q == {T \in SUBSET S : \A g : (\A U \in SUBSET T : g[U] = Rest(U, g)) => g[T] = h[T]}
<1>3. \A T \in SUBSET S : T \in Q
  <2>1. {} \in Q
    BY <1>1
  <2>2. ASSUME NEW T \in SUBSET S, T # {}, \A x \in T : T \ {x} \in Q,
               NEW g, \A U \in SUBSET T : g[U] = Rest(U, g)
        PROVE  g[T] = h[T]
    <3>1. Pick(T) \in T /\ T \ {Pick(T)} \in Q
      BY <2>2, <1>2
    <3>2. g[T \ {Pick(T)}] = h[T \ {Pick(T)}]
      <4>1. \A U \in SUBSET (T \ {Pick(T)}) : g[U] = Rest(U, g)
        <5> HIDE DEF Rest, Pick
        <5> QED BY <2>2
      <4> HIDE DEF Rest, Pick
      <4> QED BY <3>1, <4>1
    <3>3. g[T] = Rest(T, g)
      <4> HIDE DEF Rest
      <4> QED BY <2>2
    <3>4. h[T] = Rest(T, h)
      <4> HIDE DEF Rest
      <4> QED BY <1>1
    <3> HIDE DEF Pick
    <3> QED BY <2>2, <3>2, <3>3, <3>4
  <2>3. \A T \in SUBSET S : T # {} /\ (\A x \in T : T \ {x} \in Q) => T \in Q
    <3> HIDE DEF Rest
    <3> QED BY <2>2
  <2> HIDE DEF Q
  <2> QED BY <2>1, <2>3, FiniteSetsByInduction
<1>4. ASSUME NEW T \in SUBSET S
      PROVE  SumFunctionOnSet(f, T) = h[T]
  <2>1. IsFiniteSet(T) /\ \A x \in T : f[x] \in Int
    BY FS_Subset
  <2>2. PICK g \in [SUBSET T -> Int] :
           SumFunctionOnSet(f, T) = g[T] /\ \A U \in SUBSET T : g[U] = Rest(U, g)
    <3>1. PICK g : AddsUp(g, f, T) /\ SumFunctionOnSet(f, T) = g[T]
      BY <2>1, SumIterates
    <3> QED BY <3>1 DEF AddsUp
  <2>3. g[T] = h[T]
    <3> HIDE DEF Rest
    <3> QED BY <2>2, <1>3
  <2> QED BY <2>2, <2>3
<1>5. SumFunctionOnSet(f, {}) = 0
  <2>1. h[{}] = Rest({}, h)
    <3> HIDE DEF Rest
    <3> QED BY <1>1
  <2> QED BY <1>4, <2>1
<1>6. ASSUME S # {}
      PROVE  SumFunctionOnSet(f, S) = f[Pick(S)] + SumFunctionOnSet(f, S \ {Pick(S)})
  <2>1. h[S] = Rest(S, h)
    <3> HIDE DEF Rest
    <3> QED BY <1>1
  <2>2. SumFunctionOnSet(f, S \ {Pick(S)}) = h[S \ {Pick(S)}]
    <3> HIDE DEF Pick
    <3> QED BY <1>4
  <2> HIDE DEF Pick
  <2> QED BY <1>6, <1>1, <2>1, <2>2
<1>7. SumFunctionOnSet(f, S) \in Int
  BY <1>1
<1> QED BY <1>5, <1>6, <1>7

\* ... or any other element first.
LEMMA SumRemove ==
    ASSUME NEW S, IsFiniteSet(S), NEW f, \A x \in S : f[x] \in Int,
           NEW y \in S
    PROVE  SumFunctionOnSet(f, S) = f[y] + SumFunctionOnSet(f, S \ {y})
<1> DEFINE Pick(T) == CHOOSE x \in T : TRUE
           Q == {T \in SUBSET S : \A x \in T : SumFunctionOnSet(f, T)
                                                  = f[x] + SumFunctionOnSet(f, T \ {x})}
<1>1. ASSUME NEW T \in SUBSET S
      PROVE  /\ SumFunctionOnSet(f, T) \in Int
             /\ T # {} => Pick(T) \in T /\ SumFunctionOnSet(f, T)
                             = f[Pick(T)] + SumFunctionOnSet(f, T \ {Pick(T)})
  <2>1. IsFiniteSet(T) /\ \A x \in T : f[x] \in Int
    BY FS_Subset
  <2>2. T # {} => Pick(T) \in T
    OBVIOUS
  <2> QED BY <2>1, <2>2, SumPicks
<1> HIDE DEF Pick
<1>2. {} \in Q
  OBVIOUS
<1>3. ASSUME NEW T \in SUBSET S, T # {}, \A x \in T : T \ {x} \in Q, NEW x \in T
      PROVE  SumFunctionOnSet(f, T) = f[x] + SumFunctionOnSet(f, T \ {x})
  <2> DEFINE c == Pick(T)
  <2>1. c \in T /\ SumFunctionOnSet(f, T) = f[c] + SumFunctionOnSet(f, T \ {c})
    BY <1>1, <1>3
  <2>2. CASE x = c
    BY <2>1, <2>2
  <2>3. CASE x # c
    <3>1. SumFunctionOnSet(f, T \ {c}) = f[x] + SumFunctionOnSet(f, (T \ {c}) \ {x})
      BY <2>1, <2>3, <1>3
    <3>2. SumFunctionOnSet(f, T \ {x}) = f[c] + SumFunctionOnSet(f, (T \ {x}) \ {c})
      BY <2>1, <2>3, <1>3
    <3>3. SumFunctionOnSet(f, T \ {x}) = f[c] + SumFunctionOnSet(f, (T \ {c}) \ {x})
      <4>1. (T \ {c}) \ {x} = (T \ {x}) \ {c}
        OBVIOUS
      <4> QED BY <3>2, <4>1
    <3>4. /\ f[x] \in Int /\ f[c] \in Int
          /\ SumFunctionOnSet(f, (T \ {c}) \ {x}) \in Int
      BY <1>1, <2>1
    <3> HIDE DEF c
    <3> QED BY <2>1, <3>1, <3>3, <3>4
  <2> QED BY <2>2, <2>3
<1>4. \A T \in SUBSET S : T \in Q
  <2>1. \A T \in SUBSET S : T # {} /\ (\A x \in T : T \ {x} \in Q) => T \in Q
    BY <1>3
  <2> HIDE DEF Q
  <2> QED BY <1>2, <2>1, FiniteSetsByInduction
<1>5. S \in Q
  <2> HIDE DEF Q
  <2> QED BY <1>4
<1> QED BY <1>5

\* The empty sum.
LEMMA SumOfNone == \A f : SumFunctionOnSet(f, {}) = 0
<1>1. ASSUME NEW f
      PROVE  SumFunctionOnSet(f, {}) = 0
  <2>1. IsFiniteSet({}) /\ \A x \in {} : f[x] \in Int
    BY FS_EmptySet
  <2> QED BY <2>1, SumPicks
<1> QED BY <1>1

\* The sum depends on the values at the elements only, and adds up by value.
LEMMA SumAgree ==
    ASSUME NEW S, IsFiniteSet(S), NEW f, NEW g,
           \A x \in S : f[x] \in Int /\ f[x] = g[x]
    PROVE  SumFunctionOnSet(f, S) = SumFunctionOnSet(g, S)
<1> DEFINE Q == {T \in SUBSET S : SumFunctionOnSet(f, T) = SumFunctionOnSet(g, T)}
<1>1. {} \in Q
  BY SumOfNone
<1>2. ASSUME NEW T \in SUBSET S, T # {}, \A x \in T : T \ {x} \in Q
      PROVE  T \in Q
  <2>1. IsFiniteSet(T) /\ \A x \in T : f[x] \in Int /\ g[x] \in Int /\ f[x] = g[x]
    BY FS_Subset
  <2>2. PICK y \in T : TRUE
    BY <1>2
  <2>3. SumFunctionOnSet(f, T) = f[y] + SumFunctionOnSet(f, T \ {y})
    BY <2>1, SumRemove
  <2>4. SumFunctionOnSet(g, T) = g[y] + SumFunctionOnSet(g, T \ {y})
    BY <2>1, SumRemove
  <2>5. SumFunctionOnSet(f, T \ {y}) = SumFunctionOnSet(g, T \ {y})
    BY <1>2
  <2> QED BY <2>1, <2>3, <2>4, <2>5
<1>3. \A T \in SUBSET S : T \in Q
  <2> HIDE DEF Q
  <2> QED BY <1>1, <1>2, FiniteSetsByInduction
<1> QED BY <1>3

\* The sum of a sum of two functions.
LEMMA SumAdds ==
    ASSUME NEW S, IsFiniteSet(S), NEW f, NEW g, NEW h,
           \A x \in S : f[x] \in Int /\ g[x] \in Int /\ h[x] = f[x] + g[x]
    PROVE  SumFunctionOnSet(h, S) = SumFunctionOnSet(f, S) + SumFunctionOnSet(g, S)
<1> DEFINE Q == {T \in SUBSET S : SumFunctionOnSet(h, T)
                                      = SumFunctionOnSet(f, T) + SumFunctionOnSet(g, T)}
<1>1. {} \in Q
  BY SumOfNone
<1>2. ASSUME NEW T \in SUBSET S, T # {}, \A x \in T : T \ {x} \in Q
      PROVE  T \in Q
  <2>1. IsFiniteSet(T) /\ \A x \in T : f[x] \in Int /\ g[x] \in Int /\ h[x] \in Int
    BY FS_Subset
  <2>2. PICK y \in T : TRUE
    BY <1>2
  <2>3. SumFunctionOnSet(f, T) = f[y] + SumFunctionOnSet(f, T \ {y})
    BY <2>1, SumRemove
  <2>4. SumFunctionOnSet(g, T) = g[y] + SumFunctionOnSet(g, T \ {y})
    BY <2>1, SumRemove
  <2>5. SumFunctionOnSet(h, T) = h[y] + SumFunctionOnSet(h, T \ {y})
    BY <2>1, SumRemove
  <2>6. SumFunctionOnSet(h, T \ {y})
           = SumFunctionOnSet(f, T \ {y}) + SumFunctionOnSet(g, T \ {y})
    BY <1>2
  <2>7. SumFunctionOnSet(f, T \ {y}) \in Int /\ SumFunctionOnSet(g, T \ {y}) \in Int
    <3>1. IsFiniteSet(T \ {y})
      BY <2>1, FS_RemoveElement
    <3> QED BY <2>1, <3>1, SumPicks
  <2>8. h[y] = f[y] + g[y] /\ f[y] \in Int /\ g[y] \in Int
    BY <2>2
  <2> QED BY <2>3, <2>4, <2>5, <2>6, <2>7, <2>8
<1>3. \A T \in SUBSET S : T \in Q
  <2> HIDE DEF Q
  <2> QED BY <1>1, <1>2, FiniteSetsByInduction
<1> QED BY <1>3

\* The elements of S under other names.
Renamed(m, S) == {m[x] : x \in S}

\* A sum is the same under other names of the elements.
LEMMA SumRenames ==
    ASSUME NEW S, IsFiniteSet(S), NEW f, NEW g, NEW m,
           \A x \in S : f[x] \in Int /\ g[m[x]] = f[x],
           \A x, y \in S : m[x] = m[y] => x = y
    PROVE  SumFunctionOnSet(g, Renamed(m, S)) = SumFunctionOnSet(f, S)
<1> USE DEF Renamed
<1> DEFINE Image(T) == {m[x] : x \in T}
           Q == {T \in SUBSET S : SumFunctionOnSet(g, Image(T)) = SumFunctionOnSet(f, T)}
<1>1. {} \in Q
  <2>1. Image({}) = {}
    OBVIOUS
  <2>2. IsFiniteSet({})
    BY FS_EmptySet
  <2>3. SumFunctionOnSet(g, {}) = 0 /\ SumFunctionOnSet(f, {}) = 0
    BY <2>2, SumPicks
  <2> HIDE DEF Image
  <2> QED BY <2>1, <2>3
<1>2. ASSUME NEW T \in SUBSET S, T # {}, \A x \in T : T \ {x} \in Q
      PROVE  T \in Q
  <2>1. IsFiniteSet(T) /\ \A x \in T : f[x] \in Int
    BY FS_Subset
  <2>2. IsFiniteSet(Image(T)) /\ \A z \in Image(T) : g[z] \in Int
    <3>1. IsFiniteSet(Image(T))
      <4>1. [x \in T |-> m[x]] \in Surjection(T, Image(T))
        BY DEF Surjection
      <4> HIDE DEF Image
      <4> QED BY <2>1, <4>1, FS_Surjection
    <3> QED BY <3>1
  <2>3. PICK y \in T : TRUE
    BY <1>2
  <2>4. SumFunctionOnSet(f, T) = f[y] + SumFunctionOnSet(f, T \ {y})
    BY <2>1, SumRemove
  <2>5. m[y] \in Image(T) /\ Image(T) \ {m[y]} = Image(T \ {y})
    OBVIOUS
  <2>6. SumFunctionOnSet(g, Image(T)) = g[m[y]] + SumFunctionOnSet(g, Image(T \ {y}))
    <3> HIDE DEF Image
    <3>1. SumFunctionOnSet(g, Image(T))
             = g[m[y]] + SumFunctionOnSet(g, Image(T) \ {m[y]})
      BY <2>2, <2>5, SumRemove
    <3> QED BY <3>1, <2>5
  <2>7. SumFunctionOnSet(g, Image(T \ {y})) = SumFunctionOnSet(f, T \ {y})
    BY <1>2
  <2>8. g[m[y]] = f[y]
    OBVIOUS
  <2> HIDE DEF Image
  <2> QED BY <2>4, <2>6, <2>7, <2>8
<1>3. \A T \in SUBSET S : T \in Q
  <2> HIDE DEF Q
  <2> QED BY <1>1, <1>2, FiniteSetsByInduction
<1> QED BY <1>3

\* Sums of naturals bound their terms.
LEMMA SumOfNaturals ==
    ASSUME NEW S, IsFiniteSet(S), NEW f, \A x \in S : f[x] \in Nat
    PROVE  /\ SumFunctionOnSet(f, S) \in Nat
           /\ \A x \in S : f[x] <= SumFunctionOnSet(f, S)
<1> DEFINE Q == {T \in SUBSET S : SumFunctionOnSet(f, T) \in Nat}
<1>1. {} \in Q
  BY SumOfNone
<1>2. ASSUME NEW T \in SUBSET S, T # {}, \A x \in T : T \ {x} \in Q
      PROVE  T \in Q
  <2>1. IsFiniteSet(T) /\ \A x \in T : f[x] \in Int
    BY FS_Subset
  <2>2. PICK y \in T : TRUE
    BY <1>2
  <2>3. SumFunctionOnSet(f, T) = f[y] + SumFunctionOnSet(f, T \ {y})
    BY <2>1, SumRemove
  <2>4. SumFunctionOnSet(f, T \ {y}) \in Nat /\ f[y] \in Nat
    BY <1>2
  <2> QED BY <2>3, <2>4
<1>3. \A T \in SUBSET S : T \in Q
  <2> HIDE DEF Q
  <2> QED BY <1>1, <1>2, FiniteSetsByInduction
<1>4. ASSUME NEW x \in S
      PROVE  f[x] <= SumFunctionOnSet(f, S)
  <2>1. SumFunctionOnSet(f, S) = f[x] + SumFunctionOnSet(f, S \ {x})
    BY SumRemove
  <2>2. SumFunctionOnSet(f, S \ {x}) \in Nat /\ f[x] \in Nat
    BY <1>3
  <2> QED BY <2>1, <2>2
<1> QED BY <1>3, <1>4

\* Changing the value of one element.
DifferAt(f, g, S, y) ==
    \A x \in S : f[x] \in Int /\ g[x] \in Int /\ (x # y => g[x] = f[x])
SumDiffers(f, g, S, y) ==
    SumFunctionOnSet(g, S) = SumFunctionOnSet(f, S) + (g[y] - f[y])

LEMMA SumChanges ==
    ASSUME NEW S, IsFiniteSet(S), NEW f, NEW g, NEW y \in S, DifferAt(f, g, S, y)
    PROVE  SumDiffers(f, g, S, y)
<1> USE DEF DifferAt, SumDiffers
<1>1. SumFunctionOnSet(f, S) = f[y] + SumFunctionOnSet(f, S \ {y})
  BY SumRemove
<1>2. SumFunctionOnSet(g, S) = g[y] + SumFunctionOnSet(g, S \ {y})
  BY SumRemove
<1>3. IsFiniteSet(S \ {y})
  BY FS_RemoveElement
<1>4. SumFunctionOnSet(f, S \ {y}) = SumFunctionOnSet(g, S \ {y})
  BY <1>3, SumAgree
<1>5. SumFunctionOnSet(f, S \ {y}) \in Int
  BY <1>3, SumPicks
<1>6. f[y] \in Int /\ g[y] \in Int
  OBVIOUS
<1> QED BY <1>1, <1>2, <1>4, <1>5, <1>6

\* A sum in two parts.
LEMMA SumSplits ==
    ASSUME NEW S, IsFiniteSet(S), NEW f, \A x \in S : f[x] \in Int,
           NEW U \in SUBSET S
    PROVE  SumFunctionOnSet(f, S) = SumFunctionOnSet(f, U) + SumFunctionOnSet(f, S \ U)
<1> DEFINE Q == {T \in SUBSET S : SumFunctionOnSet(f, S)
                                      = SumFunctionOnSet(f, T) + SumFunctionOnSet(f, S \ T)}
<1>1. {} \in Q
  <2>1. S \ {} = S
    OBVIOUS
  <2>2. SumFunctionOnSet(f, S) \in Int
    BY SumPicks
  <2> QED BY <2>1, <2>2, SumOfNone
<1>2. ASSUME NEW T \in SUBSET S, T # {}, \A x \in T : T \ {x} \in Q
      PROVE  T \in Q
  <2>1. PICK y \in T : TRUE
    BY <1>2
  <2>2. IsFiniteSet(T) /\ IsFiniteSet(S \ T) /\ IsFiniteSet(S \ (T \ {y})) /\ IsFiniteSet(T \ {y})
    BY FS_Subset
  <2>3. SumFunctionOnSet(f, T) = f[y] + SumFunctionOnSet(f, T \ {y})
    BY <2>2, SumRemove
  <2>4. SumFunctionOnSet(f, S \ (T \ {y})) = f[y] + SumFunctionOnSet(f, S \ T)
    <3>1. y \in S \ (T \ {y}) /\ (S \ (T \ {y})) \ {y} = S \ T
      OBVIOUS
    <3> DEFINE R == S \ (T \ {y})
    <3>2. \A x \in R : f[x] \in Int
      OBVIOUS
    <3>3. SumFunctionOnSet(f, R) = f[y] + SumFunctionOnSet(f, R \ {y})
      <4> HIDE DEF R
      <4> QED BY <2>2, <3>1, <3>2, SumRemove DEF R
    <3> QED BY <3>1, <3>3
  <2>5. SumFunctionOnSet(f, S)
           = SumFunctionOnSet(f, T \ {y}) + SumFunctionOnSet(f, S \ (T \ {y}))
    BY <1>2
  <2>6. /\ SumFunctionOnSet(f, T \ {y}) \in Int
        /\ SumFunctionOnSet(f, S \ T) \in Int
        /\ f[y] \in Int
    BY <2>2, SumPicks
  <2> QED BY <2>3, <2>4, <2>5, <2>6
<1>3. \A T \in SUBSET S : T \in Q
  <2> HIDE DEF Q
  <2> QED BY <1>1, <1>2, FiniteSetsByInduction
<1> QED BY <1>3

-----------------------------------------------------------------------------
(* Sums over sequences. *)

\* The sum of a sequence of integers.
LEMMA SumOfSequence ==
    ASSUME NEW a \in Seq(Int)
    PROVE  /\ SumFunction(a) = SumFunctionOnSet(a, 1 .. Len(a))
           /\ IsFiniteSet(1 .. Len(a)) /\ \A j \in 1 .. Len(a) : a[j] \in Int
           /\ SumFunction(a) \in Int
<1>1. DOMAIN a = 1 .. Len(a) /\ Len(a) \in Nat /\ \A j \in 1 .. Len(a) : a[j] \in Int
  OBVIOUS
<1>2. IsFiniteSet(1 .. Len(a))
  BY <1>1, FS_Interval
<1>3. SumFunction(a) = SumFunctionOnSet(a, 1 .. Len(a))
  BY <1>1 DEF SumFunction
<1> QED BY <1>1, <1>2, <1>3, SumPicks, ZenonT(30)

\* ... of no number, and of one.
LEMMA SumOfShort ==
    /\ SumFunction(<<>>) = 0
    /\ \A x \in Int : SumFunction(<<x>>) = x
<1>1. SumFunction(<<>>) = 0
  <2>1. DOMAIN <<>> = {}
    OBVIOUS
  <2> QED BY <2>1, SumOfNone DEF SumFunction
<1>2. ASSUME NEW x \in Int
      PROVE  SumFunction(<<x>>) = x
  <2> DEFINE a == <<x>>
  <2>1. a \in Seq(Int) /\ Len(a) = 1 /\ a[1] = x /\ 1 .. 1 = {1} /\ {1} \ {1} = {}
    OBVIOUS
  <2> HIDE DEF a
  <2>2. SumFunctionOnSet(a, {1}) = a[1] + SumFunctionOnSet(a, {1} \ {1})
    BY <2>1, SumOfSequence, SumRemove
  <2>3. SumFunctionOnSet(a, {1} \ {1}) = 0
    BY <2>1, SumOfNone
  <2>4. SumFunction(a) = SumFunctionOnSet(a, {1})
    BY <2>1, SumOfSequence
  <2>5. SumFunction(a) = x
    BY <2>1, <2>2, <2>3, <2>4
  <2> QED BY <2>5 DEF a
<1> QED BY <1>1, <1>2

\* ... and of two sequences one after the other.
LEMMA SumOfConcatenation ==
    ASSUME NEW a \in Seq(Int), NEW b \in Seq(Int)
    PROVE  SumFunction(a \o b) = SumFunction(a) + SumFunction(b)
<1> DEFINE m == Len(a)
           n == Len(b)
           c == a \o b
           front == 1 .. m
           back == {[j \in 1 .. n |-> j + m][k] : k \in 1 .. n}
<1>1. /\ c \in Seq(Int) /\ Len(c) = m + n /\ m \in Nat /\ n \in Nat
      /\ \A j \in 1 .. m : c[j] = a[j]
      /\ \A j \in 1 .. n : c[j + m] = b[j]
  OBVIOUS
<1>2. back = (1 .. m + n) \ front /\ front \in SUBSET (1 .. m + n)
  <2>1. ASSUME NEW k \in (1 .. m + n) \ front
        PROVE  k \in back
    <3>1. k - m \in 1 .. n /\ [j \in 1 .. n |-> j + m][k - m] = k
      BY <1>1
    <3> QED BY <3>1
  <2>2. ASSUME NEW k \in back
        PROVE  k \in (1 .. m + n) \ front
    BY <1>1
  <2> QED BY <2>1, <2>2, <1>1
<1> HIDE DEF c, m, n
<1>3. SumFunction(c) = SumFunctionOnSet(c, front) + SumFunctionOnSet(c, back)
  <2>1. SumFunction(c) = SumFunctionOnSet(c, 1 .. m + n)
    BY <1>1, SumOfSequence
  <2>2. IsFiniteSet(1 .. m + n) /\ \A j \in 1 .. m + n : c[j] \in Int
    BY <1>1, SumOfSequence
  <2> HIDE DEF front, back
  <2>3. SumFunctionOnSet(c, 1 .. m + n)
           = SumFunctionOnSet(c, front) + SumFunctionOnSet(c, (1 .. m + n) \ front)
    BY <2>2, <1>2, SumSplits
  <2> QED BY <2>1, <2>3, <1>2
<1>4. SumFunctionOnSet(c, front) = SumFunction(a)
  <2>1. SumFunction(a) = SumFunctionOnSet(a, front)
    BY SumOfSequence DEF m
  <2>2. IsFiniteSet(front) /\ \A j \in front : a[j] \in Int
    BY SumOfSequence DEF m
  <2>3. \A j \in front : a[j] = c[j]
    BY <1>1
  <2> HIDE DEF front
  <2> QED BY <2>1, <2>2, <2>3, SumAgree
<1>5. SumFunctionOnSet(c, back) = SumFunction(b)
  <2> DEFINE shift == [j \in 1 .. n |-> j + m]
  <2>1. SumFunction(b) = SumFunctionOnSet(b, 1 .. n)
    BY SumOfSequence DEF n
  <2>2. IsFiniteSet(1 .. n) /\ \A j \in 1 .. n : b[j] \in Int
    BY SumOfSequence DEF n
  <2>3. \A j \in 1 .. n : b[j] \in Int /\ c[shift[j]] = b[j]
    BY <1>1, <2>2
  <2>4. \A j, k \in 1 .. n : shift[j] = shift[k] => j = k
    BY <1>1
  <2> DEFINE places == 1 .. n
  <2> HIDE DEF shift
  <2>5. SumFunctionOnSet(c, {shift[j] : j \in places}) = SumFunctionOnSet(b, places)
    <3>1. IsFiniteSet(places)
      BY <2>2
    <3>2. \A j \in places : b[j] \in Int /\ c[shift[j]] = b[j]
      BY <2>3
    <3>3. \A j, k \in places : shift[j] = shift[k] => j = k
      BY <2>4
    <3>4. SumFunctionOnSet(c, Renamed(shift, places)) = SumFunctionOnSet(b, places)
      <4> HIDE DEF places
      <4> QED BY <3>1, <3>2, <3>3, SumRenames
    <3> HIDE DEF places
    <3> QED BY <3>4 DEF Renamed
  <2> QED BY <2>1, <2>5 DEF shift
<1> QED BY <1>3, <1>4, <1>5 DEF c

-----------------------------------------------------------------------------
(* Weighted points. *)

Points == [sum : Int, weight : Nat \ {0}]

\* Weight and Sum add up along a sequence.
LEMMA WeightAdds ==
    /\ Weight(<<>>) = 0 /\ Sum(<<>>) = 0
    /\ \A p \in Points : Weight(<<p>>) = p.weight /\ Sum(<<p>>) = p.sum
    /\ \A s, t \in Seq(Points) : /\ Weight(s \o t) = Weight(s) + Weight(t)
                                 /\ Sum(s \o t) = Sum(s) + Sum(t)
<1> DEFINE W(s) == [k \in DOMAIN s |-> s[k].weight]
           V(s) == [k \in DOMAIN s |-> s[k].sum]
<1>1. \A s : Weight(s) = SumFunction(W(s)) /\ Sum(s) = SumFunction(V(s))
  BY DEF Weight, Sum
<1>2. W(<<>>) = <<>> /\ V(<<>>) = <<>>
  OBVIOUS
<1>3. ASSUME NEW p \in Points
      PROVE  /\ W(<<p>>) = <<p.weight>> /\ V(<<p>>) = <<p.sum>>
             /\ p.weight \in Int /\ p.sum \in Int
  BY DEF Points
<1>4. ASSUME NEW s \in Seq(Points), NEW t \in Seq(Points)
      PROVE  /\ W(s) \in Seq(Int) /\ W(t) \in Seq(Int) /\ W(s \o t) = W(s) \o W(t)
             /\ V(s) \in Seq(Int) /\ V(t) \in Seq(Int) /\ V(s \o t) = V(s) \o V(t)
  <2>1. \A p \in Points : p.weight \in Int /\ p.sum \in Int
    BY DEF Points
  <2>2. ASSUME NEW r \in Seq(Points)
        PROVE  /\ W(r) \in Seq(Int) /\ Len(W(r)) = Len(r)
               /\ V(r) \in Seq(Int) /\ Len(V(r)) = Len(r)
    <3>1. DOMAIN r = 1 .. Len(r) /\ Len(r) \in Nat /\ \A j \in 1 .. Len(r) : r[j] \in Points
      OBVIOUS
    <3> QED BY <2>1, <3>1
  <2>3. /\ s \o t \in Seq(Points) /\ Len(s \o t) = Len(s) + Len(t)
        /\ Len(s) \in Nat /\ Len(t) \in Nat
        /\ DOMAIN s = 1 .. Len(s) /\ DOMAIN t = 1 .. Len(t)
        /\ DOMAIN (s \o t) = 1 .. Len(s) + Len(t)
        /\ \A j \in 1 .. Len(s) + Len(t) :
              (s \o t)[j] = IF j <= Len(s) THEN s[j] ELSE t[j - Len(s)]
    OBVIOUS
  <2>4. /\ Len(W(s \o t)) = Len(W(s) \o W(t)) /\ W(s) \o W(t) \in Seq(Int)
        /\ Len(V(s \o t)) = Len(V(s) \o V(t)) /\ V(s) \o V(t) \in Seq(Int)
    <3>1. Len(W(s \o t)) = Len(s) + Len(t) /\ Len(V(s \o t)) = Len(s) + Len(t)
      BY <2>2, <2>3
    <3> HIDE DEF W, V
    <3> QED BY <2>2, <3>1
  <2>5. ASSUME NEW j \in 1 .. Len(s) + Len(t)
        PROVE  /\ W(s \o t)[j] = (W(s) \o W(t))[j]
               /\ V(s \o t)[j] = (V(s) \o V(t))[j]
    <3>1. /\ W(s \o t)[j] = (s \o t)[j].weight /\ V(s \o t)[j] = (s \o t)[j].sum
      BY <2>3
    <3>2. CASE j <= Len(s)
      <4>1. W(s)[j] = s[j].weight /\ V(s)[j] = s[j].sum
        BY <2>3, <3>2
      <4>2. (W(s) \o W(t))[j] = W(s)[j] /\ (V(s) \o V(t))[j] = V(s)[j]
        <5> HIDE DEF W, V
        <5> QED BY <2>2, <2>3, <3>2
      <4> HIDE DEF W, V
      <4> QED BY <2>3, <3>1, <3>2, <4>1, <4>2
    <3>3. CASE ~(j <= Len(s))
      <4>1. W(t)[j - Len(s)] = t[j - Len(s)].weight /\ V(t)[j - Len(s)] = t[j - Len(s)].sum
        BY <2>3, <3>3
      <4>2. (W(s) \o W(t))[j] = W(t)[j - Len(s)] /\ (V(s) \o V(t))[j] = V(t)[j - Len(s)]
        <5> HIDE DEF W, V
        <5> QED BY <2>2, <2>3, <3>3, SMTT(30)
      <4> HIDE DEF W, V
      <4> QED BY <2>3, <3>1, <3>3, <4>1, <4>2
    <3> QED BY <3>2, <3>3
  <2>6. W(s \o t) = W(s) \o W(t) /\ V(s \o t) = V(s) \o V(t)
    <3>1. W(s \o t) \in Seq(Int) /\ V(s \o t) \in Seq(Int)
      BY <2>2, <2>3
    <3>2. Len(W(s \o t)) = Len(s) + Len(t) /\ Len(V(s \o t)) = Len(s) + Len(t)
      BY <2>2, <2>3
    <3> HIDE DEF W, V
    <3> QED BY <2>4, <2>5, <3>1, <3>2, SeqEqual
  <2> QED BY <2>2, <2>6
<1> HIDE DEF W, V
<1> QED BY <1>1, <1>2, <1>3, <1>4, SumOfShort, SumOfConcatenation

\* The weight and the sum of the first k points.
WeightTo(s, k) == Weight(SubSeq(s, 1, k))
SumTo(s, k) == Sum(SubSeq(s, 1, k))

\* They add up point by point.
LEMMA PrefixAdds ==
    ASSUME NEW s \in Seq(Points)
    PROVE  /\ WeightTo(s, 0) = 0 /\ WeightTo(s, Len(s)) = Weight(s)
           /\ SumTo(s, 0) = 0 /\ SumTo(s, Len(s)) = Sum(s)
           /\ \A k \in 1 .. Len(s) :
                 /\ s[k] \in Points
                 /\ WeightTo(s, k) = WeightTo(s, k - 1) + s[k].weight
                 /\ SumTo(s, k) = SumTo(s, k - 1) + s[k].sum
<1>1. SubSeq(s, 1, 0) = <<>>
  BY SubSeqEmpty
<1>2. SubSeq(s, 1, Len(s)) = s
  BY SubSeqFull
<1>3. ASSUME NEW k \in 1 .. Len(s)
      PROVE  /\ s[k] \in Points
             /\ WeightTo(s, k) = WeightTo(s, k - 1) + s[k].weight
             /\ SumTo(s, k) = SumTo(s, k - 1) + s[k].sum
  <2>1. s[k] \in Points /\ <<s[k]>> \in Seq(Points)
    OBVIOUS
  <2>2. SubSeq(s, 1, k - 1) \in Seq(Points)
    OBVIOUS
  <2>3. SubSeq(s, 1, k) = SubSeq(s, 1, k - 1) \o <<s[k]>>
    <3>1. 1 \in 1 .. Len(s) /\ k \in 1 .. Len(s)
      OBVIOUS
    <3> QED BY <3>1, SubSeqRecursiveSecond
  <2> QED BY <2>1, <2>2, <2>3, WeightAdds DEF WeightTo, SumTo
<1> QED BY <1>1, <1>2, <1>3, WeightAdds DEF WeightTo, SumTo

\* Weights are numbers, and no point is without one.
LEMMA PrefixTypes ==
    ASSUME NEW s \in Seq(Points)
    PROVE  \A k \in 0 .. Len(s) : /\ WeightTo(s, k) \in Nat /\ k <= WeightTo(s, k)
                                  /\ SumTo(s, k) \in Int
<1> DEFINE Typed(k) == /\ WeightTo(s, k) \in Nat /\ k <= WeightTo(s, k)
                       /\ SumTo(s, k) \in Int
           Q == {k \in Nat : k <= Len(s) => Typed(k)}
<1>1. 0 \in Q
  BY PrefixAdds
<1>2. ASSUME NEW k \in Nat, k \in Q, k + 1 <= Len(s)
      PROVE  Typed(k + 1)
  <2>1. k + 1 \in 1 .. Len(s) /\ (k + 1) - 1 = k
    BY <1>2
  <2>2. /\ WeightTo(s, k + 1) = WeightTo(s, k) + s[k + 1].weight
        /\ SumTo(s, k + 1) = SumTo(s, k) + s[k + 1].sum
        /\ s[k + 1] \in Points
    <3>1. /\ WeightTo(s, k + 1) = WeightTo(s, (k + 1) - 1) + s[k + 1].weight
          /\ SumTo(s, k + 1) = SumTo(s, (k + 1) - 1) + s[k + 1].sum
          /\ s[k + 1] \in Points
      BY <2>1, PrefixAdds
    <3> QED BY <2>1, <3>1
  <2>3. s[k + 1].weight \in Nat /\ s[k + 1].weight >= 1 /\ s[k + 1].sum \in Int
    BY <2>2 DEF Points
  <2>4. Typed(k)
    BY <1>2
  <2> QED BY <2>2, <2>3, <2>4
<1>3. \A k \in Nat : k \in Q
  <2>1. \A k \in Nat : k \in Q => k + 1 \in Q
    <3> HIDE DEF Typed
    <3> QED BY <1>2
  <2> HIDE DEF Q
  <2> QED BY <1>1, <2>1, NaturalsByInduction
<1>4. Len(s) \in Nat
  OBVIOUS
<1> QED BY <1>3, <1>4

LEMMA WeightType ==
    ASSUME NEW s \in Seq(Points)
    PROVE  Weight(s) \in Nat /\ Sum(s) \in Int /\ Len(s) <= Weight(s)
<1>1. Len(s) \in 0 .. Len(s)
  OBVIOUS
<1> QED BY <1>1, PrefixAdds, PrefixTypes

-----------------------------------------------------------------------------
(* The greedy pass of compress, as a sequence of states. *)

Accumulators == [done : Seq(Points), cur : Points, start : Nat, seen : Nat]

LEMMA BeginType ==
    ASSUME NEW p \in Points
    PROVE  Begin(p) \in Accumulators
BY DEF Begin, Points, Accumulators

LEMMA JoinType ==
    ASSUME NEW p \in Points, NEW q \in Points
    PROVE  Join(p, q) \in Points
BY DEF Join, Points

LEMMA TakeType ==
    ASSUME NEW n, NEW acc \in Accumulators, NEW p \in Points
    PROVE  Take(n, acc, p) \in Accumulators
<1>1. /\ acc = [done |-> acc.done, cur |-> acc.cur, start |-> acc.start, seen |-> acc.seen]
      /\ acc.done \in Seq(Points) /\ acc.cur \in Points /\ acc.start \in Nat /\ acc.seen \in Nat
  BY DEF Accumulators
<1>2. p.weight \in Nat /\ acc.seen + p.weight \in Nat
  BY <1>1 DEF Points
<1>3. Join(acc.cur, p) \in Points
  BY <1>1, JoinType
<1>4. Append(acc.done, acc.cur) \in Seq(Points)
  BY <1>1
<1>5. CASE Within(n, acc.start, acc.seen + p.weight)
  BY <1>1, <1>2, <1>3, <1>5 DEF Take, Accumulators
<1>6. CASE ~Within(n, acc.start, acc.seen + p.weight)
  BY <1>1, <1>2, <1>4, <1>6 DEF Take, Accumulators
<1> QED BY <1>5, <1>6

\* The largest element of a set of positions.
LEMMA LargestPosition ==
    ASSUME NEW m \in Nat, NEW T \in SUBSET (1 .. m), T # {}
    PROVE  Max(T) \in T /\ \A x \in T : x <= Max(T)
<1> DEFINE R == {m - x : x \in T}
<1>1. R \subseteq Nat /\ R # {}
  <2>1. \A x \in T : m - x \in Nat
    OBVIOUS
  <2>2. PICK x \in T : TRUE
    OBVIOUS
  <2> QED BY <2>1, <2>2
<1>2. PICK r \in R : \A y \in R : r <= y
  <2> HIDE DEF R
  <2> QED BY <1>1, LeastNatural
<1>3. PICK x \in T : r = m - x
  OBVIOUS
<1>4. \A y \in T : x >= y
  <2>1. ASSUME NEW y \in T
        PROVE  x >= y
    <3>1. m - y \in R
      OBVIOUS
    <3>2. r <= m - y
      BY <1>2, <3>1
    <3> QED BY <1>3, <3>2
  <2> QED BY <2>1
<1>5. Max(T) \in T /\ \A y \in T : Max(T) >= y
  BY <1>4 DEF Max
<1>6. \A y \in T : y \in Int
  OBVIOUS
<1> QED BY <1>5, <1>6

\* a is the run of the greedy pass over s.
GatherRun(a, n, s) ==
    /\ a \in [1 .. Len(s) -> Accumulators]
    /\ a[1] = Begin(s[1])
    /\ \A k \in 1 .. Len(s) - 1 : a[k + 1] = Take(n, a[k], s[k + 1])

\* Gather takes one point after the other.
LEMMA GatherRuns ==
    ASSUME NEW s \in Seq(Points), s # <<>>
    PROVE  \E a : GatherRun(a, Weight(s), s) /\ Gather(s) = Finished(a[Len(s)])
<1> DEFINE n == Weight(s)
           base == Begin(Head(s))
           t == Tail(s)
           m == Len(s) - 1
           D == 1 .. m
           Rest(T, h) == IF T = {} THEN base ELSE Take(n, h[T \ {Max(T)}], t[Max(T)])
           G == [z \in (SUBSET D) \X [SUBSET D -> Accumulators] |-> Rest(z[1], z[2])]
<1>1. /\ m \in Nat /\ DOMAIN t = D /\ Head(s) = s[1] /\ s[1] \in Points
      /\ \A k \in D : t[k] = s[k + 1] /\ t[k] \in Points
  OBVIOUS
<1>2. base \in Accumulators
  BY <1>1, BeginType
<1> HIDE DEF t, m, base, n
<1>3. ASSUME NEW T \in SUBSET D, T # {}
      PROVE  /\ Max(T) \in T /\ t[Max(T)] \in Points
             /\ T \ {Max(T)} \in SUBSET T /\ T \ {Max(T)} # T
             /\ T \ {Max(T)} \in SUBSET D
  BY <1>1, <1>3, LargestPosition
<1>4. ASSUME NEW T \in SUBSET D, NEW h \in [SUBSET D -> Accumulators]
      PROVE  G[<<T, h>>] = Rest(T, h) /\ Rest(T, h) \in Accumulators
  <2>1. G[<<T, h>>] = Rest(T, h)
    <3> HIDE DEF Rest
    <3> QED OBVIOUS
  <2>2. CASE T = {}
    BY <2>1, <2>2, <1>2
  <2>3. CASE T # {}
    <3>1. h[T \ {Max(T)}] \in Accumulators /\ t[Max(T)] \in Points
      BY <1>3, <2>3
    <3>2. Take(n, h[T \ {Max(T)}], t[Max(T)]) \in Accumulators
      BY <3>1, TakeType
    <3> HIDE DEF G
    <3> QED BY <2>1, <2>3, <3>2
  <2> QED BY <2>2, <2>3
<1>5. G \in [(SUBSET D) \X [SUBSET D -> Accumulators] -> Accumulators]
  <2>1. ASSUME NEW z \in (SUBSET D) \X [SUBSET D -> Accumulators]
        PROVE  Rest(z[1], z[2]) \in Accumulators
    <3>1. z[1] \in SUBSET D /\ z[2] \in [SUBSET D -> Accumulators]
      OBVIOUS
    <3> HIDE DEF Rest, D
    <3> QED BY <3>1, <1>4
  <2> HIDE DEF Rest, D
  <2> QED BY <2>1
<1>6. ASSUME NEW T \in SUBSET D,
             NEW g \in [SUBSET D -> Accumulators], NEW h \in [SUBSET D -> Accumulators],
             \A U \in SUBSET T : U # T => g[U] = h[U]
      PROVE  G[<<T, g>>] = G[<<T, h>>]
  <2>1. Rest(T, g) = Rest(T, h)
    <3>1. CASE T = {}
      BY <3>1
    <3>2. CASE T # {}
      <4>1. g[T \ {Max(T)}] = h[T \ {Max(T)}]
        BY <1>6, <1>3, <3>2
      <4> QED BY <3>2, <4>1
    <3> QED BY <3>1, <3>2
  <2> HIDE DEF G, Rest
  <2> QED BY <2>1, <1>4
<1>7. IsFiniteSet(D)
  BY <1>1, FS_Interval
<1>8. PICK h \in [SUBSET D -> Accumulators] : \A T \in SUBSET D : h[T] = G[<<T, h>>]
  <2>1. ComputesFromSmaller(G, D, Accumulators)
    <3> HIDE DEF G, D
    <3> QED BY <1>5, <1>6 DEF ComputesFromSmaller
  <2>2. Accumulators # {}
    BY <1>2
  <2> HIDE DEF G, D
  <2>3. \E h : ComputedBy(h, G, D, Accumulators)
    BY <1>7, <2>1, <2>2, SubsetRecursion
  <2> QED BY <2>3 DEF ComputedBy
<1>9. \A T \in SUBSET D : h[T] = Rest(T, h)
  <2> HIDE DEF G, Rest, D
  <2> QED BY <1>8, <1>4
<1> DEFINE iter == CHOOSE iter : iter = [T \in SUBSET D |-> Rest(T, iter)]
<1>10. iter = [T \in SUBSET D |-> Rest(T, iter)]
  <2>1. h = [T \in SUBSET D |-> Rest(T, h)]
    <3> HIDE DEF Rest, D
    <3> QED BY <1>9
  <2> HIDE DEF Rest, D
  <2> QED BY <2>1
<1>11. Gather(s) = Finished(iter[D])
  BY <1>1 DEF Gather, FoldLeft, MapThenFoldSet, t, n, base
<1> DEFINE Q == {T \in SUBSET D : iter[T] = h[T]}
<1>12. \A T \in SUBSET D : T \in Q
  <2>1. {} \in Q
    BY <1>9, <1>10
  <2>2. ASSUME NEW T \in SUBSET D, T # {}, \A x \in T : T \ {x} \in Q
        PROVE  T \in Q
    <3>1. iter[T \ {Max(T)}] = h[T \ {Max(T)}]
      <4> HIDE DEF iter
      <4> QED BY <2>2, <1>3
    <3>2. iter[T] = Rest(T, iter)
      <4> HIDE DEF Rest, iter
      <4> QED BY <1>10
    <3>3. Rest(T, iter) = Rest(T, h)
      <4> HIDE DEF iter
      <4> QED BY <2>2, <3>1
    <3> HIDE DEF Rest, iter
    <3> QED BY <1>9, <3>2, <3>3
  <2> HIDE DEF Q, D
  <2> QED BY <1>7, <2>1, <2>2, FiniteSetsByInduction
<1> DEFINE a == [k \in 1 .. Len(s) |-> h[1 .. k - 1]]
<1>13. GatherRun(a, n, s)
  <2>1. ASSUME NEW k \in 1 .. Len(s)
        PROVE  1 .. k - 1 \in SUBSET D
    BY DEF m
  <2>2. a \in [1 .. Len(s) -> Accumulators]
    <3> HIDE DEF D
    <3> QED BY <2>1, <1>8
  <2>3. a[1] = Begin(s[1])
    <3>1. 1 \in 1 .. Len(s) /\ 1 .. 1 - 1 = {}
      OBVIOUS
    <3>2. h[{}] = base
      BY <1>9
    <3> HIDE DEF D
    <3> QED BY <3>1, <3>2, <1>1 DEF base
  <2>4. ASSUME NEW k \in 1 .. Len(s) - 1
        PROVE  a[k + 1] = Take(n, a[k], s[k + 1])
    <3>1. k \in 1 .. Len(s) /\ k + 1 \in 1 .. Len(s) /\ (k + 1) - 1 = k /\ k \in D
      BY DEF m
    <3>2. 1 .. k \in SUBSET D /\ 1 .. k # {}
      <4>1. k \in 1 .. k /\ \A j \in 1 .. k : j \in D
        BY <3>1, <1>1
      <4> HIDE DEF D
      <4> QED BY <4>1
    <3>3. Max(1 .. k) = k
      <4>1. Max(1 .. k) \in 1 .. k /\ \A x \in 1 .. k : x <= Max(1 .. k)
        BY <3>2, <1>1, LargestPosition
      <4>2. k \in 1 .. k
        BY <3>1
      <4>3. k <= Max(1 .. k) /\ Max(1 .. k) <= k /\ Max(1 .. k) \in Int
        BY <4>1, <4>2
      <4> QED BY <4>3, <3>1
    <3>4. (1 .. k) \ {k} = 1 .. k - 1
      BY <3>1
    <3>5. h[1 .. k] = Take(n, h[1 .. k - 1], t[k])
      BY <1>9, <3>2, <3>3, <3>4
    <3>6. a[k + 1] = h[1 .. k] /\ a[k] = h[1 .. k - 1]
      BY <3>1
    <3> HIDE DEF a, D
    <3> QED BY <3>1, <3>5, <3>6, <1>1
  <2> HIDE DEF a, D
  <2> QED BY <2>2, <2>3, <2>4 DEF GatherRun
<1>14. a[Len(s)] = iter[D]
  <2>1. Len(s) \in 1 .. Len(s) /\ 1 .. Len(s) - 1 = D
    BY <1>1 DEF m
  <2>2. iter[D] = h[D]
    <3>1. D \in Q
      <4> HIDE DEF Q, D
      <4> QED BY <1>12
    <3> HIDE DEF D, iter
    <3> QED BY <3>1
  <2> HIDE DEF D, iter
  <2> QED BY <2>1, <2>2
<1> HIDE DEF a, iter
<1> QED BY <1>11, <1>13, <1>14 DEF n

\* The points before k, and then before k + 1, weigh less than all.
LEMMA PrefixesGrow ==
    ASSUME NEW s \in Seq(Points)
    PROVE  \A m \in 0 .. Len(s) : \A k \in 0 .. m : WeightTo(s, k) <= WeightTo(s, m)
<1> DEFINE Q == {m \in Nat : m <= Len(s) => \A k \in 0 .. m : WeightTo(s, k) <= WeightTo(s, m)}
<1>1. 0 \in Q
  <2>1. \A k \in 0 .. 0 : k = 0
    OBVIOUS
  <2>2. WeightTo(s, 0) \in Nat
    BY PrefixTypes
  <2> QED BY <2>1, <2>2
<1>2. ASSUME NEW m \in Nat, m \in Q, m + 1 <= Len(s), NEW k \in 0 .. m + 1
      PROVE  WeightTo(s, k) <= WeightTo(s, m + 1)
  <2>1. m + 1 \in 1 .. Len(s) /\ (m + 1) - 1 = m /\ m \in 0 .. Len(s) /\ m + 1 \in 0 .. Len(s)
    BY <1>2
  <2>2. /\ s[m + 1] \in Points
        /\ WeightTo(s, m + 1) = WeightTo(s, (m + 1) - 1) + s[m + 1].weight
    BY <2>1, PrefixAdds
  <2>3. WeightTo(s, m) \in Nat /\ WeightTo(s, m + 1) \in Nat
    BY <2>1, PrefixTypes
  <2>4. s[m + 1].weight \in Nat
    BY <2>2 DEF Points
  <2>5. WeightTo(s, m + 1) = WeightTo(s, m) + s[m + 1].weight
    BY <2>1, <2>2
  <2>6. CASE k = m + 1
    BY <2>3, <2>6
  <2>7. CASE k # m + 1
    <3>1. k \in 0 .. m
      BY <1>2, <2>7
    <3>2. WeightTo(s, k) <= WeightTo(s, m)
      BY <1>2, <3>1, <2>1
    <3>3. WeightTo(s, k) \in Nat
      BY <3>1, <2>1, PrefixTypes
    <3> QED BY <2>3, <2>4, <2>5, <3>2, <3>3
  <2> QED BY <2>6, <2>7
<1>3. \A m \in Nat : m \in Q
  <2>1. \A m \in Nat : m \in Q => m + 1 \in Q
    BY <1>2
  <2> HIDE DEF Q
  <2> QED BY <1>1, <2>1, NaturalsByInduction
<1>4. Len(s) \in Nat
  OBVIOUS
<1> QED BY <1>3, <1>4

\* A prefix of a sequence one point longer.
LEMMA AppendWeights ==
    ASSUME NEW s \in Seq(Points), NEW p \in Points
    PROVE  /\ Append(s, p) \in Seq(Points) /\ Len(Append(s, p)) = Len(s) + 1
           /\ Len(s) \in Nat
           /\ \A k \in 1 .. Len(s) : Append(s, p)[k] = s[k]
           /\ Append(s, p)[Len(s) + 1] = p
           /\ \A k \in 0 .. Len(s) : WeightTo(Append(s, p), k) = WeightTo(s, k)
           /\ WeightTo(Append(s, p), Len(s) + 1) = Weight(s) + p.weight
           /\ Weight(Append(s, p)) = Weight(s) + p.weight
           /\ Sum(Append(s, p)) = Sum(s) + p.sum
<1>1. /\ Append(s, p) \in Seq(Points) /\ Len(Append(s, p)) = Len(s) + 1
      /\ Len(s) \in Nat
      /\ \A k \in 1 .. Len(s) : Append(s, p)[k] = s[k]
      /\ Append(s, p)[Len(s) + 1] = p
  OBVIOUS
<1>2. Append(s, p) = s \o <<p>> /\ <<p>> \in Seq(Points)
  OBVIOUS
<1>3. Weight(Append(s, p)) = Weight(s) + p.weight /\ Sum(Append(s, p)) = Sum(s) + p.sum
  BY <1>2, WeightAdds
<1>4. ASSUME NEW k \in 0 .. Len(s)
      PROVE  WeightTo(Append(s, p), k) = WeightTo(s, k)
  <2>1. SubSeq(Append(s, p), 1, k) = SubSeq(s, 1, k)
    <3>1. SubSeq(Append(s, p), 1, k) \in Seq(Points) /\ SubSeq(s, 1, k) \in Seq(Points)
      OBVIOUS
    <3>2. Len(SubSeq(Append(s, p), 1, k)) = k /\ Len(SubSeq(s, 1, k)) = k
      OBVIOUS
    <3>3. \A j \in 1 .. k : SubSeq(Append(s, p), 1, k)[j] = SubSeq(s, 1, k)[j]
      OBVIOUS
    <3> QED BY <3>1, <3>2, <3>3, SeqEqual
  <2> QED BY <2>1 DEF WeightTo
<1>5. WeightTo(Append(s, p), Len(s) + 1) = Weight(s) + p.weight
  <2>1. WeightTo(Append(s, p), Len(Append(s, p))) = Weight(Append(s, p))
    BY <1>1, PrefixAdds
  <2> QED BY <1>1, <1>3, <2>1
<1> QED BY <1>1, <1>3, <1>4, <1>5

\* Nothing is lost on the way: the finished centroids and the current one make
\* up the points taken, and start and seen are their weights.
Kept(acc, s, k) ==
    /\ Weight(acc.done) = acc.start
    /\ acc.start + acc.cur.weight = acc.seen
    /\ acc.seen = WeightTo(s, k)
    /\ Sum(acc.done) + acc.cur.sum = SumTo(s, k)

LEMMA RunKeeps ==
    ASSUME NEW s \in Seq(Points), NEW n, NEW a, GatherRun(a, n, s)
    PROVE  \A k \in 1 .. Len(s) : Kept(a[k], s, k)
<1> DEFINE Q == {k \in Nat : k + 1 <= Len(s) => Kept(a[k + 1], s, k + 1)}
<1>1. 0 \in Q
  <2> SUFFICES ASSUME 1 <= Len(s)
               PROVE  Kept(a[1], s, 1)
    OBVIOUS
  <2>1. 1 \in 1 .. Len(s) /\ 1 - 1 = 0
    OBVIOUS
  <2>2. /\ s[1] \in Points
        /\ WeightTo(s, 1) = WeightTo(s, 0) + s[1].weight
        /\ SumTo(s, 1) = SumTo(s, 0) + s[1].sum
        /\ WeightTo(s, 0) = 0 /\ SumTo(s, 0) = 0
    <3>1. /\ s[1] \in Points
          /\ WeightTo(s, 1) = WeightTo(s, 1 - 1) + s[1].weight
          /\ SumTo(s, 1) = SumTo(s, 1 - 1) + s[1].sum
      BY <2>1, PrefixAdds
    <3> QED BY <2>1, <3>1, PrefixAdds
  <2>3. a[1] = [done |-> <<>>, cur |-> s[1], start |-> 0, seen |-> s[1].weight]
    BY DEF GatherRun, Begin
  <2>4. s[1].weight \in Nat /\ s[1].sum \in Int
    BY <2>2 DEF Points
  <2>5. a[1].done = <<>> /\ a[1].cur = s[1] /\ a[1].start = 0 /\ a[1].seen = s[1].weight
    BY <2>3
  <2> QED BY <2>2, <2>4, <2>5, WeightAdds DEF Kept
<1>2. ASSUME NEW j \in Nat, j \in Q, (j + 1) + 1 <= Len(s)
      PROVE  Kept(a[(j + 1) + 1], s, (j + 1) + 1)
  <2> DEFINE k == j + 1
             acc == a[k]
             p == s[k + 1]
  <2>1. k \in 1 .. Len(s) - 1 /\ k \in 1 .. Len(s) /\ k + 1 \in 1 .. Len(s)
        /\ (k + 1) - 1 = k /\ k \in 0 .. Len(s)
    BY <1>2
  <2>2. acc \in Accumulators /\ a[k + 1] = Take(n, acc, p) /\ Kept(acc, s, k)
    BY <1>2, <2>1 DEF GatherRun
  <2> HIDE DEF k
  <2>3. /\ p \in Points
        /\ WeightTo(s, k + 1) = WeightTo(s, k) + p.weight
        /\ SumTo(s, k + 1) = SumTo(s, k) + p.sum
    <3>1. /\ s[k + 1] \in Points
          /\ WeightTo(s, k + 1) = WeightTo(s, (k + 1) - 1) + s[k + 1].weight
          /\ SumTo(s, k + 1) = SumTo(s, (k + 1) - 1) + s[k + 1].sum
      BY <2>1, PrefixAdds
    <3> QED BY <2>1, <3>1
  <2> HIDE DEF acc, p
  <2>4. /\ acc.done \in Seq(Points) /\ acc.cur \in Points
        /\ acc.start \in Nat /\ acc.seen \in Nat
        /\ acc.cur.weight \in Nat /\ acc.cur.sum \in Int
        /\ p.weight \in Nat /\ p.sum \in Int
        /\ Sum(acc.done) \in Int /\ Weight(acc.done) \in Nat
    BY <2>2, <2>3, WeightType DEF Accumulators, Points
  <2>5. CASE Within(n, acc.start, acc.seen + p.weight)
    <3>1. LET b == Take(n, acc, p)
          IN /\ b.done = acc.done /\ b.start = acc.start /\ b.seen = acc.seen + p.weight
             /\ b.cur.weight = acc.cur.weight + p.weight
             /\ b.cur.sum = acc.cur.sum + p.sum
      BY <2>2, <2>5 DEF Take, Join, Accumulators
    <3>2. /\ Weight(acc.done) = acc.start /\ acc.start + acc.cur.weight = acc.seen
          /\ acc.seen = WeightTo(s, k) /\ Sum(acc.done) + acc.cur.sum = SumTo(s, k)
      BY <2>2 DEF Kept
    <3>3. /\ acc.start + (acc.cur.weight + p.weight) = acc.seen + p.weight
          /\ Sum(acc.done) + (acc.cur.sum + p.sum) = SumTo(s, k) + p.sum
      <4>1. \A x, y, z, u, v \in Int : x + y = z => x + (y + u) = z + u
        OBVIOUS
      <4>2. acc.seen \in Int /\ SumTo(s, k) \in Int
        BY <2>4, <3>2
      <4>3. acc.start + (acc.cur.weight + p.weight) = acc.seen + p.weight
        BY <2>4, <3>2, <4>1, <4>2
      <4>4. Sum(acc.done) + (acc.cur.sum + p.sum) = SumTo(s, k) + p.sum
        BY <2>4, <3>2, <4>1, <4>2
      <4> QED BY <4>3, <4>4
    <3>4. Kept(a[k + 1], s, k + 1)
      BY <2>2, <2>3, <3>1, <3>2, <3>3 DEF Kept
    <3> QED BY <3>4 DEF k
  <2>6. CASE ~Within(n, acc.start, acc.seen + p.weight)
    <3>1. LET b == Take(n, acc, p)
          IN /\ b.done = Append(acc.done, acc.cur) /\ b.start = acc.seen
             /\ b.seen = acc.seen + p.weight /\ b.cur = p
      BY <2>2, <2>6 DEF Take
    <3>2. /\ Weight(Append(acc.done, acc.cur)) = Weight(acc.done) + acc.cur.weight
          /\ Sum(Append(acc.done, acc.cur)) = Sum(acc.done) + acc.cur.sum
      BY <2>4, AppendWeights
    <3> QED BY <2>2, <2>3, <2>4, <3>1, <3>2 DEF Kept, k
  <2> QED BY <2>5, <2>6
<1>3. \A k \in Nat : k \in Q
  <2>1. \A k \in Nat : k \in Q => k + 1 \in Q
    BY <1>2
  <2> HIDE DEF Q
  <2> QED BY <1>1, <2>1, NaturalsByInduction
<1>4. ASSUME NEW k \in 1 .. Len(s)
      PROVE  Kept(a[k], s, k)
  <2>1. k - 1 \in Nat /\ (k - 1) + 1 = k /\ k <= Len(s)
    OBVIOUS
  <2> QED BY <2>1, <1>3
<1> QED BY <1>4

LEMMA GatherKeeps ==
    ASSUME NEW s \in Seq(Points), s # <<>>
    PROVE  /\ Gather(s) \in Seq(Points) /\ Gather(s) # <<>>
           /\ Weight(Gather(s)) = Weight(s) /\ Sum(Gather(s)) = Sum(s)
<1>1. PICK a : GatherRun(a, Weight(s), s) /\ Gather(s) = Finished(a[Len(s)])
  BY GatherRuns
<1> DEFINE acc == a[Len(s)]
<1>2. Len(s) \in 1 .. Len(s)
  OBVIOUS
<1>3. acc \in Accumulators /\ Kept(acc, s, Len(s))
  BY <1>1, <1>2, RunKeeps DEF GatherRun
<1>4. WeightTo(s, Len(s)) = Weight(s) /\ SumTo(s, Len(s)) = Sum(s)
  BY PrefixAdds
<1>5. Gather(s) = Append(acc.done, acc.cur)
  BY <1>1 DEF Finished
<1>6. acc.done \in Seq(Points) /\ acc.cur \in Points
  BY <1>3 DEF Accumulators
<1> HIDE DEF acc
<1>7. /\ Weight(Gather(s)) = Weight(acc.done) + acc.cur.weight
      /\ Sum(Gather(s)) = Sum(acc.done) + acc.cur.sum
      /\ Gather(s) \in Seq(Points)
  BY <1>5, <1>6, AppendWeights
<1>8. Gather(s) # <<>>
  BY <1>5, <1>6
<1> QED BY <1>3, <1>4, <1>7, <1>8 DEF Kept

\* Where a stretch of ranks is too long for a centroid, a longer one is.
LEMMA OutgrownStays ==
    ASSUME NEW n \in 1 .. MaxPoints, NEW x \in 0 .. n, NEW y \in 0 .. n, NEW z \in 0 .. n,
           y <= z, ~Within(n, x, y)
    PROVE  ~Within(n, x, z)
<1>1. Scale[n][x] \in Int /\ Scale[n][y] \in Int /\ Scale[n][z] \in Int /\ Unit \in Int
  BY TDigestAssumption
<1>2. Scale[n][y] <= Scale[n][z]
  <2>1. CASE y = z
    BY <1>1, <2>1
  <2>2. CASE y # z
    <3>1. y < z
      BY <2>2
    <3>2. Scale[n][y] < Scale[n][z]
      BY <3>1, TDigestAssumption
    <3> QED BY <1>1, <3>2
  <2> QED BY <2>1, <2>2
<1> QED BY <1>1, <1>2 DEF Within

\* Centroids that are not points of P span one step of the scale at most, ...
Small(c, n, P) ==
    \A j \in 1 .. Len(c) : c[j] \in P \/ Within(n, WeightTo(c, j - 1), WeightTo(c, j))

\* ... and any two neighbours more.
Apart(c, n) ==
    \A j \in 1 .. Len(c) - 1 : ~Within(n, WeightTo(c, j - 1), WeightTo(c, j + 1))

\* Both hold of the centroids of an accumulator.
Spaced(acc, n, P) ==
    /\ Small(acc.done, n, P) /\ Apart(acc.done, n)
    /\ acc.cur \in P \/ Within(n, acc.start, acc.seen)
    /\ Len(acc.done) >= 1 =>
          ~Within(n, WeightTo(acc.done, Len(acc.done) - 1), acc.seen)

\* A centroid that goes on from where the last one ends.
LEMMA AppendSpaced ==
    ASSUME NEW d \in Seq(Points), NEW p \in Points, NEW n, NEW P,
           Small(d, n, P), Apart(d, n),
           p \in P \/ Within(n, Weight(d), Weight(d) + p.weight),
           Len(d) >= 1 => ~Within(n, WeightTo(d, Len(d) - 1), Weight(d) + p.weight)
    PROVE  Small(Append(d, p), n, P) /\ Apart(Append(d, p), n)
<1> DEFINE e == Append(d, p)
           m == Len(d)
<1>1. /\ Len(e) = m + 1 /\ m \in Nat /\ e[m + 1] = p
      /\ \A k \in 1 .. m : e[k] = d[k]
      /\ \A k \in 0 .. m : WeightTo(e, k) = WeightTo(d, k)
      /\ WeightTo(e, m + 1) = Weight(d) + p.weight
      /\ WeightTo(d, m) = Weight(d)
  BY AppendWeights, PrefixAdds
<1> HIDE DEF e, m
<1>2. ASSUME NEW j \in 1 .. Len(e)
      PROVE  e[j] \in P \/ Within(n, WeightTo(e, j - 1), WeightTo(e, j))
  <2>1. CASE j = m + 1
    <3>1. j - 1 = m /\ m \in 0 .. m
      BY <1>1, <2>1
    <3> QED BY <1>1, <2>1, <3>1
  <2>2. CASE j # m + 1
    <3>1. j \in 1 .. m /\ j \in 0 .. m /\ j - 1 \in 0 .. m
      BY <1>1, <2>2
    <3>2. d[j] \in P \/ Within(n, WeightTo(d, j - 1), WeightTo(d, j))
      BY <3>1 DEF Small, m
    <3> QED BY <1>1, <3>1, <3>2
  <2> QED BY <2>1, <2>2
<1>3. ASSUME NEW j \in 1 .. Len(e) - 1
      PROVE  ~Within(n, WeightTo(e, j - 1), WeightTo(e, j + 1))
  <2>1. CASE j = m
    <3>1. j - 1 = m - 1 /\ j - 1 \in 0 .. m /\ j + 1 = m + 1 /\ m >= 1
      BY <1>1, <2>1
    <3>2. ~Within(n, WeightTo(d, m - 1), Weight(d) + p.weight)
      BY <3>1 DEF m
    <3> QED BY <1>1, <3>1, <3>2
  <2>2. CASE j # m
    <3>1. j \in 1 .. m - 1 /\ j - 1 \in 0 .. m /\ j + 1 \in 0 .. m
      BY <1>1, <2>2
    <3>2. ~Within(n, WeightTo(d, j - 1), WeightTo(d, j + 1))
      BY <3>1 DEF Apart, m
    <3> QED BY <1>1, <3>1, <3>2
  <2> QED BY <2>1, <2>2
<1> QED BY <1>2, <1>3 DEF Small, Apart, e

LEMMA RunSpaces ==
    ASSUME NEW s \in Seq(Points), Weight(s) \in 1 .. MaxPoints,
           NEW a, GatherRun(a, Weight(s), s),
           NEW P, \A k \in 1 .. Len(s) : s[k] \in P
    PROVE  \A k \in 1 .. Len(s) : Spaced(a[k], Weight(s), P)
<1> DEFINE n == Weight(s)
           Q == {k \in Nat : k + 1 <= Len(s) => Spaced(a[k + 1], n, P)}
<1>1. 0 \in Q
  <2> SUFFICES ASSUME 1 <= Len(s)
               PROVE  Spaced(a[1], n, P)
    OBVIOUS
  <2>1. 1 \in 1 .. Len(s)
    OBVIOUS
  <2>2. a[1].done = <<>> /\ a[1].cur = s[1]
    BY DEF GatherRun, Begin
  <2>3. Len(<<>>) = 0
    OBVIOUS
  <2> QED BY <2>1, <2>2, <2>3 DEF Spaced, Small, Apart
<1>2. ASSUME NEW j \in Nat, j \in Q, (j + 1) + 1 <= Len(s)
      PROVE  Spaced(a[(j + 1) + 1], n, P)
  <2> DEFINE k == j + 1
             acc == a[k]
             p == s[k + 1]
             b == a[k + 1]
  <2>1. k \in 1 .. Len(s) - 1 /\ k \in 1 .. Len(s) /\ k + 1 \in 1 .. Len(s) /\ k + 1 \in 0 .. Len(s)
    BY <1>2
  <2>2. acc \in Accumulators /\ b \in Accumulators /\ b = Take(n, acc, p) /\ Spaced(acc, n, P)
    BY <1>2, <2>1 DEF GatherRun
  <2>3. Kept(acc, s, k) /\ Kept(b, s, k + 1)
    BY <2>1, RunKeeps
  <2>4. p \in Points /\ p \in P
    BY <2>1
  <2>5. WeightTo(s, k + 1) <= n /\ WeightTo(s, k + 1) \in Nat /\ n \in Nat
    <3>1. Len(s) \in 0 .. Len(s) /\ k + 1 \in 0 .. Len(s)
      BY <2>1
    <3>2. WeightTo(s, k + 1) <= WeightTo(s, Len(s))
      BY <3>1, PrefixesGrow
    <3> QED BY <3>1, <3>2, PrefixAdds, PrefixTypes
  <2> HIDE DEF k, acc, p, b, n
  <2>6. /\ acc.done \in Seq(Points) /\ acc.cur \in Points
        /\ acc.start \in Nat /\ acc.seen \in Nat /\ b.seen \in Nat
        /\ acc.cur.weight \in Nat /\ p.weight \in Nat
        /\ Weight(acc.done) = acc.start /\ acc.start + acc.cur.weight = acc.seen
        /\ b.seen = WeightTo(s, k + 1)
    BY <2>2, <2>3, <2>4 DEF Accumulators, Points, Kept
  <2>7. b.seen = acc.seen + p.weight /\ b.seen <= n
    BY <2>2, <2>5, <2>6 DEF Take
  <2>8. n \in 1 .. MaxPoints /\ acc.seen \in 0 .. n /\ b.seen \in 0 .. n /\ acc.start \in 0 .. n
    <3>1. n \in 1 .. MaxPoints
      BY DEF n
    <3>2. \A x, y, w, z \in Nat : x + y = z /\ z + w <= n => x \in 0 .. n /\ z \in 0 .. n /\ z + w \in 0 .. n
      BY <2>5
    <3>3. acc.seen + p.weight <= n
      BY <2>7
    <3>4. acc.start \in 0 .. n /\ acc.seen \in 0 .. n /\ acc.seen + p.weight \in 0 .. n
      BY <2>6, <3>2, <3>3
    <3> QED BY <2>7, <3>1, <3>4
  <2>9. CASE Within(n, acc.start, acc.seen + p.weight)
    <3>1. b.done = acc.done /\ b.start = acc.start
      BY <2>2, <2>9 DEF Take, Accumulators
    <3>2. ASSUME Len(acc.done) >= 1
          PROVE  ~Within(n, WeightTo(acc.done, Len(acc.done) - 1), b.seen)
      <4>1. Len(acc.done) \in 0 .. Len(acc.done) /\ Len(acc.done) - 1 \in 0 .. Len(acc.done)
        BY <3>2, <2>6
      <4>2. WeightTo(acc.done, Len(acc.done) - 1) <= Weight(acc.done)
        BY <4>1, <2>6, PrefixesGrow, PrefixAdds
      <4>3. WeightTo(acc.done, Len(acc.done) - 1) \in 0 .. n
        <5>1. WeightTo(acc.done, Len(acc.done) - 1) \in Nat
          BY <4>1, <2>6, PrefixTypes
        <5>2. \A x \in Nat, y \in 0 .. n : x <= y => x \in 0 .. n
          BY <2>5
        <5>3. Weight(acc.done) \in 0 .. n
          BY <2>6, <2>8
        <5> QED BY <4>2, <5>1, <5>2, <5>3
      <4>4. ~Within(n, WeightTo(acc.done, Len(acc.done) - 1), acc.seen)
        BY <3>2, <2>2 DEF Spaced
      <4>5. acc.seen <= b.seen
        <5>1. \A x, y \in Nat : x <= x + y
          OBVIOUS
        <5> QED BY <2>6, <2>7, <5>1
      <4> QED BY <4>3, <4>4, <4>5, <2>8, OutgrownStays
    <3>3. Spaced(b, n, P)
      BY <2>2, <2>7, <2>9, <3>1, <3>2 DEF Spaced
    <3> QED BY <3>3 DEF b, k
  <2>10. CASE ~Within(n, acc.start, acc.seen + p.weight)
    <3>1. b.done = Append(acc.done, acc.cur) /\ b.start = acc.seen /\ b.cur = p
      BY <2>2, <2>10 DEF Take
    <3>2. Small(b.done, n, P) /\ Apart(b.done, n)
      BY <2>2, <2>6, <3>1, AppendSpaced DEF Spaced
    <3>3. ~Within(n, WeightTo(b.done, Len(b.done) - 1), b.seen)
      <4>1. /\ Len(b.done) - 1 = Len(acc.done) /\ Len(acc.done) \in 0 .. Len(acc.done)
            /\ WeightTo(b.done, Len(acc.done)) = WeightTo(acc.done, Len(acc.done))
            /\ WeightTo(acc.done, Len(acc.done)) = acc.start
        BY <2>6, <3>1, AppendWeights, PrefixAdds
      <4> QED BY <4>1, <2>7, <2>10
    <3>4. Spaced(b, n, P)
      BY <2>4, <3>1, <3>2, <3>3 DEF Spaced
    <3> QED BY <3>4 DEF b, k
  <2> QED BY <2>9, <2>10
<1>3. \A k \in Nat : k \in Q
  <2>1. \A k \in Nat : k \in Q => k + 1 \in Q
    BY <1>2
  <2> HIDE DEF Q
  <2> QED BY <1>1, <2>1, NaturalsByInduction
<1>4. ASSUME NEW k \in 1 .. Len(s)
      PROVE  Spaced(a[k], n, P)
  <2>1. k - 1 \in Nat /\ (k - 1) + 1 = k /\ k <= Len(s)
    OBVIOUS
  <2> QED BY <2>1, <1>3
<1> QED BY <1>4

\* What compress leaves is as fine and as coarse as the scale asks.
LEMMA GatherSpaces ==
    ASSUME NEW s \in Seq(Points), s # <<>>, Weight(s) \in 1 .. MaxPoints,
           NEW P, \A k \in 1 .. Len(s) : s[k] \in P
    PROVE  Small(Gather(s), Weight(s), P) /\ Apart(Gather(s), Weight(s))
<1>1. PICK a : GatherRun(a, Weight(s), s) /\ Gather(s) = Finished(a[Len(s)])
  BY GatherRuns
<1> DEFINE acc == a[Len(s)]
<1>2. Len(s) \in 1 .. Len(s)
  OBVIOUS
<1>3. acc \in Accumulators /\ Kept(acc, s, Len(s)) /\ Spaced(acc, Weight(s), P)
  BY <1>1, <1>2, RunKeeps, RunSpaces DEF GatherRun
<1>4. Gather(s) = Append(acc.done, acc.cur)
  BY <1>1 DEF Finished
<1> HIDE DEF acc
<1>5. /\ acc.done \in Seq(Points) /\ acc.cur \in Points
      /\ Weight(acc.done) = acc.start /\ acc.start + acc.cur.weight = acc.seen
  BY <1>3 DEF Accumulators, Kept
<1>6. Small(Append(acc.done, acc.cur), Weight(s), P) /\ Apart(Append(acc.done, acc.cur), Weight(s))
  BY <1>3, <1>5, AppendSpaced DEF Spaced
<1> QED BY <1>4, <1>6

-----------------------------------------------------------------------------
(* Means.  AtMost compares fractions by cross-multiplication.                *)

\* Products of integers, with the factors in another order.
LEMMA Products ==
    /\ \A x, y \in Int : x * y \in Int /\ x * y = y * x
    /\ \A x, y, z \in Int : /\ (x * y) * z = (x * z) * y
                            /\ x * (y + z) = x * y + x * z
                            /\ (y + z) * x = y * x + z * x
                            /\ (y - z) * x = y * x - z * x
OBVIOUS

\* Factors above 0 keep an order, and can be cancelled.
LEMMA Scaling ==
    /\ \A x, y \in Int, k \in Nat : x <= y => x * k <= y * k
    /\ \A x, y \in Int, k \in Nat \ {0} : x * k <= y * k => x <= y
<1>1. ASSUME NEW x \in Int, NEW y \in Int, NEW k \in Nat, x <= y
      PROVE  x * k <= y * k
  <2>1. (y - x) * k = y * k - x * k /\ (y - x) * k \in Int /\ x * k \in Int /\ y * k \in Int
    BY Products
  <2>2. y - x \in Nat
    BY <1>1
  <2>3. \A a, b \in Nat : a * b \in Nat
    OBVIOUS
  <2>4. (y - x) * k \in Nat
    BY <2>2, <2>3
  <2>5. \A a, b, c \in Int : c = a - b /\ c \in Nat => b <= a
    OBVIOUS
  <2> QED BY <2>1, <2>4, <2>5
<1>2. ASSUME NEW x \in Int, NEW y \in Int, NEW k \in Nat \ {0}, x * k <= y * k
      PROVE  x <= y
  <2> SUFFICES ASSUME y + 1 <= x
               PROVE  FALSE
    OBVIOUS
  <2>1. (y + 1) * k <= x * k
    BY <1>1
  <2>2. (y + 1) * k = y * k + k
    OBVIOUS
  <2>3. x * k \in Int /\ y * k \in Int
    BY Products
  <2> QED BY <1>2, <2>1, <2>2, <2>3
<1> QED BY <1>1, <1>2

\* What AtMost says.
LEMMA AtMostMeans ==
    \A p, q \in Points : AtMost(p, q) <=> p.sum * q.weight <= q.sum * p.weight
<1>1. ASSUME NEW p \in Points, NEW q \in Points
      PROVE  AtMost(p, q) <=> p.sum * q.weight <= q.sum * p.weight
  <2>1. p.sum * q.weight \in Int /\ q.sum * p.weight \in Int
    BY Products DEF Points
  <2> QED BY <2>1 DEF AtMost, Below
<1> QED BY <1>1

\* Fractions a / b, c / d and e / f, one not above the next.
LEMMA CrossTransitive ==
    ASSUME NEW a \in Int, NEW c \in Int, NEW e \in Int,
           NEW b \in Nat \ {0}, NEW d \in Nat \ {0}, NEW f \in Nat \ {0},
           a * d <= c * b, c * f <= e * d
    PROVE  a * f <= e * b
<1>1. /\ a \in Int /\ c \in Int /\ e \in Int
      /\ b \in Nat \ {0} /\ d \in Nat \ {0} /\ f \in Nat \ {0}
  OBVIOUS
<1>2. a * d <= c * b /\ c * f <= e * d
  OBVIOUS
<1>3. /\ a * d \in Int /\ c * b \in Int /\ c * f \in Int /\ e * d \in Int
      /\ a * f \in Int /\ e * b \in Int
  BY <1>1, Products
<1>4. (a * d) * f <= (c * b) * f /\ (c * f) * b <= (e * d) * b
  BY <1>1, <1>2, <1>3, Scaling
<1>5. /\ (a * d) * f = (a * f) * d /\ (c * b) * f = (c * f) * b
      /\ (e * d) * b = (e * b) * d
  BY <1>1, Products
<1>6. (a * f) * d \in Int /\ (c * f) * b \in Int /\ (e * b) * d \in Int
  BY <1>1, <1>3, Products
<1>7. (a * f) * d <= (e * b) * d
  <2>1. \A x, y, z \in Int : x <= y /\ y <= z => x <= z
    OBVIOUS
  <2> QED BY <1>4, <1>5, <1>6, <2>1
<1> QED BY <1>1, <1>3, <1>7, Scaling

LEMMA AtMostTransitive ==
    ASSUME NEW p \in Points, NEW q \in Points, NEW r \in Points,
           AtMost(p, q), AtMost(q, r)
    PROVE  AtMost(p, r)
<1>1. /\ p.sum \in Int /\ q.sum \in Int /\ r.sum \in Int
      /\ p.weight \in Nat \ {0} /\ q.weight \in Nat \ {0} /\ r.weight \in Nat \ {0}
  BY DEF Points
<1>2. p.sum * q.weight <= q.sum * p.weight /\ q.sum * r.weight <= r.sum * q.weight
  BY AtMostMeans
<1>3. p.sum * r.weight <= r.sum * p.weight
  BY <1>1, <1>2, CrossTransitive
<1> QED BY <1>3, AtMostMeans

\* Joining points keeps to any bound of both.
LEMMA JoinBounds ==
    ASSUME NEW p \in Points, NEW q \in Points, NEW x \in Points
    PROVE  /\ AtMost(x, p) /\ AtMost(x, q) => AtMost(x, Join(p, q))
           /\ AtMost(p, x) /\ AtMost(q, x) => AtMost(Join(p, q), x)
<1> DEFINE a == p.sum
           b == p.weight
           c == q.sum
           d == q.weight
           e == x.sum
           f == x.weight
<1>1. /\ a \in Int /\ c \in Int /\ e \in Int
      /\ b \in Int /\ d \in Int /\ f \in Int
  BY DEF Points
<1>2. Join(p, q) \in Points /\ Join(p, q).sum = a + c /\ Join(p, q).weight = b + d
  BY JoinType DEF Join
<1>3. /\ AtMost(x, p) <=> e * b <= a * f
      /\ AtMost(x, q) <=> e * d <= c * f
      /\ AtMost(p, x) <=> a * f <= e * b
      /\ AtMost(q, x) <=> c * f <= e * d
      /\ AtMost(x, Join(p, q)) <=> e * (b + d) <= (a + c) * f
      /\ AtMost(Join(p, q), x) <=> (a + c) * f <= e * (b + d)
  BY <1>2, AtMostMeans
<1> HIDE DEF a, b, c, d, e, f
<1>4. e * (b + d) = e * b + e * d /\ (a + c) * f = a * f + c * f
  BY <1>1, Products
<1>5. e * b \in Int /\ e * d \in Int /\ a * f \in Int /\ c * f \in Int
  BY <1>1, Products
<1>6. \A u, v, y, z \in Int : u <= v /\ y <= z => u + y <= v + z
  OBVIOUS
<1> QED BY <1>3, <1>4, <1>5, <1>6

\* A point is at most itself.
LEMMA AtMostReflexive == \A p \in Points : AtMost(p, p)
BY AtMostMeans, Products DEF Points

-----------------------------------------------------------------------------
(* compress keeps points in order and between their bounds. *)

InOrder(c) == \A j, k \in 1 .. Len(c) : j <= k => AtMost(c[j], c[k])

\* The points of c lie between p and q.
Bounded(c, p, q) == \A j \in 1 .. Len(c) : AtMost(p, c[j]) /\ AtMost(c[j], q)

LEMMA AppendOrders ==
    ASSUME NEW c \in Seq(Points), NEW r \in Points, NEW p, NEW q,
           InOrder(c), Bounded(c, p, q),
           \A j \in 1 .. Len(c) : AtMost(c[j], r),
           AtMost(p, r), AtMost(r, q)
    PROVE  InOrder(Append(c, r)) /\ Bounded(Append(c, r), p, q)
<1> DEFINE e == Append(c, r)
           m == Len(c)
<1>1. m \in Nat /\ Len(e) = m + 1 /\ e[m + 1] = r /\ \A k \in 1 .. m : e[k] = c[k]
  BY AppendWeights
<1> HIDE DEF e
<1>2. ASSUME NEW j \in 1 .. Len(e), NEW k \in 1 .. Len(e), j <= k
      PROVE  AtMost(e[j], e[k])
  <2>1. CASE k = m + 1 /\ j = m + 1
    BY <1>1, <2>1, AtMostReflexive
  <2>2. CASE k = m + 1 /\ j # m + 1
    <3>1. j \in 1 .. m
      BY <1>1, <2>2
    <3> QED BY <1>1, <2>2, <3>1
  <2>3. CASE k # m + 1
    <3>1. j \in 1 .. m /\ k \in 1 .. m
      BY <1>1, <1>2, <2>3
    <3>2. AtMost(c[j], c[k])
      BY <1>2, <3>1 DEF InOrder
    <3> QED BY <1>1, <3>1, <3>2
  <2> QED BY <2>1, <2>2, <2>3
<1>3. ASSUME NEW j \in 1 .. Len(e)
      PROVE  AtMost(p, e[j]) /\ AtMost(e[j], q)
  <2>1. CASE j = m + 1
    BY <1>1, <2>1
  <2>2. CASE j # m + 1
    <3>1. j \in 1 .. m
      BY <1>1, <2>2
    <3> QED BY <1>1, <3>1 DEF Bounded
  <2> QED BY <2>1, <2>2
<1> QED BY <1>2, <1>3 DEF InOrder, Bounded, e

\* The finished centroids, the current one and the point last taken are in order.
Climbs(acc, last, p, q) ==
    /\ InOrder(acc.done) /\ Bounded(acc.done, p, q)
    /\ \A j \in 1 .. Len(acc.done) : AtMost(acc.done[j], acc.cur)
    /\ AtMost(p, acc.cur) /\ AtMost(acc.cur, last)

LEMMA RunClimbs ==
    ASSUME NEW s \in Seq(Points), s # <<>>, NEW n, NEW a, GatherRun(a, n, s),
           NEW p \in Points, NEW q \in Points, InOrder(s), Bounded(s, p, q)
    PROVE  \A k \in 1 .. Len(s) : Climbs(a[k], s[k], p, q)
<1> DEFINE Q == {k \in Nat : k + 1 <= Len(s) => Climbs(a[k + 1], s[k + 1], p, q)}
<1>1. 0 \in Q
  <2> SUFFICES ASSUME 1 <= Len(s)
               PROVE  Climbs(a[1], s[1], p, q)
    OBVIOUS
  <2>1. 1 \in 1 .. Len(s) /\ s[1] \in Points /\ Len(<<>>) = 0
    OBVIOUS
  <2>2. a[1].done = <<>> /\ a[1].cur = s[1]
    BY DEF GatherRun, Begin
  <2>3. AtMost(p, s[1]) /\ AtMost(s[1], s[1])
    BY <2>1, AtMostReflexive DEF Bounded
  <2>4. InOrder(<<>>) /\ Bounded(<<>>, p, q)
    BY <2>1 DEF InOrder, Bounded
  <2> QED BY <2>1, <2>2, <2>3, <2>4 DEF Climbs
<1>2. ASSUME NEW j \in Nat, j \in Q, (j + 1) + 1 <= Len(s)
      PROVE  Climbs(a[(j + 1) + 1], s[(j + 1) + 1], p, q)
  <2> DEFINE k == j + 1
             acc == a[k]
             b == a[k + 1]
             r == s[k + 1]
  <2>1. k \in 1 .. Len(s) - 1 /\ k \in 1 .. Len(s) /\ k + 1 \in 1 .. Len(s) /\ k <= k + 1
    BY <1>2
  <2>2. /\ acc \in Accumulators /\ b = Take(n, acc, r)
        /\ Climbs(acc, s[k], p, q)
    BY <1>2, <2>1 DEF GatherRun
  <2>3. r \in Points /\ s[k] \in Points
    BY <2>1
  <2>4. AtMost(s[k], r) /\ AtMost(p, r) /\ AtMost(r, q)
    BY <2>1 DEF InOrder, Bounded
  <2> HIDE DEF acc, b, r
  <2>5. /\ acc.done \in Seq(Points) /\ acc.cur \in Points
        /\ \A i1 \in 1 .. Len(acc.done) : acc.done[i1] \in Points
    BY <2>2 DEF Accumulators
  <2>6. AtMost(acc.cur, r)
    BY <2>2, <2>3, <2>4, <2>5, AtMostTransitive DEF Climbs
  <2>7. ASSUME NEW i1 \in 1 .. Len(acc.done)
        PROVE  AtMost(acc.done[i1], acc.cur) /\ AtMost(acc.done[i1], r)
    BY <2>2, <2>3, <2>5, <2>6, AtMostTransitive DEF Climbs
  <2>8. CASE Within(n, acc.start, acc.seen + r.weight)
    <3>1. b.done = acc.done /\ b.cur = Join(acc.cur, r)
      BY <2>2, <2>8 DEF Take, Accumulators
    <3>2. AtMost(p, b.cur)
      BY <2>2, <2>3, <2>4, <2>5, <3>1, JoinBounds DEF Climbs
    <3>3. AtMost(b.cur, r)
      BY <2>3, <2>5, <2>6, <3>1, JoinBounds, AtMostReflexive
    <3>4. \A i1 \in 1 .. Len(b.done) : AtMost(b.done[i1], b.cur)
      BY <2>3, <2>5, <2>7, <3>1, JoinBounds
    <3>5. Climbs(b, r, p, q)
      BY <2>2, <3>1, <3>2, <3>3, <3>4 DEF Climbs
    <3> QED BY <3>5 DEF b, r
  <2>9. CASE ~Within(n, acc.start, acc.seen + r.weight)
    <3>1. b.done = Append(acc.done, acc.cur) /\ b.cur = r
      BY <2>2, <2>9 DEF Take
    <3>2. AtMost(acc.cur, q)
      BY <2>3, <2>4, <2>5, <2>6, AtMostTransitive
    <3>3. InOrder(b.done) /\ Bounded(b.done, p, q)
      BY <2>2, <2>5, <3>1, <3>2, AppendOrders DEF Climbs
    <3>4. ASSUME NEW i1 \in 1 .. Len(b.done)
          PROVE  AtMost(b.done[i1], b.cur)
      <4>1. /\ Len(b.done) = Len(acc.done) + 1 /\ Len(acc.done) \in Nat
            /\ b.done[Len(acc.done) + 1] = acc.cur
            /\ \A k1 \in 1 .. Len(acc.done) : b.done[k1] = acc.done[k1]
        BY <2>5, <3>1, AppendWeights
      <4>2. CASE i1 = Len(acc.done) + 1
        BY <2>6, <3>1, <4>1, <4>2
      <4>3. CASE i1 # Len(acc.done) + 1
        <5>1. i1 \in 1 .. Len(acc.done)
          BY <4>1, <4>3
        <5> QED BY <2>7, <3>1, <4>1, <5>1
      <4> QED BY <4>2, <4>3
    <3>5. Climbs(b, r, p, q)
      BY <2>3, <2>4, <3>1, <3>3, <3>4, AtMostReflexive DEF Climbs
    <3> QED BY <3>5 DEF b, r
  <2> QED BY <2>8, <2>9
<1>3. \A k \in Nat : k \in Q
  <2>1. \A k \in Nat : k \in Q => k + 1 \in Q
    BY <1>2
  <2> HIDE DEF Q
  <2> QED BY <1>1, <2>1, NaturalsByInduction
<1>4. ASSUME NEW k \in 1 .. Len(s)
      PROVE  Climbs(a[k], s[k], p, q)
  <2>1. k - 1 \in Nat /\ (k - 1) + 1 = k /\ k <= Len(s)
    OBVIOUS
  <2> QED BY <2>1, <1>3
<1> QED BY <1>4

LEMMA GatherOrders ==
    ASSUME NEW s \in Seq(Points), s # <<>>, NEW p \in Points, NEW q \in Points,
           InOrder(s), Bounded(s, p, q)
    PROVE  InOrder(Gather(s)) /\ Bounded(Gather(s), p, q)
<1>1. PICK a : GatherRun(a, Weight(s), s) /\ Gather(s) = Finished(a[Len(s)])
  BY GatherRuns
<1> DEFINE acc == a[Len(s)]
<1>2. Len(s) \in 1 .. Len(s)
  OBVIOUS
<1>3. acc \in Accumulators /\ Climbs(acc, s[Len(s)], p, q)
  BY <1>1, <1>2, RunClimbs DEF GatherRun
<1>4. Gather(s) = Append(acc.done, acc.cur)
  BY <1>1 DEF Finished
<1>5. s[Len(s)] \in Points /\ AtMost(s[Len(s)], q)
  BY <1>2 DEF Bounded
<1> HIDE DEF acc
<1>6. acc.done \in Seq(Points) /\ acc.cur \in Points
  BY <1>3 DEF Accumulators
<1>7. AtMost(acc.cur, q)
  BY <1>3, <1>5, <1>6, AtMostTransitive DEF Climbs
<1> QED BY <1>3, <1>4, <1>6, <1>7, AppendOrders DEF Climbs

-----------------------------------------------------------------------------
(* Sorting arranges the points anew. *)

WeightsOf(s) == [k \in DOMAIN s |-> s[k].weight]
SumsOf(s) == [k \in DOMAIN s |-> s[k].sum]

\* t is an arrangement of the points of s at the positions I.
Arranged(t, I, s) ==
    /\ t \in Seq(Points) /\ InOrder(t)
    /\ Weight(t) = SumFunctionOnSet(WeightsOf(s), I)
    /\ Sum(t) = SumFunctionOnSet(SumsOf(s), I)
    /\ \A k \in 1 .. Len(t) : \E x \in I : t[k] = s[x]

\* The least point goes first.
LEMMA ArrangedFirst ==
    ASSUME NEW s \in Seq(Points), NEW I \in SUBSET DOMAIN s, NEW x \in I,
           \A y \in I : AtMost(s[x], s[y]),
           NEW t, Arranged(t, I \ {x}, s)
    PROVE  Arranged(<<s[x]>> \o t, I, s)
<1> DEFINE e == <<s[x]>> \o t
<1>1. /\ s[x] \in Points /\ x \in DOMAIN s /\ <<s[x]>> \in Seq(Points) /\ t \in Seq(Points)
      /\ IsFiniteSet(I)
  <2>1. DOMAIN s = 1 .. Len(s) /\ Len(s) \in Nat
    OBVIOUS
  <2>2. IsFiniteSet(DOMAIN s)
    BY <2>1, FS_Interval
  <2> QED BY <2>1, <2>2, FS_Subset DEF Arranged
<1>2. /\ e \in Seq(Points) /\ Len(e) = Len(t) + 1 /\ Len(t) \in Nat /\ e[1] = s[x]
      /\ \A k \in 1 .. Len(t) : e[k + 1] = t[k]
  BY <1>1
<1>3. ASSUME NEW y \in I
      PROVE  /\ WeightsOf(s)[y] = s[y].weight /\ WeightsOf(s)[y] \in Int
             /\ SumsOf(s)[y] = s[y].sum /\ SumsOf(s)[y] \in Int
  <2>1. s[y] \in Points /\ y \in DOMAIN s
    OBVIOUS
  <2> QED BY <2>1 DEF WeightsOf, SumsOf, Points
<1>4. /\ SumFunctionOnSet(WeightsOf(s), I) = s[x].weight + SumFunctionOnSet(WeightsOf(s), I \ {x})
      /\ SumFunctionOnSet(SumsOf(s), I) = s[x].sum + SumFunctionOnSet(SumsOf(s), I \ {x})
  BY <1>1, <1>3, SumRemove, ZenonT(30)
<1>5. Weight(e) = s[x].weight + Weight(t) /\ Sum(e) = s[x].sum + Sum(t)
  BY <1>1, WeightAdds
<1> HIDE DEF e
<1>6. \A k \in 1 .. Len(t) : AtMost(s[x], t[k])
  BY DEF Arranged
<1>7. ASSUME NEW j \in 1 .. Len(e)
      PROVE  \/ j = 1 /\ e[j] = s[x]
             \/ j - 1 \in 1 .. Len(t) /\ e[j] = t[j - 1]
  <2>1. CASE j = 1
    BY <1>2, <2>1
  <2>2. CASE j # 1
    <3>1. j - 1 \in 1 .. Len(t) /\ (j - 1) + 1 = j
      BY <1>2, <2>2
    <3>2. e[(j - 1) + 1] = t[j - 1]
      BY <1>2, <3>1
    <3> QED BY <3>1, <3>2
  <2> QED BY <2>1, <2>2
<1>8. ASSUME NEW j \in 1 .. Len(e), NEW k \in 1 .. Len(e), j <= k
      PROVE  AtMost(e[j], e[k])
  <2>1. CASE j = 1 /\ k = 1
    BY <1>1, <1>2, <2>1, AtMostReflexive
  <2>2. CASE j = 1 /\ k # 1
    <3>1. e[j] = s[x] /\ k - 1 \in 1 .. Len(t) /\ e[k] = t[k - 1]
      BY <1>2, <1>7, <2>2
    <3> QED BY <1>6, <3>1
  <2>3. CASE j # 1
    <3>1. /\ j - 1 \in 1 .. Len(t) /\ e[j] = t[j - 1]
          /\ k - 1 \in 1 .. Len(t) /\ e[k] = t[k - 1]
      <4>1. k # 1
        BY <1>8, <2>3
      <4> QED BY <1>7, <2>3, <4>1
    <3>2. j - 1 <= k - 1
      BY <1>8
    <3>3. AtMost(t[j - 1], t[k - 1])
      BY <3>1, <3>2 DEF Arranged, InOrder
    <3> QED BY <3>1, <3>3
  <2> QED BY <2>1, <2>2, <2>3
<1>9. ASSUME NEW j \in 1 .. Len(e)
      PROVE  \E y \in I : e[j] = s[y]
  <2>1. CASE j = 1
    BY <1>2, <2>1
  <2>2. CASE j # 1
    <3>1. j - 1 \in 1 .. Len(t) /\ e[j] = t[j - 1]
      BY <1>7, <2>2
    <3>2. PICK y \in I \ {x} : t[j - 1] = s[y]
      BY <3>1 DEF Arranged
    <3> QED BY <3>1, <3>2
  <2> QED BY <2>1, <2>2
<1>10. /\ Weight(e) = SumFunctionOnSet(WeightsOf(s), I)
       /\ Sum(e) = SumFunctionOnSet(SumsOf(s), I)
  BY <1>4, <1>5 DEF Arranged
<1>11. InOrder(e)
  BY <1>8 DEF InOrder
<1>12. Arranged(e, I, s)
  BY <1>2, <1>9, <1>10, <1>11 DEF Arranged
<1> QED BY <1>12 DEF e

LEMMA ArrangedNone ==
    ASSUME NEW s \in Seq(Points)
    PROVE  Arranged(<<>>, {}, s)
<1>1. Len(<<>>) = 0 /\ <<>> \in Seq(Points)
  OBVIOUS
<1>2. Weight(<<>>) = 0 /\ Sum(<<>>) = 0
  BY WeightAdds
<1>3. SumFunctionOnSet(WeightsOf(s), {}) = 0 /\ SumFunctionOnSet(SumsOf(s), {}) = 0
  BY SumOfNone
<1> QED BY <1>1, <1>2, <1>3 DEF Arranged, InOrder

\* The sequences of H after p.
Led(p, H) == {<<p>> \o t : t \in H}

\* Every order the sort may leave.
LEMMA SortedArranges ==
    ASSUME NEW s \in Seq(Points)
    PROVE  \A t \in Sorted(s) : Arranged(t, DOMAIN s, s)
<1> DEFINE S == DOMAIN s
           A == SUBSET Seq(Points)
           First(I) == {x \in I : \A y \in I : AtMost(s[x], s[y])}
           Firsts(I) == {x \in First(I) : \A y \in First(I) : s[y] = s[x] => x <= y}
           Rest(I, h) == IF I = {} THEN {<<>>}
                         ELSE UNION {Led(s[x], h[I \ {x}]) : x \in Firsts(I)}
           G == [z \in (SUBSET S) \X [SUBSET S -> A] |-> Rest(z[1], z[2])]
<1>1. IsFiniteSet(S) /\ \A x \in S : s[x] \in Points
  <2>1. S = 1 .. Len(s) /\ Len(s) \in Nat
    OBVIOUS
  <2> QED BY <2>1, FS_Interval
<1>2. ASSUME NEW I \in SUBSET S
      PROVE  \A x \in Firsts(I) : /\ x \in I /\ \A y \in I : AtMost(s[x], s[y])
                                  /\ I \ {x} \in SUBSET S /\ I \ {x} \in SUBSET I
                                  /\ I \ {x} # I
  OBVIOUS
<1> HIDE DEF Firsts, S
<1>3. ASSUME NEW I \in SUBSET S, NEW h \in [SUBSET S -> A]
      PROVE  G[<<I, h>>] = Rest(I, h) /\ Rest(I, h) \in A
  <2>1. G[<<I, h>>] = Rest(I, h)
    <3> HIDE DEF Rest
    <3> QED OBVIOUS
  <2>2. CASE I = {}
    BY <2>1, <2>2
  <2>3. CASE I # {}
    <3>1. ASSUME NEW x \in Firsts(I), NEW t \in h[I \ {x}]
          PROVE  <<s[x]>> \o t \in Seq(Points)
      <4>1. t \in Seq(Points) /\ s[x] \in Points
        BY <1>1, <1>2
      <4> QED BY <4>1
    <3>2. ASSUME NEW x \in Firsts(I)
          PROVE  Led(s[x], h[I \ {x}]) \in A
      BY <3>1 DEF Led
    <3>3. Rest(I, h) = UNION {Led(s[x], h[I \ {x}]) : x \in Firsts(I)}
      BY <2>3
    <3> HIDE DEF Rest
    <3>4. \A e \in Rest(I, h) : \E x \in Firsts(I) : e \in Led(s[x], h[I \ {x}])
      BY <3>3
    <3> QED BY <2>1, <3>2, <3>4
  <2> QED BY <2>2, <2>3
<1>4. G \in [(SUBSET S) \X [SUBSET S -> A] -> A]
  <2>1. ASSUME NEW z \in (SUBSET S) \X [SUBSET S -> A]
        PROVE  G[z] \in A
    <3>1. z = <<z[1], z[2]>> /\ z[1] \in SUBSET S /\ z[2] \in [SUBSET S -> A]
      OBVIOUS
    <3>2. G[<<z[1], z[2]>>] \in A
      <4> HIDE DEF G, Rest, A
      <4> QED BY <3>1, <1>3
    <3> HIDE DEF G
    <3> QED BY <3>1, <3>2
  <2>2. DOMAIN G = (SUBSET S) \X [SUBSET S -> A] /\ G = [z \in DOMAIN G |-> G[z]]
    BY DEF G
  <2> HIDE DEF G, A
  <2> QED BY <2>1, <2>2
<1>5. ASSUME NEW I \in SUBSET S,
             NEW g \in [SUBSET S -> A], NEW h \in [SUBSET S -> A],
             \A U \in SUBSET I : U # I => g[U] = h[U]
      PROVE  G[<<I, g>>] = G[<<I, h>>]
  <2>1. \A x \in Firsts(I) : g[I \ {x}] = h[I \ {x}]
    BY <1>2, <1>5
  <2>2. \A x \in Firsts(I) : Led(s[x], g[I \ {x}]) = Led(s[x], h[I \ {x}])
    BY <2>1
  <2>3. {Led(s[x], g[I \ {x}]) : x \in Firsts(I)} = {Led(s[x], h[I \ {x}]) : x \in Firsts(I)}
    BY <2>2
  <2>4. Rest(I, g) = Rest(I, h)
    BY <2>3
  <2> HIDE DEF G, Rest, A
  <2> QED BY <2>4, <1>3
<1>6. PICK h \in [SUBSET S -> A] : \A I \in SUBSET S : h[I] = G[<<I, h>>]
  <2>1. ComputesFromSmaller(G, S, A)
    <3> HIDE DEF G, A
    <3> QED BY <1>4, <1>5 DEF ComputesFromSmaller
  <2>2. A # {}
    OBVIOUS
  <2> HIDE DEF G, A
  <2>3. \E h : ComputedBy(h, G, S, A)
    BY <1>1, <2>1, <2>2, SubsetRecursion
  <2> QED BY <2>3 DEF ComputedBy
<1>7. h = [I \in SUBSET S |-> Rest(I, h)]
  <2> HIDE DEF G, Rest, A
  <2> QED BY <1>6, <1>3
<1> DEFINE Orders == CHOOSE o : o = [I \in SUBSET S |-> Rest(I, o)]
<1>8. Orders = [I \in SUBSET S |-> Rest(I, Orders)]
  <2> HIDE DEF Rest
  <2> QED BY <1>7
<1>9. Sorted(s) = Orders[S]
  BY DEF Sorted, S, Firsts, Led
<1> DEFINE Q == {I \in SUBSET S : \A t \in Orders[I] : Arranged(t, I, s)}
<1>10. {} \in Q
  <2>1. Orders[{}] = Rest({}, Orders)
    <3> HIDE DEF Rest, Orders
    <3> QED BY <1>8
  <2>2. Orders[{}] = {<<>>}
    <3> HIDE DEF Orders
    <3> QED BY <2>1
  <2> HIDE DEF Orders
  <2> QED BY <2>2, ArrangedNone
<1>11. ASSUME NEW I \in SUBSET S, I # {}, \A x \in I : I \ {x} \in Q
       PROVE  I \in Q
  <2>1. Orders[I] = Rest(I, Orders)
    <3> HIDE DEF Rest, Orders
    <3> QED BY <1>8
  <2> HIDE DEF Orders
  <2>2. ASSUME NEW t \in Orders[I]
        PROVE  Arranged(t, I, s)
    <3>1. PICK x \in Firsts(I) : t \in Led(s[x], Orders[I \ {x}])
      BY <1>11, <2>1, <2>2
    <3>2. PICK u \in Orders[I \ {x}] : t = <<s[x]>> \o u
      BY <3>1 DEF Led
    <3>3. x \in I /\ \A y \in I : AtMost(s[x], s[y])
      BY <1>2, <3>1
    <3>4. Arranged(u, I \ {x}, s)
      BY <1>11, <3>2, <3>3
    <3>5. I \in SUBSET DOMAIN s
      BY DEF S
    <3> QED BY <3>2, <3>3, <3>4, <3>5, ArrangedFirst
  <2> QED BY <2>2
<1>12. S \in Q
  <2> HIDE DEF Q
  <2>1. S \in SUBSET S
    OBVIOUS
  <2> QED BY <1>1, <1>10, <1>11, <2>1, FiniteSetsByInduction
<1> QED BY <1>9, <1>12 DEF S

-----------------------------------------------------------------------------
(* The inductive invariant of the digests. *)

DigestType == [centroids : Seq(Points), buffer : Seq(Numbers),
               min : Numbers \cup {0}, max : Numbers \cup {0}, haveMinMax : BOOLEAN]



\* The number and the sum of values, each v of them counted f[v] times.
CountOf(f) == SumFunctionOnSet(f, Numbers)
TotalOf(f) == SumFunctionOnSet([v \in Numbers |-> v * f[v]], Numbers)

\* The extremes of t are those of the values f counts, and no point lies outside.
Extremes(t, f) ==
    /\ t.haveMinMax <=> \E v \in Numbers : f[v] > 0
    /\ t.haveMinMax =>
          /\ {t.min, t.max} \subseteq {v \in Numbers : f[v] > 0}
          /\ \A v \in Numbers : f[v] > 0 => t.min <= v /\ v <= t.max
          /\ Bounded(PointsOf(t), Point(t.min), Point(t.max))

\* t stands for the values f counts.
StandsFor(t, f) ==
    /\ Weight(PointsOf(t)) = CountOf(f) /\ Sum(PointsOf(t)) = TotalOf(f)
    /\ Extremes(t, f)

\* Its centroids are as compress leaves them.
WellFormed(t) == InOrder(t.centroids) /\ Apart(t.centroids, Weight(t.centroids))

\* Values taken by digests D together.
CountOver(D, g) == SumFunctionOnSet([e \in Digests |-> CountOf(g[e])], D)

DigestTyped ==
    /\ live \subseteq Digests
    /\ taken \in [Digests -> [Numbers -> 0 .. MaxPoints]]
    /\ dig \in [Digests -> DigestType]
    /\ \A d \in Digests : Len(dig[d].buffer) < BufferCap

DigestIInv ==
    /\ DigestTyped
    /\ CountOver(live, taken) <= MaxPoints
    /\ \A d \in live : StandsFor(dig[d], taken[d]) /\ WellFormed(dig[d])

-----------------------------------------------------------------------------
(* The points of a digest. *)

LEMMA NumbersAreIntegers == Numbers \subseteq Int /\ IsFiniteSet(Numbers)
<1>1. Numbers \subseteq Vals
  BY DEF Numbers
<1> QED BY <1>1, TDigestAssumption, FS_Subset DEF Numbers

LEMMA PointType ==
    \A v \in Int : Point(v) \in Points /\ Point(v).sum = v /\ Point(v).weight = 1
BY DEF Point, Points

\* Single values weigh as many as they are, and sum up like them.
LEMMA SinglesAdd ==
    ASSUME NEW b \in Seq(Int)
    PROVE  /\ Singles(b) \in Seq(Points) /\ Len(Singles(b)) = Len(b) /\ Len(b) \in Nat
           /\ \A k \in 1 .. Len(b) : b[k] \in Int /\ Singles(b)[k] = Point(b[k])
           /\ Weight(Singles(b)) = Len(b) /\ Sum(Singles(b)) = SumFunction(b)
<1> DEFINE s == Singles(b)
<1>1. Len(b) \in Nat /\ DOMAIN b = 1 .. Len(b) /\ \A k \in 1 .. Len(b) : b[k] \in Int
  OBVIOUS
<1>2. s = [k \in 1 .. Len(b) |-> Point(b[k])]
  BY <1>1 DEF Singles
<1>3. \A k \in 1 .. Len(b) : s[k] = Point(b[k]) /\ s[k] \in Points
  BY <1>1, <1>2, PointType
<1>4. s \in [1 .. Len(b) -> Points]
  BY <1>2, <1>3
<1>5. s \in Seq(Points) /\ Len(s) = Len(b)
  <2> HIDE DEF s
  <2> QED BY <1>1, <1>4
<1> HIDE DEF s
<1>6. Weight(s) = Len(b)
  <2> DEFINE Q == {k \in Nat : k <= Len(b) => WeightTo(s, k) = k}
  <2>1. 0 \in Q
    BY <1>5, PrefixAdds
  <2>2. ASSUME NEW k \in Nat, k \in Q, k + 1 <= Len(b)
        PROVE  WeightTo(s, k + 1) = k + 1
    <3>1. k + 1 \in 1 .. Len(s) /\ (k + 1) - 1 = k /\ k <= Len(b)
      BY <1>5, <2>2
    <3>2. s[k + 1].weight = 1
      BY <1>1, <1>3, <1>5, <3>1, PointType
    <3> QED BY <1>5, <2>2, <3>1, <3>2, PrefixAdds
  <2>3. \A k \in Nat : k \in Q
    <3>1. \A k \in Nat : k \in Q => k + 1 \in Q
      BY <2>2
    <3> HIDE DEF Q
    <3> QED BY <2>1, <3>1, NaturalsByInduction
  <2> QED BY <1>1, <1>5, <2>3, PrefixAdds
<1>7. Sum(s) = SumFunction(b)
  <2>1. DOMAIN s = 1 .. Len(b)
    BY <1>5
  <2>2. \A k \in 1 .. Len(b) : s[k].sum = b[k]
    BY <1>1, <1>3, PointType
  <2>3. [k \in DOMAIN s |-> s[k].sum] = b
    BY <1>1, <2>1, <2>2
  <2> QED BY <2>3 DEF Sum
<1> QED BY <1>1, <1>3, <1>5, <1>6, <1>7 DEF s

LEMMA DigestPoints ==
    ASSUME NEW t \in DigestType
    PROVE  /\ t.centroids \in Seq(Points) /\ t.buffer \in Seq(Numbers) /\ t.buffer \in Seq(Int)
           /\ PointsOf(t) = t.centroids \o Singles(t.buffer)
           /\ PointsOf(t) \in Seq(Points)
           /\ Weight(PointsOf(t)) = Weight(t.centroids) + Len(t.buffer)
           /\ Sum(PointsOf(t)) = Sum(t.centroids) + SumFunction(t.buffer)
<1>1. t.centroids \in Seq(Points) /\ t.buffer \in Seq(Numbers)
  BY DEF DigestType
<1>2. t.buffer \in Seq(Int)
  <2> DEFINE b == t.buffer
  <2>1. b \in Seq(Numbers)
    BY <1>1
  <2> HIDE DEF b
  <2>2. Len(b) \in Nat /\ b \in [1 .. Len(b) -> Numbers]
    BY <2>1
  <2>3. b \in [1 .. Len(b) -> Int]
    BY <2>2, NumbersAreIntegers
  <2>4. b \in Seq(Int)
    BY <2>2, <2>3
  <2> QED BY <2>4 DEF b
<1>3. PointsOf(t) = t.centroids \o Singles(t.buffer)
  BY DEF PointsOf
<1>4. Singles(t.buffer) \in Seq(Points)
  BY <1>2, SinglesAdd
<1>5. PointsOf(t) \in Seq(Points)
  BY <1>1, <1>3, <1>4
<1> QED BY <1>1, <1>2, <1>3, <1>4, <1>5, SinglesAdd, WeightAdds

\* The elements of a sequence followed by another.
LEMMA Concatenated ==
    ASSUME NEW c \in Seq(Points), NEW e \in Seq(Points)
    PROVE  /\ c \o e \in Seq(Points) /\ Len(c \o e) = Len(c) + Len(e)
           /\ \A k \in 1 .. Len(c) : (c \o e)[k] = c[k]
           /\ \A k \in 1 .. Len(e) : (c \o e)[Len(c) + k] = e[k]
           /\ \A k \in 1 .. Len(c \o e) :
                 \/ k \in 1 .. Len(c) /\ (c \o e)[k] = c[k]
                 \/ k - Len(c) \in 1 .. Len(e) /\ (c \o e)[k] = e[k - Len(c)]
OBVIOUS

\* Bounds of two sequences one after the other.
LEMMA BoundedParts ==
    ASSUME NEW c \in Seq(Points), NEW e \in Seq(Points), NEW p, NEW q
    PROVE  Bounded(c \o e, p, q) <=> Bounded(c, p, q) /\ Bounded(e, p, q)
<1> DEFINE g == c \o e
<1>1. /\ Len(g) = Len(c) + Len(e) /\ Len(c) \in Nat /\ Len(e) \in Nat
      /\ \A k \in 1 .. Len(c) : g[k] = c[k]
      /\ \A k \in 1 .. Len(e) : g[Len(c) + k] = e[k]
      /\ \A k \in 1 .. Len(g) :
            \/ k \in 1 .. Len(c) /\ g[k] = c[k]
            \/ k - Len(c) \in 1 .. Len(e) /\ g[k] = e[k - Len(c)]
  BY Concatenated
<1> HIDE DEF g
<1>2. ASSUME Bounded(g, p, q)
      PROVE  Bounded(c, p, q) /\ Bounded(e, p, q)
  <2>1. \A k \in 1 .. Len(c) : k \in 1 .. Len(g)
    BY <1>1
  <2>2. \A k \in 1 .. Len(e) : Len(c) + k \in 1 .. Len(g)
    BY <1>1
  <2>3. Bounded(c, p, q)
    BY <1>1, <1>2, <2>1 DEF Bounded
  <2>4. Bounded(e, p, q)
    BY <1>1, <1>2, <2>2 DEF Bounded
  <2> QED BY <2>3, <2>4
<1>3. ASSUME Bounded(c, p, q), Bounded(e, p, q)
      PROVE  Bounded(g, p, q)
  BY <1>1, <1>3 DEF Bounded
<1> QED BY <1>2, <1>3 DEF g

-----------------------------------------------------------------------------
(* What compress does to a digest. *)

\* The points that need not be within one step of the scale.
Whole(c) == {p \in Points : p.weight = 1} \cup {c[k] : k \in 1 .. Len(c)}

\* u is what compress may leave of t.
Folded(t, u) ==
    /\ u \in DigestType /\ u.buffer = <<>>
    /\ u.min = t.min /\ u.max = t.max /\ u.haveMinMax = t.haveMinMax
    /\ Weight(u.centroids) = Weight(PointsOf(t)) /\ Sum(u.centroids) = Sum(PointsOf(t))
    /\ InOrder(u.centroids)
    /\ \A p, q \in Points : Bounded(PointsOf(t), p, q) => Bounded(u.centroids, p, q)
    /\ Weight(PointsOf(t)) <= MaxPoints =>
          /\ Small(u.centroids, Weight(PointsOf(t)), Whole(t.centroids))
          /\ Apart(u.centroids, Weight(PointsOf(t)))

\* Only a sequence without points weighs nothing.
LEMMA NoWeight ==
    ASSUME NEW s \in Seq(Points)
    PROVE  s = <<>> <=> Weight(s) = 0
<1>1. Weight(s) \in Nat /\ Len(s) <= Weight(s) /\ Len(s) \in Nat
  BY WeightType
<1>2. Weight(<<>>) = 0
  BY WeightAdds
<1>3. Len(s) = 0 => s = <<>>
  OBVIOUS
<1> QED BY <1>1, <1>2, <1>3

\* The points of t are single or centroids.
LEMMA WholePoints ==
    ASSUME NEW t \in DigestType
    PROVE  \A k \in 1 .. Len(PointsOf(t)) : PointsOf(t)[k] \in Whole(t.centroids)
<1>1. /\ t.centroids \in Seq(Points) /\ t.buffer \in Seq(Int)
      /\ PointsOf(t) = t.centroids \o Singles(t.buffer)
      /\ Singles(t.buffer) \in Seq(Points) /\ Len(Singles(t.buffer)) = Len(t.buffer)
      /\ \A k \in 1 .. Len(t.buffer) : t.buffer[k] \in Int /\ Singles(t.buffer)[k] = Point(t.buffer[k])
  BY DigestPoints, SinglesAdd
<1>2. ASSUME NEW k \in 1 .. Len(PointsOf(t))
      PROVE  PointsOf(t)[k] \in Whole(t.centroids)
  <2>1. CASE k \in 1 .. Len(t.centroids) /\ PointsOf(t)[k] = t.centroids[k]
    BY <2>1 DEF Whole
  <2>2. CASE /\ k - Len(t.centroids) \in 1 .. Len(Singles(t.buffer))
             /\ PointsOf(t)[k] = Singles(t.buffer)[k - Len(t.centroids)]
    <3>1. PICK x \in Int : PointsOf(t)[k] = Point(x)
      BY <1>1, <2>2
    <3> QED BY <3>1, PointType DEF Whole
  <2> DEFINE c == t.centroids
             e == Singles(t.buffer)
             g == PointsOf(t)
  <2>3. c \in Seq(Points) /\ e \in Seq(Points) /\ g = c \o e /\ k \in 1 .. Len(g)
    BY <1>1, <1>2
  <2> HIDE DEF c, e, g
  <2>4. \/ k \in 1 .. Len(c) /\ g[k] = c[k]
        \/ k - Len(c) \in 1 .. Len(e) /\ g[k] = e[k - Len(c)]
    BY <2>3, Concatenated
  <2> QED BY <2>1, <2>2, <2>4 DEF c, e, g
<1> QED BY <1>2

\* What sorting does to points.
LEMMA SortedKeeps ==
    ASSUME NEW s \in Seq(Points), NEW t \in Sorted(s)
    PROVE  /\ t \in Seq(Points) /\ InOrder(t)
           /\ Weight(t) = Weight(s) /\ Sum(t) = Sum(s)
           /\ \A k \in 1 .. Len(t) : \E j \in 1 .. Len(s) : t[k] = s[j]
           /\ t = <<>> <=> s = <<>>
<1>1. Arranged(t, DOMAIN s, s)
  BY SortedArranges
<1>2. DOMAIN s = 1 .. Len(s)
  OBVIOUS
<1>3. Weight(s) = SumFunctionOnSet(WeightsOf(s), DOMAIN s)
  BY DEF Weight, WeightsOf, SumFunction
<1>4. Sum(s) = SumFunctionOnSet(SumsOf(s), DOMAIN s)
  BY DEF Sum, SumsOf, SumFunction
<1>5. /\ t \in Seq(Points) /\ InOrder(t)
      /\ Weight(t) = Weight(s) /\ Sum(t) = Sum(s)
  BY <1>1, <1>3, <1>4 DEF Arranged
<1>6. \A k \in 1 .. Len(t) : \E j \in 1 .. Len(s) : t[k] = s[j]
  BY <1>1, <1>2 DEF Arranged
<1>7. t = <<>> <=> s = <<>>
  BY <1>5, NoWeight
<1> QED BY <1>5, <1>6, <1>7

LEMMA CompressFolds ==
    ASSUME NEW t \in DigestType, NEW u \in Compressed(t)
    PROVE  Folded(t, u)
<1> DEFINE e == PointsOf(t)
<1>1. PICK s \in Sorted(e) :
         u = [t EXCEPT !.centroids = IF s = <<>> THEN s ELSE Gather(s), !.buffer = <<>>]
  BY DEF Compressed
<1>2. e \in Seq(Points)
  BY DigestPoints
<1>3. \A k \in 1 .. Len(e) : e[k] \in Whole(t.centroids)
  BY WholePoints
<1> DEFINE c == IF s = <<>> THEN s ELSE Gather(s)
<1>4. /\ u.centroids = c /\ u.buffer = <<>>
      /\ u.min = t.min /\ u.max = t.max /\ u.haveMinMax = t.haveMinMax
      /\ c \in Seq(Points) => u \in DigestType
  <2>1. <<>> \in Seq(Numbers)
    OBVIOUS
  <2> HIDE DEF c
  <2>2. u = [t EXCEPT !.centroids = c, !.buffer = <<>>]
    BY <1>1 DEF c
  <2> QED BY <2>1, <2>2 DEF DigestType
<1> HIDE DEF e
<1>5. /\ s \in Seq(Points) /\ InOrder(s)
      /\ Weight(s) = Weight(e) /\ Sum(s) = Sum(e)
      /\ \A k \in 1 .. Len(s) : \E j \in 1 .. Len(e) : s[k] = e[j]
  BY <1>1, <1>2, SortedKeeps
<1>6. \A k \in 1 .. Len(s) : s[k] \in Whole(t.centroids)
  BY <1>3, <1>5
<1>7. ASSUME NEW p \in Points, NEW q \in Points, Bounded(e, p, q)
      PROVE  Bounded(s, p, q)
  BY <1>5, <1>7 DEF Bounded
<1>8. CASE s = <<>>
  <2>1. c = <<>> /\ Len(<<>>) = 0 /\ Weight(c) = Weight(e) /\ Sum(c) = Sum(e) /\ c \in Seq(Points)
    BY <1>5, <1>8
  <2>2. /\ InOrder(c) /\ \A p, q \in Points : Bounded(c, p, q)
        /\ Small(c, Weight(e), Whole(t.centroids)) /\ Apart(c, Weight(e))
    BY <2>1 DEF InOrder, Bounded, Small, Apart
  <2> HIDE DEF c
  <2> QED BY <1>4, <2>1, <2>2 DEF Folded, e
<1>9. CASE s # <<>>
  <2>1. c = Gather(s)
    BY <1>9
  <2> HIDE DEF c
  <2>2. c \in Seq(Points) /\ Weight(c) = Weight(e) /\ Sum(c) = Sum(e)
    BY <1>5, <1>9, <2>1, GatherKeeps
  <2>3. ASSUME NEW p \in Points, NEW q \in Points, Bounded(e, p, q)
        PROVE  Bounded(c, p, q)
    BY <1>5, <1>7, <1>9, <2>1, <2>3, GatherOrders
  <2>4. InOrder(c)
    <3>1. Len(s) \in Nat /\ 1 \in 1 .. Len(s) /\ Len(s) \in 1 .. Len(s)
      BY <1>5, <1>9
    <3>2. s[1] \in Points /\ s[Len(s)] \in Points
      BY <1>5, <3>1
    <3>3. Bounded(s, s[1], s[Len(s)])
      BY <1>5, <3>1 DEF Bounded, InOrder
    <3> QED BY <1>5, <1>9, <2>1, <3>2, <3>3, GatherOrders
  <2>5. ASSUME Weight(e) <= MaxPoints
        PROVE  Small(c, Weight(e), Whole(t.centroids)) /\ Apart(c, Weight(e))
    <3>1. Weight(s) \in 1 .. MaxPoints
      <4>1. Weight(s) \in Nat /\ Weight(s) # 0
        BY <1>5, <1>9, WeightType, NoWeight
      <4>2. MaxPoints \in Nat /\ Weight(s) <= MaxPoints
        BY <1>5, <2>5, TDigestAssumption
      <4> QED BY <4>1, <4>2
    <3>2. Small(Gather(s), Weight(s), Whole(t.centroids)) /\ Apart(Gather(s), Weight(s))
      BY <1>5, <1>6, <1>9, <3>1, GatherSpaces
    <3> QED BY <1>5, <2>1, <3>2
  <2> QED BY <1>4, <2>2, <2>3, <2>4, <2>5 DEF Folded, e
<1> QED BY <1>8, <1>9

-----------------------------------------------------------------------------
(* Counts of values. *)

Counts == [Numbers -> Nat]

LEMMA CountTypes ==
    ASSUME NEW f \in Counts
    PROVE  /\ CountOf(f) \in Nat /\ TotalOf(f) \in Int
           /\ \A v \in Numbers : v \in Int /\ f[v] \in Nat /\ f[v] <= CountOf(f)
           /\ (\A v \in Numbers : f[v] = 0) => CountOf(f) = 0
<1>1. ASSUME NEW v \in Numbers
      PROVE  v \in Int /\ f[v] \in Nat /\ f[v] \in Int
  BY NumbersAreIntegers DEF Counts
<1>2. CountOf(f) \in Nat /\ \A v \in Numbers : f[v] <= CountOf(f)
  BY <1>1, NumbersAreIntegers, SumOfNaturals DEF CountOf
<1>3. TotalOf(f) \in Int
  <2> DEFINE g == [v \in Numbers |-> v * f[v]]
  <2>1. \A v \in Numbers : g[v] \in Int
    BY <1>1, Products
  <2> HIDE DEF g
  <2>2. SumFunctionOnSet(g, Numbers) \in Int
    BY <2>1, NumbersAreIntegers, SumPicks
  <2> QED BY <2>2 DEF TotalOf, g
<1>4. ASSUME \A v \in Numbers : f[v] = 0
      PROVE  CountOf(f) = 0
  <2>1. \A v \in Numbers : f[v] \in Int /\ f[v] = f[v] + f[v]
    BY <1>1, <1>4
  <2>2. SumFunctionOnSet(f, Numbers) = SumFunctionOnSet(f, Numbers) + SumFunctionOnSet(f, Numbers)
    BY <2>1, NumbersAreIntegers, SumAdds
  <2>3. \A x \in Nat : x = x + x => x = 0
    OBVIOUS
  <2> QED BY <1>2, <2>2, <2>3 DEF CountOf
<1> QED BY <1>1, <1>2, <1>3, <1>4

\* One value more.
LEMMA CountOneMore ==
    ASSUME NEW f \in Counts, NEW v \in Numbers
    PROVE  LET g == [f EXCEPT ![v] = @ + 1]
           IN /\ g \in Counts
              /\ CountOf(g) = CountOf(f) + 1 /\ TotalOf(g) = TotalOf(f) + v
              /\ \A w \in Numbers : g[w] > 0 <=> w = v \/ f[w] > 0
<1> DEFINE g == [f EXCEPT ![v] = @ + 1]
<1>1. ASSUME NEW w \in Numbers
      PROVE  w \in Int /\ f[w] \in Nat /\ g[w] = IF w = v THEN f[w] + 1 ELSE f[w]
  BY NumbersAreIntegers DEF Counts
<1>2. g \in Counts
  BY DEF Counts
<1> HIDE DEF g
<1>3. CountOf(g) = CountOf(f) + 1
  <2>1. SumFunctionOnSet(g, Numbers) = SumFunctionOnSet(f, Numbers) + (g[v] - f[v])
    <3>1. DifferAt(f, g, Numbers, v)
      BY <1>1 DEF DifferAt
    <3>2. SumDiffers(f, g, Numbers, v)
      BY <3>1, NumbersAreIntegers, SumChanges
    <3> QED BY <3>2 DEF SumDiffers
  <2>2. g[v] - f[v] = 1
    BY <1>1
  <2> QED BY <2>1, <2>2 DEF CountOf
<1>4. TotalOf(g) = TotalOf(f) + v
  <2> DEFINE F == [w \in Numbers |-> w * f[w]]
             G == [w \in Numbers |-> w * g[w]]
  <2>1. ASSUME NEW w \in Numbers
        PROVE  /\ F[w] \in Int /\ G[w] \in Int
               /\ w # v => G[w] = F[w]
               /\ w = v => G[w] - F[w] = v
    <3>1. F[w] = w * f[w] /\ G[w] = w * g[w] /\ f[w] \in Int /\ g[w] \in Int
      BY <1>1
    <3>2. w # v => G[w] = F[w]
      BY <1>1
    <3>3. \A x, y \in Int : x * (y + 1) - x * y = x
      OBVIOUS
    <3>4. w = v => G[w] - F[w] = v
      <4>1. SUFFICES ASSUME w = v
                     PROVE  w * g[w] - w * f[w] = w
        BY <3>1
      <4>2. g[w] = f[w] + 1
        BY <1>1, <4>1
      <4> QED BY <1>1, <3>1, <3>3, <4>2
    <3>5. F[w] \in Int /\ G[w] \in Int
      BY <1>1, <3>1, Products
    <3> QED BY <3>2, <3>4, <3>5
  <2> HIDE DEF F, G
  <2>2. SumFunctionOnSet(G, Numbers) = SumFunctionOnSet(F, Numbers) + (G[v] - F[v])
    <3>1. DifferAt(F, G, Numbers, v)
      BY <2>1 DEF DifferAt
    <3>2. SumDiffers(F, G, Numbers, v)
      BY <3>1, NumbersAreIntegers, SumChanges
    <3> QED BY <3>2 DEF SumDiffers
  <2>3. G[v] - F[v] = v
    BY <2>1
  <2> QED BY <2>2, <2>3 DEF TotalOf, F, G
<1>5. \A w \in Numbers : g[w] > 0 <=> w = v \/ f[w] > 0
  BY <1>1
<1> QED BY <1>2, <1>3, <1>4, <1>5 DEF g

\* Two counts together.
LEMMA CountBoth ==
    ASSUME NEW f \in Counts, NEW g \in Counts
    PROVE  LET h == [v \in Numbers |-> f[v] + g[v]]
           IN /\ h \in Counts
              /\ CountOf(h) = CountOf(f) + CountOf(g)
              /\ TotalOf(h) = TotalOf(f) + TotalOf(g)
              /\ \A w \in Numbers : h[w] > 0 <=> f[w] > 0 \/ g[w] > 0
<1> DEFINE h == [v \in Numbers |-> f[v] + g[v]]
<1>1. ASSUME NEW w \in Numbers
      PROVE  w \in Int /\ f[w] \in Nat /\ g[w] \in Nat /\ h[w] = f[w] + g[w]
  BY NumbersAreIntegers DEF Counts
<1>2. h \in Counts
  BY <1>1 DEF Counts
<1> HIDE DEF h
<1>3. CountOf(h) = CountOf(f) + CountOf(g)
  <2>1. \A w \in Numbers : f[w] \in Int /\ g[w] \in Int /\ h[w] = f[w] + g[w]
    BY <1>1
  <2>2. IsFiniteSet(Numbers)
    BY NumbersAreIntegers
  <2> QED BY <2>1, <2>2, SumAdds DEF CountOf
<1>4. TotalOf(h) = TotalOf(f) + TotalOf(g)
  <2> DEFINE F == [w \in Numbers |-> w * f[w]]
             G == [w \in Numbers |-> w * g[w]]
             H == [w \in Numbers |-> w * h[w]]
  <2>1. ASSUME NEW w \in Numbers
        PROVE  F[w] \in Int /\ G[w] \in Int /\ H[w] = F[w] + G[w]
    <3>1. F[w] = w * f[w] /\ G[w] = w * g[w] /\ H[w] = w * h[w] /\ f[w] \in Int /\ g[w] \in Int
      BY <1>1
    <3>2. w * (f[w] + g[w]) = w * f[w] + w * g[w]
      BY <1>1, <3>1, Products
    <3>3. F[w] \in Int /\ G[w] \in Int
      BY <1>1, <3>1, Products
    <3> HIDE DEF F, G, H
    <3> QED BY <1>1, <3>1, <3>2, <3>3
  <2> HIDE DEF F, G, H
  <2>2. SumFunctionOnSet(H, Numbers) = SumFunctionOnSet(F, Numbers) + SumFunctionOnSet(G, Numbers)
    BY <2>1, NumbersAreIntegers, SumAdds
  <2> QED BY <2>2 DEF TotalOf, F, G, H
<1>5. \A w \in Numbers : h[w] > 0 <=> f[w] > 0 \/ g[w] > 0
  BY <1>1
<1> QED BY <1>2, <1>3, <1>4, <1>5 DEF h

-----------------------------------------------------------------------------
(* The extremes. *)

LEMMA LesserGreater ==
    \A x, y \in Int : /\ Min({x, y}) = IF x <= y THEN x ELSE y
                      /\ Max({x, y}) = IF x <= y THEN y ELSE x
<1>1. ASSUME NEW x \in Int, NEW y \in Int
      PROVE  /\ Min({x, y}) = IF x <= y THEN x ELSE y
             /\ Max({x, y}) = IF x <= y THEN y ELSE x
  <2> DEFINE T == {x, y}
             lo == IF x <= y THEN x ELSE y
             hi == IF x <= y THEN y ELSE x
  <2>1. lo \in T /\ (\A z \in T : lo <= z) /\ hi \in T /\ (\A z \in T : hi >= z) /\ T \subseteq Int
    OBVIOUS
  <2> HIDE DEF T, lo, hi
  <2>2. Min(T) \in T /\ \A z \in T : Min(T) <= z
    BY <2>1 DEF Min
  <2>3. Max(T) \in T /\ \A z \in T : Max(T) >= z
    BY <2>1 DEF Max
  <2>4. Min(T) <= lo /\ lo <= Min(T) /\ Max(T) >= hi /\ hi >= Max(T)
    BY <2>1, <2>2, <2>3
  <2>5. Min(T) \in Int /\ Max(T) \in Int /\ lo \in Int /\ hi \in Int
    BY <2>1, <2>2, <2>3
  <2>6. Min(T) = lo /\ Max(T) = hi
    BY <2>4, <2>5
  <2> QED BY <2>6 DEF T, lo, hi
<1> QED BY <1>1

\* Extremes that take in a lowest and a highest value.
LEMMA ExtendedFields ==
    ASSUME NEW t \in DigestType, NEW lo \in Numbers, NEW hi \in Numbers,
           t.haveMinMax => t.min \in Numbers /\ t.max \in Numbers
    PROVE  LET x == Extended(t, lo, hi)
           IN /\ x \in DigestType /\ x.centroids = t.centroids /\ x.buffer = t.buffer
              /\ x.haveMinMax
              /\ x.min \in Numbers /\ x.max \in Numbers
              /\ x.min <= lo /\ hi <= x.max
              /\ x.min # lo => t.haveMinMax /\ x.min = t.min
              /\ x.max # hi => t.haveMinMax /\ x.max = t.max
              /\ t.haveMinMax => x.min <= t.min /\ t.max <= x.max
<1> DEFINE x == Extended(t, lo, hi)
           a == IF t.haveMinMax THEN Min({t.min, lo}) ELSE lo
           b == IF t.haveMinMax THEN Max({t.max, hi}) ELSE hi
<1>1. lo \in Int /\ hi \in Int /\ (t.haveMinMax => t.min \in Int /\ t.max \in Int)
  BY NumbersAreIntegers
<1>2. /\ a \in Numbers /\ b \in Numbers
      /\ a <= lo /\ hi <= b
      /\ a # lo => t.haveMinMax /\ a = t.min
      /\ b # hi => t.haveMinMax /\ b = t.max
      /\ t.haveMinMax => a <= t.min /\ t.max <= b
  <2>1. CASE t.haveMinMax
    <3>1. a = IF t.min <= lo THEN t.min ELSE lo
      BY <1>1, <2>1, LesserGreater
    <3>2. b = IF t.max <= hi THEN hi ELSE t.max
      BY <1>1, <2>1, LesserGreater
    <3> HIDE DEF a, b
    <3> QED BY <1>1, <2>1, <3>1, <3>2
  <2>2. CASE ~t.haveMinMax
    <3>1. a = lo /\ b = hi
      BY <2>2
    <3> HIDE DEF a, b
    <3> QED BY <1>1, <2>2, <3>1
  <2> QED BY <2>1, <2>2
<1>3. x = [t EXCEPT !.min = a, !.max = b, !.haveMinMax = TRUE]
  BY DEF Extended
<1> HIDE DEF a, b, x
<1>4. x \in DigestType
  BY <1>2, <1>3 DEF DigestType
<1>5. /\ x.centroids = t.centroids /\ x.buffer = t.buffer /\ x.haveMinMax
      /\ x.min = a /\ x.max = b
  BY <1>3 DEF DigestType
<1> QED BY <1>2, <1>4, <1>5 DEF x

LEMMA PointsInOrder ==
    \A v, w \in Int : v <= w => AtMost(Point(v), Point(w))
<1>1. ASSUME NEW v \in Int, NEW w \in Int, v <= w
      PROVE  AtMost(Point(v), Point(w))
  <2>1. v * 1 = v /\ w * 1 = w
    OBVIOUS
  <2> QED BY <1>1, <2>1, PointType, AtMostMeans
<1> QED BY <1>1

\* Wider bounds.
LEMMA Widened ==
    ASSUME NEW c \in Seq(Points), NEW p \in Points, NEW q \in Points,
           NEW p1 \in Points, NEW q1 \in Points,
           Bounded(c, p, q), AtMost(p1, p), AtMost(q, q1)
    PROVE  Bounded(c, p1, q1)
<1>1. ASSUME NEW k \in 1 .. Len(c)
      PROVE  AtMost(p1, c[k]) /\ AtMost(c[k], q1)
  <2>1. c[k] \in Points /\ AtMost(p, c[k]) /\ AtMost(c[k], q)
    BY DEF Bounded
  <2> QED BY <2>1, AtMostTransitive
<1> QED BY <1>1 DEF Bounded

\* The points of a digest lie between any bounds of its extremes.
LEMMA PointsBounded ==
    ASSUME NEW t \in DigestType, NEW f \in Counts, StandsFor(t, f),
           NEW lo \in Int, NEW hi \in Int,
           t.haveMinMax => lo <= t.min /\ t.max <= hi
    PROVE  Bounded(PointsOf(t), Point(lo), Point(hi))
<1>1. PointsOf(t) \in Seq(Points) /\ Point(lo) \in Points /\ Point(hi) \in Points
  BY DigestPoints, PointType
<1>2. CASE t.haveMinMax
  <2>1. t.min \in Int /\ t.max \in Int /\ Bounded(PointsOf(t), Point(t.min), Point(t.max))
    BY <1>2, NumbersAreIntegers DEF StandsFor, Extremes
  <2>2. AtMost(Point(lo), Point(t.min)) /\ AtMost(Point(t.max), Point(hi))
    BY <1>2, <2>1, PointsInOrder
  <2>3. Point(t.min) \in Points /\ Point(t.max) \in Points
    BY <2>1, PointType
  <2> QED BY <1>1, <2>1, <2>2, <2>3, Widened
<1>3. CASE ~t.haveMinMax
  <2>1. \A v \in Numbers : f[v] = 0
    <3>1. \A v \in Numbers : f[v] \in Nat /\ ~(f[v] > 0)
      BY <1>3 DEF StandsFor, Extremes, Counts
    <3> QED BY <3>1
  <2>2. Weight(PointsOf(t)) = 0
    BY <2>1, CountTypes DEF StandsFor
  <2>3. PointsOf(t) = <<>> /\ Len(<<>>) = 0
    BY <1>1, <2>2, NoWeight
  <2> QED BY <2>3 DEF Bounded
<1> QED BY <1>2, <1>3

-----------------------------------------------------------------------------
(* The operations on one digest. *)

LEMMA NewStands ==
    LET f == [v \in Numbers |-> 0]
    IN /\ f \in Counts /\ CountOf(f) = 0
       /\ NewTDigest \in DigestType /\ StandsFor(NewTDigest, f) /\ WellFormed(NewTDigest)
<1> DEFINE f == [v \in Numbers |-> 0]
           t == NewTDigest
<1>1. f \in Counts /\ \A v \in Numbers : f[v] = 0
  BY DEF Counts
<1> HIDE DEF f
<1>2. CountOf(f) = 0
  BY <1>1, CountTypes
<1>3. TotalOf(f) = 0
  <2> DEFINE F == [v \in Numbers |-> v * f[v]]
  <2>1. \A v \in Numbers : F[v] = 0
    <3>1. \A x \in Int : x * 0 = 0
      OBVIOUS
    <3> QED BY <1>1, <3>1, NumbersAreIntegers
  <2> HIDE DEF F
  <2>2. \A v \in Numbers : F[v] \in Int /\ F[v] = F[v] + F[v]
    BY <2>1
  <2>3. SumFunctionOnSet(F, Numbers) = SumFunctionOnSet(F, Numbers) + SumFunctionOnSet(F, Numbers)
    BY <2>2, NumbersAreIntegers, SumAdds
  <2>4. SumFunctionOnSet(F, Numbers) \in Int
    BY <2>2, NumbersAreIntegers, SumPicks
  <2>5. \A x \in Int : x = x + x => x = 0
    OBVIOUS
  <2> QED BY <2>3, <2>4, <2>5 DEF TotalOf, F
<1>4. /\ t \in DigestType /\ t.centroids = <<>> /\ t.buffer = <<>> /\ t.haveMinMax = FALSE
      /\ Len(<<>>) = 0
  <2>1. <<>> \in Seq(Points) /\ <<>> \in Seq(Numbers)
    OBVIOUS
  <2> QED BY <2>1 DEF NewTDigest, DigestType
<1> HIDE DEF t
<1>5. Weight(PointsOf(t)) = 0 /\ Sum(PointsOf(t)) = 0
  <2>1. /\ Weight(PointsOf(t)) = Weight(t.centroids) + Len(t.buffer)
        /\ Sum(PointsOf(t)) = Sum(t.centroids) + SumFunction(t.buffer)
    BY <1>4, DigestPoints
  <2>2. /\ Weight(t.centroids) = 0 /\ Len(t.buffer) = 0
        /\ Sum(t.centroids) = 0 /\ SumFunction(t.buffer) = 0
    BY <1>4, WeightAdds, SumOfShort
  <2> QED BY <2>1, <2>2
<1>6. StandsFor(t, f)
  BY <1>1, <1>2, <1>3, <1>4, <1>5 DEF StandsFor, Extremes
<1>7. WellFormed(t)
  BY <1>4 DEF WellFormed, InOrder, Apart
<1> QED BY <1>1, <1>2, <1>4, <1>6, <1>7 DEF f, t

\* One point more between bounds.
LEMMA BoundedAppend ==
    ASSUME NEW c \in Seq(Points), NEW r \in Points, NEW p, NEW q,
           Bounded(c, p, q), AtMost(p, r), AtMost(r, q)
    PROVE  Bounded(Append(c, r), p, q)
<1>1. /\ Len(Append(c, r)) = Len(c) + 1 /\ Len(c) \in Nat /\ Append(c, r)[Len(c) + 1] = r
      /\ \A k \in 1 .. Len(c) : Append(c, r)[k] = c[k]
  BY AppendWeights
<1>2. ASSUME NEW k \in 1 .. Len(Append(c, r))
      PROVE  AtMost(p, Append(c, r)[k]) /\ AtMost(Append(c, r)[k], q)
  <2>1. CASE k = Len(c) + 1
    BY <1>1, <2>1
  <2>2. CASE k # Len(c) + 1
    <3>1. k \in 1 .. Len(c)
      BY <1>1, <2>2
    <3> QED BY <1>1, <3>1 DEF Bounded
  <2> QED BY <2>1, <2>2
<1> QED BY <1>2 DEF Bounded

\* A digest that buffers one value more.
WithValue(t, v) == [Extended(t, v, v) EXCEPT !.buffer = Append(@, v)]

LEMMA AddStands ==
    ASSUME NEW t \in DigestType, NEW f \in Counts, StandsFor(t, f), NEW v \in Numbers
    PROVE  LET x == WithValue(t, v)
           IN /\ x \in DigestType /\ x.centroids = t.centroids
              /\ x.buffer = Append(t.buffer, v)
              /\ StandsFor(x, [f EXCEPT ![v] = @ + 1])
<1> DEFINE y == Extended(t, v, v)
           x == WithValue(t, v)
           g == [f EXCEPT ![v] = @ + 1]
<1>1. v \in Int
  BY NumbersAreIntegers
<1>2. t.haveMinMax => t.min \in Numbers /\ t.max \in Numbers
  BY DEF StandsFor, Extremes
<1>3. /\ y \in DigestType /\ y.centroids = t.centroids /\ y.buffer = t.buffer
      /\ y.haveMinMax /\ y.min \in Numbers /\ y.max \in Numbers
      /\ y.min <= v /\ v <= y.max
      /\ y.min # v => t.haveMinMax /\ y.min = t.min
      /\ y.max # v => t.haveMinMax /\ y.max = t.max
      /\ t.haveMinMax => y.min <= t.min /\ t.max <= y.max
  BY <1>2, ExtendedFields
<1>4. x = [y EXCEPT !.buffer = Append(@, v)]
  BY DEF WithValue
<1>5. t.buffer \in Seq(Numbers) /\ Append(t.buffer, v) \in Seq(Numbers)
  BY DEF DigestType
<1> HIDE DEF y, x
<1>6. /\ x \in DigestType /\ x.centroids = t.centroids /\ x.buffer = Append(t.buffer, v)
      /\ x.haveMinMax /\ x.min = y.min /\ x.max = y.max
  BY <1>3, <1>4, <1>5 DEF DigestType
<1>7. /\ g \in Counts /\ CountOf(g) = CountOf(f) + 1 /\ TotalOf(g) = TotalOf(f) + v
      /\ \A w \in Numbers : g[w] > 0 <=> w = v \/ f[w] > 0
  BY CountOneMore
<1> HIDE DEF g
<1>8. PointsOf(x) = Append(PointsOf(t), Point(v))
  <2> DEFINE b == t.buffer
  <2>1. b \in Seq(Int) /\ b \in Seq(Numbers)
    BY DigestPoints
  <2> HIDE DEF b
  <2>2. Singles(Append(b, v)) = Append(Singles(b), Point(v))
    BY <1>1, <2>1 DEF Singles
  <2>3. Singles(b) \in Seq(Points) /\ t.centroids \in Seq(Points) /\ Point(v) \in Points
    BY <1>1, <2>1, SinglesAdd, PointType DEF DigestType
  <2>4. \A c, s \in Seq(Points), p \in Points : c \o Append(s, p) = Append(c \o s, p)
    OBVIOUS
  <2>5. PointsOf(x) = t.centroids \o Append(Singles(b), Point(v))
    BY <1>6, <2>2 DEF PointsOf, b
  <2>6. PointsOf(t) = t.centroids \o Singles(b)
    BY DEF PointsOf, b
  <2> QED BY <2>3, <2>4, <2>5, <2>6
<1>9. PointsOf(t) \in Seq(Points) /\ Point(v) \in Points /\ Point(v).sum = v /\ Point(v).weight = 1
  BY <1>1, DigestPoints, PointType
<1>10. Weight(PointsOf(x)) = CountOf(g) /\ Sum(PointsOf(x)) = TotalOf(g)
  BY <1>7, <1>8, <1>9, AppendWeights DEF StandsFor
<1>11. Bounded(PointsOf(x), Point(x.min), Point(x.max))
  <2>1. x.min \in Int /\ x.max \in Int
    BY <1>3, <1>6, NumbersAreIntegers
  <2>2. Bounded(PointsOf(t), Point(x.min), Point(x.max))
    BY <1>3, <1>6, <2>1, PointsBounded
  <2>3. AtMost(Point(x.min), Point(v)) /\ AtMost(Point(v), Point(x.max))
    BY <1>1, <1>3, <1>6, <2>1, PointsInOrder
  <2> QED BY <1>8, <1>9, <2>2, <2>3, BoundedAppend
<1>12. Extremes(x, g)
  <2>1. \E w \in Numbers : g[w] > 0
    BY <1>7
  <2>2. {x.min, x.max} \subseteq {w \in Numbers : g[w] > 0}
    BY <1>3, <1>6, <1>7 DEF StandsFor, Extremes
  <2>3. ASSUME NEW w \in Numbers, g[w] > 0
        PROVE  x.min <= w /\ w <= x.max
    <3>1. CASE w = v
      BY <1>3, <1>6, <3>1
    <3>2. CASE w # v
      <4>1. t.haveMinMax /\ t.min <= w /\ w <= t.max
        BY <1>7, <2>3, <3>2 DEF StandsFor, Extremes
      <4>2. /\ x.min <= t.min /\ t.max <= x.max
            /\ t.min \in Int /\ t.max \in Int /\ w \in Int /\ x.min \in Int /\ x.max \in Int
        BY <1>2, <1>3, <1>6, <4>1, NumbersAreIntegers
      <4> QED BY <4>1, <4>2
    <3> QED BY <3>1, <3>2
  <2> QED BY <1>6, <1>11, <2>1, <2>2, <2>3 DEF Extremes
<1> QED BY <1>6, <1>10, <1>12 DEF StandsFor, x, g

\* Without a buffer, the centroids are the points.
LEMMA FlushedPoints ==
    ASSUME NEW t \in DigestType, t.buffer = <<>>
    PROVE  PointsOf(t) = t.centroids
<1>1. /\ PointsOf(t) = t.centroids \o Singles(t.buffer)
      /\ t.centroids \in Seq(Points)
      /\ Singles(t.buffer) \in Seq(Points) /\ Len(Singles(t.buffer)) = Len(t.buffer)
  BY DigestPoints, SinglesAdd
<1>2. Len(<<>>) = 0
  OBVIOUS
<1> DEFINE e == Singles(t.buffer)
<1>3. e \in Seq(Points) /\ Len(e) = 0 /\ PointsOf(t) = t.centroids \o e
  BY <1>1, <1>2
<1> HIDE DEF e
<1>4. e = <<>>
  BY <1>3
<1>5. \A c \in Seq(Points) : c \o <<>> = c
  OBVIOUS
<1> QED BY <1>1, <1>3, <1>4, <1>5

LEMMA CompressStands ==
    ASSUME NEW t \in DigestType, NEW f \in Counts, StandsFor(t, f), CountOf(f) <= MaxPoints,
           NEW u \in Compressed(t)
    PROVE  u \in DigestType /\ u.buffer = <<>> /\ StandsFor(u, f) /\ WellFormed(u)
<1>1. Folded(t, u)
  BY CompressFolds
<1>2. u \in DigestType /\ u.buffer = <<>> /\ PointsOf(u) = u.centroids
  BY <1>1, FlushedPoints DEF Folded
<1>3. Weight(PointsOf(u)) = CountOf(f) /\ Sum(PointsOf(u)) = TotalOf(f)
  BY <1>1, <1>2 DEF Folded, StandsFor
<1>4. WellFormed(u)
  BY <1>1 DEF Folded, StandsFor, WellFormed
<1>5. u.haveMinMax => Bounded(PointsOf(u), Point(u.min), Point(u.max))
  <2>1. SUFFICES ASSUME t.haveMinMax
                 PROVE  Bounded(u.centroids, Point(t.min), Point(t.max))
    BY <1>1, <1>2 DEF Folded
  <2>2. t.min \in Int /\ t.max \in Int /\ Bounded(PointsOf(t), Point(t.min), Point(t.max))
    BY <2>1, NumbersAreIntegers DEF StandsFor, Extremes
  <2> QED BY <1>1, <2>2, PointType DEF Folded
<1>6. Extremes(u, f)
  BY <1>1, <1>5 DEF Folded, StandsFor, Extremes
<1> QED BY <1>2, <1>3, <1>4, <1>6 DEF StandsFor

LEMMA FlushStands ==
    ASSUME NEW t \in DigestType, NEW f \in Counts, StandsFor(t, f), WellFormed(t),
           CountOf(f) <= MaxPoints, NEW u \in FlushPending(t)
    PROVE  u \in DigestType /\ u.buffer = <<>> /\ StandsFor(u, f) /\ WellFormed(u)
<1>1. CASE t.buffer = <<>>
  BY <1>1 DEF FlushPending
<1>2. CASE t.buffer # <<>>
  BY <1>2, CompressStands DEF FlushPending
<1> QED BY <1>1, <1>2

LEMMA MergeStands ==
    ASSUME NEW t \in DigestType, t.buffer = <<>>, NEW f \in Counts, StandsFor(t, f),
           NEW u \in DigestType, u.buffer = <<>>, NEW g \in Counts, StandsFor(u, g)
    PROVE  LET m == Merged(t, u)
           IN /\ m \in DigestType /\ m.buffer = <<>>
              /\ m.centroids = t.centroids \o u.centroids
              /\ StandsFor(m, [v \in Numbers |-> f[v] + g[v]])
<1> DEFINE y == IF u.haveMinMax THEN Extended(t, u.min, u.max) ELSE t
           m == Merged(t, u)
           h == [v \in Numbers |-> f[v] + g[v]]
<1>1. t.haveMinMax => t.min \in Numbers /\ t.max \in Numbers
  BY DEF StandsFor, Extremes
<1>2. u.haveMinMax => u.min \in Numbers /\ u.max \in Numbers
  BY DEF StandsFor, Extremes
<1>3. /\ y \in DigestType /\ y.centroids = t.centroids /\ y.buffer = t.buffer
      /\ y.haveMinMax <=> t.haveMinMax \/ u.haveMinMax
      /\ u.haveMinMax =>
            /\ y.min \in Numbers /\ y.max \in Numbers
            /\ y.min <= u.min /\ u.max <= y.max
            /\ y.min # u.min => t.haveMinMax /\ y.min = t.min
            /\ y.max # u.max => t.haveMinMax /\ y.max = t.max
            /\ t.haveMinMax => y.min <= t.min /\ t.max <= y.max
      /\ ~u.haveMinMax => y.min = t.min /\ y.max = t.max
  <2>1. CASE u.haveMinMax
    <3>1. y = Extended(t, u.min, u.max)
      BY <2>1
    <3> HIDE DEF y
    <3> QED BY <1>1, <1>2, <2>1, <3>1, ExtendedFields
  <2>2. CASE ~u.haveMinMax
    BY <2>2
  <2> QED BY <2>1, <2>2
<1>4. m = [y EXCEPT !.centroids = @ \o u.centroids]
  BY DEF Merged
<1>5. /\ t.centroids \in Seq(Points) /\ u.centroids \in Seq(Points)
      /\ t.centroids \o u.centroids \in Seq(Points)
  BY DEF DigestType
<1> HIDE DEF y, m
<1>6. /\ m \in DigestType /\ m.centroids = t.centroids \o u.centroids /\ m.buffer = <<>>
      /\ m.haveMinMax = y.haveMinMax /\ m.min = y.min /\ m.max = y.max
  BY <1>3, <1>4, <1>5 DEF DigestType
<1>7. PointsOf(t) = t.centroids /\ PointsOf(u) = u.centroids
  BY FlushedPoints
<1>8. PointsOf(m) = PointsOf(t) \o PointsOf(u)
  BY <1>6, <1>7, FlushedPoints
<1>9. /\ h \in Counts /\ CountOf(h) = CountOf(f) + CountOf(g) /\ TotalOf(h) = TotalOf(f) + TotalOf(g)
      /\ \A w \in Numbers : h[w] > 0 <=> f[w] > 0 \/ g[w] > 0
  BY CountBoth
<1> HIDE DEF h
<1>10. Weight(PointsOf(m)) = CountOf(h) /\ Sum(PointsOf(m)) = TotalOf(h)
  BY <1>5, <1>7, <1>8, <1>9, WeightAdds DEF StandsFor
<1>11. ASSUME m.haveMinMax
       PROVE  /\ m.min \in Numbers /\ m.max \in Numbers
              /\ t.haveMinMax => m.min <= t.min /\ t.max <= m.max
              /\ u.haveMinMax => m.min <= u.min /\ u.max <= m.max
  <2>1. CASE u.haveMinMax
    BY <1>3, <1>6, <2>1
  <2>2. CASE ~u.haveMinMax
    <3>1. t.haveMinMax /\ m.min = t.min /\ m.max = t.max
      BY <1>3, <1>6, <1>11, <2>2
    <3>2. \A x \in Numbers : x <= x
      BY NumbersAreIntegers
    <3> QED BY <1>1, <2>2, <3>1, <3>2
  <2> QED BY <2>1, <2>2
<1>12. ASSUME m.haveMinMax
       PROVE  Bounded(PointsOf(m), Point(m.min), Point(m.max))
  <2>1. m.min \in Int /\ m.max \in Int
    BY <1>11, <1>12, NumbersAreIntegers
  <2>2. Bounded(PointsOf(t), Point(m.min), Point(m.max))
    BY <1>11, <1>12, <2>1, PointsBounded
  <2>3. Bounded(PointsOf(u), Point(m.min), Point(m.max))
    BY <1>11, <1>12, <2>1, PointsBounded
  <2> QED BY <1>5, <1>7, <1>8, <2>2, <2>3, BoundedParts
<1>13. m.haveMinMax <=> \E w \in Numbers : h[w] > 0
  BY <1>3, <1>6, <1>9 DEF StandsFor, Extremes
<1>14. ASSUME m.haveMinMax
       PROVE  {m.min, m.max} \subseteq {w \in Numbers : h[w] > 0}
  <2>1. /\ (m.min = u.min /\ u.haveMinMax) \/ (m.min = t.min /\ t.haveMinMax)
        /\ (m.max = u.max /\ u.haveMinMax) \/ (m.max = t.max /\ t.haveMinMax)
    BY <1>3, <1>6, <1>14
  <2>2. /\ u.haveMinMax => {u.min, u.max} \subseteq {w \in Numbers : h[w] > 0}
        /\ t.haveMinMax => {t.min, t.max} \subseteq {w \in Numbers : h[w] > 0}
    BY <1>9 DEF StandsFor, Extremes
  <2> QED BY <2>1, <2>2
<1>15. ASSUME m.haveMinMax, NEW w \in Numbers, h[w] > 0
       PROVE  m.min <= w /\ w <= m.max
  <2>1. \/ t.haveMinMax /\ t.min <= w /\ w <= t.max
        \/ u.haveMinMax /\ u.min <= w /\ w <= u.max
    BY <1>9, <1>15 DEF StandsFor, Extremes
  <2>2. \A x, y1, z \in Numbers : x <= y1 /\ y1 <= z => x <= z
    BY NumbersAreIntegers
  <2> QED BY <1>1, <1>2, <1>11, <1>15, <2>1, <2>2
<1>16. Extremes(m, h)
  BY <1>12, <1>13, <1>14, <1>15 DEF Extremes
<1> QED BY <1>6, <1>10, <1>16 DEF StandsFor, m, h

-----------------------------------------------------------------------------
(* Counts over digests. *)

AllCounts == [Digests -> Counts]

LEMMA CountOverTypes ==
    ASSUME NEW g \in AllCounts, NEW D \in SUBSET Digests
    PROVE  /\ CountOver(D, g) \in Nat
           /\ \A d \in D : CountOf(g[d]) <= CountOver(D, g)
           /\ SumFunction([e \in D |-> SumFunction(g[e])]) = CountOver(D, g)
<1> DEFINE F == [e \in Digests |-> CountOf(g[e])]
           G == [e \in D |-> SumFunction(g[e])]
<1>1. IsFiniteSet(D)
  BY TDigestAssumption, FS_Subset
<1>2. \A e \in D : F[e] \in Nat /\ F[e] = CountOf(g[e])
  BY CountTypes DEF AllCounts
<1>3. \A e \in D : G[e] = CountOf(g[e])
  <2>1. \A e \in D : DOMAIN g[e] = Numbers
    BY DEF AllCounts, Counts
  <2> QED BY <2>1 DEF SumFunction, CountOf
<1>4. CountOver(D, g) = SumFunctionOnSet(F, D)
  BY DEF CountOver
<1>5. SumFunction(G) = SumFunctionOnSet(G, D)
  BY DEF SumFunction
<1> HIDE DEF F, G
<1>6. SumFunctionOnSet(F, D) \in Nat /\ \A e \in D : F[e] <= SumFunctionOnSet(F, D)
  BY <1>1, <1>2, SumOfNaturals
<1>7. \A e \in D : F[e] \in Int /\ F[e] = G[e]
  BY <1>2, <1>3
<1>8. SumFunctionOnSet(F, D) = SumFunctionOnSet(G, D)
  BY <1>1, <1>7, SumAgree
<1> QED BY <1>2, <1>4, <1>5, <1>6, <1>8 DEF G

\* One digest counts otherwise than before.
LEMMA CountOverChanges ==
    ASSUME NEW g \in AllCounts, NEW D \in SUBSET Digests, NEW d \in D, NEW f \in Counts
    PROVE  LET h == [g EXCEPT ![d] = f]
           IN h \in AllCounts /\ CountOver(D, h) = CountOver(D, g) + (CountOf(f) - CountOf(g[d]))
<1> DEFINE h == [g EXCEPT ![d] = f]
           F == [e \in Digests |-> CountOf(g[e])]
           H == [e \in Digests |-> CountOf(h[e])]
<1>1. IsFiniteSet(D)
  BY TDigestAssumption, FS_Subset
<1>2. h \in AllCounts /\ \A e \in Digests : h[e] = IF e = d THEN f ELSE g[e]
  BY DEF AllCounts
<1>3. CountOver(D, g) = SumFunctionOnSet(F, D) /\ CountOver(D, h) = SumFunctionOnSet(H, D)
  BY DEF CountOver
<1>4. \A e \in D : /\ F[e] = CountOf(g[e]) /\ H[e] = CountOf(h[e])
                   /\ g[e] \in Counts /\ h[e] \in Counts
  BY <1>2 DEF AllCounts
<1> HIDE DEF F, H, h
<1>5. DifferAt(F, H, D, d)
  <2>1. \A e \in D : CountOf(g[e]) \in Int /\ CountOf(h[e]) \in Int
    <3>1. \A c \in Counts : CountOf(c) \in Int
      BY CountTypes
    <3> QED BY <1>4, <3>1
  <2> QED BY <1>2, <1>4, <2>1 DEF DifferAt
<1>6. SumDiffers(F, H, D, d)
  BY <1>1, <1>5, SumChanges
<1>7. H[d] = CountOf(f) /\ F[d] = CountOf(g[d])
  BY <1>2, <1>4
<1> QED BY <1>2, <1>3, <1>6, <1>7 DEF SumDiffers, h

\* One digest is left out.
LEMMA CountOverRemoves ==
    ASSUME NEW g \in AllCounts, NEW D \in SUBSET Digests, NEW o \in D
    PROVE  CountOver(D, g) = CountOf(g[o]) + CountOver(D \ {o}, g)
<1> DEFINE F == [e \in Digests |-> CountOf(g[e])]
<1>1. IsFiniteSet(D)
  BY TDigestAssumption, FS_Subset
<1>2. F[o] = CountOf(g[o]) /\ \A e \in D : F[e] \in Int
  BY CountTypes DEF AllCounts
<1>3. CountOver(D, g) = SumFunctionOnSet(F, D) /\ CountOver(D \ {o}, g) = SumFunctionOnSet(F, D \ {o})
  BY DEF CountOver
<1> HIDE DEF F
<1> QED BY <1>1, <1>2, <1>3, SumRemove

-----------------------------------------------------------------------------
(* The invariant is inductive. *)

\* The digests and what they were given, one after a step.
LEMMA TakenBounded ==
    ASSUME NEW g \in AllCounts, NEW D \in SUBSET Digests, CountOver(D, g) <= MaxPoints
    PROVE  \A d \in D : g[d] \in [Numbers -> 0 .. MaxPoints] /\ CountOf(g[d]) <= MaxPoints
<1>1. ASSUME NEW d \in D
      PROVE  g[d] \in [Numbers -> 0 .. MaxPoints] /\ CountOf(g[d]) <= MaxPoints
  <2>1. g[d] \in Counts /\ CountOf(g[d]) \in Nat /\ CountOver(D, g) \in Nat
        /\ CountOf(g[d]) <= CountOver(D, g) /\ MaxPoints \in Nat
    BY CountOverTypes, CountTypes, TDigestAssumption DEF AllCounts
  <2>2. CountOf(g[d]) <= MaxPoints
    BY <2>1
  <2>3. ASSUME NEW v \in Numbers
        PROVE  g[d][v] \in 0 .. MaxPoints
    <3>1. g[d][v] \in Nat /\ g[d][v] <= CountOf(g[d])
      BY <2>1, CountTypes
    <3> QED BY <2>1, <2>2, <3>1
  <2> QED BY <2>1, <2>2, <2>3 DEF Counts
<1> QED BY <1>1

LEMMA TypedCounts ==
    ASSUME DigestTyped
    PROVE  taken \in AllCounts /\ live \in SUBSET Digests /\ \A d \in Digests : taken[d] \in Counts
BY TDigestAssumption DEF DigestTyped, AllCounts, Counts

LEMMA DigestInitHolds ==
    ASSUME DigestInit
    PROVE  DigestIInv
<1> DEFINE f == [v \in Numbers |-> 0]
<1>1. /\ f \in Counts /\ CountOf(f) = 0
      /\ NewTDigest \in DigestType /\ StandsFor(NewTDigest, f) /\ WellFormed(NewTDigest)
  BY NewStands
<1>2. /\ \A d \in Digests : dig[d] = NewTDigest /\ taken[d] = f
      /\ dig = [d \in Digests |-> NewTDigest] /\ live = Digests
      /\ taken = [d \in Digests |-> f]
  BY DEF DigestInit
<1>3. f \in [Numbers -> 0 .. MaxPoints]
  BY TDigestAssumption
<1> HIDE DEF f
<1>4. DigestTyped
  <2>1. Len(<<>>) = 0 /\ 0 < BufferCap
    BY TDigestAssumption
  <2>2. NewTDigest.buffer = <<>>
    BY DEF NewTDigest
  <2> QED BY <1>1, <1>2, <1>3, <2>1, <2>2 DEF DigestTyped
<1>5. CountOver(live, taken) <= MaxPoints
  <2> DEFINE F == [e \in Digests |-> CountOf(taken[e])]
  <2>1. \A e \in Digests : F[e] \in Int /\ F[e] = F[e] + F[e]
    BY <1>1, <1>2
  <2>2. CountOver(live, taken) = SumFunctionOnSet(F, Digests)
    BY <1>2 DEF CountOver
  <2> HIDE DEF F
  <2>3. IsFiniteSet(Digests)
    BY TDigestAssumption
  <2>4. SumFunctionOnSet(F, Digests) = SumFunctionOnSet(F, Digests) + SumFunctionOnSet(F, Digests)
    BY <2>1, <2>3, SumAdds
  <2>5. SumFunctionOnSet(F, Digests) \in Int
    BY <2>1, <2>3, SumPicks
  <2>6. \A x \in Int : x = x + x => x = 0
    OBVIOUS
  <2> QED BY <2>2, <2>4, <2>5, <2>6, TDigestAssumption
<1>6. \A d \in live : StandsFor(dig[d], taken[d]) /\ WellFormed(dig[d])
  BY <1>1, <1>2
<1> QED BY <1>4, <1>5, <1>6 DEF DigestIInv

\* What becomes of a digest whose buffer may be full.
LEMMA BufferedStands ==
    ASSUME NEW t \in DigestType, NEW f \in Counts, StandsFor(t, f), WellFormed(t),
           CountOf(f) <= MaxPoints, NEW u \in Buffered(t)
    PROVE  u \in DigestType /\ StandsFor(u, f) /\ WellFormed(u) /\ Len(u.buffer) < BufferCap
<1>1. Len(<<>>) = 0 /\ BufferCap \in Nat /\ 0 < BufferCap
  BY TDigestAssumption
<1>2. CASE Len(t.buffer) >= BufferCap
  <2>1. u \in Compressed(t)
    BY <1>2 DEF Buffered
  <2> QED BY <1>1, <2>1, CompressStands
<1>3. CASE ~(Len(t.buffer) >= BufferCap)
  <2>1. u = t
    BY <1>3 DEF Buffered
  <2>2. Len(t.buffer) \in Nat
    BY DEF DigestType
  <2> QED BY <1>1, <1>3, <2>1, <2>2
<1> QED BY <1>2, <1>3

\* A digest takes in a value.
LEMMA AddKeeps ==
    ASSUME DigestIInv, NEW d \in Digests, NEW v \in Vals, Add(d, v)
    PROVE  DigestIInv'
<1>1. d \in live /\ live' = live
  BY DEF Add
<1>2. taken \in AllCounts /\ live \in SUBSET Digests /\ taken[d] \in Counts
  BY TypedCounts DEF DigestIInv
<1>3. CASE v = NaN
  <2>1. dig' = dig /\ taken' = taken
    BY <1>3 DEF Add
  <2> QED BY <1>1, <2>1 DEF DigestIInv, DigestTyped
<1>4. CASE v # NaN
  <2> DEFINE t == dig[d]
             x == WithValue(t, v)
             f == [taken[d] EXCEPT ![v] = @ + 1]
  <2>1. v \in Numbers
    BY <1>4 DEF Numbers
  <2>2. PICK u \in Buffered(x) : dig' = [dig EXCEPT ![d] = u]
    BY <1>4 DEF Add, WithValue
  <2>3. taken' = [taken EXCEPT ![d] = f]
    BY <1>4 DEF Add
  <2>4. CountOver(live, taken) < MaxPoints
    BY <1>2, CountOverTypes DEF Add
  <2>5. t \in DigestType /\ StandsFor(t, taken[d]) /\ WellFormed(t)
    BY <1>1 DEF DigestIInv, DigestTyped
  <2>6. f \in Counts /\ CountOf(f) = CountOf(taken[d]) + 1
    BY <1>2, <2>1, CountOneMore
  <2> HIDE DEF f
  <2>7. taken' \in AllCounts /\ CountOver(live, taken') = CountOver(live, taken) + 1
    <3>1. /\ taken' \in AllCounts
          /\ CountOver(live, taken') = CountOver(live, taken) + (CountOf(f) - CountOf(taken[d]))
      BY <1>1, <1>2, <2>3, <2>6, CountOverChanges
    <3>2. CountOf(taken[d]) \in Nat
      BY <1>2, CountTypes
    <3>3. CountOf(f) - CountOf(taken[d]) = 1
      BY <2>6, <3>2
    <3> QED BY <3>1, <3>3
  <2>8. CountOver(live, taken') <= MaxPoints
    <3>1. CountOver(live, taken) \in Nat /\ MaxPoints \in Nat
      BY <1>2, CountOverTypes, TDigestAssumption
    <3> QED BY <2>4, <2>7, <3>1
  <2>9. f \in [Numbers -> 0 .. MaxPoints] /\ CountOf(f) <= MaxPoints
    <3>1. taken'[d] = f
      BY <1>2, <2>3 DEF AllCounts
    <3> QED BY <1>1, <1>2, <2>7, <2>8, <3>1, TakenBounded
  <2>10. /\ x \in DigestType /\ x.centroids = t.centroids
         /\ x.buffer = Append(t.buffer, v) /\ StandsFor(x, f)
    BY <1>2, <2>1, <2>5, AddStands DEF f
  <2> HIDE DEF t, x
  <2>11. u \in DigestType /\ StandsFor(u, f) /\ WellFormed(u) /\ Len(u.buffer) < BufferCap
    <3>1. WellFormed(x)
      BY <2>5, <2>10 DEF WellFormed
    <3> QED BY <2>2, <2>6, <2>9, <2>10, <3>1, BufferedStands
  <2>12. DigestTyped'
    BY <1>1, <1>2, <2>2, <2>3, <2>9, <2>11 DEF DigestIInv, DigestTyped
  <2>13. \A e \in live' : StandsFor(dig'[e], taken'[e]) /\ WellFormed(dig'[e])
    BY <1>1, <1>2, <2>2, <2>3, <2>11 DEF DigestIInv, DigestTyped
  <2> QED BY <1>1, <2>8, <2>12, <2>13 DEF DigestIInv
<1> QED BY <1>3, <1>4

\* A digest is read.
LEMMA ReadKeeps ==
    ASSUME DigestIInv, NEW d \in Digests, Read(d)
    PROVE  DigestIInv'
<1>1. d \in live /\ live' = live /\ taken' = taken
  BY DEF Read
<1>2. taken \in AllCounts /\ live \in SUBSET Digests /\ taken[d] \in Counts
  BY TypedCounts DEF DigestIInv
<1>3. PICK u \in FlushPending(dig[d]) : dig' = [dig EXCEPT ![d] = u]
  BY DEF Read
<1>4. dig[d] \in DigestType /\ StandsFor(dig[d], taken[d]) /\ WellFormed(dig[d])
  BY <1>1 DEF DigestIInv, DigestTyped
<1>5. CountOf(taken[d]) <= MaxPoints
  BY <1>1, <1>2, TakenBounded DEF DigestIInv
<1>6. u \in DigestType /\ u.buffer = <<>> /\ StandsFor(u, taken[d]) /\ WellFormed(u)
  BY <1>2, <1>3, <1>4, <1>5, FlushStands
<1>7. Len(u.buffer) < BufferCap
  <2>1. Len(<<>>) = 0 /\ 0 < BufferCap
    BY TDigestAssumption
  <2> QED BY <1>6, <2>1
<1>8. DigestTyped'
  BY <1>1, <1>3, <1>6, <1>7 DEF DigestIInv, DigestTyped
<1>9. \A e \in live' : StandsFor(dig'[e], taken'[e]) /\ WellFormed(dig'[e])
  BY <1>1, <1>3, <1>6 DEF DigestIInv, DigestTyped
<1> QED BY <1>1, <1>8, <1>9 DEF DigestIInv

\* A digest is merged into another.
LEMMA MergeKeeps ==
    ASSUME DigestIInv, NEW d \in Digests, NEW o \in Digests, Merge(d, o)
    PROVE  DigestIInv'
<1> DEFINE f == taken[d]
           g == taken[o]
           h == [v \in Numbers |-> f[v] + g[v]]
           rest == live \ {o}
<1>1. d \in live /\ o \in live /\ d # o /\ live' = rest
  BY DEF Merge
<1>2. /\ taken \in AllCounts /\ live \in SUBSET Digests
      /\ f \in Counts /\ g \in Counts
  BY TypedCounts DEF DigestIInv
<1>3. PICK t \in FlushPending(dig[d]), u \in FlushPending(dig[o]) :
         \E m \in Compressed(Merged(t, u)) : dig' = [dig EXCEPT ![d] = m, ![o] = u]
  BY DEF Merge
<1>4. PICK m \in Compressed(Merged(t, u)) : dig' = [dig EXCEPT ![d] = m, ![o] = u]
  BY <1>3
<1>5. taken' = [taken EXCEPT ![d] = h]
  BY DEF Merge
<1>6. CountOf(f) <= MaxPoints /\ CountOf(g) <= MaxPoints
  BY <1>1, <1>2, TakenBounded DEF DigestIInv
<1>7. t \in DigestType /\ t.buffer = <<>> /\ StandsFor(t, f) /\ WellFormed(t)
  <2>1. dig[d] \in DigestType /\ StandsFor(dig[d], f) /\ WellFormed(dig[d])
    BY <1>1 DEF DigestIInv, DigestTyped
  <2> HIDE DEF f
  <2> QED BY <1>2, <1>3, <1>6, <2>1, FlushStands
<1>8. u \in DigestType /\ u.buffer = <<>> /\ StandsFor(u, g) /\ WellFormed(u)
  <2>1. dig[o] \in DigestType /\ StandsFor(dig[o], g) /\ WellFormed(dig[o])
    BY <1>1 DEF DigestIInv, DigestTyped
  <2> HIDE DEF g
  <2> QED BY <1>2, <1>3, <1>6, <2>1, FlushStands
<1>9. Merged(t, u) \in DigestType /\ StandsFor(Merged(t, u), h)
  <2> HIDE DEF f, g
  <2> QED BY <1>2, <1>7, <1>8, MergeStands
<1>10. h \in Counts /\ CountOf(h) = CountOf(f) + CountOf(g)
  <2> HIDE DEF f, g
  <2> QED BY <1>2, CountBoth
<1> HIDE DEF h
<1>11. taken' \in AllCounts /\ CountOver(rest, taken') = CountOver(live, taken)
  <2>1. rest \in SUBSET Digests /\ d \in rest
    BY <1>1, <1>2
  <2>2. /\ taken' \in AllCounts
        /\ CountOver(rest, taken') = CountOver(rest, taken) + (CountOf(h) - CountOf(f))
    <3> HIDE DEF rest
    <3> QED BY <1>2, <1>5, <1>10, <2>1, CountOverChanges
  <2>3. CountOver(live, taken) = CountOf(g) + CountOver(rest, taken)
    BY <1>1, <1>2, CountOverRemoves
  <2>4. CountOf(f) \in Nat /\ CountOf(g) \in Nat /\ CountOver(rest, taken) \in Nat
    BY <1>2, <2>1, CountTypes, CountOverTypes
  <2> HIDE DEF f, g, rest
  <2> QED BY <1>10, <2>2, <2>3, <2>4
<1>12. CountOver(rest, taken') <= MaxPoints
  BY <1>11 DEF DigestIInv
<1>13. h \in [Numbers -> 0 .. MaxPoints] /\ CountOf(h) <= MaxPoints
  <2>1. taken'[d] = h /\ d \in rest /\ rest \in SUBSET Digests
    BY <1>1, <1>2, <1>5 DEF AllCounts
  <2> HIDE DEF rest
  <2> QED BY <1>11, <1>12, <2>1, TakenBounded
<1>14. m \in DigestType /\ m.buffer = <<>> /\ StandsFor(m, h) /\ WellFormed(m)
  BY <1>4, <1>9, <1>10, <1>13, CompressStands
<1>15. Len(m.buffer) < BufferCap /\ Len(u.buffer) < BufferCap
  <2>1. Len(<<>>) = 0 /\ 0 < BufferCap
    BY TDigestAssumption
  <2> QED BY <1>8, <1>14, <2>1
<1>16. DigestTyped'
  BY <1>1, <1>4, <1>5, <1>8, <1>13, <1>14, <1>15 DEF DigestIInv, DigestTyped
<1>17. \A e \in live' : StandsFor(dig'[e], taken'[e]) /\ WellFormed(dig'[e])
  <2>1. ASSUME NEW e \in live'
        PROVE  StandsFor(dig'[e], taken'[e]) /\ WellFormed(dig'[e])
    <3>1. e \in live /\ e # o /\ e \in Digests
      BY <1>1, <1>2, <2>1
    <3>2. CASE e = d
      <4>1. dig'[e] = m /\ taken'[e] = h
        BY <1>1, <1>4, <1>5, <3>2 DEF DigestIInv, DigestTyped
      <4> QED BY <1>14, <4>1
    <3>3. CASE e # d
      <4>1. dig'[e] = dig[e] /\ taken'[e] = taken[e]
        BY <1>4, <1>5, <3>1, <3>3 DEF DigestIInv, DigestTyped
      <4> QED BY <3>1, <4>1 DEF DigestIInv
    <3> QED BY <3>2, <3>3
  <2> QED BY <2>1
<1> QED BY <1>1, <1>12, <1>16, <1>17 DEF DigestIInv

THEOREM DigestInvariance == DigestSpec => []DigestIInv
<1>1. DigestInit => DigestIInv
  BY DigestInitHolds
<1>2. DigestIInv /\ [DigestNext]_digestVars => DigestIInv'
  <2> SUFFICES ASSUME DigestIInv, [DigestNext]_digestVars
               PROVE  DigestIInv'
    OBVIOUS
  <2>1. CASE \E d \in Digests, v \in Vals : Add(d, v)
    BY <2>1, AddKeeps
  <2>2. CASE \E d \in Digests : Read(d)
    BY <2>2, ReadKeeps
  <2>3. CASE \E d, o \in Digests : Merge(d, o)
    BY <2>3, MergeKeeps
  <2>4. CASE UNCHANGED digestVars
    BY <2>4 DEF digestVars, DigestIInv, DigestTyped
  <2> QED BY <2>1, <2>2, <2>3, <2>4 DEF DigestNext
<1> QED BY <1>1, <1>2, PTL DEF DigestSpec

\* Every digest is well typed: the buffer never reaches its capacity between two
\* operations, no centroid is without a point, and no count leaves the bound.
THEOREM DigestTypeCorrect == DigestSpec => []DigestTypeOK
<1>1. DigestIInv => DigestTypeOK
  <2> SUFFICES ASSUME DigestIInv
               PROVE  DigestTypeOK
    OBVIOUS
  <2>1. live \subseteq Digests /\ taken \in [Digests -> [Numbers -> 0 .. MaxPoints]]
    BY DEF DigestIInv, DigestTyped
  <2>2. ASSUME NEW d \in Digests
        PROVE  /\ dig[d].centroids \in Seq(Points)
               /\ dig[d].buffer \in Seq(Numbers) /\ Len(dig[d].buffer) < BufferCap
               /\ {dig[d].min, dig[d].max} \subseteq Numbers \cup {0}
               /\ dig[d].haveMinMax \in BOOLEAN
    <3>1. dig[d] \in DigestType /\ Len(dig[d].buffer) < BufferCap
      BY DEF DigestIInv, DigestTyped
    <3> QED BY <3>1 DEF DigestType
  <2> QED BY <2>1, <2>2 DEF DigestTypeOK, Points
<1> QED BY <1>1, DigestInvariance, PTL

\* The least and the greatest element of a set.
LEMMA ExtremeElements ==
    ASSUME NEW T \in SUBSET Int, NEW x \in T
    PROVE  /\ (\A y \in T : x <= y) => Min(T) = x
           /\ (\A y \in T : y <= x) => Max(T) = x
<1>1. ASSUME \A y \in T : x <= y
      PROVE  Min(T) = x
  <2>1. Min(T) \in T /\ \A y \in T : Min(T) <= y
    BY <1>1 DEF Min
  <2>2. Min(T) <= x /\ x <= Min(T) /\ x \in Int /\ Min(T) \in Int
    BY <1>1, <2>1
  <2> HIDE DEF Min
  <2> QED BY <2>2
<1>2. ASSUME \A y \in T : y <= x
      PROVE  Max(T) = x
  <2>1. \A y \in T : x >= y
    BY <1>2
  <2>2. Max(T) \in T /\ \A y \in T : Max(T) >= y
    BY <2>1 DEF Max
  <2>3. Max(T) >= x /\ x >= Max(T) /\ x \in Int /\ Max(T) \in Int
    BY <2>1, <2>2
  <2> HIDE DEF Max
  <2> QED BY <2>3
<1> QED BY <1>1, <1>2

\* However values are buffered, folded, read and merged, a digest stands for all the
\* values it was given: their number, their sum and their extremes.
THEOREM ValuesConserved == DigestSpec => []Conserved
<1>1. DigestIInv => Conserved
  <2> SUFFICES ASSUME DigestIInv, NEW d \in live
               PROVE  LET t == dig[d]
                          given == {v \in Numbers : taken[d][v] > 0}
                      IN /\ Weight(t.centroids) + Len(t.buffer) = SumFunction(taken[d])
                         /\ Sum(t.centroids) + SumFunction(t.buffer)
                               = SumFunction([v \in Numbers |-> v * taken[d][v]])
                         /\ t.haveMinMax = (given # {})
                         /\ given # {} => t.min = Min(given) /\ t.max = Max(given)
    BY DEF Conserved
  <2> DEFINE t == dig[d]
             f == taken[d]
             given == {v \in Numbers : f[v] > 0}
  <2>1. t \in DigestType /\ f \in Counts /\ StandsFor(t, f)
    BY TypedCounts DEF DigestIInv, DigestTyped
  <2> HIDE DEF t, f
  <2>2. /\ Weight(t.centroids) + Len(t.buffer) = CountOf(f)
        /\ Sum(t.centroids) + SumFunction(t.buffer) = TotalOf(f)
    BY <2>1, DigestPoints DEF StandsFor
  <2>3. CountOf(f) = SumFunction(f)
    <3>1. DOMAIN f = Numbers
      BY <2>1 DEF Counts
    <3> QED BY <3>1 DEF CountOf, SumFunction
  <2>4. TotalOf(f) = SumFunction([v \in Numbers |-> v * f[v]])
    BY DEF TotalOf, SumFunction
  <2>5. t.haveMinMax \in BOOLEAN /\ t.haveMinMax = (given # {})
    BY <2>1 DEF DigestType, StandsFor, Extremes
  <2>6. ASSUME given # {}
        PROVE  t.min = Min(given) /\ t.max = Max(given)
    <3>1. /\ t.min \in given /\ t.max \in given
          /\ \A v \in given : t.min <= v /\ v <= t.max
      BY <2>1, <2>5, <2>6 DEF StandsFor, Extremes
    <3>2. given \in SUBSET Int
      BY NumbersAreIntegers
    <3> HIDE DEF given
    <3> QED BY <3>1, <3>2, ExtremeElements
  <2> QED BY <2>2, <2>3, <2>4, <2>5, <2>6 DEF t, f
<1> QED BY <1>1, DigestInvariance, PTL

-----------------------------------------------------------------------------
(* The resolution of centroids. *)

\* The centroids of live digests, flushed or not.
LEMMA InClusters ==
    ASSUME NEW d \in live, NEW t \in FlushPending(dig[d]) \cup {dig[d]}, t \in DigestType
    PROVE  \A k \in 1 .. Len(t.centroids) : t.centroids[k] \in Clusters
<1> DEFINE T == UNION {FlushPending(dig[e]) \cup {dig[e]} : e \in live}
<1>1. t \in T
  OBVIOUS
<1>2. Clusters = UNION {Range(u.centroids) : u \in T}
  BY DEF Clusters
<1> HIDE DEF T
<1>3. \A x \in Range(t.centroids) : x \in Clusters
  BY <1>1, <1>2
<1>4. DOMAIN t.centroids = 1 .. Len(t.centroids)
  BY DEF DigestType
<1>5. \A k \in 1 .. Len(t.centroids) : t.centroids[k] \in Range(t.centroids)
  BY <1>4 DEF Range
<1> QED BY <1>3, <1>5

\* What compress leaves is resolved.
LEMMA FoldedResolved ==
    ASSUME NEW t \in DigestType, NEW u \in Compressed(t), NEW before,
           \A k \in 1 .. Len(t.centroids) : t.centroids[k] \in before,
           Weight(u.centroids) <= MaxPoints
    PROVE  Resolved(u.centroids, before)
<1> DEFINE n == Weight(u.centroids)
           c == u.centroids
<1>1. Folded(t, u)
  BY CompressFolds
<1>2. n = Weight(PointsOf(t))
  BY <1>1 DEF Folded
<1>3. Small(c, n, Whole(t.centroids)) /\ Apart(c, n)
  BY <1>1, <1>2 DEF Folded
<1>4. ASSUME NEW k \in 1 .. Len(c)
      PROVE  c[k].weight = 1 \/ c[k] \in before \/ Within(n, WeightTo(c, k - 1), WeightTo(c, k))
  <2>1. c[k] \in Whole(t.centroids) \/ Within(n, WeightTo(c, k - 1), WeightTo(c, k))
    BY <1>3 DEF Small
  <2>2. c[k] \in Whole(t.centroids) => c[k].weight = 1 \/ c[k] \in before
    BY DEF Whole
  <2> QED BY <2>1, <2>2
<1> QED BY <1>3, <1>4 DEF Resolved, Apart, WeightTo

\* The digests after a step.
LEMMA LiveWeights ==
    ASSUME NEW t \in DigestType, NEW f \in Counts, StandsFor(t, f), CountOf(f) <= MaxPoints
    PROVE  Weight(t.centroids) <= MaxPoints
<1>1. /\ Weight(t.centroids) + Len(t.buffer) = CountOf(f)
      /\ t.centroids \in Seq(Points) /\ t.buffer \in Seq(Numbers)
  BY DigestPoints DEF StandsFor
<1>2. Weight(t.centroids) \in Nat /\ Len(t.buffer) \in Nat /\ MaxPoints \in Nat
  BY <1>1, WeightType, TDigestAssumption
<1> QED BY <1>1, <1>2

LEMMA StepResolves ==
    ASSUME DigestIInv, DigestNext, DigestIInv'
    PROVE  \A d \in live' : Resolved(dig'[d].centroids, Clusters)
<1>1. ASSUME NEW d \in live
      PROVE  /\ d \in Digests /\ dig[d] \in DigestType
             /\ Resolved(dig[d].centroids, Clusters)
  <2>1. d \in Digests /\ dig[d] \in DigestType /\ WellFormed(dig[d])
    BY DEF DigestIInv, DigestTyped
  <2> QED BY <2>1, InClusters DEF Resolved, WellFormed, Apart, WeightTo
<1>2. ASSUME NEW d \in live'
      PROVE  Weight(dig'[d].centroids) <= MaxPoints
  <2>1. /\ taken' \in AllCounts /\ live' \in SUBSET Digests
        /\ dig'[d] \in DigestType /\ StandsFor(dig'[d], taken'[d])
        /\ CountOver(live', taken') <= MaxPoints
    BY TDigestAssumption DEF DigestIInv, DigestTyped, AllCounts, Counts
  <2>2. CountOf(taken'[d]) <= MaxPoints /\ taken'[d] \in Counts
    BY <2>1, TakenBounded DEF AllCounts
  <2> QED BY <2>1, <2>2, LiveWeights
<1>3. ASSUME NEW d \in Digests, NEW v \in Vals, Add(d, v), NEW e \in live'
      PROVE  Resolved(dig'[e].centroids, Clusters)
  <2>1. d \in live /\ e \in live
    BY <1>3 DEF Add
  <2>2. CASE v = NaN \/ e # d
    <3>1. dig'[e] = dig[e]
      BY <1>1, <1>3, <2>1, <2>2 DEF Add, DigestIInv, DigestTyped
    <3> QED BY <1>1, <2>1, <3>1
  <2>3. CASE v # NaN /\ e = d
    <3> DEFINE t == dig[d]
               x == WithValue(t, v)
    <3>1. PICK u \in Buffered(x) : dig' = [dig EXCEPT ![d] = u]
      BY <1>3, <2>3 DEF Add, WithValue
    <3>2. dig'[e] = u
      BY <2>3, <3>1 DEF DigestIInv, DigestTyped
    <3>3. x \in DigestType /\ x.centroids = t.centroids
      <4>1. t \in DigestType /\ taken[d] \in Counts /\ StandsFor(t, taken[d])
        BY <2>1, TypedCounts DEF DigestIInv, DigestTyped
      <4>2. v \in Numbers
        BY <2>3 DEF Numbers
      <4> HIDE DEF t
      <4> QED BY <4>1, <4>2, AddStands
    <3>4. \A k \in 1 .. Len(t.centroids) : t.centroids[k] \in Clusters
      BY <1>1, <2>1, InClusters
    <3>5. Resolved(t.centroids, Clusters)
      BY <1>1, <2>1
    <3> HIDE DEF t, x
    <3>6. CASE u \in Compressed(x)
      BY <1>2, <3>2, <3>3, <3>4, <3>6, FoldedResolved
    <3>7. CASE u = x
      BY <3>2, <3>3, <3>5, <3>7
    <3> QED BY <3>1, <3>6, <3>7 DEF Buffered
  <2> QED BY <2>2, <2>3
<1>4. ASSUME NEW d \in Digests, Read(d), NEW e \in live'
      PROVE  Resolved(dig'[e].centroids, Clusters)
  <2>1. d \in live /\ e \in live /\ dig[d].buffer # <<>>
    BY <1>4 DEF Read
  <2>2. PICK u \in Compressed(dig[d]) : dig' = [dig EXCEPT ![d] = u]
    BY <1>4, <2>1 DEF Read, FlushPending
  <2>3. CASE e # d
    <3>1. dig'[e] = dig[e]
      BY <1>1, <2>1, <2>2, <2>3 DEF DigestIInv, DigestTyped
    <3> QED BY <1>1, <2>1, <3>1
  <2>4. CASE e = d
    <3>1. dig'[e] = u
      BY <1>1, <2>1, <2>2, <2>4 DEF DigestIInv, DigestTyped
    <3>2. \A k \in 1 .. Len(dig[d].centroids) : dig[d].centroids[k] \in Clusters
      BY <1>1, <2>1, InClusters
    <3> QED BY <1>1, <1>2, <2>1, <2>2, <3>1, <3>2, FoldedResolved
  <2> QED BY <2>3, <2>4
<1>5. ASSUME NEW d \in Digests, NEW o \in Digests, Merge(d, o), NEW e \in live'
      PROVE  Resolved(dig'[e].centroids, Clusters)
  <2>1. d \in live /\ o \in live /\ d # o /\ e \in live /\ e # o
    BY <1>5 DEF Merge
  <2>2. PICK t \in FlushPending(dig[d]), u \in FlushPending(dig[o]) :
           \E m \in Compressed(Merged(t, u)) : dig' = [dig EXCEPT ![d] = m, ![o] = u]
    BY <1>5 DEF Merge
  <2>3. PICK m \in Compressed(Merged(t, u)) : dig' = [dig EXCEPT ![d] = m, ![o] = u]
    BY <2>2
  <2>4. CASE e # d
    <3>1. dig'[e] = dig[e]
      BY <1>1, <2>1, <2>3, <2>4 DEF DigestIInv, DigestTyped
    <3> QED BY <1>1, <2>1, <3>1
  <2>5. CASE e = d
    <3>1. dig'[e] = m
      BY <1>1, <2>1, <2>3, <2>5 DEF DigestIInv, DigestTyped
    <3>2. /\ taken[d] \in Counts /\ taken[o] \in Counts
          /\ CountOf(taken[d]) <= MaxPoints /\ CountOf(taken[o]) <= MaxPoints
      BY <2>1, TypedCounts, TakenBounded DEF DigestIInv
    <3>3. /\ StandsFor(dig[d], taken[d]) /\ WellFormed(dig[d]) /\ dig[d] \in DigestType
          /\ StandsFor(dig[o], taken[o]) /\ WellFormed(dig[o]) /\ dig[o] \in DigestType
      BY <2>1, <1>1 DEF DigestIInv
    <3>4. /\ t \in DigestType /\ t.buffer = <<>> /\ StandsFor(t, taken[d])
          /\ u \in DigestType /\ u.buffer = <<>> /\ StandsFor(u, taken[o])
      BY <2>2, <3>2, <3>3, FlushStands
    <3>5. Merged(t, u) \in DigestType /\ Merged(t, u).centroids = t.centroids \o u.centroids
      BY <3>2, <3>4, MergeStands
    <3>6. /\ \A k \in 1 .. Len(t.centroids) : t.centroids[k] \in Clusters
          /\ \A k \in 1 .. Len(u.centroids) : u.centroids[k] \in Clusters
      BY <2>1, <2>2, <3>4, InClusters
    <3>7. \A k \in 1 .. Len(Merged(t, u).centroids) : Merged(t, u).centroids[k] \in Clusters
      <4> DEFINE c == t.centroids
                 b == u.centroids
                 g == Merged(t, u).centroids
      <4>1. c \in Seq(Points) /\ b \in Seq(Points) /\ g = c \o b
        BY <3>4, <3>5 DEF DigestType
      <4>2. (\A k \in 1 .. Len(c) : c[k] \in Clusters) /\ (\A k \in 1 .. Len(b) : b[k] \in Clusters)
        BY <3>6
      <4> HIDE DEF c, b, g
      <4>3. \A k \in 1 .. Len(g) : g[k] \in Clusters
        BY <4>1, <4>2, Concatenated
      <4> QED BY <4>3 DEF g
    <3> QED BY <1>2, <2>3, <3>1, <3>5, <3>7, FoldedResolved
  <2> QED BY <2>4, <2>5
<1> QED BY <1>3, <1>4, <1>5 DEF DigestNext

\* Resolution and memory: a centroid put together from several points spans at most
\* one step of the scale, and compress leaves no two neighbours that would.
THEOREM DigestClustered == DigestSpec => Clustered
<1>1. DigestIInv /\ DigestIInv' /\ [DigestNext]_digestVars
      => [\A d \in live' : Resolved(dig'[d].centroids, Clusters)]_dig
  BY StepResolves DEF digestVars
<1> QED BY <1>1, DigestInvariance, PTL DEF DigestSpec, Clustered

-----------------------------------------------------------------------------
(* Quantiles: points on the curve through the knots. *)

Fractions == [num : Int, den : Nat \ {0}]

LEMMA FractionType ==
    \A n \in Int, d \in Nat \ {0} :
        Fraction(n, d) \in Fractions /\ Fraction(n, d).num = n /\ Fraction(n, d).den = d
BY DEF Fraction, Fractions

LEMMA LeqReflexive == \A x \in Fractions : Leq(x, x)
BY Products DEF Leq, Fractions

LEMMA LeqTransitive ==
    ASSUME NEW x \in Fractions, NEW y \in Fractions, NEW z \in Fractions,
           Leq(x, y), Leq(y, z)
    PROVE  Leq(x, z)
<1>1. /\ x.num \in Int /\ y.num \in Int /\ z.num \in Int
      /\ x.den \in Nat \ {0} /\ y.den \in Nat \ {0} /\ z.den \in Nat \ {0}
  BY DEF Fractions
<1>2. x.num * y.den <= y.num * x.den /\ y.num * z.den <= z.num * y.den
  BY DEF Leq
<1>3. x.num * z.den <= z.num * x.den
  BY <1>1, <1>2, CrossTransitive
<1> QED BY <1>3 DEF Leq

\* The mean of a point is a fraction, ordered as the points are.
LEMMA LeqMeans ==
    \A p, q \in Points :
        AtMost(p, q) => Leq(Fraction(p.sum, p.weight), Fraction(q.sum, q.weight))
BY AtMostMeans, FractionType DEF Leq, Points

\* Products of numbers that are not negative.
LEMMA NaturalProducts ==
    /\ \A x, y \in Nat : x * y \in Nat
    /\ \A x, y \in Nat \ {0} : x * y \in Nat \ {0}
OBVIOUS

\* A value between two, and a later one.
LEMMA BetweenMoves ==
    ASSUME NEW x \in Fractions, NEW y \in Fractions, Leq(x, y),
           NEW n \in Nat, NEW m \in Nat, NEW d \in Nat \ {0}, n <= m, m <= d
    PROVE  LET f == Between(x, y, Fraction(n, d))
               g == Between(x, y, Fraction(m, d))
           IN /\ f \in Fractions /\ g \in Fractions
              /\ Leq(x, f) /\ Leq(f, g) /\ Leq(g, y)
<1> DEFINE a == x.num
           b == x.den
           c == y.num
           e == y.den
           k == c * b - a * e
           w == b * e * d
           F(j) == a * e * d + j * k
<1>1. a \in Int /\ c \in Int /\ b \in Nat \ {0} /\ e \in Nat \ {0} /\ d \in Nat \ {0}
  BY DEF Fractions
<1>2. k \in Nat
  <2>1. a * e <= c * b /\ a * e \in Int /\ c * b \in Int
    BY <1>1, Products DEF Leq
  <2>2. \A u, v \in Int : u <= v => v - u \in Nat
    OBVIOUS
  <2> QED BY <2>1, <2>2
<1>3. w \in Nat \ {0}
  BY <1>1, NaturalProducts
<1>4. ASSUME NEW j \in Nat
      PROVE  /\ Between(x, y, Fraction(j, d)) = Fraction(F(j), w)
             /\ F(j) \in Int /\ j * k \in Nat
  <2>1. Fraction(j, d).num = j /\ Fraction(j, d).den = d
    BY FractionType
  <2>2. j * k \in Nat
    BY <1>2, NaturalProducts
  <2>3. a * e * d \in Int
    <3>1. a * e \in Int
      BY <1>1, Products
    <3> QED BY <1>1, <3>1, Products
  <2>4. F(j) \in Int
    <3> HIDE DEF k
    <3> QED BY <2>2, <2>3
  <2> QED BY <2>1, <2>2, <2>4 DEF Between
<1>5. ASSUME NEW j \in Nat, j <= d
      PROVE  Leq(x, Fraction(F(j), w)) /\ Leq(Fraction(F(j), w), y)
  <2>1. Fraction(F(j), w).num = F(j) /\ Fraction(F(j), w).den = w
    BY <1>3, <1>4, FractionType
  <2>2. a * w <= F(j) * b
    <3>1. F(j) * b = a * w + (j * k) * b
      <4> HIDE DEF k
      <4>1. \A u1, u2, u3, u4, u5 \in Int :
               (u1 * u3 * u4 + u5) * u2 = u1 * (u2 * u3 * u4) + u5 * u2
        OBVIOUS
      <4> QED BY <1>1, <1>4, <4>1
    <3>2. (j * k) * b \in Nat /\ a * w \in Int
      <4> HIDE DEF k, w
      <4> QED BY <1>1, <1>3, <1>4, NaturalProducts, Products
    <3>3. \A u \in Int, v \in Nat : u <= u + v
      OBVIOUS
    <3> QED BY <3>1, <3>2, <3>3
  <2>3. F(j) * e <= c * w
    <3>1. c * w = F(j) * e + ((d - j) * k) * e
      <4>1. \A u1, u2, u3, u4, u5, u6 \in Int :
               u3 * (u2 * u4 * u5)
                  = (u1 * u4 * u5 + u6 * (u3 * u2 - u1 * u4)) * u4
                    + ((u5 - u6) * (u3 * u2 - u1 * u4)) * u4
        OBVIOUS
      <4> QED BY <1>1, <4>1
    <3>2. ((d - j) * k) * e \in Nat /\ F(j) * e \in Int
      <4>1. d - j \in Nat
        BY <1>5
      <4>2. (d - j) * k \in Nat
        <5> HIDE DEF k
        <5> QED BY <1>2, <4>1, NaturalProducts
      <4>3. ((d - j) * k) * e \in Nat
        <5> HIDE DEF k
        <5> QED BY <1>1, <4>2, NaturalProducts
      <4> HIDE DEF F
      <4> QED BY <1>1, <1>4, <4>3, Products
    <3>3. \A u \in Int, v \in Nat : u <= u + v
      OBVIOUS
    <3> QED BY <3>1, <3>2, <3>3
  <2> HIDE DEF F, w
  <2> QED BY <2>1, <2>2, <2>3 DEF Leq
<1>6. Leq(Fraction(F(n), w), Fraction(F(m), w))
  <2>1. F(n) <= F(m)
    <3>1. n * k <= m * k
      <4> HIDE DEF k
      <4> QED BY <1>2, Scaling
    <3>2. a * e * d \in Int /\ n * k \in Int /\ m * k \in Int
      <4>1. a * e \in Int
        BY <1>1, Products
      <4>2. a * e * d \in Int
        BY <1>1, <4>1, Products
      <4>3. n * k \in Int /\ m * k \in Int
        <5> HIDE DEF k
        <5> QED BY <1>2, Products
      <4> QED BY <4>2, <4>3
    <3> HIDE DEF k
    <3>3. \A u, v, z \in Int : v <= z => u + v <= u + z
      OBVIOUS
    <3> QED BY <3>1, <3>2, <3>3
  <2> HIDE DEF F, w
  <2>2. F(n) * w <= F(m) * w
    BY <1>3, <1>4, <2>1, Scaling
  <2> QED BY <1>3, <1>4, <2>2, FractionType DEF Leq
<1>7. n <= d
  OBVIOUS
<1>8. Fraction(F(n), w) \in Fractions /\ Fraction(F(m), w) \in Fractions
  BY <1>3, <1>4, FractionType
<1> HIDE DEF F, w, k
<1> QED BY <1>4, <1>5, <1>6, <1>7, <1>8

\* A sequence between two ends.
LEMMA Flanked ==
    ASSUME NEW R, NEW x \in R, NEW y \in R, NEW s \in Seq(R)
    PROVE  /\ Len(<<x>> \o s \o <<y>>) = Len(s) + 2
           /\ (<<x>> \o s \o <<y>>)[1] = x /\ (<<x>> \o s \o <<y>>)[Len(s) + 2] = y
           /\ \A j \in 1 .. Len(s) : (<<x>> \o s \o <<y>>)[j + 1] = s[j]
<1> DEFINE e == <<x>> \o s
<1>1. /\ e \in Seq(R) /\ Len(e) = Len(s) + 1 /\ Len(s) \in Nat /\ e[1] = x
      /\ \A j \in 1 .. Len(s) : e[j + 1] = s[j]
  OBVIOUS
<1> HIDE DEF e
<1>2. /\ Len(e \o <<y>>) = Len(e) + 1 /\ (e \o <<y>>)[Len(e) + 1] = y
      /\ \A j \in 1 .. Len(e) : (e \o <<y>>)[j] = e[j]
  BY <1>1
<1>3. (Len(s) + 1) + 1 = Len(s) + 2 /\ 1 \in 1 .. Len(e)
      /\ \A j \in 1 .. Len(s) : j + 1 \in 1 .. Len(e)
  BY <1>1
<1>4. /\ Len(e \o <<y>>) = Len(s) + 2
      /\ (e \o <<y>>)[1] = x /\ (e \o <<y>>)[Len(s) + 2] = y
      /\ \A j \in 1 .. Len(s) : (e \o <<y>>)[j + 1] = s[j]
  BY <1>1, <1>2, <1>3
<1> QED BY <1>4 DEF e

\* What a knot of a curve is, with m centroids c between its ends.
Knot(k, c, lo, hi) ==
    /\ Len(k) = Len(c) + 2
    /\ k[1] = [at |-> 0, val |-> Fraction(lo, 1)]
    /\ \A j \in 1 .. Len(c) :
          k[j + 1] = [at  |-> 2 * WeightTo(c, j - 1) + c[j].weight,
                      val |-> Fraction(c[j].sum, c[j].weight)]
    /\ k[Len(c) + 2] = [at |-> 2 * Weight(c), val |-> Fraction(hi, 1)]

LEMMA KnotsOf ==
    ASSUME NEW t \in DigestType
    PROVE  Knot(Knots(t), t.centroids, t.min, t.max)
<1> DEFINE c == t.centroids
           lo == [at |-> 0, val |-> Fraction(t.min, 1)]
           hi == [at |-> 2 * Weight(c), val |-> Fraction(t.max, 1)]
           Mid(j) == [at  |-> 2 * WeightTo(c, j - 1) + c[j].weight,
                      val |-> Fraction(c[j].sum, c[j].weight)]
           mid == [j \in DOMAIN c |-> Mid(j)]
<1>1. c \in Seq(Points) /\ Len(c) \in Nat /\ DOMAIN c = 1 .. Len(c)
  BY DEF DigestType
<1>2. Knots(t) = <<lo>> \o mid \o <<hi>>
  BY DEF Knots, WeightTo
<1> DEFINE R == {lo, hi} \cup {Mid(j) : j \in 1 .. Len(c)}
<1>3. mid \in Seq(R) /\ Len(mid) = Len(c) /\ \A j \in 1 .. Len(c) : mid[j] = Mid(j)
  <2>1. mid \in [1 .. Len(c) -> R]
    <3> HIDE DEF Mid, lo, hi
    <3> QED BY <1>1
  <2>2. \A j \in 1 .. Len(c) : mid[j] = Mid(j)
    <3> HIDE DEF Mid
    <3> QED BY <1>1
  <2> HIDE DEF mid, R
  <2> QED BY <1>1, <2>1, <2>2
<1>4. lo \in R /\ hi \in R
  <2> HIDE DEF lo, hi, Mid
  <2> QED OBVIOUS
<1> HIDE DEF mid, R, lo, hi, Mid
<1>5. /\ Len(Knots(t)) = Len(c) + 2 /\ Knots(t)[1] = lo /\ Knots(t)[Len(c) + 2] = hi
      /\ \A j \in 1 .. Len(c) : Knots(t)[j + 1] = mid[j]
  <2> DEFINE e == <<lo>> \o mid \o <<hi>>
  <2>1. /\ Len(e) = Len(mid) + 2 /\ e[1] = lo /\ e[Len(mid) + 2] = hi
        /\ \A j \in 1 .. Len(mid) : e[j + 1] = mid[j]
    BY <1>3, <1>4, Flanked, SMTT(30)
  <2> HIDE DEF c, e
  <2> QED BY <1>2, <1>3, <2>1 DEF e
<1>6. \A j \in 1 .. Len(c) : Knots(t)[j + 1] = Mid(j)
  BY <1>3, <1>5
<1> QED BY <1>5, <1>6 DEF Knot, lo, hi, Mid, c

\* The curve climbs: ranks strictly, values weakly.
Curve(k) ==
    /\ Len(k) \in Nat /\ Len(k) >= 3
    /\ k[1].at = 0
    /\ \A j \in 1 .. Len(k) : k[j].at \in Nat /\ k[j].val \in Fractions
    /\ \A j \in 2 .. Len(k) : k[j - 1].at < k[j].at
    /\ \A j, l \in 1 .. Len(k) : j <= l => Leq(k[j].val, k[l].val)

LEMMA KnotsClimb ==
    ASSUME NEW c \in Seq(Points), c # <<>>, InOrder(c),
           NEW lo \in Int, NEW hi \in Int, lo <= hi, Bounded(c, Point(lo), Point(hi)),
           NEW k, Knot(k, c, lo, hi)
    PROVE  Curve(k) /\ k[Len(k)].at = 2 * Weight(c)
<1> DEFINE m == Len(c)
           V(j) == IF j = 1 THEN Point(lo) ELSE IF j = m + 2 THEN Point(hi) ELSE c[j - 1]
           N(j) == IF j = 1 THEN 0
                   ELSE IF j = m + 2 THEN 2 * Weight(c)
                   ELSE WeightTo(c, j - 2) + WeightTo(c, j - 1)
<1>1. m \in Nat /\ m >= 1 /\ Len(k) = m + 2
  BY DEF Knot
<1>2. \A j \in 0 .. m : WeightTo(c, j) \in Nat
  BY PrefixTypes
<1>3. \A j \in 1 .. m : /\ WeightTo(c, j - 1) \in Nat /\ WeightTo(c, j) \in Nat
                        /\ c[j] \in Points /\ c[j].weight \in Nat \ {0} /\ c[j].sum \in Int
                        /\ WeightTo(c, j) = WeightTo(c, j - 1) + c[j].weight
  <2>1. ASSUME NEW j \in 1 .. m
        PROVE  /\ WeightTo(c, j - 1) \in Nat /\ WeightTo(c, j) \in Nat
               /\ c[j] \in Points /\ c[j].weight \in Nat \ {0} /\ c[j].sum \in Int
               /\ WeightTo(c, j) = WeightTo(c, j - 1) + c[j].weight
    <3>1. j \in 0 .. m /\ j - 1 \in 0 .. m
      BY <1>1
    <3>2. c[j] \in Points /\ WeightTo(c, j) = WeightTo(c, j - 1) + c[j].weight
      BY PrefixAdds
    <3> QED BY <1>2, <3>1, <3>2 DEF Points
  <2> QED BY <2>1
<1>4. WeightTo(c, 0) = 0 /\ WeightTo(c, m) = Weight(c) /\ Weight(c) \in Nat
  BY PrefixAdds, WeightType
<1>5. ASSUME NEW j \in 1 .. Len(k)
      PROVE  /\ V(j) \in Points /\ k[j].val = Fraction(V(j).sum, V(j).weight)
             /\ k[j].at = N(j) /\ N(j) \in Nat
  <2>1. CASE j = 1
    <3>1. V(j) = Point(lo) /\ N(j) = 0
      BY <2>1
    <3> HIDE DEF V, N
    <3> QED BY <2>1, <3>1, PointType DEF Knot
  <2>2. CASE j = m + 2
    <3>1. V(j) = Point(hi) /\ N(j) = 2 * Weight(c)
      BY <1>1, <2>2
    <3>2. 2 * Weight(c) \in Nat
      BY <1>4
    <3>3. k[m + 2] = [at |-> 2 * Weight(c), val |-> Fraction(hi, 1)]
      BY DEF Knot
    <3> HIDE DEF V, N, m
    <3> QED BY <2>2, <3>1, <3>2, <3>3, PointType
  <2>3. CASE j # 1 /\ j # m + 2
    <3> DEFINE l == j - 1
    <3>1. l \in 1 .. m /\ j = l + 1
      BY <1>1, <2>3
    <3>2. V(j) = c[l] /\ N(j) = WeightTo(c, l - 1) + WeightTo(c, l)
      <4>1. j - 2 = l - 1
        OBVIOUS
      <4> QED BY <2>3, <4>1
    <3> HIDE DEF V, N, l
    <3>3. k[j] = [at |-> 2 * WeightTo(c, l - 1) + c[l].weight, val |-> Fraction(c[l].sum, c[l].weight)]
      BY <3>1 DEF Knot
    <3>4. 2 * WeightTo(c, l - 1) + c[l].weight = WeightTo(c, l - 1) + WeightTo(c, l)
      BY <1>3, <3>1
    <3>5. WeightTo(c, l - 1) + WeightTo(c, l) \in Nat /\ c[l] \in Points
      BY <1>3, <3>1
    <3> QED BY <3>2, <3>3, <3>4, <3>5
  <2> QED BY <2>1, <2>2, <2>3
<1>6. ASSUME NEW j \in 2 .. Len(k)
      PROVE  N(j - 1) < N(j)
  <2>1. CASE j = 2
    <3>1. N(j - 1) = 0 /\ N(j) = WeightTo(c, 0) + WeightTo(c, 1)
      BY <1>1, <2>1
    <3>2. 1 \in 1 .. m /\ 1 - 1 = 0
      BY <1>1
    <3>3. WeightTo(c, 1) > 0
      BY <1>3, <1>4, <3>2
    <3> HIDE DEF N
    <3> QED BY <1>2, <1>3, <1>4, <3>1, <3>2, <3>3
  <2>2. CASE j = m + 2
    <3>1. N(j - 1) = WeightTo(c, m - 1) + WeightTo(c, m) /\ N(j) = 2 * Weight(c)
      <4>1. j - 1 = m + 1 /\ j - 1 # 1 /\ j - 1 # m + 2 /\ j # 1 /\ (j - 1) - 2 = m - 1 /\ (j - 1) - 1 = m
        BY <1>1, <2>2
      <4> QED BY <2>2, <4>1
    <3>2. m \in 1 .. m
      BY <1>1
    <3> HIDE DEF N, m
    <3>3. /\ Weight(c) = WeightTo(c, m - 1) + c[m].weight /\ WeightTo(c, m) = Weight(c)
          /\ WeightTo(c, m - 1) \in Nat /\ c[m].weight \in Nat \ {0} /\ Weight(c) \in Nat
      BY <1>3, <1>4, <3>2
    <3>4. \A x, y \in Nat, u \in Nat \ {0} : x = y + u => y + x < 2 * x
      OBVIOUS
    <3> QED BY <3>1, <3>3, <3>4
  <2>3. CASE j # 2 /\ j # m + 2
    <3> DEFINE l == j - 1
    <3>1. l \in 1 .. m /\ l - 1 \in 1 .. m /\ (l - 1) - 1 = l - 2
      BY <1>1, <2>3
    <3>2. N(j) = WeightTo(c, l - 1) + WeightTo(c, l) /\ N(j - 1) = WeightTo(c, l - 2) + WeightTo(c, l - 1)
      <4>1. j # 1 /\ j - 1 # 1 /\ j - 1 # m + 2 /\ j - 2 = l - 1 /\ (j - 1) - 2 = l - 2 /\ (j - 1) - 1 = l - 1
        BY <1>1, <2>3
      <4> QED BY <2>3, <4>1
    <3> HIDE DEF N, m, l
    <3>3. /\ WeightTo(c, l) = WeightTo(c, l - 1) + c[l].weight
          /\ WeightTo(c, l - 1) = WeightTo(c, l - 2) + c[l - 1].weight
          /\ WeightTo(c, l) \in Nat /\ WeightTo(c, l - 1) \in Nat /\ WeightTo(c, l - 2) \in Nat
          /\ c[l].weight \in Nat \ {0} /\ c[l - 1].weight \in Nat \ {0}
      BY <1>3, <3>1
    <3>4. \A x, y, z \in Nat, u, w \in Nat \ {0} : x = y + u /\ y = z + w => z + y < y + x
      OBVIOUS
    <3> QED BY <3>2, <3>3, <3>4
  <2> QED BY <2>1, <2>2, <2>3
<1>7. ASSUME NEW j \in 1 .. Len(k), NEW l \in 1 .. Len(k), j <= l
      PROVE  AtMost(V(j), V(l))
  <2>1. Point(lo) \in Points /\ Point(hi) \in Points
    BY PointType
  <2>2. CASE j = l
    BY <1>5, <2>2, AtMostReflexive
  <2>3. CASE j # l /\ j = 1 /\ l = m + 2
    <3>1. V(j) = Point(lo) /\ V(l) = Point(hi)
      BY <1>1, <2>3
    <3> HIDE DEF V
    <3> QED BY <3>1, PointsInOrder
  <2>4. CASE j # l /\ j = 1 /\ l # m + 2
    <3>1. V(j) = Point(lo) /\ V(l) = c[l - 1] /\ l - 1 \in 1 .. m
      BY <1>1, <2>4
    <3> HIDE DEF V
    <3> QED BY <3>1 DEF Bounded
  <2>5. CASE j # l /\ j # 1 /\ l = m + 2
    <3>1. V(l) = Point(hi) /\ V(j) = c[j - 1] /\ j - 1 \in 1 .. m
      BY <1>1, <1>7, <2>5
    <3> HIDE DEF V
    <3> QED BY <3>1 DEF Bounded
  <2>6. CASE j # l /\ j # 1 /\ l # m + 2
    <3>1. /\ V(l) = c[l - 1] /\ V(j) = c[j - 1] /\ j - 1 <= l - 1
          /\ j - 1 \in 1 .. m /\ l - 1 \in 1 .. m
      BY <1>1, <1>7, <2>6
    <3> HIDE DEF V
    <3> QED BY <3>1 DEF InOrder
  <2> QED BY <2>2, <2>3, <2>4, <2>5, <2>6
<1>8. \A j, l \in 1 .. Len(k) : j <= l => Leq(k[j].val, k[l].val)
  <2> HIDE DEF V
  <2> QED BY <1>5, <1>7, LeqMeans
<1>9. \A j \in 1 .. Len(k) : k[j].at \in Nat /\ k[j].val \in Fractions
  <2>1. \A p \in Points : Fraction(p.sum, p.weight) \in Fractions
    BY FractionType DEF Points
  <2> HIDE DEF V, N
  <2> QED BY <1>5, <2>1
<1>10. \A j \in 2 .. Len(k) : k[j - 1].at < k[j].at
  <2>1. \A j \in 2 .. Len(k) : j \in 1 .. Len(k) /\ j - 1 \in 1 .. Len(k)
    BY <1>1
  <2> HIDE DEF N, V
  <2> QED BY <1>5, <1>6, <2>1
<1>11. k[1].at = 0 /\ k[Len(k)].at = 2 * Weight(c)
  BY <1>1 DEF Knot
<1>12. Len(k) \in Nat /\ Len(k) >= 3
  BY <1>1
<1> QED BY <1>8, <1>9, <1>10, <1>11, <1>12 DEF Curve

\* The first knot at or after rank n, and the value there.
SegmentOf(k, n) == Min({j \in 2 .. Len(k) : n <= RankUnit * k[j].at})

ValueAt(k, n) ==
    LET l == SegmentOf(k, n)
    IN Between(k[l - 1].val, k[l].val,
               Fraction(n - RankUnit * k[l - 1].at, RankUnit * (k[l].at - k[l - 1].at)))

LEMMA Segments ==
    ASSUME NEW k, Curve(k), NEW n \in Nat, n <= RankUnit * k[Len(k)].at
    PROVE  /\ SegmentOf(k, n) \in 2 .. Len(k)
           /\ n <= RankUnit * k[SegmentOf(k, n)].at
           /\ RankUnit * k[SegmentOf(k, n) - 1].at <= n
           /\ \A j \in 2 .. Len(k) : n <= RankUnit * k[j].at => SegmentOf(k, n) <= j
<1> DEFINE T == {j \in 2 .. Len(k) : n <= RankUnit * k[j].at}
           l == SegmentOf(k, n)
<1>1. Len(k) \in Nat /\ Len(k) >= 3 /\ k[1].at = 0 /\ \A j \in 1 .. Len(k) : k[j].at \in Nat
  BY DEF Curve
<1>2. Len(k) \in T /\ T \subseteq Nat
  BY <1>1
<1>3. l \in T /\ \A j \in T : l <= j
  <2>1. \E x \in T : \A y \in T : x <= y
    <3> HIDE DEF T
    <3> QED BY <1>2, LeastNatural
  <2>2. l = Min(T)
    BY DEF SegmentOf
  <2> HIDE DEF T, l
  <2> QED BY <2>1, <2>2 DEF Min
<1> HIDE DEF l
<1>4. RankUnit * k[l - 1].at <= n
  <2>1. CASE l = 2
    <3>1. k[l - 1].at = 0
      BY <1>1, <2>1
    <3> QED BY <3>1 DEF RankUnit
  <2>2. CASE l # 2
    <3>1. l - 1 \in 2 .. Len(k) /\ l - 1 \in 1 .. Len(k) /\ ~(l <= l - 1)
      BY <1>3, <2>2
    <3>2. ~(n <= RankUnit * k[l - 1].at)
      BY <1>3, <3>1
    <3>3. RankUnit * k[l - 1].at \in Nat
      BY <1>1, <3>1 DEF RankUnit
    <3> QED BY <3>2, <3>3
  <2> QED BY <2>1, <2>2
<1> QED BY <1>3, <1>4 DEF l

LEMMA CurveValues ==
    ASSUME NEW k, Curve(k), NEW n \in Nat, NEW m \in Nat,
           n <= m, m <= RankUnit * k[Len(k)].at
    PROVE  /\ ValueAt(k, n) \in Fractions /\ ValueAt(k, m) \in Fractions
           /\ Leq(k[1].val, ValueAt(k, n)) /\ Leq(ValueAt(k, n), k[Len(k)].val)
           /\ Leq(ValueAt(k, n), ValueAt(k, m))
<1> DEFINE g == SegmentOf(k, n)
           l == SegmentOf(k, m)
           F(j, x) == Between(k[j - 1].val, k[j].val,
                              Fraction(x - RankUnit * k[j - 1].at, RankUnit * (k[j].at - k[j - 1].at)))
<1>1. /\ Len(k) \in Nat /\ Len(k) >= 3
      /\ \A j \in 1 .. Len(k) : k[j].at \in Nat /\ k[j].val \in Fractions
      /\ \A j \in 2 .. Len(k) : k[j - 1].at < k[j].at
      /\ \A j, i1 \in 1 .. Len(k) : j <= i1 => Leq(k[j].val, k[i1].val)
  BY DEF Curve
<1>2. n <= RankUnit * k[Len(k)].at
  <2>1. RankUnit * k[Len(k)].at \in Nat
    BY <1>1 DEF RankUnit
  <2> QED BY <2>1
<1>3. /\ g \in 2 .. Len(k) /\ n <= RankUnit * k[g].at /\ RankUnit * k[g - 1].at <= n
      /\ \A j \in 2 .. Len(k) : n <= RankUnit * k[j].at => g <= j
  BY <1>2, Segments
<1>4. l \in 2 .. Len(k) /\ m <= RankUnit * k[l].at /\ RankUnit * k[l - 1].at <= m
  BY Segments
<1>5. ValueAt(k, n) = F(g, n) /\ ValueAt(k, m) = F(l, m)
  BY DEF ValueAt
<1> HIDE DEF g, l
<1>6. ASSUME NEW j \in 2 .. Len(k), NEW x \in Nat, NEW y \in Nat, x <= y,
             RankUnit * k[j - 1].at <= x, y <= RankUnit * k[j].at
      PROVE  /\ F(j, x) \in Fractions /\ F(j, y) \in Fractions
             /\ Leq(k[j - 1].val, F(j, x)) /\ Leq(F(j, x), F(j, y)) /\ Leq(F(j, y), k[j].val)
  <2>1. /\ j - 1 \in 1 .. Len(k) /\ j \in 1 .. Len(k) /\ j - 1 <= j
    BY <1>1
  <2>2. /\ k[j - 1].at \in Nat /\ k[j].at \in Nat /\ k[j - 1].at < k[j].at
        /\ k[j - 1].val \in Fractions /\ k[j].val \in Fractions
        /\ Leq(k[j - 1].val, k[j].val)
    BY <1>1, <2>1
  <2> DEFINE a == x - RankUnit * k[j - 1].at
             b == y - RankUnit * k[j - 1].at
             d == RankUnit * (k[j].at - k[j - 1].at)
  <2>3. a \in Nat /\ b \in Nat /\ d \in Nat \ {0} /\ a <= b /\ b <= d
    <3>1. \A p, q \in Nat : p < q /\ 4 * p <= x /\ y <= 4 * q =>
             /\ x - 4 * p \in Nat /\ y - 4 * p \in Nat /\ 4 * (q - p) \in Nat \ {0}
             /\ x - 4 * p <= y - 4 * p /\ y - 4 * p <= 4 * (q - p)
      BY <1>6
    <3> QED BY <1>6, <2>2, <3>1 DEF RankUnit
  <2> HIDE DEF a, b, d
  <2>4. LET f1 == Between(k[j - 1].val, k[j].val, Fraction(a, d))
            g1 == Between(k[j - 1].val, k[j].val, Fraction(b, d))
        IN /\ f1 \in Fractions /\ g1 \in Fractions
           /\ Leq(k[j - 1].val, f1) /\ Leq(f1, g1) /\ Leq(g1, k[j].val)
    BY <2>2, <2>3, BetweenMoves
  <2> QED BY <2>4 DEF a, b, d
<1>7. /\ F(g, n) \in Fractions /\ Leq(k[g - 1].val, F(g, n)) /\ Leq(F(g, n), k[g].val)
  <2> HIDE DEF F
  <2> QED BY <1>3, <1>6
<1>8. /\ F(l, m) \in Fractions /\ Leq(k[l - 1].val, F(l, m)) /\ Leq(F(l, m), k[l].val)
  <2> HIDE DEF F
  <2> QED BY <1>4, <1>6
<1>9. Leq(k[1].val, F(g, n)) /\ Leq(F(g, n), k[Len(k)].val)
  <2>1. /\ 1 \in 1 .. Len(k) /\ g - 1 \in 1 .. Len(k) /\ g \in 1 .. Len(k) /\ Len(k) \in 1 .. Len(k)
        /\ 1 <= g - 1 /\ g <= Len(k)
    BY <1>1, <1>3
  <2>2. Leq(k[1].val, k[g - 1].val) /\ Leq(k[g].val, k[Len(k)].val)
    BY <1>1, <2>1
  <2> HIDE DEF F
  <2> QED BY <1>1, <1>7, <2>1, <2>2, LeqTransitive
<1>10. Leq(F(g, n), F(l, m))
  <2>1. g <= l
    <3>1. n <= RankUnit * k[l].at
      <4>1. RankUnit * k[l].at \in Nat
        BY <1>1, <1>4 DEF RankUnit
      <4> QED BY <1>4, <4>1
    <3> QED BY <1>3, <1>4, <3>1
  <2>2. CASE g = l
    <3> HIDE DEF F
    <3> QED BY <1>3, <1>4, <1>6, <2>2
  <2>3. CASE g # l
    <3>1. g \in 1 .. Len(k) /\ l - 1 \in 1 .. Len(k) /\ g <= l - 1
      BY <1>3, <1>4, <2>1, <2>3
    <3>2. Leq(k[g].val, k[l - 1].val)
      BY <1>1, <3>1
    <3> HIDE DEF F
    <3>3. Leq(F(g, n), k[l - 1].val)
      BY <1>1, <1>7, <3>1, <3>2, LeqTransitive
    <3> QED BY <1>1, <1>7, <1>8, <3>1, <3>3, LeqTransitive
  <2> QED BY <2>2, <2>3
<1> HIDE DEF F
<1> QED BY <1>5, <1>7, <1>8, <1>9, <1>10

\* Quantiles of a digest without a buffer.
LEMMA QuantilesClimb ==
    ASSUME NEW t \in DigestType, NEW f \in Counts, t.buffer = <<>>,
           StandsFor(t, f), WellFormed(t), t.haveMinMax,
           NEW r \in Ranks
    PROVE  /\ Leq(Fraction(t.min, 1), Quantile(t, r)) /\ Leq(Quantile(t, r), Fraction(t.max, 1))
           /\ \A s \in Ranks : s >= r => Leq(Quantile(t, r), Quantile(t, s))
<1> DEFINE c == t.centroids
           k == Knots(t)
           w == Weight(c)
<1>1. /\ c \in Seq(Points) /\ PointsOf(t) = c /\ InOrder(c)
      /\ t.min \in Int /\ t.max \in Int /\ t.min <= t.max
      /\ Bounded(c, Point(t.min), Point(t.max))
  <2>1. c \in Seq(Points) /\ PointsOf(t) = c
    BY DigestPoints, FlushedPoints
  <2>2. /\ t.min \in Numbers /\ t.max \in Numbers /\ f[t.min] > 0
        /\ \A v \in Numbers : f[v] > 0 => t.min <= v /\ v <= t.max
        /\ Bounded(PointsOf(t), Point(t.min), Point(t.max))
    BY DEF StandsFor, Extremes
  <2> QED BY <2>1, <2>2, NumbersAreIntegers DEF WellFormed
<1>2. w \in Nat /\ c # <<>>
  <2>1. t.min \in Numbers /\ f[t.min] > 0
    BY DEF StandsFor, Extremes
  <2>2. f[t.min] \in Nat /\ f[t.min] <= CountOf(f) /\ CountOf(f) \in Nat
    BY <2>1, CountTypes
  <2>3. Weight(c) = CountOf(f)
    BY <1>1 DEF StandsFor
  <2>4. Weight(c) # 0 /\ Weight(c) \in Nat
    BY <2>1, <2>2, <2>3
  <2> QED BY <1>1, <2>4, NoWeight
<1>3. Knot(k, c, t.min, t.max)
  BY KnotsOf
<1>4. Curve(k) /\ k[Len(k)].at = 2 * w
  BY <1>1, <1>2, <1>3, KnotsClimb
<1>5. k[1].val = Fraction(t.min, 1) /\ k[Len(k)].val = Fraction(t.max, 1)
  BY <1>3 DEF Knot
<1>6. ASSUME NEW s \in Ranks
      PROVE  Quantile(t, s) = IF Len(c) = 1 THEN k[2].val ELSE ValueAt(k, 2 * s * w)
  BY DEF Quantile, ValueAt, SegmentOf
<1> HIDE DEF c, k, w
<1>7. CASE Len(c) = 1
  <2>1. 1 \in 1 .. Len(k) /\ 2 \in 1 .. Len(k) /\ Len(k) \in 1 .. Len(k) /\ 2 <= Len(k)
    BY <1>4 DEF Curve
  <2>2. Leq(k[1].val, k[2].val) /\ Leq(k[2].val, k[Len(k)].val) /\ Leq(k[2].val, k[2].val)
    BY <1>4, <2>1, LeqReflexive DEF Curve
  <2> QED BY <1>5, <1>6, <1>7, <2>2
<1>8. CASE Len(c) # 1
  <2>1. ASSUME NEW s \in Ranks, s >= r
        PROVE  /\ 2 * r * w \in Nat /\ 2 * s * w \in Nat /\ 2 * r * w <= 2 * s * w
               /\ 2 * s * w <= RankUnit * k[Len(k)].at
    <3>1. r \in 0 .. 4 /\ s \in 0 .. 4
      BY TDigestAssumption DEF RankUnit
    <3>2. /\ 2 * r \in Nat /\ 2 * s \in Nat /\ 8 \in Nat /\ 2 * r <= 2 * s /\ 2 * s <= 8
      BY <2>1, <3>1
    <3>3. 2 * r * w <= 2 * s * w /\ 2 * s * w <= 8 * w
      BY <1>2, <3>2, Scaling
    <3>4. RankUnit * k[Len(k)].at = 8 * w
      BY <1>2, <1>4 DEF RankUnit
    <3>5. 2 * r * w \in Nat /\ 2 * s * w \in Nat
      BY <1>2, <3>2, NaturalProducts
    <3> QED BY <3>3, <3>4, <3>5
  <2>2. r >= r
    BY TDigestAssumption DEF RankUnit
  <2>3. ASSUME NEW s \in Ranks, s >= r
        PROVE  /\ Leq(k[1].val, ValueAt(k, 2 * r * w)) /\ Leq(ValueAt(k, 2 * r * w), k[Len(k)].val)
               /\ Leq(ValueAt(k, 2 * r * w), ValueAt(k, 2 * s * w))
    BY <1>4, <2>1, <2>3, CurveValues
  <2>4. Quantile(t, r) = ValueAt(k, 2 * r * w) /\ \A s \in Ranks : Quantile(t, s) = ValueAt(k, 2 * s * w)
    BY <1>6, <1>8
  <2> QED BY <1>5, <2>2, <2>3, <2>4
<1> QED BY <1>7, <1>8

\* Whatever order the sort left: quantiles lie between the extremes and do not
\* decrease from one rank to a higher one.
THEOREM QuantilesOrdered == DigestSpec => []Quantiles
<1>1. DigestIInv => Quantiles
  <2> SUFFICES ASSUME DigestIInv, NEW d \in live, NEW t \in FlushPending(dig[d]), t.haveMinMax,
                      NEW r \in Ranks
               PROVE  LET x == Quantile(t, r)
                      IN /\ Leq(Fraction(t.min, 1), x) /\ Leq(x, Fraction(t.max, 1))
                         /\ \A s \in Ranks : s >= r => Leq(x, Quantile(t, s))
    BY DEF Quantiles
  <2>1. /\ dig[d] \in DigestType /\ taken[d] \in Counts
        /\ StandsFor(dig[d], taken[d]) /\ WellFormed(dig[d])
    BY TypedCounts DEF DigestIInv, DigestTyped
  <2>2. CountOf(taken[d]) <= MaxPoints
    BY TypedCounts, TakenBounded DEF DigestIInv
  <2>3. t \in DigestType /\ t.buffer = <<>> /\ StandsFor(t, taken[d]) /\ WellFormed(t)
    BY <2>1, <2>2, FlushStands
  <2> QED BY <2>1, <2>3, QuantilesClimb
<1> QED BY <1>1, DigestInvariance, PTL

-----------------------------------------------------------------------------
(* groupTable: the inductive invariant. *)

\* size counts the groups of the table and of what is left of the one it
\* replaces, and leaves room for the group being added.
Counted ==
    /\ pc \in {"idle", "find", "fold"} => size = Cardinality(DOMAIN slots)
                                           /\ 10 * size <= 7 * cap
    /\ pc \in {"grow", "place", "insert"} =>
          /\ size = Cardinality(DOMAIN slots) + Cardinality(Waiting)
          /\ 10 * (size + 1) <= 7 * cap

\* A probe comes to idx over full slots, findBy* over slots of other keys.
Probed ==
    /\ pc = "find" =>
          \A j \in Passed(hashOf[key], idx) : j \in DOMAIN slots /\ slots[j].key # key
    /\ pc = "insert" => Passed(hashOf[key], idx) \subseteq DOMAIN slots
    /\ pc = "place" => i \in DOMAIN old /\ Passed(old[i].hash, idx) \subseteq DOMAIN slots

\* What is left of the old table has one group per key, none of which is in the
\* new table.
OldGroups ==
    \A n \in Waiting :
        /\ old[n].hash = hashOf[old[n].key]
        /\ \A m \in Waiting : old[m].key = old[n].key => m = n
        /\ \A j \in DOMAIN slots : slots[j].key # old[n].key

\* insertNew is called for a key without a group ...
Missing ==
    pc \in {"grow", "place", "insert"} =>
        /\ \A j \in DOMAIN slots : slots[j].key # key
        /\ \A n \in Waiting : old[n].key # key

\* ... and addMeasures for the group of the row's key.
Found == pc = "fold" => idx \in DOMAIN slots /\ slots[idx].key = key

IInv == TypeOK /\ Reachable /\ Counted /\ Probed /\ OldGroups /\ Missing /\ Found

-----------------------------------------------------------------------------
(* Probes. *)

\* A home slot is one of the table.
LEMMA HomeInside ==
    ASSUME cap \in Nat \ {0}, NEW h \in Nat
    PROVE  Home(h) \in 0..(cap - 1)
BY DEF Home

\* A probe goes on to the next slot, and from the last one to the first.
LEMMA NextInside ==
    ASSUME cap \in Nat \ {0}, NEW j \in 0..(cap - 1)
    PROVE  (j + 1) % cap = IF j + 1 = cap THEN 0 ELSE j + 1
OBVIOUS

\* A probe begins having passed nothing ...
LEMMA PassedNone ==
    ASSUME cap \in Nat \ {0}, NEW h \in Nat
    PROVE  Passed(h, Home(h)) = {}
<1>1. Home(h) \in 0..(cap - 1)
  BY HomeInside
<1>. QED
  BY <1>1 DEF Passed

\* ... and passes one slot at a time, also where it wraps around.
LEMMA PassedNext ==
    ASSUME cap \in Nat \ {0}, NEW h \in Nat, NEW j \in 0..(cap - 1)
    PROVE  Passed(h, (j + 1) % cap) \subseteq Passed(h, j) \cup {j}
<1>1. Home(h) \in 0..(cap - 1)
  BY HomeInside
<1>2. CASE j + 1 = cap
  <2>1. (j + 1) % cap = 0
    BY <1>2, NextInside
  <2>. QED
    BY <1>1, <1>2, <2>1 DEF Passed
<1>3. CASE j + 1 # cap
  <2>1. (j + 1) % cap = j + 1
    BY <1>3, NextInside
  <2>. QED
    BY <1>1, <1>3, <2>1 DEF Passed
<1>. QED
  BY <1>2, <1>3

\* Of two slots, a probe passes one on its way to the other.
LEMMA PassedOrders ==
    ASSUME cap \in Nat \ {0}, NEW h \in Nat,
           NEW j \in 0..(cap - 1), NEW n \in 0..(cap - 1), j # n
    PROVE  j \in Passed(h, n) \/ n \in Passed(h, j)
<1>1. Home(h) \in 0..(cap - 1)
  BY HomeInside
<1>. QED
  BY <1>1 DEF Passed

-----------------------------------------------------------------------------
(* What the invariant says of the sizes. *)

\* The tables and what waits to be moved are finite.
LEMMA Finite ==
    ASSUME TypeOK
    PROVE  /\ IsFiniteSet(DOMAIN slots) /\ Cardinality(DOMAIN slots) \in Nat
           /\ IsFiniteSet(DOMAIN old) /\ Cardinality(DOMAIN old) \in Nat
           /\ IsFiniteSet(Waiting) /\ Cardinality(Waiting) \in Nat
<1>1. IsFiniteSet(0..(cap - 1)) /\ IsFiniteSet(0..(oldCap - 1))
  BY FS_Interval DEF TypeOK
<1>2. IsFiniteSet(DOMAIN slots) /\ IsFiniteSet(DOMAIN old)
  BY <1>1, FS_Subset DEF TypeOK
<1>3. IsFiniteSet(Waiting)
  BY <1>2, FS_Subset DEF Waiting
<1>. QED
  BY <1>2, <1>3, FS_CardinalityType

\* The load factor leaves a free slot.
LEMMA HasRoom == IInv => RoomLeft
<1>. SUFFICES ASSUME IInv
              PROVE  RoomLeft
  OBVIOUS
<1>1. Cardinality(DOMAIN slots) \in Nat /\ Cardinality(Waiting) \in Nat
  BY Finite DEF IInv
<1>2. pc \in {"idle", "find", "fold"} \/ pc \in {"grow", "place", "insert"}
  BY DEF IInv, TypeOK
<1>. QED
  BY <1>1, <1>2 DEF IInv, Counted, RoomLeft, TypeOK

-----------------------------------------------------------------------------
(* Every step preserves the invariant. *)

USE GroupTableAssumption

\* The table is empty.
LEMMA InitInv == Init => IInv
<1>. SUFFICES ASSUME Init
              PROVE  IInv
  OBVIOUS
<1>1. DOMAIN slots = {} /\ DOMAIN old = {} /\ Waiting = {}
  BY DEF Init, NoSlots, Waiting
<1>2. TypeOK
  BY <1>1 DEF Init, TypeOK
<1>3. Reachable
  BY <1>1 DEF Reachable, OneGroup
<1>4. Counted
  BY <1>1, FS_EmptySet DEF Init, Counted
<1>5. Probed /\ OldGroups /\ Missing /\ Found
  BY <1>1 DEF Init, Probed, OldGroups, Missing, Found
<1>. QED
  BY <1>2, <1>3, <1>4, <1>5 DEF IInv

\* Steps that leave the tables alone.
LEMMA SameTables ==
    ASSUME UNCHANGED <<hashOf, cap, slots>>, Reachable
    PROVE  Reachable'
BY DEF Reachable, OneGroup, Passed, Home

\* A row comes: its key is looked up from the home slot on.
LEMMA RowStep ==
    ASSUME IInv, NEW k \in Key, Row(k)
    PROVE  IInv'
<1>. USE DEF IInv, Row
<1>1. idx' \in 0..(cap - 1) /\ Passed(hashOf[k], idx') = {}
  BY HomeInside, PassedNone DEF TypeOK
<1>2. TypeOK'
  BY <1>1 DEF TypeOK
<1>3. Reachable'
  BY SameTables
<1>4. Waiting' = {}
  BY DEF Waiting
<1>5. Counted' /\ OldGroups' /\ Missing' /\ Found'
  BY <1>4 DEF Counted, OldGroups, Missing, Found
<1>6. Probed'
  BY <1>1 DEF Probed, Passed, Home
<1>. QED
  BY <1>2, <1>3, <1>5, <1>6

\* findBy* meets the group of the key.
LEMMA FindHitStep ==
    ASSUME IInv, FindHit
    PROVE  IInv'
<1>. USE DEF IInv, FindHit
<1>1. TypeOK' /\ Reachable'
  BY SameTables DEF TypeOK
<1>2. Waiting' = {}
  BY DEF Waiting
<1>. QED
  BY <1>1, <1>2 DEF Counted, OldGroups, Missing, Found, Probed, Full

\* findBy* passes the slot of another key.
LEMMA FindNextStep ==
    ASSUME IInv, FindNext
    PROVE  IInv'
<1>. USE DEF IInv, FindNext
<1>1. idx \in 0..(cap - 1) /\ idx' \in 0..(cap - 1)
  BY NextInside DEF TypeOK
<1>2. TypeOK' /\ Reachable'
  BY <1>1, SameTables DEF TypeOK
<1>3. Waiting' = {}
  BY DEF Waiting
<1>4. slots[idx].key # key
  BY DEF Reachable, Full
<1>5. Passed(hashOf[key], idx') \subseteq Passed(hashOf[key], idx) \cup {idx}
  BY <1>1, PassedNext DEF TypeOK
<1>6. \A j \in Passed(hashOf[key], idx') : j \in DOMAIN slots /\ slots[j].key # key
  BY <1>4, <1>5 DEF Probed, Full
<1>7. Probed'
  BY <1>6 DEF Probed, Passed, Home
<1>. QED
  BY <1>2, <1>3, <1>7 DEF Counted, OldGroups, Missing, Found

\* When findBy* meets a free slot there is no group of the key, for it would be reachable.
LEMMA NotFound ==
    ASSUME IInv, FindMiss
    PROVE  \A j \in DOMAIN slots : slots[j].key # key
<1>. USE DEF IInv, FindMiss
<1>. SUFFICES ASSUME NEW j \in DOMAIN slots, slots[j].key = key
              PROVE  FALSE
  OBVIOUS
<1>1. j # idx /\ {j, idx} \subseteq 0..(cap - 1)
  BY DEF Full, TypeOK
<1>2. idx \notin Passed(hashOf[key], j)
  BY DEF Reachable, Full
<1>3. j \notin Passed(hashOf[key], idx)
  BY DEF Probed
<1>. QED
  BY <1>1, <1>2, <1>3, PassedOrders DEF TypeOK

\* findBy* meets a free slot: the group is inserted, after a grow if the table is too full.
LEMMA FindMissStep ==
    ASSUME IInv, FindMiss
    PROVE  IInv'
<1>. USE DEF IInv, FindMiss
<1>1. CASE 10 * (size + 1) > 7 * cap
  <2>1. DOMAIN slots' = {}
    BY <1>1 DEF NoSlots
  <2>2. Waiting' = DOMAIN slots
    <3>1. \A n \in DOMAIN slots : n >= 0
      BY DEF TypeOK
    <3>2. old' = slots /\ i' = 0 /\ pc' = "grow"
      BY <1>1
    <3>3. Waiting' = {n \in DOMAIN slots : n >= 0}
      BY <3>2 DEF Waiting
    <3>. QED
      BY <3>1, <3>3
  <2>3. cap' = 2 * cap /\ cap' \in Nat \ {0} /\ oldCap' = cap /\ i' = 0
    BY <1>1 DEF TypeOK
  <2>4. TypeOK'
    BY <1>1, <2>1, <2>3 DEF TypeOK
  <2>5. Reachable'
    BY <2>1 DEF Reachable, OneGroup
  <2>6. Counted'
    <3>1. Cardinality({}) = 0 /\ Cardinality(DOMAIN slots) \in Nat
      BY FS_EmptySet, Finite
    <3>2. size' = Cardinality(DOMAIN slots') + Cardinality(Waiting')
      BY <2>1, <2>2, <3>1 DEF Counted
    <3>3. 10 * (size + 1) <= 14 * cap
      BY <3>1 DEF Counted, TypeOK
    <3>. QED
      BY <1>1, <2>3, <3>2, <3>3 DEF Counted, TypeOK
  <2>7. OldGroups'
    BY <1>1, <2>1, <2>2 DEF OldGroups, Reachable, OneGroup
  <2>8. Missing'
    BY <1>1, <2>1, <2>2, NotFound DEF Missing
  <2>9. Probed' /\ Found'
    BY <1>1 DEF Probed, Found
  <2>. QED
    BY <2>4, <2>5, <2>6, <2>7, <2>8, <2>9
<1>2. CASE ~(10 * (size + 1) > 7 * cap)
  <2>1. idx' \in 0..(cap - 1) /\ Passed(hashOf[key], idx') = {}
    BY <1>2, HomeInside, PassedNone DEF TypeOK
  <2>2. TypeOK' /\ Reachable'
    BY <1>2, <2>1, SameTables DEF TypeOK
  <2>3. Waiting' = {}
    BY <1>2 DEF Waiting
  <2>4. Counted'
    BY <1>2, <2>3, FS_EmptySet, Finite DEF Counted, TypeOK
  <2>5. Probed'
    BY <1>2, <2>1 DEF Probed, Passed, Home
  <2>6. OldGroups' /\ Missing' /\ Found'
    BY <1>2, <2>3, NotFound DEF OldGroups, Missing, Found
  <2>. QED
    BY <2>2, <2>4, <2>5, <2>6
<1>. QED
  BY <1>1, <1>2

\* grow passes a free slot of the old table.
LEMMA GrowSkipStep ==
    ASSUME IInv, GrowSkip
    PROVE  IInv'
<1>. USE DEF IInv, GrowSkip
<1>1. TypeOK' /\ Reachable'
  BY SameTables DEF TypeOK
<1>2. Waiting' = Waiting
  BY DEF Waiting, TypeOK
<1>. QED
  BY <1>1, <1>2 DEF Counted, OldGroups, Missing, Found, Probed

\* grow takes the next group of the old table.
LEMMA GrowNextStep ==
    ASSUME IInv, GrowNext
    PROVE  IInv'
<1>. USE DEF IInv, GrowNext
<1>1. old[i].hash \in Nat
  BY DEF TypeOK, Slot
<1>2. idx' \in 0..(cap - 1) /\ Passed(old[i].hash, idx') = {}
  BY <1>1, HomeInside, PassedNone DEF TypeOK
<1>3. TypeOK' /\ Reachable'
  BY <1>2, SameTables DEF TypeOK
<1>4. Waiting' = Waiting
  BY DEF Waiting
<1>5. Probed'
  BY <1>2 DEF Probed, Passed, Home
<1>. QED
  BY <1>3, <1>4, <1>5 DEF Counted, OldGroups, Missing, Found

\* What Put leaves of Reachable when it ends a probe for its group.
LEMMA PutReachable ==
    ASSUME TypeOK, Reachable, UNCHANGED <<hashOf, cap>>,
           NEW s \in Slot, ~Full(idx), Put(idx, s),
           Passed(s.hash, idx) \subseteq DOMAIN slots,
           s.hash = hashOf[s.key],
           \A j \in DOMAIN slots : slots[j].key # s.key
    PROVE  /\ Reachable'
           /\ DOMAIN slots' = DOMAIN slots \cup {idx}
           /\ \A j \in DOMAIN slots' : slots'[j] = IF j = idx THEN s ELSE slots[j]
           /\ Cardinality(DOMAIN slots') = Cardinality(DOMAIN slots) + 1
<1>1. /\ DOMAIN slots' = DOMAIN slots \cup {idx}
      /\ \A j \in DOMAIN slots' : slots'[j] = IF j = idx THEN s ELSE slots[j]
  BY DEF Put
<1>2. idx \notin DOMAIN slots
  BY DEF Full
<1>3. Cardinality(DOMAIN slots') = Cardinality(DOMAIN slots) + 1
  BY <1>1, <1>2, Finite, FS_AddElement
<1>4. OneGroup'
  BY <1>1, <1>2 DEF Reachable, OneGroup
<1>5. ASSUME NEW j \in DOMAIN slots'
      PROVE  /\ slots'[j].hash = hashOf[slots'[j].key]
             /\ Passed(slots'[j].hash, j) \subseteq DOMAIN slots'
  BY <1>1, <1>2 DEF Reachable
<1>6. Reachable'
  BY <1>4, <1>5 DEF Reachable, Passed, Home
<1>. QED
  BY <1>1, <1>3, <1>6

\* grow puts the group into the free slot its probe has come to.
LEMMA PlaceStep ==
    ASSUME IInv, Place
    PROVE  IInv'
<1>. USE DEF IInv, Place
<1>1. i \in Waiting /\ old[i] \in Slot
  BY DEF Probed, Waiting, TypeOK
<1>2. /\ Reachable'
      /\ DOMAIN slots' = DOMAIN slots \cup {idx}
      /\ \A j \in DOMAIN slots' : slots'[j] = IF j = idx THEN old[i] ELSE slots[j]
      /\ Cardinality(DOMAIN slots') = Cardinality(DOMAIN slots) + 1
  BY <1>1, PutReachable DEF Probed, OldGroups
<1>3. Waiting' = Waiting \ {i} /\ i < oldCap
  BY <1>1 DEF Waiting, TypeOK
<1>4. TypeOK'
  BY <1>1, <1>2, <1>3 DEF TypeOK
<1>5. Counted'
  <2>1. Cardinality(Waiting') = Cardinality(Waiting) - 1
    BY <1>1, <1>3, Finite, FS_RemoveElement
  <2>. QED
    BY <1>2, <2>1, Finite DEF Counted
<1>6. OldGroups'
  BY <1>1, <1>2, <1>3 DEF OldGroups
<1>7. Missing'
  BY <1>1, <1>2, <1>3 DEF Missing
<1>8. Probed' /\ Found'
  BY DEF Probed, Found
<1>. QED
  BY <1>2, <1>4, <1>5, <1>6, <1>7, <1>8

\* grow has moved every group.
LEMMA GrowEndStep ==
    ASSUME IInv, GrowEnd
    PROVE  IInv'
<1>. USE DEF IInv, GrowEnd
<1>1. idx' \in 0..(cap - 1) /\ Passed(hashOf[key], idx') = {}
  BY HomeInside, PassedNone DEF TypeOK
<1>2. TypeOK' /\ Reachable'
  BY <1>1, SameTables DEF TypeOK
<1>3. Waiting = {} /\ Waiting' = {}
  BY DEF Waiting, TypeOK
<1>4. Probed'
  BY <1>1 DEF Probed, Passed, Home
<1>. QED
  BY <1>2, <1>3, <1>4 DEF Counted, OldGroups, Missing, Found

\* A probe of insertNew or grow passes a full slot.
LEMMA ProbeOnStep ==
    ASSUME IInv, ProbeOn
    PROVE  IInv'
<1>. USE DEF IInv, ProbeOn
<1>1. idx \in 0..(cap - 1) /\ idx' \in 0..(cap - 1)
  BY NextInside DEF TypeOK
<1>2. TypeOK' /\ Reachable'
  BY <1>1, SameTables DEF TypeOK
<1>3. Waiting' = Waiting
  BY DEF Waiting
<1>4. ASSUME NEW h \in Nat, Passed(h, idx) \subseteq DOMAIN slots
      PROVE  Passed(h, idx') \subseteq DOMAIN slots
  BY <1>1, <1>4, PassedNext DEF Full, TypeOK
<1>5. Probed'
  <2>1. pc = "insert" => Passed(hashOf[key], idx') \subseteq DOMAIN slots
    BY <1>4 DEF Probed, TypeOK
  <2>2. pc = "place" => i \in DOMAIN old /\ Passed(old[i].hash, idx') \subseteq DOMAIN slots
    BY <1>4 DEF Probed, TypeOK, Slot
  <2>. QED
    BY <2>1, <2>2 DEF Probed, Passed, Home
<1>. QED
  BY <1>2, <1>3, <1>5 DEF Counted, OldGroups, Missing, Found

\* insertNew puts the group into the free slot its probe has come to.
LEMMA InsertStep ==
    ASSUME IInv, Insert
    PROVE  IInv'
<1>. DEFINE s == [hash |-> hashOf[key], key |-> key, count |-> 0]
<1>. USE DEF IInv, Insert
<1>1. s \in Slot /\ s.hash = hashOf[key] /\ s.key = key
  BY DEF Slot, TypeOK
<1>2. /\ Reachable'
      /\ DOMAIN slots' = DOMAIN slots \cup {idx}
      /\ \A j \in DOMAIN slots' : slots'[j] = IF j = idx THEN s ELSE slots[j]
      /\ Cardinality(DOMAIN slots') = Cardinality(DOMAIN slots) + 1
  BY <1>1, PutReachable DEF Probed, Missing
<1>3. Waiting = {} /\ Waiting' = {}
  BY DEF Waiting
<1>4. TypeOK'
  BY <1>1, <1>2 DEF TypeOK
<1>5. Counted'
  BY <1>2, <1>3, Finite, FS_EmptySet DEF Counted, TypeOK
<1>6. Found'
  BY <1>1, <1>2 DEF Found
<1>. QED
  BY <1>2, <1>3, <1>4, <1>5, <1>6 DEF OldGroups, Missing, Probed

\* The row is counted in its group.
LEMMA FoldStep ==
    ASSUME IInv, Fold
    PROVE  IInv'
<1>. USE DEF IInv, Fold
<1>1. idx \in DOMAIN slots /\ slots[idx] \in Slot
  BY DEF Found, TypeOK
<1>2. /\ DOMAIN slots' = DOMAIN slots
      /\ \A j \in DOMAIN slots : /\ slots'[j] \in Slot
                                 /\ slots'[j].hash = slots[j].hash
                                 /\ slots'[j].key = slots[j].key
  BY <1>1 DEF Slot, TypeOK
<1>3. TypeOK'
  BY <1>2 DEF TypeOK
<1>4. Reachable'
  BY <1>2 DEF Reachable, OneGroup, Passed, Home
<1>5. Waiting' = {}
  BY DEF Waiting
<1>. QED
  BY <1>2, <1>3, <1>4, <1>5 DEF Counted, OldGroups, Missing, Found, Probed

-----------------------------------------------------------------------------
(* The theorems about groupTable. *)

\* The invariant holds throughout every behaviour.
THEOREM Invariance == Spec => []IInv
<1>1. IInv /\ [Next]_vars => IInv'
  <2>. SUFFICES ASSUME IInv, [Next]_vars
                PROVE  IInv'
    OBVIOUS
  <2>1. ASSUME NEW k \in Key, Row(k) PROVE IInv'
    BY <2>1, RowStep
  <2>2. CASE FindHit \/ FindNext \/ FindMiss
    BY <2>2, FindHitStep, FindNextStep, FindMissStep
  <2>3. CASE GrowSkip \/ GrowNext \/ Place \/ GrowEnd
    BY <2>3, GrowSkipStep, GrowNextStep, PlaceStep, GrowEndStep
  <2>4. CASE ProbeOn \/ Insert \/ Fold
    BY <2>4, ProbeOnStep, InsertStep, FoldStep
  <2>5. CASE UNCHANGED vars
    <3>1. Waiting' = Waiting
      BY <2>5 DEF vars, Waiting
    <3>. QED
      BY <2>5, <3>1 DEF vars, IInv, TypeOK, Reachable, OneGroup, Counted, Probed,
                        OldGroups, Missing, Found, Passed, Home
  <2>. QED
    BY <2>1, <2>2, <2>3, <2>4, <2>5 DEF Next, Work
<1>. QED
  BY <1>1, InitInv, PTL DEF Spec

\* The variables keep their types.
THEOREM TypeCorrect == Spec => []TypeOK
<1>1. IInv => TypeOK
  BY DEF IInv
<1>. QED
  BY <1>1, Invariance, PTL

\* findBy* finds every group there is, also with colliding hashes, around the end of
\* the table and half-way through a grow (grouptable.go:81-128), and insertNew
\* and grow never make a second group of a key (grouptable.go:40-79).
THEOREM GroupsAreFound == Spec => []Reachable
<1>1. IInv => Reachable
  BY DEF IInv
<1>. QED
  BY <1>1, Invariance, PTL

\* insertNew grows the table in time for every probe loop to meet a free slot
\* (grouptable.go:66-79).
THEOREM ProbesEnd == Spec => []RoomLeft
BY HasRoom, Invariance, PTL

-----------------------------------------------------------------------------
(* The table implements GroupMap. *)

\* No key has two groups, wherever they are.
LEMMA OneGroupEach ==
    ASSUME IInv, NEW g \in Groups, NEW h \in Groups, g.key = h.key
    PROVE  g = h
BY DEF IInv, Groups, Reachable, OneGroup, OldGroups

Tallied ==
    \A k \in Key :
        /\ \A g \in Groups : g.key = k => Tally[k] = g.count
        /\ (\A g \in Groups : g.key # k) => Tally[k] = 0

\* The map is what the groups say, as no key has two.
LEMMA TallyIs == IInv => Tallied
BY OneGroupEach DEF Tally, Tallied

\* A step that moves groups, or touches none, counts nothing.
LEMMA SameTally ==
    ASSUME Groups' = Groups
    PROVE  Tally' = Tally
BY DEF Tally

\* A row coming is a question to the map.
LEMMA RowAsks ==
    ASSUME IInv, NEW k \in Key, Row(k)
    PROVE  AbstractMap!Ask(k)
<1>1. Groups' = Groups
  BY DEF Row, Groups, Waiting
<1>. QED
  BY <1>1, SameTally DEF Row, AbstractMap!Ask

\* A lookup and a grow change no group.
LEMMA SameGroups ==
    ASSUME IInv,
           \/ FindHit \/ FindNext \/ FindMiss
           \/ GrowSkip \/ GrowNext \/ Place \/ GrowEnd \/ ProbeOn
    PROVE  Groups' = Groups
<1>. USE DEF IInv
<1>1. CASE FindHit \/ FindNext \/ GrowNext \/ ProbeOn
  <2>1. slots' = slots /\ old' = old /\ Waiting' = Waiting
    BY <1>1 DEF FindHit, FindNext, GrowNext, ProbeOn, Waiting
  <2>. QED
    BY <2>1 DEF Groups
<1>2. CASE FindMiss
  <2>1. DOMAIN slots \subseteq Nat /\ Waiting = {}
    BY <1>2 DEF TypeOK, FindMiss, Waiting
  <2>2. CASE pc' = "grow"
    <3>1. old' = slots /\ DOMAIN slots' = {}
      BY <1>2, <2>2 DEF FindMiss, NoSlots
    <3>2. Waiting' = DOMAIN slots
      BY <1>2, <2>1, <2>2 DEF FindMiss, Waiting
    <3>. QED
      BY <2>1, <3>1, <3>2 DEF Groups
  <2>3. CASE pc' # "grow"
    <3>1. slots' = slots /\ Waiting' = {}
      BY <1>2, <2>3 DEF FindMiss, Waiting
    <3>. QED
      BY <2>1, <3>1 DEF Groups
  <2>. QED
    BY <2>2, <2>3
<1>3. CASE GrowSkip
  <2>1. slots' = slots /\ old' = old /\ Waiting' = Waiting
    BY <1>3 DEF GrowSkip, Waiting, TypeOK
  <2>. QED
    BY <2>1 DEF Groups
<1>4. CASE Place
  <2>1. i \in Waiting /\ Waiting' = Waiting \ {i} /\ old' = old
    BY <1>4 DEF Place, Probed, Waiting, TypeOK
  <2>2. idx \notin DOMAIN slots
    BY <1>4 DEF Place, Full
  <2>3. {slots'[j] : j \in DOMAIN slots'} = {slots[j] : j \in DOMAIN slots} \cup {old[i]}
    BY <1>4, <2>2 DEF Place, Put
  <2>. QED
    BY <2>1, <2>3 DEF Groups
<1>5. CASE GrowEnd
  <2>1. slots' = slots /\ Waiting = {} /\ Waiting' = {}
    BY <1>5 DEF GrowEnd, Waiting, TypeOK
  <2>. QED
    BY <2>1 DEF Groups
<1>. QED
  BY <1>1, <1>2, <1>3, <1>4, <1>5

\* Probing and moving groups about is no step of the map.
LEMMA MovesStutter ==
    ASSUME IInv,
           \/ FindHit \/ FindNext \/ FindMiss
           \/ GrowSkip \/ GrowNext \/ Place \/ GrowEnd \/ ProbeOn
    PROVE  UNCHANGED AbstractMap!vars
<1>1. Tally' = Tally
  BY SameGroups, SameTally
<1>2. pc # "idle" /\ pc' # "idle" /\ key' = key
  BY DEF FindHit, FindNext, FindMiss, GrowSkip, GrowNext, Place, GrowEnd, ProbeOn
<1>. QED
  BY <1>1, <1>2 DEF AbstractMap!vars

\* A new group has no rows yet.
LEMMA InsertStutters ==
    ASSUME IInv, Insert
    PROVE  UNCHANGED AbstractMap!vars
<1>. DEFINE s == [hash |-> hashOf[key], key |-> key, count |-> 0]
<1>1. Waiting = {} /\ Waiting' = {} /\ idx \notin DOMAIN slots
  BY DEF Insert, Waiting, Full
<1>2. Groups' = Groups \cup {s}
  BY <1>1 DEF Insert, Put, Groups
<1>3. \A g \in Groups : g.key # key
  BY <1>1 DEF Insert, IInv, Missing, Groups
<1>4. ASSUME NEW k \in Key
      PROVE  Tally'[k] = Tally[k]
  <2>1. CASE k = key
    BY <1>2, <1>3, <2>1 DEF Tally
  <2>2. CASE k # key
    <3>1. \A g : g.key = k => (g \in Groups <=> g \in Groups')
      BY <1>2, <2>2
    <3>. QED
      BY <3>1 DEF Tally
  <2>. QED
    BY <2>1, <2>2
<1>5. Tally' = Tally
  BY <1>4 DEF Tally
<1>. QED
  BY <1>5 DEF Insert, AbstractMap!vars

\* Counting a row is the map's answer.
LEMMA FoldFolds ==
    ASSUME Tallied, Tallied', IInv, Fold
    PROVE  AbstractMap!Fold(key)
<1>. DEFINE s == [slots[idx] EXCEPT !.count = @ + 1]
<1>1. Waiting = {} /\ Waiting' = {} /\ idx \in DOMAIN slots /\ slots[idx].key = key
  BY DEF Fold, Waiting, IInv, Found
<1>2. slots[idx] \in Slot /\ key \in Key
  BY <1>1 DEF IInv, TypeOK
<1>3. /\ DOMAIN slots' = DOMAIN slots
      /\ \A j \in DOMAIN slots : slots'[j] = IF j = idx THEN s ELSE slots[j]
  BY <1>1 DEF Fold
<1>4. Groups = {slots[j] : j \in DOMAIN slots} /\ Groups' = {slots'[j] : j \in DOMAIN slots}
  BY <1>1, <1>3 DEF Groups
<1>5. s.key = key /\ s.count = slots[idx].count + 1
  BY <1>1, <1>2 DEF Slot
<1>. HIDE DEF s
<1>6. Tally'[key] = Tally[key] + 1
  <2>1. slots[idx] \in Groups /\ s \in Groups'
    BY <1>1, <1>3, <1>4
  <2>2. Tally[key] = slots[idx].count
    BY <1>1, <1>2, <2>1 DEF Tallied
  <2>3. Tally'[key] = s.count
    BY <1>2, <1>5, <2>1 DEF Tallied
  <2>. QED
    BY <1>5, <2>2, <2>3
<1>7. ASSUME NEW k \in Key, k # key
      PROVE  Tally'[k] = Tally[k]
  <2>1. \A g : g.key = k => (g \in Groups <=> g \in Groups')
    BY <1>1, <1>3, <1>4, <1>5, <1>7
  <2>2. CASE \E g \in Groups : g.key = k
    <3>1. PICK g \in Groups : g.key = k
      BY <2>2
    <3>2. g \in Groups'
      BY <2>1, <3>1
    <3>. QED
      BY <1>7, <3>1, <3>2 DEF Tallied
  <2>3. CASE \A g \in Groups : g.key # k
    BY <2>1, <2>3 DEF Tallied
  <2>. QED
    BY <2>2, <2>3
<1>8. Tally' = [Tally EXCEPT ![key] = @ + 1]
  <2>1. Tally' = [k \in Key |-> Tally'[k]] /\ Tally = [k \in Key |-> Tally[k]]
    BY DEF Tally
  <2>. QED
    BY <1>6, <1>7, <2>1
<1>. QED
  BY <1>8 DEF Fold, AbstractMap!Fold

\* A groupTable is a map: every row is counted in the group of its own key, and a
\* grow, a collision or a hash that two keys share changes no group
\* (grouptable.go:9-14).
THEOREM ImplementsMap == Spec => AbstractMap!Safety
<1>1. Init => AbstractMap!Init
  BY DEF Init, NoSlots, Tally, Groups, Waiting, AbstractMap!Init
<1>2. Tallied /\ Tallied' /\ IInv /\ [Next]_vars => [AbstractMap!Next]_(AbstractMap!vars)
  <2>. SUFFICES ASSUME Tallied, Tallied', IInv, [Next]_vars
                PROVE  [AbstractMap!Next]_(AbstractMap!vars)
    OBVIOUS
  <2>1. ASSUME NEW k \in Key, Row(k) PROVE AbstractMap!Next
    BY <2>1, RowAsks DEF AbstractMap!Next
  <2>2. CASE Fold
    BY <2>2, FoldFolds DEF AbstractMap!Next, IInv, TypeOK
  <2>3. CASE Insert
    BY <2>3, InsertStutters
  <2>4. CASE Work /\ ~Insert /\ ~Fold
    BY <2>4, MovesStutter DEF Work
  <2>5. CASE UNCHANGED vars
    <3>1. Groups' = Groups
      BY <2>5 DEF vars, Groups, Waiting
    <3>. QED
      BY <2>5, <3>1, SameTally DEF vars, AbstractMap!vars
  <2>. QED
    BY <2>1, <2>2, <2>3, <2>4, <2>5 DEF Next, Work
<1>. QED
  BY <1>1, <1>2, TallyIs, Invariance, PTL DEF Spec, AbstractMap!Safety
=============================================================================
