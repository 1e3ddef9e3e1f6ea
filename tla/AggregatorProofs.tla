--------------------------- MODULE AggregatorProofs ---------------------------
(***************************************************************************)
(* What one Apply does to the totals, for any result, retention and clock: *)
(* facts that the proofs about Pipeline and Exporter share.                *)
(*                                                                         *)
(* A total is a sum over the members of a group, which the folds of the    *)
(* community modules define by recursion over sets.  The first section     *)
(* gives sums of integers the equations they are reasoned about with.      *)
(***************************************************************************)
EXTENDS Aggregator, FiniteSetTheorems, TLAPS

-----------------------------------------------------------------------------
(* Sums.                                                                   *)

\* Induction over the subsets of a finite set, said of a set of subsets.
LEMMA SetInduction ==
  ASSUME NEW S, IsFiniteSet(S), NEW G,
         \A T \in SUBSET S : (\A x \in T : T \ {x} \in G) => T \in G
  PROVE  \A T \in SUBSET S : T \in G
<1> DEFINE Bad == {T \in SUBSET S : T \notin G}
<1> SUFFICES ASSUME Bad # {} PROVE FALSE
  OBVIOUS
<1>1. Bad \subseteq FiniteSubsetsOf(S)
  BY FS_FiniteSubsetsOfFinite
<1>2. IsWellFoundedOn(StrictSubsetOrdering(S), FiniteSubsetsOf(S))
  BY FS_StrictSubsetOrderingWellFounded
<1>3. PICK T \in Bad : \A U \in Bad : <<U, T>> \notin StrictSubsetOrdering(S)
  <2> HIDE DEF Bad
  <2> QED
    BY <1>1, <1>2, WFMin
<1>4. ASSUME NEW x \in T PROVE T \ {x} \in G
  <2>1. <<T \ {x}, T>> \in StrictSubsetOrdering(S)
    BY <1>3, <1>4 DEF StrictSubsetOrdering
  <2> QED
    BY <1>3, <2>1
<1> QED
  BY <1>3, <1>4

\* The same over numbers.
LEMMA NumberInduction ==
  ASSUME NEW G, 0 \in G, \A n \in Nat : n \in G => n + 1 \in G
  PROVE  Nat \subseteq G
<1> SUFFICES ASSUME NEW k \in Nat PROVE k \in G
  OBVIOUS
<1> DEFINE H == {T \in SUBSET (1..k) : Cardinality(T) \in G}
<1>1. IsFiniteSet(1..k) /\ Cardinality(1..k) = k
  BY FS_Interval
<1>2. {} \in H
  BY FS_EmptySet
<1>3. ASSUME NEW T \in SUBSET (1..k), \A x \in T : T \ {x} \in H PROVE T \in H
  <2> SUFFICES ASSUME NEW x \in T PROVE T \in H
    BY <1>2
  <2>1. IsFiniteSet(T)
    BY <1>1, FS_Subset
  <2>2. Cardinality(T \ {x}) = Cardinality(T) - 1 /\ Cardinality(T) \in Nat
        /\ Cardinality(T \ {x}) \in Nat
    BY <2>1, FS_RemoveElement, FS_CardinalityType
  <2> QED
    BY <1>3, <2>2
<1> HIDE DEF H
<1>4. \A T \in SUBSET (1..k) : T \in H
  BY <1>1, <1>3, SetInduction
<1> QED
  BY <1>1, <1>4 DEF H

Pick(s) == CHOOSE x \in s : TRUE

\* g is the fold of f on D, a set of sets with the rest of each that is not empty.
FoldsOn(g, f, D) ==
  g = [s \in D |-> IF s = {} THEN 0 ELSE f[Pick(s)] + g[s \ {Pick(s)}]]

\* The community modules' sum is the value of such a fold, if there is one.
LEMMA SumUnfold ==
  ASSUME NEW f, NEW S
  PROVE  SumFunctionOnSet(f, S) = (CHOOSE g : FoldsOn(g, f, SUBSET S))[S]
BY DEF SumFunctionOnSet, FoldFunctionOnSet, MapThenFoldSet, FoldsOn, Pick

\* The element that is summed next is one of the set.
LEMMA PickIn == \A s : s # {} => Pick(s) \in s
BY DEF Pick

\* There is one: by the number of elements.
LEMMA FoldExists ==
  ASSUME NEW f, NEW S, IsFiniteSet(S)
  PROVE  \E g : FoldsOn(g, f, SUBSET S)
<1> DEFINE Level(n) == {s \in SUBSET S : Cardinality(s) <= n}
           G == {n \in Nat : \E g : FoldsOn(g, f, Level(n))}
<1>0. \A s \in SUBSET S : IsFiniteSet(s) /\ Cardinality(s) \in Nat
  BY FS_Subset, FS_CardinalityType
<1>1. 0 \in G
  <2>1. \A s \in Level(0) : s = {}
    BY <1>0, FS_EmptySet
  <2>2. FoldsOn([s \in Level(0) |-> 0], f, Level(0))
    BY <2>1 DEF FoldsOn
  <2> QED
    BY <2>2
<1>2. ASSUME NEW n \in Nat, n \in G PROVE n + 1 \in G
  <2>1. PICK g : FoldsOn(g, f, Level(n))
    BY <1>2
  <2> DEFINE h == [s \in Level(n + 1) |->
                     IF s = {} THEN 0 ELSE f[Pick(s)] + g[s \ {Pick(s)}]]
  <2>2. \A s \in Level(n) : g[s] = IF s = {} THEN 0 ELSE f[Pick(s)] + g[s \ {Pick(s)}]
    BY <2>1 DEF FoldsOn
  <2>3. \A s \in Level(n) : s \in Level(n + 1) /\ h[s] = g[s]
    BY <1>0, <2>2
  <2>4. ASSUME NEW s \in Level(n + 1), s # {} PROVE s \ {Pick(s)} \in Level(n)
    BY <1>0, <2>4, PickIn, FS_RemoveElement
  <2>5. h = [s \in Level(n + 1) |-> IF s = {} THEN 0 ELSE f[Pick(s)] + h[s \ {Pick(s)}]]
    <3> DEFINE D == Level(n + 1)
               Of(k) == [s \in D |-> IF s = {} THEN 0 ELSE f[Pick(s)] + k[s \ {Pick(s)}]]
    <3>1. \A s \in D : s # {} => g[s \ {Pick(s)}] = h[s \ {Pick(s)}]
      BY <2>3, <2>4
    <3> HIDE DEF D, h
    <3>2. Of(g) = Of(h)
      BY <3>1
    <3> QED
      BY <3>2 DEF D, h
  <2>6. FoldsOn(h, f, Level(n + 1))
    BY <2>5 DEF FoldsOn
  <2> HIDE DEF h, Level
  <2>7. \E k : FoldsOn(k, f, Level(n + 1))
    BY <2>6
  <2> QED
    BY <2>7
<1>3. Cardinality(S) \in G
  <2> HIDE DEF G
  <2> QED
    BY <1>1, <1>2, FS_CardinalityType, NumberInduction
<1>4. Level(Cardinality(S)) = SUBSET S
  BY FS_Subset
<1> QED
  BY <1>3, <1>4

\* Two folds of one function agree where both are defined.
LEMMA FoldsAgree ==
  \A f, S, T, g, h :
    /\ IsFiniteSet(S) /\ T \subseteq S
    /\ FoldsOn(g, f, SUBSET S) /\ FoldsOn(h, f, SUBSET T)
    => g[T] = h[T]
<1> SUFFICES ASSUME NEW f, NEW S, NEW T \in SUBSET S, NEW g, NEW h, IsFiniteSet(S),
                    FoldsOn(g, f, SUBSET S), FoldsOn(h, f, SUBSET T)
             PROVE  g[T] = h[T]
  OBVIOUS
<1> DEFINE G == {U \in SUBSET T : g[U] = h[U]}
<1>1. ASSUME NEW U \in SUBSET T, \A x \in U : U \ {x} \in G PROVE U \in G
  <2>1. g[U] = IF U = {} THEN 0 ELSE f[Pick(U)] + g[U \ {Pick(U)}]
    BY DEF FoldsOn
  <2>2. h[U] = IF U = {} THEN 0 ELSE f[Pick(U)] + h[U \ {Pick(U)}]
    BY DEF FoldsOn
  <2> QED
    BY <1>1, <2>1, <2>2, PickIn
<1>2. IsFiniteSet(T)
  BY FS_Subset
<1> HIDE DEF G
<1>3. \A U \in SUBSET T : U \in G
  BY <1>1, <1>2, SetInduction
<1> QED
  BY <1>3 DEF G

\* So all sums over parts of a finite set are values of one fold.
LEMMA SumIsFold ==
  ASSUME NEW f, NEW S, IsFiniteSet(S)
  PROVE  \E g : /\ FoldsOn(g, f, SUBSET S)
               /\ \A U \in SUBSET S : SumFunctionOnSet(f, U) = g[U]
<1> DEFINE Fold(T) == CHOOSE g : FoldsOn(g, f, SUBSET T)
<1>1. ASSUME NEW T \in SUBSET S PROVE FoldsOn(Fold(T), f, SUBSET T)
  <2>1. \E g : FoldsOn(g, f, SUBSET T)
    BY FoldExists, FS_Subset
  <2> QED
    BY <2>1
<1>2. ASSUME NEW T \in SUBSET S PROVE SumFunctionOnSet(f, T) = Fold(T)[T]
  BY SumUnfold
<1> HIDE DEF Fold
<1>3. ASSUME NEW T \in SUBSET S PROVE Fold(S)[T] = Fold(T)[T]
  <2>1. FoldsOn(Fold(S), f, SUBSET S) /\ FoldsOn(Fold(T), f, SUBSET T)
    BY <1>1
  <2> QED
    BY <2>1, FoldsAgree
<1> QED
  BY <1>1, <1>2, <1>3

\* The two equations of the sum.
LEMMA SumEmpty ==
  ASSUME NEW f
  PROVE  SumFunctionOnSet(f, {}) = 0
<1>1. PICK g : FoldsOn(g, f, SUBSET {}) /\ SumFunctionOnSet(f, {}) = g[{}]
  BY SumIsFold, FS_EmptySet
<1> QED
  BY <1>1 DEF FoldsOn

\* The second: one element, then the rest.
LEMMA SumPick ==
  ASSUME NEW f, NEW S, IsFiniteSet(S), S # {}
  PROVE  SumFunctionOnSet(f, S) = f[Pick(S)] + SumFunctionOnSet(f, S \ {Pick(S)})
<1>1. PICK g : /\ FoldsOn(g, f, SUBSET S)
               /\ \A U \in SUBSET S : SumFunctionOnSet(f, U) = g[U]
  BY SumIsFold
<1>2. g[S] = f[Pick(S)] + g[S \ {Pick(S)}]
  BY <1>1 DEF FoldsOn
<1> QED
  BY <1>1, <1>2

\* A sum of naturals is one, a sum of integers too.
LEMMA SumType ==
  ASSUME NEW S, IsFiniteSet(S), NEW f, NEW V, V = Nat \/ V = Int, \A x \in S : f[x] \in V
  PROVE  SumFunctionOnSet(f, S) \in V
<1> DEFINE G == {T \in SUBSET S : SumFunctionOnSet(f, T) \in V}
<1>1. ASSUME NEW T \in SUBSET S, \A x \in T : T \ {x} \in G PROVE T \in G
  <2>1. CASE T = {}
    BY <2>1, SumEmpty
  <2>2. CASE T # {}
    <3>1. SumFunctionOnSet(f, T) = f[Pick(T)] + SumFunctionOnSet(f, T \ {Pick(T)})
      BY <2>2, SumPick, FS_Subset
    <3>2. Pick(T) \in T /\ SumFunctionOnSet(f, T \ {Pick(T)}) \in V
      BY <1>1, <2>2, PickIn
    <3> QED
      BY <3>1, <3>2
  <2> QED
    BY <2>1, <2>2
<1> HIDE DEF G
<1>2. \A T \in SUBSET S : T \in G
  BY <1>1, SetInduction
<1> QED
  BY <1>2 DEF G

\* Any element may be taken out first.
LEMMA SumRemove ==
  ASSUME NEW S, IsFiniteSet(S), NEW f, \A x \in S : f[x] \in Int
  PROVE  \A x \in S : SumFunctionOnSet(f, S) = f[x] + SumFunctionOnSet(f, S \ {x})
<1> DEFINE Sum(T) == SumFunctionOnSet(f, T)
           G == {T \in SUBSET S : \A x \in T : Sum(T) = f[x] + Sum(T \ {x})}
<1>0. \A T \in SUBSET S : Sum(T) \in Int
  BY FS_Subset, SumType
<1>1. ASSUME NEW T \in SUBSET S, \A x \in T : T \ {x} \in G, NEW x \in T
      PROVE  Sum(T) = f[x] + Sum(T \ {x})
  <2> DEFINE c == Pick(T)
  <2>1. Sum(T) = f[c] + Sum(T \ {c}) /\ c \in T
    BY SumPick, PickIn, FS_Subset
  <2>2. CASE x = c
    BY <2>1, <2>2
  <2>3. CASE x # c
    <3>1. Sum(T \ {c}) = f[x] + Sum((T \ {c}) \ {x})
      BY <1>1, <2>1, <2>3
    <3>2. Sum(T \ {x}) = f[c] + Sum((T \ {x}) \ {c})
      BY <1>1, <2>1, <2>3
    <3>3. (T \ {x}) \ {c} = (T \ {c}) \ {x}
      OBVIOUS
    <3>4. Sum((T \ {x}) \ {c}) = Sum((T \ {c}) \ {x})
      BY <3>3
    <3>5. f[x] \in Int /\ f[c] \in Int /\ Sum((T \ {c}) \ {x}) \in Int
      BY <1>0, <2>1
    <3> HIDE DEF c, Sum
    <3> QED
      BY <2>1, <3>1, <3>2, <3>4, <3>5
  <2> QED
    BY <2>2, <2>3
<1>2. ASSUME NEW T \in SUBSET S, \A x \in T : T \ {x} \in G PROVE T \in G
  BY <1>1, <1>2
<1> HIDE DEF G
<1>3. \A T \in SUBSET S : T \in G
  BY <1>2, SetInduction
<1> QED
  BY <1>3 DEF G

\* A finite set has a finite image.
LEMMA ImageFinite ==
  ASSUME NEW S, IsFiniteSet(S), NEW h
  PROVE  IsFiniteSet({h[x] : x \in S})
<1>1. [x \in S |-> h[x]] \in Surjection(S, {h[x] : x \in S})
  BY DEF Surjection
<1> QED
  BY <1>1, FS_Surjection

\* The sum over a single element.
LEMMA SumOne ==
  ASSUME NEW x, NEW f, f[x] \in Int
  PROVE  SumFunctionOnSet(f, {x}) = f[x]
<1>1. SumFunctionOnSet(f, {x}) = f[x] + SumFunctionOnSet(f, {x} \ {x})
  BY SumRemove, FS_Singleton
<1>2. {x} \ {x} = {}
  OBVIOUS
<1> QED
  BY <1>1, <1>2, SumEmpty

\* Equal terms, under other names, have equal sums, and zeros do not count.
LEMMA SumRenamed ==
  ASSUME NEW S, IsFiniteSet(S), NEW f, NEW g, NEW h,
         \A x \in S : f[x] \in Int /\ g[h[x]] = f[x],
         \A x, y \in S : h[x] = h[y] => x = y
  PROVE  SumFunctionOnSet(f, S) =
           SumFunctionOnSet(g, {h[x] : x \in {y \in S : f[y] # 0}})
<1> DEFINE Img(T) == {h[x] : x \in {y \in T : f[y] # 0}}
           G == {T \in SUBSET S : SumFunctionOnSet(f, T) = SumFunctionOnSet(g, Img(T))}
<1>1. ASSUME NEW T \in SUBSET S, \A x \in T : T \ {x} \in G, T # {}
      PROVE  SumFunctionOnSet(f, T) = SumFunctionOnSet(g, Img(T))
  <2>1. PICK x \in T : TRUE
    BY <1>1
  <2>2. SumFunctionOnSet(f, T) = f[x] + SumFunctionOnSet(f, T \ {x})
    BY SumRemove, FS_Subset
  <2>3. SumFunctionOnSet(f, T \ {x}) = SumFunctionOnSet(g, Img(T \ {x}))
    BY <1>1
  <2>4. SumFunctionOnSet(f, T \ {x}) \in Int
    BY SumType, FS_Subset
  <2>5. CASE f[x] = 0
    <3>1. Img(T \ {x}) = Img(T)
      BY <2>5
    <3> HIDE DEF Img
    <3> QED
      BY <2>2, <2>3, <2>4, <2>5, <3>1
  <2>6. CASE f[x] # 0
    <3>1. Img(T \ {x}) = Img(T) \ {h[x]} /\ h[x] \in Img(T)
      BY <2>6
    <3>2. IsFiniteSet(Img(T)) /\ \A y \in Img(T) : g[y] \in Int
      <4>1. IsFiniteSet({y \in T : f[y] # 0})
        BY FS_Subset
      <4> QED
        BY <4>1, ImageFinite
    <3>3. SumFunctionOnSet(g, Img(T)) = g[h[x]] + SumFunctionOnSet(g, Img(T) \ {h[x]})
      <4> HIDE DEF Img
      <4> QED
        BY <3>1, <3>2, SumRemove
    <3> QED
      BY <2>2, <2>3, <3>1, <3>3
  <2> QED
    BY <2>5, <2>6
<1>2. SumFunctionOnSet(f, {}) = SumFunctionOnSet(g, Img({}))
  <2>1. Img({}) = {}
    OBVIOUS
  <2> QED
    BY <2>1, SumEmpty
<1>3. ASSUME NEW T \in SUBSET S, \A x \in T : T \ {x} \in G PROVE T \in G
  BY <1>1, <1>2, <1>3
<1>4. \A T \in SUBSET S : T \in G
  <2> HIDE DEF G
  <2> QED
    BY <1>3, SetInduction
<1> QED
  BY <1>4

\* A sum of terms that are no greater is no greater.
LEMMA SumCompare ==
  ASSUME NEW S, IsFiniteSet(S), NEW f, NEW g,
         \A x \in S : f[x] \in Int /\ g[x] \in Int /\ f[x] <= g[x]
  PROVE  SumFunctionOnSet(f, S) <= SumFunctionOnSet(g, S)
<1> DEFINE G == {T \in SUBSET S : SumFunctionOnSet(f, T) <= SumFunctionOnSet(g, T)}
<1>1. ASSUME NEW T \in SUBSET S, \A x \in T : T \ {x} \in G PROVE T \in G
  <2>1. CASE T = {}
    BY <2>1, SumEmpty
  <2>2. ASSUME NEW x \in T PROVE T \in G
    <3>1. /\ SumFunctionOnSet(f, T) = f[x] + SumFunctionOnSet(f, T \ {x})
          /\ SumFunctionOnSet(g, T) = g[x] + SumFunctionOnSet(g, T \ {x})
      BY SumRemove, FS_Subset
    <3>2. SumFunctionOnSet(f, T \ {x}) \in Int /\ SumFunctionOnSet(g, T \ {x}) \in Int
      BY SumType, FS_Subset
    <3>3. SumFunctionOnSet(f, T \ {x}) <= SumFunctionOnSet(g, T \ {x})
      BY <1>1
    <3> QED
      BY <3>1, <3>2, <3>3
  <2> QED
    BY <2>1, <2>2
<1> HIDE DEF G
<1>2. \A T \in SUBSET S : T \in G
  BY <1>1, SetInduction
<1> QED
  BY <1>2 DEF G

\* A sum of sums, term by term.
LEMMA SumAdds ==
  ASSUME NEW S, IsFiniteSet(S), NEW f, NEW g, NEW h,
         \A x \in S : f[x] \in Int /\ g[x] \in Int /\ h[x] = f[x] + g[x]
  PROVE  SumFunctionOnSet(h, S) = SumFunctionOnSet(f, S) + SumFunctionOnSet(g, S)
<1> DEFINE Sum(k, T) == SumFunctionOnSet(k, T)
           G == {T \in SUBSET S : Sum(h, T) = Sum(f, T) + Sum(g, T)}
<1>0. \A x \in S : h[x] \in Int
  OBVIOUS
<1>1. ASSUME NEW T \in SUBSET S, \A x \in T : T \ {x} \in G PROVE T \in G
  <2>1. CASE T = {}
    BY <2>1, SumEmpty
  <2>2. ASSUME NEW x \in T PROVE T \in G
    <3>1. /\ Sum(f, T) = f[x] + Sum(f, T \ {x})
          /\ Sum(g, T) = g[x] + Sum(g, T \ {x})
          /\ Sum(h, T) = h[x] + Sum(h, T \ {x})
      BY <1>0, SumRemove, FS_Subset
    <3>2. Sum(f, T \ {x}) \in Int /\ Sum(g, T \ {x}) \in Int
      BY SumType, FS_Subset
    <3>3. Sum(h, T \ {x}) = Sum(f, T \ {x}) + Sum(g, T \ {x})
      BY <1>1
    <3> QED
      BY <3>1, <3>2, <3>3
  <2> QED
    BY <2>1, <2>2
<1> HIDE DEF G
<1>2. \A T \in SUBSET S : T \in G
  BY <1>1, SetInduction
<1> QED
  BY <1>2 DEF G

LEMMA SumZero ==
  ASSUME NEW S, IsFiniteSet(S), NEW f, \A x \in S : f[x] = 0
  PROVE  SumFunctionOnSet(f, S) = 0
<1>1. \A n \in Int : n = n + n => n = 0
  OBVIOUS
<1>2. PICK n \in Int : n = SumFunctionOnSet(f, S)
  BY SumType
<1>3. n = n + n
  BY <1>2, SumAdds
<1> QED
  BY <1>1, <1>2, <1>3

\* The sum over two sets that are apart.
LEMMA SumUnion ==
  ASSUME NEW S, IsFiniteSet(S), NEW f, \A x \in S : f[x] \in Int,
         NEW A \in SUBSET S, NEW B \in SUBSET S, A \cap B = {}
  PROVE  SumFunctionOnSet(f, A \cup B) = SumFunctionOnSet(f, A) + SumFunctionOnSet(f, B)
<1> DEFINE Sum(T) == SumFunctionOnSet(f, T)
           G == {T \in SUBSET B : Sum(A \cup T) = Sum(A) + Sum(T)}
<1>0. \A T \in SUBSET S : Sum(T) \in Int
  BY FS_Subset, SumType
<1>1. ASSUME NEW T \in SUBSET B, \A x \in T : T \ {x} \in G PROVE T \in G
  <2>1. CASE T = {}
    <3>1. A \cup T = A
      BY <2>1
    <3>2. Sum(A \cup T) = Sum(A)
      BY <3>1
    <3> QED
      BY <1>0, <2>1, <3>2, SumEmpty
  <2>2. ASSUME NEW x \in T PROVE T \in G
    <3>1. (A \cup T) \ {x} = A \cup (T \ {x}) /\ x \in A \cup T
      BY <2>2
    <3>2. A \cup T \in SUBSET S /\ A \cup (T \ {x}) \in SUBSET S /\ T \ {x} \in SUBSET S
      OBVIOUS
    <3>3. /\ Sum(A \cup T) = f[x] + Sum((A \cup T) \ {x})
          /\ Sum(T) = f[x] + Sum(T \ {x})
      BY <3>1, <3>2, SumRemove, FS_Subset
    <3>4. Sum(A \cup (T \ {x})) = Sum(A) + Sum(T \ {x})
      BY <1>1
    <3>5. Sum((A \cup T) \ {x}) = Sum(A \cup (T \ {x}))
      BY <3>1
    <3>6. Sum(A) \in Int /\ Sum(T \ {x}) \in Int /\ f[x] \in Int
      BY <1>0, <3>2
    <3> HIDE DEF Sum
    <3>7. Sum(A \cup T) = Sum(A) + Sum(T)
      BY <3>3, <3>4, <3>5, <3>6
    <3> QED
      BY <3>7
  <2> QED
    BY <2>1, <2>2
<1> HIDE DEF G
<1>2. \A T \in SUBSET B : T \in G
  BY <1>1, SetInduction, FS_Subset
<1> QED
  BY <1>2 DEF G

\* A part of a sum of naturals is no greater than the whole.
LEMMA SumPart ==
  ASSUME NEW S, IsFiniteSet(S), NEW f, \A x \in S : f[x] \in Nat, NEW T \in SUBSET S
  PROVE  SumFunctionOnSet(f, T) <= SumFunctionOnSet(f, S)
<1>1. T \cup (S \ T) = S
  OBVIOUS
<1>2. SumFunctionOnSet(f, T \cup (S \ T)) = SumFunctionOnSet(f, T) + SumFunctionOnSet(f, S \ T)
  BY SumUnion
<1>3. SumFunctionOnSet(f, T) \in Nat /\ SumFunctionOnSet(f, S \ T) \in Nat
  BY FS_Subset, SumType
<1>4. SumFunctionOnSet(f, S) = SumFunctionOnSet(f, T \cup (S \ T))
  BY <1>1
<1> QED
  BY <1>2, <1>3, <1>4

\* What goes to each of several receivers is, together, part of what there is.
LEMMA SumShared ==
  ASSUME NEW S, IsFiniteSet(S), NEW f, \A x \in S : f[x] \in Nat, NEW to,
         NEW R, IsFiniteSet(R), NEW share, \A r \in R : \A x : x \in share[r] <=> x \in S /\ to[x] = r,
         NEW g, \A r \in R : g[r] = SumFunctionOnSet(f, share[r])
  PROVE  SumFunctionOnSet(g, R) <= SumFunctionOnSet(f, S)
<1> DEFINE From(T) == {x \in S : to[x] \in T}
           Of(r) == {x \in S : to[x] = r}
           G == {T \in SUBSET R : SumFunctionOnSet(g, T) = SumFunctionOnSet(f, From(T))}
<1>a. \A r \in R : g[r] = SumFunctionOnSet(f, Of(r))
  <2> TAKE r \in R
  <2>1. share[r] = Of(r)
    OBVIOUS
  <2> QED
    BY <2>1
<1>0. \A r \in R : g[r] \in Int
  <2> TAKE r \in R
  <2>1. IsFiniteSet(Of(r)) /\ \A x \in Of(r) : f[x] \in Nat
    BY FS_Subset
  <2>2. SumFunctionOnSet(f, Of(r)) \in Nat
    BY <2>1, SumType
  <2> QED
    BY <1>a, <2>2
<1>1. ASSUME NEW T \in SUBSET R, \A r \in T : T \ {r} \in G PROVE T \in G
  <2>1. CASE T = {}
    <3>1. From(T) = {}
      BY <2>1
    <3>2. SumFunctionOnSet(f, From(T)) = 0
      BY <3>1, SumEmpty
    <3> QED
      BY <2>1, <3>2, SumEmpty
  <2>2. ASSUME NEW r \in T PROVE T \in G
    <3>1. SumFunctionOnSet(g, T) = g[r] + SumFunctionOnSet(g, T \ {r})
      <4>1. IsFiniteSet(T) /\ \A q \in T : g[q] \in Int
        BY <1>0, FS_Subset
      <4> HIDE DEF From, Of, G
      <4> QED
        BY <4>1, SumRemove
    <3>2. SumFunctionOnSet(g, T \ {r}) = SumFunctionOnSet(f, From(T \ {r}))
      BY <1>1
    <3>3. /\ From(T) = Of(r) \cup From(T \ {r})
          /\ Of(r) \cap From(T \ {r}) = {}
          /\ Of(r) \in SUBSET S /\ From(T \ {r}) \in SUBSET S
      OBVIOUS
    <3>4. g[r] = SumFunctionOnSet(f, Of(r))
      BY <1>a
    <3> HIDE DEF From, Of
    <3>5. SumFunctionOnSet(f, Of(r) \cup From(T \ {r})) =
            SumFunctionOnSet(f, Of(r)) + SumFunctionOnSet(f, From(T \ {r}))
      <4>1. \A x \in S : f[x] \in Int
        OBVIOUS
      <4>2. \A A, B \in SUBSET S : A \cap B = {} =>
              SumFunctionOnSet(f, A \cup B) = SumFunctionOnSet(f, A) + SumFunctionOnSet(f, B)
        BY <4>1, SumUnion
      <4> QED
        BY <3>3, <4>2
    <3>6. SumFunctionOnSet(f, From(T)) = SumFunctionOnSet(f, Of(r) \cup From(T \ {r}))
      BY <3>3
    <3> QED
      BY <3>1, <3>2, <3>4, <3>5, <3>6
  <2> QED
    BY <2>1, <2>2
<1> HIDE DEF G
<1>2. \A T \in SUBSET R : T \in G
  BY <1>1, SetInduction
<1>3. SumFunctionOnSet(g, R) = SumFunctionOnSet(f, From(R))
  BY <1>2 DEF G
<1> HIDE DEF From
<1>4. From(R) \in SUBSET S
  BY DEF From
<1> QED
  BY <1>3, <1>4, SumPart

-----------------------------------------------------------------------------
(* What Apply makes of the groups of a result.                             *)

\* A result is of finitely many processes, and its deltas are clamped.
Countable(procs) ==
  /\ IsFiniteSet(DOMAIN procs)
  /\ \A p \in DOMAIN procs : procs[p].d \in CounterValues

\* What a group gains is a natural number.
LEMMA AddedType ==
  ASSUME NEW procs, Countable(procs), NEW k, NEW c \in Counter
  PROVE  Added(procs, k, c) \in Nat
<1> DEFINE f == [p \in DOMAIN procs |-> Contribution(procs[p], c)]
<1>1. Members(procs, k) \subseteq DOMAIN procs
  BY DEF Members
<1>2. \A p \in Members(procs, k) : f[p] \in Nat
  BY <1>1 DEF Contribution, Countable, CounterValues
<1>3. IsFiniteSet(Members(procs, k))
  BY <1>1, FS_Subset DEF Countable
<1> HIDE DEF f
<1>4. SumFunctionOnSet(f, Members(procs, k)) \in Nat
  BY <1>2, <1>3, SumType
<1> QED
  BY <1>4 DEF Added, f

Counts(acc) == \A k \in DOMAIN acc : acc[k].cnt \in CounterValues

\* No counter goes backwards in accumulate.
LEMMA AccumulateGrows ==
  ASSUME NEW acc, Counts(acc), NEW procs, Countable(procs), NEW at
  PROVE  /\ DOMAIN Accumulate(acc, procs, at) = DOMAIN acc \cup Keys(procs)
         /\ Counts(Accumulate(acc, procs, at))
         /\ \A k \in DOMAIN acc :
              /\ \A c \in Counter : Accumulate(acc, procs, at)[k].cnt[c] >= acc[k].cnt[c]
              /\ k \notin Keys(procs) => Accumulate(acc, procs, at)[k] = acc[k]
         /\ \A k \in Keys(procs) : \A c \in Counter :
              Accumulate(acc, procs, at)[k].cnt[c] =
                (IF k \in DOMAIN acc THEN acc[k].cnt[c] ELSE 0) + Added(procs, k, c)
<1> DEFINE new == Accumulate(acc, procs, at)
           old(k) == IF k \in DOMAIN acc THEN acc[k] ELSE NoAccum
<1>1. DOMAIN new = DOMAIN acc \cup Keys(procs)
  BY DEF Accumulate
<1>2. \A k \in DOMAIN acc : k \notin Keys(procs) => new[k] = acc[k]
  BY DEF Accumulate
<1>3. ASSUME NEW k \in Keys(procs)
      PROVE  new[k].cnt = [c \in Counter |-> old(k).cnt[c] + Added(procs, k, c)]
  <2>1. new[k] = Accumulated(old(k), procs, k, at)
    BY DEF Accumulate
  <2> QED
    BY <2>1 DEF Accumulated
<1>4. \A k : old(k).cnt \in CounterValues
  BY DEF Counts, NoAccum, CounterValues
<1>5. \A k \in Keys(procs) : \A c \in Counter :
         old(k).cnt[c] = IF k \in DOMAIN acc THEN acc[k].cnt[c] ELSE 0
  BY DEF NoAccum
<1> HIDE DEF new, old
<1>6. ASSUME NEW k \in Keys(procs) PROVE new[k].cnt \in CounterValues
  <2>1. \A c \in Counter : Added(procs, k, c) \in Nat
    BY AddedType
  <2>2. \A c \in Counter : old(k).cnt[c] \in Nat
    BY <1>4 DEF CounterValues
  <2>3. new[k].cnt = [c \in Counter |-> old(k).cnt[c] + Added(procs, k, c)]
    BY <1>3
  <2> QED
    BY <2>1, <2>2, <2>3 DEF CounterValues
<1>7. \A k \in Keys(procs) : \A c \in Counter :
        new[k].cnt[c] = (IF k \in DOMAIN acc THEN acc[k].cnt[c] ELSE 0) + Added(procs, k, c)
  <2> TAKE k \in Keys(procs)
  <2>1. new[k].cnt = [c \in Counter |-> old(k).cnt[c] + Added(procs, k, c)]
    BY <1>3
  <2> QED
    BY <1>5, <2>1
<1>8. Counts(new)
  BY <1>1, <1>2, <1>6 DEF Counts
<1>9. ASSUME NEW k \in DOMAIN acc, NEW c \in Counter PROVE new[k].cnt[c] >= acc[k].cnt[c]
  <2>1. acc[k].cnt[c] \in Nat
    BY DEF Counts, CounterValues
  <2> QED
    BY <1>2, <1>7, <2>1, AddedType
<1> QED
  BY <1>1, <1>2, <1>7, <1>8, <1>9 DEF new

\* A counter of a group of the result grows by what its members add.
LEMMA AccumulateAdds ==
  ASSUME NEW acc, NEW procs, NEW at, NEW k \in Keys(procs), NEW c \in Counter
  PROVE  Accumulate(acc, procs, at)[k].cnt[c] =
           (IF k \in DOMAIN acc THEN acc[k].cnt[c] ELSE 0) + Added(procs, k, c)
<1> DEFINE old == IF k \in DOMAIN acc THEN acc[k] ELSE NoAccum
<1>1. Accumulate(acc, procs, at)[k] = Accumulated(old, procs, k, at)
  BY DEF Accumulate
<1>2. Accumulated(old, procs, k, at).cnt[c] = old.cnt[c] + Added(procs, k, c)
  BY DEF Accumulated
<1>3. old.cnt[c] = IF k \in DOMAIN acc THEN acc[k].cnt[c] ELSE 0
  BY DEF NoAccum
<1> QED
  BY <1>1, <1>2, <1>3

LEMMA SampleAccum ==
  ASSUME NEW acc, NEW procs, NEW k
  PROVE  Sample(acc, procs, k).accum = acc[k]
BY DEF Sample

LEMMA AccumulatedLast ==
  ASSUME NEW a, NEW procs, NEW k, NEW at
  PROVE  Accumulated(a, procs, k, at).last = at
BY DEF Accumulated

\* A group of the result is seen now, whatever it was before.
LEMMA AccumulateSeen ==
  ASSUME NEW acc, NEW procs, NEW at
  PROVE  /\ Keys(procs) \subseteq DOMAIN Accumulate(acc, procs, at)
         /\ \A k \in Keys(procs) : Accumulate(acc, procs, at)[k].last = at
<1>1. ASSUME NEW k \in Keys(procs)
      PROVE  /\ k \in DOMAIN Accumulate(acc, procs, at)
             /\ Accumulate(acc, procs, at)[k] =
                  Accumulated(IF k \in DOMAIN acc THEN acc[k] ELSE NoAccum, procs, k, at)
  BY DEF Accumulate
<1> QED
  BY <1>1, AccumulatedLast

\* Prune keeps what is within the retention as it was, and nothing else.
LEMMA PruneKeeps ==
  ASSUME NEW acc, NEW at
  PROVE  /\ DOMAIN PruneAccums(acc, at) \subseteq DOMAIN acc
         /\ \A k \in DOMAIN PruneAccums(acc, at) : PruneAccums(acc, at)[k] = acc[k]
         /\ Retention > 0 =>
              \A k \in DOMAIN PruneAccums(acc, at) : at - acc[k].last <= Retention
         /\ \A k \in DOMAIN acc :
              at - acc[k].last = 0 => k \in DOMAIN PruneAccums(acc, at)
<1>1. Retention \in Int
  BY AggregatorAssumption
<1>2. CASE Retention <= 0
  BY <1>1, <1>2 DEF PruneAccums
<1>3. CASE ~(Retention <= 0)
  BY <1>1, <1>3 DEF PruneAccums
<1> QED
  BY <1>2, <1>3

\* Without a retention, or within it, nothing is lost.
LEMMA PruneAll ==
  ASSUME NEW acc, NEW at, NEW k \in DOMAIN acc,
         Retention <= 0 \/ at - acc[k].last <= Retention
  PROVE  k \in DOMAIN PruneAccums(acc, at) /\ PruneAccums(acc, at)[k] = acc[k]
BY AggregatorAssumption DEF PruneAccums

\* Apply, said of acc, the totals between accumulate and prune.
LEMMA ApplyShape ==
  ASSUME NEW procs, NEW errs, Apply(procs, errs)
  PROVE  LET acc == Accumulate(accums, procs, now)
         IN  /\ scans < MaxApply /\ scans' = scans + 1
             /\ \A k \in DOMAIN acc, c \in Counter : acc[k].cnt[c] <= MaxSum
             /\ accums' = PruneAccums(acc, now)
             /\ namesSeen' = namesSeen \cup {k[1] : k \in Keys(procs)}
             /\ snap'.at = now /\ snap'.number = scans'
             /\ DOMAIN snap'.groups = Keys(procs)
             /\ \A k \in Keys(procs) : snap'.groups[k].accum = acc[k]
             /\ snap'.list \in SetToSeqs(Keys(procs))
             /\ exported' = [k \in DOMAIN exported \cup Keys(procs) |->
                               IF k \in Keys(procs) THEN acc[k] ELSE exported[k]]
<1> DEFINE acc == Accumulate(accums, procs, now)
<1>1. PICK order \in SetToSeqs(Keys(procs)) :
        snap' = [ at     |-> now,
                  groups |-> [k \in Keys(procs) |-> Sample(acc, procs, k)],
                  list   |-> order,
                  errs   |-> errs,
                  names  |-> Cardinality(namesSeen'),
                  number |-> scans' ]
  BY DEF Apply
<1>2. /\ scans < MaxApply /\ scans' = scans + 1
      /\ \A k \in DOMAIN acc, c \in Counter : acc[k].cnt[c] <= MaxSum
      /\ accums' = PruneAccums(acc, now)
      /\ namesSeen' = namesSeen \cup {k[1] : k \in Keys(procs)}
      /\ exported' = [k \in DOMAIN exported \cup Keys(procs) |->
                        IF k \in Keys(procs) THEN acc[k] ELSE exported[k]]
  BY DEF Apply
<1> HIDE DEF acc
<1>3. /\ snap'.at = now /\ snap'.number = scans'
      /\ snap'.groups = [k \in Keys(procs) |-> Sample(acc, procs, k)]
      /\ snap'.list \in SetToSeqs(Keys(procs))
  BY <1>1
<1>4. \A k \in Keys(procs) : snap'.groups[k].accum = acc[k]
  BY <1>3, SampleAccum
<1> QED
  BY <1>2, <1>3, <1>4 DEF acc

LEMMA ApplyForgets ==
  ASSUME NEW procs, NEW errs, Apply(procs, errs)
  PROVE  ForgetsAfterRetention'
<1> DEFINE acc == Accumulate(accums, procs, now)
<1>1. accums' = PruneAccums(acc, now) /\ snap'.at = now
  BY ApplyShape
<1> HIDE DEF acc
<1>2. Retention > 0 => \A k \in DOMAIN accums' : now - acc[k].last <= Retention
  BY <1>1, PruneKeeps
<1> QED
  BY <1>1, <1>2, PruneKeeps DEF ForgetsAfterRetention

\* What was exported within the retention is what is kept.
ExportedKept ==
  \A k \in DOMAIN exported :
    Retention <= 0 \/ now - exported[k].last <= Retention
      => k \in DOMAIN accums /\ accums[k] = exported[k]

LEMMA ApplyKeeps ==
  ASSUME now \in Int, now' = now, ExportedKept, NEW procs, NEW errs, Apply(procs, errs)
  PROVE  LiveGroupsKept' /\ ExportedKept'
<1> DEFINE acc == Accumulate(accums, procs, now)
<1>1. /\ accums' = PruneAccums(acc, now)
      /\ DOMAIN snap'.groups = Keys(procs)
      /\ \A k \in Keys(procs) : snap'.groups[k].accum = acc[k]
      /\ DOMAIN exported' = DOMAIN exported \cup Keys(procs)
      /\ \A k \in DOMAIN exported' :
           exported'[k] = IF k \in Keys(procs) THEN acc[k] ELSE exported[k]
  BY ApplyShape
<1>2. /\ DOMAIN acc = DOMAIN accums \cup Keys(procs)
      /\ \A k \in DOMAIN accums : k \notin Keys(procs) => acc[k] = accums[k]
      /\ \A k \in Keys(procs) : acc[k].last = now
  BY AccumulateSeen DEF Accumulate
<1> HIDE DEF acc
<1>3. \A k \in DOMAIN acc : Retention <= 0 \/ now - acc[k].last <= Retention
        => k \in DOMAIN accums' /\ accums'[k] = acc[k]
  BY <1>1, PruneAll, PruneKeeps
<1>4. \A k \in Keys(procs) : k \in DOMAIN accums' /\ accums'[k] = acc[k]
  BY <1>1, <1>2, PruneKeeps
<1>5. LiveGroupsKept'
  BY <1>1, <1>4 DEF LiveGroupsKept
<1>6. ASSUME NEW k \in DOMAIN exported', k \notin Keys(procs),
             Retention <= 0 \/ now - exported'[k].last <= Retention
      PROVE  k \in DOMAIN accums' /\ accums'[k] = exported'[k]
  <2>1. exported'[k] = exported[k] /\ k \in DOMAIN exported
    BY <1>1, <1>6
  <2>2. k \in DOMAIN accums /\ accums[k] = exported[k]
    BY <1>6, <2>1 DEF ExportedKept
  <2>3. k \in DOMAIN acc /\ acc[k] = exported[k]
    BY <1>2, <1>6, <2>2
  <2> QED
    BY <1>3, <1>6, <2>1, <2>3
<1>7. ExportedKept'
  <2> SUFFICES ASSUME NEW k \in DOMAIN exported',
                      Retention <= 0 \/ now - exported'[k].last <= Retention
               PROVE  k \in DOMAIN accums' /\ accums'[k] = exported'[k]
    BY DEF ExportedKept
  <2> QED
    BY <1>1, <1>4, <1>6
<1> QED
  BY <1>5, <1>7

\* A group that comes back in time goes on from what was exported last.
LEMMA ApplyResumes ==
  ASSUME Counts(accums), ExportedKept, NEW procs, Countable(procs), NEW errs,
         Apply(procs, errs), NEW k \in DOMAIN exported, k \in DOMAIN snap'.groups,
         Retention <= 0 \/ now - exported[k].last <= Retention
  PROVE  \A c \in Counter : snap'.groups[k].accum.cnt[c] >= exported[k].cnt[c]
<1> DEFINE acc == Accumulate(accums, procs, now)
<1>1. snap'.groups[k].accum = acc[k]
  BY ApplyShape
<1>2. k \in DOMAIN accums /\ accums[k] = exported[k]
  BY DEF ExportedKept
<1>3. \A c \in Counter : acc[k].cnt[c] >= accums[k].cnt[c]
  BY <1>2, AccumulateGrows
<1> QED
  BY <1>1, <1>2, <1>3

LEMMA ApplyCounts ==
  ASSUME Counts(accums), NEW procs, Countable(procs), NEW errs, Apply(procs, errs)
  PROVE  Counts(accums')
<1> DEFINE acc == Accumulate(accums, procs, now)
<1>1. accums' = PruneAccums(acc, now)
  BY ApplyShape
<1>2. Counts(acc)
  BY AccumulateGrows
<1> HIDE DEF acc
<1> QED
  BY <1>1, <1>2, PruneKeeps DEF Counts

LEMMA ApplyType ==
  ASSUME AggregatorTypeOK, now' = now, NEW procs, Countable(procs), NEW errs,
         Apply(procs, errs)
  PROVE  AggregatorTypeOK'
<1> DEFINE acc == Accumulate(accums, procs, now)
<1> USE AggregatorAssumption
<1>1. /\ scans < MaxApply /\ scans' = scans + 1
      /\ \A k \in DOMAIN acc, c \in Counter : acc[k].cnt[c] <= MaxSum
      /\ accums' = PruneAccums(acc, now)
      /\ namesSeen' = namesSeen \cup {k[1] : k \in Keys(procs)}
      /\ snap'.at = now /\ snap'.number = scans'
  BY ApplyShape
<1>2. Counts(accums)
  BY DEF AggregatorTypeOK, Counts, CounterValues
<1>3. Counts(acc) /\ DOMAIN acc = DOMAIN accums \cup Keys(procs)
  BY <1>2, AccumulateGrows
<1>4. \A k \in DOMAIN acc : acc[k].last \in 0..now
  <2> TAKE k \in DOMAIN acc
  <2>1. CASE k \in Keys(procs)
    BY <2>1, AccumulateSeen DEF AggregatorTypeOK
  <2>2. CASE k \notin Keys(procs)
    <3>1. k \in DOMAIN accums
      BY <1>3, <2>2
    <3>2. acc[k] = accums[k]
      BY <2>2, <3>1 DEF Accumulate
    <3> HIDE DEF acc
    <3> QED
      BY <3>1, <3>2 DEF AggregatorTypeOK
  <2> QED
    BY <2>1, <2>2
<1> HIDE DEF acc
<1>5. /\ DOMAIN accums' \subseteq DOMAIN acc
      /\ \A k \in DOMAIN accums' : accums'[k] = acc[k]
  BY <1>1, PruneKeeps
<1>6. ASSUME NEW k \in DOMAIN accums'
      PROVE  accums'[k].cnt \in [Counter -> 0..MaxSum] /\ accums'[k].last \in 0..now'
  BY <1>1, <1>3, <1>4, <1>5 DEF Counts, CounterValues
<1>7. {k[1] : k \in DOMAIN accums'} \subseteq namesSeen'
  BY <1>1, <1>3, <1>5 DEF AggregatorTypeOK
<1>8. now' \in 0..MaxClock /\ scans' \in 0..MaxApply /\ snap'.at \in 0..now' /\ snap'.number <= scans'
  BY <1>1 DEF AggregatorTypeOK
<1> QED
  BY <1>6, <1>7, <1>8 DEF AggregatorTypeOK

\* The list of a snapshot names each of its groups once.
Listed(s) ==
  /\ IsFiniteSet(DOMAIN s.groups)
  /\ s.list \in Seq(DOMAIN s.groups)
  /\ Len(s.list) = Cardinality(DOMAIN s.groups)
  /\ {s.list[i] : i \in 1..Len(s.list)} = DOMAIN s.groups

LEMMA ApplyLists ==
  ASSUME NEW procs, IsFiniteSet(DOMAIN procs), NEW errs, Apply(procs, errs)
  PROVE  Listed(snap')
<1> DEFINE K == Keys(procs)
           n == Cardinality(K)
           l == snap'.list
<1>1. DOMAIN snap'.groups = K /\ l \in SetToSeqs(K)
  BY ApplyShape
<1>2. IsFiniteSet(K)
  <2> DEFINE key == [p \in DOMAIN procs |-> Key(procs[p])]
  <2>1. K = {key[p] : p \in DOMAIN procs}
    BY DEF Keys
  <2> HIDE DEF key, K
  <2> QED
    BY <2>1, ImageFinite
<1>3. n \in Nat
  BY <1>2, FS_CardinalityType
<1>4. l \in [1..n -> K] /\ \A i, j \in 1..n : i # j => l[i] # l[j]
  BY <1>1 DEF SetToSeqs
<1> HIDE DEF K, n, l
<1>5. l \in Injection(1..n, K)
  BY <1>4 DEF Injection, IsInjective
<1>6. IsFiniteSet(1..n) /\ Cardinality(1..n) = n
  BY <1>3, FS_Interval
<1>7. l \in Surjection(1..n, K)
  BY <1>2, <1>5, <1>6, FS_Injection DEF n
<1>8. l \in Seq(K) /\ Len(l) = n
  BY <1>3, <1>4
<1>9. {l[i] : i \in 1..n} = K
  BY <1>4, <1>7 DEF Surjection
<1> QED
  BY <1>1, <1>2, <1>8, <1>9 DEF Listed, n, l

=============================================================================
