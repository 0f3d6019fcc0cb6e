----------------------------- MODULE TrieLemmas ------------------------------
(***************************************************************************)
(* Facts that the proofs about state machines cite by name: about finite   *)
(* sets (least elements, and what SumFunctionOnSet, a fold, adds up to)    *)
(* and about the trie of pages.                                            *)
(***************************************************************************)
EXTENDS
    PrefixTrie, Integers, Functions, FiniteSetTheorems, WellFoundedInduction, TLAPS

-----------------------------------------------------------------------------
(* Least elements *)

(* A nonempty set of naturals has a least element.                         *)
LEMMA LeastNat ==
    ASSUME NEW S \in SUBSET Nat, S # {}
    PROVE  \E k \in S : \A j \in S : k <= j
<1>1. PICK k \in S : \A j \in S : ~(<<j, k>> \in OpToRel(<, Nat))
  BY NatLessThanWellFounded, WFMin
<1>2. \A j \in S : ~(j < k)
  BY <1>1 DEF OpToRel
<1>3. QED
  BY <1>2

(* Of the subsets of a finite set, those in P have one that is in P no     *)
(* more when any element is taken away: induction over finite sets.        *)
LEMMA MinimalSubset ==
    ASSUME NEW S, IsFiniteSet(S), NEW P \in SUBSET (SUBSET S), P # {}
    PROVE  \E T \in P : IsFiniteSet(T) /\ \A x \in T : T \ {x} \notin P
<1> DEFINE Sizes == {Cardinality(T) : T \in P}
<1>1. \A T \in P : IsFiniteSet(T) /\ Cardinality(T) \in Nat
  BY FS_Subset, FS_CardinalityType
<1>2. Sizes \in SUBSET Nat /\ Sizes # {}
  BY <1>1
<1>3. PICK k \in Sizes : \A j \in Sizes : k <= j
  <2> HIDE DEF Sizes
  <2>1. QED
    BY <1>2, LeastNat
<1>4. PICK T \in P : Cardinality(T) = k
  OBVIOUS
<1>5. ASSUME NEW x \in T PROVE T \ {x} \notin P
  <2>1. Cardinality(T \ {x}) = Cardinality(T) - 1
    BY <1>1, FS_RemoveElement
  <2>2. Cardinality(T \ {x}) < k /\ k \in Nat
    BY <1>1, <1>4, <2>1
  <2>3. QED
    BY <1>1, <1>3, <2>2
<1>6. QED
  BY <1>1, <1>5

(* A nonempty finite set has a first element in every order R that is      *)
(* total and transitive on it.                                             *)
LEMMA FirstExists ==
    ASSUME NEW R, NEW S, IsFiniteSet(S), S # {},
           \A x, y \in S : x # y => <<x, y>> \in R \/ <<y, x>> \in R,
           \A x, y, z \in S : <<x, y>> \in R /\ <<y, z>> \in R => <<x, z>> \in R
    PROVE  \E m \in S : \A x \in S \ {m} : <<m, x>> \in R
<1> DEFINE HasFirst(T) == \E m \in T : \A x \in T \ {m} : <<m, x>> \in R
           Bad == {T \in SUBSET S : T # {} /\ ~HasFirst(T)}
<1>1. SUFFICES ASSUME Bad # {} PROVE FALSE
  OBVIOUS
<1>2. PICK T \in Bad : \A x \in T : T \ {x} \notin Bad
  <2>1. Bad \in SUBSET (SUBSET S)
    OBVIOUS
  <2> HIDE DEF Bad
  <2>2. QED
    BY <1>1, <2>1, MinimalSubset
<1>3. PICK x \in T : T \ {x} \notin Bad
  BY <1>2
<1> DEFINE U == T \ {x}
<1>4. U # {}
  BY <1>2
<1>5. PICK m \in U : \A y \in U \ {m} : <<m, y>> \in R
  BY <1>3, <1>4
<1>6. CASE <<m, x>> \in R
  BY <1>2, <1>5, <1>6
<1>7. CASE <<x, m>> \in R
  <2>1. \A y \in T \ {x} : <<x, y>> \in R
    BY <1>2, <1>5, <1>7
  <2>2. QED
    BY <1>2, <2>1
<1>8. QED
  BY <1>2, <1>5, <1>6, <1>7

-----------------------------------------------------------------------------
(* Sums *)

(* What one step of the fold adds to the table g of the sums over smaller  *)
(* sets.                                                                   *)
FoldStep(F, g, s) ==
    IF s = {} THEN 0 ELSE F[CHOOSE x \in s : TRUE] + g[s \ {CHOOSE x \in s : TRUE}]

IsTable(F, S, g) == g = [s \in SUBSET S |-> FoldStep(F, g, s)]

(* There is such a table, so the recursive function of the fold is one.    *)
LEMMA TableExists ==
    ASSUME NEW F, NEW S, IsFiniteSet(S)
    PROVE  \E g : IsTable(F, S, g)
<1> DEFINE Small(k) == {s \in SUBSET S : Cardinality(s) <= k}
           Good(k) == \E g : g = [s \in Small(k) |-> FoldStep(F, g, s)]
           Bad == {k \in Nat : ~Good(k)}
<1>1. \A s \in SUBSET S : /\ IsFiniteSet(s) /\ Cardinality(s) \in Nat
                          /\ Cardinality(s) <= Cardinality(S)
                          /\ \A x \in s : Cardinality(s \ {x}) = Cardinality(s) - 1
                          /\ Cardinality(s) = 0 <=> s = {}
  BY FS_Subset, FS_CardinalityType, FS_RemoveElement, FS_EmptySet
<1>2. \A k \in Nat : Good(k)
  <2>1. SUFFICES ASSUME Bad # {} PROVE FALSE
    OBVIOUS
  <2>2. PICK k \in Bad : \A j \in Bad : k <= j
    <3>1. Bad \in SUBSET Nat
      OBVIOUS
    <3> HIDE DEF Bad
    <3>2. QED
      BY <2>1, <3>1, LeastNat
  <2>3. k \in Nat /\ ~Good(k) /\ (k - 1 \in Nat => Good(k - 1))
    <3> HIDE DEF Good
    <3>1. k \in Nat /\ ~Good(k)
      OBVIOUS
    <3>2. k - 1 \notin Bad
      BY <2>2, <3>1
    <3>3. QED
      BY <3>1, <3>2
  <2>4. CASE k = 0
    <3>1. Small(0) = {{}}
      BY <1>1
    <3> DEFINE g == [s \in Small(0) |-> 0]
    <3>2. g = [s \in Small(0) |-> FoldStep(F, g, s)]
      BY <3>1 DEF FoldStep
    <3>3. Good(0)
      BY <3>2
    <3>4. QED
      BY <2>3, <2>4, <3>3
  <2>5. CASE k # 0
    <3>1. k - 1 \in Nat /\ k - 1 < k
      BY <2>3, <2>5
    <3>2. PICK g : g = [s \in Small(k - 1) |-> FoldStep(F, g, s)]
      BY <2>3, <3>1
    <3> DEFINE h == [s \in Small(k) |-> FoldStep(F, g, s)]
    <3>3. \A s \in Small(k) : s # {} => s \ {CHOOSE x \in s : TRUE} \in Small(k - 1)
      BY <1>1, <3>1
    <3>4. \A s \in Small(k - 1) : s \in Small(k) /\ h[s] = g[s]
      BY <1>1, <3>1, <3>2
    <3> HIDE DEF h, Small
    <3>5. \A s \in Small(k) : FoldStep(F, g, s) = FoldStep(F, h, s)
      <4>1. TAKE s \in Small(k)
      <4>2. CASE s = {}
        BY <4>2 DEF FoldStep
      <4>3. CASE s # {}
        <5>1. g[s \ {CHOOSE x \in s : TRUE}] = h[s \ {CHOOSE x \in s : TRUE}]
          BY <3>3, <3>4, <4>3
        <5>2. QED
          BY <4>3, <5>1 DEF FoldStep
      <4>4. QED
        BY <4>2, <4>3
    <3>6. h = [s \in Small(k) |-> FoldStep(F, h, s)]
      BY <3>5 DEF h
    <3>7. Good(k)
      BY <3>6 DEF Small
    <3>8. QED
      BY <2>3, <3>7
  <2>6. QED
    BY <2>4, <2>5
<1>3. Cardinality(S) \in Nat /\ Small(Cardinality(S)) = SUBSET S
  BY <1>1, FS_CardinalityType
<1>4. Good(Cardinality(S))
  BY <1>2, <1>3
<1>5. QED
  BY <1>3, <1>4 DEF IsTable

(* The sum of the community modules is the value of any table of sums.     *)
LEMMA SumIsTable ==
    ASSUME NEW F, NEW S, IsFiniteSet(S)
    PROVE  \E g : IsTable(F, S, g) /\ SumFunctionOnSet(F, S) = g[S]
<1> DEFINE g == CHOOSE h : IsTable(F, S, h)
<1>1. IsTable(F, S, g)
  BY TableExists
<1>2. SumFunctionOnSet(F, S) = g[S]
  BY DEF SumFunctionOnSet, FoldFunctionOnSet, MapThenFoldSet, IsTable, FoldStep
<1>3. QED
  BY <1>1, <1>2

(* The sum over no index is 0; else the fold takes one out.                *)
LEMMA SumStep ==
    ASSUME NEW F, NEW S, IsFiniteSet(S)
    PROVE  /\ S = {} => SumFunctionOnSet(F, S) = 0
           /\ S # {} => \E x \in S :
                 /\ x = CHOOSE y \in S : TRUE
                 /\ SumFunctionOnSet(F, S) = F[x] + SumFunctionOnSet(F, S \ {x})
<1>1. PICK g : IsTable(F, S, g) /\ SumFunctionOnSet(F, S) = g[S]
  BY SumIsTable
<1>2. g[S] = FoldStep(F, g, S)
  BY <1>1 DEF IsTable
<1>3. CASE S = {}
  BY <1>1, <1>2, <1>3 DEF FoldStep
<1>4. CASE S # {}
  <2> DEFINE x == CHOOSE y \in S : TRUE
             T == S \ {x}
  <2>1. x \in S
    BY <1>4
  <2>2. IsFiniteSet(T) /\ T \subseteq S
    BY FS_Subset
  <2>3. PICK h : IsTable(F, T, h) /\ SumFunctionOnSet(F, T) = h[T]
    BY <2>2, SumIsTable
  <2> DEFINE Bad == {s \in SUBSET T : g[s] # h[s]}
  <2>4. Bad = {}
    <3>1. SUFFICES ASSUME Bad # {} PROVE FALSE
      OBVIOUS
    <3>2. PICK s \in Bad : \A y \in s : s \ {y} \notin Bad
      <4>1. Bad \in SUBSET (SUBSET T)
        OBVIOUS
      <4> HIDE DEF Bad, T
      <4>2. QED
        BY <2>2, <3>1, <4>1, MinimalSubset
    <3>3. s \in SUBSET T /\ g[s] # h[s]
      OBVIOUS
    <3>4. g[s] = FoldStep(F, g, s) /\ h[s] = FoldStep(F, h, s)
      BY <1>1, <2>2, <2>3, <3>3 DEF IsTable
    <3>5. s # {}
      BY <3>3, <3>4 DEF FoldStep
    <3> DEFINE z == CHOOSE y \in s : TRUE
    <3>6. z \in s
      BY <3>5
    <3>7. g[s \ {z}] = h[s \ {z}]
      <4> HIDE DEF z, T
      <4>1. QED
        BY <3>2, <3>3, <3>6
    <3>8. QED
      BY <3>3, <3>4, <3>5, <3>7 DEF FoldStep
  <2>5. g[T] = h[T]
    BY <2>4
  <2>6. g[S] = F[x] + g[T]
    BY <1>2, <1>4 DEF FoldStep
  <2>7. SumFunctionOnSet(F, S) = F[x] + SumFunctionOnSet(F, T)
    BY <1>1, <2>3, <2>5, <2>6
  <2>8. QED
    BY <1>4, <2>1, <2>7
<1>5. QED
  BY <1>3, <1>4

(* A sum of naturals is a natural.                                         *)
LEMMA SumType ==
    ASSUME NEW F, NEW S, IsFiniteSet(S), \A x \in S : F[x] \in Nat
    PROVE  SumFunctionOnSet(F, S) \in Nat
<1> DEFINE Bad == {T \in SUBSET S : SumFunctionOnSet(F, T) \notin Nat}
<1>1. SUFFICES ASSUME Bad # {} PROVE FALSE
  OBVIOUS
<1>2. PICK T \in Bad : IsFiniteSet(T) /\ \A x \in T : T \ {x} \notin Bad
  <2>1. Bad \in SUBSET (SUBSET S)
    OBVIOUS
  <2> HIDE DEF Bad
  <2>2. QED
    BY <1>1, <2>1, MinimalSubset
<1>3. T \in SUBSET S /\ SumFunctionOnSet(F, T) \notin Nat
  OBVIOUS
<1>4. T # {}
  BY <1>2, <1>3, SumStep
<1>5. PICK x \in T : SumFunctionOnSet(F, T) = F[x] + SumFunctionOnSet(F, T \ {x})
  BY <1>2, <1>4, SumStep
<1>6. SumFunctionOnSet(F, T \ {x}) \in Nat
  BY <1>2, <1>3
<1>7. F[x] \in Nat
  BY <1>3
<1>8. QED
  BY <1>3, <1>5, <1>6, <1>7

(* One more index adds its value, whichever index the fold starts with.    *)
LEMMA SumAdd ==
    ASSUME NEW F, NEW S, IsFiniteSet(S), \A x \in S : F[x] \in Nat,
           NEW y, y \notin S, F[y] \in Nat
    PROVE  SumFunctionOnSet(F, S \cup {y}) = SumFunctionOnSet(F, S) + F[y]
<1> DEFINE Sum(T) == SumFunctionOnSet(F, T)
           U == S \cup {y}
           Bad == {T \in SUBSET U : \E z \in U \ T : Sum(T \cup {z}) # Sum(T) + F[z]}
<1>1. IsFiniteSet(U) /\ \A x \in U : F[x] \in Nat
  BY FS_AddElement
<1>2. \A T \in SUBSET U : IsFiniteSet(T) /\ Sum(T) \in Nat
  BY <1>1, FS_Subset, SumType
<1> HIDE DEF Sum
<1>3. SUFFICES ASSUME Bad # {} PROVE FALSE
  BY DEF Sum
<1>4. PICK T \in Bad : \A x \in T : T \ {x} \notin Bad
  <2>1. Bad \in SUBSET (SUBSET U)
    OBVIOUS
  <2> HIDE DEF Bad, U
  <2>2. QED
    BY <1>1, <1>3, <2>1, MinimalSubset
<1>5. PICK z \in U \ T : Sum(T \cup {z}) # Sum(T) + F[z]
  OBVIOUS
<1> DEFINE W == T \cup {z}
<1>6. W \in SUBSET U /\ W # {} /\ T \in SUBSET U
  OBVIOUS
<1>7. PICK x \in W : Sum(W) = F[x] + Sum(W \ {x})
  <2>1. IsFiniteSet(W) /\ W # {}
    BY <1>2, <1>6
  <2> HIDE DEF W
  <2>2. QED
    BY <2>1, SumStep DEF Sum
<1>8. F[x] \in Nat /\ F[z] \in Nat /\ Sum(T) \in Nat
  BY <1>1, <1>2, <1>6
<1>9. x # z
  <2>1. SUFFICES ASSUME x = z PROVE FALSE
    OBVIOUS
  <2>2. W \ {x} = T
    BY <2>1
  <2>3. Sum(W) = F[z] + Sum(T)
    BY <1>7, <2>1, <2>2
  <2>4. QED
    BY <1>5, <1>8, <2>3
<1> DEFINE R == T \ {x}
<1>10. x \in T /\ W \ {x} = R \cup {z} /\ R \cup {x} = T
  BY <1>9
<1>11. R \in SUBSET U /\ z \in U \ R /\ x \in U \ R /\ R \notin Bad
  BY <1>4, <1>10
<1> HIDE DEF R, W
<1>12. Sum(R \cup {z}) = Sum(R) + F[z] /\ Sum(R \cup {x}) = Sum(R) + F[x]
  BY <1>11
<1>13. Sum(R) \in Nat
  BY <1>2, <1>11
<1>14. Sum(W) = F[x] + (Sum(R) + F[z]) /\ Sum(T) = Sum(R) + F[x]
  BY <1>7, <1>10, <1>12
<1>15. Sum(W) = Sum(T) + F[z]
  BY <1>8, <1>13, <1>14
<1>16. QED
  BY <1>5, <1>15 DEF W

(* The sum over two sets of indices that have none in common.              *)
LEMMA SumUnion ==
    ASSUME NEW F, NEW A, NEW B, IsFiniteSet(A), IsFiniteSet(B), A \cap B = {},
           \A x \in A \cup B : F[x] \in Nat
    PROVE  SumFunctionOnSet(F, A \cup B) = SumFunctionOnSet(F, A) + SumFunctionOnSet(F, B)
<1> DEFINE Sum(T) == SumFunctionOnSet(F, T)
           Bad == {T \in SUBSET B : Sum(A \cup T) # Sum(A) + Sum(T)}
<1>1. \A T \in SUBSET B : IsFiniteSet(T) /\ IsFiniteSet(A \cup T) /\ Sum(T) \in Nat
  BY FS_Subset, SumType, FS_Union
<1>2. Sum(A) \in Nat /\ Sum({}) = 0
  BY SumType, SumStep, FS_EmptySet
<1> HIDE DEF Sum
<1>3. SUFFICES ASSUME Bad # {} PROVE FALSE
  BY DEF Sum
<1>4. PICK T \in Bad : \A x \in T : T \ {x} \notin Bad
  <2>1. Bad \in SUBSET (SUBSET B)
    OBVIOUS
  <2> HIDE DEF Bad
  <2>2. QED
    BY <1>3, <2>1, MinimalSubset
<1>5. T \in SUBSET B /\ Sum(A \cup T) # Sum(A) + Sum(T)
  OBVIOUS
<1>6. T # {}
  <2>1. SUFFICES ASSUME T = {} PROVE FALSE
    OBVIOUS
  <2>2. Sum(A \cup T) = Sum(A) /\ Sum(T) = 0
    BY <1>2, <2>1
  <2>3. QED
    BY <1>2, <1>5, <2>2
<1>7. PICK x : x \in T /\ T \ {x} \notin Bad
  BY <1>4, <1>6
<1> DEFINE R == T \ {x}
<1>8. R \in SUBSET B /\ x \notin R /\ x \notin A \cup R
      /\ R \cup {x} = T /\ (A \cup R) \cup {x} = A \cup T
  BY <1>5, <1>7
<1> HIDE DEF R
<1>9. Sum(A \cup R) = Sum(A) + Sum(R)
  BY <1>7, <1>8 DEF R
<1>10. F[x] \in Nat /\ (\A y \in A \cup R : F[y] \in Nat)
  BY <1>5, <1>7, <1>8
<1>11. Sum(R \cup {x}) = Sum(R) + F[x]
  BY <1>1, <1>8, <1>10, SumAdd DEF Sum
<1>12. Sum((A \cup R) \cup {x}) = Sum(A \cup R) + F[x]
  BY <1>1, <1>8, <1>10, SumAdd DEF Sum
<1>13. Sum(R) \in Nat
  BY <1>1, <1>8
<1>14. Sum(A \cup T) = (Sum(A) + Sum(R)) + F[x] /\ Sum(T) = Sum(R) + F[x]
  BY <1>8, <1>9, <1>11, <1>12
<1>15. Sum(A \cup T) = Sum(A) + Sum(T)
  BY <1>2, <1>10, <1>13, <1>14
<1>16. QED
  BY <1>5, <1>15

(* Only the values at the indices matter.                                  *)
LEMMA SumSame ==
    ASSUME NEW F, NEW G, NEW S, IsFiniteSet(S), \A x \in S : F[x] = G[x]
    PROVE  SumFunctionOnSet(F, S) = SumFunctionOnSet(G, S)
<1> DEFINE Bad == {T \in SUBSET S : SumFunctionOnSet(F, T) # SumFunctionOnSet(G, T)}
<1>1. SUFFICES ASSUME Bad # {} PROVE FALSE
  OBVIOUS
<1>2. PICK T \in Bad : IsFiniteSet(T) /\ \A x \in T : T \ {x} \notin Bad
  <2>1. Bad \in SUBSET (SUBSET S)
    OBVIOUS
  <2> HIDE DEF Bad
  <2>2. QED
    BY <1>1, <2>1, MinimalSubset
<1>3. T \in SUBSET S /\ SumFunctionOnSet(F, T) # SumFunctionOnSet(G, T)
  OBVIOUS
<1>4. T # {}
  BY <1>2, <1>3, SumStep
<1> DEFINE x == CHOOSE y \in T : TRUE
<1>5. /\ x \in T
      /\ SumFunctionOnSet(F, T) = F[x] + SumFunctionOnSet(F, T \ {x})
      /\ SumFunctionOnSet(G, T) = G[x] + SumFunctionOnSet(G, T \ {x})
  BY <1>2, <1>4, SumStep
<1> HIDE DEF x
<1>6. F[x] = G[x] /\ SumFunctionOnSet(F, T \ {x}) = SumFunctionOnSet(G, T \ {x})
  BY <1>2, <1>3, <1>5
<1>7. QED
  BY <1>3, <1>5, <1>6

-----------------------------------------------------------------------------
(* The trie *)

(* Every path is a finite set of pages, empty for Root alone, and a page   *)
(* is on its own path (validate_requests, trace.py).                       *)
LEMMA ChainFacts ==
    ASSUME NEW n \in Node
    PROVE  /\ Chain[n] \subseteq Block
           /\ IsFiniteSet(Chain[n])
           /\ Depth(n) \in Nat
           /\ n \in Block => n \in Chain[n] /\ Depth(n) > 0
           /\ n = Root => Chain[n] = {} /\ Depth(n) = 0
<1>1. Chain[n] \subseteq Block
  BY ChainAssumption
<1>2. IsFiniteSet(Chain[n])
  BY <1>1, BlockAssumption, FS_Subset
<1>3. Depth(n) \in Nat
  BY <1>2, FS_CardinalityType DEF Depth
<1>4. ASSUME n \in Block PROVE n \in Chain[n] /\ Depth(n) > 0
  <2>1. n \in Chain[n]
    BY <1>4, ChainAssumption
  <2>2. Cardinality(Chain[n]) # 0
    BY <2>1, <1>2, FS_EmptySet
  <2>3. QED
    BY <2>1, <2>2, <1>3 DEF Depth
<1>5. n = Root => Chain[n] = {} /\ Depth(n) = 0
  BY ChainAssumption, FS_EmptySet DEF Depth
<1>6. QED
  BY <1>1, <1>2, <1>3, <1>4, <1>5

(* The parent of a page is a node of smaller depth.                        *)
LEMMA ParentFacts ==
    ASSUME NEW b \in Block
    PROVE  /\ Parent[b] \in Node
           /\ Chain[b] = Chain[Parent[b]] \cup {b}
           /\ Depth(b) = Depth(Parent[b]) + 1
<1>1. Parent[b] \in Node
  BY ParentAssumption
<1>2. Chain[b] = Chain[Parent[b]] \cup {b} /\ b \notin Chain[Parent[b]]
  BY ChainAssumption
<1>3. Depth(b) = Depth(Parent[b]) + 1
  BY <1>1, <1>2, ChainFacts, FS_AddElement DEF Depth
<1>4. QED
  BY <1>1, <1>2, <1>3

(* A set of pages that holds the parent of each of its pages holds the     *)
(* whole path of each: the check of assert_invariants, which looks one     *)
(* link up, is enough for every prefix to be there.                        *)
LEMMA ClosedByParent ==
    ASSUME NEW S \in SUBSET Block,
           \A b \in S : Parent[b] \in S \cup {Root}
    PROVE  \A b \in S : Chain[b] \subseteq S
<1> DEFINE Bad == {k \in Nat : \E b \in S : Depth(b) = k /\ ~(Chain[b] \subseteq S)}
<1>1. SUFFICES Bad = {}
  BY ChainFacts DEF Node
<1>2. SUFFICES ASSUME Bad # {} PROVE FALSE
  OBVIOUS
<1>3. PICK k \in Bad : \A j \in Bad : ~(<<j, k>> \in OpToRel(<, Nat))
  <2>1. Bad \subseteq Nat
    OBVIOUS
  <2>2. QED
    BY <1>2, <2>1, NatLessThanWellFounded, WFMin
<1>4. PICK b \in S : Depth(b) = k /\ ~(Chain[b] \subseteq S)
  OBVIOUS
<1>5. Parent[b] # Root
  BY <1>4, ParentFacts, ChainFacts DEF Node
<1>6. Parent[b] \in S
  BY <1>5
<1>7. ~(Chain[Parent[b]] \subseteq S)
  BY <1>4, ParentFacts
<1>8. Depth(Parent[b]) \in Nat /\ Depth(Parent[b]) < k
  BY <1>4, ParentFacts, ChainFacts
<1>9. Depth(Parent[b]) \in Bad
  BY <1>6, <1>7, <1>8
<1>10. QED
  BY <1>3, <1>8, <1>9 DEF OpToRel

(* Induction over the trie: of the nodes in P one is the root or has a     *)
(* parent outside P.                                                       *)
LEMMA TopOf ==
    ASSUME NEW P \in SUBSET Node, P # {}
    PROVE  \E n \in P : n = Root \/ (n \in Block /\ Parent[n] \notin P)
<1> DEFINE Depths == {Depth(n) : n \in P}
<1>1. Depths \in SUBSET Nat /\ Depths # {}
  BY ChainFacts
<1>2. PICK k \in Depths : \A j \in Depths : k <= j
  <2> HIDE DEF Depths
  <2>1. QED
    BY <1>1, LeastNat
<1>3. PICK n \in P : Depth(n) = k
  OBVIOUS
<1>4. ASSUME n \in Block PROVE Parent[n] \notin P
  <2>1. Parent[n] \in Node /\ Depth(n) = Depth(Parent[n]) + 1 /\ Depth(Parent[n]) \in Nat
    BY <1>4, ParentFacts, ChainFacts
  <2>2. ~(k <= Depth(Parent[n]))
    BY <1>3, <2>1
  <2>3. QED
    BY <1>2, <2>2
<1>5. QED
  BY <1>3, <1>4 DEF Node

(* The pages of one path are ordered.                                      *)
LEMMA PathOrdered ==
    ASSUME NEW n \in Node, NEW x \in Chain[n], NEW y \in Chain[n]
    PROVE  Chain[x] \subseteq Chain[y] \/ Chain[y] \subseteq Chain[x]
<1> DEFINE Bad == {m \in Node : \E u, v \in Chain[m] :
                        ~(Chain[u] \subseteq Chain[v] \/ Chain[v] \subseteq Chain[u])}
<1>1. SUFFICES ASSUME Bad # {} PROVE FALSE
  OBVIOUS
<1>2. PICK m \in Bad : m = Root \/ (m \in Block /\ Parent[m] \notin Bad)
  <2>1. Bad \in SUBSET Node
    OBVIOUS
  <2> HIDE DEF Bad
  <2>2. QED
    BY <1>1, <2>1, TopOf
<1>3. PICK u, v \in Chain[m] : ~(Chain[u] \subseteq Chain[v] \/ Chain[v] \subseteq Chain[u])
  OBVIOUS
<1>4. m \in Block /\ Parent[m] \notin Bad
  BY <1>2, <1>3, ChainFacts
<1>5. Parent[m] \in Node /\ Chain[m] = Chain[Parent[m]] \cup {m}
  BY <1>4, ParentFacts
<1>6. u = m \/ v = m
  BY <1>3, <1>4, <1>5
<1>7. Chain[u] \subseteq Chain[m] /\ Chain[v] \subseteq Chain[m]
  BY <1>3, ChainAssumption
<1>8. QED
  BY <1>3, <1>6, <1>7

(* A page of a path, short of its end, has a child on the path.            *)
LEMMA ChildOnPath ==
    ASSUME NEW n \in Node, NEW b \in Chain[n], b # n
    PROVE  \E y \in Chain[n] : Parent[y] = b
<1> DEFINE P == {m \in Node : Chain[m] \subseteq Chain[n] /\ b \in Chain[m] /\ m # b}
<1>1. n \in P /\ P \subseteq Node
  OBVIOUS
<1>2. PICK m \in P : m = Root \/ (m \in Block /\ Parent[m] \notin P)
  <2> HIDE DEF P
  <2>1. QED
    BY <1>1, TopOf
<1>3. m \in Block /\ m \in Chain[n]
  <2>1. m # Root
    BY <1>2, ChainAssumption
  <2>2. QED
    BY <1>2, <2>1, ChainFacts
<1>4. /\ Parent[m] \in Node /\ Chain[m] = Chain[Parent[m]] \cup {m}
  BY <1>3, ParentFacts
<1>5. b \in Chain[Parent[m]] /\ Chain[Parent[m]] \subseteq Chain[n]
  BY <1>2, <1>4
<1>6. Parent[m] = b
  <2>1. m # Root
    BY <1>3, BlockAssumption
  <2>2. Parent[m] \notin P
    BY <1>2, <2>1
  <2>3. QED
    BY <2>2, <1>4, <1>5
<1>7. QED
  BY <1>3, <1>6

(* All pages of a path but the last are full.                              *)
LEMMA InnerPagesFull ==
    ASSUME NEW b \in Block
    PROVE  Chain[Parent[b]] \subseteq FullPage
<1> DEFINE Bad == {m \in Block : ~(Chain[Parent[m]] \subseteq FullPage)}
<1>1. SUFFICES ASSUME Bad # {} PROVE FALSE
  OBVIOUS
<1>2. PICK m \in Bad : m = Root \/ (m \in Block /\ Parent[m] \notin Bad)
  <2>1. Bad \in SUBSET Node
    BY DEF Node
  <2> HIDE DEF Bad
  <2>2. QED
    BY <1>1, <2>1, TopOf
<1>3. m \in Block /\ Parent[m] \notin Bad
  BY <1>2, BlockAssumption
<1>4. Parent[m] \in FullPage
  BY <1>2, <1>3, PartialTailAssumption, ChainFacts DEF Node
<1>5. Parent[m] \in Block
  BY <1>4, PartialTailAssumption
<1>6. Chain[Parent[Parent[m]]] \subseteq FullPage
  BY <1>3, <1>5
<1>7. Chain[Parent[m]] = Chain[Parent[Parent[m]]] \cup {Parent[m]}
  BY <1>5, ParentFacts
<1>8. QED
  BY <1>2, <1>4, <1>6, <1>7

(* What a walk along a path has seen is the path of a node.                *)
LEMMA LongestFacts ==
    ASSUME NEW n \in Node, NEW S
    PROVE  /\ LongestWithin(n, S) \in Node
           /\ Chain[LongestWithin(n, S)] = PagesWithin(n, S)
           /\ PagesWithin(n, S) \subseteq Chain[n]
<1> DEFINE Has(m) == \E k \in Prefixes(m) : Chain[k] = PagesWithin(m, S)
           Bad == {m \in Node : ~Has(m)}
<1>1. Has(n)
  <2>1. SUFFICES ASSUME Bad # {} PROVE FALSE
    OBVIOUS
  <2>2. PICK m \in Bad : m = Root \/ (m \in Block /\ Parent[m] \notin Bad)
    <3>1. Bad \in SUBSET Node
      OBVIOUS
    <3> HIDE DEF Bad
    <3>2. QED
      BY <2>1, <3>1, TopOf
  <2>3. m \in Node /\ ~Has(m)
    <3> HIDE DEF Has
    <3>1. QED
      OBVIOUS
  <2>4. ~(Chain[m] \subseteq S)
    <3>1. SUFFICES ASSUME Chain[m] \subseteq S PROVE FALSE
      OBVIOUS
    <3>2. PagesWithin(m, S) = Chain[m]
      BY <2>3, <3>1, ChainAssumption DEF PagesWithin
    <3>3. m \in Prefixes(m)
      BY <2>3 DEF Prefixes
    <3>4. QED
      BY <2>3, <3>2, <3>3
  <2>5. m \in Block /\ Parent[m] \notin Bad
    BY <2>2, <2>4, ChainFacts
  <2>6. Parent[m] \in Node /\ Chain[m] = Chain[Parent[m]] \cup {m}
    BY <2>5, ParentFacts
  <2>7. Has(Parent[m])
    <3> HIDE DEF Has
    <3>1. QED
      BY <2>5, <2>6
  <2>8. PICK k \in Prefixes(Parent[m]) : Chain[k] = PagesWithin(Parent[m], S)
    BY <2>7
  <2>9. PagesWithin(m, S) = PagesWithin(Parent[m], S)
    BY <2>4, <2>6 DEF PagesWithin
  <2>10. k \in Prefixes(m)
    BY <2>6, <2>8 DEF Prefixes
  <2>11. Has(m)
    BY <2>8, <2>9, <2>10
  <2>12. QED
    BY <2>3, <2>11
<1>2. LongestWithin(n, S) \in Prefixes(n) /\ Chain[LongestWithin(n, S)] = PagesWithin(n, S)
  BY <1>1 DEF LongestWithin
<1>3. QED
  BY <1>2 DEF Prefixes, PagesWithin

(* Of two walks along one path the one that saw more pages saw all the     *)
(* other did.                                                              *)
LEMMA WalksNested ==
    ASSUME NEW n \in Node, NEW S, NEW T,
           Cardinality(PagesWithin(n, S)) <= Cardinality(PagesWithin(n, T))
    PROVE  PagesWithin(n, S) \subseteq PagesWithin(n, T)
<1> DEFINE A == PagesWithin(n, S)
           B == PagesWithin(n, T)
<1>1. /\ A \subseteq Chain[n] /\ \A x \in A : Chain[x] \subseteq S
      /\ B \subseteq Chain[n] /\ \A x \in B : Chain[x] \subseteq T
      /\ \A x \in Chain[n] : Chain[x] \subseteq S => x \in A
      /\ \A x \in Chain[n] : Chain[x] \subseteq T => x \in B
  BY DEF PagesWithin
<1>2. IsFiniteSet(A) /\ IsFiniteSet(B)
  BY <1>1, ChainFacts, FS_Subset
<1> HIDE DEF A, B
<1>3. SUFFICES ASSUME NEW x \in A, x \notin B PROVE FALSE
  BY DEF A, B
<1>4. B \subseteq A
  <2>1. SUFFICES ASSUME NEW y \in B PROVE y \in A
    OBVIOUS
  <2>2. ~(Chain[x] \subseteq Chain[y])
    BY <1>1, <1>3
  <2>3. Chain[y] \subseteq Chain[x]
    BY <1>1, <1>3, <2>2, PathOrdered
  <2>4. QED
    BY <1>1, <1>3, <2>3
<1>5. Cardinality(A) <= Cardinality(B)
  BY DEF A, B
<1>6. /\ Cardinality(B) <= Cardinality(A)
      /\ Cardinality(B) = Cardinality(A) => A = B
  BY <1>2, <1>4, FS_Subset
<1>7. Cardinality(A) \in Nat /\ Cardinality(B) \in Nat
  BY <1>2, FS_CardinalityType
<1>8. QED
  BY <1>3, <1>5, <1>6, <1>7

(* Growing the published pages by new pages adds their number.             *)
LEMMA PagesGrow ==
    ASSUME NEW S \in SUBSET Block, NEW T \in SUBSET Block
    PROVE  /\ IsFiniteSet(S) /\ Cardinality(S) \in Nat
           /\ Cardinality(T \ S) \in Nat
           /\ Cardinality(S \cup T) = Cardinality(S) + Cardinality(T \ S)
           /\ Cardinality(T \ S) <= Cardinality(T)
<1>1. IsFiniteSet(S) /\ IsFiniteSet(T) /\ IsFiniteSet(T \ S)
  BY BlockAssumption, FS_Subset
<1>2. /\ Cardinality(S) \in Nat /\ Cardinality(T) \in Nat /\ Cardinality(T \ S) \in Nat
  BY <1>1, FS_CardinalityType
<1>3. Cardinality(T \ S) <= Cardinality(T)
  BY <1>1, FS_Subset
<1>4. Cardinality(S \cup (T \ S))
        = Cardinality(S) + Cardinality(T \ S) - Cardinality(S \cap (T \ S))
  BY <1>1, FS_Union
<1>5. S \cup (T \ S) = S \cup T /\ S \cap (T \ S) = {}
  OBVIOUS
<1>6. Cardinality({}) = 0
  BY FS_EmptySet
<1>7. Cardinality(S \cup T) = Cardinality(S) + Cardinality(T \ S) - 0
  BY <1>4, <1>5, <1>6
<1>8. QED
  BY <1>1, <1>2, <1>3, <1>7
=============================================================================
