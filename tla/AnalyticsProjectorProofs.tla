---------------------- MODULE AnalyticsProjectorProofs ----------------------
(***************************************************************************)
(* Proofs about AnalyticsProjector: for any history of events, task table, *)
(* consumers, hour length, faults, repeated or overtaking messages and     *)
(* rebalances.                                                             *)
(*                                                                         *)
(* Three arguments.  DeliveryInv follows an event from the topic to the    *)
(* read model: read, it is marked or in somebody's hand (ReadIsMarked);    *)
(* marked, it is applied or in the hand of the one handler that marked it  *)
(* (MarkedIsApplied), unless a fault struck it; and only the handler that  *)
(* marked it applies it, once (HandIsFresh).  CountInv and StoreInv        *)
(* compare the tables with the log of Apply calls: no event is in it twice *)
(* (AppliedOnce), and a count is MemoryStore's, which counts first calls   *)
(* only, whatever happens (CountsOK); a pending claim is the               *)
(* latest one recorded (PendingIsLatest) and stays until its completion    *)
(* (ClaimIsPending), so that the measured columns are MemoryStore's too    *)
(* (ClaimsOK).  CalmOrder adds the order: with one reader and nothing      *)
(* overtaken, the events of an aggregate are applied in the order they     *)
(* committed (AppliedInOrder), so that a completion meets the claim it is  *)
(* measured from (Measured).                                               *)
(*                                                                         *)
(* The rows are sums over finite sets.  The first part proves what such a  *)
(* sum is, by induction over the subsets of a finite set: the smallest     *)
(* subset without a property exists because strict inclusion is            *)
(* well-founded.                                                           *)
(***************************************************************************)
EXTENDS AnalyticsProjector, FiniteSetTheorems, SequenceTheorems, WellFoundedInduction, TLAPS

-----------------------------------------------------------------------------
(* Sums over finite sets *)

\* Induction over the subsets of a finite set: G holds of every subset when it
\* holds of each one whose proper subsets all have it.
LEMMA SubsetInduction ==
    ASSUME NEW S, IsFiniteSet(S), NEW G,
           \A s \in SUBSET S : (\A u \in SUBSET s : u # s => u \in G) => s \in G
    PROVE  \A s \in SUBSET S : s \in G
<1> DEFINE Bad == {s \in SUBSET S : s \notin G}
           R == StrictSubsetOrdering(S)
<1>1. SUFFICES ASSUME Bad # {} PROVE FALSE
  OBVIOUS
<1>2. Bad \subseteq FiniteSubsetsOf(S)
  BY FS_Subset DEF FiniteSubsetsOf
<1>3. PICK t \in Bad : \A u \in Bad : ~(<<u, t>> \in R)
  <2> HIDE DEF Bad, R
  <2>1. IsWellFoundedOn(R, FiniteSubsetsOf(S))
    BY FS_StrictSubsetOrderingWellFounded DEF R
  <2> QED BY <1>1, <1>2, <2>1, WFMin
<1>4. ASSUME NEW u \in SUBSET t, u # t PROVE u \in G
  <2>1. u \in SUBSET S /\ t \in SUBSET S
    OBVIOUS
  <2>2. <<u, t>> \in R
    BY <1>4, <2>1 DEF StrictSubsetOrdering
  <2> QED BY <1>3, <2>1, <2>2
<1> QED BY <1>4

\* The element a fold takes first, and the function a fold over S tabulates.
First(s) == CHOOSE x \in s : TRUE
Folding(f, S, g) ==
    g = [s \in SUBSET S |-> IF s = {} THEN 0 ELSE f[First(s)] + g[s \ {First(s)}]]

\* A folding at one subset.
LEMMA FoldingStep ==
    ASSUME NEW f, NEW S, NEW g, Folding(f, S, g), NEW s \in SUBSET S
    PROVE  g[s] = IF s = {} THEN 0 ELSE f[First(s)] + g[s \ {First(s)}]
<1>1. g = [u \in SUBSET S |-> IF u = {} THEN 0 ELSE f[First(u)] + g[u \ {First(u)}]]
  BY DEF Folding
<1> QED BY <1>1, Zenon

\* Two foldings agree where both are defined.
LEMMA FoldingUnique ==
    ASSUME NEW f, NEW S, NEW T, NEW g, NEW h, Folding(f, S, g), Folding(f, T, h),
           NEW U, IsFiniteSet(U), U \subseteq S, U \subseteq T
    PROVE  g[U] = h[U]
<1> DEFINE G == {s \in SUBSET U : g[s] = h[s]}
<1>1. ASSUME NEW s \in SUBSET U, \A u \in SUBSET s : u # s => u \in G PROVE s \in G
  <2>0. g[s] = IF s = {} THEN 0 ELSE f[First(s)] + g[s \ {First(s)}]
    BY FoldingStep
  <2>00. h[s] = IF s = {} THEN 0 ELSE f[First(s)] + h[s \ {First(s)}]
    BY FoldingStep
  <2>1. CASE s = {}
    BY <2>1, <2>0, <2>00
  <2>2. CASE s # {}
    <3>1. First(s) \in s
      BY <2>2 DEF First
    <3>2. s \ {First(s)} \in G
      BY <3>1, <1>1
    <3> QED BY <2>2, <3>2, <2>0, <2>00
  <2> QED BY <2>1, <2>2
<1>2. \A s \in SUBSET U : s \in G
  <2> HIDE DEF G
  <2> QED BY <1>1, SubsetInduction
<1> QED BY <1>2

\* Every finite set has a folding.
LEMMA FoldingExists ==
    ASSUME NEW f, NEW S, IsFiniteSet(S)
    PROVE  \E g : Folding(f, S, g)
<1> DEFINE G == {s \in SUBSET S : \E g : Folding(f, s, g)}
           H(s) == CHOOSE g : Folding(f, s, g)
<1>1. ASSUME NEW t \in SUBSET S, \A u \in SUBSET t : u # t => u \in G PROVE t \in G
  <2> DEFINE v(s) == IF s = {} THEN 0 ELSE f[First(s)] + H(s \ {First(s)})[s \ {First(s)}]
             g == [s \in SUBSET t |-> v(s)]
  <2>1. ASSUME NEW u \in SUBSET t, u # t PROVE Folding(f, u, H(u)) /\ IsFiniteSet(u)
    <3>1. u \in G
      BY <1>1, <2>1
    <3>2. \E k : Folding(f, u, k)
      BY <3>1
    <3> QED BY <3>2, <3>1, FS_Subset, Zenon
  <2>2. ASSUME NEW s \in SUBSET t, s # {}
        PROVE  s \ {First(s)} \in SUBSET t /\ s \ {First(s)} # t /\ First(s) \in s
    BY <2>2 DEF First
  <2>3. ASSUME NEW r \in SUBSET t, r # t PROVE v(r) = H(r)[r]
    <3>1. Folding(f, r, H(r)) /\ r \in SUBSET r
      BY <2>1, <2>3
    <3>2. H(r)[r] = IF r = {} THEN 0 ELSE f[First(r)] + H(r)[r \ {First(r)}]
      <4> HIDE DEF H
      <4> QED BY <3>1, FoldingStep
    <3>3. CASE r = {}
      BY <3>2, <3>3
    <3>4. CASE r # {}
      <4> DEFINE w == r \ {First(r)}
      <4>1. w \in SUBSET t /\ w # t
        BY <2>2, <3>4
      <4>2. Folding(f, w, H(w)) /\ IsFiniteSet(w)
        BY <4>1, <2>1
      <4>3. H(w)[w] = H(r)[w]
        <5>1. w \subseteq w /\ w \subseteq r
          OBVIOUS
        <5> HIDE DEF H, w
        <5> QED BY <5>1, <4>2, <3>1, FoldingUnique
      <4> QED BY <4>3, <3>2, <3>4
    <3> QED BY <3>3, <3>4
  <2>4. ASSUME NEW s \in SUBSET t PROVE v(s) = IF s = {} THEN 0 ELSE f[First(s)] + g[s \ {First(s)}]
    <3>1. CASE s = {}
      BY <3>1
    <3>2. CASE s # {}
      <4> DEFINE w == s \ {First(s)}
      <4>1. w \in SUBSET t /\ w # t
        BY <2>2, <3>2
      <4>2. g[w] = H(w)[w]
        <5>1. g[w] = v(w)
          <6> HIDE DEF v, w
          <6> QED BY <4>1
        <5> QED BY <5>1, <4>1, <2>3
      <4> QED BY <4>2, <3>2
    <3> QED BY <3>1, <3>2
  <2>5. g = [s \in SUBSET t |-> IF s = {} THEN 0 ELSE f[First(s)] + g[s \ {First(s)}]]
    <3>1. g = [s \in SUBSET t |-> v(s)]
      OBVIOUS
    <3> HIDE DEF v, g
    <3> QED BY <2>4, <3>1
  <2>6. Folding(f, t, g)
    BY <2>5 DEF Folding
  <2> HIDE DEF g
  <2> QED BY <2>6
<1>2. \A s \in SUBSET S : s \in G
  <2> HIDE DEF G
  <2> QED BY <1>1, SubsetInduction
<1> QED BY <1>2

\* The library's sum is the value of a folding.
LEMMA SumIsFolding ==
    ASSUME NEW f, NEW S, IsFiniteSet(S)
    PROVE  \E g : Folding(f, S, g) /\ SumFunctionOnSet(f, S) = g[S]
<1> DEFINE g == CHOOSE h : Folding(f, S, h)
<1>1. Folding(f, S, g)
  BY FoldingExists, Zenon
<1>2. SumFunctionOnSet(f, S) = g[S]
  BY Zenon DEF SumFunctionOnSet, FoldFunctionOnSet, MapThenFoldSet, Folding, First
<1> HIDE DEF g
<1> QED BY <1>1, <1>2

\* The empty sum.
LEMMA SumEmpty ==
    ASSUME NEW f
    PROVE  SumFunctionOnSet(f, {}) = 0
<1>1. IsFiniteSet({})
  BY FS_EmptySet
<1>2. PICK g : Folding(f, {}, g) /\ SumFunctionOnSet(f, {}) = g[{}]
  BY <1>1, SumIsFolding
<1>3. {} \in SUBSET {}
  OBVIOUS
<1> QED BY <1>2, <1>3, FoldingStep

\* A sum splits off the element the fold takes first.
LEMMA SumFirst ==
    ASSUME NEW f, NEW S, IsFiniteSet(S), S # {}
    PROVE  /\ First(S) \in S
           /\ SumFunctionOnSet(f, S) = f[First(S)] + SumFunctionOnSet(f, S \ {First(S)})
<1> DEFINE T == S \ {First(S)}
<1>1. First(S) \in S
  BY DEF First
<1>2. IsFiniteSet(T) /\ T \subseteq S /\ T \subseteq T /\ S \in SUBSET S
  BY FS_Subset
<1> HIDE DEF T
<1>3. PICK g : Folding(f, S, g) /\ SumFunctionOnSet(f, S) = g[S]
  BY SumIsFolding
<1>4. PICK h : Folding(f, T, h) /\ SumFunctionOnSet(f, T) = h[T]
  BY <1>2, SumIsFolding
<1>5. g[T] = h[T]
  BY <1>2, <1>3, <1>4, FoldingUnique
<1>6. g[S] = f[First(S)] + g[T]
  BY <1>2, <1>3, FoldingStep DEF T
<1> QED BY <1>1, <1>3, <1>4, <1>5, <1>6 DEF T

\* A sum of integers is an integer.
LEMMA SumType ==
    ASSUME NEW f, NEW S, IsFiniteSet(S), \A x \in S : f[x] \in Int
    PROVE  SumFunctionOnSet(f, S) \in Int
<1> DEFINE G == {s \in SUBSET S : SumFunctionOnSet(f, s) \in Int}
<1>1. ASSUME NEW s \in SUBSET S, \A u \in SUBSET s : u # s => u \in G PROVE s \in G
  <2>1. CASE s = {}
    BY <2>1, SumEmpty
  <2>2. CASE s # {}
    <3>1. IsFiniteSet(s)
      BY FS_Subset
    <3>2. First(s) \in s /\ SumFunctionOnSet(f, s) = f[First(s)] + SumFunctionOnSet(f, s \ {First(s)})
      BY <2>2, <3>1, SumFirst
    <3>3. s \ {First(s)} \in G
      BY <1>1, <3>2
    <3> QED BY <3>2, <3>3
  <2> QED BY <2>1, <2>2
<1>2. \A s \in SUBSET S : s \in G
  <2> HIDE DEF G
  <2> QED BY <1>1, SubsetInduction
<1> QED BY <1>2

\* A sum splits off any element, addition being commutative.
LEMMA SumRemove ==
    ASSUME NEW f, NEW S, IsFiniteSet(S), \A x \in S : f[x] \in Int, NEW y \in S
    PROVE  SumFunctionOnSet(f, S) = f[y] + SumFunctionOnSet(f, S \ {y})
<1> DEFINE G == {s \in SUBSET S : \A x \in s : SumFunctionOnSet(f, s) = f[x] + SumFunctionOnSet(f, s \ {x})}
<1>1. ASSUME NEW s \in SUBSET S, \A u \in SUBSET s : u # s => u \in G PROVE s \in G
  <2> SUFFICES ASSUME NEW x \in s
               PROVE  SumFunctionOnSet(f, s) = f[x] + SumFunctionOnSet(f, s \ {x})
    OBVIOUS
  <2> DEFINE p == First(s)
  <2>1. IsFiniteSet(s) /\ s # {}
    BY FS_Subset
  <2>2. p \in s /\ SumFunctionOnSet(f, s) = f[p] + SumFunctionOnSet(f, s \ {p})
    BY <2>1, SumFirst
  <2> HIDE DEF p
  <2>3. CASE x = p
    BY <2>2, <2>3
  <2>4. CASE x # p
    <3>1. s \ {p} \in G /\ s \ {x} \in G /\ x \in s \ {p} /\ p \in s \ {x}
      BY <1>1, <2>2, <2>4
    <3>2. SumFunctionOnSet(f, s \ {p}) = f[x] + SumFunctionOnSet(f, (s \ {p}) \ {x})
      BY <3>1
    <3>3. SumFunctionOnSet(f, s \ {x}) = f[p] + SumFunctionOnSet(f, (s \ {x}) \ {p})
      BY <3>1
    <3>4. (s \ {p}) \ {x} = (s \ {x}) \ {p}
      OBVIOUS
    <3>5. IsFiniteSet((s \ {x}) \ {p}) /\ \A z \in (s \ {x}) \ {p} : f[z] \in Int
      BY <2>1, FS_Subset
    <3>6. SumFunctionOnSet(f, (s \ {x}) \ {p}) \in Int
      BY <3>5, SumType
    <3>7. f[x] \in Int /\ f[p] \in Int
      BY <2>2
    <3> DEFINE rest == SumFunctionOnSet(f, (s \ {x}) \ {p})
    <3>8. /\ SumFunctionOnSet(f, s) = f[p] + (f[x] + rest)
          /\ SumFunctionOnSet(f, s \ {x}) = f[p] + rest
      BY <2>2, <3>2, <3>3, <3>4, Zenon
    <3>9. rest \in Int
      BY <3>6
    <3> HIDE DEF rest
    <3> QED BY <3>7, <3>8, <3>9
  <2> QED BY <2>3, <2>4
<1>2. \A s \in SUBSET S : s \in G
  <2> HIDE DEF G
  <2> QED BY <1>1, SubsetInduction
<1>3. S \in G
  BY <1>2
<1> QED BY <1>3

\* One more element adds its value.
LEMMA SumAdd ==
    ASSUME NEW f, NEW S, IsFiniteSet(S), NEW y, y \notin S, \A x \in S \cup {y} : f[x] \in Int
    PROVE  SumFunctionOnSet(f, S \cup {y}) = SumFunctionOnSet(f, S) + f[y]
<1>1. IsFiniteSet(S \cup {y}) /\ (S \cup {y}) \ {y} = S
  BY FS_AddElement
<1>2. SumFunctionOnSet(f, S \cup {y}) = f[y] + SumFunctionOnSet(f, (S \cup {y}) \ {y})
  BY <1>1, SumRemove
<1>3. SumFunctionOnSet(f, S) \in Int /\ f[y] \in Int
  BY SumType
<1>4. SumFunctionOnSet(f, S \cup {y}) = f[y] + SumFunctionOnSet(f, S)
  BY <1>1, <1>2, Zenon
<1> QED BY <1>3, <1>4

\* A sum depends on the values at the elements only.
LEMMA SumSame ==
    ASSUME NEW f, NEW g, NEW S, IsFiniteSet(S), \A x \in S : f[x] = g[x]
    PROVE  SumFunctionOnSet(f, S) = SumFunctionOnSet(g, S)
<1> DEFINE G == {s \in SUBSET S : SumFunctionOnSet(f, s) = SumFunctionOnSet(g, s)}
<1>1. ASSUME NEW s \in SUBSET S, \A u \in SUBSET s : u # s => u \in G PROVE s \in G
  <2>1. CASE s = {}
    BY <2>1, SumEmpty
  <2>2. CASE s # {}
    <3>1. IsFiniteSet(s)
      BY FS_Subset
    <3>2. First(s) \in s /\ SumFunctionOnSet(f, s) = f[First(s)] + SumFunctionOnSet(f, s \ {First(s)})
      BY <2>2, <3>1, SumFirst
    <3>3. SumFunctionOnSet(g, s) = g[First(s)] + SumFunctionOnSet(g, s \ {First(s)})
      BY <2>2, <3>1, SumFirst
    <3>4. s \ {First(s)} \in G
      BY <1>1, <3>2
    <3> QED BY <3>2, <3>3, <3>4
  <2> QED BY <2>1, <2>2
<1>2. \A s \in SUBSET S : s \in G
  <2> HIDE DEF G
  <2> QED BY <1>1, SubsetInduction
<1> QED BY <1>2

\* Sums over disjoint sets add up.
LEMMA SumUnion ==
    ASSUME NEW f, NEW S, NEW T, IsFiniteSet(S), IsFiniteSet(T), S \cap T = {},
           \A x \in S \cup T : f[x] \in Int
    PROVE  SumFunctionOnSet(f, S \cup T) = SumFunctionOnSet(f, S) + SumFunctionOnSet(f, T)
<1> DEFINE G == {s \in SUBSET T : SumFunctionOnSet(f, S \cup s) = SumFunctionOnSet(f, S) + SumFunctionOnSet(f, s)}
<1>0. SumFunctionOnSet(f, S) \in Int
  BY SumType
<1>1. ASSUME NEW s \in SUBSET T, \A u \in SUBSET s : u # s => u \in G PROVE s \in G
  <2>1. CASE s = {}
    <3>1. S \cup s = S
      BY <2>1
    <3> QED BY <2>1, <3>1, <1>0, SumEmpty
  <2>2. CASE s # {}
    <3>1. PICK y \in s : TRUE
      BY <2>2
    <3> DEFINE r == s \ {y}
    <3>2. IsFiniteSet(r) /\ r \in G /\ r \cup {y} = s /\ y \notin r /\ y \notin S
          /\ (S \cup r) \cup {y} = S \cup s
      BY <1>1, FS_Subset
    <3>3. IsFiniteSet(S \cup r) /\ y \notin S \cup r
      BY <3>2, FS_Union
    <3>4. /\ \A x \in r : f[x] \in Int
          /\ \A x \in r \cup {y} : f[x] \in Int
          /\ \A x \in (S \cup r) \cup {y} : f[x] \in Int
      OBVIOUS
    <3>5. SumFunctionOnSet(f, S \cup r) = SumFunctionOnSet(f, S) + SumFunctionOnSet(f, r)
      BY <3>2
    <3> HIDE DEF r
    <3>6. SumFunctionOnSet(f, (S \cup r) \cup {y}) = SumFunctionOnSet(f, S \cup r) + f[y]
      BY <3>3, <3>4, SumAdd
    <3>7. SumFunctionOnSet(f, r \cup {y}) = SumFunctionOnSet(f, r) + f[y]
      BY <3>2, <3>4, SumAdd
    <3>8. SumFunctionOnSet(f, r) \in Int /\ f[y] \in Int
      BY <3>2, <3>4, SumType
    <3>9. SumFunctionOnSet(f, S \cup s) = SumFunctionOnSet(f, S) + SumFunctionOnSet(f, s)
      <4>1. /\ SumFunctionOnSet(f, S \cup s) = (SumFunctionOnSet(f, S) + SumFunctionOnSet(f, r)) + f[y]
            /\ SumFunctionOnSet(f, s) = SumFunctionOnSet(f, r) + f[y]
        BY <3>2, <3>5, <3>6, <3>7, Zenon
      <4> QED BY <1>0, <3>8, <4>1
    <3> QED BY <3>9
  <2> QED BY <2>1, <2>2
<1>2. \A s \in SUBSET T : s \in G
  <2> HIDE DEF G
  <2> QED BY <1>1, SubsetInduction
<1>3. T \in G
  BY <1>2
<1> QED BY <1>3

\* The sum of sums, element by element.
LEMMA SumPlus ==
    ASSUME NEW f, NEW g, NEW h, NEW S, IsFiniteSet(S),
           \A x \in S : f[x] \in Int /\ g[x] \in Int /\ h[x] = f[x] + g[x]
    PROVE  SumFunctionOnSet(h, S) = SumFunctionOnSet(f, S) + SumFunctionOnSet(g, S)
<1> DEFINE G == {s \in SUBSET S : SumFunctionOnSet(h, s) = SumFunctionOnSet(f, s) + SumFunctionOnSet(g, s)}
<1>1. ASSUME NEW s \in SUBSET S, \A u \in SUBSET s : u # s => u \in G PROVE s \in G
  <2>1. CASE s = {}
    BY <2>1, SumEmpty
  <2>2. CASE s # {}
    <3> DEFINE y == First(s)
               r == s \ {y}
    <3>1. IsFiniteSet(s) /\ IsFiniteSet(r)
      BY FS_Subset
    <3>2. /\ y \in s
          /\ SumFunctionOnSet(f, s) = f[y] + SumFunctionOnSet(f, r)
          /\ SumFunctionOnSet(g, s) = g[y] + SumFunctionOnSet(g, r)
          /\ SumFunctionOnSet(h, s) = h[y] + SumFunctionOnSet(h, r)
      BY <2>2, <3>1, SumFirst
    <3>3. r \in G
      BY <1>1, <3>2
    <3>4. f[y] \in Int /\ g[y] \in Int /\ h[y] = f[y] + g[y]
      BY <3>2
    <3>5. (\A x \in r : f[x] \in Int) /\ (\A x \in r : g[x] \in Int)
      OBVIOUS
    <3>6. SumFunctionOnSet(f, r) \in Int /\ SumFunctionOnSet(g, r) \in Int
      <4> HIDE DEF r, y
      <4> QED BY <3>1, <3>5, SumType
    <3>7. SumFunctionOnSet(h, r) = SumFunctionOnSet(f, r) + SumFunctionOnSet(g, r)
      BY <3>3
    <3>8. SumFunctionOnSet(h, s) = SumFunctionOnSet(f, s) + SumFunctionOnSet(g, s)
      <4> HIDE DEF r, y
      <4> QED BY <3>2, <3>4, <3>6, <3>7
    <3> QED BY <3>8
  <2> QED BY <2>1, <2>2
<1>2. \A s \in SUBSET S : s \in G
  <2> HIDE DEF G
  <2> QED BY <1>1, SubsetInduction
<1>3. S \in G
  BY <1>2
<1> QED BY <1>3

\* A finite set of integers that is not empty has a greatest element.
LEMMA MaxExists ==
    ASSUME NEW S, IsFiniteSet(S), S \subseteq Int, S # {}
    PROVE  Max(S) \in S /\ \A y \in S : y <= Max(S)
<1> DEFINE G == {s \in SUBSET S : s # {} => \E x \in s : \A y \in s : x >= y}
<1>1. ASSUME NEW s \in SUBSET S, \A u \in SUBSET s : u # s => u \in G PROVE s \in G
  <2> SUFFICES ASSUME s # {} PROVE \E x \in s : \A y \in s : x >= y
    OBVIOUS
  <2>1. PICK a \in s : TRUE
    OBVIOUS
  <2>2. CASE s \ {a} = {}
    <3>1. \A y \in s : a >= y
      BY <2>2
    <3> QED BY <3>1
  <2>3. CASE s \ {a} # {}
    <3>1. s \ {a} \in G
      BY <1>1
    <3>2. PICK b \in s \ {a} : \A y \in s \ {a} : b >= y
      BY <2>3, <3>1
    <3>3. a \in Int /\ b \in Int /\ \A y \in s : y \in Int
      OBVIOUS
    <3>4. CASE a >= b
      <4>1. \A y \in s : a >= y
        BY <3>2, <3>3, <3>4
      <4> QED BY <4>1
    <3>5. CASE ~(a >= b)
      <4>1. \A y \in s : b >= y
        BY <3>2, <3>3, <3>5
      <4> QED BY <4>1
    <3> QED BY <3>4, <3>5
  <2> QED BY <2>2, <2>3
<1>2. \A s \in SUBSET S : s \in G
  <2> HIDE DEF G
  <2> QED BY <1>1, SubsetInduction
<1>3. \E x \in S : \A y \in S : x >= y
  BY <1>2
<1>4. Max(S) \in S /\ \A y \in S : Max(S) >= y
  BY <1>3, Zenon DEF Max
<1> QED BY <1>4

-----------------------------------------------------------------------------
(* What an event adds to its row *)

\* Events are the numbers 1 to Len(History).
LEMMA EventsFinite ==
    /\ Events = 1..Len(History) /\ Events \subseteq Nat /\ Events \subseteq Int
    /\ IsFiniteSet(Events)
    /\ \A S : S \subseteq Events => IsFiniteSet(S)
<1>1. Len(History) \in Nat /\ 1 \in Int /\ Len(History) \in Int /\ Events = 1..Len(History)
  BY ProjectorAssumption DEF Events
<1>2. IsFiniteSet(1..Len(History))
  BY <1>1, FS_Interval
<1>3. Events \subseteq Nat /\ Events \subseteq Int
  BY <1>1
<1> QED BY <1>1, <1>2, <1>3, FS_Subset

\* An hour bucket is an integer.
LEMMA HourType ==
    ASSUME NEW t \in Nat
    PROVE  HourOf(t) \in Int
BY ProjectorAssumption DEF HourOf

\* There are finitely many rows, and an event that is recorded has one.
LEMMA RowKeysFinite ==
    /\ IsFiniteSet(RowKeys)
    /\ \A k \in RowKeys : k[3] \in Int
    /\ \A e \in Events : Records(e) => RowKey[e] \in RowKeys
<1> DEFINE S == {x \in Events : Records(x)}
<1>1. IsFiniteSet(S)
  BY EventsFinite
<1>2. \A e \in Events : RowKey[e][3] \in Int
  BY HourType, ProjectorAssumption DEF RowKey, Events
<1>3. RowKeys = {RowKey[e] : e \in S}
  BY DEF RowKeys
<1> HIDE DEF S
<1>4. IsFiniteSet({RowKey[e] : e \in S})
  <2> DEFINE f == [e \in S |-> RowKey[e]]
             T == {RowKey[e] : e \in S}
  <2>1. f \in Surjection(S, T)
    BY DEF Surjection
  <2> HIDE DEF T, f
  <2> QED BY <2>1, <1>1, FS_Surjection DEF T
<1> QED BY <1>1, <1>2, <1>3, <1>4 DEF S

\* The columns of a row.
LEMMA CounterNames ==
    /\ Counters = {"completions", "leaseExpiries", "weighCheckDiverts", "claimSeconds",
                   "completionsWithClaim", "packagesManifested", "packagesOnTimeToCPT", "packagesLateToCPT"}
    /\ NoDelta \in [Counters -> Int]
BY DEF Counters, NoDelta

\* The pending claims of e's station and task, and the deltas by name.
Mine(e, pending) == {c \in pending : c.key = ClaimKey[e]}
Unclaimed == [NoDelta EXCEPT !.completions = 1]
Claimed(t) == [NoDelta EXCEPT !.completions = 1, !.completionsWithClaim = 1, !.claimSeconds = t]
Expired == [NoDelta EXCEPT !.leaseExpiries = 1]
Weighed == [NoDelta EXCEPT !.weighCheckDiverts = 1]
Package(onTime) == IF onTime THEN [NoDelta EXCEPT !.packagesManifested = 1, !.packagesOnTimeToCPT = 1]
                   ELSE [NoDelta EXCEPT !.packagesManifested = 1, !.packagesLateToCPT = 1]

\* Delta, kind by kind (postgres_projection.go, one Apply method each).
LEMMA DeltaCases ==
    ASSUME NEW e \in Events, NEW pending
    PROVE  /\ History[e].kind = "TaskClaimed" => Delta(e, pending) = NoDelta
           /\ History[e].kind = "TaskCompleted" /\ Mine(e, pending) = {} =>
                 Delta(e, pending) = Unclaimed
           /\ History[e].kind = "TaskCompleted" /\ Mine(e, pending) # {} =>
                 \E c \in Mine(e, pending) : Delta(e, pending) = Claimed(History[e].at - c.at)
           /\ History[e].kind = "LeaseExpired" => Delta(e, pending) = Expired
           /\ History[e].kind = "WeightDiscrepancyDetected" => Delta(e, pending) = Weighed
           /\ History[e].kind = "PackageManifested" => Delta(e, pending) = Package(Data[e].onTime)
<1>1. CASE History[e].kind = "TaskCompleted"
  <2>1. CASE Mine(e, pending) = {}
    BY <1>1, <2>1 DEF Delta, Mine, Unclaimed
  <2>2. CASE Mine(e, pending) # {}
    <3> DEFINE c == CHOOSE c \in Mine(e, pending) : TRUE
    <3>1. c \in Mine(e, pending)
      BY <2>2
    <3>2. Delta(e, pending) = Claimed(History[e].at - c.at)
      BY <1>1, <2>2 DEF Delta, Mine, Claimed
    <3> HIDE DEF c
    <3> QED BY <3>1, <3>2, <1>1, <2>2
  <2> QED BY <1>1, <2>1, <2>2
<1>2. CASE History[e].kind = "TaskClaimed"
  BY <1>2 DEF Delta
<1>3. CASE History[e].kind = "LeaseExpired"
  BY <1>3 DEF Delta, Expired
<1>4. CASE History[e].kind = "WeightDiscrepancyDetected"
  BY <1>4 DEF Delta, Weighed
<1>5. CASE History[e].kind = "PackageManifested"
  <2>1. CASE Data[e].onTime
    BY <1>5, <2>1 DEF Delta, Package
  <2>2. CASE ~Data[e].onTime
    BY <1>5, <2>2 DEF Delta, Package
  <2> QED BY <2>1, <2>2
<1> QED BY <1>1, <1>2, <1>3, <1>4, <1>5

\* Changing a column keeps a row a row.
LEMMA CounterChange ==
    ASSUME NEW r \in [Counters -> Int], NEW c \in Counters, NEW v \in Int
    PROVE  [r EXCEPT ![c] = v] \in [Counters -> Int]
OBVIOUS

\* A delta is a row.
LEMMA DeltaType ==
    ASSUME NEW e \in Events, Records(e), NEW pending, pending \subseteq [key : Range(ClaimKey), at : Nat]
    PROVE  Delta(e, pending) \in [Counters -> Int]
<1>1. ASSUME NEW t \in Int PROVE Claimed(t) \in [Counters -> Int]
  <2> DEFINE a == [NoDelta EXCEPT !.completions = 1]
             b == [a EXCEPT !.completionsWithClaim = 1]
  <2>1. a \in [Counters -> Int]
    BY CounterNames, CounterChange
  <2>2. b \in [Counters -> Int]
    <3> HIDE DEF a
    <3> QED BY <2>1, CounterNames, CounterChange
  <2>3. [b EXCEPT !.claimSeconds = t] \in [Counters -> Int]
    <3> HIDE DEF b
    <3> QED BY <2>2, CounterNames, CounterChange
  <2> QED BY <2>3 DEF Claimed
<1>2. /\ Unclaimed \in [Counters -> Int] /\ Expired \in [Counters -> Int] /\ Weighed \in [Counters -> Int]
      /\ NoDelta \in [Counters -> Int]
  BY CounterNames DEF Unclaimed, Expired, Weighed, NoDelta
<1>3. Package(Data[e].onTime) \in [Counters -> Int]
  <2> DEFINE a == [NoDelta EXCEPT !.packagesManifested = 1]
  <2>1. a \in [Counters -> Int]
    BY CounterNames, CounterChange
  <2>2. [a EXCEPT !.packagesOnTimeToCPT = 1] \in [Counters -> Int]
    <3> HIDE DEF a
    <3> QED BY <2>1, CounterNames, CounterChange
  <2>3. [a EXCEPT !.packagesLateToCPT = 1] \in [Counters -> Int]
    <3> HIDE DEF a
    <3> QED BY <2>1, CounterNames, CounterChange
  <2> QED BY <2>2, <2>3 DEF Package
<1>4. \A c \in Mine(e, pending) : History[e].at - c.at \in Int
  <2>1. \A c \in Mine(e, pending) : c.at \in Int
    BY DEF Mine
  <2>2. History[e].at \in Int
    BY ProjectorAssumption DEF Events
  <2> QED BY <2>1, <2>2
<1>5. History[e].kind \in Projecting
  BY DEF Records, Projects
<1> QED BY <1>1, <1>2, <1>3, <1>4, <1>5, DeltaCases DEF Projecting

\* A row with the columns MemoryStore computes is MemoryStore's row.
LEMMA RowEquals ==
    ASSUME NEW s, NEW k, NEW r \in [Counters -> Int],
           r.completions = Cardinality(Places(s, "TaskCompleted", k)),
           r.leaseExpiries = Cardinality(Places(s, "LeaseExpired", k)),
           r.weighCheckDiverts = Cardinality(Places(s, "WeightDiscrepancyDetected", k)),
           r.claimSeconds = SumFunction([i \in Paired(s, k) |-> Since(s, i)]),
           r.completionsWithClaim = Cardinality(Paired(s, k)),
           r.packagesManifested = Cardinality(Places(s, "PackageManifested", k)),
           r.packagesOnTimeToCPT = Cardinality(OnTime(s, k)),
           r.packagesLateToCPT = Cardinality(Places(s, "PackageManifested", k) \ OnTime(s, k))
    PROVE  r = MemoryRow(s, k)
BY CounterNames DEF MemoryRow

-----------------------------------------------------------------------------
(* Delivery: the inductive invariant and the type invariant *)

\* The partition of a key holds each of its events, and no other.
LogsComplete ==
    \A k \in Keys : log[k] \in Seq(EventsOf(k)) /\ Range(log[k]) = EventsOf(k)

\* Only events that project are taken in hand.
HandsProject == \A c \in Consumers : \A e \in cur[c] : Projects(e)

\* Only events with an effect are recorded.
OnlyRecords == \A e \in processed : Records(e)

\* A fault that loses an event struck e.
Struck(e) == hit[e] \cap {"abandon", "lostMark"} # {}

\* A message read is marked, in a handler's hand, or struck.
ReadIsMarked ==
    \A e \in Events : Projects(e) /\ ReadPast(e) =>
        e \in consumed \/ (\E c \in Consumers : InHand(c, e)) \/ Struck(e)

\* A marked event is recorded, in the hand of a handler past the mark, or struck.
MarkedIsApplied ==
    \A e \in consumed : Records(e) =>
        e \in processed \/ (\E c \in Consumers : InHand(c, e) /\ phase[c] = "apply") \/ Struck(e)

\* The event a handler is about to apply is not applied yet, and no other
\* handler is about to: the one that marked it goes on alone.
HandIsFresh ==
    \A c \in Consumers : phase[c] = "apply" =>
        \A e \in cur[c] : /\ e \notin processed
                         /\ \A b \in Consumers : b # c /\ phase[b] = "apply" => e \notin cur[b]

DeliveryInv ==
    /\ TypeOK /\ LogsComplete /\ HandsProject /\ OnlyRecords /\ ReadIsMarked /\ MarkedIsApplied
    /\ HandIsFresh

\* Appending to the log of applied events.
LEMMA AppendRange ==
    ASSUME NEW S, NEW s \in Seq(S), NEW e \in S
    PROVE  /\ Append(s, e) \in Seq(S) /\ Range(Append(s, e)) = Range(s) \cup {e}
           /\ Len(s) \in Nat /\ DOMAIN s = 1..Len(s) /\ DOMAIN Append(s, e) = 1..(Len(s) + 1)
           /\ \A i \in 1..Len(s) : Append(s, e)[i] = s[i]
           /\ Append(s, e)[Len(s) + 1] = e
<1>1. /\ Append(s, e) \in Seq(S)
      /\ Len(s) \in Nat /\ DOMAIN s = 1..Len(s) /\ DOMAIN Append(s, e) = 1..(Len(s) + 1)
      /\ \A i \in 1..Len(s) : Append(s, e)[i] = s[i]
      /\ Append(s, e)[Len(s) + 1] = e
  BY AppendProperties, LenProperties
<1>2. Range(Append(s, e)) = Range(s) \cup {e}
  BY <1>1 DEF Range
<1> QED BY <1>1, <1>2

\* A transaction that records e.
Recording(e) ==
    /\ e \in Events /\ Records(e) /\ e \notin processed
    /\ processed' = processed \cup {e}
    /\ claims' = PendingAfter(e, claims)
    /\ rows' = UpsertRollup(rows, e, claims)
    /\ applied' = Append(applied, e)

\* The tables have their types, and processed is the log's range.
StoreOK ==
    /\ applied \in Seq(Events) /\ processed = Range(applied)
    /\ claims \subseteq [key : Range(ClaimKey), at : Nat]
    /\ rows \in [RowKeys -> [Counters -> Int]]

\* Adding a delta to a row, column by column.
LEMMA AddType ==
    ASSUME NEW r \in [Counters -> Int], NEW d \in [Counters -> Int]
    PROVE  Add(r, d) \in [Counters -> Int] /\ \A f \in Counters : Add(r, d)[f] = r[f] + d[f]
BY DEF Add

\* Recording an event keeps the tables well typed.
LEMMA RecordKeepsType ==
    ASSUME StoreOK, NEW e, Recording(e)
    PROVE  StoreOK'
<1>1. applied' \in Seq(Events) /\ processed' = Range(applied')
  BY AppendRange DEF StoreOK, Recording
<1>2. claims' \subseteq [key : Range(ClaimKey), at : Nat]
  <2>1. ClaimKey[e] \in Range(ClaimKey) /\ History[e].at \in Nat
    BY ProjectorAssumption DEF Recording, Events, ClaimKey, Range
  <2>2. [key |-> ClaimKey[e], at |-> History[e].at] \in [key : Range(ClaimKey), at : Nat]
    BY <2>1
  <2> QED BY <2>2 DEF StoreOK, Recording, PendingAfter
<1>3. rows' \in [RowKeys -> [Counters -> Int]]
  <2>1. RowKey[e] \in RowKeys /\ Delta(e, claims) \in [Counters -> Int] /\ rows[RowKey[e]] \in [Counters -> Int]
    BY RowKeysFinite, DeltaType DEF StoreOK, Recording
  <2>2. Add(rows[RowKey[e]], Delta(e, claims)) \in [Counters -> Int]
    BY <2>1, AddType
  <2> QED BY <2>1, <2>2 DEF StoreOK, Recording, UpsertRollup
<1> QED BY <1>1, <1>2, <1>3 DEF StoreOK

\* A transaction for an event that is not applied yet records it.
LEMMA TxEffect ==
    ASSUME NEW e \in Events, Records(e), e \notin processed, InTx(e)
    PROVE  Recording(e)
BY DEF InTx, IdKnown, Recording

\* After an Apply transaction the event is recorded, whether it was before or not.
LEMMA TxKeepsType ==
    ASSUME TypeOK, NEW e \in consumed, Records(e), InTx(e)
    PROVE  StoreOK' /\ processed' \subseteq consumed /\ e \in processed' /\ processed' = processed \cup {e}
<1>1. StoreOK /\ e \in Events /\ processed \subseteq consumed
  BY DEF TypeOK, StoreOK
<1>2. CASE e \in processed
  <2>1. applied' = Append(applied, e) /\ UNCHANGED <<processed, claims, rows>>
    BY <1>2 DEF InTx, IdKnown
  <2>2. applied' \in Seq(Events) /\ Range(applied') = Range(applied) \cup {e}
    BY <1>1, <2>1, AppendRange DEF StoreOK
  <2> QED BY <1>1, <1>2, <2>1, <2>2 DEF StoreOK
<1>3. CASE e \notin processed
  <2>1. Recording(e)
    BY <1>1, <1>3, TxEffect
  <2>2. StoreOK'
    BY <1>1, <2>1, RecordKeepsType
  <2> QED BY <1>1, <2>1, <2>2 DEF Recording
<1> QED BY <1>2, <1>3

\* Putting a message down.
LEMMA DropEffect ==
    ASSUME TypeOK, NEW c \in Consumers, Drop(c)
    PROVE  /\ cur' \in [Consumers -> SUBSET Events] /\ phase' \in [Consumers -> {"read", "mark", "apply"}]
           /\ cur'[c] = {} /\ phase'[c] = "read"
           /\ \A b \in Consumers : b # c => cur'[b] = cur[b] /\ phase'[b] = phase[b]
BY DEF TypeOK, Drop

\* A handler at rest holds nothing, one at work one event, marked once past the mark.
HandsOK ==
    \A c \in Consumers :
        /\ IF phase[c] = "read" THEN cur[c] = {} ELSE \E e \in Events : cur[c] = {e}
        /\ phase[c] = "apply" => cur[c] \subseteq consumed

\* Putting a message down keeps the hands in order.
LEMMA DropHands ==
    ASSUME TypeOK, NEW c \in Consumers, Drop(c), consumed \subseteq consumed'
    PROVE  HandsOK'
<1> SUFFICES ASSUME NEW b \in Consumers
             PROVE  /\ IF phase'[b] = "read" THEN cur'[b] = {} ELSE \E e \in Events : cur'[b] = {e}
                    /\ phase'[b] = "apply" => cur'[b] \subseteq consumed'
  BY DEF HandsOK
<1>1. CASE b = c
  BY <1>1, DropEffect
<1>2. CASE b # c
  BY <1>2, DropEffect DEF TypeOK
<1> QED BY <1>1, <1>2

\* A fault is counted, and remembered with its event.
LEMMA FaultEffect ==
    ASSUME TypeOK, NEW f, NEW e \in Events, Fault(f, e)
    PROVE  /\ hit' \in [Events -> SUBSET Faults]
           /\ spent' \in [faults : 0..MaxFaults, rebalances : 0..MaxRebalances]
           /\ hit'[e] = hit[e] \cup {f} /\ \A d \in Events : d # e => hit'[d] = hit[d]
           /\ spent'.faults = spent.faults + 1
<1>1. hit' \in [Events -> SUBSET Faults] /\ hit'[e] = hit[e] \cup {f} /\ \A d \in Events : d # e => hit'[d] = hit[d]
  BY DEF TypeOK, Fault
<1>2. spent' \in [faults : 0..MaxFaults, rebalances : 0..MaxRebalances] /\ spent'.faults = spent.faults + 1
  <2>1. MaxFaults \in Nat /\ spent.faults \in 0..MaxFaults /\ spent.faults < MaxFaults
    BY ProjectorAssumption DEF TypeOK, Fault
  <2>2. spent.faults + 1 \in 0..MaxFaults
    BY <2>1
  <2>3. spent' = [spent EXCEPT !.faults = spent.faults + 1]
    BY DEF Fault
  <2> QED BY <2>2, <2>3 DEF TypeOK
<1> QED BY <1>1, <1>2

\* The state is well typed initially, and the topic complete.
LEMMA TypeInit == Init => TypeOK /\ LogsComplete
<1> SUFFICES ASSUME Init PROVE TypeOK /\ LogsComplete
  OBVIOUS
<1>1. ASSUME NEW k \in Keys PROVE log[k] \in Seq(EventsOf(k)) /\ Range(log[k]) = EventsOf(k)
  <2>1. log[k] \in PartitionLogs(k)
    BY DEF Init
  <2>2. Cardinality(EventsOf(k)) \in Nat
    BY EventsFinite, FS_CardinalityType DEF EventsOf
  <2>3. PICK m \in Cardinality(EventsOf(k))..(Cardinality(EventsOf(k)) + MaxDisorder) :
             log[k] \in [1..m -> EventsOf(k)]
    BY <2>1 DEF PartitionLogs
  <2>4. m \in Nat
    BY <2>2, <2>3
  <2>5. Range(log[k]) = EventsOf(k)
    BY <2>1 DEF PartitionLogs
  <2> QED BY <2>3, <2>4, <2>5, SeqDef
<1>2. LogsComplete
  BY <1>1 DEF LogsComplete
<1>3. log \in [Keys -> Seq(Events)]
  <2>1. DOMAIN log = Keys /\ log = [k \in Keys |-> log[k]]
    BY DEF Init
  <2>2. \A k \in Keys : log[k] \in Seq(Events)
    <3> TAKE k \in Keys
    <3>1. log[k] \in Seq(EventsOf(k)) /\ EventsOf(k) \subseteq Events
      BY <1>1 DEF EventsOf
    <3> QED BY <3>1, SeqDef
  <2> QED BY <2>1, <2>2
<1>4. owner \in [Keys -> Consumers]
  BY ProjectorAssumption DEF Init
<1>5. offset \in [Keys -> Nat] /\ \A k \in Keys : offset[k] <= Len(log[k])
  <2>1. \A k \in Keys : Len(log[k]) \in Nat
    BY <1>3, LenProperties
  <2> QED BY <2>1 DEF Init
<1>6. applied \in Seq(Events) /\ processed = Range(applied)
  <2>1. applied = <<>> /\ processed = {}
    BY DEF Init
  <2>2. Range(<<>>) = {}
    BY DEF Range
  <2> QED BY <2>1, <2>2
<1>7. rows \in [RowKeys -> [Counters -> Int]] /\ claims = {}
  BY CounterNames DEF Init
<1>8. spent \in [faults : 0..MaxFaults, rebalances : 0..MaxRebalances]
  BY ProjectorAssumption DEF Init
<1>9. /\ phase \in [Consumers -> {"read", "mark", "apply"}] /\ cur \in [Consumers -> SUBSET Events]
      /\ \A c \in Consumers : phase[c] = "read" /\ cur[c] = {}
      /\ processed \subseteq consumed /\ consumed \subseteq Events
      /\ hit \in [Events -> SUBSET Faults]
  BY DEF Init
<1> QED BY <1>2, <1>3, <1>4, <1>5, <1>6, <1>7, <1>8, <1>9 DEF TypeOK

\* A consumer that can read finds an event of the key and has nothing in hand.
LEMMA ReadEffect ==
    ASSUME DeliveryInv, NEW c \in Consumers, NEW k \in Keys, CanRead(c, k)
    PROVE  /\ Upcoming(k) \in EventsOf(k) /\ Upcoming(k) \in Events
           /\ offset[k] + 1 \in 1..Len(log[k])
           /\ offset[k] \in Nat /\ Len(log[k]) \in Nat
           /\ phase[c] = "read" /\ cur[c] = {}
<1>1. log[k] \in Seq(EventsOf(k)) /\ offset[k] \in Nat /\ offset[k] < Len(log[k])
  BY DEF DeliveryInv, LogsComplete, TypeOK, CanRead
<1>2. Len(log[k]) \in Nat
  BY <1>1, LenProperties
<1>3. offset[k] + 1 \in 1..Len(log[k])
  BY <1>1, <1>2
<1>4. log[k][offset[k] + 1] \in EventsOf(k)
  BY <1>1, <1>3, ElementOfSeq
<1> QED BY <1>1, <1>2, <1>3, <1>4 DEF Upcoming, EventsOf, CanRead, DeliveryInv, TypeOK

\* Every step keeps the state well typed.
LEMMA TypeNext ==
    ASSUME DeliveryInv, [Next]_vars
    PROVE  TypeOK'
<1>a. TypeOK
  BY DEF DeliveryInv
<1>1. ASSUME NEW k \in Keys, NEW c \in Consumers, Rebalance(k, c) PROVE TypeOK'
  <2>1. UNCHANGED <<log, offset, cur, phase, consumed, processed, claims, rows, applied, hit>>
    BY <1>1 DEF Rebalance, handler, store
  <2>2. owner' \in [Keys -> Consumers]
    BY <1>a, <1>1 DEF Rebalance, TypeOK
  <2>3. spent' \in [faults : 0..MaxFaults, rebalances : 0..MaxRebalances]
    <3>1. MaxRebalances \in Nat /\ spent.rebalances \in 0..MaxRebalances /\ spent.rebalances < MaxRebalances
      BY <1>a, <1>1, ProjectorAssumption DEF TypeOK, Rebalance
    <3>2. spent.rebalances + 1 \in 0..MaxRebalances
      BY <3>1
    <3>3. spent' = [spent EXCEPT !.rebalances = spent.rebalances + 1]
      BY <1>1 DEF Rebalance
    <3> QED BY <3>2, <3>3, <1>a DEF TypeOK
  <2> QED BY <2>1, <2>2, <2>3, <1>a DEF TypeOK
<1>2. ASSUME NEW c \in Consumers, NEW k \in Keys, Ignore(c, k) PROVE TypeOK'
  <2>1. /\ UNCHANGED <<log, owner, cur, phase, consumed, processed, claims, rows, applied, hit, spent>>
        /\ offset' = [offset EXCEPT ![k] = @ + 1] /\ CanRead(c, k)
    BY <1>2 DEF Ignore, handler, store
  <2>2. offset' \in [Keys -> Nat] /\ \A q \in Keys : offset'[q] <= Len(log[q])
    BY <1>a, <2>1, ReadEffect DEF TypeOK
  <2> QED BY <2>1, <2>2, <1>a DEF TypeOK
<1>3. ASSUME NEW c \in Consumers, NEW k \in Keys, Take(c, k) PROVE TypeOK'
  <2>1. /\ UNCHANGED <<log, owner, consumed, processed, claims, rows, applied, hit, spent>>
        /\ offset' = [offset EXCEPT ![k] = @ + 1] /\ CanRead(c, k)
        /\ cur' = [cur EXCEPT ![c] = {Upcoming(k)}]
        /\ phase' = [phase EXCEPT ![c] = "mark"]
    BY <1>3 DEF Take, store
  <2>2. offset' \in [Keys -> Nat] /\ \A q \in Keys : offset'[q] <= Len(log[q])
    BY <1>a, <2>1, ReadEffect DEF TypeOK
  <2>3. PICK u \in Events : u = Upcoming(k)
    BY <2>1, ReadEffect
  <2>4. /\ phase' \in [Consumers -> {"read", "mark", "apply"}] /\ cur' \in [Consumers -> SUBSET Events]
        /\ cur'[c] = {u} /\ phase'[c] = "mark"
        /\ \A b \in Consumers : b # c => cur'[b] = cur[b] /\ phase'[b] = phase[b]
    BY <1>a, <2>1, <2>3 DEF TypeOK
  <2>5. HandsOK'
    BY <1>a, <2>1, <2>4 DEF HandsOK, TypeOK
  <2> QED BY <2>1, <2>2, <2>4, <2>5, <1>a DEF TypeOK, HandsOK
<1>4. ASSUME NEW c \in Consumers, NEW e \in cur[c], MarkNew(c, e) PROVE TypeOK'
  <2>1. /\ UNCHANGED <<log, offset, owner, cur, processed, claims, rows, applied, hit, spent>>
        /\ consumed' = consumed \cup {e}
        /\ phase' = [phase EXCEPT ![c] = "apply"]
        /\ phase[c] = "mark"
    BY <1>4 DEF MarkNew, IdKnown, store
  <2>2. e \in Events /\ cur[c] = {e}
    BY <1>a, <2>1 DEF TypeOK
  <2>3. /\ phase' \in [Consumers -> {"read", "mark", "apply"}] /\ phase'[c] = "apply"
        /\ \A b \in Consumers : b # c => phase'[b] = phase[b]
    BY <1>a, <2>1 DEF TypeOK
  <2>4. HandsOK'
    BY <1>a, <2>1, <2>2, <2>3 DEF HandsOK, TypeOK
  <2> QED BY <2>1, <2>2, <2>3, <2>4, <1>a DEF TypeOK, HandsOK
<1>5. ASSUME NEW c \in Consumers, NEW e \in cur[c], MarkDuplicate(c, e) \/ SkipUnresolved(c, e) PROVE TypeOK'
  <2>1. /\ UNCHANGED <<log, offset, owner, consumed, processed, claims, rows, applied, hit, spent>>
        /\ Drop(c)
    BY <1>5 DEF MarkDuplicate, SkipUnresolved, store
  <2>2. HandsOK'
    BY <1>a, <2>1, DropHands
  <2> QED BY <2>1, <2>2, DropEffect, <1>a DEF TypeOK, HandsOK
<1>6. ASSUME NEW c \in Consumers, NEW e \in cur[c], Apply(c, e) PROVE TypeOK'
  <2>1. /\ UNCHANGED <<log, offset, owner, consumed, hit, spent>>
        /\ Drop(c) /\ InTx(e) /\ Records(e) /\ phase[c] = "apply"
    BY <1>6 DEF Apply
  <2>2. HandsOK' /\ e \in consumed
    BY <1>a, <2>1, DropHands DEF TypeOK
  <2>3. StoreOK' /\ processed' \subseteq consumed
    BY <1>a, <2>1, <2>2, TxKeepsType
  <2> QED BY <2>1, <2>2, <2>3, DropEffect, <1>a DEF TypeOK, HandsOK, StoreOK
<1>7. ASSUME NEW c \in Consumers, NEW e \in cur[c], Abandon(c, e) PROVE TypeOK'
  <2>1. /\ UNCHANGED <<log, offset, owner, consumed, processed, claims, rows, applied>>
        /\ Drop(c) /\ Fault("abandon", e) /\ e \in Events
    BY <1>7, <1>a DEF Abandon, store, TypeOK
  <2>2. HandsOK'
    BY <1>a, <2>1, DropHands
  <2>3. hit' \in [Events -> SUBSET Faults] /\ spent' \in [faults : 0..MaxFaults, rebalances : 0..MaxRebalances]
    BY <1>a, <2>1, FaultEffect
  <2> QED BY <2>1, <2>2, <2>3, DropEffect, <1>a DEF TypeOK, HandsOK
<1>8. ASSUME NEW c \in Consumers, NEW e \in cur[c], LostMark(c, e) PROVE TypeOK'
  <2>1. /\ UNCHANGED <<log, offset, owner, processed, claims, rows, applied>>
        /\ consumed' = consumed \cup {e}
        /\ Drop(c) /\ Fault("lostMark", e) /\ e \in Events
    BY <1>8, <1>a DEF LostMark, store, TypeOK
  <2>2. HandsOK'
    BY <1>a, <2>1, DropHands
  <2>3. hit' \in [Events -> SUBSET Faults] /\ spent' \in [faults : 0..MaxFaults, rebalances : 0..MaxRebalances]
    BY <1>a, <2>1, FaultEffect
  <2> QED BY <2>1, <2>2, <2>3, DropEffect, <1>a DEF TypeOK, HandsOK
<1>9. ASSUME NEW c \in Consumers, NEW e \in cur[c], LostCommit(c, e) PROVE TypeOK'
  <2>1. /\ UNCHANGED <<log, offset, owner, consumed>>
        /\ Drop(c) /\ Fault("lostCommit", e) /\ InTx(e) /\ Records(e) /\ phase[c] = "apply" /\ e \in Events
    BY <1>9, <1>a DEF LostCommit, TypeOK
  <2>2. HandsOK' /\ e \in consumed
    BY <1>a, <2>1, DropHands DEF TypeOK
  <2>3. hit' \in [Events -> SUBSET Faults] /\ spent' \in [faults : 0..MaxFaults, rebalances : 0..MaxRebalances]
    BY <1>a, <2>1, FaultEffect
  <2>4. StoreOK' /\ processed' \subseteq consumed
    BY <1>a, <2>1, <2>2, TxKeepsType
  <2> QED BY <2>1, <2>2, <2>3, <2>4, DropEffect, <1>a DEF TypeOK, HandsOK, StoreOK
<1>10. CASE UNCHANGED vars
  BY <1>10, <1>a DEF vars, TypeOK
<1> QED BY <1>1, <1>2, <1>3, <1>4, <1>5, <1>6, <1>7, <1>8, <1>9, <1>10 DEF Next, Step

-----------------------------------------------------------------------------
(* Delivery: what is read is not lost *)

\* Reading moves past one message.
LEMMA ReadPastGrows ==
    ASSUME DeliveryInv, NEW c \in Consumers, NEW k \in Keys, CanRead(c, k),
           offset' = [offset EXCEPT ![k] = @ + 1], log' = log, NEW e \in Events, ReadPast(e)'
    PROVE  ReadPast(e) \/ e = Upcoming(k)
<1> DEFINE q == History[e].key
<1>1. q \in Keys /\ offset \in [Keys -> Nat]
  BY DEF Keys, DeliveryInv, TypeOK
<1>2. PICK i \in 1..offset'[q] : log[q][i] = e
  BY DEF ReadPast
<1>3. CASE q # k
  BY <1>1, <1>2, <1>3 DEF ReadPast
<1>4. CASE q = k
  <2>1. offset'[q] = offset[k] + 1 /\ offset[k] \in Nat
    BY <1>1, <1>4
  <2>2. CASE i = offset[k] + 1
    BY <1>2, <1>4, <2>2 DEF Upcoming
  <2>3. CASE i # offset[k] + 1
    BY <1>2, <1>4, <2>1, <2>3 DEF ReadPast
  <2> QED BY <2>2, <2>3
<1> QED BY <1>3, <1>4

\* A handler may put an event down once it is recorded, struck, or another
\* handler's task.
LEMMA PutDown ==
    ASSUME DeliveryInv, NEW c \in Consumers, NEW e \in cur[c], Drop(c), UNCHANGED <<log, offset>>,
           consumed \subseteq consumed', consumed' \subseteq consumed \cup {e},
           processed \subseteq processed', processed' \subseteq processed \cup {e},
           \A d \in Events : hit[d] \subseteq hit'[d],
           e \in processed' => Records(e),
           e \in consumed' \/ Struck(e)',
           e \in consumed' /\ Records(e) =>
               \/ e \in processed' \/ Struck(e)'
               \/ \E b \in Consumers : b # c /\ InHand(b, e) /\ phase[b] = "apply"
    PROVE  HandsProject' /\ OnlyRecords' /\ ReadIsMarked' /\ MarkedIsApplied'
<1>1. /\ TypeOK /\ cur[c] = {e} /\ e \in Events
      /\ cur'[c] = {} /\ \A b \in Consumers : b # c => cur'[b] = cur[b] /\ phase'[b] = phase[b]
  BY DropEffect DEF DeliveryInv, TypeOK
<1>2. HandsProject' /\ OnlyRecords'
  BY <1>1 DEF DeliveryInv, HandsProject, OnlyRecords
<1>3. \A d \in Events : Struck(d) => Struck(d)'
  BY DEF Struck
<1>4. \A d \in Events : ReadPast(d)' <=> ReadPast(d)
  BY DEF ReadPast
<1>5. ASSUME NEW d \in Events, d # e, NEW b \in Consumers, InHand(b, d)
      PROVE  InHand(b, d)' /\ phase'[b] = phase[b]
  BY <1>1, <1>5 DEF InHand
<1>6. ReadIsMarked'
  <2> SUFFICES ASSUME NEW d \in Events, Projects(d), ReadPast(d)', d # e
               PROVE  d \in consumed' \/ (\E b \in Consumers : InHand(b, d)') \/ Struck(d)'
    BY DEF ReadIsMarked
  <2> QED BY <1>3, <1>4, <1>5 DEF DeliveryInv, ReadIsMarked
<1>7. MarkedIsApplied'
  <2> SUFFICES ASSUME NEW d \in consumed', Records(d)
               PROVE  d \in processed' \/ (\E b \in Consumers : InHand(b, d)' /\ phase'[b] = "apply") \/ Struck(d)'
    BY DEF MarkedIsApplied
  <2>1. CASE d = e
    BY <2>1, <1>1 DEF InHand
  <2>2. CASE d # e
    <3>1. d \in consumed /\ d \in Events
      BY <2>2, <1>1 DEF TypeOK
    <3> QED BY <2>2, <3>1, <1>3, <1>5 DEF DeliveryInv, MarkedIsApplied
  <2> QED BY <2>1, <2>2
<1> QED BY <1>2, <1>6, <1>7

\* Every step keeps HandIsFresh: what is new to the mark is in nobody's hand past
\* the mark, and what a handler applies it puts down.
LEMMA FreshNext ==
    ASSUME DeliveryInv, [Next]_vars
    PROVE  HandIsFresh'
<1>a. TypeOK /\ HandIsFresh
  BY DEF DeliveryInv
<1>1. CASE UNCHANGED <<cur, phase, processed>>
  BY <1>a, <1>1 DEF HandIsFresh
<1>2. ASSUME NEW c \in Consumers, NEW k \in Keys, Take(c, k) PROVE HandIsFresh'
  <2>1. /\ processed' = processed /\ phase'[c] = "mark"
        /\ \A b \in Consumers : b # c => cur'[b] = cur[b] /\ phase'[b] = phase[b]
    BY <1>a, <1>2 DEF Take, store, TypeOK
  <2> QED BY <1>a, <2>1 DEF HandIsFresh
<1>3. ASSUME NEW c \in Consumers, NEW e \in cur[c], MarkNew(c, e) PROVE HandIsFresh'
  <2>1. /\ processed' = processed /\ cur' = cur /\ e \notin consumed /\ phase[c] = "mark"
        /\ cur[c] = {e} /\ \A b \in Consumers : b # c => phase'[b] = phase[b]
    BY <1>a, <1>3 DEF MarkNew, IdKnown, store, TypeOK
  <2>2. e \notin processed /\ \A b \in Consumers : phase[b] = "apply" => e \notin cur[b]
    BY <1>a, <2>1 DEF TypeOK
  <2> QED BY <1>a, <2>1, <2>2 DEF HandIsFresh
<1>4. ASSUME NEW c \in Consumers, NEW e \in cur[c], Drop(c),
             \/ processed' = processed
             \/ phase[c] = "apply" /\ processed' = processed \cup {e}
      PROVE  HandIsFresh'
  <2>1. /\ phase'[c] = "read"
        /\ \A b \in Consumers : b # c => cur'[b] = cur[b] /\ phase'[b] = phase[b]
    BY <1>a, <1>4, DropEffect
  <2> QED BY <1>a, <1>4, <2>1 DEF HandIsFresh
<1>5. ASSUME NEW c \in Consumers, NEW e \in cur[c], Apply(c, e) \/ LostCommit(c, e) PROVE HandIsFresh'
  <2>1. Drop(c) /\ phase[c] = "apply" /\ InTx(e) /\ Records(e) /\ e \in consumed
    BY <1>a, <1>5 DEF Apply, LostCommit, TypeOK
  <2>2. processed' = processed \cup {e}
    BY <1>a, <2>1, TxKeepsType
  <2> QED BY <2>1, <2>2, <1>4
<1>6. ASSUME NEW c \in Consumers, NEW e \in cur[c],
             MarkDuplicate(c, e) \/ SkipUnresolved(c, e) \/ Abandon(c, e) \/ LostMark(c, e)
      PROVE  HandIsFresh'
  BY <1>4, <1>6 DEF MarkDuplicate, SkipUnresolved, Abandon, LostMark, store
<1> QED BY <1>1, <1>2, <1>3, <1>5, <1>6 DEF Next, Step, vars, Rebalance, Ignore, handler, store

\* Every step keeps DeliveryInv, action by action.
LEMMA DeliveryNext ==
    ASSUME DeliveryInv, [Next]_vars
    PROVE  DeliveryInv'
<1>a. TypeOK /\ TypeOK'
  BY TypeNext DEF DeliveryInv
<1>b. LogsComplete'
  <2>1. log' = log
    BY DEF Next, Step, vars, Rebalance, Ignore, Take, MarkNew, MarkDuplicate, Apply, SkipUnresolved,
           Abandon, LostMark, LostCommit
  <2> QED BY <2>1 DEF DeliveryInv, LogsComplete
<1>c. HandIsFresh'
  BY FreshNext
<1> DEFINE Rest == HandsProject' /\ OnlyRecords' /\ ReadIsMarked' /\ MarkedIsApplied'
<1>1. CASE UNCHANGED vars \/ \E k \in Keys, c \in Consumers : Rebalance(k, c)
  <2>1. UNCHANGED <<log, offset, cur, phase, consumed, processed, hit>>
    BY <1>1 DEF vars, Rebalance, handler, store
  <2> QED BY <2>1, <1>a, <1>b, <1>c DEF DeliveryInv, HandsProject, OnlyRecords, ReadIsMarked, MarkedIsApplied,
                     InHand, Struck, ReadPast
<1>2. ASSUME NEW c \in Consumers, NEW k \in Keys, Ignore(c, k) PROVE Rest
  <2>1. /\ UNCHANGED <<log, cur, phase, consumed, processed, hit>>
        /\ offset' = [offset EXCEPT ![k] = @ + 1] /\ CanRead(c, k) /\ ~Projects(Upcoming(k))
    BY <1>2 DEF Ignore, handler, store
  <2>2. HandsProject' /\ OnlyRecords' /\ MarkedIsApplied'
    BY <2>1 DEF DeliveryInv, HandsProject, OnlyRecords, MarkedIsApplied, InHand, Struck
  <2>3. ASSUME NEW e \in Events, Projects(e), ReadPast(e)'
        PROVE  e \in consumed' \/ (\E b \in Consumers : InHand(b, e)') \/ Struck(e)'
    <3>1. ReadPast(e)
      BY <2>1, <2>3, ReadPastGrows
    <3> QED BY <2>1, <2>3, <3>1 DEF DeliveryInv, ReadIsMarked, InHand, Struck
  <2> QED BY <2>2, <2>3 DEF ReadIsMarked
<1>3. ASSUME NEW c \in Consumers, NEW k \in Keys, Take(c, k) PROVE Rest
  <2>1. /\ UNCHANGED <<log, consumed, processed, hit>>
        /\ offset' = [offset EXCEPT ![k] = @ + 1] /\ CanRead(c, k) /\ Projects(Upcoming(k))
        /\ cur' = [cur EXCEPT ![c] = {Upcoming(k)}]
        /\ phase' = [phase EXCEPT ![c] = "mark"]
    BY <1>3 DEF Take, store
  <2>2. PICK u \in Events : u = Upcoming(k)
    BY <2>1, ReadEffect
  <2>3. /\ cur[c] = {} /\ cur'[c] = {u}
        /\ \A b \in Consumers : b # c => cur'[b] = cur[b] /\ phase'[b] = phase[b]
    BY <1>a, <2>1, <2>2, ReadEffect DEF TypeOK
  <2>4. \A d, b : b \in Consumers /\ InHand(b, d) => InHand(b, d)' /\ phase'[b] = phase[b]
    BY <2>3 DEF InHand
  <2>5. HandsProject' /\ OnlyRecords'
    BY <2>1, <2>2, <2>3 DEF DeliveryInv, HandsProject, OnlyRecords
  <2>6. MarkedIsApplied'
    BY <2>1, <2>4 DEF DeliveryInv, MarkedIsApplied, Struck
  <2>7. ASSUME NEW e \in Events, Projects(e), ReadPast(e)'
        PROVE  e \in consumed' \/ (\E b \in Consumers : InHand(b, e)') \/ Struck(e)'
    <3>1. CASE e = u
      BY <3>1, <2>3 DEF InHand
    <3>2. CASE e # u
      <4>1. ReadPast(e)
        BY <2>1, <2>2, <2>7, <3>2, ReadPastGrows
      <4> QED BY <2>1, <2>4, <2>7, <4>1 DEF DeliveryInv, ReadIsMarked, Struck
    <3> QED BY <3>1, <3>2
  <2> QED BY <2>5, <2>6, <2>7 DEF ReadIsMarked
<1>4. ASSUME NEW c \in Consumers, NEW e \in cur[c], MarkNew(c, e) PROVE Rest
  <2>1. /\ UNCHANGED <<log, offset, cur, processed, hit>>
        /\ consumed' = consumed \cup {e}
        /\ phase' = [phase EXCEPT ![c] = "apply"]
        /\ phase[c] = "mark"
    BY <1>4 DEF MarkNew, IdKnown, store
  <2>2. /\ cur[c] = {e} /\ phase'[c] = "apply"
        /\ \A b \in Consumers : b # c => phase'[b] = phase[b]
    BY <1>a, <2>1 DEF TypeOK
  <2>3. HandsProject' /\ OnlyRecords' /\ ReadIsMarked'
    BY <2>1 DEF DeliveryInv, HandsProject, OnlyRecords, ReadIsMarked, InHand, Struck, ReadPast
  <2>4. ASSUME NEW d \in consumed', Records(d)
        PROVE  d \in processed' \/ (\E b \in Consumers : InHand(b, d)' /\ phase'[b] = "apply") \/ Struck(d)'
    <3>1. CASE d = e
      BY <3>1, <2>1, <2>2 DEF InHand
    <3>2. CASE d # e
      BY <3>2, <2>1, <2>2, <2>4 DEF DeliveryInv, MarkedIsApplied, InHand, Struck
    <3> QED BY <3>1, <3>2
  <2> QED BY <2>3, <2>4 DEF MarkedIsApplied
<1>5. ASSUME NEW c \in Consumers, NEW e \in cur[c], MarkDuplicate(c, e) PROVE Rest
  <2>1. UNCHANGED <<log, offset, consumed, processed, hit>> /\ Drop(c) /\ e \in consumed /\ phase[c] = "mark"
    BY <1>5 DEF MarkDuplicate, IdKnown, store
  <2>2. Records(e) => \/ e \in processed' \/ Struck(e)'
                      \/ \E b \in Consumers : b # c /\ InHand(b, e) /\ phase[b] = "apply"
    BY <2>1 DEF DeliveryInv, MarkedIsApplied, Struck
  <2>3. e \in processed' => Records(e)
    BY <2>1 DEF DeliveryInv, OnlyRecords
  <2> QED BY <2>1, <2>2, <2>3, PutDown
<1>6. ASSUME NEW c \in Consumers, NEW e \in cur[c], SkipUnresolved(c, e) PROVE Rest
  <2>1. UNCHANGED <<log, offset, consumed, processed, hit>> /\ Drop(c) /\ e \in consumed /\ ~Records(e)
    BY <1>6, <1>a DEF SkipUnresolved, store, TypeOK
  <2>2. e \in processed' => Records(e)
    BY <2>1 DEF DeliveryInv, OnlyRecords
  <2> QED BY <2>1, <2>2, PutDown
<1>7. ASSUME NEW c \in Consumers, NEW e \in cur[c], Apply(c, e) PROVE Rest
  <2>1. UNCHANGED <<log, offset, consumed, hit>> /\ Drop(c) /\ e \in consumed /\ Records(e) /\ InTx(e)
    BY <1>7, <1>a DEF Apply, TypeOK
  <2>2. e \in processed' /\ processed' = processed \cup {e}
    BY <1>a, <2>1, TxKeepsType
  <2> QED BY <2>1, <2>2, PutDown
<1>8. ASSUME NEW c \in Consumers, NEW e \in cur[c], Abandon(c, e) PROVE Rest
  <2>1. UNCHANGED <<log, offset, consumed, processed>> /\ Drop(c) /\ Fault("abandon", e) /\ e \in Events
    BY <1>8, <1>a DEF Abandon, store, TypeOK
  <2>2. Struck(e)' /\ \A d \in Events : hit[d] \subseteq hit'[d]
    BY <1>a, <2>1, FaultEffect DEF Struck
  <2>3. e \in processed' => Records(e)
    BY <2>1 DEF DeliveryInv, OnlyRecords
  <2> QED BY <2>1, <2>2, <2>3, PutDown
<1>9. ASSUME NEW c \in Consumers, NEW e \in cur[c], LostMark(c, e) PROVE Rest
  <2>1. /\ UNCHANGED <<log, offset, processed>> /\ consumed' = consumed \cup {e}
        /\ Drop(c) /\ Fault("lostMark", e) /\ e \in Events
    BY <1>9, <1>a DEF LostMark, store, TypeOK
  <2>2. Struck(e)' /\ \A d \in Events : hit[d] \subseteq hit'[d]
    BY <1>a, <2>1, FaultEffect DEF Struck
  <2>3. e \in processed' => Records(e)
    BY <2>1 DEF DeliveryInv, OnlyRecords
  <2> QED BY <2>1, <2>2, <2>3, PutDown
<1>10. ASSUME NEW c \in Consumers, NEW e \in cur[c], LostCommit(c, e) PROVE Rest
  <2>1. /\ UNCHANGED <<log, offset, consumed>> /\ Drop(c) /\ e \in consumed /\ Records(e) /\ InTx(e)
        /\ Fault("lostCommit", e) /\ e \in Events
    BY <1>10, <1>a DEF LostCommit, TypeOK
  <2>2. e \in processed' /\ processed' = processed \cup {e}
    BY <1>a, <2>1, TxKeepsType
  <2>3. \A d \in Events : hit[d] \subseteq hit'[d]
    BY <1>a, <2>1, FaultEffect
  <2> QED BY <2>1, <2>2, <2>3, PutDown
<1>11. Next => Rest \/ DeliveryInv'
  BY <1>1, <1>2, <1>3, <1>4, <1>5, <1>6, <1>7, <1>8, <1>9, <1>10 DEF Next, Step
<1> QED BY <1>1, <1>11, <1>a, <1>b, <1>c DEF DeliveryInv

\* DeliveryInv holds initially.
LEMMA DeliveryInit == Init => DeliveryInv
<1> SUFFICES ASSUME Init PROVE DeliveryInv
  OBVIOUS
<1>1. HandsProject /\ OnlyRecords /\ MarkedIsApplied /\ HandIsFresh
  BY DEF Init, HandsProject, OnlyRecords, MarkedIsApplied, HandIsFresh
<1>2. ASSUME NEW e \in Events PROVE ~ReadPast(e)
  BY DEF Init, ReadPast, Keys
<1> QED BY <1>1, <1>2, TypeInit DEF DeliveryInv, ReadIsMarked

\* DeliveryInv is an invariant.
LEMMA Delivery == Spec => []DeliveryInv
<1>1. DeliveryInv /\ [Next]_vars => DeliveryInv'
  BY DeliveryNext
<1> QED BY <1>1, DeliveryInit, PTL DEF Spec

\* An event read from the topic and in nobody's hand is in the read model,
\* unless a fault struck its handling: neither a duplicate skipped on its id, nor
\* a rebalance, nor a second delivery loses it (AnalyticsConsumer.HandleMessage).
THEOREM LossNeedsAFault == Spec => []LossNeedsFault
<1>1. DeliveryInv => LossNeedsFault
  <2> SUFFICES ASSUME DeliveryInv PROVE LossNeedsFault
    OBVIOUS
  <2>1. ASSUME NEW e \in Events, Records(e), ReadPast(e), \A c \in Consumers : ~InHand(c, e)
        PROVE  e \in processed \/ hit[e] \cap {"abandon", "lostMark"} # {}
    BY <2>1 DEF DeliveryInv, ReadIsMarked, MarkedIsApplied, Struck, Records
  <2> QED BY <2>1 DEF LossNeedsFault, DeliveryInv
<1> QED BY <1>1, Delivery, PTL

-----------------------------------------------------------------------------
(* The read model as a function of the Apply calls *)

\* The amount an event adds, and the kind of an event.
OneIf(P) == IF P THEN 1 ELSE 0
OfKind(e, kind) == History[e].kind = kind

\* Delta, column by column.
LEMMA DeltaFields ==
    ASSUME NEW e \in Events, Records(e), NEW pending
    PROVE  /\ Delta(e, pending).completions = OneIf(OfKind(e, "TaskCompleted"))
           /\ Delta(e, pending).leaseExpiries = OneIf(OfKind(e, "LeaseExpired"))
           /\ Delta(e, pending).weighCheckDiverts = OneIf(OfKind(e, "WeightDiscrepancyDetected"))
           /\ Delta(e, pending).completionsWithClaim = OneIf(OfKind(e, "TaskCompleted") /\ Mine(e, pending) # {})
           /\ Delta(e, pending).packagesManifested = OneIf(OfKind(e, "PackageManifested"))
           /\ Delta(e, pending).packagesOnTimeToCPT = OneIf(OfKind(e, "PackageManifested") /\ Data[e].onTime)
           /\ Delta(e, pending).packagesLateToCPT = OneIf(OfKind(e, "PackageManifested") /\ ~Data[e].onTime)
           /\ IF OfKind(e, "TaskCompleted") /\ Mine(e, pending) # {}
              THEN \E c \in Mine(e, pending) : Delta(e, pending).claimSeconds = History[e].at - c.at
              ELSE Delta(e, pending).claimSeconds = 0
<1>0. History[e].kind \in Projecting
  BY DEF Records, Projects
<1>1. CASE OfKind(e, "TaskCompleted")
  <2>1. CASE Mine(e, pending) = {}
    <3>1. Delta(e, pending) = Unclaimed
      BY <1>1, <2>1, DeltaCases DEF OfKind
    <3> QED BY <3>1, <1>1, <2>1 DEF Unclaimed, NoDelta, OneIf, OfKind
  <2>2. CASE Mine(e, pending) # {}
    <3>1. PICK c \in Mine(e, pending) : Delta(e, pending) = Claimed(History[e].at - c.at)
      BY <1>1, <2>2, DeltaCases DEF OfKind
    <3> DEFINE t == History[e].at - c.at
    <3>2. Delta(e, pending) = Claimed(t)
      BY <3>1
    <3> HIDE DEF t
    <3>3. /\ Claimed(t).completions = 1 /\ Claimed(t).leaseExpiries = 0 /\ Claimed(t).weighCheckDiverts = 0
          /\ Claimed(t).completionsWithClaim = 1 /\ Claimed(t).packagesManifested = 0
          /\ Claimed(t).packagesOnTimeToCPT = 0 /\ Claimed(t).packagesLateToCPT = 0
          /\ Claimed(t).claimSeconds = t
      BY DEF Claimed, NoDelta
    <3> QED BY <3>2, <3>3, <1>1, <2>2 DEF OneIf, OfKind, t
  <2> QED BY <2>1, <2>2
<1>2. CASE OfKind(e, "TaskClaimed")
  <2>1. Delta(e, pending) = NoDelta
    BY <1>2, DeltaCases DEF OfKind
  <2> QED BY <2>1, <1>2 DEF NoDelta, OneIf, OfKind
<1>3. CASE OfKind(e, "LeaseExpired")
  <2>1. Delta(e, pending) = Expired
    BY <1>3, DeltaCases DEF OfKind
  <2> QED BY <2>1, <1>3 DEF Expired, NoDelta, OneIf, OfKind
<1>4. CASE OfKind(e, "WeightDiscrepancyDetected")
  <2>1. Delta(e, pending) = Weighed
    BY <1>4, DeltaCases DEF OfKind
  <2> QED BY <2>1, <1>4 DEF Weighed, NoDelta, OneIf, OfKind
<1>5. CASE OfKind(e, "PackageManifested")
  <2>1. Delta(e, pending) = Package(Data[e].onTime)
    BY <1>5, DeltaCases DEF OfKind
  <2>2. CASE Data[e].onTime
    BY <2>1, <2>2, <1>5 DEF Package, NoDelta, OneIf, OfKind
  <2>3. CASE ~Data[e].onTime
    BY <2>1, <2>3, <1>5 DEF Package, NoDelta, OneIf, OfKind
  <2> QED BY <2>2, <2>3
<1> QED BY <1>0, <1>1, <1>2, <1>3, <1>4, <1>5 DEF Projecting, OfKind

\* The first calls are places of the log, and a call for an event that did not
\* come up before is one more.
LEMMA FirstApplyAppend ==
    ASSUME NEW s \in Seq(Events), NEW e \in Events, e \notin Range(s)
    PROVE  FirstApply(s) \subseteq 1..Len(s) /\ FirstApply(Append(s, e)) = FirstApply(s) \cup {Len(s) + 1}
<1> DEFINE t == Append(s, e)
           n == Len(s) + 1
<1>1. /\ Len(s) \in Nat /\ DOMAIN s = 1..Len(s) /\ DOMAIN t = 1..n
      /\ t[n] = e /\ \A i \in 1..Len(s) : t[i] = s[i] /\ s[i] # e
  BY AppendRange DEF Range
<1>2. FirstApply(s) \subseteq 1..Len(s)
  BY <1>1 DEF FirstApply
<1> HIDE DEF t
<1>3. ASSUME NEW i \in 1..Len(s) PROVE i \in FirstApply(t) <=> i \in FirstApply(s)
  <2>1. t[i] = s[i] /\ i \in DOMAIN t /\ i \in DOMAIN s /\ \A j \in 1..(i - 1) : t[j] = s[j]
    BY <1>1
  <2> QED BY <2>1 DEF FirstApply
<1>4. n \in FirstApply(t)
  <2>1. n \in DOMAIN t /\ \A j \in 1..(n - 1) : t[j] # t[n]
    BY <1>1
  <2> QED BY <2>1 DEF FirstApply
<1>5. FirstApply(t) \subseteq 1..n
  BY <1>1 DEF FirstApply
<1>6. \A i \in 1..n : i \in 1..Len(s) \/ i = n
  BY <1>1
<1> QED BY <1>2, <1>3, <1>4, <1>5, <1>6 DEF t

\* The places counted for a row are finitely many places of the log.
LEMMA PlacesFinite ==
    ASSUME NEW s \in Seq(Events), NEW kind, NEW k
    PROVE  /\ Len(s) \in Nat /\ DOMAIN s = 1..Len(s)
           /\ IsFiniteSet(Places(s, kind, k)) /\ Places(s, kind, k) \subseteq 1..Len(s)
           /\ IsFiniteSet(Paired(s, k)) /\ Paired(s, k) \subseteq 1..Len(s)
           /\ IsFiniteSet(OnTime(s, k)) /\ OnTime(s, k) \subseteq 1..Len(s)
<1>1. Len(s) \in Nat /\ DOMAIN s = 1..Len(s) /\ 1 \in Int /\ Len(s) \in Int
  BY LenProperties
<1>2. IsFiniteSet(1..Len(s))
  BY <1>1, FS_Interval
<1>3. \A q : Places(s, q, k) \subseteq 1..Len(s)
  BY <1>1 DEF Places, FirstApply
<1>4. Paired(s, k) \subseteq 1..Len(s) /\ OnTime(s, k) \subseteq 1..Len(s)
  BY <1>3 DEF Paired, OnTime
<1> QED BY <1>1, <1>2, <1>3, <1>4, FS_Subset

\* A completion with claims before it is measured from the last of them.
LEMMA ClaimsBeforeFinite ==
    ASSUME NEW s \in Seq(Events), NEW i \in 1..Len(s), ClaimsBefore(s, i) # {}
    PROVE  /\ Max(ClaimsBefore(s, i)) \in ClaimsBefore(s, i)
           /\ \A j \in ClaimsBefore(s, i) : j <= Max(ClaimsBefore(s, i))
           /\ ClaimsBefore(s, i) \subseteq 1..Len(s)
           /\ Since(s, i) \in Int
<1>1. Len(s) \in Nat /\ 1 \in Int /\ i - 1 \in Int /\ DOMAIN s = 1..Len(s)
  BY LenProperties
<1>2. IsFiniteSet(1..(i - 1))
  BY <1>1, FS_Interval
<1>3. ClaimsBefore(s, i) \subseteq 1..(i - 1) /\ 1..(i - 1) \subseteq 1..Len(s) /\ 1..(i - 1) \subseteq Int
  BY <1>1 DEF ClaimsBefore, FirstApply
<1>4. IsFiniteSet(ClaimsBefore(s, i)) /\ ClaimsBefore(s, i) \subseteq Int
  BY <1>2, <1>3, FS_Subset
<1>5. Max(ClaimsBefore(s, i)) \in ClaimsBefore(s, i) /\ \A j \in ClaimsBefore(s, i) : j <= Max(ClaimsBefore(s, i))
  BY <1>4, MaxExists
<1>6. PICK m \in 1..Len(s) : m = Max(ClaimsBefore(s, i))
  BY <1>3, <1>5
<1>7. s[i] \in Events /\ s[m] \in Events
  BY ElementOfSeq
<1>8. History[s[i]].at \in Int /\ History[s[m]].at \in Int
  BY <1>7, ProjectorAssumption DEF Events
<1> QED BY <1>3, <1>5, <1>6, <1>8 DEF Since

\* One more event applied counts at its own place, or nowhere.
LEMMA PlacesAppend ==
    ASSUME NEW s \in Seq(Events), NEW e \in Events, e \notin Range(s), NEW kind, NEW k
    PROVE  Places(Append(s, e), kind, k) =
               IF OfKind(e, kind) /\ RowKey[e] = k THEN Places(s, kind, k) \cup {Len(s) + 1} ELSE Places(s, kind, k)
BY AppendRange, FirstApplyAppend DEF Places, OfKind

\* One more event applied leaves the claims before the others as they are.
LEMMA ClaimsBeforeAppend ==
    ASSUME NEW s \in Seq(Events), NEW e \in Events, e \notin Range(s)
    PROVE  /\ \A i \in 1..Len(s) : ClaimsBefore(Append(s, e), i) = ClaimsBefore(s, i)
           /\ \A i \in 1..Len(s) : ClaimsBefore(s, i) # {} => Since(Append(s, e), i) = Since(s, i)
           /\ ClaimsBefore(Append(s, e), Len(s) + 1) =
                  {j \in FirstApply(s) : OfKind(s[j], "TaskClaimed") /\ ClaimKey[s[j]] = ClaimKey[e]}
<1> DEFINE t == Append(s, e)
           n == Len(s) + 1
<1>1. /\ Len(s) \in Nat /\ DOMAIN s = 1..Len(s) /\ t[n] = e
      /\ \A i \in 1..Len(s) : t[i] = s[i]
      /\ FirstApply(s) \subseteq 1..Len(s) /\ FirstApply(t) = FirstApply(s) \cup {n}
  BY AppendRange, FirstApplyAppend
<1> HIDE DEF t
<1>2. ASSUME NEW i \in 1..Len(s) PROVE ClaimsBefore(t, i) = ClaimsBefore(s, i)
  <2>1. t[i] = s[i] /\ ~(n < i) /\ \A j \in FirstApply(s) : t[j] = s[j]
    BY <1>1
  <2> QED BY <1>1, <2>1 DEF ClaimsBefore
<1>3. ASSUME NEW i \in 1..Len(s), ClaimsBefore(s, i) # {} PROVE Since(t, i) = Since(s, i)
  <2>1. PICK m \in 1..Len(s) : m = Max(ClaimsBefore(s, i))
    BY <1>3, ClaimsBeforeFinite
  <2>2. m = Max(ClaimsBefore(t, i)) /\ t[m] = s[m] /\ t[i] = s[i]
    BY <1>1, <1>2, <2>1
  <2> QED BY <2>1, <2>2 DEF Since
<1>4. ClaimsBefore(t, n) = {j \in FirstApply(s) : OfKind(s[j], "TaskClaimed") /\ ClaimKey[s[j]] = ClaimKey[e]}
  <2>1. ~(n < n) /\ \A j \in FirstApply(s) : j < n /\ t[j] = s[j]
    BY <1>1
  <2> QED BY <1>1, <2>1 DEF ClaimsBefore, OfKind
<1> QED BY <1>2, <1>3, <1>4 DEF t

\* One more event applied is itself paired with a claim, or on time, or neither.
LEMMA PairedAppend ==
    ASSUME NEW s \in Seq(Events), NEW e \in Events, e \notin Range(s), NEW k
    PROVE  /\ Paired(Append(s, e), k) =
                  IF OfKind(e, "TaskCompleted") /\ RowKey[e] = k /\ ClaimsBefore(Append(s, e), Len(s) + 1) # {}
                  THEN Paired(s, k) \cup {Len(s) + 1} ELSE Paired(s, k)
           /\ OnTime(Append(s, e), k) =
                  IF OfKind(e, "PackageManifested") /\ RowKey[e] = k /\ Data[e].onTime
                  THEN OnTime(s, k) \cup {Len(s) + 1} ELSE OnTime(s, k)
<1> DEFINE t == Append(s, e)
           n == Len(s) + 1
<1>1. /\ t[n] = e /\ \A i \in 1..Len(s) : t[i] = s[i]
  BY AppendRange
<1>2. \A i \in 1..Len(s) : ClaimsBefore(t, i) = ClaimsBefore(s, i)
  BY ClaimsBeforeAppend
<1>3. /\ Places(s, "TaskCompleted", k) \subseteq 1..Len(s)
      /\ Places(s, "PackageManifested", k) \subseteq 1..Len(s)
  BY PlacesFinite
<1>4. /\ Places(t, "TaskCompleted", k) = IF OfKind(e, "TaskCompleted") /\ RowKey[e] = k
           THEN Places(s, "TaskCompleted", k) \cup {n} ELSE Places(s, "TaskCompleted", k)
      /\ Places(t, "PackageManifested", k) = IF OfKind(e, "PackageManifested") /\ RowKey[e] = k
           THEN Places(s, "PackageManifested", k) \cup {n} ELSE Places(s, "PackageManifested", k)
  BY PlacesAppend
<1> HIDE DEF t, n
<1>5. Paired(t, k) = IF OfKind(e, "TaskCompleted") /\ RowKey[e] = k /\ ClaimsBefore(t, n) # {}
                  THEN Paired(s, k) \cup {n} ELSE Paired(s, k)
  BY <1>2, <1>3, <1>4 DEF Paired
<1>6. OnTime(t, k) = IF OfKind(e, "PackageManifested") /\ RowKey[e] = k /\ Data[e].onTime
                  THEN OnTime(s, k) \cup {n} ELSE OnTime(s, k)
  BY <1>1, <1>3, <1>4 DEF OnTime
<1> QED BY <1>5, <1>6 DEF t, n

\* Counting one element more.
LEMMA CountOneMore ==
    ASSUME NEW S, NEW T, IsFiniteSet(S), NEW n, n \notin S, NEW P, T = IF P THEN S \cup {n} ELSE S
    PROVE  Cardinality(T) = Cardinality(S) + OneIf(P) /\ Cardinality(S) \in Nat
<1>1. Cardinality(S) \in Nat
  BY FS_CardinalityType
<1>2. CASE P
  BY <1>1, <1>2, FS_AddElement DEF OneIf
<1>3. CASE ~P
  BY <1>1, <1>3 DEF OneIf
<1> QED BY <1>1, <1>2, <1>3

\* MemoryStore's row k after one more event e, in terms of the row before.
MemoryGrows(s, e, k, t, n) ==
    /\ MemoryRow(t, k).completions =
           MemoryRow(s, k).completions + OneIf(OfKind(e, "TaskCompleted") /\ RowKey[e] = k)
    /\ MemoryRow(t, k).leaseExpiries =
           MemoryRow(s, k).leaseExpiries + OneIf(OfKind(e, "LeaseExpired") /\ RowKey[e] = k)
    /\ MemoryRow(t, k).weighCheckDiverts =
           MemoryRow(s, k).weighCheckDiverts + OneIf(OfKind(e, "WeightDiscrepancyDetected") /\ RowKey[e] = k)
    /\ MemoryRow(t, k).completionsWithClaim = MemoryRow(s, k).completionsWithClaim
           + OneIf(OfKind(e, "TaskCompleted") /\ RowKey[e] = k /\ ClaimsBefore(t, n) # {})
    /\ MemoryRow(t, k).packagesManifested =
           MemoryRow(s, k).packagesManifested + OneIf(OfKind(e, "PackageManifested") /\ RowKey[e] = k)
    /\ MemoryRow(t, k).packagesOnTimeToCPT = MemoryRow(s, k).packagesOnTimeToCPT
           + OneIf(OfKind(e, "PackageManifested") /\ RowKey[e] = k /\ Data[e].onTime)
    /\ MemoryRow(t, k).packagesLateToCPT = MemoryRow(s, k).packagesLateToCPT
           + OneIf(OfKind(e, "PackageManifested") /\ RowKey[e] = k /\ ~Data[e].onTime)
    /\ MemoryRow(t, k).claimSeconds = MemoryRow(s, k).claimSeconds
           + (IF OfKind(e, "TaskCompleted") /\ RowKey[e] = k /\ ClaimsBefore(t, n) # {} THEN Since(t, n) ELSE 0)

\* What one more event adds to the counters MemoryStore keeps.
LEMMA MemoryAppend ==
    ASSUME NEW s \in Seq(Events), NEW e \in Events, e \notin Range(s), NEW k,
           NEW t, t = Append(s, e), NEW n, n = Len(s) + 1
    PROVE  MemoryGrows(s, e, k, t, n)
<1> DEFINE p == OfKind(e, "TaskCompleted") /\ RowKey[e] = k /\ ClaimsBefore(t, n) # {}
           o == OfKind(e, "PackageManifested") /\ RowKey[e] = k /\ Data[e].onTime
           l == OfKind(e, "PackageManifested") /\ RowKey[e] = k /\ ~Data[e].onTime
<1>1. /\ Len(s) \in Nat /\ n \in Nat /\ n \notin 1..Len(s) /\ Len(t) = n
      /\ t \in Seq(Events)
  BY AppendProperties, LenProperties
<1>2. ASSUME NEW kind
      PROVE  Cardinality(Places(t, kind, k)) = Cardinality(Places(s, kind, k)) + OneIf(OfKind(e, kind) /\ RowKey[e] = k)
  <2>1. IsFiniteSet(Places(s, kind, k)) /\ n \notin Places(s, kind, k)
    BY <1>1, PlacesFinite
  <2>2. Places(t, kind, k) = IF OfKind(e, kind) /\ RowKey[e] = k THEN Places(s, kind, k) \cup {n} ELSE Places(s, kind, k)
    BY PlacesAppend
  <2> DEFINE q == OfKind(e, kind) /\ RowKey[e] = k
  <2>3. Places(t, kind, k) = IF q THEN Places(s, kind, k) \cup {n} ELSE Places(s, kind, k)
    BY <2>2
  <2> HIDE DEF q
  <2>4. Cardinality(Places(t, kind, k)) = Cardinality(Places(s, kind, k)) + OneIf(q)
    BY <2>1, <2>3, CountOneMore
  <2> QED BY <2>4 DEF q
<1>3. /\ Paired(t, k) = IF p THEN Paired(s, k) \cup {n} ELSE Paired(s, k)
      /\ OnTime(t, k) = IF o THEN OnTime(s, k) \cup {n} ELSE OnTime(s, k)
  BY PairedAppend
<1>4. /\ IsFiniteSet(Paired(s, k)) /\ n \notin Paired(s, k) /\ Paired(s, k) \subseteq 1..Len(s)
      /\ IsFiniteSet(OnTime(s, k)) /\ n \notin OnTime(s, k)
      /\ IsFiniteSet(Places(s, "PackageManifested", k)) /\ n \notin Places(s, "PackageManifested", k)
  BY <1>1, PlacesFinite
<1>5. Cardinality(Paired(t, k)) = Cardinality(Paired(s, k)) + OneIf(p)
  <2> HIDE DEF p
  <2> QED BY <1>3, <1>4, CountOneMore
<1>6. Cardinality(OnTime(t, k)) = Cardinality(OnTime(s, k)) + OneIf(o)
  <2> HIDE DEF o
  <2> QED BY <1>3, <1>4, CountOneMore
<1>7. Cardinality(Places(t, "PackageManifested", k) \ OnTime(t, k)) =
      Cardinality(Places(s, "PackageManifested", k) \ OnTime(s, k)) + OneIf(l)
  <2> DEFINE A == Places(s, "PackageManifested", k) \ OnTime(s, k)
             B == Places(t, "PackageManifested", k) \ OnTime(t, k)
  <2>1. Places(t, "PackageManifested", k) = IF OfKind(e, "PackageManifested") /\ RowKey[e] = k
           THEN Places(s, "PackageManifested", k) \cup {n} ELSE Places(s, "PackageManifested", k)
    BY PlacesAppend
  <2>2. IsFiniteSet(A) /\ n \notin A
    BY <1>4, FS_Subset
  <2>3. B = IF l THEN A \cup {n} ELSE A
    BY <2>1, <1>3, <1>4
  <2> HIDE DEF A, B, l
  <2>4. Cardinality(B) = Cardinality(A) + OneIf(l)
    BY <2>2, <2>3, CountOneMore
  <2> QED BY <2>4 DEF A, B
<1>8. SumFunction([i \in Paired(t, k) |-> Since(t, i)]) =
      SumFunction([i \in Paired(s, k) |-> Since(s, i)]) + (IF p THEN Since(t, n) ELSE 0)
  <2> DEFINE P == Paired(s, k)
             Q == Paired(t, k)
             f == [i \in P |-> Since(s, i)]
             g == [i \in Q |-> Since(t, i)]
  <2>1. ASSUME NEW i \in P PROVE Since(t, i) = Since(s, i) /\ Since(s, i) \in Int
    <3>1. i \in 1..Len(s) /\ ClaimsBefore(s, i) # {}
      BY <1>4 DEF Paired
    <3> QED BY <3>1, ClaimsBeforeAppend, ClaimsBeforeFinite
  <2>2. SumFunction(f) = SumFunctionOnSet(f, P) /\ SumFunction(g) = SumFunctionOnSet(g, Q)
    <3>1. DOMAIN f = P /\ DOMAIN g = Q
      OBVIOUS
    <3> HIDE DEF f, g, P, Q
    <3> QED BY <3>1 DEF SumFunction
  <2>3. \A i \in P : f[i] = g[i] /\ g[i] \in Int
    BY <2>1, <1>3
  <2>4. IsFiniteSet(P) /\ n \notin P
    BY <1>4
  <2>5. p => g[n] = Since(t, n) /\ Since(t, n) \in Int
    <3>1. p => n \in Q
      BY <1>3
    <3>2. p => ClaimsBefore(t, n) # {} /\ n \in 1..Len(t)
      BY <1>1
    <3>3. p => Since(t, n) \in Int
      BY <3>2, <1>1, ClaimsBeforeFinite
    <3> QED BY <3>1, <3>3
  <2>6. Q = IF p THEN P \cup {n} ELSE P
    BY <1>3
  <2> HIDE DEF f, g, P, Q, p
  <2>7. SumFunctionOnSet(f, P) = SumFunctionOnSet(g, P) /\ SumFunctionOnSet(g, P) \in Int
    BY <2>3, <2>4, SumSame, SumType
  <2>8. CASE p
    <3>1. SumFunctionOnSet(g, P \cup {n}) = SumFunctionOnSet(g, P) + g[n]
      BY <2>3, <2>4, <2>5, <2>8, SumAdd
    <3>2. SumFunction(g) = SumFunction(f) + Since(t, n)
      BY <3>1, <2>2, <2>5, <2>6, <2>7, <2>8
    <3> QED BY <3>2, <2>8 DEF f, g, P, Q
  <2>9. CASE ~p
    <3>1. SumFunction(g) = SumFunction(f) + 0
      BY <2>2, <2>6, <2>7, <2>9
    <3> QED BY <3>1, <2>9 DEF f, g, P, Q
  <2> QED BY <2>8, <2>9
<1> HIDE DEF p, o, l
<1> QED BY <1>2, <1>5, <1>6, <1>7, <1>8 DEF MemoryGrows, MemoryRow, p, o, l

-----------------------------------------------------------------------------
(* The store: the inductive invariant *)

\* The six columns that only count are MemoryStore's.
CountsOK ==
    \A k \in RowKeys :
        /\ rows[k].completions = MemoryRow(applied, k).completions
        /\ rows[k].leaseExpiries = MemoryRow(applied, k).leaseExpiries
        /\ rows[k].weighCheckDiverts = MemoryRow(applied, k).weighCheckDiverts
        /\ rows[k].packagesManifested = MemoryRow(applied, k).packagesManifested
        /\ rows[k].packagesOnTimeToCPT = MemoryRow(applied, k).packagesOnTimeToCPT
        /\ rows[k].packagesLateToCPT = MemoryRow(applied, k).packagesLateToCPT

\* No event was handed to an Apply method twice.
AppliedOnce == \A i, j \in DOMAIN applied : applied[i] = applied[j] => i = j

\* Something besides a claim was recorded for row k.
Touched(s, k) == \E i \in DOMAIN s : RowKey[s[i]] = k /\ ~OfKind(s[i], "TaskClaimed")

\* A row nothing was recorded for is all zeros, so that it is in no report.
UntouchedIsEmpty == \A k \in RowKeys : ~Touched(applied, k) => rows[k] = NoDelta
CountInv == StoreOK /\ OnlyRecords /\ AppliedOnce /\ CountsOK /\ UntouchedIsEmpty

\* Then every call is the first for its event.
LEMMA AllFirst ==
    ASSUME applied \in Seq(Events), AppliedOnce
    PROVE  FirstApply(applied) = DOMAIN applied
<1>1. DOMAIN applied = 1..Len(applied) /\ Len(applied) \in Nat
  BY LenProperties
<1>2. \A i \in DOMAIN applied : \A j \in 1..(i - 1) : j \in DOMAIN applied /\ j # i
  BY <1>1
<1> QED BY <1>2 DEF FirstApply, AppliedOnce

\* What recording e changes.
LEMMA Recorded ==
    ASSUME CountInv, NEW e, Recording(e)
    PROVE  /\ e \in Events /\ Records(e) /\ e \notin processed /\ processed' = processed \cup {e}
           /\ claims' = PendingAfter(e, claims) /\ applied' = Append(applied, e)
           /\ applied \in Seq(Events) /\ Len(applied) \in Nat /\ DOMAIN applied = 1..Len(applied)
           /\ DOMAIN Append(applied, e) = 1..(Len(applied) + 1)
           /\ Append(applied, e)[Len(applied) + 1] = e
           /\ \A i \in 1..Len(applied) : Append(applied, e)[i] = applied[i] /\ applied[i] \in processed
           /\ e \notin Range(applied) /\ StoreOK' /\ OnlyRecords' /\ AppliedOnce'
<1>1. StoreOK' /\ OnlyRecords'
  BY RecordKeepsType DEF CountInv, OnlyRecords, Recording
<1>2. applied \in Seq(Events) /\ processed = Range(applied) /\ e \in Events
  BY DEF CountInv, StoreOK, Recording
<1>3. /\ Len(applied) \in Nat /\ DOMAIN applied = 1..Len(applied)
      /\ DOMAIN Append(applied, e) = 1..(Len(applied) + 1)
      /\ Append(applied, e)[Len(applied) + 1] = e
      /\ \A i \in 1..Len(applied) : Append(applied, e)[i] = applied[i]
  BY <1>2, AppendRange
<1>4. e \notin Range(applied) /\ \A i \in 1..Len(applied) : applied[i] \in processed /\ applied[i] # e
  BY <1>2, <1>3 DEF Range, Recording
<1>5. AppliedOnce'
  <2>1. AppliedOnce /\ applied' = Append(applied, e)
    BY DEF CountInv, Recording
  <2>2. \A i \in 1..(Len(applied) + 1) : i \in 1..Len(applied) \/ i = Len(applied) + 1
    BY <1>3
  <2> QED BY <1>3, <1>4, <2>1, <2>2 DEF AppliedOnce
<1> QED BY <1>1, <1>2, <1>3, <1>4, <1>5 DEF Recording

\* Recording e adds its delta to its row and leaves the others alone.
LEMMA RowStep ==
    ASSUME CountInv, NEW e, Recording(e), NEW k \in RowKeys
    PROVE  /\ rows[k] \in [Counters -> Int] /\ Delta(e, claims) \in [Counters -> Int]
           /\ rows' \in [RowKeys -> [Counters -> Int]]
           /\ RowKey[e] # k => rows'[k] = rows[k]
           /\ RowKey[e] = k => /\ rows'[k] = Add(rows[k], Delta(e, claims))
                               /\ \A f \in Counters : rows'[k][f] = rows[k][f] + Delta(e, claims)[f]
<1> DEFINE D == Delta(e, claims)
<1>1. /\ rows[k] \in [Counters -> Int] /\ rows' \in [RowKeys -> [Counters -> Int]]
      /\ rows' = [rows EXCEPT ![RowKey[e]] = Add(@, D)] /\ D \in [Counters -> Int]
      /\ DOMAIN rows = RowKeys
  BY Recorded, DeltaType DEF CountInv, StoreOK, Recording, UpsertRollup
<1> HIDE DEF D
<1>2. RowKey[e] # k => rows'[k] = rows[k]
  BY <1>1
<1>3. RowKey[e] = k => rows'[k] = Add(rows[k], D)
  BY <1>1
<1> QED BY <1>1, <1>2, <1>3, AddType DEF D

\* Recording an event keeps CountInv, column by column.
LEMMA CountStep ==
    ASSUME CountInv, NEW e, Recording(e)
    PROVE  CountInv'
<1> DEFINE s == applied
           t == Append(applied, e)
           n == Len(applied) + 1
<1>1. /\ e \in Events /\ Records(e) /\ applied' = t /\ s \in Seq(Events) /\ Len(s) \in Nat
      /\ DOMAIN s = 1..Len(s) /\ DOMAIN t = 1..n
      /\ t[n] = e /\ \A i \in 1..Len(s) : t[i] = s[i]
      /\ e \notin Range(s) /\ StoreOK' /\ OnlyRecords' /\ AppliedOnce'
  BY Recorded
<1>2. CountsOK'
  <2> SUFFICES ASSUME NEW k \in RowKeys
               PROVE  /\ rows'[k].completions = MemoryRow(t, k).completions
                      /\ rows'[k].leaseExpiries = MemoryRow(t, k).leaseExpiries
                      /\ rows'[k].weighCheckDiverts = MemoryRow(t, k).weighCheckDiverts
                      /\ rows'[k].packagesManifested = MemoryRow(t, k).packagesManifested
                      /\ rows'[k].packagesOnTimeToCPT = MemoryRow(t, k).packagesOnTimeToCPT
                      /\ rows'[k].packagesLateToCPT = MemoryRow(t, k).packagesLateToCPT
    BY <1>1 DEF CountsOK
  <2> DEFINE r == rows[k]
             m == MemoryRow(s, k)
             q == MemoryRow(t, k)
             x == rows'[k]
             D == Delta(e, claims)
  <2>1. /\ r.completions = m.completions /\ r.leaseExpiries = m.leaseExpiries
        /\ r.weighCheckDiverts = m.weighCheckDiverts /\ r.packagesManifested = m.packagesManifested
        /\ r.packagesOnTimeToCPT = m.packagesOnTimeToCPT /\ r.packagesLateToCPT = m.packagesLateToCPT
    BY DEF CountInv, CountsOK
  <2>2. /\ q.completions = m.completions + OneIf(OfKind(e, "TaskCompleted") /\ RowKey[e] = k)
        /\ q.leaseExpiries = m.leaseExpiries + OneIf(OfKind(e, "LeaseExpired") /\ RowKey[e] = k)
        /\ q.weighCheckDiverts = m.weighCheckDiverts + OneIf(OfKind(e, "WeightDiscrepancyDetected") /\ RowKey[e] = k)
        /\ q.packagesManifested = m.packagesManifested + OneIf(OfKind(e, "PackageManifested") /\ RowKey[e] = k)
        /\ q.packagesOnTimeToCPT = m.packagesOnTimeToCPT
               + OneIf(OfKind(e, "PackageManifested") /\ RowKey[e] = k /\ Data[e].onTime)
        /\ q.packagesLateToCPT = m.packagesLateToCPT
               + OneIf(OfKind(e, "PackageManifested") /\ RowKey[e] = k /\ ~Data[e].onTime)
    <3>1. t = Append(s, e) /\ n = Len(s) + 1 /\ s \in Seq(Events) /\ e \in Events /\ e \notin Range(s)
      BY <1>1
    <3> HIDE DEF s, t, n
    <3>2. MemoryGrows(s, e, k, t, n)
      BY <3>1, MemoryAppend
    <3> QED BY <3>2 DEF MemoryGrows
  <2>3. /\ D.completions = OneIf(OfKind(e, "TaskCompleted"))
        /\ D.leaseExpiries = OneIf(OfKind(e, "LeaseExpired"))
        /\ D.weighCheckDiverts = OneIf(OfKind(e, "WeightDiscrepancyDetected"))
        /\ D.packagesManifested = OneIf(OfKind(e, "PackageManifested"))
        /\ D.packagesOnTimeToCPT = OneIf(OfKind(e, "PackageManifested") /\ Data[e].onTime)
        /\ D.packagesLateToCPT = OneIf(OfKind(e, "PackageManifested") /\ ~Data[e].onTime)
    BY <1>1, DeltaFields
  <2>4. /\ r \in [Counters -> Int]
        /\ RowKey[e] # k => x = r
        /\ RowKey[e] = k => \A f \in Counters : x[f] = r[f] + D[f]
    BY RowStep
  <2> HIDE DEF r, m, q, x, D, s, t, n
  <2>5. /\ r.completions \in Int /\ r.leaseExpiries \in Int /\ r.weighCheckDiverts \in Int
        /\ r.packagesManifested \in Int /\ r.packagesOnTimeToCPT \in Int /\ r.packagesLateToCPT \in Int
    BY <2>4, CounterNames
  <2>6. /\ x.completions = q.completions /\ x.leaseExpiries = q.leaseExpiries
        /\ x.weighCheckDiverts = q.weighCheckDiverts /\ x.packagesManifested = q.packagesManifested
        /\ x.packagesOnTimeToCPT = q.packagesOnTimeToCPT /\ x.packagesLateToCPT = q.packagesLateToCPT
    <3>1. CASE RowKey[e] # k
      BY <2>1, <2>2, <2>4, <2>5, <3>1 DEF OneIf
    <3>2. CASE RowKey[e] = k
      <4>1. /\ x.completions = r.completions + D.completions
            /\ x.leaseExpiries = r.leaseExpiries + D.leaseExpiries
            /\ x.weighCheckDiverts = r.weighCheckDiverts + D.weighCheckDiverts
            /\ x.packagesManifested = r.packagesManifested + D.packagesManifested
            /\ x.packagesOnTimeToCPT = r.packagesOnTimeToCPT + D.packagesOnTimeToCPT
            /\ x.packagesLateToCPT = r.packagesLateToCPT + D.packagesLateToCPT
        BY <2>4, <3>2, CounterNames
      <4> QED BY <2>1, <2>2, <2>3, <3>2, <4>1 DEF OneIf
    <3> QED BY <3>1, <3>2
  <2> QED BY <2>6 DEF x, q
<1>3. UntouchedIsEmpty'
  <2> SUFFICES ASSUME NEW k \in RowKeys, ~Touched(t, k) PROVE rows'[k] = NoDelta
    BY <1>1 DEF UntouchedIsEmpty
  <2>1. ~Touched(s, k)
    BY <1>1 DEF Touched
  <2>2. rows[k] = NoDelta
    BY <2>1 DEF CountInv, UntouchedIsEmpty
  <2>3. CASE RowKey[e] # k
    BY <2>2, <2>3, RowStep
  <2>4. CASE RowKey[e] = k
    <3>1. n \in DOMAIN t
      BY <1>1
    <3>2. OfKind(e, "TaskClaimed")
      BY <1>1, <2>4, <3>1 DEF Touched
    <3>3. Delta(e, claims) = NoDelta
      BY <1>1, <3>2, DeltaCases DEF OfKind
    <3>4. rows'[k] = Add(NoDelta, NoDelta)
      BY <2>2, <2>4, <3>3, RowStep
    <3>5. Add(NoDelta, NoDelta) = NoDelta
      BY DEF Add, NoDelta, Counters
    <3> QED BY <3>4, <3>5
  <2> QED BY <2>3, <2>4
<1> QED BY <1>1, <1>2, <1>3 DEF CountInv

\* e is a claim of the station and task of key.
IsClaimOf(e, key) == OfKind(e, "TaskClaimed") /\ ClaimKey[e] = key

\* analytics_pending_claims has one row per key: the upsert replaces it.
OnePending == \A c, d \in claims : c.key = d.key => c = d

\* A pending claim is the one recorded last for its key.
PendingIsLatest ==
    \A c \in claims : \E j \in DOMAIN applied :
        /\ IsClaimOf(applied[j], c.key) /\ History[applied[j]].at = c.at
        /\ \A i \in DOMAIN applied : IsClaimOf(applied[i], c.key) => i <= j

\* A recorded claim has a pending row until its completion is recorded.
ClaimIsPending ==
    \A d \in processed :
        OfKind(d, "TaskClaimed") /\ (\A x \in processed : OfKind(x, "TaskCompleted") => ClaimKey[x] # ClaimKey[d])
            => \E c \in claims : c.key = ClaimKey[d]

\* The two columns measured from claims are MemoryStore's.
ClaimsOK ==
    \A k \in RowKeys :
        /\ rows[k].claimSeconds = MemoryRow(applied, k).claimSeconds
        /\ rows[k].completionsWithClaim = MemoryRow(applied, k).completionsWithClaim
StoreInv == CountInv /\ OnePending /\ PendingIsLatest /\ ClaimIsPending /\ ClaimsOK

\* The pending row a completion finds is the claim MemoryStore finds by looking
\* back through its log.
LEMMA MeasuredFrom ==
    ASSUME OneCompletion, StoreInv, NEW e \in Events, e \notin processed, OfKind(e, "TaskCompleted"),
           NEW t, t = Append(applied, e), NEW n, n = Len(applied) + 1
    PROVE  /\ Mine(e, claims) # {} <=> ClaimsBefore(t, n) # {}
           /\ \A c \in Mine(e, claims) : History[e].at - c.at = Since(t, n)
<1> DEFINE s == applied
           B == {j \in 1..Len(s) : OfKind(s[j], "TaskClaimed") /\ ClaimKey[s[j]] = ClaimKey[e]}
<1>1. /\ s \in Seq(Events) /\ Len(s) \in Nat /\ DOMAIN s = 1..Len(s) /\ t \in Seq(Events) /\ Len(t) = n /\ n \in 1..Len(t)
      /\ t[n] = e /\ \A i \in 1..Len(s) : t[i] = s[i] /\ s[i] \in processed
      /\ e \notin Range(s) /\ AppliedOnce
  BY AppendRange, AppendProperties, LenProperties DEF StoreInv, CountInv, StoreOK, Range
<1>2. ClaimsBefore(t, n) = B
  <2>1. FirstApply(s) = 1..Len(s)
    BY <1>1, AllFirst
  <2> QED BY <1>1, <2>1, ClaimsBeforeAppend
<1>3. ASSUME NEW c \in Mine(e, claims)
      PROVE  ClaimsBefore(t, n) # {} /\ History[e].at - c.at = Since(t, n)
  <2>1. c \in claims /\ c.key = ClaimKey[e]
    BY DEF Mine
  <2>2. PICK j \in DOMAIN s : /\ IsClaimOf(s[j], c.key) /\ History[s[j]].at = c.at
                              /\ \A i \in DOMAIN s : IsClaimOf(s[i], c.key) => i <= j
    BY <2>1 DEF StoreInv, PendingIsLatest
  <2>3. j \in B
    BY <1>1, <2>1, <2>2 DEF IsClaimOf
  <2>4. Max(B) \in B /\ j <= Max(B)
    BY <1>1, <1>2, <2>3, ClaimsBeforeFinite
  <2>5. Max(B) <= j
    BY <1>1, <2>1, <2>2, <2>4 DEF IsClaimOf
  <2>6. Max(B) = j
    BY <1>1, <2>3, <2>4, <2>5
  <2>7. t[j] = s[j]
    BY <1>1
  <2> HIDE DEF B
  <2> QED BY <1>1, <1>2, <2>2, <2>3, <2>6, <2>7 DEF Since
<1>4. ASSUME NEW j \in B PROVE Mine(e, claims) # {}
  <2>1. s[j] \in processed /\ OfKind(s[j], "TaskClaimed") /\ ClaimKey[s[j]] = ClaimKey[e]
    BY <1>1
  <2>2. \A x \in processed : OfKind(x, "TaskCompleted") => ClaimKey[x] # ClaimKey[e]
    <3>1. processed \subseteq Events
      BY <1>1 DEF StoreInv, CountInv, StoreOK, Range
    <3> QED BY <3>1 DEF OneCompletion, Completions, OfKind
  <2>3. \E c \in claims : c.key = ClaimKey[e]
    BY <2>1, <2>2 DEF StoreInv, ClaimIsPending
  <2> QED BY <2>3 DEF Mine
<1> QED BY <1>2, <1>3, <1>4

\* Recording an event keeps StoreInv.
LEMMA StoreStep ==
    ASSUME OneCompletion, StoreInv, NEW e, Recording(e)
    PROVE  StoreInv'
<1> DEFINE s == applied
           t == Append(applied, e)
           n == Len(applied) + 1
           new == [key |-> ClaimKey[e], at |-> History[e].at]
<1>1. /\ e \in Events /\ Records(e) /\ e \notin processed /\ processed' = processed \cup {e}
      /\ claims' = PendingAfter(e, claims) /\ applied' = t
      /\ s \in Seq(Events) /\ Len(s) \in Nat /\ DOMAIN s = 1..Len(s) /\ DOMAIN t = 1..n
      /\ t[n] = e /\ \A i \in 1..Len(s) : t[i] = s[i] /\ s[i] \in processed
      /\ e \notin Range(s)
  BY Recorded DEF StoreInv
<1>2. CountInv'
  BY CountStep DEF StoreInv
<1>4. ASSUME OfKind(e, "TaskClaimed") PROVE OnePending' /\ PendingIsLatest' /\ ClaimIsPending'
  <2>1. claims' = {c \in claims : c.key # ClaimKey[e]} \cup {new}
    BY <1>1, <1>4 DEF PendingAfter, OfKind
  <2>2. OnePending'
    BY <2>1 DEF StoreInv, OnePending
  <2>3. PendingIsLatest'
    <3> SUFFICES ASSUME NEW c \in claims'
                 PROVE  \E j \in DOMAIN t :
                            /\ IsClaimOf(t[j], c.key) /\ History[t[j]].at = c.at
                            /\ \A i \in DOMAIN t : IsClaimOf(t[i], c.key) => i <= j
      BY <1>1 DEF PendingIsLatest
    <3>1. CASE c = new
      <4>1. n \in DOMAIN t /\ IsClaimOf(t[n], c.key) /\ History[t[n]].at = c.at /\ \A i \in DOMAIN t : i <= n
        BY <1>1, <1>4, <3>1 DEF IsClaimOf
      <4> HIDE DEF t, n
      <4> QED BY <4>1
    <3>2. CASE c # new
      <4>1. c \in claims /\ c.key # ClaimKey[e]
        BY <2>1, <3>2
      <4>2. PICK j \in DOMAIN s : /\ IsClaimOf(s[j], c.key) /\ History[s[j]].at = c.at
                                  /\ \A i \in DOMAIN s : IsClaimOf(s[i], c.key) => i <= j
        BY <4>1 DEF StoreInv, PendingIsLatest
      <4>3. j \in DOMAIN t /\ IsClaimOf(t[j], c.key) /\ History[t[j]].at = c.at
        BY <1>1, <4>2
      <4>4. ASSUME NEW i \in DOMAIN t, IsClaimOf(t[i], c.key) PROVE i <= j
        <5>1. i # n
          BY <1>1, <4>1, <4>4 DEF IsClaimOf
        <5>2. i \in 1..Len(s)
          BY <1>1, <5>1
        <5> QED BY <1>1, <4>2, <4>4, <5>2
      <4> HIDE DEF t
      <4> QED BY <4>3, <4>4
    <3> QED BY <3>1, <3>2
  <2>4. ClaimIsPending'
    <3> SUFFICES ASSUME NEW d \in processed', OfKind(d, "TaskClaimed"),
                        \A x \in processed' : OfKind(x, "TaskCompleted") => ClaimKey[x] # ClaimKey[d]
                 PROVE  \E c \in claims' : c.key = ClaimKey[d]
      BY DEF ClaimIsPending
    <3>1. CASE ClaimKey[d] = ClaimKey[e]
      <4>1. new \in claims' /\ new.key = ClaimKey[e]
        BY <2>1
      <4> HIDE DEF new
      <4> QED BY <3>1, <4>1
    <3>2. CASE ClaimKey[d] # ClaimKey[e]
      <4>1. d \in processed
        BY <3>2, <1>1
      <4>2. PICK c \in claims : c.key = ClaimKey[d]
        BY <4>1, <1>1 DEF StoreInv, ClaimIsPending
      <4> QED BY <4>2, <3>2, <2>1
    <3> QED BY <3>1, <3>2
  <2> QED BY <2>2, <2>3, <2>4
<1>5. ASSUME ~OfKind(e, "TaskClaimed") PROVE OnePending' /\ PendingIsLatest' /\ ClaimIsPending'
  <2>1. /\ claims' \subseteq claims
        /\ \A c \in claims : c \notin claims' => OfKind(e, "TaskCompleted") /\ c.key = ClaimKey[e]
    BY <1>1, <1>5 DEF PendingAfter, OfKind
  <2>2. OnePending'
    BY <2>1 DEF StoreInv, OnePending
  <2>3. PendingIsLatest'
    <3> SUFFICES ASSUME NEW c \in claims'
                 PROVE  \E j \in DOMAIN t :
                            /\ IsClaimOf(t[j], c.key) /\ History[t[j]].at = c.at
                            /\ \A i \in DOMAIN t : IsClaimOf(t[i], c.key) => i <= j
      BY <1>1 DEF PendingIsLatest
    <3>1. PICK j \in DOMAIN s : /\ IsClaimOf(s[j], c.key) /\ History[s[j]].at = c.at
                                /\ \A i \in DOMAIN s : IsClaimOf(s[i], c.key) => i <= j
      BY <2>1 DEF StoreInv, PendingIsLatest
    <3>2. j \in DOMAIN t /\ IsClaimOf(t[j], c.key) /\ History[t[j]].at = c.at
      BY <1>1, <3>1
    <3>3. ASSUME NEW i \in DOMAIN t, IsClaimOf(t[i], c.key) PROVE i <= j
      <4>1. i # n
        BY <1>1, <1>5, <3>3 DEF IsClaimOf
      <4>2. i \in 1..Len(s)
        BY <1>1, <4>1
      <4> QED BY <1>1, <3>1, <3>3, <4>2
    <3> HIDE DEF t
    <3> QED BY <3>2, <3>3
  <2>4. ClaimIsPending'
    <3> SUFFICES ASSUME NEW d \in processed', OfKind(d, "TaskClaimed"),
                        \A x \in processed' : OfKind(x, "TaskCompleted") => ClaimKey[x] # ClaimKey[d]
                 PROVE  \E c \in claims' : c.key = ClaimKey[d]
      BY DEF ClaimIsPending
    <3>1. d \in processed
      BY <1>1, <1>5
    <3>2. PICK c \in claims : c.key = ClaimKey[d]
      BY <3>1, <1>1 DEF StoreInv, ClaimIsPending
    <3> QED BY <3>2, <2>1, <1>1
  <2> QED BY <2>2, <2>3, <2>4
<1>6. ClaimsOK'
  <2> SUFFICES ASSUME NEW k \in RowKeys
               PROVE  /\ rows'[k].claimSeconds = MemoryRow(t, k).claimSeconds
                      /\ rows'[k].completionsWithClaim = MemoryRow(t, k).completionsWithClaim
    BY <1>1 DEF ClaimsOK
  <2> DEFINE r == rows[k]
             m == MemoryRow(s, k)
             q == MemoryRow(t, k)
             x == rows'[k]
             D == Delta(e, claims)
             P == OfKind(e, "TaskCompleted") /\ ClaimsBefore(t, n) # {}
  <2>1. r.claimSeconds = m.claimSeconds /\ r.completionsWithClaim = m.completionsWithClaim
    BY DEF StoreInv, ClaimsOK
  <2>2. /\ q.completionsWithClaim = m.completionsWithClaim
               + OneIf(OfKind(e, "TaskCompleted") /\ RowKey[e] = k /\ ClaimsBefore(t, n) # {})
        /\ q.claimSeconds = m.claimSeconds
               + (IF OfKind(e, "TaskCompleted") /\ RowKey[e] = k /\ ClaimsBefore(t, n) # {} THEN Since(t, n) ELSE 0)
    <3>1. t = Append(s, e) /\ n = Len(s) + 1 /\ s \in Seq(Events) /\ e \in Events /\ e \notin Range(s)
      BY <1>1
    <3> HIDE DEF s, t, n
    <3>2. MemoryGrows(s, e, k, t, n)
      BY <3>1, MemoryAppend
    <3> QED BY <3>2 DEF MemoryGrows
  <2>3. OfKind(e, "TaskCompleted") => /\ Mine(e, claims) # {} <=> ClaimsBefore(t, n) # {}
                                  /\ \A c \in Mine(e, claims) : History[e].at - c.at = Since(t, n)
    BY <1>1, MeasuredFrom
  <2>4. D.completionsWithClaim = OneIf(P) /\ D.claimSeconds = IF P THEN Since(t, n) ELSE 0
    <3> HIDE DEF D, t, n
    <3> QED BY <1>1, <2>3, DeltaFields DEF OneIf, D
  <2>5. /\ r \in [Counters -> Int]
        /\ RowKey[e] # k => x = r
        /\ RowKey[e] = k => \A f \in Counters : x[f] = r[f] + D[f]
    BY RowStep DEF StoreInv
  <2> HIDE DEF r, m, q, x, D, s, t, n
  <2>6. r.claimSeconds \in Int /\ r.completionsWithClaim \in Int
    BY <2>5, CounterNames
  <2>7. x.claimSeconds = q.claimSeconds /\ x.completionsWithClaim = q.completionsWithClaim
    <3>1. CASE RowKey[e] # k
      BY <2>1, <2>2, <2>5, <2>6, <3>1 DEF OneIf
    <3>2. CASE RowKey[e] = k
      <4>1. /\ x.claimSeconds = r.claimSeconds + D.claimSeconds
            /\ x.completionsWithClaim = r.completionsWithClaim + D.completionsWithClaim
        BY <2>5, <3>2, CounterNames
      <4> QED BY <2>1, <2>2, <2>4, <3>2, <4>1 DEF OneIf
    <3> QED BY <3>1, <3>2
  <2> QED BY <2>7 DEF x, q
<1> QED BY <1>2, <1>4, <1>5, <1>6 DEF StoreInv

-----------------------------------------------------------------------------
(* The reports *)

\* With nothing but claims recorded for it, a row is all zeros.
LEMMA EmptyRow ==
    ASSUME NEW s \in Seq(Events), NEW k,
           \A i \in DOMAIN s : RowKey[s[i]] = k => OfKind(s[i], "TaskClaimed")
    PROVE  MemoryRow(s, k) = NoDelta
<1>1. /\ Places(s, "TaskCompleted", k) = {} /\ Places(s, "LeaseExpired", k) = {}
      /\ Places(s, "WeightDiscrepancyDetected", k) = {} /\ Places(s, "PackageManifested", k) = {}
  BY DEF Places, FirstApply, OfKind
<1>2. Paired(s, k) = {} /\ OnTime(s, k) = {} /\ Places(s, "PackageManifested", k) \ OnTime(s, k) = {}
  BY <1>1 DEF Paired, OnTime
<1>3. Cardinality({}) = 0
  BY FS_EmptySet
<1>4. SumFunction([i \in Paired(s, k) |-> Since(s, i)]) = 0
  <2> DEFINE f == [i \in Paired(s, k) |-> Since(s, i)]
  <2>1. DOMAIN f = {}
    BY <1>2
  <2> HIDE DEF f
  <2>2. SumFunction(f) = SumFunctionOnSet(f, {})
    BY <2>1 DEF SumFunction
  <2>3. SumFunction(f) = 0
    BY <2>2, SumEmpty
  <2> QED BY <2>3 DEF f
<1>5. /\ NoDelta.completions = 0 /\ NoDelta.leaseExpiries = 0 /\ NoDelta.weighCheckDiverts = 0
      /\ NoDelta.claimSeconds = 0 /\ NoDelta.completionsWithClaim = 0 /\ NoDelta.packagesManifested = 0
      /\ NoDelta.packagesOnTimeToCPT = 0 /\ NoDelta.packagesLateToCPT = 0
  BY DEF NoDelta
<1> QED BY <1>1, <1>2, <1>3, <1>4, <1>5, CounterNames, RowEquals

\* CountInv and StoreInv hold initially.
LEMMA StoreInit == Init => CountInv /\ StoreInv
<1> SUFFICES ASSUME Init PROVE CountInv /\ StoreInv
  OBVIOUS
<1>1. applied = <<>> /\ processed = {} /\ claims = {} /\ rows = [k \in RowKeys |-> NoDelta]
  BY DEF Init
<1>2. StoreOK /\ OnlyRecords
  BY <1>1, TypeInit DEF TypeOK, StoreOK, OnlyRecords
<1>3. OnePending /\ PendingIsLatest /\ ClaimIsPending
  BY <1>1 DEF OnePending, PendingIsLatest, ClaimIsPending
<1>5. AppliedOnce
  BY <1>1 DEF AppliedOnce
<1>4. ASSUME NEW k \in RowKeys PROVE MemoryRow(applied, k) = NoDelta
  <2>1. applied \in Seq(Events) /\ DOMAIN applied = {}
    BY <1>1
  <2> QED BY <2>1, EmptyRow
<1> QED BY <1>1, <1>2, <1>3, <1>4, <1>5 DEF CountInv, CountsOK, UntouchedIsEmpty, StoreInv, ClaimsOK

\* Only an Apply transaction touches the store, and each is the first for its event.
LEMMA StoreChange ==
    ASSUME DeliveryInv, [Next]_vars
    PROVE  UNCHANGED store \/ \E e : Recording(e)
<1>1. ASSUME NEW c \in Consumers, NEW e \in cur[c], Apply(c, e) \/ LostCommit(c, e)
      PROVE  Recording(e)
  <2>1. e \in Events /\ Records(e) /\ InTx(e) /\ e \notin processed
    BY <1>1 DEF Apply, LostCommit, DeliveryInv, TypeOK, HandIsFresh
  <2> QED BY <2>1, TxEffect
<1> QED BY <1>1 DEF Next, Step, vars, store, Rebalance, Ignore, Take, MarkNew, MarkDuplicate,
                    SkipUnresolved, Abandon, LostMark

\* Every step keeps CountInv.
LEMMA CountNext ==
    ASSUME DeliveryInv, CountInv, [Next]_vars
    PROVE  CountInv'
<1>1. CASE UNCHANGED store
  BY <1>1 DEF store, CountInv, StoreOK, OnlyRecords, AppliedOnce, CountsOK, UntouchedIsEmpty
<1> QED BY <1>1, StoreChange, CountStep

\* Every step keeps StoreInv.
LEMMA StoreNext ==
    ASSUME OneCompletion, DeliveryInv, StoreInv, [Next]_vars
    PROVE  StoreInv'
<1>1. CASE UNCHANGED store
  <2>1. CountInv'
    BY CountNext DEF StoreInv
  <2> QED BY <1>1, <2>1 DEF store, StoreInv, OnePending, PendingIsLatest, ClaimIsPending, ClaimsOK
<1> QED BY <1>1, StoreChange, StoreStep

\* A row is in the report exactly when something besides a claim was recorded for it.
LEMMA RowsExist ==
    ASSUME CountInv, NEW k \in RowKeys
    PROVE  rows[k] # NoDelta <=>
               \E i \in FirstApply(applied) : RowKey[applied[i]] = k /\ History[applied[i]].kind # "TaskClaimed"
<1>1. /\ applied \in Seq(Events) /\ CountsOK /\ FirstApply(applied) = DOMAIN applied
      /\ \A i \in DOMAIN applied : applied[i] \in processed
  BY AllFirst DEF CountInv, StoreOK, Range
<1>2. ASSUME ~\E i \in DOMAIN applied : RowKey[applied[i]] = k /\ History[applied[i]].kind # "TaskClaimed"
      PROVE  rows[k] = NoDelta
  BY <1>1, <1>2 DEF CountInv, UntouchedIsEmpty, Touched, OfKind
<1>3. ASSUME NEW i \in DOMAIN applied, RowKey[applied[i]] = k, History[applied[i]].kind # "TaskClaimed"
      PROVE  rows[k] # NoDelta
  <2>1. History[applied[i]].kind \in Projecting
    BY <1>1 DEF CountInv, OnlyRecords, Records, Projects
  <2>2. \A kind : IsFiniteSet(Places(applied, kind, k))
    BY <1>1, PlacesFinite
  <2>3. \A kind : Cardinality(Places(applied, kind, k)) = 0 => Places(applied, kind, k) = {}
    BY <2>2, FS_EmptySet
  <2>4. \A kind : OfKind(applied[i], kind) => i \in Places(applied, kind, k)
    BY <1>1, <1>3 DEF Places, OfKind
  <2>5. \/ OfKind(applied[i], "TaskCompleted") \/ OfKind(applied[i], "LeaseExpired")
        \/ OfKind(applied[i], "WeightDiscrepancyDetected") \/ OfKind(applied[i], "PackageManifested")
    BY <1>3, <2>1 DEF Projecting, OfKind
  <2>6. \/ rows[k].completions # 0 \/ rows[k].leaseExpiries # 0
        \/ rows[k].weighCheckDiverts # 0 \/ rows[k].packagesManifested # 0
    BY <1>1, <2>3, <2>4, <2>5 DEF CountsOK, MemoryRow
  <2> QED BY <2>6 DEF NoDelta
<1> QED BY <1>1, <1>2, <1>3

\* The end of the last window is an integer.
LEMMA EndType == End \in Int
<1>1. Len(History) \in 1..Len(History) /\ 1..Len(History) = DOMAIN History
  BY ProjectorAssumption
<1>2. History[Len(History)].at \in Nat
  BY <1>1, ProjectorAssumption
<1> QED BY <1>2, HourType DEF End

\* The totals of two windows that meet at h add up, on-time and late packages too.
LEMMA TotalsAddUp ==
    ASSUME CountInv, NEW h \in Int, 0 <= h, h <= End
    PROVE  Total("packagesManifested", 0, h) + Total("packagesManifested", h, End)
           = Total("packagesOnTimeToCPT", 0, End) + Total("packagesLateToCPT", 0, End)
<1> DEFINE f == [k \in RowKeys |-> rows[k].packagesManifested]
           on == [k \in RowKeys |-> rows[k].packagesOnTimeToCPT]
           late == [k \in RowKeys |-> rows[k].packagesLateToCPT]
           A == Query(0, h)
           B == Query(h, End)
           C == Query(0, End)
<1>1. ASSUME NEW k \in RowKeys
      PROVE  /\ f[k] \in Int /\ on[k] \in Int /\ late[k] \in Int
             /\ f[k] = on[k] + late[k]
  <2>1. CountsOK /\ applied \in Seq(Events) /\ rows[k] \in [Counters -> Int]
    BY DEF CountInv, StoreOK
  <2> DEFINE P == Places(applied, "PackageManifested", k)
             O == OnTime(applied, k)
  <2>2. IsFiniteSet(P) /\ IsFiniteSet(O) /\ O \subseteq P
    BY <2>1, PlacesFinite DEF OnTime
  <2>3. Cardinality(P) = Cardinality(O) + Cardinality(P \ O)
    <3> HIDE DEF P, O
    <3>1. Cardinality(P \ O) = Cardinality(P) - Cardinality(P \cap O)
      BY <2>2, FS_Difference
    <3>2. P \cap O = O
      BY <2>2
    <3>3. Cardinality(P) \in Nat /\ Cardinality(O) \in Nat
      BY <2>2, FS_CardinalityType
    <3>4. Cardinality(P \ O) = Cardinality(P) - Cardinality(O)
      BY <3>1, <3>2, Zenon
    <3> QED BY <3>3, <3>4
  <2>4. /\ rows[k].packagesManifested = Cardinality(P) /\ rows[k].packagesOnTimeToCPT = Cardinality(O)
        /\ rows[k].packagesLateToCPT = Cardinality(P \ O)
    BY <2>1 DEF CountsOK, MemoryRow
  <2>5. /\ rows[k].packagesManifested \in Int /\ rows[k].packagesOnTimeToCPT \in Int
        /\ rows[k].packagesLateToCPT \in Int
    BY <2>1, CounterNames
  <2> HIDE DEF P, O
  <2> QED BY <2>3, <2>4, <2>5
<1>2. /\ Total("packagesManifested", 0, h) = SumFunctionOnSet(f, A)
      /\ Total("packagesManifested", h, End) = SumFunctionOnSet(f, B)
      /\ Total("packagesOnTimeToCPT", 0, End) = SumFunctionOnSet(on, C)
      /\ Total("packagesLateToCPT", 0, End) = SumFunctionOnSet(late, C)
  BY DEF Total
<1>3. A \cup B = C /\ A \cap B = {} /\ C \subseteq RowKeys
  BY RowKeysFinite, EndType DEF Query
<1>4. IsFiniteSet(A) /\ IsFiniteSet(B) /\ IsFiniteSet(C)
  BY <1>3, RowKeysFinite, FS_Subset
<1>5. /\ \A k \in A \cup B : f[k] \in Int
      /\ \A k \in C : on[k] \in Int /\ late[k] \in Int /\ f[k] = on[k] + late[k]
  BY <1>1, <1>3
<1> HIDE DEF f, on, late, A, B, C
<1>6. SumFunctionOnSet(f, A \cup B) = SumFunctionOnSet(f, A) + SumFunctionOnSet(f, B)
  BY <1>3, <1>4, <1>5, SumUnion
<1>7. SumFunctionOnSet(f, C) = SumFunctionOnSet(on, C) + SumFunctionOnSet(late, C)
  BY <1>4, <1>5, SumPlus
<1> QED BY <1>2, <1>3, <1>6, <1>7

\* What ReportsTrue says, without the two columns that are measured from claims.
CountsTrue ==
    /\ CountsOK
    /\ \A h \in Hours : /\ Query(0, h) = MemoryQuery(applied, 0, h)
                        /\ Query(h, End) = MemoryQuery(applied, h, End)
    /\ \A h \in Hours : Total("packagesManifested", 0, h) + Total("packagesManifested", h, End)
                        = Total("packagesOnTimeToCPT", 0, End) + Total("packagesLateToCPT", 0, End)

\* CountInv gives the windows and the totals.
LEMMA CountsFollow == CountInv => CountsTrue
<1> SUFFICES ASSUME CountInv PROVE CountsTrue
  OBVIOUS
<1>1. ASSUME NEW a \in Int, NEW b \in Int PROVE Query(a, b) = MemoryQuery(applied, a, b)
  BY RowsExist, RowKeysFinite DEF Query, MemoryQuery
<1>2. ASSUME NEW h \in Hours PROVE h \in Int /\ 0 <= h /\ h <= End
  BY EndType DEF Hours
<1>3. \A h \in Hours : Query(0, h) = MemoryQuery(applied, 0, h) /\ Query(h, End) = MemoryQuery(applied, h, End)
  BY <1>1, <1>2, EndType
<1>4. \A h \in Hours : Total("packagesManifested", 0, h) + Total("packagesManifested", h, End)
                       = Total("packagesOnTimeToCPT", 0, End) + Total("packagesLateToCPT", 0, End)
  BY <1>2, TotalsAddUp
<1> QED BY <1>3, <1>4 DEF CountsTrue, CountInv

\* StoreInv gives the whole row.
LEMMA RowsFollow ==
    ASSUME StoreInv, NEW k \in RowKeys
    PROVE  rows[k] = MemoryRow(applied, k)
<1> DEFINE r == rows[k]
<1>1. r \in [Counters -> Int] /\ CountsOK /\ ClaimsOK
  BY DEF StoreInv, CountInv, StoreOK
<1>2. /\ r.completions = MemoryRow(applied, k).completions
      /\ r.leaseExpiries = MemoryRow(applied, k).leaseExpiries
      /\ r.weighCheckDiverts = MemoryRow(applied, k).weighCheckDiverts
      /\ r.claimSeconds = MemoryRow(applied, k).claimSeconds
      /\ r.completionsWithClaim = MemoryRow(applied, k).completionsWithClaim
      /\ r.packagesManifested = MemoryRow(applied, k).packagesManifested
      /\ r.packagesOnTimeToCPT = MemoryRow(applied, k).packagesOnTimeToCPT
      /\ r.packagesLateToCPT = MemoryRow(applied, k).packagesLateToCPT
  BY <1>1 DEF CountsOK, ClaimsOK
<1> HIDE DEF r
<1>3. r = MemoryRow(applied, k)
  BY <1>1, <1>2, RowEquals DEF MemoryRow
<1> QED BY <1>3 DEF r

\* For every history, also one with a second completion of a task: each count, each
\* window and each total of the Postgres store is the one MemoryStore gives for the
\* same Apply calls, of which it counts only the first for each event: a message sent
\* again, a transaction that rolled back or answered late, and two consumers at work
\* on one partition count nothing twice (postgres_projection.go, postgres_report.go).
THEOREM CountsAreTrue == Spec => []CountsTrue
<1>1. DeliveryInv /\ CountInv /\ [Next]_vars => CountInv'
  BY CountNext
<1> QED BY <1>1, CountsFollow, StoreInit, Delivery, PTL DEF Spec

\* With at most one completion per task and station, every report of the Postgres
\* store is the one MemoryStore gives for the same Apply calls in the same order,
\* and its totals add up over adjacent windows: no redelivery, lost answer, failed
\* transaction or interleaving counts twice or in part (postgres_projection.go).
THEOREM ReportsAreTrue ==
    ASSUME OneCompletion
    PROVE  Spec => []ReportsTrue
<1>1. DeliveryInv /\ StoreInv /\ [Next]_vars => StoreInv'
  BY StoreNext
<1>2. StoreInv => ReportsTrue
  <2> SUFFICES ASSUME StoreInv PROVE ReportsTrue
    OBVIOUS
  <2>1. CountsTrue
    BY CountsFollow DEF StoreInv
  <2> QED BY <2>1, RowsFollow DEF ReportsTrue, CountsTrue
<1> QED BY <1>1, <1>2, StoreInit, Delivery, PTL DEF Spec

-----------------------------------------------------------------------------
(* The order: the inductive invariant *)

\* With no rebalance one consumer reads every partition.
Reader == CHOOSE c \in Consumers : TRUE

\* One consumer owns every partition and does all the work.
OneReader == /\ \A k \in Keys : owner[k] = Reader
             /\ \A c \in Consumers : c # Reader => cur[c] = {}

\* No fault struck anything.
NoneHit == \A e \in Events : hit[e] = {}

\* The event in hand is the message read last from its partition.
HandIsLast ==
    \A c \in Consumers : \A e \in cur[c] :
        offset[History[e].key] >= 1 /\ log[History[e].key][offset[History[e].key]] = e

\* A marked event was read.
MarkedIsRead == \A e \in consumed : ReadPast(e)

\* Every message read before the one in hand is marked.
Drained ==
    \A k \in Keys : \A i \in 1..offset[k] :
        Projects(log[k][i]) => \/ log[k][i] \in consumed
                               \/ i = offset[k] /\ \E c \in Consumers : log[k][i] \in cur[c]

\* The event being applied comes after every event of its aggregate marked before.
HandIsNewest ==
    \A c \in Consumers : phase[c] = "apply" =>
        \A e \in cur[c], d \in consumed : History[d].key = History[e].key /\ d # e => d < e

\* The events of an aggregate are applied in the order they committed.
AppliedInOrder ==
    \A i, j \in DOMAIN applied :
        i < j /\ History[applied[i]].key = History[applied[j]].key => applied[i] < applied[j]

\* The completions of row k that are in the read model.
Done(k) == {e \in processed \cap Completions : RowKey[e] = k}

\* They are all paired with a claim, and measured from the right one.
Measured ==
    \A k \in RowKeys : /\ rows[k].completionsWithClaim = Cardinality(Done(k))
                       /\ rows[k].claimSeconds = SumFunctionOnSet(CycleTime, Done(k))

OrderInv ==
    OneReader /\ NoneHit /\ HandIsLast /\ MarkedIsRead /\ Drained /\ HandIsNewest /\ AppliedInOrder /\ Measured
CalmOrder == Undisturbed => OrderInv

\* In a calm run no event is sent before an earlier one of its aggregate.
LEMMA NothingOvertaken ==
    ASSUME DeliveryInv, Undisturbed, NEW d \in Events, NEW e \in Events, d < e,
           History[d].key = History[e].key
    PROVE  ~SentBefore(log[History[e].key], e, d)
<1> DEFINE k == History[e].key
           s == log[k]
           S == {p \in Range(s) \X Range(s) : p[1] < p[2] /\ SentBefore(s, p[2], p[1])}
<1>1. k \in Keys /\ Range(s) = EventsOf(k) /\ d \in EventsOf(k) /\ e \in EventsOf(k)
  BY DEF Keys, DeliveryInv, LogsComplete, EventsOf
<1>2. Cardinality(S) = 0
  BY <1>1 DEF Undisturbed, Overtakes
<1>3. IsFiniteSet(S)
  <2>1. IsFiniteSet(EventsOf(k))
    BY EventsFinite DEF EventsOf
  <2>2. IsFiniteSet(EventsOf(k) \X EventsOf(k))
    BY <2>1, FS_Product
  <2>3. S \subseteq EventsOf(k) \X EventsOf(k)
    BY <1>1
  <2> QED BY <2>2, <2>3, FS_Subset
<1>4. S = {}
  <2> HIDE DEF S
  <2> QED BY <1>2, <1>3, FS_EmptySet
<1>5. <<d, e>> \in Range(s) \X Range(s)
  BY <1>1
<1> HIDE DEF s
<1>6. SentBefore(s, e, d) => <<d, e>> \in S
  BY <1>5
<1> QED BY <1>4, <1>6 DEF s

\* OrderInv holds initially.
LEMMA OrderInit == Init => OrderInv
<1> SUFFICES ASSUME Init PROVE OrderInv
  OBVIOUS
<1>1. OneReader /\ NoneHit /\ HandIsLast /\ MarkedIsRead /\ Drained /\ HandIsNewest
  BY DEF Init, OneReader, Reader, NoneHit, HandIsLast, MarkedIsRead, Drained, HandIsNewest
<1>2. AppliedInOrder
  BY DEF Init, AppliedInOrder
<1>3. Measured
  <2> SUFFICES ASSUME NEW k \in RowKeys
               PROVE  /\ rows[k].completionsWithClaim = Cardinality(Done(k))
                      /\ rows[k].claimSeconds = SumFunctionOnSet(CycleTime, Done(k))
    BY DEF Measured
  <2>1. Done(k) = {} /\ rows[k] = NoDelta
    BY DEF Init, Done
  <2>2. Cardinality(Done(k)) = 0 /\ SumFunctionOnSet(CycleTime, Done(k)) = 0
    BY <2>1, FS_EmptySet, SumEmpty, Zenon
  <2>3. NoDelta.completionsWithClaim = 0 /\ NoDelta.claimSeconds = 0
    BY DEF NoDelta
  <2> QED BY <2>1, <2>2, <2>3
<1> QED BY <1>1, <1>2, <1>3 DEF OrderInv

\* Faults and rebalances are counted, so a calm state has a calm past.
LEMMA CalmPast ==
    ASSUME DeliveryInv, [Next]_vars, Undisturbed'
    PROVE  /\ Undisturbed /\ UNCHANGED <<log, owner, hit>>
           /\ \/ UNCHANGED vars
              \/ \E c \in Consumers : Step(c)
<1>1. log' = log
  BY DEF Next, Step, vars, Rebalance, Ignore, Take, MarkNew, MarkDuplicate, Apply, SkipUnresolved,
         Abandon, LostMark, LostCommit
<1>2. spent'.faults = 0 /\ spent'.rebalances = 0 /\ TypeOK
  BY DEF Undisturbed, DeliveryInv
<1>3. ASSUME NEW f, NEW e \in Events, Fault(f, e) PROVE FALSE
  <2>1. spent'.faults = spent.faults + 1 /\ spent.faults \in Nat
    BY <1>2, <1>3, FaultEffect DEF TypeOK
  <2> QED BY <2>1, <1>2
<1>4. ASSUME NEW k \in Keys, NEW c \in Consumers, Rebalance(k, c) PROVE FALSE
  <2>1. spent'.rebalances = spent.rebalances + 1 /\ spent.rebalances \in Nat
    BY <1>2, <1>4 DEF TypeOK, Rebalance
  <2> QED BY <2>1, <1>2
<1>5. UNCHANGED vars \/ \E c \in Consumers : Step(c)
  BY <1>2, <1>3, <1>4 DEF Next, Abandon, LostMark, LostCommit, TypeOK
<1>6. UNCHANGED <<spent, owner, hit>>
  BY <1>5 DEF vars, Step, Ignore, Take, MarkNew, MarkDuplicate, Apply, SkipUnresolved
<1>7. Undisturbed
  BY <1>1, <1>6 DEF Undisturbed
<1> QED BY <1>1, <1>5, <1>6, <1>7

-----------------------------------------------------------------------------
(* The order: what a handler meets *)

\* When e is marked, every event of its aggregate marked before it precedes it.
LEMMA NewestIsMarked ==
    ASSUME DeliveryInv, Undisturbed, OrderInv, NEW c \in Consumers, NEW e \in cur[c],
           phase[c] = "mark", e \notin consumed,
           NEW d \in consumed, History[d].key = History[e].key
    PROVE  d < e
<1> DEFINE k == History[e].key
           s == log[k]
           n == offset[k]
<1>1. /\ e \in Events /\ d \in Events /\ e # d /\ k \in Keys /\ Projects(e)
      /\ n \in Nat /\ n <= Len(s) /\ s \in Seq(EventsOf(k)) /\ DOMAIN s = 1..Len(s) /\ Len(s) \in Nat
  BY LenProperties DEF DeliveryInv, TypeOK, Keys, HandsProject, LogsComplete
<1>2. n >= 1 /\ s[n] = e
  BY DEF OrderInv, HandIsLast
<1>3. PICK i \in 1..n : s[i] = d
  BY DEF OrderInv, MarkedIsRead, ReadPast
<1>4. \A j \in 1..i : s[j] # e
  <2> SUFFICES ASSUME NEW j \in 1..i, s[j] = e PROVE FALSE
    OBVIOUS
  <2>1. j \in 1..n /\ j # n
    BY <1>1, <1>2, <1>3
  <2> QED BY <1>1, <2>1 DEF OrderInv, Drained
<1>5. SentBefore(s, d, e)
  <2>1. i \in DOMAIN s
    BY <1>1, <1>3
  <2> QED BY <1>3, <1>4, <2>1 DEF SentBefore
<1>6. ~(e < d)
  BY <1>1, <1>5, NothingOvertaken
<1> QED BY <1>1, <1>6, EventsFinite

\* When e is applied, the claims it is measured from have been applied.
LEMMA ClaimsApplied ==
    ASSUME DeliveryInv, Undisturbed, OrderInv, NEW c \in Consumers, NEW e \in cur[c],
           NEW m \in OwnClaim(e)
    PROVE  m \in processed
<1> DEFINE k == History[e].key
           s == log[k]
           n == offset[k]
<1>1. /\ e \in Events /\ m \in Events /\ m < e /\ m # e /\ k \in Keys /\ cur[c] = {e}
      /\ n \in Nat /\ n <= Len(s) /\ s \in Seq(EventsOf(k)) /\ DOMAIN s = 1..Len(s) /\ Len(s) \in Nat
  <2>1. e \in Events /\ cur[c] = {e} /\ k \in Keys /\ n \in Nat /\ n <= Len(s) /\ s \in Seq(EventsOf(k))
    BY DEF DeliveryInv, TypeOK, Keys, LogsComplete
  <2>2. m \in Events /\ m < e /\ m # e
    BY <2>1, EventsFinite DEF OwnClaim
  <2> QED BY <2>1, <2>2, LenProperties
<1>2. History[m].key = k /\ History[m].kind = "TaskClaimed"
  BY <1>1 DEF OwnClaim, ClaimKey
<1>3. Records(m) /\ Projects(m)
  <2>1. Data[m].resolved
    BY <1>1, <1>2 DEF Data
  <2> QED BY <1>2, <2>1 DEF Records, Projects, Projecting
<1>4. n >= 1 /\ s[n] = e
  BY DEF OrderInv, HandIsLast
<1>5. PICK j \in 1..n : s[j] = m
  <2>1. ~SentBefore(s, e, m)
    BY <1>1, <1>2, NothingOvertaken
  <2>2. n \in DOMAIN s
    BY <1>1, <1>4
  <2> QED BY <1>4, <2>1, <2>2 DEF SentBefore
<1>6. m \in consumed
  BY <1>1, <1>3, <1>4, <1>5 DEF OrderInv, Drained
<1>7. \A b \in Consumers : ~InHand(b, m)
  <2>1. e \notin {} /\ \A b \in Consumers : b # Reader => cur[b] = {}
    BY DEF OrderInv, OneReader
  <2> QED BY <1>1, <2>1 DEF InHand
<1>8. ~Struck(m)
  BY <1>1 DEF OrderInv, NoneHit, Struck
<1> QED BY <1>3, <1>6, <1>7, <1>8 DEF DeliveryInv, MarkedIsApplied

\* With claims before every completion a cycle time is well defined.
LEMMA CycleTimeType ==
    ASSUME ClaimedFirst, NEW e \in Completions
    PROVE  /\ Max(OwnClaim(e)) \in OwnClaim(e) /\ \A y \in OwnClaim(e) : y <= Max(OwnClaim(e))
           /\ OwnClaim(e) \subseteq Events
           /\ CycleTime[e] \in Int
<1>1. OwnClaim(e) # {} /\ OwnClaim(e) \subseteq Int /\ OwnClaim(e) \subseteq Events /\ IsFiniteSet(OwnClaim(e))
  BY EventsFinite DEF ClaimedFirst, OwnClaim
<1>2. PICK m : m = Max(OwnClaim(e))
  OBVIOUS
<1>3. m \in OwnClaim(e) /\ \A y \in OwnClaim(e) : y <= m
  BY <1>1, <1>2, MaxExists
<1>4. CycleTime[e] = History[e].at - History[m].at
  BY <1>2 DEF CycleTime
<1>5. History[e].at \in Int /\ History[m].at \in Int
  BY <1>1, <1>3, ProjectorAssumption DEF Events, Completions
<1>6. CycleTime[e] \in Int
  BY <1>4, <1>5
<1> QED BY <1>1, <1>2, <1>3, <1>6

\* A completion that is applied finds the claim its cycle time is measured from.
LEMMA MeasuredFromOwnClaim ==
    ASSUME OneCompletion, ClaimedFirst, DeliveryInv, StoreInv, Undisturbed, OrderInv,
           NEW c \in Consumers, NEW e \in cur[c], phase[c] = "apply", e \notin processed, OfKind(e, "TaskCompleted")
    PROVE  /\ Mine(e, claims) # {}
           /\ \A p \in Mine(e, claims) : History[e].at - p.at = CycleTime[e]
<1>1. /\ e \in Events /\ e \in Completions /\ OwnClaim(e) # {} /\ processed \subseteq consumed
      /\ applied \in Seq(Events) /\ processed = Range(applied) /\ Len(applied) \in Nat
      /\ DOMAIN applied = 1..Len(applied) /\ processed \subseteq Events
  BY LenProperties DEF DeliveryInv, TypeOK, Completions, OfKind, ClaimedFirst
<1>2. OwnClaim(e) \subseteq Int
  BY EventsFinite DEF OwnClaim
<1>3. PICK m : m = Max(OwnClaim(e))
  OBVIOUS
<1>4. m \in OwnClaim(e) /\ \A y \in OwnClaim(e) : y <= m
  BY <1>1, <1>3, CycleTimeType
<1>5. m \in processed /\ m \in Events /\ IsClaimOf(m, ClaimKey[e])
  BY <1>4, ClaimsApplied DEF OwnClaim, IsClaimOf, OfKind
<1>6. Mine(e, claims) # {}
  <2>1. \A x \in processed : OfKind(x, "TaskCompleted") => ClaimKey[x] # ClaimKey[e]
    BY <1>1 DEF OneCompletion, Completions, OfKind
  <2>2. \E p \in claims : p.key = ClaimKey[e]
    BY <1>5, <2>1 DEF StoreInv, ClaimIsPending, IsClaimOf
  <2> QED BY <2>2 DEF Mine
<1>7. CycleTime[e] = History[e].at - History[m].at
  BY <1>1, <1>3 DEF CycleTime
<1>8. ASSUME NEW p \in Mine(e, claims) PROVE p.at = History[m].at
  <2>1. p \in claims /\ p.key = ClaimKey[e]
    BY DEF Mine
  <2>2. PICK j \in DOMAIN applied :
             /\ IsClaimOf(applied[j], p.key) /\ History[applied[j]].at = p.at
             /\ \A i \in DOMAIN applied : IsClaimOf(applied[i], p.key) => i <= j
    BY <2>1 DEF StoreInv, PendingIsLatest
  <2>3. PICK i \in DOMAIN applied : applied[i] = m
    BY <1>1, <1>5 DEF Range
  <2>4. i <= j /\ applied[j] \in processed /\ applied[j] \in Events
    BY <1>1, <1>5, <2>1, <2>2, <2>3 DEF Range
  <2>5. History[applied[j]].key = History[e].key /\ History[m].key = History[e].key /\ applied[j] # e
    BY <1>1, <1>5, <2>1, <2>2, <2>4 DEF IsClaimOf, ClaimKey
  <2>6. applied[j] < e
    BY <1>1, <2>4, <2>5 DEF OrderInv, HandIsNewest
  <2>7. applied[j] \in OwnClaim(e)
    BY <2>1, <2>2, <2>4, <2>6 DEF OwnClaim, IsClaimOf, OfKind
  <2>8. applied[j] <= m /\ applied[j] \in Int /\ m \in Int
    BY <1>2, <1>4, <2>7
  <2>9. ~(i < j)
    BY <2>3, <2>5, <2>8 DEF OrderInv, AppliedInOrder
  <2>10. i = j
    BY <1>1, <2>4, <2>9
  <2> QED BY <2>2, <2>3, <2>10
<1> QED BY <1>6, <1>7, <1>8

-----------------------------------------------------------------------------
(* The order: one step *)

\* The completions of a row are finitely many.
LEMMA DoneFinite ==
    ASSUME DeliveryInv, NEW k
    PROVE  IsFiniteSet(Done(k)) /\ Done(k) \subseteq Completions /\ Done(k) \subseteq processed
BY EventsFinite DEF Done, Completions

\* What recording e does to the completions measured.
LEMMA MeasuredStep ==
    ASSUME OneCompletion, ClaimedFirst, DeliveryInv, StoreInv, Undisturbed, OrderInv,
           NEW c \in Consumers, NEW e \in cur[c], phase[c] = "apply", Recording(e)
    PROVE  Measured'
<1> SUFFICES ASSUME NEW k \in RowKeys
             PROVE  /\ rows'[k].completionsWithClaim = Cardinality(Done(k)')
                    /\ rows'[k].claimSeconds = SumFunctionOnSet(CycleTime, Done(k)')
  BY DEF Measured
<1> DEFINE r == rows[k]
           D == Delta(e, claims)
           S == Done(k)
<1>1. /\ e \in Events /\ Records(e) /\ e \notin processed /\ processed' = processed \cup {e}
      /\ rows' = [rows EXCEPT ![RowKey[e]] = Add(@, D)] /\ rows \in [RowKeys -> [Counters -> Int]]
      /\ claims \subseteq [key : Range(ClaimKey), at : Nat]
  BY DEF Recording, UpsertRollup, StoreInv, CountInv, StoreOK
<1>2. D \in [Counters -> Int]
  BY <1>1, DeltaType
<1>3. /\ r \in [Counters -> Int] /\ r.completionsWithClaim = Cardinality(S)
      /\ r.claimSeconds = SumFunctionOnSet(CycleTime, S)
  BY <1>1 DEF OrderInv, Measured
<1>4. /\ "completionsWithClaim" \in Counters /\ "claimSeconds" \in Counters
  BY CounterNames
<1>5. /\ IsFiniteSet(S) /\ S \subseteq Completions /\ e \notin S
      /\ \A x \in Completions : CycleTime[x] \in Int
  BY <1>1, DoneFinite, CycleTimeType
<1>6. CASE RowKey[e] # k
  <2>1. rows'[k] = r
    BY <1>1, <1>6
  <2>2. Done(k)' = S
    BY <1>1, <1>6 DEF Done
  <2> QED BY <1>3, <2>1, <2>2, Zenon
<1>7. CASE RowKey[e] = k
  <2>1. /\ rows'[k].completionsWithClaim = r.completionsWithClaim + D.completionsWithClaim
        /\ rows'[k].claimSeconds = r.claimSeconds + D.claimSeconds
    <3>1. rows'[k] = Add(r, D)
      BY <1>1, <1>7
    <3> HIDE DEF r, D
    <3> QED BY <1>2, <1>3, <1>4, <3>1, AddType
  <2>2. r.completionsWithClaim \in Int /\ r.claimSeconds \in Int
    BY <1>3, <1>4
  <2>3. CASE ~OfKind(e, "TaskCompleted")
    <3>1. D.completionsWithClaim = 0 /\ D.claimSeconds = 0
      BY <1>1, <2>3, DeltaFields DEF OneIf
    <3>2. Done(k)' = S
      BY <1>1, <2>3 DEF Done, Completions, OfKind
    <3>3. rows'[k].completionsWithClaim = r.completionsWithClaim /\ rows'[k].claimSeconds = r.claimSeconds
      <4> HIDE DEF r, D
      <4> QED BY <2>1, <2>2, <3>1
    <3> QED BY <1>3, <3>2, <3>3, Zenon
  <2>4. CASE OfKind(e, "TaskCompleted")
    <3>1. /\ Mine(e, claims) # {}
          /\ \A p \in Mine(e, claims) : History[e].at - p.at = CycleTime[e]
      BY <1>1, <2>4, MeasuredFromOwnClaim
    <3>2. D.completionsWithClaim = 1 /\ D.claimSeconds = CycleTime[e]
      BY <1>1, <2>4, <3>1, DeltaFields DEF OneIf
    <3>3. Done(k)' = S \cup {e} /\ e \in Completions
      BY <1>1, <1>7, <2>4 DEF Done, Completions, OfKind
    <3> HIDE DEF S, D, r
    <3>4. Cardinality(S \cup {e}) = Cardinality(S) + 1
      BY <1>5, FS_AddElement
    <3>5. SumFunctionOnSet(CycleTime, S \cup {e}) = SumFunctionOnSet(CycleTime, S) + CycleTime[e]
      BY <1>5, <3>3, SumAdd
    <3>6. /\ rows'[k].completionsWithClaim = Cardinality(S \cup {e})
          /\ rows'[k].claimSeconds = SumFunctionOnSet(CycleTime, S \cup {e})
      BY <1>3, <2>1, <3>2, <3>4, <3>5
    <3> QED BY <3>3, <3>6, Zenon
  <2> QED BY <2>3, <2>4
<1> QED BY <1>6, <1>7

\* Recording e keeps the order of its aggregate.
LEMMA AppliedStep ==
    ASSUME DeliveryInv, OrderInv, NEW c \in Consumers, NEW e \in cur[c], phase[c] = "apply", Recording(e)
    PROVE  AppliedInOrder'
<1> DEFINE s == applied
           t == Append(applied, e)
           n == Len(applied) + 1
<1>1. /\ e \in Events /\ e \notin processed /\ applied' = t /\ processed \subseteq consumed
      /\ s \in Seq(Events) /\ Len(s) \in Nat /\ DOMAIN s = 1..Len(s) /\ DOMAIN t = 1..n
      /\ t[n] = e /\ \A i \in 1..Len(s) : t[i] = s[i] /\ s[i] \in processed
  BY AppendRange DEF DeliveryInv, TypeOK, Range, Recording
<1> SUFFICES ASSUME NEW i \in DOMAIN t, NEW j \in DOMAIN t, i < j, History[t[i]].key = History[t[j]].key
             PROVE  t[i] < t[j]
  BY <1>1 DEF AppliedInOrder
<1>2. i \in 1..Len(s) /\ t[i] = s[i] /\ s[i] \in processed
  BY <1>1
<1>3. CASE j = n
  BY <1>1, <1>2, <1>3 DEF OrderInv, HandIsNewest
<1>4. CASE j # n
  <2>1. j \in 1..Len(s) /\ t[j] = s[j]
    BY <1>1, <1>4
  <2> QED BY <1>1, <1>2, <2>1 DEF OrderInv, AppliedInOrder
<1> QED BY <1>3, <1>4

\* Putting a marked message down.
LEMMA DropKeepsOrder ==
    ASSUME DeliveryInv, OrderInv, NEW c \in Consumers, NEW e \in cur[c], e \in consumed, Drop(c),
           UNCHANGED <<log, offset, owner, consumed, hit>>
    PROVE  OneReader' /\ NoneHit' /\ HandIsLast' /\ MarkedIsRead' /\ Drained' /\ HandIsNewest'
<1>1. /\ cur'[c] = {} /\ phase'[c] = "read" /\ cur[c] = {e}
      /\ \A b \in Consumers : b # c => cur'[b] = cur[b] /\ phase'[b] = phase[b]
  BY DropEffect DEF DeliveryInv, TypeOK
<1>2. OneReader' /\ NoneHit' /\ HandIsLast' /\ HandIsNewest'
  BY <1>1 DEF OrderInv, OneReader, NoneHit, HandIsLast, HandIsNewest
<1>3. MarkedIsRead'
  BY DEF OrderInv, MarkedIsRead, ReadPast
<1>4. Drained'
  BY <1>1 DEF OrderInv, Drained
<1> QED BY <1>2, <1>3, <1>4

\* A step into a calm state keeps OrderInv, action by action.
LEMMA OrderNext ==
    ASSUME OneCompletion, ClaimedFirst, DeliveryInv, StoreInv, Undisturbed => OrderInv, [Next]_vars, Undisturbed'
    PROVE  OrderInv'
<1>a. /\ Undisturbed /\ OrderInv /\ UNCHANGED <<log, owner, hit>>
      /\ UNCHANGED vars \/ \E c \in Consumers : Step(c)
  BY CalmPast
<1>b. TypeOK /\ TypeOK'
  BY TypeNext DEF DeliveryInv
<1>c. ASSUME UNCHANGED store PROVE AppliedInOrder' /\ Measured'
  BY <1>a, <1>c DEF OrderInv, AppliedInOrder, Measured, Done, store
<1>1. CASE UNCHANGED vars
  <2>1. UNCHANGED store /\ UNCHANGED <<offset, cur, phase, consumed>>
    BY <1>1 DEF vars, store
  <2>2. OneReader' /\ NoneHit' /\ HandIsLast' /\ MarkedIsRead' /\ Drained' /\ HandIsNewest'
    BY <1>a, <2>1 DEF OrderInv, OneReader, NoneHit, HandIsLast, MarkedIsRead, ReadPast, Drained, HandIsNewest
  <2> QED BY <2>1, <2>2, <1>c DEF OrderInv
<1>2. ASSUME NEW c \in Consumers, NEW k \in Keys, Ignore(c, k) \/ Take(c, k) PROVE OrderInv'
  <2>1. /\ UNCHANGED store /\ UNCHANGED consumed
        /\ offset' = [offset EXCEPT ![k] = @ + 1] /\ CanRead(c, k)
    BY <1>2 DEF Ignore, Take, store
  <2>2. /\ c = Reader /\ cur[c] = {} /\ phase[c] = "read" /\ offset[k] \in Nat
        /\ \A b \in Consumers : cur[b] = {}
    BY <1>a, <2>1, ReadEffect DEF OrderInv, OneReader, CanRead
  <2>3. /\ offset \in [Keys -> Nat] /\ offset'[k] = offset[k] + 1
        /\ \A q \in Keys : q # k => offset'[q] = offset[q]
    BY <1>b, <2>1 DEF TypeOK
  <2>4. PICK u \in Events : u = Upcoming(k) /\ History[u].key = k /\ log[k][offset[k] + 1] = u
    BY <2>1, ReadEffect DEF EventsOf, Upcoming
  <2>5. /\ \A b \in Consumers : b # c => cur'[b] = cur[b] /\ phase'[b] = phase[b]
        /\ phase'[c] # "apply"
        /\ \/ cur'[c] = {} /\ ~Projects(u)
           \/ cur'[c] = {u}
    BY <1>2, <1>b, <2>2, <2>4 DEF Ignore, Take, TypeOK, handler
  <2>6. OneReader' /\ NoneHit' /\ HandIsNewest'
    BY <1>a, <2>1, <2>2, <2>5 DEF OrderInv, OneReader, NoneHit, HandIsNewest
  <2>7. MarkedIsRead'
    <3> SUFFICES ASSUME NEW e \in consumed PROVE ReadPast(e)'
      BY <2>1 DEF MarkedIsRead
    <3>1. History[e].key \in Keys
      BY <1>b DEF TypeOK, Keys
    <3>2. PICK i \in 1..offset[History[e].key] : log[History[e].key][i] = e
      BY <1>a DEF OrderInv, MarkedIsRead, ReadPast
    <3>3. i \in 1..offset'[History[e].key]
      BY <3>1, <3>2, <2>3
    <3> QED BY <1>a, <3>2, <3>3 DEF ReadPast
  <2>8. HandIsLast'
    <3> SUFFICES ASSUME NEW b \in Consumers, NEW e \in cur'[b]
                 PROVE  offset'[History[e].key] >= 1 /\ log[History[e].key][offset'[History[e].key]] = e
      BY <1>a DEF HandIsLast
    <3>1. b = c /\ e = u
      BY <2>2, <2>5
    <3> QED BY <3>1, <2>2, <2>3, <2>4
  <2>9. Drained'
    <3> SUFFICES ASSUME NEW q \in Keys, NEW i \in 1..offset'[q], Projects(log[q][i])
                 PROVE  \/ log[q][i] \in consumed
                        \/ i = offset'[q] /\ \E b \in Consumers : log[q][i] \in cur'[b]
      BY <1>a, <2>1 DEF Drained
    <3>1. CASE i \in 1..offset[q]
      BY <1>a, <2>2, <3>1 DEF OrderInv, Drained
    <3>2. CASE i \notin 1..offset[q]
      <4>1. q = k /\ i = offset[k] + 1
        BY <2>3, <3>2
      <4> QED BY <4>1, <2>3, <2>4, <2>5
    <3> QED BY <3>1, <3>2
  <2> QED BY <2>1, <2>6, <2>7, <2>8, <2>9, <1>c DEF OrderInv
<1>3. ASSUME NEW c \in Consumers, NEW e \in cur[c], MarkNew(c, e) PROVE OrderInv'
  <2>1. /\ UNCHANGED store /\ UNCHANGED <<offset, cur>> /\ e \notin consumed /\ phase[c] = "mark"
        /\ consumed' = consumed \cup {e} /\ phase' = [phase EXCEPT ![c] = "apply"]
    BY <1>3 DEF MarkNew, IdKnown, store
  <2>2. /\ e \in Events /\ cur[c] = {e} /\ phase'[c] = "apply" /\ c = Reader
        /\ \A b \in Consumers : b # c => cur[b] = {}
    BY <1>a, <1>b, <2>1 DEF TypeOK, OrderInv, OneReader
  <2>3. OneReader' /\ NoneHit' /\ HandIsLast' /\ Drained'
    BY <1>a, <2>1 DEF OrderInv, OneReader, NoneHit, HandIsLast, Drained
  <2>4. ReadPast(e)
    <3>1. /\ offset[History[e].key] >= 1 /\ log[History[e].key][offset[History[e].key]] = e
          /\ offset[History[e].key] \in Nat
      BY <1>a, <1>b, <2>2 DEF OrderInv, HandIsLast, TypeOK, Keys
    <3> QED BY <3>1 DEF ReadPast
  <2>5. MarkedIsRead'
    BY <1>a, <2>1, <2>4 DEF OrderInv, MarkedIsRead, ReadPast
  <2>6. HandIsNewest'
    <3> SUFFICES ASSUME NEW b \in Consumers, NEW x \in cur[b], NEW d \in consumed',
                        History[d].key = History[x].key, d # x
                 PROVE  d < x
      BY <2>1 DEF HandIsNewest
    <3>1. x = e /\ d \in consumed
      BY <2>1, <2>2
    <3> QED BY <3>1, <1>a, <2>1, NewestIsMarked
  <2> QED BY <2>1, <2>3, <2>5, <2>6, <1>c DEF OrderInv
<1>4. ASSUME NEW c \in Consumers, NEW e \in cur[c], MarkDuplicate(c, e) \/ SkipUnresolved(c, e) PROVE OrderInv'
  <2>1. /\ UNCHANGED store /\ UNCHANGED <<offset, consumed>> /\ Drop(c) /\ e \in consumed
    BY <1>4, <1>b DEF MarkDuplicate, IdKnown, SkipUnresolved, store, TypeOK
  <2> QED BY <1>a, <2>1, <1>c, DropKeepsOrder DEF OrderInv
<1>5. ASSUME NEW c \in Consumers, NEW e \in cur[c], Apply(c, e) PROVE OrderInv'
  <2>1. /\ UNCHANGED <<offset, consumed>> /\ Drop(c) /\ e \in consumed /\ phase[c] = "apply"
        /\ Records(e) /\ InTx(e) /\ e \in Events
    BY <1>5, <1>b DEF Apply, TypeOK
  <2>2. OneReader' /\ NoneHit' /\ HandIsLast' /\ MarkedIsRead' /\ Drained' /\ HandIsNewest'
    BY <1>a, <2>1, DropKeepsOrder
  <2>3. AppliedInOrder' /\ Measured'
    <3>1. e \notin processed
      BY <2>1 DEF DeliveryInv, HandIsFresh
    <3>2. Recording(e)
      BY <2>1, <3>1, TxEffect
    <3> QED BY <1>a, <2>1, <3>2, AppliedStep, MeasuredStep
  <2> QED BY <2>2, <2>3 DEF OrderInv
<1> QED BY <1>a, <1>1, <1>2, <1>3, <1>4, <1>5 DEF Step

\* With one completion per task and station, and a claim before it: while nothing
\* is overtaken, rebalanced or hit by a fault, every completion in the read model
\* was measured from its station's latest claim of that task; expired claims that
\* nobody deletes and old claims delivered again do not distort the average
\* (ApplyTaskClaimed, ApplyTaskCompleted).
THEOREM CycleTimesAreExact ==
    ASSUME OneCompletion, ClaimedFirst
    PROVE  Spec => []CycleTimesExact
<1> DEFINE Inv == DeliveryInv /\ StoreInv /\ CalmOrder
<1>1. Init => Inv
  BY DeliveryInit, StoreInit, OrderInit DEF CalmOrder
<1>2. Inv /\ [Next]_vars => Inv'
  <2> SUFFICES ASSUME Inv, [Next]_vars PROVE Inv'
    OBVIOUS
  <2>1. DeliveryInv'
    BY DeliveryNext
  <2>2. StoreInv'
    BY StoreNext
  <2>3. CalmOrder'
    BY OrderNext DEF CalmOrder
  <2> QED BY <2>1, <2>2, <2>3
<1>3. Inv => CycleTimesExact
  BY DEF CalmOrder, OrderInv, Measured, Done, CycleTimesExact
<1> HIDE DEF Inv
<1> QED BY <1>1, <1>2, <1>3, PTL DEF Spec
=============================================================================
