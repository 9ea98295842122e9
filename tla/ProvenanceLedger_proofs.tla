---------------------- MODULE ProvenanceLedger_proofs ----------------------
(***************************************************************************)
(* The ledger for every set of strings, documents and budgets: its indexes *)
(* are complete, its false positives have a reason, its account is exact,  *)
(* and it is the session ledger the runner relies on.                      *)
(*                                                                         *)
(* The account is a sum over finite sets.  What such a sum is follows by   *)
(* induction, which is stated over a SET of numbers or of subsets, so that *)
(* no theorem with an operator parameter is needed: a counterexample would *)
(* have a minimal one, since < is well founded on the natural numbers.     *)
(***************************************************************************)
EXTENDS ProvenanceLedger, FiniteSetTheorems, WellFoundedInduction, TLAPS

---------------------------------------------------------------------------
(* Sums over finite sets. *)

\* one step of the recursion behind MapThenSumSet
Step(f, g, s) ==
  IF s = {} THEN 0
  ELSE LET x == CHOOSE x \in s : TRUE IN f[x] + g[s \ {x}]

\* g[s] is the sum of f over s, for every subset s of S
IsSum(g, f, S) == g = [s \in SUBSET S |-> Step(f, g, s)]

(* Induction over the natural numbers, for a set.                          *)
LEMMA SetInduction ==
  ASSUME NEW P, 0 \in P, \A n \in Nat : n \in P => n + 1 \in P
  PROVE  \A n \in Nat : n \in P
<1> DEFINE R == OpToRel(<, Nat)
           T == Nat \ P
<1> SUFFICES ASSUME T # {} PROVE FALSE
  OBVIOUS
<1>1. IsWellFoundedOn(R, Nat)
  BY NatLessThanWellFounded
<1>2. \E x \in T : \A y \in T : ~(<<y, x>> \in R)
  <2> HIDE DEF R, T
  <2> T \subseteq Nat
    BY DEF T
  <2> QED BY <1>1, WFMin
<1>3. PICK x \in T : \A y \in T : ~(<<y, x>> \in R)
  BY <1>2
<1>4. x # 0 /\ x \in Nat
  OBVIOUS
<1>5. x - 1 \in Nat /\ (x - 1) + 1 = x
  BY <1>4
<1>6. x - 1 \in T
  BY <1>5
<1>7. <<x - 1, x>> \in R
  BY <1>4, <1>5 DEF OpToRel
<1> QED BY <1>3, <1>6, <1>7

(* The library's sum is the value of such a function, if there is one.     *)
LEMMA TotalIsSum ==
  ASSUME NEW f, NEW S, NEW g, IsSum(g, f, S)
  PROVE  \E h : IsSum(h, f, S) /\ Total(f, S) = h[S]
<1> DEFINE iter == CHOOSE h : h = [s \in SUBSET S |-> Step(f, h, s)]
<1>1. iter = [s \in SUBSET S |-> Step(f, iter, s)]
  BY DEF IsSum
<1>2. Total(f, S) = iter[S]
  BY DEF Total, MapThenSumSet, MapThenFoldSet, Step
<1> QED BY <1>1, <1>2 DEF IsSum

(* Induction over the subsets of a finite set.                             *)
LEMMA SubsetInduction ==
  ASSUME NEW S, IsFiniteSet(S), NEW W,
         {} \in W,
         \A s \in SUBSET S : s # {} /\ (\A x \in s : s \ {x} \in W) => s \in W
  PROVE  \A s \in SUBSET S : s \in W
<1> DEFINE P == {n \in Nat : \A s \in SUBSET S : Cardinality(s) = n => s \in W}
<1>1. \A s \in SUBSET S : IsFiniteSet(s) /\ Cardinality(s) \in Nat
  BY FS_Subset, FS_CardinalityType
<1>2. 0 \in P
  BY <1>1, FS_EmptySet
<1>3. ASSUME NEW n \in Nat, n \in P PROVE n + 1 \in P
  <2> SUFFICES ASSUME NEW s \in SUBSET S, Cardinality(s) = n + 1
               PROVE  s \in W
    OBVIOUS
  <2>1. s # {}
    BY <1>1, FS_EmptySet
  <2>2. ASSUME NEW x \in s PROVE s \ {x} \in W
    <3>1. Cardinality(s \ {x}) = n
      BY <1>1, FS_RemoveElement
    <3> QED BY <1>3, <3>1
  <2> QED BY <2>1, <2>2
<1>4. \A n \in Nat : n \in P
  <2> HIDE DEF P
  <2> QED BY <1>2, <1>3, SetInduction
<1> QED BY <1>1, <1>4

(* There is one: larger and larger subsets are given their value.          *)
LEMMA SumExists ==
  ASSUME NEW f, NEW S, IsFiniteSet(S)
  PROVE  \E g : IsSum(g, f, S)
<1> DEFINE Upto(g, n) == \A s \in SUBSET S :
                           Cardinality(s) <= n => g[s] = Step(f, g, s)
           P == {n \in Nat : \E g : Upto(g, n)}
<1>1. \A s \in SUBSET S : IsFiniteSet(s) /\ Cardinality(s) \in Nat
  BY FS_Subset, FS_CardinalityType
<1>2. 0 \in P
  <2>1. \A s \in SUBSET S : Cardinality(s) <= 0 => s = {}
    BY <1>1, FS_EmptySet
  <2>2. Upto([s \in SUBSET S |-> 0], 0)
    BY <2>1 DEF Step
  <2> QED BY <2>2
<1>3. ASSUME NEW n \in Nat, n \in P PROVE n + 1 \in P
  <2>1. PICK g : Upto(g, n)
    BY <1>3
  <2> DEFINE h == [s \in SUBSET S |-> Step(f, g, s)]
  <2>2. ASSUME NEW s \in SUBSET S, Cardinality(s) <= n + 1
        PROVE  Step(f, h, s) = Step(f, g, s)
    <3>1. CASE s = {}
      BY <3>1 DEF Step
    <3>2. CASE s # {}
      <4> DEFINE x == CHOOSE x \in s : TRUE
      <4>1. x \in s
        BY <3>2
      <4>2. s \ {x} \in SUBSET S /\ Cardinality(s \ {x}) <= n
        <5> HIDE DEF x
        <5>1. Cardinality(s \ {x}) = Cardinality(s) - 1
          BY <1>1, <4>1, FS_RemoveElement
        <5> QED BY <1>1, <2>2, <5>1
      <4>3. h[s \ {x}] = g[s \ {x}]
        BY <2>1, <4>2
      <4> QED BY <3>2, <4>3 DEF Step
    <3> QED BY <3>1, <3>2
  <2>3. Upto(h, n + 1)
    BY <2>2
  <2> HIDE DEF h
  <2> QED BY <2>3
<1>4. \A n \in Nat : n \in P
  <2> HIDE DEF P
  <2> QED BY <1>2, <1>3, SetInduction
<1>5. PICK g : Upto(g, Cardinality(S))
  <2>1. Cardinality(S) \in P
    BY <1>1, <1>4
  <2> QED BY <2>1
<1> DEFINE h == [s \in SUBSET S |-> Step(f, g, s)]
<1>6. \A s \in SUBSET S : Cardinality(s) <= Cardinality(S)
  BY FS_Subset
<1>7. \A s \in SUBSET S : h[s] = g[s]
  BY <1>5, <1>6
<1>8. \A s \in SUBSET S : Step(f, h, s) = Step(f, g, s)
  <2> SUFFICES ASSUME NEW s \in SUBSET S, s # {}
               PROVE  Step(f, h, s) = Step(f, g, s)
    BY DEF Step
  <2> DEFINE x == CHOOSE x \in s : TRUE
  <2>1. s \ {x} \in SUBSET S
    OBVIOUS
  <2> QED BY <1>7, <2>1 DEF Step
<1>9. IsSum(h, f, S)
  BY <1>8 DEF IsSum
<1> QED BY <1>9

(* Its values are numbers, and any element may be taken out first.         *)
LEMMA SumTakesOut ==
  ASSUME NEW S, IsFiniteSet(S), NEW f, \A t \in S : f[t] \in Nat,
         NEW g, IsSum(g, f, S), NEW s \in SUBSET S
  PROVE  /\ g[s] \in Nat
         /\ g[{}] = 0
         /\ \A x \in s : g[s] = f[x] + g[s \ {x}]
<1> DEFINE N == {u \in SUBSET S : g[u] \in Nat}
           W == {u \in SUBSET S : \A x \in u : g[u] = f[x] + g[u \ {x}]}
<1>1. \A u \in SUBSET S : g[u] = Step(f, g, u)
  BY DEF IsSum
<1>2. g[{}] = 0
  <2>1. g[{}] = Step(f, g, {})
    BY <1>1
  <2>2. Step(f, g, {}) = 0
    BY DEF Step
  <2> QED BY <2>1, <2>2
<1>3. \A u \in SUBSET S : u # {} => \E y \in u : g[u] = f[y] + g[u \ {y}]
  BY <1>1 DEF Step
<1>4. \A u \in SUBSET S : u \in N
  <2>1. {} \in N
    BY <1>2
  <2>2. ASSUME NEW u \in SUBSET S, u # {}, \A x \in u : u \ {x} \in N
        PROVE  u \in N
    <3>1. PICK y \in u : g[u] = f[y] + g[u \ {y}]
      BY <1>3, <2>2
    <3>2. f[y] \in Nat /\ g[u \ {y}] \in Nat
      BY <2>2
    <3> QED BY <3>1, <3>2
  <2> HIDE DEF N
  <2> QED BY <2>1, <2>2, SubsetInduction
<1>5. ASSUME NEW u \in SUBSET S, u # {}, \A x \in u : u \ {x} \in W
      PROVE  u \in W
  <2>1. PICK y \in u : g[u] = f[y] + g[u \ {y}]
    BY <1>3, <1>5
  <2>2. ASSUME NEW x \in u, x # y PROVE g[u] = f[x] + g[u \ {x}]
    <3> DEFINE v == (u \ {y}) \ {x}
    <3>1. g[u \ {y}] = f[x] + g[v]
      BY <1>5, <2>2
    <3>2. g[u \ {x}] = f[y] + g[(u \ {x}) \ {y}]
      BY <1>5, <2>2
    <3>3. v = (u \ {x}) \ {y} /\ v \in SUBSET S
      OBVIOUS
    <3>4. f[x] \in Nat /\ f[y] \in Nat /\ g[v] \in Nat
      BY <1>4, <3>3
    <3> HIDE DEF v
    <3> QED BY <2>1, <3>1, <3>2, <3>3, <3>4
  <2> QED BY <2>1, <2>2
<1>6. \A u \in SUBSET S : u \in W
  <2>1. {} \in W
    OBVIOUS
  <2> HIDE DEF W
  <2> QED BY <1>5, <2>1, SubsetInduction
<1> QED BY <1>2, <1>4, <1>6

(* Sums over a set and over a larger one agree.                            *)
LEMMA SumsAgree ==
  ASSUME NEW S, IsFiniteSet(S), NEW f, \A t \in S : f[t] \in Nat,
         NEW R \in SUBSET S, NEW g, IsSum(g, f, S), NEW h, IsSum(h, f, R)
  PROVE  g[R] = h[R]
<1> DEFINE W == {u \in SUBSET R : g[u] = h[u]}
<1>1. IsFiniteSet(R)
  BY FS_Subset
<1>2. {} \in W
  BY <1>1, SumTakesOut
<1>3. ASSUME NEW u \in SUBSET R, u # {}, \A x \in u : u \ {x} \in W
      PROVE  u \in W
  <2>1. PICK x \in u : TRUE
    BY <1>3
  <2>2. g[u] = f[x] + g[u \ {x}]
    BY SumTakesOut
  <2>3. h[u] = f[x] + h[u \ {x}]
    BY <1>1, SumTakesOut
  <2> QED BY <1>3, <2>2, <2>3
<1>4. \A u \in SUBSET R : u \in W
  <2> HIDE DEF W
  <2> QED BY <1>1, <1>2, <1>3, SubsetInduction
<1> QED BY <1>4

(* The sum of the empty set is 0, and any element may be taken out.        *)
LEMMA TotalTakesOut ==
  ASSUME NEW S, IsFiniteSet(S), NEW f, \A t \in S : f[t] \in Nat
  PROVE  /\ Total(f, S) \in Nat
         /\ Total(f, {}) = 0
         /\ \A x \in S : Total(f, S) = f[x] + Total(f, S \ {x})
<1>1. ASSUME NEW R \in SUBSET S
      PROVE  \E h : IsSum(h, f, R) /\ Total(f, R) = h[R]
  <2>1. IsFiniteSet(R)
    BY FS_Subset
  <2> QED BY <2>1, SumExists, TotalIsSum
<1>2. PICK g : IsSum(g, f, S) /\ Total(f, S) = g[S]
  BY <1>1
<1>3. ASSUME NEW R \in SUBSET S PROVE Total(f, R) = g[R]
  <2>1. PICK h : IsSum(h, f, R) /\ Total(f, R) = h[R]
    BY <1>1
  <2>2. g[R] = h[R]
    BY <1>2, <2>1, SumsAgree
  <2> QED BY <2>1, <2>2
<1>4. /\ g[S] \in Nat
      /\ g[{}] = 0
      /\ \A x \in S : g[S] = f[x] + g[S \ {x}]
  BY <1>2, SumTakesOut
<1>5. Total(f, {}) = g[{}] /\ \A x \in S : Total(f, S \ {x}) = g[S \ {x}]
  BY <1>3
<1> QED BY <1>2, <1>4, <1>5

(* Sums over disjoint sets add up.                                         *)
LEMMA TotalOfUnion ==
  ASSUME NEW S, NEW T, IsFiniteSet(S), IsFiniteSet(T), S \cap T = {},
         NEW f, \A t \in S \cup T : f[t] \in Nat
  PROVE  Total(f, S \cup T) = Total(f, S) + Total(f, T)
<1> DEFINE W == {u \in SUBSET T : Total(f, S \cup u) = Total(f, S) + Total(f, u)}
<1>1. \A u \in SUBSET T : IsFiniteSet(u) /\ IsFiniteSet(S \cup u)
  BY FS_Subset, FS_Union
<1>2. \A u \in SUBSET T : Total(f, u) \in Nat /\ Total(f, S \cup u) \in Nat
  BY <1>1, TotalTakesOut
<1>3. Total(f, S) \in Nat /\ Total(f, {}) = 0
  BY TotalTakesOut
<1>4. {} \in W
  BY <1>3
<1>5. ASSUME NEW u \in SUBSET T, u # {}, \A x \in u : u \ {x} \in W
      PROVE  u \in W
  <2>1. PICK x \in u : TRUE
    BY <1>5
  <2>2. (S \cup u) \ {x} = S \cup (u \ {x})
    OBVIOUS
  <2>3. Total(f, S \cup u) = f[x] + Total(f, S \cup (u \ {x}))
    <3> DEFINE v == S \cup u
    <3>1. x \in v /\ (\A t \in v : f[t] \in Nat) /\ IsFiniteSet(v)
      BY <1>1
    <3>2. Total(f, v) = f[x] + Total(f, v \ {x})
      <4> HIDE DEF v
      <4> QED BY <3>1, TotalTakesOut
    <3> QED BY <2>2, <3>2
  <2>4. Total(f, u) = f[x] + Total(f, u \ {x})
    BY <1>1, TotalTakesOut
  <2>5. Total(f, S \cup (u \ {x})) = Total(f, S) + Total(f, u \ {x})
    BY <1>5
  <2>6. f[x] \in Nat /\ Total(f, u \ {x}) \in Nat
    BY <1>2
  <2> QED BY <1>3, <2>3, <2>4, <2>5, <2>6
<1>6. \A u \in SUBSET T : u \in W
  <2> HIDE DEF W
  <2> QED BY <1>4, <1>5, SubsetInduction
<1> QED BY <1>6

(* The sum over a larger set is no smaller.                                *)
LEMMA TotalGrows ==
  ASSUME NEW S, NEW T, IsFiniteSet(T), S \subseteq T,
         NEW f, \A t \in T : f[t] \in Nat
  PROVE  Total(f, S) <= Total(f, T)
<1>1. IsFiniteSet(S) /\ IsFiniteSet(T \ S)
  BY FS_Subset
<1>2. T = S \cup (T \ S) /\ S \cap (T \ S) = {}
  OBVIOUS
<1>3. Total(f, T) = Total(f, S) + Total(f, T \ S)
  BY <1>1, <1>2, TotalOfUnion
<1>4. Total(f, S) \in Nat /\ Total(f, T \ S) \in Nat
  BY <1>1, TotalTakesOut
<1> QED BY <1>3, <1>4

(* Nor is the sum of larger numbers.                                       *)
LEMMA TotalOfLarger ==
  ASSUME NEW S, IsFiniteSet(S), NEW f, NEW g,
         \A t \in S : f[t] \in Nat /\ g[t] \in Nat /\ f[t] <= g[t]
  PROVE  Total(f, S) <= Total(g, S)
<1> DEFINE W == {u \in SUBSET S : Total(f, u) <= Total(g, u)}
<1>1. \A u \in SUBSET S : IsFiniteSet(u)
  BY FS_Subset
<1>2. \A u \in SUBSET S : Total(f, u) \in Nat /\ Total(g, u) \in Nat
  BY <1>1, TotalTakesOut
<1>3. {} \in W
  <2>1. Total(f, {}) = 0 /\ Total(g, {}) = 0
    BY TotalTakesOut
  <2> QED BY <2>1
<1>4. ASSUME NEW u \in SUBSET S, u # {}, \A x \in u : u \ {x} \in W
      PROVE  u \in W
  <2>1. PICK x \in u : TRUE
    BY <1>4
  <2>2. /\ Total(f, u) = f[x] + Total(f, u \ {x})
        /\ Total(g, u) = g[x] + Total(g, u \ {x})
    <3>1. IsFiniteSet(u) /\ \A t \in u : f[t] \in Nat /\ g[t] \in Nat
      BY <1>1
    <3>2. Total(f, u) = f[x] + Total(f, u \ {x})
      BY <3>1, TotalTakesOut
    <3>3. Total(g, u) = g[x] + Total(g, u \ {x})
      BY <3>1, TotalTakesOut
    <3> QED BY <3>2, <3>3
  <2>3. Total(f, u \ {x}) <= Total(g, u \ {x})
    BY <1>4
  <2>4. Total(f, u \ {x}) \in Nat /\ Total(g, u \ {x}) \in Nat
    BY <1>2
  <2>5. f[x] \in Nat /\ g[x] \in Nat /\ f[x] <= g[x]
    OBVIOUS
  <2>6. Total(f, u) <= Total(g, u)
    BY <2>2, <2>3, <2>4, <2>5
  <2> QED BY <2>6
<1>5. \A u \in SUBSET S : u \in W
  <2> HIDE DEF W
  <2> QED BY <1>3, <1>4, SubsetInduction
<1> QED BY <1>5

---------------------------------------------------------------------------
(* The indexes are complete. *)

\* everything a recorded result carries is in the stores
Retained ==
  \A d \in recorded :
    /\ d \in Documents
    /\ Leaves(d) \subseteq exact
    /\ d.containers \subseteq containers
    /\ Searchable(d) \subseteq blobs

\* the canonical index covers a blob, or the ledger knows that it does not
Covered(t) ==
  IF t \in Overlong
  THEN /\ incomplete
       /\ \/ asciiIncomplete
          \/ Skeleton[t] # NoText /\ Skeleton[t] \in canonBlobs
  ELSE Canon[t] \in canonBlobs

IndexInv == Retained /\ \A t \in blobs : Covered(t)

(* A commit retains the whole result and covers each new blob; what was    *)
(* retained and covered before stays so.                                   *)
LEMMA CommitIndexes ==
  ASSUME IndexInv, NEW d \in Documents, NEW cut \in Cuts(d), Commit(d, cut)
  PROVE  IndexInv'
<1>1. /\ exact' = exact \cup NewExact(d)
      /\ containers' = containers \cup NewContainers(d)
      /\ blobs' = blobs \cup NewBlobs(d)
      /\ canonBlobs' = canonBlobs \cup Canonicals(d, cut)
      /\ recorded' = recorded \cup {d}
  BY DEF Commit
<1>2. \A t \in NewBlobs(d) \cap Overlong :
         t \notin cut => Skeleton[t] # NoText
  BY DEF Cuts
<1>3. Retained'
  BY <1>1 DEF IndexInv, Retained, NewExact, NewContainers, NewBlobs, Leaves,
              Searchable, HasRiskForm
<1>4. ASSUME NEW t \in blobs PROVE Covered(t)'
  <2>1. Covered(t)
    BY DEF IndexInv
  <2>2. /\ incomplete => incomplete'
        /\ asciiIncomplete => asciiIncomplete'
        /\ canonBlobs \subseteq canonBlobs'
    BY <1>1 DEF Commit
  <2> QED
    BY <2>1, <2>2 DEF Covered
<1>5. ASSUME NEW t \in NewBlobs(d) PROVE Covered(t)'
  <2>1. CASE t \notin Overlong
    BY <1>1, <1>5, <2>1 DEF Covered, Canonicals
  <2>2. CASE t \in Overlong
    <3>1. incomplete'
      BY <1>5, <2>2 DEF Commit
    <3>2. CASE t \in cut
      <4>1. asciiIncomplete'
        BY <3>2 DEF Commit
      <4> QED
        BY <2>2, <3>1, <4>1 DEF Covered
    <3>3. CASE t \notin cut
      <4>1. Skeleton[t] # NoText
        BY <1>2, <1>5, <2>2, <3>3
      <4>2. Skeleton[t] \in canonBlobs'
        BY <1>1, <1>5, <2>2, <3>3 DEF Canonicals
      <4> QED
        BY <2>2, <3>1, <4>1, <4>2 DEF Covered
    <3> QED
      BY <3>2, <3>3
  <2> QED
    BY <2>1, <2>2
<1> QED
  BY <1>1, <1>3, <1>4, <1>5 DEF IndexInv

(* A string that derives from a recorded result is recognised.             *)
LEMMA DerivedIsTainted ==
  ASSUME IndexInv, NEW d \in recorded, NEW v, Derived(v, d)
  PROVE  TaintedText(v)
<1>1. CASE v \in d.texts \cup d.keys
  BY <1>1 DEF IndexInv, Retained, Leaves, TaintedText
<1>2. CASE /\ Strip[v] \in RiskShaped
           /\ \E t \in Searchable(d) : <<Strip[v], t>> \in Contains
  BY <1>2 DEF IndexInv, Retained, TaintedText
<1>3. ASSUME Canon[Strip[v]] \in RiskShaped, NEW t \in Searchable(d),
             <<Canon[Strip[v]], Canon[t]>> \in Contains
      PROVE  TaintedText(v)
  <2> DEFINE c == Canon[Strip[v]]
  <2>1. Covered(t)
    BY DEF IndexInv, Retained
  <2>2. CASE t \notin Overlong
    BY <1>3, <2>1, <2>2 DEF Covered, TaintedText
  <2>3. CASE t \in Overlong /\ c \notin Ascii
    BY <1>3, <2>1, <2>3 DEF Covered, TaintedText
  <2>4. CASE t \in Overlong /\ c \in Ascii /\ asciiIncomplete
    BY <1>3, <2>4 DEF TaintedText
  <2>5. CASE t \in Overlong /\ c \in Ascii /\ ~asciiIncomplete
    <3>1. Skeleton[t] # NoText /\ Skeleton[t] \in canonBlobs
      BY <2>1, <2>5 DEF Covered
    <3>2. <<c, Skeleton[t]>> \in Contains
      BY <1>3, <2>5, <3>1, SkeletonAssumption
    <3> QED
      BY <1>3, <3>1, <3>2 DEF TaintedText
  <2> QED
    BY <2>2, <2>3, <2>4, <2>5
<1> QED
  BY <1>1, <1>2, <1>3 DEF Derived

(* The indexes are complete in every reachable state.                      *)
THEOREM IndexIsComplete == Spec => []IndexInv
<1>1. Init => IndexInv
  BY DEF Init, IndexInv, Retained
<1>2. IndexInv /\ [Next]_vars => IndexInv'
  <2> SUFFICES ASSUME IndexInv, [Next]_vars PROVE IndexInv'
    OBVIOUS
  <2>1. ASSUME NEW d \in Documents, NEW cut \in Cuts(d), Commit(d, cut)
        PROVE  IndexInv'
    BY <2>1, CommitIndexes
  <2>2. ASSUME UNCHANGED <<stores, recorded>> PROVE IndexInv'
    BY <2>2 DEF stores, IndexInv, Retained, Covered, Leaves, Searchable,
                HasRiskForm
  <2>3. ASSUME NEW d \in Documents, NEW cut \in Cuts(d), Overflow(d, cut)
        PROVE  IndexInv'
    BY <2>2, <2>3 DEF Overflow
  <2>4. CASE UNCHANGED vars
    BY <2>2, <2>4 DEF vars
  <2> QED
    BY <2>1, <2>3, <2>4 DEF Next
<1> QED
  BY <1>1, <1>2, PTL DEF Spec

(* Whatever lexically derives from any recorded result is tainted, however *)
(* the results were ordered and budgeted.                                  *)
THEOREM NoTaintIsMissed == Spec => []NothingIsMissed
<1>1. IndexInv => NothingIsMissed
  <2> SUFFICES ASSUME IndexInv, NEW d \in recorded, NEW q \in Documents,
                      CarriesDerived(q, d)
               PROVE  Recognised(q)
    BY DEF NothingIsMissed, IsTainted, Matched
  <2>1. /\ Leaves(d) \subseteq exact
        /\ d.containers \subseteq containers
    BY DEF IndexInv, Retained
  <2>2. \A v : Derived(v, d) => TaintedText(v)
    BY DerivedIsTainted
  <2> QED
    BY <2>1, <2>2 DEF CarriesDerived, Recognised, Leaves
<1> QED
  BY <1>1, IndexIsComplete, PTL

---------------------------------------------------------------------------
(* The false-positive surface. *)

\* everything in the stores came out of a recorded result
Traced ==
  /\ \A x \in exact : \E d \in recorded : x \in Leaves(d)
  /\ \A c \in containers : \E d \in recorded : c \in d.containers
  /\ \A b \in blobs : \E d \in recorded : b \in Searchable(d)
  /\ \A b \in canonBlobs : \E d \in recorded : \E t \in Searchable(d) :
       t \notin Overlong => b = Canon[t]
  /\ incomplete \/ asciiIncomplete =>
       \E d \in recorded : Searchable(d) \cap Overlong # {}
  /\ recorded \subseteq Documents

(* A commit adds to the stores only what its result carries.               *)
LEMMA CommitTraces ==
  ASSUME Traced, NEW d \in Documents, NEW cut \in Cuts(d), Commit(d, cut)
  PROVE  Traced'
<1>1. /\ exact' = exact \cup NewExact(d)
      /\ containers' = containers \cup NewContainers(d)
      /\ blobs' = blobs \cup NewBlobs(d)
      /\ canonBlobs' = canonBlobs \cup Canonicals(d, cut)
      /\ incomplete' = (incomplete \/ NewBlobs(d) \cap Overlong # {})
      /\ asciiIncomplete' = (asciiIncomplete \/ cut # {})
      /\ recorded' = recorded \cup {d}
  BY DEF Commit
<1>2. cut \subseteq NewBlobs(d) \cap Overlong
  BY DEF Cuts
<1>3. NewBlobs(d) \subseteq Searchable(d)
  BY DEF NewBlobs
<1>4. \A x \in exact' : \E e \in recorded' : x \in Leaves(e)
  BY <1>1 DEF Traced, NewExact
<1>5. \A c \in containers' : \E e \in recorded' : c \in e.containers
  BY <1>1 DEF Traced, NewContainers
<1>6. \A b \in blobs' : \E e \in recorded' : b \in Searchable(e)
  BY <1>1, <1>3 DEF Traced
<1>7. \A b \in canonBlobs' : \E e \in recorded' : \E t \in Searchable(e) :
        t \notin Overlong => b = Canon[t]
  <2>1. \A b \in Canonicals(d, cut) : \E t \in Searchable(d) :
          t \notin Overlong => b = Canon[t]
    BY <1>3 DEF Canonicals
  <2> QED BY <1>1, <2>1 DEF Traced
<1>8. incomplete' \/ asciiIncomplete' =>
        \E e \in recorded' : Searchable(e) \cap Overlong # {}
  BY <1>1, <1>2, <1>3 DEF Traced
<1>9. recorded' \subseteq Documents
  BY <1>1 DEF Traced
<1> QED
  BY <1>4, <1>5, <1>6, <1>7, <1>8, <1>9
     DEF Traced, Leaves, Searchable, HasRiskForm

\* what may make the ledger recognise the string v without a false alarm
HasReason(v) ==
  \/ \E d \in recorded : Derived(v, d)
  \/ v \in Overlong
  \/ /\ Canon[Strip[v]] \in RiskShaped
     /\ \E d \in recorded : Searchable(d) \cap Overlong # {}

(* A string is recognised because it derives from a result, or because an  *)
(* overlong string stands in the way of telling.                           *)
LEMMA TaintedHasReason ==
  ASSUME Traced, NEW v \in Texts, TaintedText(v)
  PROVE  HasReason(v)
<1> DEFINE c == Canon[Strip[v]]
<1>1. CASE v \in Overlong
  BY <1>1 DEF HasReason
<1>2. CASE v \in exact
  <2>1. PICK d \in recorded : v \in Leaves(d)
    BY <1>2 DEF Traced
  <2>2. v \in d.texts \cup d.keys
    <3>1. d \in Documents
      BY DEF Traced
    <3>2. d.atoms \subseteq Atoms
      BY <3>1, TextAssumption DEF IsDocument
    <3> QED BY <2>1, <3>2, TextAssumption DEF Leaves
  <2> QED BY <2>2 DEF HasReason, Derived
<1>3. CASE Strip[v] \in RiskShaped /\ \E b \in blobs : <<Strip[v], b>> \in Contains
  BY <1>3 DEF Traced, HasReason, Derived
<1>4. ASSUME c \in RiskShaped, NEW b \in canonBlobs, <<c, b>> \in Contains
      PROVE  HasReason(v)
  <2>1. PICK d \in recorded : \E t \in Searchable(d) :
           t \notin Overlong => b = Canon[t]
    BY DEF Traced
  <2> QED BY <1>4, <2>1 DEF HasReason, Derived
<1>5. CASE c \in RiskShaped /\ (incomplete \/ asciiIncomplete)
  BY <1>5 DEF Traced, HasReason
<1> QED
  BY <1>1, <1>2, <1>3, <1>4, <1>5 DEF TaintedText

(* While the session is open a value is tainted only if it derives from a  *)
(* result, is itself too long to read, or is an address that an overlong   *)
(* result may hide.                                                        *)
THEOREM TaintIsExplained == Spec => []TaintHasAReason
<1>1. Init => Traced
  BY DEF Init, Traced
<1>2. Traced /\ [Next]_vars => Traced'
  <2> SUFFICES ASSUME Traced, [Next]_vars PROVE Traced'
    OBVIOUS
  <2>1. ASSUME NEW d \in Documents, NEW cut \in Cuts(d), Commit(d, cut)
        PROVE  Traced'
    BY <2>1, CommitTraces
  <2>2. ASSUME UNCHANGED <<stores, recorded>> PROVE Traced'
    BY <2>2 DEF stores, Traced, Leaves, Searchable, HasRiskForm
  <2>3. ASSUME NEW d \in Documents, NEW cut \in Cuts(d), Overflow(d, cut)
        PROVE  Traced'
    BY <2>2, <2>3 DEF Overflow
  <2>4. CASE UNCHANGED vars
    BY <2>2, <2>4 DEF vars
  <2> QED
    BY <2>1, <2>3, <2>4 DEF Next
<1>3. Traced => TaintHasAReason
  <2> SUFFICES ASSUME Traced, NEW q \in Documents, Recognised(q)
               PROVE  \/ \E d \in recorded : CarriesDerived(q, d)
                      \/ (q.texts \cup q.keys) \cap Overlong # {}
                      \/ /\ \E t \in q.texts \cup q.keys :
                              Canon[Strip[t]] \in RiskShaped
                         /\ \E d \in recorded : Searchable(d) \cap Overlong # {}
    BY DEF TaintHasAReason, IsTainted, Matched
  <2>1. IsDocument(q) /\ \A d \in recorded : IsDocument(d)
    BY TextAssumption DEF Traced
  <2>2. CASE q.atoms \cap exact # {}
    <3>1. PICK a \in q.atoms \cap exact : TRUE
      BY <2>2
    <3>2. PICK d \in recorded : a \in Leaves(d)
      BY DEF Traced
    <3>3. a \in d.atoms
      BY <2>1, <3>2, TextAssumption DEF IsDocument, Leaves
    <3> QED BY <3>3 DEF CarriesDerived
  <2>3. CASE q.containers \cap containers # {}
    BY <2>3 DEF Traced, CarriesDerived
  <2>4. ASSUME NEW t \in q.texts, TaintedText(t)
        PROVE  HasReason(t)
    BY <2>1, <2>4, TaintedHasReason DEF IsDocument
  <2>5. ASSUME NEW k \in q.keys, k \in exact
        PROVE  \E d \in recorded : k \in d.texts \cup d.keys
    <3>1. PICK d \in recorded : k \in Leaves(d)
      BY <2>5 DEF Traced
    <3> QED BY <2>1, <3>1, TextAssumption DEF IsDocument, Leaves
  <2>6. ASSUME NEW k \in q.keys, HasRiskForm(k), TaintedText(k)
        PROVE  HasReason(k)
    BY <2>1, <2>6, TaintedHasReason DEF IsDocument
  <2> QED
    BY <2>2, <2>3, <2>4, <2>5, <2>6 DEF Recognised, CarriesDerived, HasReason
<1> QED
  BY <1>1, <1>2, <1>3, PTL DEF Spec

---------------------------------------------------------------------------
(* The byte counter and the budgets. *)

StoresFinite ==
  /\ IsFiniteSet(exact) /\ IsFiniteSet(containers)
  /\ IsFiniteSet(blobs) /\ IsFiniteSet(canonBlobs)

UsageInv == TypeOK /\ StoresFinite /\ UsageIsExact

(* The image of a finite set is finite.                                    *)
LEMMA ImageIsFinite ==
  ASSUME NEW S, IsFiniteSet(S), NEW f
  PROVE  IsFiniteSet({f[t] : t \in S})
<1> DEFINE T == {f[t] : t \in S}
           g == [t \in S |-> f[t]]
<1>1. g \in Surjection(S, T)
  BY DEF Surjection
<1> QED BY <1>1, FS_Surjection

(* The parts of a result, and what is new in it, are finite.               *)
LEMMA NewIsFinite ==
  ASSUME TypeOK, NEW d \in Documents, NEW cut \in Cuts(d)
  PROVE  /\ NewExact(d) \subseteq Texts \cup Atoms
         /\ NewContainers(d) \subseteq Containers
         /\ NewBlobs(d) \subseteq (exact \cup NewExact(d)) \cap Texts
         /\ Canonicals(d, cut) \subseteq Texts
         /\ IsFiniteSet(NewExact(d)) /\ IsFiniteSet(NewContainers(d))
         /\ IsFiniteSet(NewBlobs(d)) /\ IsFiniteSet(Canonicals(d, cut))
<1>1. IsDocument(d)
  BY TextAssumption
<1> DEFINE all == d.texts \cup d.keys \cup d.atoms \cup d.containers
<1>2. IsFiniteSet(all)
  BY <1>1 DEF IsDocument
<1>3. /\ NewExact(d) \in SUBSET all
      /\ NewContainers(d) \in SUBSET all
      /\ NewBlobs(d) \in SUBSET all
  BY DEF NewExact, Leaves, NewContainers, NewBlobs, Searchable
<1>4. \A S \in SUBSET all : IsFiniteSet(S)
  <2> HIDE DEF all
  <2> QED BY <1>2, FS_Subset
<1> DEFINE plain == NewBlobs(d) \ Overlong
           folded == (NewBlobs(d) \cap Overlong) \ cut
           images == {Canon[t] : t \in plain} \cup {Skeleton[t] : t \in folded}
<1>5. IsFiniteSet(plain) /\ IsFiniteSet(folded)
  BY <1>3, <1>4
<1>6. IsFiniteSet(images)
  <2>1. IsFiniteSet({Canon[t] : t \in plain})
    <3> HIDE DEF plain
    <3> QED BY <1>5, ImageIsFinite
  <2>2. IsFiniteSet({Skeleton[t] : t \in folded})
    <3> HIDE DEF folded
    <3> QED BY <1>5, ImageIsFinite
  <2> QED BY <2>1, <2>2, FS_Union
<1>7. Canonicals(d, cut) \in SUBSET images
  BY DEF Canonicals
<1>8. IsFiniteSet(Canonicals(d, cut))
  <2> HIDE DEF images
  <2> QED BY <1>6, <1>7, FS_Subset
<1>9. \A t \in folded : Skeleton[t] \in Texts
  BY TextAssumption DEF Cuts
<1>10. \A t \in plain : Canon[t] \in Texts
  BY <1>1, TextAssumption DEF IsDocument, NewBlobs, Searchable
<1>11. Canonicals(d, cut) \subseteq Texts
  BY <1>7, <1>9, <1>10
<1>12. /\ NewExact(d) \subseteq Texts \cup Atoms
       /\ NewContainers(d) \subseteq Containers
       /\ NewBlobs(d) \subseteq (exact \cup NewExact(d)) \cap Texts
  BY <1>1 DEF IsDocument, NewExact, NewContainers, NewBlobs, Searchable, Leaves
<1> QED
  BY <1>3, <1>4, <1>8, <1>11, <1>12

(* Sizes are numbers, and so are their sums.                               *)
LEMMA SizeOfTexts ==
  ASSUME NEW S \in SUBSET Texts, IsFiniteSet(S)
  PROVE  Total(Size, S) \in Nat /\ \A t \in S : Size[t] \in Nat
<1>1. \A t \in S : Size[t] \in Nat
  BY TextAssumption
<1> QED
  BY <1>1, TotalTakesOut

(* Sums and counts of a store and of what is new to it add up.             *)
LEMMA SizesAdd ==
  ASSUME NEW S \in SUBSET Texts, NEW T \in SUBSET Texts,
         IsFiniteSet(S), IsFiniteSet(T), S \cap T = {}
  PROVE  Total(Size, S \cup T) = Total(Size, S) + Total(Size, T)
<1>1. \A t \in S \cup T : Size[t] \in Nat
  BY TextAssumption
<1> QED
  BY <1>1, TotalOfUnion

(* So do the numbers of entries.                                           *)
LEMMA CountsAdd ==
  ASSUME NEW S, NEW T, IsFiniteSet(S), IsFiniteSet(T), S \cap T = {}
  PROVE  /\ IsFiniteSet(S \cup T)
         /\ Cardinality(S \cup T) = Cardinality(S) + Cardinality(T)
         /\ Cardinality(S) \in Nat /\ Cardinality(T) \in Nat
<1>1. Cardinality(S \cap T) = 0
  BY FS_EmptySet
<1>2. Cardinality(S) \in Nat /\ Cardinality(T) \in Nat
  BY FS_CardinalityType
<1>3. /\ IsFiniteSet(S \cup T)
      /\ Cardinality(S \cup T)
           = Cardinality(S) + Cardinality(T) - Cardinality(S \cap T)
  BY FS_Union
<1> QED
  BY <1>1, <1>2, <1>3

(* A commit charges exactly what it adds.                                  *)
LEMMA CommitCharges ==
  ASSUME UsageInv, NEW d \in Documents, NEW cut \in Cuts(d), Commit(d, cut)
  PROVE  UsageInv'
<1>1. /\ exact' = exact \cup NewExact(d)
      /\ containers' = containers \cup NewContainers(d)
      /\ blobs' = blobs \cup NewBlobs(d)
      /\ canonBlobs' = canonBlobs \cup Canonicals(d, cut)
      /\ utf8' = utf8 + NewBytes(d, cut)
      /\ version' = version + 1
      /\ recorded' = recorded \cup {d}
      /\ saturated' = saturated
      /\ Entries + NewEntries(d, cut) <= MaxEntries
      /\ utf8 + NewBytes(d, cut) <= MaxBytes
  BY DEF Commit, Fits
<1>2. TypeOK /\ StoresFinite /\ UsageIsExact
  BY DEF UsageInv
<1>3. /\ NewExact(d) \subseteq Texts \cup Atoms
      /\ NewContainers(d) \subseteq Containers
      /\ NewBlobs(d) \subseteq (exact \cup NewExact(d)) \cap Texts
      /\ Canonicals(d, cut) \subseteq Texts
      /\ IsFiniteSet(NewExact(d)) /\ IsFiniteSet(NewContainers(d))
      /\ IsFiniteSet(NewBlobs(d)) /\ IsFiniteSet(Canonicals(d, cut))
  BY <1>2, NewIsFinite
<1>4. /\ exact \cap NewExact(d) = {}
      /\ containers \cap NewContainers(d) = {}
      /\ blobs \cap NewBlobs(d) = {}
      /\ canonBlobs \cap Canonicals(d, cut) = {}
  BY DEF NewExact, NewContainers, NewBlobs, Canonicals
<1>5. /\ StoresFinite'
      /\ Cardinality(exact') = Cardinality(exact) + Cardinality(NewExact(d))
      /\ Cardinality(containers')
           = Cardinality(containers) + Cardinality(NewContainers(d))
      /\ Cardinality(blobs') = Cardinality(blobs) + Cardinality(NewBlobs(d))
      /\ Cardinality(canonBlobs')
           = Cardinality(canonBlobs) + Cardinality(Canonicals(d, cut))
      /\ Cardinality(containers) \in Nat
      /\ Cardinality(NewContainers(d)) \in Nat
  BY <1>1, <1>2, <1>3, <1>4, CountsAdd DEF StoresFinite
<1>6. Entries' <= MaxEntries
  <2>1. /\ Cardinality(exact) \in Nat /\ Cardinality(NewExact(d)) \in Nat
        /\ Cardinality(blobs) \in Nat /\ Cardinality(NewBlobs(d)) \in Nat
        /\ Cardinality(canonBlobs) \in Nat
        /\ Cardinality(Canonicals(d, cut)) \in Nat
    BY <1>2, <1>3, FS_CardinalityType DEF StoresFinite
  <2>2. Entries' = Entries + NewEntries(d, cut)
    BY <1>5, <2>1 DEF Entries, NewEntries
  <2> QED BY <1>1, <2>2
<1> DEFINE oldText == exact \cap Texts
           newText == NewExact(d) \cap Texts
<1>7. /\ oldText \in SUBSET Texts /\ newText \in SUBSET Texts
      /\ IsFiniteSet(oldText) /\ IsFiniteSet(newText)
      /\ oldText \cap newText = {}
      /\ exact' \cap Texts = oldText \cup newText
  BY <1>1, <1>2, <1>3, <1>4, FS_Intersection DEF StoresFinite
<1>8. Total(Size, exact' \cap Texts)
        = Total(Size, oldText) + Total(Size, newText)
  <2> HIDE DEF oldText, newText
  <2> QED BY <1>7, SizesAdd
<1>9. /\ Total(Size, blobs') = Total(Size, blobs) + Total(Size, NewBlobs(d))
      /\ Total(Size, canonBlobs')
           = Total(Size, canonBlobs) + Total(Size, Canonicals(d, cut))
  BY <1>1, <1>2, <1>3, <1>4, SizesAdd DEF TypeOK, StoresFinite
<1>10. /\ Total(Size, oldText) \in Nat /\ Total(Size, newText) \in Nat
       /\ Total(Size, blobs) \in Nat /\ Total(Size, NewBlobs(d)) \in Nat
       /\ Total(Size, canonBlobs) \in Nat
       /\ Total(Size, Canonicals(d, cut)) \in Nat
  <2> HIDE DEF oldText, newText
  <2> QED BY <1>2, <1>3, <1>7, SizeOfTexts DEF TypeOK, StoresFinite
<1>11. /\ TokenSize * Cardinality(containers')
            = TokenSize * Cardinality(containers)
                + TokenSize * Cardinality(NewContainers(d))
       /\ TokenSize * Cardinality(containers) \in Nat
       /\ TokenSize * Cardinality(NewContainers(d)) \in Nat
  BY <1>5, TextAssumption
<1>12. NewBytes(d, cut) \in Nat /\ utf8 \in Nat
  BY <1>2, <1>10, <1>11 DEF NewBytes, TypeOK
<1>13. UsageIsExact'
  <2>1. utf8' = Total(Size, exact' \cap Texts) + Total(Size, blobs')
                  + Total(Size, canonBlobs')
                  + TokenSize * Cardinality(containers')
    BY <1>1, <1>2, <1>8, <1>9, <1>10, <1>11 DEF UsageIsExact, NewBytes
  <2> QED BY <1>1, <1>6, <2>1 DEF UsageIsExact
<1>14. TypeOK'
  <2>1. incomplete' \in BOOLEAN /\ asciiIncomplete' \in BOOLEAN
    BY <1>2 DEF Commit, TypeOK
  <2> QED BY <1>1, <1>2, <1>3, <1>12, <2>1 DEF TypeOK
<1> QED BY <1>5, <1>13, <1>14 DEF UsageInv

(* Every step keeps the account.                                           *)
LEMMA UsageNext ==
  ASSUME UsageInv, [Next]_vars
  PROVE  UsageInv'
<1>1. ASSUME NEW d \in Documents, NEW cut \in Cuts(d), Commit(d, cut)
      PROVE  UsageInv'
  BY <1>1, CommitCharges
<1>2. ASSUME UNCHANGED <<stores, recorded>>,
             saturated' \in BOOLEAN, version' \in Nat
      PROVE  UsageInv'
  BY <1>2 DEF stores, UsageInv, TypeOK, StoresFinite, UsageIsExact, Entries
<1>3. ASSUME NEW d \in Documents, NEW cut \in Cuts(d), Overflow(d, cut)
      PROVE  UsageInv'
  <2>1. saturated' \in BOOLEAN /\ version' \in Nat
    BY <1>3 DEF Overflow, UsageInv, TypeOK
  <2> QED BY <1>2, <1>3, <2>1 DEF Overflow
<1>4. CASE UNCHANGED vars
  BY <1>2, <1>4 DEF vars, UsageInv, TypeOK
<1> QED
  BY <1>1, <1>3, <1>4 DEF Next

(* The account of the empty ledger.                                        *)
LEMMA UsageInit ==
  ASSUME Init
  PROVE  UsageInv
<1>1. IsFiniteSet({}) /\ Cardinality({}) = 0
  BY FS_EmptySet
<1>2. Total(Size, {}) = 0
  BY <1>1, TotalTakesOut
<1>3. exact \cap Texts = {}
  BY DEF Init
<1>4. TypeOK
  BY DEF Init, TypeOK
<1>5. StoresFinite
  BY <1>1 DEF Init, StoresFinite
<1>6. TokenSize * 0 = 0 /\ MaxBytes \in Nat /\ MaxEntries \in Nat
  BY TextAssumption
<1>7. UsageIsExact
  BY <1>1, <1>2, <1>3, <1>6 DEF Init, UsageIsExact, Entries
<1> QED BY <1>4, <1>5, <1>7 DEF UsageInv

(* The account is kept in every reachable state.                           *)
LEMMA UsageInvariance == Spec => []UsageInv
  BY UsageInit, UsageNext, PTL DEF Spec

(* TypeOK, for every set of strings and documents.                         *)
THEOREM TypesAreKept == Spec => []TypeOK
<1>1. UsageInv => TypeOK
  BY DEF UsageInv
<1> QED BY <1>1, UsageInvariance, PTL

(* The running byte counter is exactly what the stores hold, and both      *)
(* budgets are kept, however often strings are returned again.             *)
THEOREM AccountIsExact == Spec => []UsageIsExact
<1>1. UsageInv => UsageIsExact
  BY DEF UsageInv
<1> QED BY <1>1, UsageInvariance, PTL

---------------------------------------------------------------------------
(* The ledger is the session ledger the runner is built on. *)

(* Products of counts grow with them.                                      *)
LEMMA ProductsGrow ==
  ASSUME NEW a \in Nat, NEW b \in Nat, NEW n \in Nat, a <= b
  PROVE  a * n <= b * n /\ a * n \in Nat /\ b * n \in Nat
<1>1. PICK c \in Nat : b = a + c
  <2>1. b - a \in Nat /\ b = a + (b - a)
    OBVIOUS
  <2> QED BY <2>1
<1>2. b * n = a * n + c * n /\ c * n \in Nat /\ a * n \in Nat
  BY <1>1
<1> QED BY <1>2

(* The more a search has to compare, the more it costs.                    *)
LEMMA SearchCostGrows ==
  ASSUME NEW v \in Texts, NEW A, NEW B \in SUBSET Texts, A \subseteq B,
         IsFiniteSet(B)
  PROVE  /\ SearchCost(v, A) \in Nat /\ SearchCost(v, B) \in Nat
         /\ SearchCost(v, A) <= SearchCost(v, B)
<1>1. /\ IsFiniteSet(A)
      /\ Cardinality(A) <= Cardinality(B)
      /\ Cardinality(A) \in Nat /\ Cardinality(B) \in Nat
  BY FS_Subset, FS_CardinalityType
<1>2. \A t \in B : Size[t] \in Nat
  BY TextAssumption
<1>3. /\ Total(Size, A) \in Nat /\ Total(Size, B) \in Nat
      /\ Total(Size, A) <= Total(Size, B)
  BY <1>1, <1>2, TotalGrows, TotalTakesOut
<1>4. Size[v] \in Nat
  BY TextAssumption
<1>5. /\ Cardinality(A) * Size[v] <= Cardinality(B) * Size[v]
      /\ Cardinality(A) * Size[v] \in Nat
      /\ Cardinality(B) * Size[v] \in Nat
  BY <1>1, <1>4, ProductsGrow
<1> QED BY <1>3, <1>4, <1>5 DEF SearchCost

\* what looking q up costs against these indexes
CostAgainst(q, A, C) ==
  Total([t \in Searchable(q) |->
           SearchCost(Strip[t], A) + SearchCost(Canon[Strip[t]], C)],
        Searchable(q))

(* The cost of looking a document up grows with the indexes.               *)
LEMMA LookupCostGrows ==
  ASSUME NEW q \in Documents, NEW A, NEW B \in SUBSET Texts,
         A \subseteq B, IsFiniteSet(B),
         NEW C, NEW D \in SUBSET Texts, C \subseteq D, IsFiniteSet(D)
  PROVE  /\ CostAgainst(q, A, C) \in Nat /\ CostAgainst(q, B, D) \in Nat
         /\ CostAgainst(q, A, C) <= CostAgainst(q, B, D)
<1> DEFINE f == [t \in Searchable(q) |->
                   SearchCost(Strip[t], A) + SearchCost(Canon[Strip[t]], C)]
           g == [t \in Searchable(q) |->
                   SearchCost(Strip[t], B) + SearchCost(Canon[Strip[t]], D)]
<1>1. Searchable(q) \subseteq Texts /\ IsFiniteSet(Searchable(q))
  <2>1. IsDocument(q)
    BY TextAssumption
  <2> DEFINE all == q.texts \cup q.keys \cup q.atoms \cup q.containers
  <2>2. IsFiniteSet(all) /\ Searchable(q) \in SUBSET all
    BY <2>1 DEF IsDocument, Searchable
  <2>3. IsFiniteSet(Searchable(q))
    <3> HIDE DEF all
    <3> QED BY <2>2, FS_Subset
  <2> QED BY <2>1, <2>3 DEF IsDocument, Searchable
<1>2. ASSUME NEW t \in Searchable(q)
      PROVE  f[t] \in Nat /\ g[t] \in Nat /\ f[t] <= g[t]
  <2>1. Strip[t] \in Texts /\ Canon[Strip[t]] \in Texts
    BY <1>1, TextAssumption
  <2>2. /\ SearchCost(Strip[t], A) \in Nat /\ SearchCost(Strip[t], B) \in Nat
        /\ SearchCost(Strip[t], A) <= SearchCost(Strip[t], B)
    BY <2>1, SearchCostGrows
  <2>3. /\ SearchCost(Canon[Strip[t]], C) \in Nat
        /\ SearchCost(Canon[Strip[t]], D) \in Nat
        /\ SearchCost(Canon[Strip[t]], C) <= SearchCost(Canon[Strip[t]], D)
    BY <2>1, SearchCostGrows
  <2> QED BY <2>2, <2>3
<1>3. /\ Total(f, Searchable(q)) \in Nat /\ Total(g, Searchable(q)) \in Nat
      /\ Total(f, Searchable(q)) <= Total(g, Searchable(q))
  <2> HIDE DEF f, g
  <2> QED BY <1>1, <1>2, TotalTakesOut, TotalOfLarger
<1> QED BY <1>3 DEF CostAgainst

(* What a commit adds makes nothing clean.                                 *)
LEMMA CommitKeepsMatches ==
  ASSUME UsageInv, UsageInv', NEW d \in Documents, NEW cut \in Cuts(d),
         Commit(d, cut), NEW q \in Documents, Matched(q)
  PROVE  Matched(q)'
<1>1. /\ exact \subseteq exact' /\ containers \subseteq containers'
      /\ blobs \subseteq blobs' /\ canonBlobs \subseteq canonBlobs'
      /\ incomplete => incomplete'
      /\ asciiIncomplete => asciiIncomplete'
  BY DEF Commit
<1>2. \A t : TaintedText(t) => TaintedText(t)'
  BY <1>1 DEF TaintedText
<1>3. CASE Recognised(q)
  BY <1>1, <1>2, <1>3 DEF Recognised, HasRiskForm, Matched
<1>4. CASE TooCostly(q)
  <2>1. /\ blobs' \in SUBSET Texts /\ canonBlobs' \in SUBSET Texts
        /\ IsFiniteSet(blobs') /\ IsFiniteSet(canonBlobs')
    BY DEF UsageInv, TypeOK, StoresFinite
  <2>2. /\ LookupCost(q) \in Nat /\ LookupCost(q)' \in Nat
        /\ LookupCost(q) <= LookupCost(q)'
    <3>1. /\ LookupCost(q) = CostAgainst(q, blobs, canonBlobs)
          /\ LookupCost(q)' = CostAgainst(q, blobs', canonBlobs')
      BY DEF LookupCost, CostAgainst
    <3> QED BY <1>1, <2>1, <3>1, LookupCostGrows
  <2>3. MaxLookup \in Nat
    BY TextAssumption
  <2> QED
    BY <1>4, <2>2, <2>3 DEF TooCostly, Searchable, HasRiskForm, KeyWork, Matched
<1> QED BY <1>3, <1>4 DEF Matched

(* A result that was committed is recognised: the commit taints something. *)
LEMMA CommitRecognises ==
  ASSUME NEW d \in Documents, NEW cut \in Cuts(d), Commit(d, cut)
  PROVE  Matched(d)'
<1>1. /\ Leaves(d) \subseteq exact'
      /\ d.containers \subseteq containers'
  BY DEF Commit, NewExact, NewContainers
<1>2. d.texts \cup d.atoms \cup d.containers # {}
  BY TextAssumption DEF IsDocument
<1> QED
  BY <1>1, <1>2 DEF Leaves, Matched, Recognised, TaintedText

(* A step that leaves the stores alone changes no lookup.                  *)
LEMMA SameStoresSameMatches ==
  ASSUME UNCHANGED stores, NEW q
  PROVE  Matched(q)' = Matched(q)
  BY DEF stores, Matched, Recognised, TaintedText, HasRiskForm, TooCostly,
         LookupCost, Searchable, SearchCost, KeyWork

(* The ledger implements the session ledger: no lookup that was tainted    *)
(* turns clean, each commit opens one epoch, and the first failed write    *)
(* closes the session and forgets nothing.                                 *)
THEOREM LedgerIsSessionLedger == Spec => RefinesSessionLedger
<1> DEFINE matched == {q \in Documents : Matched(q)}
<1>1. Init => Session!Init
  BY DEF Init, Session!Init
<1>2. UsageInv /\ UsageInv' /\ [Next]_vars => [Session!Next]_(Session!vars)
  <2> SUFFICES ASSUME UsageInv, UsageInv', [Next]_vars
               PROVE  [Session!Next]_(Session!vars)
    OBVIOUS
  <2>1. ASSUME NEW d \in Documents, NEW cut \in Cuts(d), Commit(d, cut)
        PROVE  Session!Commit
    <3>1. matched \subseteq matched'
      BY <2>1, CommitKeepsMatches
    <3>2. d \in matched'
      BY <2>1, CommitRecognises
    <3>3. ~saturated /\ version' = version + 1 /\ saturated' = saturated
      BY <2>1 DEF Commit
    <3> QED BY <3>1, <3>2, <3>3 DEF Session!Commit
  <2>2. ASSUME NEW d \in Documents, NEW cut \in Cuts(d), Overflow(d, cut)
        PROVE  Session!Saturate
    <3>1. matched' = matched
      BY <2>2, SameStoresSameMatches DEF Overflow
    <3> QED BY <2>2, <3>1 DEF Overflow, Session!Saturate
  <2>3. ASSUME UNCHANGED vars PROVE UNCHANGED Session!vars
    <3>1. matched' = matched
      BY <2>3, SameStoresSameMatches DEF vars
    <3> QED BY <2>3, <3>1 DEF vars, Session!vars
  <2> QED BY <2>1, <2>2, <2>3 DEF Next, Session!Next
<1> QED
  BY <1>1, <1>2, UsageInvariance, PTL DEF Spec, RefinesSessionLedger, Session!Spec
=============================================================================
