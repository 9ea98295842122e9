----------------------- MODULE AuthorityReview_proofs -----------------------
(***************************************************************************)
(* Authority Diff decides what may merge without a person: what it lets    *)
(* pass admits no call that was not admitted before, for any documents,    *)
(* calls and limits, and however many proposals follow one another.  Its   *)
(* validator accepts every report the scanner writes, whatever the budget. *)
(***************************************************************************)
EXTENDS AuthorityReview, FiniteSetTheorems, WellFoundedInduction, TLAPS

---------------------------------------------------------------------------
(* Ranks. *)

(* The place of an element in one of the three-element orders.             *)
LEMMA RankOf ==
  ASSUME NEW x, NEW y, NEW z, x # y, y # z, x # z
  PROVE  /\ Rank(<<x, y, z>>, x) = 1
         /\ Rank(<<x, y, z>>, y) = 2
         /\ Rank(<<x, y, z>>, z) = 3
<1> DEFINE s == <<x, y, z>>
           At(v) == {i \in 1..Len(s) : s[i] = v}
<1>1. At(x) = {1} /\ At(y) = {2} /\ At(z) = {3}
  OBVIOUS
<1>2. ASSUME NEW v, NEW k \in 1..3, At(v) = {k}
      PROVE  Rank(s, v) = k
  <2>1. Min({k}) = k
    BY DEF Min
  <2>2. Rank(s, v) = Min(At(v))
    BY <1>2 DEF Rank, SelectInSeq
  <2> QED
    BY <1>2, <2>1, <2>2
<1> HIDE DEF At
<1> QED
  BY <1>1, <1>2

(* Who may move a bound, the caller first.                                 *)
LEMMA MutabilityRanks ==
  ASSUME NEW b, b.mutability \in ToSet(BoundMutability)
  PROVE  /\ MutabilityRank(b) \in 1..3
         /\ MutabilityRank(b) = 1 <=> b.mutability = "caller"
<1>1. b.mutability \in {"caller", "trusted_party", "immutable"}
  BY DEF BoundMutability, ToSet
<1> QED
  BY <1>1, RankOf DEF MutabilityRank, BoundMutability

(* The most restrictive policy and authority rank first.                   *)
LEMMA PolicyRanks ==
  ASSUME NEW p \in Policies
  PROVE  /\ Rank(PolicyRank, p) \in 1..3
         /\ Rank(PolicyRank, p) = 1 <=> p = "trusted_fixed"
         /\ \A q \in Policies : Rank(PolicyRank, p) = Rank(PolicyRank, q) => p = q
  BY RankOf DEF PolicyRank, Policies

LEMMA AuthorityRanks ==
  ASSUME NEW p \in ControlAuthorities
  PROVE  /\ Rank(AuthorityRank, p) \in 1..3
         /\ Rank(AuthorityRank, p) = 1 <=> p = "locked"
         /\ \A q \in ControlAuthorities :
              Rank(AuthorityRank, p) = Rank(AuthorityRank, q) => p = q
  BY RankOf DEF AuthorityRank, ControlAuthorities

(* A rank set that is not empty has a highest rank.                        *)
LEMMA HighestRank ==
  ASSUME NEW ranks \in SUBSET (1..3), ranks # {}
  PROVE  \E m \in ranks : \A x \in ranks : x <= m
<1>0. \A x \in ranks : x \in Int /\ (x = 1 \/ x = 2 \/ x = 3)
  <2>1. \A x \in ranks : x \in 1..3
    OBVIOUS
  <2> QED
    BY <2>1
<1>1. CASE 3 \in ranks
  BY <1>0, <1>1
<1>2. CASE 3 \notin ranks /\ 2 \in ranks
  BY <1>0, <1>2
<1>3. CASE 3 \notin ranks /\ 2 \notin ranks
  <2>1. ranks = {1}
    BY <1>0, <1>3
  <2> QED
    BY <2>1
<1> QED
  BY <1>1, <1>2, <1>3

(* If no rank lies below the one in its place, then for each of as many    *)
(* old ranks some new one is at least as high: the highest.                *)
LEMMA RanksRise ==
  ASSUME NEW old \in SUBSET (1..3), NEW new \in SUBSET (1..3),
         Cardinality(old) = Cardinality(new),
         \A step \in RankSteps(old, new) : step >= 0,
         NEW o \in old
  PROVE  \E n \in new : n >= o
<1>1. IsFiniteSet(old) /\ IsFiniteSet(new)
  <2>1. IsFiniteSet(1..3)
    <3>1. 1 \in Int /\ 3 \in Int
      OBVIOUS
    <3> QED
      BY ONLY <3>1, FS_Interval
  <2> QED
    BY <2>1, FS_Subset
<1>2. new # {}
  BY <1>1, FS_EmptySet
<1>3. PICK m \in old : \A x \in old : x <= m
  BY HighestRank
<1>4. PICK n \in new : \A x \in new : x <= n
  BY <1>2, HighestRank
<1>5. {r \in old : r <= m} = old /\ {r \in new : r <= n} = new
  BY <1>3, <1>4
<1>6. Place(m, old) = Place(n, new)
  BY <1>5 DEF Place
<1>7. n - m \in RankSteps(old, new)
  <2> DEFINE p == <<m, n>>
  <2>1. p \in {q \in old \X new : Place(q[1], old) = Place(q[2], new)}
    BY <1>6
  <2>2. n - m = p[2] - p[1]
    OBVIOUS
  <2> HIDE DEF p
  <2> QED
    BY <2>1, <2>2 DEF RankSteps
<1> QED
  BY <1>3, <1>7

(* The steps back are the steps there, the other way.                      *)
LEMMA RankStepsBack ==
  ASSUME NEW old \in SUBSET (1..3), NEW new \in SUBSET (1..3),
         NEW step \in RankSteps(new, old)
  PROVE  step \in Int /\ 0 - step \in RankSteps(old, new)
<1>1. PICK p \in new \X old : /\ Place(p[1], new) = Place(p[2], old)
                              /\ step = p[2] - p[1]
  BY DEF RankSteps
<1> DEFINE q == <<p[2], p[1]>>
<1>2. q \in {r \in old \X new : Place(r[1], old) = Place(r[2], new)}
  BY <1>1
<1>3. q[2] - q[1] = 0 - step /\ step \in Int
  <2>1. p[1] \in Int /\ p[2] \in Int
    <3>1. p[1] \in 1..3 /\ p[2] \in 1..3
      BY <1>1
    <3> QED
      BY <3>1
  <2>2. q[2] = p[1] /\ q[1] = p[2]
    OBVIOUS
  <2> QED
    BY <1>1, <2>1, <2>2
<1> HIDE DEF q
<1>4. q[2] - q[1] \in RankSteps(old, new)
  BY <1>2 DEF RankSteps
<1> QED
  BY <1>3, <1>4

---------------------------------------------------------------------------
(* Bounds. *)

Typed(bounds) == \A b \in bounds : b.mutability \in ToSet(BoundMutability)
Enforced(bounds) == {b \in bounds : b.status = "enforced"}
Protecting(bounds) == {b \in bounds : Protects(b)}

(* The enforced ranks of a source are ranks.                               *)
LEMMA EnforcedRanksAre ==
  ASSUME NEW bounds, Typed(bounds), NEW s
  PROVE  /\ EnforcedRanks(bounds, s) \in SUBSET (1..3)
         /\ \A b \in Enforced(bounds) :
              b.source = s => MutabilityRank(b) \in EnforcedRanks(bounds, s)
         /\ \A r \in EnforcedRanks(bounds, s) :
              \E b \in Enforced(bounds) : b.source = s /\ MutabilityRank(b) = r
  BY MutabilityRanks DEF EnforcedRanks, From, Typed, Enforced

(* What it means that only the mutability of the same bounds changed, and  *)
(* that it rose.                                                           *)
LEMMA Tightened ==
  ASSUME NEW before, NEW after, MutabilityShift(before, after) = "tightened"
  PROVE  /\ SourcesOf(Enforced(after)) = SourcesOf(Enforced(before))
         /\ \A s \in SourcesOf(Enforced(before)) :
              LET old == EnforcedRanks(before, s)
                  new == EnforcedRanks(after, s)
              IN /\ Cardinality(old) = Cardinality(new)
                 /\ \A step \in RankSteps(old, new) : step >= 0
         /\ \E s \in SourcesOf(Enforced(before)) :
              \E step \in RankSteps(EnforcedRanks(before, s),
                                    EnforcedRanks(after, s)) : step # 0
  BY DEF MutabilityShift, Enforced

(* The steps of bounds that rose one way are falls on the way back.        *)
LEMMA LoosenedBack ==
  ASSUME NEW before, NEW after, Typed(before), Typed(after),
         MutabilityShift(before, after) = "tightened"
  PROVE  MutabilityShift(after, before) = "loosened"
<1> DEFINE sources == SourcesOf(Enforced(before))
           there(s) == RankSteps(EnforcedRanks(before, s), EnforcedRanks(after, s))
           back(s) == RankSteps(EnforcedRanks(after, s), EnforcedRanks(before, s))
           steps == UNION {back(s) : s \in sources}
<1>1. /\ SourcesOf(Enforced(after)) = sources
      /\ \A s \in sources : /\ Cardinality(EnforcedRanks(after, s))
                                 = Cardinality(EnforcedRanks(before, s))
                            /\ \A step \in there(s) : step >= 0
      /\ \E s \in sources : \E step \in there(s) : step # 0
  BY Tightened
<1>2. ASSUME NEW s
      PROVE  /\ \A step \in back(s) : step \in Int /\ 0 - step \in there(s)
             /\ \A step \in there(s) : step \in Int /\ 0 - step \in back(s)
  <2>1. /\ EnforcedRanks(before, s) \in SUBSET (1..3)
        /\ EnforcedRanks(after, s) \in SUBSET (1..3)
    BY EnforcedRanksAre
  <2> QED
    BY <2>1, RankStepsBack
<1>3. \A step \in steps : step <= 0
  BY <1>1, <1>2
<1>4. ~(steps \subseteq {0})
  <2>1. PICK s \in sources : \E step \in there(s) : step # 0
    BY <1>1
  <2>2. PICK step \in there(s) : step # 0
    BY <2>1
  <2>3. 0 - step \in back(s) /\ 0 - step # 0
    BY <1>2, <2>2
  <2> QED
    BY <2>3
<1> HIDE DEF there
<1> QED
  BY <1>1, <1>3, <1>4 DEF MutabilityShift, Enforced

(* The two ways in which bounds can be an increase of protection.          *)
LEMMA BoundsProtection ==
  ASSUME NEW before, NEW after,
         BoundsClass(before, after) = "protection_increase"
  PROVE  /\ \A b \in before \cup after : b.status # "not_stated"
         /\ \/ /\ Protecting(before) \subseteq Protecting(after)
               /\ Protecting(before) # Protecting(after)
               /\ {b \in before : ~Protects(b)}
                      \ {u[1] : u \in Upgrades(before, after)}
                    = {b \in after : ~Protects(b)}
                        \ {u[2] : u \in Upgrades(before, after)}
            \/ /\ MutabilityShift(before, after) = "tightened"
               /\ ~(Protecting(before) \subseteq Protecting(after)
                      /\ Protecting(before) # Protecting(after))
               /\ ~(Protecting(after) \subseteq Protecting(before)
                      /\ Protecting(after) # Protecting(before))
  BY DEF BoundsClass, Protecting

(* An enforced bound is kept, or another of its source takes its place     *)
(* that needs at least the same authority to move.                         *)
LEMMA BoundsAreKept ==
  ASSUME NEW before, NEW after, Typed(before), Typed(after),
         BoundsClass(before, after) = "protection_increase",
         NEW b \in Enforced(before)
  PROVE  \E a \in Enforced(after) : /\ a.source = b.source
                                    /\ MutabilityRank(a) >= MutabilityRank(b)
<1> DEFINE upgrades == Upgrades(before, after)
<1>0. MutabilityRank(b) \in Int
  BY MutabilityRanks DEF Typed, Enforced
<1>1. CASE /\ Protecting(before) \subseteq Protecting(after)
           /\ {x \in before : ~Protects(x)} \ {u[1] : u \in upgrades}
                = {x \in after : ~Protects(x)} \ {u[2] : u \in upgrades}
  <2>1. CASE \E u \in upgrades : u[1] = b
    <3>1. PICK u \in upgrades : u[1] = b
      BY <2>1
    <3>2. /\ From(after, b.source) = {u[2]}
          /\ Protects(u[2])
          /\ MutabilityRank(u[2]) >= MutabilityRank(b)
      BY <3>1 DEF Upgrades
    <3> QED
      BY <3>2 DEF From, Protects, Enforced
  <2>2. CASE ~\E u \in upgrades : u[1] = b
    <3>1. b \in after
      BY <1>1, <2>2 DEF Protecting, Enforced
    <3> QED
      BY <1>0, <3>1 DEF Enforced
  <2> QED
    BY <2>1, <2>2
<1>2. CASE MutabilityShift(before, after) = "tightened"
  <2> DEFINE old == EnforcedRanks(before, b.source)
             new == EnforcedRanks(after, b.source)
  <2>1. b.source \in SourcesOf(Enforced(before))
    BY DEF SourcesOf
  <2>2. Cardinality(old) = Cardinality(new) /\ \A step \in RankSteps(old, new) : step >= 0
    BY <1>2, <2>1, Tightened
  <2>3. /\ old \in SUBSET (1..3) /\ new \in SUBSET (1..3)
        /\ MutabilityRank(b) \in old
    BY EnforcedRanksAre
  <2> HIDE DEF old, new
  <2>4. PICK r \in new : r >= MutabilityRank(b)
    BY <2>2, <2>3, RanksRise
  <2> QED
    BY <2>4, EnforcedRanksAre DEF new
<1> QED
  BY <1>1, <1>2, BoundsProtection

(* A protection of bounds, undone, is an increase of authority.            *)
LEMMA BoundsBack ==
  ASSUME NEW before, NEW after, Typed(before), Typed(after),
         BoundsClass(before, after) = "protection_increase"
  PROVE  BoundsClass(after, before) = "authority_increase"
<1>1. \A b \in after \cup before : b.status # "not_stated"
  BY BoundsProtection
<1>2. CASE /\ Protecting(before) \subseteq Protecting(after)
           /\ Protecting(before) # Protecting(after)
  BY <1>1, <1>2 DEF BoundsClass, Protecting
<1>3. CASE /\ MutabilityShift(before, after) = "tightened"
           /\ ~(Protecting(before) \subseteq Protecting(after)
                  /\ Protecting(before) # Protecting(after))
           /\ ~(Protecting(after) \subseteq Protecting(before)
                  /\ Protecting(after) # Protecting(before))
  <2>1. MutabilityShift(after, before) = "loosened"
    BY <1>3, LoosenedBack
  <2> QED
    BY <1>1, <1>3, <2>1 DEF BoundsClass, Protecting
<1> QED
  BY <1>2, <1>3, BoundsProtection

---------------------------------------------------------------------------
(* The changes of a tool, part by part. *)

OnlyProtects(changes) == \A c \in changes : c.class = "protection_increase"

IsRow(row) ==
  /\ row.policy \in Policies
  /\ {row.constraints.maximum, row.constraints.maxLength}
       \subseteq Int \cup {Absent}

IsDeclared(declared) ==
  declared.authority \in ControlAuthorities /\ Typed(ToSet(declared.bounds))

IsCase(case) ==
  case = [risk |-> case.risk, evidence |-> case.evidence,
          active |-> case.active, confirm |-> case.confirm]

IsBranches(branches) ==
  /\ branches = [selector |-> branches.selector, cases |-> branches.cases]
  /\ branches.cases = [v \in DOMAIN branches.cases |-> branches.cases[v]]
  /\ \A v \in DOMAIN branches.cases : IsCase(branches.cases[v])

\* what the diff needs to know of one tool in a report
IsToolReport(tool) ==
  /\ \A row \in ToSet(tool.arguments) : IsRow(row)
  /\ \A n \in DOMAIN tool.declared : IsDeclared(tool.declared[n])
  /\ tool.closes \in BOOLEAN /\ tool.confirm \in BOOLEAN
  /\ tool.branches # Absent => IsBranches(tool.branches)

(* A change of one part that only protects is of that class.               *)
LEMMA OnlyProtectsOne ==
  ASSUME NEW x, NEW y, NEW class, NEW kind, NEW t, NEW n,
         OnlyProtects(ChangeOf(x, y, Change(class, kind, t, n)))
  PROVE  x = y \/ class = "protection_increase"
  BY DEF OnlyProtects, ChangeOf, Change

(* Fields whose changes have no direction did not change.                  *)
LEMMA OnlyProtectsFields ==
  ASSUME NEW before, NEW after, NEW fields, NEW t, NEW n,
         OnlyProtects(ReviewChanges(before, after, fields, t, n)),
         NEW f \in fields
  PROVE  before[f] = after[f]
<1>1. ASSUME before[f] # after[f] PROVE FALSE
  <2>1. Change("review", f, t, n) \in ReviewChanges(before, after, fields, t, n)
    BY <1>1 DEF ReviewChanges
  <2>2. Change("review", f, t, n).class = "review"
    BY DEF Change
  <2> QED
    BY <2>1, <2>2 DEF OnlyProtects
<1> QED
  BY <1>1

(* The parts of a tool.                                                    *)
LEMMA ToolParts ==
  ASSUME NEW a, NEW b, OnlyProtects(ToolChanges(a, b))
  PROVE  /\ a.confirm = b.confirm \/ ~a.confirm
         /\ a.closes = b.closes
              \/ ClosureClass(a, b) = "protection_increase"
         /\ a.branches = b.branches
              \/ BranchClass(a.branches, b.branches) = "protection_increase"
         /\ \A n \in Exposed(a) \cup Exposed(b) :
              OnlyProtects(ArgumentChanges(a, b, a.name, n))
<1> DEFINE t == a.name
           names == UNION {Exposed(x) \cup DOMAIN x.unexposed : x \in {a, b}}
           c1 == ReviewChanges(a, b, ToolReviewFields, t, NoName)
           c2 == ChangeOf(a.confirm, b.confirm,
                   Change(ConfirmationClass(a, b), "confirmation_changed", t,
                          NoName))
           c3 == ChangeOf(a.closes, b.closes,
                   Change(ClosureClass(a, b), "unknown_arguments_changed", t,
                          NoName))
           c4 == ChangeOf(a.branches, b.branches,
                   Change(BranchClass(a.branches, b.branches),
                          "branch_risk_changed", t, NoName))
           c5 == UNION {ArgumentChanges(a, b, t, n) : n \in names}
<1>1. ToolChanges(a, b) = UNION {c1, c2, c3, c4, c5}
  BY DEF ToolChanges
<1> HIDE DEF c1, c2, c3, c4, c5
<1>2. /\ OnlyProtects(c2) /\ OnlyProtects(c3) /\ OnlyProtects(c4)
      /\ OnlyProtects(c5)
  BY <1>1 DEF OnlyProtects
<1>3. a.confirm = b.confirm \/ ConfirmationClass(a, b) = "protection_increase"
  BY <1>2, OnlyProtectsOne DEF c2
<1>4. a.closes = b.closes \/ ClosureClass(a, b) = "protection_increase"
  BY <1>2, OnlyProtectsOne DEF c3
<1>5. a.branches = b.branches
        \/ BranchClass(a.branches, b.branches) = "protection_increase"
  BY <1>2, OnlyProtectsOne DEF c4
<1>6. ASSUME NEW n \in Exposed(a) \cup Exposed(b)
      PROVE  OnlyProtects(ArgumentChanges(a, b, t, n))
  <2>1. n \in names
    OBVIOUS
  <2> HIDE DEF names
  <2> QED
    BY <1>2, <2>1 DEF c5, OnlyProtects
<1> QED
  BY <1>3, <1>4, <1>5, <1>6 DEF ConfirmationClass

(* What becomes of an argument.                                            *)
LEMMA ArgumentParts ==
  ASSUME NEW a, NEW b, NEW t, NEW n,
         OnlyProtects(ArgumentChanges(a, b, t, n))
  PROVE  /\ n \in Exposed(b) => n \in Exposed(a)
         /\ n \in Exposed(a) /\ n \in Exposed(b) =>
              OnlyProtects(ExposedChanges(a, b, t, n))
         /\ n \in Exposed(a) /\ n \notin Exposed(b) =>
              RemovalClass(b) = "protection_increase"
  BY DEF ArgumentChanges, OnlyProtects, Change

(* The parts of an argument that stays.                                    *)
LEMMA ExposedParts ==
  ASSUME NEW a, NEW b, NEW t, NEW n, OnlyProtects(ExposedChanges(a, b, t, n))
  PROVE  LET old == RowOf(a, n)
             new == RowOf(b, n)
             was == old.constraints
             is == new.constraints
         IN /\ \/ old.policy = new.policy
               \/ Ordered(Rank(PolicyRank, old.policy),
                          Rank(PolicyRank, new.policy)) = "protection_increase"
            /\ OnlyProtects(DeclaredChanges(a, b, t, n))
            /\ \/ was.maximum = is.maximum
               \/ LimitClass(was.maximum, is.maximum) = "protection_increase"
            /\ \/ was.maxLength = is.maxLength
               \/ LimitClass(was.maxLength, is.maxLength) = "protection_increase"
            /\ \/ was.enum = is.enum
               \/ EnumClass(was.enum, is.enum) = "protection_increase"
            /\ old.type = new.type
<1> DEFINE old == RowOf(a, n)
           new == RowOf(b, n)
           was == old.constraints
           is == new.constraints
           c1 == ChangeOf(old.policy, new.policy,
                   Change(Ordered(Rank(PolicyRank, old.policy),
                                  Rank(PolicyRank, new.policy)),
                          "inferred_policy_changed", t, n))
           c2 == DeclaredChanges(a, b, t, n)
           c3 == ChangeOf(was.maximum, is.maximum,
                   Change(LimitClass(was.maximum, is.maximum),
                          "maximum_changed", t, n))
           c4 == ChangeOf(was.maxLength, is.maxLength,
                   Change(LimitClass(was.maxLength, is.maxLength),
                          "max_length_changed", t, n))
           c5 == ChangeOf(was.enum, is.enum,
                   Change(EnumClass(was.enum, is.enum), "enum_changed", t, n))
           c6 == ReviewChanges(old, new, ArgumentReviewFields, t, n)
<1>1. ExposedChanges(a, b, t, n) = UNION {c1, c2, c3, c4, c5, c6}
  BY DEF ExposedChanges
<1> HIDE DEF c1, c2, c3, c4, c5, c6
<1>2. /\ OnlyProtects(c1) /\ OnlyProtects(c2) /\ OnlyProtects(c3)
      /\ OnlyProtects(c4) /\ OnlyProtects(c5) /\ OnlyProtects(c6)
  BY <1>1 DEF OnlyProtects
<1>3. \/ old.policy = new.policy
      \/ Ordered(Rank(PolicyRank, old.policy),
                 Rank(PolicyRank, new.policy)) = "protection_increase"
  BY <1>2, OnlyProtectsOne DEF c1
<1>4. \/ was.maximum = is.maximum
      \/ LimitClass(was.maximum, is.maximum) = "protection_increase"
  BY <1>2, OnlyProtectsOne DEF c3
<1>5. \/ was.maxLength = is.maxLength
      \/ LimitClass(was.maxLength, is.maxLength) = "protection_increase"
  BY <1>2, OnlyProtectsOne DEF c4
<1>6. \/ was.enum = is.enum
      \/ EnumClass(was.enum, is.enum) = "protection_increase"
  BY <1>2, OnlyProtectsOne DEF c5
<1>7. old["type"] = new["type"]
  <2>1. "type" \in ArgumentReviewFields
    BY DEF ArgumentReviewFields
  <2> QED
    BY <1>2, <2>1, OnlyProtectsFields DEF c6
<1> HIDE DEF old, new
<1> QED
  BY <1>2, <1>3, <1>4, <1>5, <1>6, <1>7 DEF c2, old, new

(* The parts of an argument's declaration.                                 *)
LEMMA DeclaredParts ==
  ASSUME NEW a, NEW b, NEW t, NEW n, OnlyProtects(DeclaredChanges(a, b, t, n)),
         n \in DOMAIN a.declared
  PROVE  LET old == a.declared[n]
             new == b.declared[n]
         IN /\ n \in DOMAIN b.declared
            /\ \/ old.authority = new.authority
               \/ Ordered(Rank(AuthorityRank, old.authority),
                          Rank(AuthorityRank, new.authority))
                    = "protection_increase"
            /\ \/ old.bounds = new.bounds
               \/ BoundsClass(ToSet(old.bounds), ToSet(new.bounds))
                    = "protection_increase"
<1> DEFINE old == a.declared[n]
           new == b.declared[n]
           c1 == ChangeOf(old.authority, new.authority,
                   Change(Ordered(Rank(AuthorityRank, old.authority),
                                  Rank(AuthorityRank, new.authority)),
                          "declared_authority_changed", t, n))
           c2 == ReviewChanges(old, new, {"evidence"}, t, n)
           c3 == ChangeOf(old.bounds, new.bounds,
                   Change(BoundsClass(ToSet(old.bounds), ToSet(new.bounds)),
                          "bounds_changed", t, n))
<1>1. n \in DOMAIN b.declared
  <2>1. ChangeOf(IsDeclaredIn(a, n), IsDeclaredIn(b, n),
                 Change("review", "declared_control", t, n))
          \subseteq DeclaredChanges(a, b, t, n)
    BY DEF DeclaredChanges
  <2>2. IsDeclaredIn(a, n) = IsDeclaredIn(b, n)
    BY <2>1 DEF ChangeOf, OnlyProtects, Change
  <2> QED
    BY <2>2 DEF IsDeclaredIn
<1>2. c1 \cup c3 \subseteq DeclaredChanges(a, b, t, n)
  BY <1>1 DEF DeclaredChanges, ControlOf, IsDeclaredIn
<1> HIDE DEF c1, c2, c3
<1>3. OnlyProtects(c1) /\ OnlyProtects(c3)
  BY <1>2 DEF OnlyProtects
<1>4. \/ old.authority = new.authority
      \/ Ordered(Rank(AuthorityRank, old.authority),
                 Rank(AuthorityRank, new.authority)) = "protection_increase"
  BY <1>3, OnlyProtectsOne DEF c1
<1>5. \/ old.bounds = new.bounds
      \/ BoundsClass(ToSet(old.bounds), ToSet(new.bounds))
           = "protection_increase"
  BY <1>3, OnlyProtectsOne DEF c3
<1> QED
  BY <1>1, <1>4, <1>5

---------------------------------------------------------------------------
(* What only protects admits nothing new. *)

(* A limit that only protects is at most what it was.                      *)
LEMMA LimitKept ==
  ASSUME NEW was \in Int \cup {Absent}, NEW is \in Int \cup {Absent},
         was = is \/ LimitClass(was, is) = "protection_increase",
         was # Absent
  PROVE  is # Absent /\ is <= was
  BY ReviewAssumption DEF LimitClass, Ordered

(* A value admitted by a row that only protects was admitted before.       *)
LEMMA ValueKept ==
  ASSUME NEW old, NEW new, IsRow(old), IsRow(new), NEW v \in Values,
         \/ old.constraints.maximum = new.constraints.maximum
         \/ LimitClass(old.constraints.maximum, new.constraints.maximum)
              = "protection_increase",
         \/ old.constraints.maxLength = new.constraints.maxLength
         \/ LimitClass(old.constraints.maxLength, new.constraints.maxLength)
              = "protection_increase",
         \/ old.constraints.enum = new.constraints.enum
         \/ EnumClass(old.constraints.enum, new.constraints.enum)
              = "protection_increase",
         old.type = new.type,
         AdmitsValue(new, v)
  PROVE  AdmitsValue(old, v)
<1> DEFINE was == old.constraints
           is == new.constraints
<1>1. was.enum # Absent => is.enum # Absent /\ is.enum \subseteq was.enum
  BY DEF EnumClass
<1>2. was.enum # Absent => v \in was.enum
  BY <1>1 DEF AdmitsValue
<1>3. Measure[v] \in Int
  BY ReviewAssumption
<1>4. ASSUME NEW limit \in {was.maximum, was.maxLength} \ {Absent}
      PROVE  Measure[v] <= limit
  <2>1. CASE limit = was.maximum
    <3>1. is.maximum # Absent /\ is.maximum <= was.maximum
      BY <2>1, LimitKept DEF IsRow
    <3>2. Measure[v] <= is.maximum
      BY <3>1 DEF AdmitsValue
    <3>3. is.maximum \in Int /\ was.maximum \in Int
      BY <2>1, <3>1 DEF IsRow
    <3> QED
      BY <1>3, <2>1, <3>1, <3>2, <3>3
  <2>2. CASE limit = was.maxLength
    <3>1. is.maxLength # Absent /\ is.maxLength <= was.maxLength
      BY <2>2, LimitKept DEF IsRow
    <3>2. Measure[v] <= is.maxLength
      BY <3>1 DEF AdmitsValue
    <3>3. is.maxLength \in Int /\ was.maxLength \in Int
      BY <2>2, <3>1 DEF IsRow
    <3> QED
      BY <1>3, <2>2, <3>1, <3>2, <3>3
  <2> QED
    BY <2>1, <2>2
<1> QED
  BY <1>2, <1>4 DEF AdmitsValue

(* Data that may fill an argument now could fill it before.                *)
LEMMA AuthorKept ==
  ASSUME NEW a, NEW b, NEW n, NEW t, IsToolReport(a), IsToolReport(b),
         IsRow(RowOf(a, n)), IsRow(RowOf(b, n)), RowOf(a, n).name = n,
         RowOf(b, n).name = n,
         OnlyProtects(ExposedChanges(a, b, t, n)), NEW author,
         AdmitsAuthor(b, RowOf(b, n), author)
  PROVE  AdmitsAuthor(a, RowOf(a, n), author)
<1> DEFINE old == RowOf(a, n)
           new == RowOf(b, n)
<1> SUFFICES ASSUME author = "data"
             PROVE  /\ old.policy # "trusted_fixed"
                    /\ n \in DOMAIN a.declared =>
                         a.declared[n].authority # "locked"
  BY DEF AdmitsAuthor
<1>1. \/ old.policy = new.policy
      \/ Ordered(Rank(PolicyRank, old.policy),
                 Rank(PolicyRank, new.policy)) = "protection_increase"
  BY ExposedParts
<1>2. new.policy # "trusted_fixed"
  BY DEF AdmitsAuthor
<1>3. /\ old.policy \in Policies /\ new.policy \in Policies
  BY DEF IsRow
<1> HIDE DEF old, new
<1>4. old.policy # "trusted_fixed"
  BY <1>1, <1>2, <1>3, PolicyRanks DEF Ordered
<1>5. ASSUME n \in DOMAIN a.declared
      PROVE  a.declared[n].authority # "locked"
  <2>1. /\ n \in DOMAIN b.declared
        /\ \/ a.declared[n].authority = b.declared[n].authority
           \/ Ordered(Rank(AuthorityRank, a.declared[n].authority),
                      Rank(AuthorityRank, b.declared[n].authority))
                = "protection_increase"
    BY <1>5, ExposedParts, DeclaredParts
  <2>2. b.declared[n].authority # "locked"
    BY <2>1 DEF AdmitsAuthor
  <2>3. /\ a.declared[n].authority \in ControlAuthorities
        /\ b.declared[n].authority \in ControlAuthorities
    BY <1>5, <2>1 DEF IsToolReport, IsDeclared
  <2> QED
    BY <2>1, <2>2, <2>3, AuthorityRanks DEF Ordered
<1> QED
  BY <1>4, <1>5

(* Whoever may move the bounds now could move them before.                 *)
LEMMA BoundsKept ==
  ASSUME NEW a, NEW b, NEW n, NEW t, IsToolReport(a), IsToolReport(b),
         OnlyProtects(ExposedChanges(a, b, t, n)), NEW call \in Calls,
         WithinBounds(b, n, call)
  PROVE  WithinBounds(a, n, call)
<1> SUFFICES ASSUME n \in DOMAIN a.declared,
                    NEW x \in ToSet(a.declared[n].bounds),
                    x.status = "enforced", x.source \in call.beyond
             PROVE  MutabilityRank(x) <= call.mover
  BY DEF WithinBounds
<1> DEFINE before == ToSet(a.declared[n].bounds)
           after == ToSet(b.declared[n].bounds)
<1>1. /\ n \in DOMAIN b.declared
      /\ \/ before = after
         \/ BoundsClass(before, after) = "protection_increase"
  BY ExposedParts, DeclaredParts
<1>2. Typed(before) /\ Typed(after)
  BY <1>1 DEF IsToolReport, IsDeclared
<1>3. \A y \in after : y.status = "enforced" /\ y.source \in call.beyond =>
                         MutabilityRank(y) <= call.mover
  BY <1>1 DEF WithinBounds
<1>4. x \in Enforced(before)
  BY DEF Enforced
<1> HIDE DEF before, after
<1>5. CASE before = after
  BY <1>3, <1>4, <1>5 DEF Enforced
<1>6. CASE BoundsClass(before, after) = "protection_increase"
  <2>1. PICK y \in Enforced(after) : /\ y.source = x.source
                                     /\ MutabilityRank(y) >= MutabilityRank(x)
    BY <1>2, <1>4, <1>6, BoundsAreKept
  <2>2. MutabilityRank(y) <= call.mover
    BY <1>3, <2>1 DEF Enforced
  <2>3. MutabilityRank(x) \in Int /\ MutabilityRank(y) \in Int
    <3>1. /\ x.mutability \in ToSet(BoundMutability)
          /\ y.mutability \in ToSet(BoundMutability)
      BY <1>2, <1>4 DEF Typed, Enforced
    <3> QED
      BY <3>1, MutabilityRanks
  <2>4. call.mover \in Int
    BY ReviewAssumption
  <2> QED
    BY <2>1, <2>2, <2>3, <2>4
<1> QED
  BY <1>1, <1>5, <1>6

(* The row of an exposed argument.                                         *)
LEMMA RowIsThere ==
  ASSUME NEW tool, NEW n \in Exposed(tool)
  PROVE  RowOf(tool, n) \in ToSet(tool.arguments) /\ RowOf(tool, n).name = n
<1>1. PICK row \in ToSet(tool.arguments) : row.name = n
  BY DEF Exposed
<1> QED
  BY <1>1 DEF RowOf

(* A branch that only protects takes and asks for no less than before.     *)
LEMMA CaseKept ==
  ASSUME NEW a, NEW b, IsToolReport(a), IsToolReport(b), NEW call,
         OnlyProtects(ToolChanges(a, b)),
         a.branches # Absent, AdmitsCase(b, call),
         DOMAIN call.args \cap Exposed(a) \subseteq Exposed(b)
  PROVE  AdmitsCase(a, call)
<1> DEFINE selector == a.branches.selector
           v == call.args[selector].value
           old == a.branches.cases[v]
           new == b.branches.cases[v]
<1>1. CASE a.branches = b.branches
  BY <1>1 DEF AdmitsCase
<1>2. CASE BranchClass(a.branches, b.branches) = "protection_increase"
  <2>1. /\ b.branches # Absent
        /\ b.branches.selector = selector
        /\ DOMAIN b.branches.cases = DOMAIN a.branches.cases
        /\ \A w \in DOMAIN a.branches.cases :
             /\ b.branches.cases[w].active \subseteq a.branches.cases[w].active
             /\ [b.branches.cases[w] EXCEPT !.active = {}]
                  = [a.branches.cases[w] EXCEPT !.active = {}]
    BY <1>2 DEF BranchClass
  <2>2. /\ selector \in DOMAIN call.args
        /\ v \in DOMAIN a.branches.cases
        /\ DOMAIN call.args \cap Exposed(b) \subseteq new.active
        /\ new.confirm => call.attended
    BY <2>1 DEF AdmitsCase
  <2>3. IsCase(old) /\ IsCase(new)
    BY <2>1, <2>2 DEF IsToolReport, IsBranches
  <2>4. /\ new.active \subseteq old.active
        /\ [new EXCEPT !.active = {}] = [old EXCEPT !.active = {}]
    BY <2>1, <2>2
  <2> HIDE DEF old, new
  <2>5. [new EXCEPT !.active = {}].confirm = new.confirm
        /\ [old EXCEPT !.active = {}].confirm = old.confirm
    BY <2>3 DEF IsCase
  <2>6. new.confirm = old.confirm
    BY <2>4, <2>5
  <2>7. DOMAIN call.args \cap Exposed(a) \subseteq old.active
    BY <2>2, <2>4
  <2> QED
    BY <2>2, <2>6, <2>7 DEF AdmitsCase, old
<1> QED
  BY <1>1, <1>2, ToolParts

(* A call admitted by a tool that only protects was admitted before.       *)
LEMMA ToolKept ==
  ASSUME NEW a, NEW b, IsToolReport(a), IsToolReport(b),
         OnlyProtects(ToolChanges(a, b)), NEW call \in Calls,
         AdmitsTool(b, call)
  PROVE  AdmitsTool(a, call)
<1>1. \A n \in Exposed(b) : n \in Exposed(a)
  BY ToolParts, ArgumentParts
<1>2. ASSUME NEW n \in DOMAIN call.args, n \in Exposed(a)
      PROVE  n \in Exposed(b)
  <2>1. ASSUME n \notin Exposed(b) PROVE FALSE
    <3>1. RemovalClass(b) = "protection_increase"
      BY <1>2, <2>1, ToolParts, ArgumentParts
    <3>2. b.closes
      BY <3>1 DEF RemovalClass
    <3> QED
      BY <2>1, <3>2 DEF AdmitsTool
  <2> QED
    BY <2>1
<1>3. IF a.branches # Absent THEN AdmitsCase(a, call)
      ELSE a.confirm => call.attended
  <2>1. CASE a.branches # Absent
    <3>1. b.branches # Absent
      BY <2>1, ToolParts DEF BranchClass
    <3>2. AdmitsCase(b, call)
      BY <3>1 DEF AdmitsTool
    <3> QED
      BY <1>2, <2>1, <3>2, CaseKept
  <2>2. CASE a.branches = Absent
    <3>1. b.branches = Absent
      BY <2>2, ToolParts DEF BranchClass
    <3>2. b.confirm => call.attended
      BY <3>1 DEF AdmitsTool
    <3> QED
      BY <2>2, <3>2, ToolParts
  <2> QED
    BY <2>1, <2>2
<1>4. ASSUME NEW n \in DOMAIN call.args, n \in Exposed(a)
      PROVE  /\ AdmitsValue(RowOf(a, n), call.args[n].value)
             /\ AdmitsAuthor(a, RowOf(a, n), call.args[n].author)
             /\ WithinBounds(a, n, call)
  <2>1. n \in Exposed(b)
    BY <1>2, <1>4
  <2>2. /\ AdmitsValue(RowOf(b, n), call.args[n].value)
        /\ AdmitsAuthor(b, RowOf(b, n), call.args[n].author)
        /\ WithinBounds(b, n, call)
    BY <2>1 DEF AdmitsTool
  <2>3. OnlyProtects(ExposedChanges(a, b, a.name, n))
    BY <1>4, <2>1, ToolParts, ArgumentParts
  <2>4. /\ IsRow(RowOf(a, n)) /\ IsRow(RowOf(b, n))
        /\ RowOf(a, n).name = n /\ RowOf(b, n).name = n
    BY <1>4, <2>1, RowIsThere DEF IsToolReport
  <2>5. call.args[n].value \in Values
    BY ReviewAssumption
  <2>6. AdmitsValue(RowOf(a, n), call.args[n].value)
    BY <2>2, <2>3, <2>4, <2>5, ExposedParts, ValueKept
  <2>7. AdmitsAuthor(a, RowOf(a, n), call.args[n].author)
    BY <2>2, <2>3, <2>4, AuthorKept
  <2>8. WithinBounds(a, n, call)
    BY <2>2, <2>3, BoundsKept
  <2> QED
    BY <2>6, <2>7, <2>8
<1>5. ASSUME NEW n \in DOMAIN call.args, n \notin Exposed(a)
      PROVE  ~a.closes
  <2>1. n \notin Exposed(b)
    BY <1>1, <1>5
  <2>2. ~b.closes
    BY <2>1 DEF AdmitsTool
  <2> QED
    BY <2>2, ToolParts DEF ClosureClass
<1> QED
  BY <1>3, <1>4, <1>5 DEF AdmitsTool

---------------------------------------------------------------------------
(* What the scanner reports. *)

(* The rows of a tool's arguments, and those of its declared controls.     *)
RowsOf(doc, tool, set, incomplete) ==
  [i \in DOMAIN tool.props |->
     ArgumentRow(tool, tool.props[i], Controls(doc, tool.name), set, incomplete)]
DeclaredOf(controls, rows) ==
  [n \in DOMAIN controls.arguments |->
     DeclaredRow(CHOOSE r \in ToSet(rows) : r.name = n, controls.arguments[n])]
BranchesOf(controls) ==
  IF controls.branches # Absent THEN BranchReport(controls.branches) ELSE Absent

(* The fields of a tool's report that the diff tells apart.                *)
LEMMA ReportFields ==
  ASSUME NEW doc, NEW tool, NEW set, NEW incomplete
  PROVE  LET report == ToolReport(doc, tool, set, incomplete)
         IN /\ report.name = tool.name
            /\ report.arguments = RowsOf(doc, tool, set, incomplete)
            /\ report.closes \in BOOLEAN
            /\ report.confirm \in BOOLEAN
            /\ report.branches = BranchesOf(Controls(doc, tool.name))
            /\ report.declared =
                 DeclaredOf(Controls(doc, tool.name),
                            RowsOf(doc, tool, set, incomplete))
<1> DEFINE report == ToolReport(doc, tool, set, incomplete)
           controls == Controls(doc, tool.name)
           rows == RowsOf(doc, tool, set, incomplete)
<1>1. report.name = tool.name
  BY DEF ToolReport, Findings
<1>2. report.arguments = rows
  BY DEF ToolReport, Findings, RowsOf
<1>3. report.closes = ClosesUnknownArguments(tool)
  BY DEF ToolReport, Findings
<1>4. report.closes \in BOOLEAN
  BY <1>3 DEF ClosesUnknownArguments
<1>5. report.confirm \in BOOLEAN
  <2>1. report.confirm =
          IF controls.branches # Absent
          THEN \E c \in ToSet(controls.branches.cases) :
                 c.risk.tier \in NEEDS_CONFIRM
          ELSE tool.name \in set.confirm
    BY DEF ToolReport, Findings
  <2> HIDE DEF report, controls
  <2>2. CASE controls.branches # Absent
    BY <2>1, <2>2
  <2>3. CASE controls.branches = Absent
    BY <2>1, <2>3
  <2> QED
    BY <2>2, <2>3
<1>6. report.branches = BranchesOf(controls)
  BY DEF ToolReport, Findings, BranchesOf
<1>7. report.declared = DeclaredOf(controls, rows)
  BY DEF ToolReport, Findings, DeclaredOf, RowsOf
<1> QED
  BY <1>1, <1>2, <1>4, <1>5, <1>6, <1>7

(* Every derived policy is one of the three.                               *)
LEMMA DerivedPolicies ==
  ASSUME NEW tools, NEW q \in Pairs(tools)
  PROVE  BuildPolicySet(tools).policy[q] \in Policies
<1> DEFINE param == ParamOf(ToolOf(tools, q[1]), q[2])
<1>1. BuildPolicySet(tools).policy[q]
        \in {"typed_bounded", InferPolicy(param, Incomplete(tools)).policy}
  BY DEF BuildPolicySet, Derive
<1>2. \A p, incomplete : InferPolicy(p, incomplete).policy \in Policies
  BY DEF InferPolicy, InferUndeclared, InferDeclaredOpen, Verdict, Policies
<1> QED
  BY <1>1, <1>2 DEF Policies

(* A row of the scanner's report is one.                                   *)
LEMMA ScannedRow ==
  ASSUME NEW v \in Versions, NEW k \in DOMAIN Documents[v].tools,
         NEW i \in DOMAIN Documents[v].tools[k].props, NEW controls
  PROVE  LET tool == Documents[v].tools[k]
             tools == ScanRegistry(Documents[v])
         IN IsRow(ArgumentRow(tool, tool.props[i], controls,
                              BuildPolicySet(tools), Incomplete(tools)))
<1> DEFINE doc == Documents[v]
           tool == doc.tools[k]
           p == tool.props[i]
           tools == ScanRegistry(doc)
           row == ArgumentRow(tool, p, controls, BuildPolicySet(tools),
                              Incomplete(tools))
<1>1. k \in DOMAIN tools /\ tools[k] = RegistryTool(doc, tool)
  BY DEF ScanRegistry
<1> HIDE DEF tools, tool
<1>2. tools[k].name = tool.name
  BY <1>1 DEF RegistryTool
<1>3. tools[k].params = [j \in DOMAIN tool.props |-> ScanParam(tool.props[j])]
  BY <1>1 DEF RegistryTool
<1>4. p.name \in NamesOf(tools[k].params)
  <2>1. i \in DOMAIN tool.props
    BY DEF tool
  <2>2. /\ i \in DOMAIN tools[k].params
        /\ tools[k].params[i] = ScanParam(p)
    BY <1>3, <2>1
  <2>3. ScanParam(p).name = p.name
    BY DEF ScanParam
  <2> QED
    BY <2>2, <2>3 DEF NamesOf
<1> HIDE DEF p
<1>5. <<tool.name, p.name>> \in Pairs(tools)
  BY <1>1, <1>2, <1>4 DEF Pairs
<1>6. row.policy \in Policies
  <2>1. row.policy = BuildPolicySet(tools).policy[<<tool.name, p.name>>]
    BY DEF ArgumentRow
  <2> QED
    BY <1>5, <2>1, DerivedPolicies
<1>7. row.constraints = Constraints(p)
  BY DEF ArgumentRow
<1>8. {p.maximum, p.maxLength} \subseteq Int \cup {Absent}
  BY ReviewAssumption DEF Versions, tool, p, IsDocument, IsProperty
<1>9. {row.constraints.maximum, row.constraints.maxLength}
        \subseteq Int \cup {Absent}
  BY <1>7, <1>8 DEF Constraints
<1> QED
  <2>1. IsRow(row)
    <3> HIDE DEF row
    <3> QED
      BY <1>6, <1>9 DEF IsRow
  <2> QED
    BY <2>1 DEF p, tool, tools

(* The control sidecar of a scannable document.                            *)
LEMMA ScannedControls ==
  ASSUME NEW doc, Scannable(doc), NEW t, NEW n \in DOMAIN Controls(doc, t).arguments
  PROVE  IsDeclared(Controls(doc, t).arguments[n])
<1>1. t \in DOMAIN doc.controls
  BY DEF Controls
<1>2. Controls(doc, t) = doc.controls[t]
  BY <1>1 DEF Controls
<1>3. ArgumentsFit(ToolOf(doc.tools, t), doc.controls[t])
  BY <1>1 DEF Scannable, ControlsFit
<1> DEFINE declared == Controls(doc, t).arguments[n]
<1>4. /\ declared.authority \in ControlAuthorities
      /\ \A i \in DOMAIN declared.bounds :
           declared.bounds[i].mutability \in ToSet(BoundMutability)
  BY <1>2, <1>3 DEF ArgumentsFit
<1> HIDE DEF declared
<1>5. \A b \in ToSet(declared.bounds) : b.mutability \in ToSet(BoundMutability)
  <2> DEFINE kinds == ToSet(BoundMutability)
  <2> HIDE DEF kinds
  <2>1. \A i \in DOMAIN declared.bounds : declared.bounds[i].mutability \in kinds
    BY <1>4 DEF kinds
  <2>2. \A b \in ToSet(declared.bounds) : b.mutability \in kinds
    BY <2>1 DEF ToSet
  <2> QED
    BY <2>2 DEF kinds
<1>6. IsDeclared(declared)
  BY <1>4, <1>5 DEF IsDeclared, Typed
<1> QED
  BY <1>6 DEF declared

(* The report on the cases of a selector.                                  *)
LEMMA ScannedBranches ==
  ASSUME NEW branches
  PROVE  IsBranches(BranchReport(branches))
  BY DEF IsBranches, BranchReport, IsCase

(* Every tool of a report is as the diff takes it, under its own name.     *)
LEMMA ScannedReports ==
  ASSUME NEW v \in Versions, Scannable(Documents[v])
  PROVE  /\ \A k \in DOMAIN Report(v) : IsToolReport(Report(v)[k])
         /\ \A j, k \in DOMAIN Report(v) :
              Report(v)[j].name = Report(v)[k].name => j = k
<1> DEFINE doc == Documents[v]
           tools == ScanRegistry(doc)
           set == BuildPolicySet(tools)
<1>1. Report(v) = [k \in DOMAIN doc.tools |->
                     ToolReport(doc, doc.tools[k], set, Incomplete(tools))]
  BY DEF Report, Scan
<1>2. ASSUME NEW k \in DOMAIN doc.tools
      PROVE  /\ IsToolReport(Report(v)[k])
             /\ Report(v)[k].name = doc.tools[k].name
  <2> DEFINE tool == doc.tools[k]
             controls == Controls(doc, tool.name)
             report == Report(v)[k]
             rows == RowsOf(doc, tool, set, Incomplete(tools))
  <2>1. report = ToolReport(doc, tool, set, Incomplete(tools))
    BY <1>1
  <2> HIDE DEF report, set, tools
  <2>2. /\ report.name = tool.name
        /\ report.arguments = rows
        /\ report.closes \in BOOLEAN
        /\ report.confirm \in BOOLEAN
        /\ report.branches = BranchesOf(controls)
        /\ report.declared = DeclaredOf(controls, rows)
    BY <2>1, ReportFields
  <2> HIDE DEF rows
  <2>3. ASSUME NEW row \in ToSet(report.arguments) PROVE IsRow(row)
    <3>1. DOMAIN rows = DOMAIN tool.props
      BY DEF rows, RowsOf
    <3>2. PICK i \in DOMAIN tool.props : row = rows[i]
      BY <2>2, <2>3, <3>1 DEF ToSet
    <3>3. row = ArgumentRow(tool, tool.props[i], controls, set,
                            Incomplete(tools))
      BY <3>2 DEF rows, RowsOf
    <3> QED
      BY <3>3, ScannedRow DEF set, tools
  <2>4. ASSUME NEW n \in DOMAIN report.declared
        PROVE  IsDeclared(report.declared[n])
    <3>1. n \in DOMAIN controls.arguments
      BY <2>2, <2>4 DEF DeclaredOf
    <3>2. IsDeclared(controls.arguments[n])
      BY <3>1, ScannedControls
    <3> DEFINE row == CHOOSE r \in ToSet(rows) : r.name = n
    <3>3. report.declared[n] = DeclaredRow(row, controls.arguments[n])
      BY <2>2, <3>1 DEF DeclaredOf
    <3> HIDE DEF row, controls
    <3>4. /\ report.declared[n].authority = controls.arguments[n].authority
          /\ report.declared[n].bounds = controls.arguments[n].bounds
      BY <3>3 DEF DeclaredRow
    <3> QED
      BY <3>2, <3>4 DEF IsDeclared
  <2>5. report.branches # Absent => IsBranches(report.branches)
    BY <2>2, ScannedBranches DEF BranchesOf
  <2>6. IsToolReport(report)
    BY <2>2, <2>3, <2>4, <2>5 DEF IsToolReport
  <2> QED
    BY <2>2, <2>6 DEF report
<1>3. ASSUME NEW j \in DOMAIN doc.tools, NEW k \in DOMAIN doc.tools,
             doc.tools[j].name = doc.tools[k].name
      PROVE  j = k
  BY <1>3 DEF Scannable, IsInjective
<1>4. DOMAIN Report(v) = DOMAIN doc.tools
  BY <1>1
<1> QED
  BY <1>2, <1>3, <1>4

---------------------------------------------------------------------------
(* Two reports. *)

(* The tools of two reports, matched by their names.                       *)
LEMMA DiffParts ==
  ASSUME NEW v \in Versions, NEW w \in Versions,
         Scannable(Documents[v]), Scannable(Documents[w]),
         OnlyProtects(Diff(Report(v), Report(w))),
         NEW k \in DOMAIN Report(w)
  PROVE  \E j \in DOMAIN Report(v) :
           /\ Report(v)[j].name = Report(w)[k].name
           /\ OnlyProtects(ToolChanges(Report(v)[j], Report(w)[k]))
<1> DEFINE A == Report(v)
           B == Report(w)
           names(report) == {report[i].name : i \in DOMAIN report}
           row(report, t) == report[CHOOSE i \in DOMAIN report : report[i].name = t]
           c1 == {Change("authority_increase", "tool_added", t, NoName) :
                    t \in names(B) \ names(A)}
           c2 == {Change("protection_increase", "tool_removed", t, NoName) :
                    t \in names(A) \ names(B)}
           c3 == UNION {ToolChanges(row(A, t), row(B, t)) :
                          t \in names(A) \cap names(B)}
           t0 == B[k].name
<1> HIDE DEF A, B
<1>1. Diff(A, B) = UNION {c1, c2, c3}
  BY DEF Diff
<1>2. OnlyProtects(Diff(A, B))
  BY DEF A, B
<1> HIDE DEF c1, c2, c3
<1>3. OnlyProtects(c1) /\ OnlyProtects(c3)
  BY <1>1, <1>2 DEF OnlyProtects
<1>4. k \in DOMAIN B /\ t0 \in names(B)
  BY DEF B
<1>5. t0 \in names(A)
  <2>1. ASSUME t0 \notin names(A) PROVE FALSE
    <3>1. Change("authority_increase", "tool_added", t0, NoName) \in c1
      BY <1>4, <2>1 DEF c1
    <3> QED
      BY <1>3, <3>1 DEF OnlyProtects, Change
  <2> QED
    BY <2>1
<1>6. PICK j \in DOMAIN A : A[j].name = t0
  BY <1>5
<1>7. row(A, t0) = A[j]
  <2>1. \A i \in DOMAIN A : A[i].name = t0 => i = j
    BY <1>6, ScannedReports DEF A
  <2> QED
    BY <1>6, <2>1
<1>8. row(B, t0) = B[k]
  <2>1. \A i \in DOMAIN B : B[i].name = t0 => i = k
    BY <1>4, ScannedReports DEF B
  <2> QED
    BY <1>4, <2>1
<1>9. ToolChanges(A[j], B[k]) \in {ToolChanges(row(A, t), row(B, t)) :
                                     t \in names(A) \cap names(B)}
  BY <1>4, <1>5, <1>7, <1>8
<1>10. OnlyProtects(ToolChanges(A[j], B[k]))
  BY <1>3, <1>9 DEF c3, OnlyProtects
<1> QED
  BY <1>6, <1>10 DEF A, B

(* A version that only protects admits no call that was not admitted.      *)
LEMMA ReportKept ==
  ASSUME NEW v \in Versions, NEW w \in Versions,
         Scannable(Documents[v]), Scannable(Documents[w]),
         OnlyProtects(Diff(Report(v), Report(w)))
  PROVE  AdmittedBy[w] \subseteq AdmittedBy[v]
<1>1. /\ AdmittedBy[v] = Admitted(Report(v))
      /\ AdmittedBy[w] = Admitted(Report(w))
  BY DEF AdmittedBy
<1>2. ASSUME NEW call \in Admitted(Report(w))
      PROVE  call \in Admitted(Report(v))
  <2>1. call \in Calls
    BY DEF Admitted
  <2>2. PICK k \in DOMAIN Report(w) :
          Report(w)[k].name = call.tool /\ AdmitsTool(Report(w)[k], call)
    BY DEF Admitted, ToSet
  <2>3. PICK j \in DOMAIN Report(v) :
          /\ Report(v)[j].name = Report(w)[k].name
          /\ OnlyProtects(ToolChanges(Report(v)[j], Report(w)[k]))
    BY DiffParts
  <2>4. IsToolReport(Report(v)[j]) /\ IsToolReport(Report(w)[k])
    BY ScannedReports
  <2>5. AdmitsTool(Report(v)[j], call)
    BY <2>1, <2>2, <2>3, <2>4, ToolKept
  <2>6. Report(v)[j].name = call.tool
    BY <2>2, <2>3
  <2> QED
    BY <2>1, <2>5, <2>6 DEF Admitted, ToSet
<1> QED
  BY <1>1, <1>2

(* What the command lets pass only protects.                               *)
LEMMA PassedOnlyProtects ==
  ASSUME NEW v \in Versions, NEW w \in Versions, Accepts[<<v, w>>]
  PROVE  /\ Scannable(Documents[v]) /\ Scannable(Documents[w])
         /\ OnlyProtects(Diff(Report(v), Report(w)))
<1>1. Passes(Documents[v], Documents[w])
  <2>1. <<v, w>> \in Versions \X Versions
    OBVIOUS
  <2>2. Accepts[<<v, w>>] = Passes(Documents[<<v, w>>[1]], Documents[<<v, w>>[2]])
    BY <2>1 DEF Accepts
  <2> QED
    BY <2>2
<1> QED
  BY <1>1 DEF Passes, Report, Classes, OnlyProtects

---------------------------------------------------------------------------
(* The protected branch. *)

(* The branch is at a version that admits no more than the last version a  *)
(* person took: each merge without a person only narrows it further.       *)
ReviewInv ==
  /\ base \in Versions /\ origin \in Versions
  /\ request # None => request \in Versions
  /\ AdmittedBy[base] \subseteq AdmittedBy[origin]

LEMMA ReviewInit ==
  Init => ReviewInv
BY DEF Init, ReviewInv

(* Every step keeps the branch within what a person last took.             *)
LEMMA ReviewStep ==
  ReviewInv /\ [Next]_vars => ReviewInv'
<1> SUFFICES ASSUME ReviewInv, [Next]_vars PROVE ReviewInv'
  OBVIOUS
<1> USE DEF ReviewInv
<1>1. ASSUME NEW i \in Versions, Propose(i) PROVE ReviewInv'
  BY <1>1 DEF Propose
<1>2. CASE MergePassing
  <2>1. request \in Versions /\ Accepts[<<base, request>>]
    BY <1>2 DEF MergePassing
  <2>2. AdmittedBy[request] \subseteq AdmittedBy[base]
    BY <2>1, PassedOnlyProtects, ReportKept
  <2> QED
    BY <1>2, <2>1, <2>2 DEF MergePassing
<1>3. CASE MergeByPerson
  BY <1>3 DEF MergeByPerson
<1>4. CASE Withdraw
  BY <1>4 DEF Withdraw
<1>5. CASE UNCHANGED vars
  BY <1>5 DEF vars
<1> QED
  BY <1>1, <1>2, <1>3, <1>4, <1>5 DEF Next

(* However many proposals merge without a person, the branch admits no     *)
(* call that the version a person last took did not admit.                 *)
THEOREM NothingWidens ==
  Spec => []NothingWidensUnseen
<1>1. ReviewInv => NothingWidensUnseen
  <2> SUFFICES ASSUME ReviewInv PROVE <<origin, base>> \notin Wider
    BY DEF NothingWidensUnseen
  <2>1. <<origin, base>>[1] = origin /\ <<origin, base>>[2] = base
    OBVIOUS
  <2>2. AdmittedBy[<<origin, base>>[2]] \subseteq AdmittedBy[<<origin, base>>[1]]
    BY <2>1 DEF ReviewInv
  <2> QED
    BY <2>2 DEF Wider
<1> QED
  BY <1>1, ReviewInit, ReviewStep, PTL DEF Spec

---------------------------------------------------------------------------
(* The way back. *)

HasIncrease(changes) == \E c \in changes : c.class = "authority_increase"

(* A protection among the changes of one part is a change of that part.    *)
LEMMA ProtectsOne ==
  ASSUME NEW x, NEW y, NEW class, NEW kind, NEW t, NEW n,
         NEW c \in ChangeOf(x, y, Change(class, kind, t, n)),
         c.class = "protection_increase"
  PROVE  x # y /\ class = "protection_increase"
  BY DEF ChangeOf, Change

(* A change of one part that increases authority is among the changes.     *)
LEMMA IncreasesOne ==
  ASSUME NEW x, NEW y, NEW kind, NEW t, NEW n, x # y
  PROVE  HasIncrease(ChangeOf(x, y, Change("authority_increase", kind, t, n)))
  BY DEF HasIncrease, ChangeOf, Change

(* A change without a direction is no protection.                          *)
LEMMA ReviewsOnly ==
  ASSUME NEW before, NEW after, NEW fields, NEW t, NEW n,
         NEW c \in ReviewChanges(before, after, fields, t, n)
  PROVE  c.class # "protection_increase"
  BY DEF ReviewChanges, Change

(* Limits, enumerations and branches, the other way.                       *)
LEMMA LimitBack ==
  ASSUME NEW was \in Int \cup {Absent}, NEW is \in Int \cup {Absent},
         was # is, LimitClass(was, is) = "protection_increase"
  PROVE  LimitClass(is, was) = "authority_increase"
  BY ReviewAssumption DEF LimitClass, Ordered

LEMMA EnumBack ==
  ASSUME NEW was, NEW is, EnumClass(was, is) = "protection_increase"
  PROVE  EnumClass(is, was) = "authority_increase"
  BY DEF EnumClass

LEMMA BranchBack ==
  ASSUME NEW was, NEW is, was # is, IsBranches(was), IsBranches(is),
         was # Absent, is # Absent,
         BranchClass(was, is) = "protection_increase"
  PROVE  BranchClass(is, was) = "authority_increase"
<1>1. /\ is.selector = was.selector
      /\ DOMAIN is.cases = DOMAIN was.cases
      /\ \A v \in DOMAIN was.cases :
           /\ is.cases[v].active \subseteq was.cases[v].active
           /\ [is.cases[v] EXCEPT !.active = {}]
                = [was.cases[v] EXCEPT !.active = {}]
  BY DEF BranchClass
<1>2. PICK v \in DOMAIN was.cases : was.cases[v] # is.cases[v]
  <2>1. ASSUME \A v \in DOMAIN was.cases : was.cases[v] = is.cases[v]
        PROVE  FALSE
    <3>1. was.cases = is.cases
      BY <1>1, <2>1 DEF IsBranches
    <3> QED
      BY <1>1, <3>1 DEF IsBranches
  <2> QED
    BY <2>1
<1>3. was.cases[v].active # is.cases[v].active
  <2> DEFINE old == was.cases[v]
             new == is.cases[v]
  <2>1. IsCase(old) /\ IsCase(new)
    BY <1>1 DEF IsBranches
  <2>2. [new EXCEPT !.active = {}] = [old EXCEPT !.active = {}] /\ old # new
    BY <1>1, <1>2
  <2> HIDE DEF old, new
  <2>3. /\ [new EXCEPT !.active = {}].risk = new.risk
        /\ [new EXCEPT !.active = {}].evidence = new.evidence
        /\ [new EXCEPT !.active = {}].confirm = new.confirm
    BY <2>1 DEF IsCase
  <2>4. /\ [old EXCEPT !.active = {}].risk = old.risk
        /\ [old EXCEPT !.active = {}].evidence = old.evidence
        /\ [old EXCEPT !.active = {}].confirm = old.confirm
    BY <2>1 DEF IsCase
  <2>5. /\ new.risk = old.risk /\ new.evidence = old.evidence
        /\ new.confirm = old.confirm
    BY <2>2, <2>3, <2>4
  <2>6. old.active # new.active
    BY <2>1, <2>2, <2>5 DEF IsCase
  <2> QED
    BY <2>6 DEF old, new
<1>4. was.cases[v].active \ is.cases[v].active # {}
  BY <1>1, <1>3
<1> QED
  BY <1>1, <1>4 DEF BranchClass

(* An order's increase, the other way.                                     *)
LEMMA PolicyBack ==
  ASSUME NEW p \in Policies, NEW q \in Policies, p # q,
         Ordered(Rank(PolicyRank, p), Rank(PolicyRank, q)) = "protection_increase"
  PROVE  Ordered(Rank(PolicyRank, q), Rank(PolicyRank, p)) = "authority_increase"
  BY PolicyRanks DEF Ordered

LEMMA AuthorityBack ==
  ASSUME NEW p \in ControlAuthorities, NEW q \in ControlAuthorities, p # q,
         Ordered(Rank(AuthorityRank, p), Rank(AuthorityRank, q))
           = "protection_increase"
  PROVE  Ordered(Rank(AuthorityRank, q), Rank(AuthorityRank, p))
           = "authority_increase"
  BY AuthorityRanks DEF Ordered

(* A protection of a declaration, the other way.                           *)
LEMMA DeclaredBack ==
  ASSUME NEW a, NEW b, IsToolReport(a), IsToolReport(b), NEW t, NEW u, NEW n,
         NEW c \in DeclaredChanges(a, b, t, n),
         c.class = "protection_increase"
  PROVE  HasIncrease(DeclaredChanges(b, a, u, n))
<1> DEFINE old == ControlOf(a, n)
           new == ControlOf(b, n)
           both == IsDeclaredIn(a, n) /\ IsDeclaredIn(b, n)
           c0 == ChangeOf(IsDeclaredIn(a, n), IsDeclaredIn(b, n),
                          Change("review", "declared_control", t, n))
           c1 == ChangeOf(old.authority, new.authority,
                   Change(Ordered(Rank(AuthorityRank, old.authority),
                                  Rank(AuthorityRank, new.authority)),
                          "declared_authority_changed", t, n))
           c2 == ReviewChanges(old, new, {"evidence"}, t, n)
           c3 == ChangeOf(old.bounds, new.bounds,
                   Change(BoundsClass(ToSet(old.bounds), ToSet(new.bounds)),
                          "bounds_changed", t, n))
           d1 == ChangeOf(new.authority, old.authority,
                   Change(Ordered(Rank(AuthorityRank, new.authority),
                                  Rank(AuthorityRank, old.authority)),
                          "declared_authority_changed", u, n))
           d2 == ReviewChanges(new, old, {"evidence"}, u, n)
           d3 == ChangeOf(new.bounds, old.bounds,
                   Change(BoundsClass(ToSet(new.bounds), ToSet(old.bounds)),
                          "bounds_changed", u, n))
<1>1. c \in c0 \/ (both /\ c \in c1) \/ c \in c2 \/ c \in c3
  BY DEF DeclaredChanges
<1>2. /\ both => d1 \subseteq DeclaredChanges(b, a, u, n)
      /\ d3 \subseteq DeclaredChanges(b, a, u, n)
  BY DEF DeclaredChanges
<1>3. /\ both => /\ old.authority \in ControlAuthorities
                 /\ new.authority \in ControlAuthorities
      /\ Typed(ToSet(old.bounds)) /\ Typed(ToSet(new.bounds))
  <2>1. Typed(ToSet(NoControl.bounds))
    <3>1. NoControl.bounds = <<>>
      BY DEF NoControl
    <3>2. ToSet(<<>>) = {}
      BY DEF ToSet
    <3>3. Typed({})
      BY DEF Typed
    <3> QED
      BY <3>1, <3>2, <3>3
  <2>2. ASSUME NEW tool, IsToolReport(tool), IsDeclaredIn(tool, n)
        PROVE  /\ ControlOf(tool, n).authority \in ControlAuthorities
               /\ Typed(ToSet(ControlOf(tool, n).bounds))
    <3>1. ControlOf(tool, n) = tool.declared[n]
      BY <2>2 DEF ControlOf
    <3>2. IsDeclared(tool.declared[n])
      BY <2>2 DEF IsToolReport, IsDeclaredIn
    <3> QED
      BY <3>1, <3>2 DEF IsDeclared
  <2>3. ASSUME NEW tool, IsToolReport(tool), ~IsDeclaredIn(tool, n)
        PROVE  Typed(ToSet(ControlOf(tool, n).bounds))
    <3>1. ControlOf(tool, n) = NoControl
      BY <2>3 DEF ControlOf
    <3> QED
      BY <2>1, <3>1
  <2> QED
    BY <2>2, <2>3
<1> HIDE DEF old, new, both
<1>7. c \notin c0
  BY DEF ChangeOf, Change
<1>4. CASE both /\ c \in c1
  <2>1. /\ old.authority # new.authority
        /\ Ordered(Rank(AuthorityRank, old.authority),
                   Rank(AuthorityRank, new.authority)) = "protection_increase"
    BY <1>4, ProtectsOne
  <2>2. Ordered(Rank(AuthorityRank, new.authority),
                Rank(AuthorityRank, old.authority)) = "authority_increase"
    BY <1>3, <1>4, <2>1, AuthorityBack
  <2>3. HasIncrease(d1)
    BY <2>1, <2>2, IncreasesOne
  <2>4. d1 \subseteq DeclaredChanges(b, a, u, n)
    BY <1>2, <1>4
  <2> QED
    BY <2>3, <2>4 DEF HasIncrease
<1>5. c \notin c2
  BY ReviewsOnly
<1>6. CASE c \in c3
  <2>1. /\ old.bounds # new.bounds
        /\ BoundsClass(ToSet(old.bounds), ToSet(new.bounds))
             = "protection_increase"
    BY <1>6, ProtectsOne
  <2>2. BoundsClass(ToSet(new.bounds), ToSet(old.bounds)) = "authority_increase"
    BY <1>3, <2>1, BoundsBack
  <2>3. HasIncrease(d3)
    BY <2>1, <2>2, IncreasesOne
  <2> QED
    BY <1>2, <2>3 DEF HasIncrease
<1> HIDE DEF c0, c1, c2, c3, d1, d2, d3
<1> QED
  BY <1>1, <1>4, <1>5, <1>6, <1>7

(* A protection of an argument that stays, the other way.                  *)
LEMMA ExposedBack ==
  ASSUME NEW a, NEW b, IsToolReport(a), IsToolReport(b), NEW t, NEW u,
         NEW n \in Exposed(a) \cap Exposed(b),
         NEW c \in ExposedChanges(a, b, t, n),
         c.class = "protection_increase"
  PROVE  HasIncrease(ExposedChanges(b, a, u, n))
<1> DEFINE old == RowOf(a, n)
           new == RowOf(b, n)
           was == old.constraints
           is == new.constraints
           c1 == ChangeOf(old.policy, new.policy,
                   Change(Ordered(Rank(PolicyRank, old.policy),
                                  Rank(PolicyRank, new.policy)),
                          "inferred_policy_changed", t, n))
           c2 == DeclaredChanges(a, b, t, n)
           c3 == ChangeOf(was.maximum, is.maximum,
                   Change(LimitClass(was.maximum, is.maximum),
                          "maximum_changed", t, n))
           c4 == ChangeOf(was.maxLength, is.maxLength,
                   Change(LimitClass(was.maxLength, is.maxLength),
                          "max_length_changed", t, n))
           c5 == ChangeOf(was.enum, is.enum,
                   Change(EnumClass(was.enum, is.enum), "enum_changed", t, n))
           c6 == ReviewChanges(old, new, ArgumentReviewFields, t, n)
           d1 == ChangeOf(new.policy, old.policy,
                   Change(Ordered(Rank(PolicyRank, new.policy),
                                  Rank(PolicyRank, old.policy)),
                          "inferred_policy_changed", u, n))
           d2 == DeclaredChanges(b, a, u, n)
           d3 == ChangeOf(is.maximum, was.maximum,
                   Change(LimitClass(is.maximum, was.maximum),
                          "maximum_changed", u, n))
           d4 == ChangeOf(is.maxLength, was.maxLength,
                   Change(LimitClass(is.maxLength, was.maxLength),
                          "max_length_changed", u, n))
           d5 == ChangeOf(is.enum, was.enum,
                   Change(EnumClass(is.enum, was.enum), "enum_changed", u, n))
           d6 == ReviewChanges(new, old, ArgumentReviewFields, u, n)
<1>1. /\ ExposedChanges(a, b, t, n) = UNION {c1, c2, c3, c4, c5, c6}
      /\ ExposedChanges(b, a, u, n) = UNION {d1, d2, d3, d4, d5, d6}
  BY DEF ExposedChanges
<1>2. IsRow(old) /\ IsRow(new)
  BY RowIsThere DEF IsToolReport
<1> HIDE DEF old, new
<1>3. /\ old.policy \in Policies /\ new.policy \in Policies
      /\ was.maximum \in Int \cup {Absent} /\ is.maximum \in Int \cup {Absent}
      /\ was.maxLength \in Int \cup {Absent}
      /\ is.maxLength \in Int \cup {Absent}
  BY <1>2 DEF IsRow
<1>4. CASE c \in c1
  <2>1. /\ old.policy # new.policy
        /\ Ordered(Rank(PolicyRank, old.policy), Rank(PolicyRank, new.policy))
             = "protection_increase"
    BY <1>4, ProtectsOne
  <2>2. Ordered(Rank(PolicyRank, new.policy), Rank(PolicyRank, old.policy))
          = "authority_increase"
    BY <1>3, <2>1, PolicyBack
  <2>3. HasIncrease(d1)
    BY <2>1, <2>2, IncreasesOne
  <2> QED
    BY <1>1, <2>3 DEF HasIncrease
<1>5. CASE c \in c2
  <2>1. HasIncrease(d2)
    BY <1>5, DeclaredBack
  <2> QED
    BY <1>1, <2>1 DEF HasIncrease
<1>6. CASE c \in c3
  <2>1. /\ was.maximum # is.maximum
        /\ LimitClass(was.maximum, is.maximum) = "protection_increase"
    BY <1>6, ProtectsOne
  <2>2. LimitClass(is.maximum, was.maximum) = "authority_increase"
    BY <1>3, <2>1, LimitBack
  <2>3. HasIncrease(d3)
    BY <2>1, <2>2, IncreasesOne
  <2> QED
    BY <1>1, <2>3 DEF HasIncrease
<1>7. CASE c \in c4
  <2>1. /\ was.maxLength # is.maxLength
        /\ LimitClass(was.maxLength, is.maxLength) = "protection_increase"
    BY <1>7, ProtectsOne
  <2>2. LimitClass(is.maxLength, was.maxLength) = "authority_increase"
    BY <1>3, <2>1, LimitBack
  <2>3. HasIncrease(d4)
    BY <2>1, <2>2, IncreasesOne
  <2> QED
    BY <1>1, <2>3 DEF HasIncrease
<1>8. CASE c \in c5
  <2>1. /\ was.enum # is.enum
        /\ EnumClass(was.enum, is.enum) = "protection_increase"
    BY <1>8, ProtectsOne
  <2>2. EnumClass(is.enum, was.enum) = "authority_increase"
    BY <2>1, EnumBack
  <2>3. HasIncrease(d5)
    BY <2>1, <2>2, IncreasesOne
  <2> QED
    BY <1>1, <2>3 DEF HasIncrease
<1>9. c \notin c6
  BY ReviewsOnly
<1> HIDE DEF c1, c2, c3, c4, c5, c6, d1, d2, d3, d4, d5, d6
<1> QED
  BY <1>1, <1>4, <1>5, <1>6, <1>7, <1>8, <1>9

(* A protection of an argument, the other way: an argument that went was   *)
(* exposed, and comes back exposed.                                        *)
LEMMA ArgumentBack ==
  ASSUME NEW a, NEW b, IsToolReport(a), IsToolReport(b), NEW t, NEW u, NEW n,
         NEW c \in ArgumentChanges(a, b, t, n),
         c.class = "protection_increase"
  PROVE  HasIncrease(ArgumentChanges(b, a, u, n))
<1>1. n \in Exposed(a)
  BY DEF ArgumentChanges, Change
<1>2. CASE n \in Exposed(b)
  <2>1. c \in ExposedChanges(a, b, t, n)
    BY <1>1, <1>2 DEF ArgumentChanges
  <2>2. HasIncrease(ExposedChanges(b, a, u, n))
    BY <1>1, <1>2, <2>1, ExposedBack
  <2>3. ArgumentChanges(b, a, u, n) = ExposedChanges(b, a, u, n)
    BY <1>1, <1>2 DEF ArgumentChanges
  <2> QED
    BY <2>2, <2>3
<1>3. CASE n \notin Exposed(b)
  <2>1. ArgumentChanges(b, a, u, n)
          = {Change("authority_increase", "argument_exposed", u, n)}
    BY <1>1, <1>3 DEF ArgumentChanges
  <2> QED
    BY <2>1 DEF HasIncrease, Change
<1> QED
  BY <1>2, <1>3

(* A protection of a tool, the other way.                                  *)
LEMMA ToolBack ==
  ASSUME NEW a, NEW b, IsToolReport(a), IsToolReport(b),
         NEW c \in ToolChanges(a, b), c.class = "protection_increase"
  PROVE  HasIncrease(ToolChanges(b, a))
<1> DEFINE t == a.name
           u == b.name
           names == UNION {Exposed(x) \cup DOMAIN x.unexposed : x \in {a, b}}
           c1 == ReviewChanges(a, b, ToolReviewFields, t, NoName)
           c2 == ChangeOf(a.confirm, b.confirm,
                   Change(ConfirmationClass(a, b), "confirmation_changed", t,
                          NoName))
           c3 == ChangeOf(a.closes, b.closes,
                   Change(ClosureClass(a, b), "unknown_arguments_changed", t,
                          NoName))
           c4 == ChangeOf(a.branches, b.branches,
                   Change(BranchClass(a.branches, b.branches),
                          "branch_risk_changed", t, NoName))
           c5 == UNION {ArgumentChanges(a, b, t, n) : n \in names}
           d1 == ReviewChanges(b, a, ToolReviewFields, u, NoName)
           d2 == ChangeOf(b.confirm, a.confirm,
                   Change(ConfirmationClass(b, a), "confirmation_changed", u,
                          NoName))
           d3 == ChangeOf(b.closes, a.closes,
                   Change(ClosureClass(b, a), "unknown_arguments_changed", u,
                          NoName))
           d4 == ChangeOf(b.branches, a.branches,
                   Change(BranchClass(b.branches, a.branches),
                          "branch_risk_changed", u, NoName))
           d5 == UNION {ArgumentChanges(b, a, u, n) : n \in names}
<1>1. ToolChanges(a, b) = UNION {c1, c2, c3, c4, c5}
  BY DEF ToolChanges
<1>2. ToolChanges(b, a) = UNION {d1, d2, d3, d4, d5}
  <2>1. names = UNION {Exposed(x) \cup DOMAIN x.unexposed : x \in {b, a}}
    OBVIOUS
  <2> HIDE DEF names
  <2> QED
    BY <2>1 DEF ToolChanges
<1>3. c \notin c1
  BY ReviewsOnly
<1>4. CASE c \in c2
  <2>1. a.confirm # b.confirm /\ ConfirmationClass(a, b) = "protection_increase"
    BY <1>4, ProtectsOne
  <2>2. b.confirm
    BY <2>1 DEF ConfirmationClass, IsToolReport
  <2>3. ConfirmationClass(b, a) = "authority_increase"
    BY <2>2 DEF ConfirmationClass
  <2>4. HasIncrease(d2)
    BY <2>1, <2>3, IncreasesOne
  <2> QED
    BY <1>2, <2>4 DEF HasIncrease
<1>5. CASE c \in c3
  <2>1. a.closes # b.closes /\ ClosureClass(a, b) = "protection_increase"
    BY <1>5, ProtectsOne
  <2>2. b.closes
    BY <2>1 DEF ClosureClass, IsToolReport
  <2>3. ClosureClass(b, a) = "authority_increase"
    BY <2>2 DEF ClosureClass
  <2>4. HasIncrease(d3)
    BY <2>1, <2>3, IncreasesOne
  <2> QED
    BY <1>2, <2>4 DEF HasIncrease
<1>6. CASE c \in c4
  <2>1. /\ a.branches # b.branches
        /\ BranchClass(a.branches, b.branches) = "protection_increase"
    BY <1>6, ProtectsOne
  <2>2. a.branches # Absent /\ b.branches # Absent
    BY <2>1 DEF BranchClass
  <2>3. BranchClass(b.branches, a.branches) = "authority_increase"
    BY <2>1, <2>2, BranchBack DEF IsToolReport
  <2>4. HasIncrease(d4)
    BY <2>1, <2>3, IncreasesOne
  <2> QED
    BY <1>2, <2>4 DEF HasIncrease
<1>7. CASE c \in c5
  <2>1. PICK n \in names : c \in ArgumentChanges(a, b, t, n)
    BY <1>7
  <2>2. HasIncrease(ArgumentChanges(b, a, u, n))
    BY <2>1, ArgumentBack
  <2> HIDE DEF names
  <2>3. \A d \in ArgumentChanges(b, a, u, n) : d \in d5
    BY <2>1
  <2> QED
    BY <1>2, <2>2, <2>3 DEF HasIncrease
<1> HIDE DEF c1, c2, c3, c4, c5, d1, d2, d3, d4, d5
<1> QED
  BY <1>1, <1>3, <1>4, <1>5, <1>6, <1>7

(* A difference of two versions that is protection only, the other way.    *)
LEMMA DiffBack ==
  ASSUME NEW v \in Versions, NEW w \in Versions,
         Scannable(Documents[v]), Scannable(Documents[w]),
         NEW c \in Diff(Report(v), Report(w)), c.class = "protection_increase"
  PROVE  HasIncrease(Diff(Report(w), Report(v)))
<1> DEFINE A == Report(v)
           B == Report(w)
           names(report) == {report[i].name : i \in DOMAIN report}
           row(report, t) == report[CHOOSE i \in DOMAIN report : report[i].name = t]
           c1 == {Change("authority_increase", "tool_added", t, NoName) :
                    t \in names(B) \ names(A)}
           c2 == {Change("protection_increase", "tool_removed", t, NoName) :
                    t \in names(A) \ names(B)}
           c3 == UNION {ToolChanges(row(A, t), row(B, t)) :
                          t \in names(A) \cap names(B)}
           d1 == {Change("authority_increase", "tool_added", t, NoName) :
                    t \in names(A) \ names(B)}
           d2 == {Change("protection_increase", "tool_removed", t, NoName) :
                    t \in names(B) \ names(A)}
           d3 == UNION {ToolChanges(row(B, t), row(A, t)) :
                          t \in names(B) \cap names(A)}
<1> HIDE DEF A, B
<1>1. Diff(A, B) = UNION {c1, c2, c3} /\ Diff(B, A) = UNION {d1, d2, d3}
  BY DEF Diff
<1>2. c \in Diff(A, B)
  BY DEF A, B
<1>3. c \notin c1
  BY DEF Change
<1>4. CASE c \in c2
  <2>1. PICK t \in names(A) \ names(B) : TRUE
    BY <1>4
  <2>2. Change("authority_increase", "tool_added", t, NoName) \in d1
    OBVIOUS
  <2> HIDE DEF d1
  <2> QED
    BY <1>1, <2>2 DEF HasIncrease, Change, A, B
<1>5. CASE c \in c3
  <2>1. PICK t \in names(A) \cap names(B) :
          c \in ToolChanges(row(A, t), row(B, t))
    <3> HIDE DEF row, names
    <3> QED
      BY <1>5
  <2>2. row(A, t) = A[CHOOSE i \in DOMAIN A : A[i].name = t]
        /\ (CHOOSE i \in DOMAIN A : A[i].name = t) \in DOMAIN A
    BY <2>1
  <2>3. row(B, t) = B[CHOOSE i \in DOMAIN B : B[i].name = t]
        /\ (CHOOSE i \in DOMAIN B : B[i].name = t) \in DOMAIN B
    BY <2>1
  <2>4. t \in names(B) \cap names(A)
    BY <2>1
  <2> HIDE DEF row, names
  <2>5. IsToolReport(row(A, t)) /\ IsToolReport(row(B, t))
    BY <2>2, <2>3, ScannedReports DEF A, B
  <2>6. HasIncrease(ToolChanges(row(B, t), row(A, t)))
    BY <2>1, <2>5, ToolBack
  <2>7. \A d \in ToolChanges(row(B, t), row(A, t)) : d \in d3
    BY <2>4
  <2> HIDE DEF d3
  <2> QED
    BY <1>1, <2>6, <2>7 DEF HasIncrease, A, B
<1> HIDE DEF c1, c2, c3
<1> QED
  BY <1>1, <1>2, <1>3, <1>4, <1>5

(* A proposal that merges by itself is never undone by one that does:      *)
(* what is pure protection one way raises authority on the way back.       *)
THEOREM ProtectionStays ==
  Spec => []ProtectionIsOneWay
<1>1. ReviewInv => ProtectionIsOneWay
  <2> SUFFICES ASSUME ReviewInv, request # None,
                      ClassesOf[<<base, request>>] = {"protection_increase"}
               PROVE  "authority_increase" \in ClassesOf[<<request, base>>]
    BY DEF ProtectionIsOneWay
  <2>1. base \in Versions /\ request \in Versions
    BY DEF ReviewInv
  <2>2. ASSUME NEW v \in Versions, NEW w \in Versions
        PROVE  ClassesOf[<<v, w>>] =
                 IF Scannable(Documents[v]) /\ Scannable(Documents[w])
                 THEN Classes(Diff(Report(v), Report(w))) ELSE {}
    <3>1. /\ <<v, w>> \in Versions \X Versions
          /\ <<v, w>>[1] = v /\ <<v, w>>[2] = w
      OBVIOUS
    <3> QED
      BY <3>1 DEF ClassesOf
  <2>3. /\ Scannable(Documents[base]) /\ Scannable(Documents[request])
        /\ Classes(Diff(Report(base), Report(request))) = {"protection_increase"}
    BY <2>1, <2>2
  <2>4. PICK c \in Diff(Report(base), Report(request)) :
          c.class = "protection_increase"
    BY <2>3 DEF Classes
  <2>5. HasIncrease(Diff(Report(request), Report(base)))
    BY <2>1, <2>3, <2>4, DiffBack
  <2>6. ClassesOf[<<request, base>>] = Classes(Diff(Report(request), Report(base)))
    BY <2>1, <2>2, <2>3
  <2> QED
    BY <2>5, <2>6 DEF Classes, HasIncrease
<1> QED
  BY <1>1, ReviewInit, ReviewStep, PTL DEF Spec

---------------------------------------------------------------------------
(* What reading a sequence of names leaves of the budget.                  *)

(* Induction over the natural numbers, for a set.                          *)
LEMMA SetInduction ==
  ASSUME NEW P, 0 \in P, \A n \in Nat : n \in P => n + 1 \in P
  PROVE  \A n \in Nat : n \in P
<1> DEFINE R == OpToRel(<, Nat)
           T == Nat \ P
<1> SUFFICES ASSUME T # {} PROVE FALSE
  OBVIOUS
<1>1. IsWellFoundedOn(R, Nat)
  BY NatLessThanWellFounded
<1>2. \E x \in T : \A y \in T : ~(<<y, x>> \in R)
  <2> HIDE DEF R, T
  <2> T \subseteq Nat
    BY DEF T
  <2> QED BY <1>1, WFMin
<1>3. PICK x \in T : \A y \in T : ~(<<y, x>> \in R)
  BY <1>2
<1>4. x # 0 /\ x \in Nat
  OBVIOUS
<1>5. x - 1 \in Nat /\ (x - 1) + 1 = x
  BY <1>4
<1>6. x - 1 \in T
  BY <1>5
<1>7. <<x - 1, x>> \in R
  BY <1>4, <1>5 DEF OpToRel
<1> QED BY <1>3, <1>6, <1>7

FullBudget == [left |-> WorkLimit, cached |-> {}, refused |-> {}]

\* w follows the budget through the first n names
IsWork(w, names, n) ==
  w = [k \in 0..n |-> IF k = 0 THEN FullBudget
                      ELSE ReadName(w[k - 1], names[k])]

(* There is such an account of every sequence.                             *)
LEMMA WorkExists ==
  ASSUME NEW names
  PROVE  \A n \in Nat : \E w : IsWork(w, names, n)
<1> DEFINE P == {n \in Nat : \E w : IsWork(w, names, n)}
<1>1. 0 \in P
  <2> DEFINE w == [k \in 0..0 |-> FullBudget]
  <2>1. IsWork(w, names, 0)
    BY DEF IsWork
  <2> QED
    BY <2>1
<1>2. ASSUME NEW n \in Nat, n \in P PROVE n + 1 \in P
  <2>1. PICK w : IsWork(w, names, n)
    BY <1>2
  <2> DEFINE u == [k \in 0..(n + 1) |->
                     IF k = n + 1 THEN ReadName(w[n], names[n + 1]) ELSE w[k]]
  <2>2. \A k \in 0..(n + 1) :
          u[k] = IF k = 0 THEN FullBudget ELSE ReadName(u[k - 1], names[k])
    <3> SUFFICES ASSUME NEW k \in 0..(n + 1)
                 PROVE  u[k] = IF k = 0 THEN FullBudget
                               ELSE ReadName(u[k - 1], names[k])
      OBVIOUS
    <3>1. CASE k = n + 1
      <4>1. n \in 0..(n + 1) /\ n # n + 1 /\ k - 1 = n /\ k # 0
        BY <3>1
      <4>2. u[n] = w[n] /\ u[k] = ReadName(w[n], names[n + 1])
        BY <3>1, <4>1
      <4> QED
        BY <3>1, <4>1, <4>2
    <3>2. CASE k # n + 1
      <4>1. k \in 0..n /\ u[k] = w[k]
        BY <3>2
      <4>2. k # 0 => k - 1 \in 0..(n + 1) /\ k - 1 # n + 1
        BY <4>1
      <4>3. k # 0 => u[k - 1] = w[k - 1]
        BY <4>2
      <4> HIDE DEF u
      <4> QED
        BY <2>1, <4>1, <4>3 DEF IsWork
    <3> QED
      BY <3>1, <3>2
  <2>3. IsWork(u, names, n + 1)
    <3>1. u = [k \in 0..(n + 1) |-> u[k]]
      OBVIOUS
    <3> HIDE DEF u
    <3> QED
      BY <2>2, <3>1 DEF IsWork
  <2> QED
    BY <2>3
<1>3. \A n \in Nat : n \in P
  <2> HIDE DEF P
  <2> QED
    BY <1>1, <1>2, SetInduction
<1> QED
  BY <1>3

(* What was refused is what the account says.                              *)
LEMMA RefusedIs ==
  ASSUME NEW S, NEW names \in Seq(S)
  PROVE  \E w : /\ IsWork(w, names, Len(names))
                /\ Refused(names) = Oversize \cup w[Len(names)].refused
<1> DEFINE w == CHOOSE f : f = [k \in 0..Len(names) |->
                                  IF k = 0 THEN FullBudget
                                  ELSE ReadName(f[k - 1], names[k])]
<1>1. \E f : IsWork(f, names, Len(names))
  BY WorkExists
<1>2. IsWork(w, names, Len(names))
  BY <1>1 DEF IsWork
<1>3. Refused(names) = Oversize \cup w[Len(names)].refused
  BY DEF Refused, FullBudget
<1> QED
  BY <1>2, <1>3

\* what holds of the budget after the first k names
IsSpent(work, names, k) ==
  /\ work.left \in Nat /\ work.left <= WorkLimit
  /\ \A j \in 1..k : names[j] \in Oversize \cup work.cached \cup {NoName}
  /\ \A n \in work.cached : n \in work.refused \/ Cost[n] <= WorkLimit

(* One more name keeps it so.                                              *)
LEMMA ReadSpends ==
  ASSUME NEW work, NEW names, NEW k \in Nat, IsSpent(work, names, k),
         names[k + 1] \in Words \cup {NoName}
  PROVE  IsSpent(ReadName(work, names[k + 1]), names, k + 1)
<1> DEFINE n == names[k + 1]
<1>0. \A j \in 1..(k + 1) : j \in 1..k \/ j = k + 1
  OBVIOUS
<1>1. CASE n \in Oversize \cup work.cached \cup {NoName}
  <2>1. ReadName(work, n) = work
    BY <1>1 DEF ReadName
  <2> QED
    BY <1>0, <1>1, <2>1 DEF IsSpent
<1>2. CASE n \notin Oversize \cup work.cached \cup {NoName}
  <2> DEFINE next == ReadName(work, n)
  <2>1. /\ next.left = IF Cost[n] > work.left THEN 0 ELSE work.left - Cost[n]
        /\ next.cached = work.cached \cup {n}
        /\ next.refused = IF Cost[n] > work.left
                          THEN work.refused \cup {n} ELSE work.refused
    BY <1>2 DEF ReadName
  <2>2. Cost[n] \in Nat /\ WorkLimit \in Nat
    BY <1>2, InferenceAssumption
  <2> HIDE DEF next
  <2>3. next.left \in Nat /\ next.left <= WorkLimit
    <3> HIDE DEF n
    <3>1. work.left \in Nat /\ work.left <= WorkLimit
      BY DEF IsSpent
    <3> QED
      BY <2>1, <2>2, <3>1
  <2>4. \A j \in 1..(k + 1) : names[j] \in Oversize \cup next.cached \cup {NoName}
    BY <1>0, <2>1 DEF IsSpent
  <2>5. ASSUME NEW m \in next.cached
        PROVE  m \in next.refused \/ Cost[m] <= WorkLimit
    <3>1. CASE m \in work.cached
      BY <2>1, <3>1 DEF IsSpent
    <3>2. CASE m = n
      <4>1. work.left \in Nat /\ work.left <= WorkLimit
        BY DEF IsSpent
      <4> HIDE DEF n
      <4> QED
        BY <2>1, <2>2, <3>2, <4>1
    <3> QED
      BY <2>1, <2>5, <3>1, <3>2
  <2> QED
    BY <2>3, <2>4, <2>5 DEF IsSpent, next
<1> QED
  BY <1>1, <1>2

(* It holds after all of them.                                             *)
LEMMA WorkSpends ==
  ASSUME NEW names \in Seq(Words \cup {NoName}), NEW w,
         IsWork(w, names, Len(names))
  PROVE  IsSpent(w[Len(names)], names, Len(names))
<1> DEFINE N == Len(names)
           P == {k \in Nat : k <= N => IsSpent(w[k], names, k)}
<1>0. N \in Nat /\ DOMAIN names = 1..N
  OBVIOUS
<1>1. 0 \in P
  <2>1. w[0] = FullBudget
    BY <1>0 DEF IsWork
  <2>2. IsSpent(FullBudget, names, 0)
    BY InferenceAssumption DEF IsSpent, FullBudget
  <2> QED
    BY <2>1, <2>2
<1>2. ASSUME NEW k \in Nat, k \in P PROVE k + 1 \in P
  <2> SUFFICES ASSUME k + 1 <= N PROVE IsSpent(w[k + 1], names, k + 1)
    BY <1>2
  <2>1. IsSpent(w[k], names, k)
    BY <1>0, <1>2
  <2>2. k + 1 \in 0..N /\ k + 1 # 0 /\ (k + 1) - 1 = k /\ k + 1 \in 1..N
    BY <1>0
  <2>3. w[k + 1] = ReadName(w[k], names[k + 1])
    BY <2>2 DEF IsWork
  <2>4. names[k + 1] \in Words \cup {NoName}
    BY <1>0, <2>2
  <2> QED
    BY <2>1, <2>3, <2>4, ReadSpends
<1>3. N \in P
  <2>1. \A k \in Nat : k \in P
    <3> HIDE DEF P
    <3> QED
      BY <1>1, <1>2, SetInduction
  <2> QED
    BY <1>0, <2>1
<1> QED
  BY <1>0, <1>3

(* A name that was read and not refused fits a budget of its own.          *)
LEMMA ReadAlone ==
  ASSUME NEW names \in Seq(Words \cup {NoName}), NEW n \in Words,
         n \in ToSet(names), n \notin Refused(names)
  PROVE  n \notin Refused(<<n>>)
<1>1. PICK w : /\ IsWork(w, names, Len(names))
               /\ Refused(names) = Oversize \cup w[Len(names)].refused
  BY RefusedIs
<1>2. n \notin Oversize /\ Cost[n] <= WorkLimit
  <2>1. IsSpent(w[Len(names)], names, Len(names))
    BY <1>1, WorkSpends
  <2>2. n \in w[Len(names)].cached
    BY <1>1, <2>1, InferenceAssumption DEF IsSpent, ToSet
  <2> QED
    BY <1>1, <2>1, <2>2 DEF IsSpent
<1>3. <<n>> \in Seq(Words) /\ Len(<<n>>) = 1 /\ <<n>>[1] = n
  OBVIOUS
<1>4. PICK u : /\ IsWork(u, <<n>>, 1)
               /\ Refused(<<n>>) = Oversize \cup u[1].refused
  BY <1>3, RefusedIs
<1>5. u[0] = FullBudget /\ u[1] = ReadName(u[0], n)
  BY <1>3, <1>4 DEF IsWork
<1>6. Cost[n] \in Nat /\ WorkLimit \in Nat /\ n # NoName
  BY InferenceAssumption
<1>7. u[1].refused = {}
  BY <1>2, <1>5, <1>6 DEF ReadName, FullBudget
<1> QED
  BY <1>2, <1>4, <1>7

---------------------------------------------------------------------------
(* The names one scan reads.                                               *)

\* f concatenates the first n sequences, one after the other
IsFlat(f, seqs, n) ==
  f = [i \in 1..n |-> IF i = 1 THEN seqs[i] ELSE f[i - 1] \o seqs[i]]

(* There is such a function.                                               *)
LEMMA FlatExists ==
  ASSUME NEW seqs
  PROVE  \A n \in Nat : \E f : IsFlat(f, seqs, n)
<1> DEFINE P == {n \in Nat : \E f : IsFlat(f, seqs, n)}
<1>1. 0 \in P
  <2> DEFINE f == [i \in 1..0 |-> seqs[i]]
  <2>1. IsFlat(f, seqs, 0)
    BY DEF IsFlat
  <2> QED
    BY <2>1
<1>2. ASSUME NEW n \in Nat, n \in P PROVE n + 1 \in P
  <2>1. PICK f : IsFlat(f, seqs, n)
    BY <1>2
  <2> DEFINE Next1(g) == IF n + 1 = 1 THEN seqs[n + 1] ELSE g[n] \o seqs[n + 1]
             g == [i \in 1..(n + 1) |-> IF i = n + 1 THEN Next1(f) ELSE f[i]]
  <2>2. \A i \in 1..(n + 1) :
          g[i] = IF i = 1 THEN seqs[i] ELSE g[i - 1] \o seqs[i]
    <3> SUFFICES ASSUME NEW i \in 1..(n + 1)
                 PROVE  g[i] = IF i = 1 THEN seqs[i] ELSE g[i - 1] \o seqs[i]
      OBVIOUS
    <3>1. CASE i = n + 1
      <4>1. i # 1 => i - 1 = n /\ n \in 1..(n + 1) /\ n # n + 1
        BY <3>1
      <4>2. g[i] = Next1(f)
        BY <3>1
      <4>3. i # 1 => g[i - 1] = f[n]
        BY <4>1
      <4> HIDE DEF g
      <4> QED
        BY <3>1, <4>2, <4>3
    <3>2. CASE i # n + 1
      <4>1. i \in 1..n /\ g[i] = f[i]
        BY <3>2
      <4>2. i # 1 => i - 1 \in 1..(n + 1) /\ i - 1 # n + 1
        BY <4>1
      <4>3. i # 1 => g[i - 1] = f[i - 1]
        BY <4>2
      <4> HIDE DEF g
      <4> QED
        BY <2>1, <4>1, <4>3 DEF IsFlat
    <3> QED
      BY <3>1, <3>2
  <2>3. IsFlat(g, seqs, n + 1)
    <3>1. g = [i \in 1..(n + 1) |-> g[i]]
      OBVIOUS
    <3> HIDE DEF g
    <3> QED
      BY <2>2, <3>1 DEF IsFlat
  <2> QED
    BY <2>3
<1>3. \A n \in Nat : n \in P
  <2> HIDE DEF P
  <2> QED
    BY <1>1, <1>2, SetInduction
<1> QED
  BY <1>3

(* It holds what each of the sequences holds.                              *)
LEMMA FlatHolds ==
  ASSUME NEW S, NEW seqs \in Seq(Seq(S)), NEW f, IsFlat(f, seqs, Len(seqs))
  PROVE  \A k \in 1..Len(seqs) :
           /\ f[k] \in Seq(S)
           /\ \A i \in 1..k : ToSet(seqs[i]) \subseteq ToSet(f[k])
<1> DEFINE N == Len(seqs)
           Holds(k) == /\ f[k] \in Seq(S)
                       /\ \A i \in 1..k : ToSet(seqs[i]) \subseteq ToSet(f[k])
           P == {k \in Nat : k \in 1..N => Holds(k)}
<1>0. N \in Nat /\ \A i \in 1..N : seqs[i] \in Seq(S)
  OBVIOUS
<1>1. 0 \in P
  OBVIOUS
<1>2. ASSUME NEW k \in Nat, k \in P PROVE k + 1 \in P
  <2> SUFFICES ASSUME k + 1 \in 1..N PROVE Holds(k + 1)
    OBVIOUS
  <2>1. f[k + 1] = IF k + 1 = 1 THEN seqs[k + 1]
                   ELSE f[(k + 1) - 1] \o seqs[k + 1]
    BY DEF IsFlat
  <2>2. seqs[k + 1] \in Seq(S)
    BY <1>0
  <2>3. CASE k = 0
    <3>1. f[k + 1] = seqs[k + 1] /\ \A i \in 1..(k + 1) : i = k + 1
      BY <2>1, <2>3
    <3> QED
      BY <2>2, <3>1
  <2>4. CASE k # 0
    <3>1. k \in 1..N /\ (k + 1) - 1 = k /\ k + 1 # 1
      BY <2>4
    <3>2. Holds(k)
      BY <1>2, <3>1
    <3>3. f[k + 1] = f[k] \o seqs[k + 1]
      BY <2>1, <3>1
    <3> DEFINE a == f[k]
               b == seqs[k + 1]
    <3>4. a \in Seq(S) /\ b \in Seq(S)
      BY <2>2, <3>2
    <3> HIDE DEF a, b
    <3>5. a \o b \in Seq(S)
      BY <3>4
    <3>6. ToSet(a) \subseteq ToSet(a \o b)
      <4> SUFFICES ASSUME NEW j \in DOMAIN a PROVE a[j] \in ToSet(a \o b)
        BY DEF ToSet
      <4>1. j \in DOMAIN (a \o b) /\ (a \o b)[j] = a[j]
        BY <3>4
      <4> QED
        BY <4>1 DEF ToSet
    <3>7. ToSet(b) \subseteq ToSet(a \o b)
      <4> SUFFICES ASSUME NEW j \in DOMAIN b PROVE b[j] \in ToSet(a \o b)
        BY DEF ToSet
      <4>1. /\ Len(a) + j \in DOMAIN (a \o b)
            /\ (a \o b)[Len(a) + j] = b[j]
        BY <3>4
      <4> QED
        BY <4>1 DEF ToSet
    <3>8. \A i \in 1..(k + 1) : i \in 1..k \/ i = k + 1
      OBVIOUS
    <3> QED
      BY <3>2, <3>3, <3>5, <3>6, <3>7, <3>8 DEF a, b
  <2> QED
    BY <2>3, <2>4
<1>3. \A k \in Nat : k \in P
  <2> HIDE DEF P
  <2> QED
    BY <1>1, <1>2, SetInduction
<1> HIDE DEF Holds
<1>4. \A k \in 1..N : Holds(k)
  BY <1>0, <1>3
<1> QED
  BY <1>4 DEF Holds

(* So does the library's concatenation.                                    *)
LEMMA FlattenHolds ==
  ASSUME NEW S, NEW seqs \in Seq(Seq(S))
  PROVE  /\ FlattenSeq(seqs) \in Seq(S)
         /\ \A i \in DOMAIN seqs : ToSet(seqs[i]) \subseteq ToSet(FlattenSeq(seqs))
<1> DEFINE N == Len(seqs)
           f == CHOOSE g : g = [i \in 1..N |-> IF i = 1 THEN seqs[i]
                                               ELSE g[i - 1] \o seqs[i]]
<1>0. N \in Nat /\ DOMAIN seqs = 1..N
  OBVIOUS
<1>1. CASE N = 0
  <2>1. FlattenSeq(seqs) = seqs /\ seqs = <<>>
    BY <1>1 DEF FlattenSeq
  <2> QED
    BY <1>0, <1>1, <2>1
<1>2. CASE N # 0
  <2>1. \E g : IsFlat(g, seqs, N)
    BY <1>0, FlatExists
  <2>2. IsFlat(f, seqs, N)
    BY <2>1 DEF IsFlat
  <2>3. FlattenSeq(seqs) = f[N]
    BY <1>2 DEF FlattenSeq
  <2> HIDE DEF f
  <2>4. N \in 1..N
    BY <1>0, <1>2
  <2> QED
    BY <1>0, <2>2, <2>3, <2>4, FlatHolds
<1> QED
  BY <1>1, <1>2

\* the names of one tool, in the order they are read
NamesOfTool(tool) ==
  <<tool.name>> \o [j \in DOMAIN tool.props |-> tool.props[j].name]
NamesOfDoc(doc) ==
  FlattenSeq([i \in DOMAIN doc.tools |-> NamesOfTool(doc.tools[i])])

(* The scanner reads every name of a document.                             *)
LEMMA RegistryNames ==
  ASSUME NEW doc
  PROVE  NamesRead(ScanRegistry(doc)) = NamesOfDoc(doc)
<1> DEFINE tools == ScanRegistry(doc)
           of(i) == <<tools[i].name>> \o
                      [j \in DOMAIN tools[i].params |->
                         IF ReadsName(tools[i].params[j])
                         THEN tools[i].params[j].name ELSE NoName]
<1>1. DOMAIN tools = DOMAIN doc.tools
  BY DEF ScanRegistry
<1>2. ASSUME NEW i \in DOMAIN doc.tools
      PROVE  of(i) = NamesOfTool(doc.tools[i])
  <2> DEFINE tool == doc.tools[i]
             params == tools[i].params
  <2>1. tools[i] = RegistryTool(doc, tool)
    BY DEF ScanRegistry
  <2> HIDE DEF tools
  <2>2. /\ tools[i].name = tool.name
        /\ params = [j \in DOMAIN tool.props |-> ScanParam(tool.props[j])]
    BY <2>1 DEF RegistryTool
  <2> HIDE DEF params, tool
  <2>3. DOMAIN params = DOMAIN tool.props
    BY <2>2
  <2>4. \A j \in DOMAIN tool.props :
          ReadsName(params[j]) /\ params[j].name = tool.props[j].name
    BY <2>2 DEF ScanParam, ReadsName
  <2>5. [j \in DOMAIN params |->
           IF ReadsName(params[j]) THEN params[j].name ELSE NoName]
          = [j \in DOMAIN tool.props |-> tool.props[j].name]
    BY <2>3, <2>4
  <2>6. of(i) = NamesOfTool(tool)
    BY <2>2, <2>5 DEF NamesOfTool, params
  <2> QED
    BY <2>6 DEF tool
<1>3. NamesRead(tools) = FlattenSeq([i \in DOMAIN tools |-> of(i)])
  BY DEF NamesRead
<1> HIDE DEF tools, of
<1>4. [i \in DOMAIN tools |-> of(i)]
        = [i \in DOMAIN doc.tools |-> NamesOfTool(doc.tools[i])]
  BY <1>1, <1>2
<1> QED
  BY <1>3, <1>4 DEF NamesOfDoc, tools

\* what the scanner derives from a document, and the report of its k-th tool
SetOf(doc) == BuildPolicySet(ScanRegistry(doc))
Unread(doc) == Incomplete(ScanRegistry(doc))
RowOfTool(doc, k) == ToolReport(doc, doc.tools[k], SetOf(doc), Unread(doc))

(* The report of a document, tool by tool.                                 *)
LEMMA ScanIs ==
  ASSUME NEW doc
  PROVE  Scan(doc) = [k \in DOMAIN doc.tools |-> RowOfTool(doc, k)]
  BY DEF Scan, RowOfTool, SetOf, Unread

(* So does the validator, from the report.                                 *)
LEMMA ReportNames ==
  ASSUME NEW doc
  PROVE  NamesIn(Scan(doc)) = NamesOfDoc(doc)
<1> DEFINE report == Scan(doc)
           of(i) == <<report[i].name>> \o
                      [j \in DOMAIN report[i].arguments |->
                         report[i].arguments[j].name]
<1>1. report = [k \in DOMAIN doc.tools |-> RowOfTool(doc, k)]
  BY ScanIs
<1>2. DOMAIN report = DOMAIN doc.tools
  BY <1>1
<1>3. ASSUME NEW i \in DOMAIN doc.tools
      PROVE  of(i) = NamesOfTool(doc.tools[i])
  <2> DEFINE tool == doc.tools[i]
             set == SetOf(doc)
             incomplete == Unread(doc)
             rows == RowsOf(doc, tool, set, incomplete)
  <2>1. report[i] = ToolReport(doc, tool, set, incomplete)
    BY <1>1 DEF RowOfTool
  <2> HIDE DEF report, set, incomplete, tool
  <2>2. report[i].name = tool.name /\ report[i].arguments = rows
    BY <2>1, ReportFields
  <2>3. /\ DOMAIN rows = DOMAIN tool.props
        /\ \A j \in DOMAIN tool.props : rows[j].name = tool.props[j].name
    BY DEF RowsOf, ArgumentRow
  <2> HIDE DEF rows
  <2>4. [j \in DOMAIN rows |-> rows[j].name]
          = [j \in DOMAIN tool.props |-> tool.props[j].name]
    BY <2>3
  <2>5. of(i) = NamesOfTool(tool)
    BY <2>2, <2>4 DEF NamesOfTool
  <2> QED
    BY <2>5 DEF tool
<1>4. NamesIn(report) = FlattenSeq([i \in DOMAIN report |-> of(i)])
  BY DEF NamesIn
<1> HIDE DEF report, of
<1>5. [i \in DOMAIN report |-> of(i)]
        = [i \in DOMAIN doc.tools |-> NamesOfTool(doc.tools[i])]
  BY <1>2, <1>3
<1> QED
  BY <1>4, <1>5 DEF NamesOfDoc, report

(* Every document's tools and properties are in order.                     *)
LEMMA DocumentIs ==
  ASSUME NEW v \in Versions
  PROVE  LET doc == Documents[v]
         IN /\ DOMAIN doc.tools = 1..Len(doc.tools) /\ Len(doc.tools) \in Nat
            /\ \A k \in DOMAIN doc.tools :
                 /\ doc.tools[k].name \in Words
                 /\ DOMAIN doc.tools[k].props = 1..Len(doc.tools[k].props)
                 /\ Len(doc.tools[k].props) \in Nat
                 /\ \A i \in DOMAIN doc.tools[k].props :
                      IsProperty(doc.tools[k].props[i])
<1>1. IsDocument(Documents[v])
  BY ReviewAssumption DEF Versions
<1>2. ASSUME NEW s, IsSequence(s)
      PROVE  DOMAIN s = 1..Len(s) /\ Len(s) \in Nat
  <2> DEFINE S == ToSet(s)
  <2> HIDE DEF S
  <2> QED
    BY <1>2 DEF IsSequence, S
<1> QED
  BY <1>1, <1>2 DEF IsDocument

(* A tool's name is among the names read, and if it was not refused there  *)
(* it is not refused on a budget of its own.                               *)
LEMMA ToolReadAlone ==
  ASSUME NEW v \in Versions, NEW k \in DOMAIN Documents[v].tools
  PROVE  LET t == Documents[v].tools[k].name
         IN t \notin Unread(Documents[v]) => t \notin Refused(<<t>>)
<1> DEFINE doc == Documents[v]
           t == doc.tools[k].name
           S == Words \cup {NoName}
           seqs == [i \in DOMAIN doc.tools |-> NamesOfTool(doc.tools[i])]
<1>1. ASSUME NEW i \in DOMAIN doc.tools
      PROVE  /\ NamesOfTool(doc.tools[i]) \in Seq(S)
             /\ doc.tools[i].name \in ToSet(NamesOfTool(doc.tools[i]))
  <2> DEFINE tool == doc.tools[i]
             rest == [j \in DOMAIN tool.props |-> tool.props[j].name]
  <2>1. /\ tool.name \in S
        /\ DOMAIN tool.props = 1..Len(tool.props) /\ Len(tool.props) \in Nat
        /\ \A j \in DOMAIN tool.props : tool.props[j].name \in S
    BY DocumentIs DEF IsProperty
  <2> HIDE DEF tool, S
  <2>2. rest \in Seq(S)
    BY <2>1
  <2> HIDE DEF rest
  <2>3. <<tool.name>> \in Seq(S)
    BY <2>1
  <2>4. /\ <<tool.name>> \o rest \in Seq(S)
        /\ 1 \in DOMAIN (<<tool.name>> \o rest)
        /\ (<<tool.name>> \o rest)[1] = tool.name
    BY <2>2, <2>3
  <2>5. /\ NamesOfTool(tool) \in Seq(S)
        /\ 1 \in DOMAIN NamesOfTool(tool)
        /\ NamesOfTool(tool)[1] = tool.name
    BY <2>4 DEF NamesOfTool, rest
  <2>6. tool.name \in ToSet(NamesOfTool(tool))
    BY <2>5 DEF ToSet
  <2> QED
    BY <2>5, <2>6 DEF tool
<1>2. seqs \in Seq(Seq(S))
  <2>1. DOMAIN doc.tools = 1..Len(doc.tools) /\ Len(doc.tools) \in Nat
    BY DocumentIs
  <2> HIDE DEF doc, S
  <2> QED
    BY <1>1, <2>1
<1>3. DOMAIN seqs = DOMAIN doc.tools /\ seqs[k] = NamesOfTool(doc.tools[k])
  OBVIOUS
<1> HIDE DEF seqs
<1>4. /\ FlattenSeq(seqs) \in Seq(S)
      /\ t \in ToSet(FlattenSeq(seqs))
  <2>1. t \in ToSet(seqs[k]) /\ k \in DOMAIN seqs
    BY <1>1, <1>3
  <2> HIDE DEF t, S, doc
  <2> QED
    BY <1>2, <2>1, FlattenHolds
<1>5. NamesOfDoc(doc) = FlattenSeq(seqs)
  BY DEF NamesOfDoc, seqs
<1>6. Unread(doc) = Refused(NamesOfDoc(doc))
  BY RegistryNames DEF Incomplete, Unread
<1>7. t \in Words
  BY DocumentIs
<1> HIDE DEF t, doc
<1>8. t \notin Refused(NamesOfDoc(doc)) => t \notin Refused(<<t>>)
  BY <1>4, <1>5, <1>7, ReadAlone DEF S
<1> QED
  BY <1>6, <1>8 DEF t, doc

---------------------------------------------------------------------------
(* What the scanner derives of one tool.                                   *)

(* Names are unique, so that a name stands for its tool.                   *)
LEMMA ScannedTool ==
  ASSUME NEW doc, Scannable(doc), NEW k \in DOMAIN doc.tools
  PROVE  /\ ToolOf(doc.tools, doc.tools[k].name) = doc.tools[k]
         /\ ToolOf(ScanRegistry(doc), doc.tools[k].name)
              = RegistryTool(doc, doc.tools[k])
         /\ doc.tools[k].name \in ToolNames(ScanRegistry(doc))
<1> DEFINE tools == ScanRegistry(doc)
           t == doc.tools[k].name
<1>1. /\ DOMAIN tools = DOMAIN doc.tools
      /\ \A j \in DOMAIN doc.tools : /\ tools[j] = RegistryTool(doc, doc.tools[j])
                                     /\ tools[j].name = doc.tools[j].name
  BY DEF ScanRegistry, RegistryTool
<1>2. \A j \in DOMAIN doc.tools : doc.tools[j].name = t => j = k
  BY DEF Scannable, IsInjective
<1> HIDE DEF tools, t
<1>3. (CHOOSE j \in DOMAIN doc.tools : doc.tools[j].name = t) = k
  BY <1>2 DEF t
<1>4. (CHOOSE j \in DOMAIN tools : tools[j].name = t) = k
  BY <1>1, <1>2 DEF t
<1>5. ToolOf(doc.tools, t) = doc.tools[k]
  BY <1>3 DEF ToolOf
<1>6. ToolOf(tools, t) = RegistryTool(doc, doc.tools[k])
  BY <1>1, <1>4 DEF ToolOf
<1>7. t \in ToolNames(tools)
  BY <1>1 DEF ToolNames, t
<1> QED
  BY <1>5, <1>6, <1>7 DEF tools, t

(* The fields of a policy set that speak of a tool.                        *)
LEMMA DerivedTool ==
  ASSUME NEW tools, NEW t \in ToolNames(tools)
  PROVE  /\ BuildPolicySet(tools).risk[t]
              = EffectiveTier(ToolOf(tools, t), Incomplete(tools))
         /\ BuildPolicySet(tools).evidence[t] = InferRisk(t, Incomplete(tools))
         /\ t \in BuildPolicySet(tools).confirm
              <=> ConfirmsByTier(ToolOf(tools, t), Incomplete(tools))
         /\ t \in BuildPolicySet(tools).riskReview
              <=> Unresolved(ToolOf(tools, t), Incomplete(tools))
         /\ t \in BuildPolicySet(tools).conflicts
              <=> Conflicts(ToolOf(tools, t), Incomplete(tools))
<1> DEFINE set == BuildPolicySet(tools)
           incomplete == Incomplete(tools)
<1>1. /\ set.risk = [x \in ToolNames(tools) |->
                       EffectiveTier(ToolOf(tools, x), incomplete)]
      /\ set.evidence = [x \in ToolNames(tools) |-> InferRisk(x, incomplete)]
  BY DEF BuildPolicySet, Derive
<1>2. set.confirm = {x \in ToolNames(tools) :
                       ConfirmsByTier(ToolOf(tools, x), incomplete)}
  BY DEF BuildPolicySet, Derive
<1>3. set.riskReview = {x \in ToolNames(tools) :
                          Unresolved(ToolOf(tools, x), incomplete)}
  BY DEF BuildPolicySet, Derive
<1>4. set.conflicts = {x \in ToolNames(tools) :
                         Conflicts(ToolOf(tools, x), incomplete)}
  BY DEF BuildPolicySet, Derive
<1> HIDE DEF set, incomplete
<1>5. /\ set.risk[t] = EffectiveTier(ToolOf(tools, t), incomplete)
      /\ set.evidence[t] = InferRisk(t, incomplete)
  BY <1>1
<1> QED
  BY <1>2, <1>3, <1>4, <1>5 DEF set, incomplete

(* Those that speak of a parameter.                                        *)
LEMMA DerivedParam ==
  ASSUME NEW tools, NEW q \in Pairs(tools)
  PROVE  LET tool == ToolOf(tools, q[1])
             p == ParamOf(tool, q[2])
             relaxes == BuildRelaxes(tool, p, Incomplete(tools))
             set == BuildPolicySet(tools)
         IN /\ set.policy[q] = IF relaxes THEN "typed_bounded"
                               ELSE InferPolicy(p, Incomplete(tools)).policy
            /\ q \in set.review <=>
                 ~relaxes /\ Uncertain(p, Incomplete(tools))
<1> DEFINE tool == ToolOf(tools, q[1])
           p == ParamOf(tool, q[2])
           incomplete == Incomplete(tools)
           relaxed == Relaxed(tools, "build")
           set == BuildPolicySet(tools)
<1>1. q \in relaxed <=> BuildRelaxes(tool, p, incomplete)
  BY DEF Relaxed
<1>2. set.policy = [x \in Pairs(tools) |->
                      IF x \in relaxed THEN "typed_bounded"
                      ELSE InferPolicy(ParamOf(ToolOf(tools, x[1]), x[2]),
                                       incomplete).policy]
  BY DEF BuildPolicySet, Derive
<1>3. set.review = {x \in Pairs(tools) \ relaxed :
                      Uncertain(ParamOf(ToolOf(tools, x[1]), x[2]), incomplete)}
  BY DEF BuildPolicySet, Derive
<1> HIDE DEF relaxed, set, incomplete
<1>4. set.policy[q] = IF q \in relaxed THEN "typed_bounded"
                      ELSE InferPolicy(p, incomplete).policy
  BY <1>2
<1>5. q \in set.review <=> q \notin relaxed /\ Uncertain(p, incomplete)
  BY <1>3
<1> HIDE DEF tool, p
<1>6. /\ set.policy[q] = IF BuildRelaxes(tool, p, incomplete) THEN "typed_bounded"
                         ELSE InferPolicy(p, incomplete).policy
      /\ q \in set.review <=>
           ~BuildRelaxes(tool, p, incomplete) /\ Uncertain(p, incomplete)
  BY <1>1, <1>4, <1>5
<1> QED
  BY <1>6 DEF tool, p, set, incomplete

\* whether the declaration of a tool relaxes its i-th argument
Relaxes(doc, k, i) ==
  BuildRelaxes(RegistryTool(doc, doc.tools[k]),
               ScanParam(doc.tools[k].props[i]), Unread(doc))
VerdictOn(doc, k, i) ==
  InferPolicy(ScanParam(doc.tools[k].props[i]), Unread(doc))
PairOf(doc, k, i) == <<doc.tools[k].name, doc.tools[k].props[i].name>>

(* Property names are unique too.                                          *)
LEMMA ScannedParam ==
  ASSUME NEW doc, Scannable(doc), NEW k \in DOMAIN doc.tools,
         NEW i \in DOMAIN doc.tools[k].props
  PROVE  /\ SetOf(doc).policy[PairOf(doc, k, i)]
              = IF Relaxes(doc, k, i) THEN "typed_bounded"
                ELSE VerdictOn(doc, k, i).policy
         /\ PairOf(doc, k, i) \in SetOf(doc).review <=>
              /\ ~Relaxes(doc, k, i)
              /\ VerdictOn(doc, k, i).confidence = "uncertain"
<1> DEFINE tools == ScanRegistry(doc)
           tool == doc.tools[k]
           registered == RegistryTool(doc, tool)
           p == tool.props[i]
           q == PairOf(doc, k, i)
<1>1. /\ registered.name = tool.name
      /\ registered.params = [j \in DOMAIN tool.props |-> ScanParam(tool.props[j])]
  BY DEF RegistryTool
<1>2. \A j \in DOMAIN tool.props : tool.props[j].name = p.name => j = i
  BY DEF Scannable, PropertiesFit, IsInjective
<1>3. \A x : ScanParam(x).name = x.name
  BY DEF ScanParam
<1>4. q[1] = tool.name /\ q[2] = p.name
  BY DEF PairOf
<1>5. ToolOf(tools, q[1]) = registered
  BY <1>4, ScannedTool
<1>6. k \in DOMAIN tools /\ tools[k] = registered
  BY DEF ScanRegistry
<1>7. i \in DOMAIN tool.props
  OBVIOUS
<1>8. q = <<tool.name, p.name>>
  BY DEF PairOf
<1> HIDE DEF tools, registered, q
<1>9. ParamOf(registered, p.name) = ScanParam(p)
  <2>1. /\ DOMAIN registered.params = DOMAIN tool.props
        /\ \A j \in DOMAIN tool.props :
             /\ registered.params[j] = ScanParam(tool.props[j])
             /\ registered.params[j].name = tool.props[j].name
    BY <1>1, <1>3
  <2> HIDE DEF tool
  <2>2. (CHOOSE j \in DOMAIN registered.params :
           registered.params[j].name = p.name) = i
    BY <1>2, <1>7, <2>1
  <2> QED
    BY <1>7, <2>1, <2>2 DEF ParamOf
<1>10. q \in Pairs(tools)
  <2>1. p.name \in NamesOf(registered.params)
    BY <1>1, <1>3, <1>7 DEF NamesOf
  <2> HIDE DEF tool, p
  <2> QED
    BY <1>1, <1>6, <1>8, <2>1 DEF Pairs
<1>11. /\ SetOf(doc).policy[q]
            = IF BuildRelaxes(registered, ScanParam(p), Unread(doc))
              THEN "typed_bounded"
              ELSE InferPolicy(ScanParam(p), Unread(doc)).policy
       /\ q \in SetOf(doc).review <=>
            /\ ~BuildRelaxes(registered, ScanParam(p), Unread(doc))
            /\ Uncertain(ScanParam(p), Unread(doc))
  <2> HIDE DEF tool, p
  <2> QED
    BY <1>4, <1>5, <1>9, <1>10, DerivedParam DEF SetOf, Unread, tools
<1> QED
  BY <1>11 DEF Relaxes, VerdictOn, Uncertain, registered, q

(* The fields of a tool's report that the validator derives again.         *)
LEMMA UnbranchedRisk ==
  ASSUME NEW doc, NEW tool, NEW set, NEW incomplete, NEW report, NEW controls,
         report = ToolReport(doc, tool, set, incomplete),
         controls = Controls(doc, tool.name), controls.branches = Absent
  PROVE  /\ report.risk = set.risk[tool.name]
         /\ report.riskSource =
              IF tool.name \in set.conflicts THEN "conflict_safe_default"
              ELSE IF /\ controls.risk # Absent
                      /\ set.evidence[tool.name] # "inference_limit"
              THEN "control_declaration" ELSE "safe_default"
         /\ report.riskEvidence =
              IF /\ controls.risk # Absent /\ tool.name \notin set.conflicts
                 /\ set.evidence[tool.name] # "inference_limit"
              THEN controls.risk.evidence ELSE Absent
         /\ report.inferred = set.evidence[tool.name]
         /\ report.declaredRisk = controls.risk
         /\ report.riskConflict = (tool.name \in set.conflicts)
         /\ report.riskReview = (tool.name \in set.riskReview)
         /\ report.confirm = (tool.name \in set.confirm)
<1>1. /\ report.risk = IF controls.branches # Absent
                       THEN WorstBranchRisk(controls.branches)
                       ELSE set.risk[tool.name]
      /\ report.inferred = set.evidence[tool.name]
      /\ report.declaredRisk = controls.risk
  BY DEF ToolReport, Findings
<1>2. report.riskSource =
        IF controls.branches # Absent THEN "branch_control_declaration"
        ELSE IF ~(controls.branches # Absent) /\ tool.name \in set.conflicts
        THEN "conflict_safe_default"
        ELSE IF /\ controls.risk # Absent
                /\ ~(set.evidence[tool.name] = "inference_limit")
        THEN "control_declaration" ELSE "safe_default"
  BY DEF ToolReport, Findings
<1>3. report.riskEvidence =
        IF /\ controls.risk # Absent
           /\ ~(~(controls.branches # Absent) /\ tool.name \in set.conflicts)
           /\ ~(set.evidence[tool.name] = "inference_limit")
        THEN controls.risk.evidence ELSE Absent
  BY DEF ToolReport, Findings
<1>4. report.riskConflict =
        (~(controls.branches # Absent) /\ tool.name \in set.conflicts)
  BY DEF ToolReport, Findings
<1>5. report.riskReview =
        (~(controls.branches # Absent) /\ tool.name \in set.riskReview)
  BY DEF ToolReport, Findings
<1>6. report.confirm =
        IF controls.branches # Absent
        THEN \E c \in ToSet(controls.branches.cases) :
               c.risk.tier \in NEEDS_CONFIRM
        ELSE tool.name \in set.confirm
  BY DEF ToolReport, Findings
<1>7. /\ report.risk = set.risk[tool.name]
      /\ report.riskSource =
           IF tool.name \in set.conflicts THEN "conflict_safe_default"
           ELSE IF /\ controls.risk # Absent
                   /\ set.evidence[tool.name] # "inference_limit"
           THEN "control_declaration" ELSE "safe_default"
      /\ report.riskEvidence =
           IF /\ controls.risk # Absent /\ tool.name \notin set.conflicts
              /\ set.evidence[tool.name] # "inference_limit"
           THEN controls.risk.evidence ELSE Absent
  BY <1>1, <1>2, <1>3
<1>8. report.riskConflict = (tool.name \in set.conflicts)
  BY <1>4
<1>9. report.riskReview = (tool.name \in set.riskReview)
  BY <1>5
<1>10. report.confirm = (tool.name \in set.confirm)
  BY <1>6
<1> QED
  BY <1>1, <1>7, <1>8, <1>9, <1>10

(* Branches decide the risk that is reported of their tool.                *)
LEMMA BranchedRisk ==
  ASSUME NEW doc, NEW tool, NEW set, NEW incomplete, NEW report, NEW controls,
         report = ToolReport(doc, tool, set, incomplete),
         controls = Controls(doc, tool.name), controls.branches # Absent
  PROVE  /\ report.risk = WorstBranchRisk(controls.branches)
         /\ report.riskSource = "branch_control_declaration"
         /\ controls.risk = Absent => report.riskEvidence = Absent
         /\ report.declaredRisk = controls.risk
         /\ ~report.riskConflict /\ ~report.riskReview /\ ~report.branchReview
         /\ report.branches = BranchReport(controls.branches)
  BY DEF ToolReport, Findings

\* some case of the branches asks for confirmation
AsksSomewhere(branches) ==
  \E c \in ToSet(branches.cases) : c.risk.tier \in NEEDS_CONFIRM

(* They ask for confirmation where one of their cases does.                *)
LEMMA BranchedConfirm ==
  ASSUME NEW doc, NEW tool, NEW set, NEW incomplete, NEW report, NEW controls,
         report = ToolReport(doc, tool, set, incomplete),
         controls = Controls(doc, tool.name), controls.branches # Absent
  PROVE  report.confirm = AsksSomewhere(controls.branches)
<1>1. report.confirm = IF controls.branches # Absent
                       THEN \E c \in ToSet(controls.branches.cases) :
                              c.risk.tier \in NEEDS_CONFIRM
                       ELSE tool.name \in set.confirm
  BY DEF ToolReport, Findings
<1> QED
  BY <1>1 DEF AsksSomewhere

(* What a tool's name suggests is reported as it was derived.              *)
LEMMA ReportedInference ==
  ASSUME NEW doc, NEW tool, NEW set, NEW incomplete
  PROVE  ToolReport(doc, tool, set, incomplete).inferred = set.evidence[tool.name]
  BY DEF ToolReport, Findings

(* So are what is said of its hints and of the arguments it does not show. *)
LEMMA ReportedRest ==
  ASSUME NEW doc, NEW tool, NEW set, NEW incomplete, NEW report, NEW controls,
         report = ToolReport(doc, tool, set, incomplete),
         controls = Controls(doc, tool.name)
  PROVE  /\ report.assessments = Assessments(tool.hints, report.risk)
         /\ report.unexposed = controls.unexposed
<1>1. report.assessments = Assessments(tool.hints, report.risk)
  BY DEF ToolReport, Findings
<1>2. report.unexposed = controls.unexposed
  BY DEF ToolReport, Findings
<1> QED
  BY <1>1, <1>2

(* Arguments the schema does not show need a review of an open one.        *)
LEMMA ReportedSchema ==
  ASSUME NEW doc, NEW tool, NEW set, NEW incomplete, NEW report, NEW controls,
         report = ToolReport(doc, tool, set, incomplete),
         controls = Controls(doc, tool.name),
         controls.unexposed # <<>>, ~report.closes
  PROVE  report.schemaReview
<1> DEFINE closes == ClosesUnknownArguments(tool)
<1>1. report.closes = closes
  BY DEF ToolReport, Findings
<1>2. report.schemaReview =
        \/ SchemaNeedsReview(tool)
        \/ controls.unexposed # <<>> /\ ~closes
  BY DEF ToolReport, Findings
<1> HIDE DEF closes
<1> QED
  BY <1>1, <1>2

(* A tool without branches is reviewed for those it may lack.              *)
LEMMA UnbranchedReview ==
  ASSUME NEW doc, NEW tool, NEW set, NEW incomplete, NEW report, NEW controls,
         report = ToolReport(doc, tool, set, incomplete),
         controls = Controls(doc, tool.name), controls.branches = Absent
  PROVE  /\ report.branches = Absent
         /\ report.branchReview =
              BranchSelectorCandidate(tool, controls, report.risk, incomplete)
<1> DEFINE candidate ==
             BranchSelectorCandidate(tool, controls, report.risk, incomplete)
<1>1. report.branches = IF controls.branches # Absent
                        THEN BranchReport(controls.branches) ELSE Absent
  BY DEF ToolReport, Findings
<1>2. report.branchReview = (~(controls.branches # Absent) /\ candidate)
  BY DEF ToolReport, Findings
<1>3. candidate \in BOOLEAN
  BY DEF BranchSelectorCandidate
<1> HIDE DEF candidate
<1>4. report.branchReview = candidate
  BY <1>2, <1>3
<1> QED
  BY <1>1, <1>4 DEF candidate

(* The obligations of a report are those its own fields leave open.        *)
LEMMA ReportedDebt ==
  ASSUME NEW doc, NEW tool, NEW set, NEW incomplete
  PROVE  ReviewFits(ToolReport(doc, tool, set, incomplete))
<1> DEFINE report == ToolReport(doc, tool, set, incomplete)
           inner == Findings(doc, tool, set, incomplete)
<1>1. {"arguments", "schemaReview", "riskReview", "riskConflict",
       "assessments", "branchReview"} \subseteq DOMAIN inner
  BY DEF Findings
<1>2. report = [field \in DOMAIN inner \cup {"review", "sources"} |->
                  CASE field = "review" -> InDebt(ReviewSources(inner))
                    [] field = "sources" -> ReviewSources(inner)
                    [] OTHER -> inner[field]]
  BY DEF ToolReport
<1> HIDE DEF report, inner
<1>3. /\ report.review = InDebt(ReviewSources(inner))
      /\ report.sources = ReviewSources(inner)
      /\ report.arguments = inner.arguments
      /\ report.schemaReview = inner.schemaReview
      /\ report.riskReview = inner.riskReview
      /\ report.riskConflict = inner.riskConflict
      /\ report.assessments = inner.assessments
      /\ report.branchReview = inner.branchReview
  BY <1>1, <1>2
<1>4. ReviewSources(report) = ReviewSources(inner)
  BY <1>3 DEF ReviewSources
<1> QED
  BY <1>3, <1>4 DEF ReviewFits, report

---------------------------------------------------------------------------
(* What the validator derives of one tool.                                 *)

(* The controls of each tool fit it, the ones that are missing too.        *)
LEMMA ControlsOfTool ==
  ASSUME NEW doc, Scannable(doc), NEW k \in DOMAIN doc.tools,
         NEW controls, controls = Controls(doc, doc.tools[k].name)
  PROVE  /\ controls.risk # Absent => RiskFits(controls.risk)
         /\ controls.branches # Absent => BranchesFit(doc.tools[k], controls)
         /\ ArgumentsFit(doc.tools[k], controls)
         /\ UnexposedFit(doc.tools[k], controls)
<1> DEFINE t == doc.tools[k].name
<1>1. CASE t \in DOMAIN doc.controls
  <2>1. controls = doc.controls[t]
    BY <1>1 DEF Controls
  <2>2. ToolOf(doc.tools, t) = doc.tools[k]
    BY ScannedTool
  <2> QED
    BY <1>1, <2>1, <2>2 DEF Scannable, ControlsFit
<1>2. CASE t \notin DOMAIN doc.controls
  <2>1. controls = [risk |-> Absent, branches |-> Absent, arguments |-> <<>>,
                    unexposed |-> <<>>]
    BY <1>2 DEF Controls
  <2>2. /\ controls.risk = Absent /\ controls.branches = Absent
        /\ DOMAIN controls.arguments = {} /\ DOMAIN controls.unexposed = {}
    BY <2>1
  <2> QED
    BY <2>2 DEF ArgumentsFit, UnexposedFit
<1> QED
  BY <1>1, <1>2

(* A name that was read has a tier as evidence.                            *)
LEMMA InferredRisk ==
  ASSUME NEW n, NEW incomplete
  PROVE  IF n \in incomplete THEN InferRisk(n, incomplete) = "inference_limit"
         ELSE InferRisk(n, incomplete) \in Tiers
  BY DEF InferRisk, SelectInSeq, RiskOrder, Tiers, Says, Min

(* The risk of a tool without branches.                                    *)
LEMMA RiskRow ==
  ASSUME NEW doc, Scannable(doc), NEW k \in DOMAIN doc.tools,
         Controls(doc, doc.tools[k].name).branches = Absent
  PROVE  RiskRowFits(RowOfTool(doc, k))
<1> DEFINE t == doc.tools[k].name
           declared == Controls(doc, t).risk
           registered == RegistryTool(doc, doc.tools[k])
           incomplete == Unread(doc)
           set == SetOf(doc)
           inferred == InferRisk(t, incomplete)
           report == RowOfTool(doc, k)
<1>1. /\ registered.name = t
      /\ registered.risk = IF declared = Absent THEN "undeclared"
                           ELSE declared.tier
  BY DEF RegistryTool
<1>2. declared # Absent =>
        /\ declared.tier \in Tiers /\ declared.tier # "unknown"
        /\ declared.tier # "undeclared"
  BY ControlsOfTool DEF RiskFits, DeclarableRisks, Tiers
<1>3. /\ set.risk[t] = EffectiveTier(registered, incomplete)
      /\ set.evidence[t] = inferred
      /\ t \in set.confirm <=> ConfirmsByTier(registered, incomplete)
      /\ t \in set.riskReview <=> Unresolved(registered, incomplete)
      /\ t \in set.conflicts <=> Conflicts(registered, incomplete)
  <2>1. /\ t \in ToolNames(ScanRegistry(doc))
        /\ ToolOf(ScanRegistry(doc), t) = registered
    BY ScannedTool
  <2> QED
    BY <2>1, DerivedTool DEF SetOf, Unread
<1>4. IF t \in incomplete THEN inferred = "inference_limit"
      ELSE inferred \in Tiers
  BY InferredRisk
<1> HIDE DEF set, inferred, incomplete, declared
<1>5. /\ report.risk = set.risk[t]
      /\ report.riskSource =
           IF t \in set.conflicts THEN "conflict_safe_default"
           ELSE IF declared # Absent /\ set.evidence[t] # "inference_limit"
           THEN "control_declaration" ELSE "safe_default"
      /\ report.riskEvidence =
           IF /\ declared # Absent /\ t \notin set.conflicts
              /\ set.evidence[t] # "inference_limit"
           THEN declared.evidence ELSE Absent
      /\ report.inferred = set.evidence[t]
      /\ report.declaredRisk = declared
      /\ report.riskConflict = (t \in set.conflicts)
      /\ report.riskReview = (t \in set.riskReview)
      /\ report.confirm = (t \in set.confirm)
  <2> DEFINE tool == doc.tools[k]
             controls == Controls(doc, t)
  <2>1. report = ToolReport(doc, tool, set, incomplete)
    BY DEF RowOfTool, set, incomplete
  <2>2. /\ controls = Controls(doc, tool.name) /\ controls.branches = Absent
        /\ tool.name = t
    OBVIOUS
  <2> HIDE DEF report, tool, controls, t
  <2> QED
    BY <2>1, <2>2, UnbranchedRisk DEF declared, controls
<1> DEFINE conflict == /\ declared # Absent
                       /\ inferred \notin {"unknown", "inference_limit"}
                       /\ declared.tier # inferred
           limited == inferred = "inference_limit"
           established == declared # Absent /\ ~conflict /\ ~limited
<1> HIDE DEF report, registered, t
<1>6. /\ Declared(registered.risk) =
           IF declared = Absent THEN "undeclared" ELSE declared.tier
      /\ Declared(registered.risk) = "undeclared" <=> declared = Absent
  BY <1>1, <1>2 DEF Declared
<1>7. limited <=> t \in incomplete
  BY <1>4 DEF Tiers
<1>8. Conflicts(registered, incomplete) <=> conflict
  <2>1. inferred \in Tiers \ {"unknown"}
          <=> inferred \notin {"unknown", "inference_limit"}
    BY <1>4 DEF Tiers
  <2> QED
    BY <1>1, <1>6, <2>1 DEF Conflicts, inferred
<1>9. Unresolved(registered, incomplete) <=> ~established
  BY <1>1, <1>6, <1>7, <1>8 DEF Unresolved
<1>10. EffectiveTier(registered, incomplete) =
         IF established THEN declared.tier ELSE "unknown"
  BY <1>6, <1>9 DEF EffectiveTier
<1>11. ConfirmsByTier(registered, incomplete)
         <=> EffectiveTier(registered, incomplete) \in NEEDS_CONFIRM
  BY <1>8, <1>10 DEF ConfirmsByTier, NEEDS_CONFIRM
<1>12. /\ report.risk = IF established THEN declared.tier ELSE "unknown"
       /\ report.declaredRisk = declared
       /\ report.inferred = inferred
  BY <1>3, <1>5, <1>10
<1>13. report.riskSource = IF conflict THEN "conflict_safe_default"
                           ELSE IF established THEN "control_declaration"
                           ELSE "safe_default"
  BY <1>3, <1>5, <1>8
<1>14. report.riskEvidence = IF established THEN declared.evidence ELSE Absent
  BY <1>3, <1>5, <1>8
<1>15. report.riskConflict = conflict
  <2>1. report.riskConflict = (t \in set.conflicts)
    BY <1>5
  <2>2. t \in set.conflicts <=> conflict
    BY <1>3, <1>8
  <2>3. conflict \in BOOLEAN
    OBVIOUS
  <2> HIDE DEF conflict
  <2> QED
    BY <2>1, <2>2, <2>3
<1>16. report.riskReview = ~established
  BY <1>3, <1>5, <1>9
<1>17. report.confirm = (report.risk \in NEEDS_CONFIRM)
  BY <1>3, <1>5, <1>11
<1> HIDE DEF inferred
<1>18. RiskRowFits(report)
  BY <1>12, <1>13, <1>14, <1>15, <1>16, <1>17 DEF RiskRowFits
<1> QED
  BY <1>18 DEF report

(* The tool's name says as much on a budget of its own.                    *)
LEMMA InferenceRow ==
  ASSUME NEW v \in Versions, Scannable(Documents[v]),
         NEW k \in DOMAIN Documents[v].tools
  PROVE  /\ InferenceFits(RowOfTool(Documents[v], k))
         /\ RowOfTool(Documents[v], k).name = Documents[v].tools[k].name
<1> DEFINE doc == Documents[v]
           tool == doc.tools[k]
           controls == Controls(doc, tool.name)
           report == RowOfTool(doc, k)
           alone == Refused(<<tool.name>>)
<1>1. report = ToolReport(doc, tool, SetOf(doc), Unread(doc))
  BY DEF RowOfTool
<1> HIDE DEF report
<1>2. report.name = tool.name
  BY <1>1, ReportFields
<1>3. report.inferred = SetOf(doc).evidence[tool.name]
  BY <1>1, ReportedInference
<1>4. report.inferred = InferRisk(tool.name, Unread(doc))
  <2>1. tool.name \in ToolNames(ScanRegistry(doc))
    BY ScannedTool
  <2> QED
    BY <1>3, <2>1, DerivedTool DEF SetOf, Unread
<1>5. tool.name \notin Unread(doc) => tool.name \notin alone
  BY ToolReadAlone
<1> HIDE DEF tool, doc, alone
<1>6. CASE tool.name \in Unread(doc)
  <2>1. report.inferred = "inference_limit"
    BY <1>4, <1>6, InferredRisk
  <2> QED
    BY <1>2, <2>1 DEF InferenceFits, report, doc, tool
<1>7. CASE tool.name \notin Unread(doc)
  <2>1. InferRisk(tool.name, Unread(doc)) = InferRisk(tool.name, alone)
    BY <1>5, <1>7 DEF InferRisk, Says
  <2>2. InferenceFits(report)
    BY <1>2, <1>4, <2>1 DEF InferenceFits, alone
  <2> QED
    BY <1>2, <2>2 DEF report, doc, tool
<1> QED
  BY <1>6, <1>7

(* A scanned argument declares nothing of itself: in doubt it is locked.   *)
LEMMA ScannedVerdict ==
  ASSUME NEW p, NEW incomplete
  PROVE  LET verdict == InferPolicy(ScanParam(p), incomplete)
         IN /\ verdict.confidence \in {"high", "uncertain"}
            /\ verdict.confidence = "uncertain" => verdict.policy = "trusted_fixed"
<1>1. ScanParam(p).sink = "undeclared"
  BY DEF ScanParam
<1> DEFINE q == ScanParam(p)
<1> HIDE DEF q
<1>2. q.sink = "undeclared" =>
        LET verdict == InferPolicy(q, incomplete)
        IN /\ verdict.confidence \in {"high", "uncertain"}
           /\ verdict.confidence = "uncertain" => verdict.policy = "trusted_fixed"
  BY DEF InferPolicy, InferUndeclared, Verdict
<1> QED
  BY <1>1, <1>2 DEF q

\* the i-th argument row of the k-th tool, and what it says of an author
ArgumentOf(doc, k, i) ==
  ArgumentRow(doc.tools[k], doc.tools[k].props[i],
              Controls(doc, doc.tools[k].name), SetOf(doc), Unread(doc))
Mismatches(doc, k, i) ==
  AuthorityMismatch(SetOf(doc).policy[PairOf(doc, k, i)],
                    Controls(doc, doc.tools[k].name), doc.tools[k].props[i].name)

(* The rows of a tool's arguments.                                         *)
LEMMA ArgumentIs ==
  ASSUME NEW doc, Scannable(doc), NEW k \in DOMAIN doc.tools,
         NEW i \in DOMAIN doc.tools[k].props, NEW row, row = ArgumentOf(doc, k, i)
  PROVE  /\ row.name = doc.tools[k].props[i].name
         /\ row.type = ReportedType(doc.tools[k].props[i])
         /\ row.constraints = Constraints(doc.tools[k].props[i])
         /\ row.policy = SetOf(doc).policy[PairOf(doc, k, i)]
         /\ row.policy = IF Relaxes(doc, k, i) THEN "typed_bounded"
                         ELSE VerdictOn(doc, k, i).policy
         /\ row.confidence = IF Mismatches(doc, k, i) THEN "uncertain"
                             ELSE VerdictOn(doc, k, i).confidence
         /\ row.review \in BOOLEAN
         /\ row.review <=>
              \/ Mismatches(doc, k, i)
              \/ /\ ~Relaxes(doc, k, i)
                 /\ VerdictOn(doc, k, i).confidence = "uncertain"
         /\ row.remedy = Remedy(row.policy, row.review,
                                PropertyType(doc.tools[k].props[i]),
                                doc.tools[k].props[i].name, Unread(doc))
         /\ Mismatches(doc, k, i) => row.policy = "trusted_fixed"
<1> DEFINE tool == doc.tools[k]
           p == tool.props[i]
           controls == Controls(doc, tool.name)
           set == SetOf(doc)
           pair == PairOf(doc, k, i)
           mismatch == Mismatches(doc, k, i)
<1>1. pair = <<tool.name, p.name>>
  BY DEF PairOf
<1>2. mismatch = AuthorityMismatch(set.policy[pair], controls, p.name)
  BY DEF Mismatches
<1>3. mismatch \in BOOLEAN /\ (mismatch => set.policy[pair] = "trusted_fixed")
  BY DEF Mismatches, AuthorityMismatch
<1>4. VerdictOn(doc, k, i) = InferPolicy(ScanParam(p), Unread(doc))
  BY DEF VerdictOn
<1>5. /\ set.policy[pair] = IF Relaxes(doc, k, i) THEN "typed_bounded"
                            ELSE VerdictOn(doc, k, i).policy
      /\ pair \in set.review <=>
           /\ ~Relaxes(doc, k, i)
           /\ VerdictOn(doc, k, i).confidence = "uncertain"
  BY ScannedParam
<1>6. row = ArgumentRow(tool, p, controls, set, Unread(doc))
  BY DEF ArgumentOf
<1> HIDE DEF tool, p, controls, set, pair, mismatch
<1>7. /\ row.name = p.name
      /\ row.type = ReportedType(p)
      /\ row.constraints = Constraints(p)
      /\ row.policy = set.policy[pair]
      /\ row.remedy = Remedy(row.policy, row.review, PropertyType(p), p.name,
                             Unread(doc))
  BY <1>1, <1>6 DEF ArgumentRow
<1>8. row.confidence = IF mismatch THEN "uncertain"
                       ELSE VerdictOn(doc, k, i).confidence
  BY <1>1, <1>2, <1>4, <1>6 DEF ArgumentRow
<1>9. row.review = (mismatch \/ pair \in set.review)
  BY <1>1, <1>2, <1>6 DEF ArgumentRow
<1>10. row.review \in BOOLEAN /\ (row.review <=> mismatch \/ pair \in set.review)
  BY <1>3, <1>9
<1> QED
  BY <1>3, <1>5, <1>7, <1>8, <1>10 DEF tool, p, set, pair, mismatch

(* A property is reported as an enumeration if it has one, as a scanned    *)
(* parameter is.                                                           *)
LEMMA EnumTypes ==
  ASSUME NEW p
  PROVE  /\ ReportedType(p) = "enum" <=> PropertyType(p) = "enum"
         /\ p.enum # Absent => PropertyType(p) = "enum"
         /\ ScanParam(p).type = PropertyType(p)
         /\ ScanParam(p).name = p.name
<1>1. ReportedType(p) = "enum" <=> PropertyType(p) = "enum"
  BY DEF ReportedType
<1>2. p.enum # Absent => PropertyType(p) = "enum"
  BY DEF PropertyType
<1>3. ScanParam(p).type = PropertyType(p) /\ ScanParam(p).name = p.name
  BY DEF ScanParam
<1> QED
  BY <1>1, <1>2, <1>3

(* What a declaration relaxes is an argument of an unbranched reading tool. *)
LEMMA RelaxedTool ==
  ASSUME NEW v \in Versions, Scannable(Documents[v]),
         NEW k \in DOMAIN Documents[v].tools,
         NEW i \in DOMAIN Documents[v].tools[k].props,
         Relaxes(Documents[v], k, i)
  PROVE  /\ VerdictOn(Documents[v], k, i).confidence = "uncertain"
         /\ Controls(Documents[v], Documents[v].tools[k].name).branches = Absent
         /\ RowOfTool(Documents[v], k).risk = "read_only"
<1> DEFINE doc == Documents[v]
           tool == doc.tools[k]
           controls == Controls(doc, tool.name)
           registered == RegistryTool(doc, tool)
           set == SetOf(doc)
           report == RowOfTool(doc, k)
<1>1. /\ VerdictOn(doc, k, i).confidence = "uncertain"
      /\ EffectiveTier(registered, Unread(doc)) = "read_only"
      /\ registered.selector = NoName
  BY DEF Relaxes, BuildRelaxes, Uncertain, VerdictOn
<1>2. controls.branches = Absent
  <2> SUFFICES ASSUME controls.branches # Absent PROVE FALSE
    OBVIOUS
  <2>1. registered.selector = controls.branches.selector
    BY DEF RegistryTool
  <2>2. controls.branches.selector \in NamesOf(tool.props)
    BY ControlsOfTool DEF BranchesFit
  <2>3. NamesOf(tool.props) \subseteq Words
    BY DocumentIs DEF NamesOf, IsProperty
  <2> QED
    BY <1>1, <2>1, <2>2, <2>3, InferenceAssumption
<1>3. set.risk[tool.name] = "read_only"
  <2>1. /\ tool.name \in ToolNames(ScanRegistry(doc))
        /\ ToolOf(ScanRegistry(doc), tool.name) = registered
    BY ScannedTool
  <2> QED
    BY <1>1, <2>1, DerivedTool DEF SetOf, Unread
<1>4. report = ToolReport(doc, tool, set, Unread(doc))
  BY DEF RowOfTool
<1>5. controls = Controls(doc, tool.name)
  OBVIOUS
<1> HIDE DEF report, set, controls, tool, doc
<1>6. report.risk = set.risk[tool.name]
  BY <1>2, <1>4, <1>5, UnbranchedRisk
<1>7. /\ VerdictOn(doc, k, i).confidence = "uncertain"
      /\ controls.branches = Absent /\ report.risk = "read_only"
  BY <1>1, <1>2, <1>3, <1>6
<1> QED
  BY <1>7 DEF report, controls, tool, doc

(* Each argument row is what the validator derives.                        *)
LEMMA ArgumentFits ==
  ASSUME NEW v \in Versions, Scannable(Documents[v]),
         NEW k \in DOMAIN Documents[v].tools,
         NEW i \in DOMAIN Documents[v].tools[k].props
  PROVE  ArgumentRowFits(ArgumentOf(Documents[v], k, i),
                         ArgumentRisk(RowOfTool(Documents[v], k)),
                         Unread(Documents[v]))
<1> DEFINE doc == Documents[v]
           p == doc.tools[k].props[i]
           row == ArgumentOf(doc, k, i)
           risk == ArgumentRisk(RowOfTool(doc, k))
           mismatch == Mismatches(doc, k, i)
           relaxes == Relaxes(doc, k, i)
           verdict == VerdictOn(doc, k, i)
<1>1. /\ verdict.confidence \in {"high", "uncertain"}
      /\ verdict.confidence = "uncertain" => verdict.policy = "trusted_fixed"
  BY ScannedVerdict DEF VerdictOn
<1>2. relaxes => verdict.confidence = "uncertain" /\ risk = "read_only"
  <2> SUFFICES ASSUME relaxes
               PROVE  verdict.confidence = "uncertain" /\ risk = "read_only"
    OBVIOUS
  <2>1. /\ verdict.confidence = "uncertain"
        /\ Controls(doc, doc.tools[k].name).branches = Absent
        /\ RowOfTool(doc, k).risk = "read_only"
    BY RelaxedTool
  <2>2. RowOfTool(doc, k).branches = BranchesOf(Controls(doc, doc.tools[k].name))
    BY ReportFields DEF RowOfTool
  <2> QED
    BY <2>1, <2>2 DEF BranchesOf, ArgumentRisk
<1>3. /\ row.name = p.name
      /\ row.type = ReportedType(p)
      /\ row.policy = IF relaxes THEN "typed_bounded" ELSE verdict.policy
      /\ row.confidence = IF mismatch THEN "uncertain" ELSE verdict.confidence
      /\ row.review \in BOOLEAN
      /\ row.review <=>
           mismatch \/ (~relaxes /\ verdict.confidence = "uncertain")
      /\ row.remedy = Remedy(row.policy, row.review, PropertyType(p), p.name,
                             Unread(doc))
      /\ mismatch => row.policy = "trusted_fixed"
  BY ArgumentIs
<1> HIDE DEF doc, p, row, risk, mismatch, relaxes, verdict
<1>4. IF row.confidence = "high" THEN ~row.review
      ELSE IF row.policy = "trusted_fixed" THEN row.review
      ELSE row.policy = "typed_bounded" /\ risk = "read_only" /\ ~row.review
  <2>1. CASE mismatch
    BY <1>3, <2>1
  <2>2. CASE ~mismatch /\ verdict.confidence = "high"
    BY <1>2, <1>3, <2>2
  <2>3. CASE ~mismatch /\ verdict.confidence = "uncertain"
    BY <1>1, <1>2, <1>3, <2>3
  <2> QED
    BY <1>1, <2>1, <2>2, <2>3
<1>5. row.remedy = Remedy(row.policy, row.review, row.type, row.name, Unread(doc))
  BY <1>3, EnumTypes DEF Remedy
<1> QED
  BY <1>4, <1>5 DEF ArgumentRowFits, doc, row, risk

(* The rows of a report, and the parts the diff looks them up by.          *)
LEMMA ReportRows ==
  ASSUME NEW doc, NEW k \in DOMAIN doc.tools
  PROVE  /\ DOMAIN RowOfTool(doc, k).arguments = DOMAIN doc.tools[k].props
         /\ \A i \in DOMAIN doc.tools[k].props :
              RowOfTool(doc, k).arguments[i] = ArgumentOf(doc, k, i)
         /\ ToSet(RowOfTool(doc, k).arguments) =
              {ArgumentOf(doc, k, i) : i \in DOMAIN doc.tools[k].props}
<1> DEFINE tool == doc.tools[k]
           rows == RowsOf(doc, tool, SetOf(doc), Unread(doc))
<1>1. RowOfTool(doc, k).arguments = rows
  BY ReportFields DEF RowOfTool
<1>2. /\ DOMAIN rows = DOMAIN tool.props
      /\ \A i \in DOMAIN tool.props : rows[i] = ArgumentOf(doc, k, i)
  BY DEF RowsOf, ArgumentOf
<1> HIDE DEF rows, tool
<1>3. ToSet(rows) = {ArgumentOf(doc, k, i) : i \in DOMAIN tool.props}
  BY <1>2 DEF ToSet
<1> QED
  BY <1>1, <1>2, <1>3 DEF tool

(* The selector review of a tool without branches.                         *)
LEMMA UnbranchedRow ==
  ASSUME NEW v \in Versions, Scannable(Documents[v]),
         NEW k \in DOMAIN Documents[v].tools,
         Controls(Documents[v], Documents[v].tools[k].name).branches = Absent
  PROVE  /\ UnbranchedRowFits(RowOfTool(Documents[v], k), Unread(Documents[v]))
         /\ RowOfTool(Documents[v], k).branches = Absent
<1> DEFINE doc == Documents[v]
           tool == doc.tools[k]
           controls == Controls(doc, tool.name)
           set == SetOf(doc)
           incomplete == Unread(doc)
           report == RowOfTool(doc, k)
           doubt(i) == LET p == ScanParam(tool.props[i])
                           verdict == InferPolicy(p, incomplete)
                       IN /\ p.type = "enum"
                          /\ IsBranchSelectorName(p.name, incomplete)
                          /\ verdict.policy = "trusted_fixed"
                          /\ \/ verdict.confidence = "uncertain"
                             \/ AuthorityMismatch(verdict.policy, controls, p.name)
           claims(row) == /\ row.type = "enum" /\ row.policy = "trusted_fixed"
                          /\ row.confidence = "uncertain"
                          /\ IsBranchSelectorName(row.name, incomplete)
<1>1. report = ToolReport(doc, tool, set, incomplete)
  BY DEF RowOfTool
<1>2. controls = Controls(doc, tool.name) /\ controls.branches = Absent
  OBVIOUS
<1>3. /\ report.branches = Absent
      /\ report.branchReview =
           BranchSelectorCandidate(tool, controls, report.risk, incomplete)
  <2> HIDE DEF report, set, incomplete, controls, tool, doc
  <2> QED
    BY <1>1, <1>2, UnbranchedReview
<1>4. report.branchReview =
        (report.risk # "read_only" /\ \E i \in DOMAIN tool.props : doubt(i))
  <2> HIDE DEF report, incomplete, controls, tool, doc
  <2> QED
    BY <1>3 DEF BranchSelectorCandidate
<1>5. ASSUME report.risk # "read_only", NEW i \in DOMAIN tool.props
      PROVE  doubt(i) <=> claims(ArgumentOf(doc, k, i))
  <2> DEFINE p == tool.props[i]
             row == ArgumentOf(doc, k, i)
             verdict == VerdictOn(doc, k, i)
             mismatch == Mismatches(doc, k, i)
  <2>1. ~Relaxes(doc, k, i)
    BY <1>5, RelaxedTool
  <2>2. /\ row.name = p.name
        /\ row.type = ReportedType(p)
        /\ row.policy = set.policy[PairOf(doc, k, i)]
        /\ row.policy = verdict.policy
        /\ row.confidence = IF mismatch THEN "uncertain" ELSE verdict.confidence
    BY <2>1, ArgumentIs
  <2>3. mismatch = AuthorityMismatch(verdict.policy, controls, p.name)
    BY <2>2 DEF Mismatches
  <2>4. /\ row.type = "enum" <=> ScanParam(p).type = "enum"
        /\ ScanParam(p).name = p.name
    BY <2>2, EnumTypes
  <2>5. verdict = InferPolicy(ScanParam(p), incomplete)
    BY DEF VerdictOn
  <2> HIDE DEF row, p, verdict, mismatch, incomplete, controls, set
  <2>6. doubt(i) <=> /\ ScanParam(p).type = "enum"
                     /\ IsBranchSelectorName(p.name, incomplete)
                     /\ verdict.policy = "trusted_fixed"
                     /\ verdict.confidence = "uncertain" \/ mismatch
    BY <2>3, <2>4, <2>5 DEF p
  <2> HIDE DEF doubt
  <2>7. claims(row) <=> /\ row.type = "enum" /\ row.policy = "trusted_fixed"
                        /\ verdict.confidence = "uncertain" \/ mismatch
                        /\ IsBranchSelectorName(p.name, incomplete)
    BY <2>2
  <2> HIDE DEF claims
  <2>8. doubt(i) <=> claims(row)
    BY <2>2, <2>4, <2>6, <2>7
  <2> QED
    BY <2>8 DEF row
<1>6. report.branchReview =
        (report.risk # "read_only" /\ \E row \in ToSet(report.arguments) : claims(row))
  <2>1. ToSet(report.arguments) =
          {ArgumentOf(doc, k, i) : i \in DOMAIN tool.props}
    BY ReportRows
  <2> HIDE DEF report, doubt, claims, tool, doc, incomplete
  <2>2. ASSUME report.risk # "read_only"
        PROVE  (\E i \in DOMAIN tool.props : doubt(i))
                 <=> (\E row \in ToSet(report.arguments) : claims(row))
    BY <1>5, <2>1, <2>2
  <2> DEFINE X == report.risk # "read_only"
             Y == \E i \in DOMAIN tool.props : doubt(i)
             Z == \E row \in ToSet(report.arguments) : claims(row)
  <2>3. report.branchReview = (X /\ Y)
    BY <1>4
  <2>4. X => (Y <=> Z)
    BY <2>2
  <2>5. X \in BOOLEAN /\ Y \in BOOLEAN /\ Z \in BOOLEAN
    OBVIOUS
  <2> HIDE DEF X, Y, Z
  <2>6. report.branchReview = (X /\ Z)
    BY <2>3, <2>4, <2>5
  <2> QED
    BY <2>6 DEF X, Z
<1>7. RiskRowFits(report)
  BY RiskRow
<1>8. UnbranchedRowFits(report, incomplete)
  <2> HIDE DEF report, incomplete
  <2> QED
    BY <1>6, <1>7 DEF UnbranchedRowFits
<1> QED
  BY <1>3, <1>8

(* A property's name stands for its row.                                   *)
LEMMA RowLookup ==
  ASSUME NEW doc, Scannable(doc), NEW k \in DOMAIN doc.tools
  PROVE  /\ {row.name : row \in ToSet(RowOfTool(doc, k).arguments)}
              = NamesOf(doc.tools[k].props)
         /\ \A i \in DOMAIN doc.tools[k].props :
              /\ RowOf(RowOfTool(doc, k), doc.tools[k].props[i].name)
                   = ArgumentOf(doc, k, i)
              /\ ParamOf([params |-> doc.tools[k].props],
                         doc.tools[k].props[i].name) = doc.tools[k].props[i]
<1> DEFINE props == doc.tools[k].props
           report == RowOfTool(doc, k)
           row(i) == ArgumentOf(doc, k, i)
<1>1. ToSet(report.arguments) = {row(i) : i \in DOMAIN props}
  BY ReportRows
<1>2. \A i \in DOMAIN props : row(i).name = props[i].name
  BY ArgumentIs
<1>3. \A i, j \in DOMAIN props : props[j].name = props[i].name => j = i
  BY DEF Scannable, PropertiesFit, IsInjective
<1> HIDE DEF props, report, row
<1>4. {r.name : r \in ToSet(report.arguments)} = NamesOf(props)
  BY <1>1, <1>2 DEF NamesOf
<1>5. ASSUME NEW i \in DOMAIN props
      PROVE  /\ RowOf(report, props[i].name) = row(i)
             /\ ParamOf([params |-> props], props[i].name) = props[i]
  <2>1. \A r \in ToSet(report.arguments) : r.name = props[i].name => r = row(i)
    BY <1>1, <1>2, <1>3
  <2>2. row(i) \in ToSet(report.arguments) /\ row(i).name = props[i].name
    BY <1>1, <1>2
  <2>3. RowOf(report, props[i].name) = row(i)
    BY <2>1, <2>2 DEF RowOf
  <2>4. (CHOOSE j \in DOMAIN props : props[j].name = props[i].name) = i
    BY <1>3
  <2>5. ParamOf([params |-> props], props[i].name) = props[i]
    BY <2>4 DEF ParamOf
  <2> QED
    BY <2>3, <2>5
<1> QED
  BY <1>4, <1>5 DEF props, report, row

\* no value selects two cases
DistinctCases(branches) ==
  \A i, j \in DOMAIN branches.cases :
    branches.cases[i].value = branches.cases[j].value => i = j

\* the risks of the cases, as declared and as reported
CaseRisks(branches) ==
  {branches.cases[i].risk.tier : i \in DOMAIN branches.cases}
ReportedRisks(cases) == {cases[v].risk : v \in DOMAIN cases}

(* The value of a case stands for it.                                      *)
LEMMA CaseLookup ==
  ASSUME NEW branches,
         DistinctCases(branches)
  PROVE  \A i \in DOMAIN branches.cases :
           CaseOf(branches, branches.cases[i].value) = branches.cases[i]
<1> DEFINE cases == branches.cases
<1>1. \A i, j \in DOMAIN cases : cases[i].value = cases[j].value => i = j
  BY DEF DistinctCases
<1> SUFFICES ASSUME NEW i \in DOMAIN cases
             PROVE  CaseOf(branches, cases[i].value) = cases[i]
  OBVIOUS
<1> HIDE DEF cases
<1>2. cases[i] \in ToSet(cases)
  BY DEF ToSet
<1>3. \A c \in ToSet(cases) : c.value = cases[i].value => c = cases[i]
  BY <1>1 DEF ToSet
<1>4. (CHOOSE c \in ToSet(cases) : c.value = cases[i].value) = cases[i]
  BY <1>2, <1>3
<1> QED
  BY <1>4 DEF CaseOf, cases

\* what the scanner reports of one case
CaseReport(case) ==
  [risk |-> case.risk.tier, evidence |-> case.risk.evidence,
   active |-> case.active, confirm |-> case.risk.tier \in NEEDS_CONFIRM]

(* Each reported case is one of the declared ones.                         *)
LEMMA ReportedCase ==
  ASSUME NEW branches, DistinctCases(branches), NEW v \in CaseValues(branches)
  PROVE  \E i \in DOMAIN branches.cases :
           BranchReport(branches).cases[v] = CaseReport(branches.cases[i])
<1>1. BranchReport(branches).cases[v] = CaseReport(CaseOf(branches, v))
  BY DEF BranchReport, CaseReport
<1>2. PICK i \in DOMAIN branches.cases : branches.cases[i].value = v
  BY DEF CaseValues
<1>3. CaseOf(branches, v) = branches.cases[i]
  BY <1>2, CaseLookup
<1> QED
  BY <1>1, <1>3

(* The reported cases have the risks of the declared ones.                 *)
LEMMA ReportedCases ==
  ASSUME NEW branches, DistinctCases(branches),
         NEW cases, cases = BranchReport(branches).cases
  PROVE  ReportedRisks(cases) = CaseRisks(branches)
<1>1. /\ DOMAIN cases = CaseValues(branches)
      /\ \A v \in CaseValues(branches) :
           cases[v] = CaseReport(CaseOf(branches, v))
  BY DEF BranchReport, CaseReport
<1>2. \A c : CaseReport(c).risk = c.risk.tier
  BY DEF CaseReport
<1>3. \A i \in DOMAIN branches.cases :
        /\ CaseOf(branches, branches.cases[i].value) = branches.cases[i]
        /\ branches.cases[i].value \in CaseValues(branches)
  BY CaseLookup DEF CaseValues
<1>4. \A v \in DOMAIN cases : \E i \in DOMAIN branches.cases :
        cases[v].risk = branches.cases[i].risk.tier
  <2> SUFFICES ASSUME NEW v \in DOMAIN cases
               PROVE  \E i \in DOMAIN branches.cases :
                        cases[v].risk = branches.cases[i].risk.tier
    OBVIOUS
  <2>1. PICK i \in DOMAIN branches.cases : cases[v] = CaseReport(branches.cases[i])
    BY <1>1, ReportedCase
  <2> QED
    BY <1>2, <2>1
<1>5. \A i \in DOMAIN branches.cases :
        /\ branches.cases[i].value \in DOMAIN cases
        /\ cases[branches.cases[i].value].risk = branches.cases[i].risk.tier
  BY <1>1, <1>2, <1>3
<1> QED
  BY <1>4, <1>5 DEF CaseRisks, ReportedRisks

(* The worst risk is that of the set of the cases' risks.                  *)
LEMMA WorstRisk ==
  ASSUME NEW branches, NEW risks,
         risks = CaseRisks(branches)
  PROVE  WorstBranchRisk(branches) =
           BranchRiskOrder[Max({SelectInSeq(BranchRiskOrder, LAMBDA x : x = r) :
                                  r \in risks})]
<1> DEFINE place(r) == SelectInSeq(BranchRiskOrder, LAMBDA x : x = r)
<1>1. WorstBranchRisk(branches) =
        BranchRiskOrder[Max({place(branches.cases[i].risk.tier) :
                               i \in DOMAIN branches.cases})]
  BY DEF WorstBranchRisk
<1> HIDE DEF place
<1>2. {place(branches.cases[i].risk.tier) : i \in DOMAIN branches.cases}
        = {place(r) : r \in risks}
  BY DEF CaseRisks
<1> QED
  BY <1>1, <1>2 DEF place

(* A tool with branches is what the validator derives.                     *)
LEMMA BranchRow ==
  ASSUME NEW v \in Versions, Scannable(Documents[v]),
         NEW k \in DOMAIN Documents[v].tools,
         Controls(Documents[v], Documents[v].tools[k].name).branches # Absent
  PROVE  /\ BranchRowFits(RowOfTool(Documents[v], k))
         /\ RowOfTool(Documents[v], k).branches # Absent
<1> DEFINE doc == Documents[v]
           tool == doc.tools[k]
           controls == Controls(doc, tool.name)
           branches == controls.branches
           set == SetOf(doc)
           incomplete == Unread(doc)
           report == RowOfTool(doc, k)
           cases == report.branches.cases
           risks == {cases[x].risk : x \in DOMAIN cases}
           names == {row.name : row \in ToSet(report.arguments)}
           sel == branches.selector
<1>1. report = ToolReport(doc, tool, set, incomplete)
  BY DEF RowOfTool
<1>2. controls = Controls(doc, tool.name) /\ controls.branches # Absent
  OBVIOUS
<1>3. BranchesFit(tool, controls)
  BY ControlsOfTool
<1>4. /\ report.risk = WorstBranchRisk(branches)
      /\ report.riskSource = "branch_control_declaration"
      /\ controls.risk = Absent => report.riskEvidence = Absent
      /\ report.declaredRisk = controls.risk
      /\ ~report.riskConflict /\ ~report.riskReview /\ ~report.branchReview
      /\ report.confirm = AsksSomewhere(branches)
      /\ report.branches = BranchReport(branches)
  <2> HIDE DEF report, set, incomplete, controls, tool, doc
  <2> QED
    BY <1>1, <1>2, BranchedRisk, BranchedConfirm
<1>5. names = NamesOf(tool.props)
  BY RowLookup
<1>6. BranchReport(branches) # Absent
  <2>1. tool.name \in DOMAIN doc.controls
    <3> SUFFICES ASSUME tool.name \notin DOMAIN doc.controls PROVE FALSE
      OBVIOUS
    <3> QED
      BY <1>2 DEF Controls
  <2>2. controls = doc.controls[tool.name]
    BY <2>1 DEF Controls
  <2>3. IsDocument(doc)
    BY ReviewAssumption DEF Versions
  <2> HIDE DEF doc, tool, controls
  <2> QED
    BY <1>2, <2>1, <2>2, <2>3 DEF IsDocument
<1>7. /\ controls.risk = Absent
      /\ sel \in NamesOf(tool.props)
      /\ DistinctCases(branches)
      /\ \A i \in DOMAIN branches.cases :
           /\ branches.cases[i].risk.tier \in DeclarableRisks
           /\ sel \in branches.cases[i].active
           /\ branches.cases[i].active \subseteq NamesOf(tool.props)
  <2> HIDE DEF tool, controls
  <2> QED
    BY <1>3 DEF BranchesFit, RiskFits, IsInjective, DistinctCases
<1>8. /\ ParamOf([params |-> tool.props], sel).enum # Absent
      /\ ToSet([i \in DOMAIN branches.cases |-> branches.cases[i].value])
           = ToSet(ParamOf([params |-> tool.props], sel).enum)
  <2> HIDE DEF tool, controls
  <2> QED
    BY <1>3 DEF BranchesFit
<1>9. PICK i \in DOMAIN tool.props : tool.props[i].name = sel
  BY <1>7 DEF NamesOf
<1> DEFINE p == tool.props[i]
           row == ArgumentOf(doc, k, i)
<1>10. /\ RowOf(report, sel) = row
       /\ ParamOf([params |-> tool.props], sel) = p
  <2>1. /\ RowOf(report, p.name) = row
        /\ ParamOf([params |-> tool.props], p.name) = p
    BY RowLookup
  <2>2. p.name = sel
    BY <1>9
  <2> HIDE DEF report, row, p, sel
  <2> QED
    BY <2>1, <2>2
<1>11. row.type = ReportedType(p) /\ row.constraints = Constraints(p)
  <2>1. row = ArgumentOf(doc, k, i)
    OBVIOUS
  <2> HIDE DEF row
  <2> QED
    BY <2>1, ArgumentIs
<1> HIDE DEF row, p, report, doc, tool, controls
<1>12. row.type = "enum" /\ row.constraints.enum = ToSet(p.enum)
  <2>1. p.enum # Absent
    BY <1>8, <1>10
  <2>2. ReportedType(p) = "enum"
    BY <2>1, EnumTypes
  <2>3. Constraints(p).enum = ToSet(p.enum)
    BY <2>1 DEF Constraints
  <2> QED
    BY <1>11, <2>2, <2>3
<1>13. /\ cases = BranchReport(branches).cases
       /\ report.branches.selector = sel
       /\ DOMAIN cases = CaseValues(branches)
       /\ \A x \in DOMAIN cases : \E j \in DOMAIN branches.cases :
            cases[x] = CaseReport(branches.cases[j])
       /\ risks = CaseRisks(branches)
  <2>1. cases = BranchReport(branches).cases
    BY <1>4
  <2>2. \A j \in DOMAIN branches.cases :
          branches.cases[j].risk.tier \in DeclarableRisks
    BY <1>7
  <2>3. DistinctCases(branches)
    BY <1>7
  <2>4. BranchReport(branches).selector = sel
    <3> HIDE DEF branches
    <3> QED
      BY DEF BranchReport
  <2>5. report.branches.selector = sel
    BY <1>4, <2>4
  <2> HIDE DEF cases, branches, risks, names, sel, set, incomplete, row, p
  <2>6. DOMAIN cases = CaseValues(branches)
    BY <2>1 DEF BranchReport
  <2>7. \A x \in DOMAIN cases : \E j \in DOMAIN branches.cases :
          cases[x] = CaseReport(branches.cases[j])
    BY <2>1, <2>3, <2>6, ReportedCase
  <2>8. ReportedRisks(cases) = CaseRisks(branches)
    BY <2>1, <2>3, ReportedCases
  <2>9. risks = CaseRisks(branches)
    BY <2>8 DEF risks, ReportedRisks
  <2> QED
    BY <2>1, <2>5, <2>6, <2>7, <2>9
<1>14. CaseValues(branches) = ToSet(p.enum)
  <2>1. ToSet([j \in DOMAIN branches.cases |-> branches.cases[j].value])
          = CaseValues(branches)
    BY DEF ToSet, CaseValues
  <2> QED
    BY <1>8, <1>10, <2>1
<1> HIDE DEF cases, branches
<1>15. ASSUME NEW x \in DOMAIN cases
       PROVE  /\ cases[x].risk \in DeclarableRisks
              /\ cases[x].active \subseteq names
              /\ sel \in cases[x].active
              /\ cases[x].confirm = (cases[x].risk \in NEEDS_CONFIRM)
  <2>1. PICK j \in DOMAIN branches.cases :
          cases[x] = CaseReport(branches.cases[j])
    BY <1>13
  <2>2. /\ branches.cases[j].risk.tier \in DeclarableRisks
        /\ sel \in branches.cases[j].active
        /\ branches.cases[j].active \subseteq NamesOf(tool.props)
    BY <1>7
  <2>3. /\ cases[x].risk \in DeclarableRisks
        /\ cases[x].active \subseteq names
        /\ sel \in cases[x].active
    BY <1>5, <2>1, <2>2 DEF CaseReport
  <2>4. cases[x].confirm = (cases[x].risk \in NEEDS_CONFIRM)
    BY <2>1 DEF CaseReport
  <2> QED
    BY <2>3, <2>4
<1>16. risks = CaseRisks(branches)
  BY <1>13
<1>17. report.risk = BranchRiskOrder[Max({SelectInSeq(BranchRiskOrder,
                       LAMBDA x : x = r) : r \in risks})]
  <2> HIDE DEF risks, sel, names, row, p
  <2>1. WorstBranchRisk(branches) =
           BranchRiskOrder[Max({SelectInSeq(BranchRiskOrder, LAMBDA x : x = r) :
                                  r \in risks})]
    BY <1>16, WorstRisk
  <2> QED
    BY <1>4, <2>1
<1>18. report.confirm = (risks \cap NEEDS_CONFIRM # {})
  <2> DEFINE Y == risks \cap NEEDS_CONFIRM # {}
  <2>1. AsksSomewhere(branches) <=> Y
    <3> HIDE DEF risks
    <3>1. AsksSomewhere(branches) <=>
            \E j \in DOMAIN branches.cases :
              branches.cases[j].risk.tier \in NEEDS_CONFIRM
      BY DEF ToSet, AsksSomewhere
    <3>2. Y <=> \E j \in DOMAIN branches.cases :
                  branches.cases[j].risk.tier \in NEEDS_CONFIRM
      BY <1>16 DEF CaseRisks
    <3> QED
      BY <3>1, <3>2
  <2>2. AsksSomewhere(branches) \in BOOLEAN /\ Y \in BOOLEAN
    BY DEF AsksSomewhere
  <2> HIDE DEF Y
  <2>3. report.confirm = Y
    BY <1>4, <2>1, <2>2
  <2> QED
    BY <2>3 DEF Y
<1> DEFINE found == CHOOSE r \in ToSet(report.arguments) : r.name = sel
<1>20. found = row
  BY <1>10 DEF RowOf
<1>21. report.branches.selector = sel
  BY <1>13
<1> HIDE DEF names, sel, risks, found
<1>22. /\ ~report.branchReview
       /\ report.branches.selector \in names
       /\ (CHOOSE r \in ToSet(report.arguments) :
             r.name = report.branches.selector) = found
       /\ found.type = "enum" /\ found.constraints.enum = DOMAIN cases
       /\ \A x \in DOMAIN cases :
            /\ cases[x].risk \in DeclarableRisks
            /\ cases[x].active \subseteq names
            /\ report.branches.selector \in cases[x].active
            /\ cases[x].confirm = (cases[x].risk \in NEEDS_CONFIRM)
  BY <1>4, <1>5, <1>7, <1>12, <1>13, <1>14, <1>15, <1>20, <1>21 DEF found
<1>23. /\ report.riskSource = "branch_control_declaration"
       /\ report.riskEvidence = Absent /\ report.declaredRisk = Absent
       /\ ~report.riskConflict /\ ~report.riskReview
  BY <1>4, <1>7
<1>24. BranchRowFits(report)
  BY <1>17, <1>18, <1>22, <1>23 DEF BranchRowFits, names, risks, cases
<1>25. report.branches # Absent
  BY <1>4, <1>6
<1> QED
  BY <1>24, <1>25 DEF report, doc

(* What is said of the hints is what the validator says of them.           *)
LEMMA AssessmentsRow ==
  ASSUME NEW report, NEW hints,
         report.assessments = Assessments(hints, report.risk)
  PROVE  AssessmentsFit(report)
<1> DEFINE risk == report.risk
           said == report.assessments
           again == [h \in DOMAIN said |-> said[h].value]
<1>1. /\ DOMAIN said = DOMAIN hints
      /\ \A h \in DOMAIN hints :
           said[h] = [value |-> hints[h], state |-> HintState(hints, h, risk)]
  BY DEF Assessments
<1>2. /\ DOMAIN again = DOMAIN hints
      /\ \A h \in DOMAIN hints : again[h] = hints[h]
  <2> HIDE DEF said
  <2>1. DOMAIN again = DOMAIN said /\ \A h \in DOMAIN said : again[h] = said[h].value
    OBVIOUS
  <2> HIDE DEF again
  <2>2. \A h \in DOMAIN hints : said[h].value = hints[h]
    BY <1>1
  <2> QED
    BY <1>1, <2>1, <2>2
<1> HIDE DEF said, again, risk
<1>3. ASSUME NEW h \in DOMAIN hints
      PROVE  HintState(again, h, risk) = HintState(hints, h, risk)
  <2>1. "readOnlyHint" \in DOMAIN again /\ again["readOnlyHint"]
          <=> "readOnlyHint" \in DOMAIN hints /\ hints["readOnlyHint"]
    BY <1>2
  <2>2. again[h] = hints[h]
    BY <1>2
  <2> QED
    BY <2>1, <2>2 DEF HintState
<1>4. /\ DOMAIN Assessments(again, risk) = DOMAIN hints
      /\ \A h \in DOMAIN hints :
           Assessments(again, risk)[h]
             = [value |-> hints[h], state |-> HintState(hints, h, risk)]
  BY <1>2, <1>3 DEF Assessments
<1>5. said = [h \in DOMAIN hints |->
                [value |-> hints[h], state |-> HintState(hints, h, risk)]]
  BY DEF Assessments, said, risk
<1>6. Assessments(again, risk)
        = [h \in DOMAIN hints |->
             [value |-> hints[h], state |-> HintState(hints, h, risk)]]
  BY <1>2, <1>3 DEF Assessments
<1> QED
  BY <1>5, <1>6 DEF AssessmentsFit, said, again, risk

(* What a tool's author declares is reported under the rows it is about.   *)
LEMMA DeclaredRows ==
  ASSUME NEW doc, Scannable(doc), NEW k \in DOMAIN doc.tools
  PROVE  DeclaredFit(RowOfTool(doc, k))
<1> DEFINE tool == doc.tools[k]
           controls == Controls(doc, tool.name)
           report == RowOfTool(doc, k)
           names == {row.name : row \in ToSet(report.arguments)}
           row(n) == CHOOSE r \in ToSet(report.arguments) : r.name = n
           said == report.declared
<1>1. report = ToolReport(doc, tool, SetOf(doc), Unread(doc))
  BY DEF RowOfTool
<1>2. /\ ArgumentsFit(tool, controls)
      /\ UnexposedFit(tool, controls)
  BY ControlsOfTool
<1>3. names = NamesOf(tool.props)
  BY RowLookup
<1>4. /\ report.arguments = RowsOf(doc, tool, SetOf(doc), Unread(doc))
      /\ report.declared = DeclaredOf(controls, report.arguments)
  <2> HIDE DEF tool
  <2> QED
    BY <1>1, ReportFields
<1>5. /\ report.unexposed = controls.unexposed
      /\ report.unexposed # <<>> /\ ~report.closes => report.schemaReview
  <2>1. controls = Controls(doc, tool.name)
    OBVIOUS
  <2> HIDE DEF tool, report, controls
  <2>2. report.unexposed = controls.unexposed
    BY <1>1, <2>1, ReportedRest
  <2>3. ASSUME controls.unexposed # <<>>, ~report.closes
        PROVE  report.schemaReview
    BY <1>1, <2>1, <2>3, ReportedSchema
  <2> QED
    BY <2>2, <2>3
<1> HIDE DEF report, controls, tool
<1>6. /\ DOMAIN said = DOMAIN controls.arguments
      /\ \A n \in DOMAIN said : said[n] = DeclaredRow(row(n), controls.arguments[n])
  BY <1>4 DEF DeclaredOf
<1>7. DOMAIN said \subseteq names
  BY <1>2, <1>3, <1>6 DEF ArgumentsFit
<1>8. DOMAIN report.unexposed \cap names = {}
  BY <1>2, <1>3, <1>5 DEF UnexposedFit
<1>9. ASSUME NEW n \in DOMAIN said
      PROVE  /\ said[n].policy = row(n).policy
             /\ said[n].review = row(n).review
             /\ (said[n].authority = "constrained") = (said[n].bounds # <<>>)
             /\ IsInjective(said[n].bounds)
  <2> DEFINE declared == controls.arguments[n]
  <2>1. n \in DOMAIN controls.arguments
    BY <1>6
  <2>2. /\ (declared.authority = "constrained") = (declared.bounds # <<>>)
        /\ IsInjective(declared.bounds)
    BY <1>2, <2>1 DEF ArgumentsFit
  <2>3. said[n] = DeclaredRow(row(n), declared)
    BY <1>6
  <2> HIDE DEF declared, row, said
  <2>4. /\ said[n].policy = row(n).policy
        /\ said[n].review = row(n).review
        /\ said[n].authority = declared.authority
        /\ said[n].bounds = declared.bounds
    BY <2>3 DEF DeclaredRow
  <2> QED
    BY <2>2, <2>4
<1> QED
  BY <1>5, <1>7, <1>8, <1>9 DEF DeclaredFit, report

(* What is reported of a tool is what the validator derives again.         *)
LEMMA ToolRow ==
  ASSUME NEW v \in Versions, Scannable(Documents[v]),
         NEW k \in DOMAIN Documents[v].tools
  PROVE  ToolRowFits(RowOfTool(Documents[v], k), Unread(Documents[v]))
<1> DEFINE doc == Documents[v]
           tool == doc.tools[k]
           controls == Controls(doc, tool.name)
           report == RowOfTool(doc, k)
           incomplete == Unread(doc)
<1>1. ASSUME NEW row \in ToSet(report.arguments)
      PROVE  ArgumentRowFits(row, ArgumentRisk(report), incomplete)
  <2>1. PICK i \in DOMAIN tool.props : row = ArgumentOf(doc, k, i)
    BY ReportRows
  <2> QED
    BY <2>1, ArgumentFits
<1>2. IF report.branches = Absent THEN UnbranchedRowFits(report, incomplete)
      ELSE BranchRowFits(report)
  <2>1. CASE controls.branches = Absent
    BY <2>1, UnbranchedRow
  <2>2. CASE controls.branches # Absent
    BY <2>2, BranchRow
  <2> QED
    BY <2>1, <2>2
<1>3. InferenceFits(report)
  BY InferenceRow
<1>4. DeclaredFit(report)
  BY DeclaredRows
<1>5. report = ToolReport(doc, tool, SetOf(doc), incomplete)
  BY DEF RowOfTool
<1>6. controls = Controls(doc, tool.name)
  OBVIOUS
<1> HIDE DEF report, incomplete, controls, tool, doc
<1>7. ReviewFits(report)
  BY <1>5, ReportedDebt
<1>8. report.assessments = Assessments(tool.hints, report.risk)
  BY <1>5, <1>6, ReportedRest
<1>9. AssessmentsFit(report)
  BY <1>8, AssessmentsRow
<1>10. ToolRowFits(report, incomplete)
  BY <1>1, <1>2, <1>3, <1>4, <1>7, <1>9 DEF ToolRowFits
<1> QED
  BY <1>10 DEF report, incomplete, doc

---------------------------------------------------------------------------
(* What the scanner charges and what the validator counts.                 *)

(* A sequence without repetitions has as many members as places.           *)
LEMMA MembersOfList ==
  ASSUME NEW s, IsSequence(s), IsInjective(s)
  PROVE  Cardinality(ToSet(s)) = Len(s)
<1> DEFINE n == Len(s)
<1>1. n \in Nat /\ DOMAIN s = 1..n
  BY DEF IsSequence
<1>2. s \in Bijection(1..n, ToSet(s))
  <2>1. s \in [1..n -> ToSet(s)]
    BY <1>1 DEF IsSequence, ToSet
  <2>2. \A i, j \in 1..n : s[i] = s[j] => i = j
    BY <1>1 DEF IsInjective
  <2>3. \A x \in ToSet(s) : \E i \in 1..n : s[i] = x
    BY <1>1 DEF ToSet
  <2> HIDE DEF n
  <2> QED
    BY <2>1, <2>2, <2>3 DEF Bijection, Injection, Surjection, IsInjective
<1>3. ExistsBijection(1..n, ToSet(s))
  BY <1>2 DEF ExistsBijection
<1>4. IsFiniteSet(1..n) /\ Cardinality(1..n) = n
  <2> HIDE DEF n
  <2>1. 1 \in Int /\ n \in Int
    BY <1>1
  <2>2. /\ IsFiniteSet(1..n)
        /\ Cardinality(1..n) = IF 1 > n THEN 0 ELSE n - 1 + 1
    BY <2>1, FS_Interval
  <2> QED
    BY <1>1, <2>2
<1> HIDE DEF n
<1>5. Cardinality(ToSet(s)) = Cardinality(1..n)
  BY <1>3, <1>4, FS_Bijection
<1> QED
  BY <1>4, <1>5 DEF n

(* An enum is counted by its members as it was charged by its entries.     *)
LEMMA EnumCount ==
  ASSUME NEW p, IsProperty(p), p.enum # Absent => IsInjective(p.enum),
         NEW enum, enum = Constraints(p).enum
  PROVE  (IF enum = Absent THEN 0 ELSE Cardinality(enum))
           = (IF p.enum = Absent THEN 0 ELSE Len(p.enum))
<1>1. enum = IF p.enum = Absent THEN Absent ELSE ToSet(p.enum)
  BY DEF Constraints
<1>2. CASE p.enum = Absent
  BY <1>1, <1>2
<1>3. CASE p.enum # Absent
  <2>1. IsSequence(p.enum) /\ ToSet(p.enum) # Absent /\ IsInjective(p.enum)
    BY <1>3 DEF IsProperty
  <2>2. Cardinality(ToSet(p.enum)) = Len(p.enum)
    BY <2>1, MembersOfList
  <2> QED
    BY <1>1, <1>3, <2>1, <2>2
<1> QED
  BY <1>2, <1>3

(* The enums of a tool.                                                    *)
LEMMA EnumsOfTool ==
  ASSUME NEW v \in Versions, Scannable(Documents[v]),
         NEW k \in DOMAIN Documents[v].tools
  PROVE  ReportedEnums(RowOfTool(Documents[v], k))
           = EnumCharge(Documents[v].tools[k])
<1> DEFINE doc == Documents[v]
           props == doc.tools[k].props
           rows == RowOfTool(doc, k).arguments
           charged == [i \in DOMAIN props |->
                         IF props[i].enum = Absent THEN 0 ELSE Len(props[i].enum)]
           counted == [i \in DOMAIN rows |->
                         LET enum == rows[i].constraints.enum
                         IN IF enum = Absent THEN 0 ELSE Cardinality(enum)]
<1>1. DOMAIN rows = DOMAIN props
  BY ReportRows
<1>2. ASSUME NEW i \in DOMAIN props
      PROVE  counted[i] = charged[i]
  <2>1. rows[i].constraints = Constraints(props[i])
    BY ReportRows, ArgumentIs
  <2>2. /\ IsProperty(props[i])
        /\ props[i].enum # Absent => IsInjective(props[i].enum)
    BY DocumentIs DEF Scannable, PropertiesFit
  <2> HIDE DEF rows, props
  <2>3. LET enum == rows[i].constraints.enum
        IN (IF enum = Absent THEN 0 ELSE Cardinality(enum))
             = (IF props[i].enum = Absent THEN 0 ELSE Len(props[i].enum))
    BY <2>1, <2>2, EnumCount
  <2> QED
    BY <1>1, <2>3
<1>3. counted = charged
  <2> HIDE DEF rows, props
  <2>1. DOMAIN counted = DOMAIN rows /\ DOMAIN charged = DOMAIN props
    OBVIOUS
  <2> QED
    BY <1>1, <1>2
<1>4. ReportedEnums(RowOfTool(doc, k)) = Sum(counted)
  BY DEF ReportedEnums
<1>5. EnumCharge(doc.tools[k]) = Sum(charged)
  BY DEF EnumCharge
<1> QED
  BY <1>3, <1>4, <1>5

(* The bounds and the cases that a tool's author declared.                 *)
LEMMA ControlsCount ==
  ASSUME NEW doc, Scannable(doc), NEW k \in DOMAIN doc.tools,
         NEW report, report = RowOfTool(doc, k),
         NEW controls, controls = Controls(doc, doc.tools[k].name),
         controls.branches # Absent => BranchReport(controls.branches) # Absent
  PROVE  ReportedControls(report) = ControlCharge(controls)
<1> DEFINE branches == controls.branches
           said == report.declared
           bounds == [n \in DOMAIN controls.arguments |->
                        Len(controls.arguments[n].bounds)]
           again == [n \in DOMAIN said |-> Len(said[n].bounds)]
           cases == report.branches.cases
           charged == [x \in CaseValues(branches) |->
                         1 + Cardinality(CaseOf(branches, x).active)]
           counted == [x \in DOMAIN cases |-> 1 + Cardinality(cases[x].active)]
<1>1. /\ said = DeclaredOf(controls, report.arguments)
      /\ report.branches = BranchesOf(controls)
  BY ReportFields DEF RowOfTool
<1>2. /\ DOMAIN said = DOMAIN controls.arguments
      /\ \A n \in DOMAIN said : said[n].bounds = controls.arguments[n].bounds
  <2> HIDE DEF said
  <2>1. \A r, d : DeclaredRow(r, d).bounds = d.bounds
    BY DEF DeclaredRow
  <2>2. /\ DOMAIN said = DOMAIN controls.arguments
        /\ \A n \in DOMAIN said : \E r :
             said[n] = DeclaredRow(r, controls.arguments[n])
    BY <1>1 DEF DeclaredOf
  <2> QED
    BY <2>1, <2>2
<1>3. again = bounds
  <2> HIDE DEF said
  <2> QED
    BY <1>2
<1>4. (report.branches = Absent) <=> (branches = Absent)
  BY <1>1 DEF BranchesOf
<1>5. ASSUME branches # Absent PROVE counted = charged
  <2>1. cases = BranchReport(branches).cases
    BY <1>1, <1>5 DEF BranchesOf
  <2> HIDE DEF cases, branches
  <2>2. /\ DOMAIN cases = CaseValues(branches)
        /\ \A x \in DOMAIN cases : cases[x].active = CaseOf(branches, x).active
    BY <2>1 DEF BranchReport
  <2> QED
    BY <2>2
<1>6. ReportedControls(report) =
        Sum(again) + IF report.branches = Absent THEN 0 ELSE Sum(counted)
  BY DEF ReportedControls
<1>7. ControlCharge(controls) =
        Sum(bounds) + IF branches = Absent THEN 0 ELSE Sum(charged)
  BY DEF ControlCharge
<1> HIDE DEF again, bounds, counted, charged, branches
<1> QED
  BY <1>3, <1>4, <1>5, <1>6, <1>7

(* The arguments of a tool, those its schema does not show included.       *)
LEMMA ArgumentsCount ==
  ASSUME NEW v \in Versions, NEW k \in DOMAIN Documents[v].tools
  PROVE  LET tool == Documents[v].tools[k]
             report == RowOfTool(Documents[v], k)
         IN Len(report.arguments) + Cardinality(DOMAIN report.unexposed)
              = ArgumentCharge(tool, Controls(Documents[v], tool.name))
<1> DEFINE doc == Documents[v]
           tool == doc.tools[k]
           controls == Controls(doc, tool.name)
           report == RowOfTool(doc, k)
           rows == report.arguments
<1>1. report = ToolReport(doc, tool, SetOf(doc), Unread(doc))
  BY DEF RowOfTool
<1>2. controls = Controls(doc, tool.name)
  OBVIOUS
<1>3. DOMAIN tool.props = 1..Len(tool.props) /\ Len(tool.props) \in Nat
  BY DocumentIs
<1>4. DOMAIN rows = DOMAIN tool.props
  BY ReportRows
<1> HIDE DEF report, controls, tool, doc
<1>5. report.unexposed = controls.unexposed
  BY <1>1, <1>2, ReportedRest
<1>6. rows = RowsOf(doc, tool, SetOf(doc), Unread(doc))
  BY <1>1, ReportFields
<1>7. Len(rows) = Len(tool.props)
  <2> DEFINE n == Len(tool.props)
             row(i) == ArgumentRow(tool, tool.props[i], Controls(doc, tool.name),
                                   SetOf(doc), Unread(doc))
  <2>1. rows = [i \in 1..n |-> row(i)] /\ n \in Nat
    BY <1>3, <1>6 DEF RowsOf
  <2> HIDE DEF n, row, rows
  <2>2. Len(rows) = n
    BY <2>1
  <2> QED
    BY <2>2 DEF n
<1>8. Len(rows) + Cardinality(DOMAIN report.unexposed)
        = ArgumentCharge(tool, controls)
  BY <1>5, <1>7 DEF ArgumentCharge
<1> QED
  BY <1>8 DEF report, controls, tool, doc

(* What the scanner's budgets held is within the validator's.              *)
LEMMA CountsRow ==
  ASSUME NEW v \in Versions, Scannable(Documents[v])
  PROVE  /\ Report(v) # <<>>
         /\ CardinalitiesFit(Report(v))
<1> DEFINE doc == Documents[v]
           tools == doc.tools
           report == Report(v)
           controls(i) == Controls(doc, tools[i].name)
<1>1. /\ DOMAIN report = DOMAIN tools
      /\ \A i \in DOMAIN tools : report[i] = RowOfTool(doc, i)
      /\ report = [i \in DOMAIN tools |-> RowOfTool(doc, i)]
  BY ScanIs DEF Report
<1>2. /\ Len(tools) \in 1..MaxTools
      /\ Sum([i \in DOMAIN tools |-> ArgumentCharge(tools[i], controls(i))])
           <= MaxArguments
      /\ Sum([i \in DOMAIN tools |-> EnumCharge(tools[i])]) <= MaxEnumMembers
      /\ Sum([i \in DOMAIN tools |-> ControlCharge(controls(i))])
           <= MaxControlMembers
  BY DEF Scannable, WithinBudget
<1>3. DOMAIN tools = 1..Len(tools) /\ Len(tools) \in Nat
  BY DocumentIs
<1>4. \A i \in DOMAIN tools :
        Len(report[i].arguments) + Cardinality(DOMAIN report[i].unexposed)
          = ArgumentCharge(tools[i], controls(i))
  BY <1>1, ArgumentsCount
<1>5. \A i \in DOMAIN tools : ReportedEnums(report[i]) = EnumCharge(tools[i])
  BY <1>1, EnumsOfTool
<1>6. ASSUME NEW i \in DOMAIN tools
      PROVE  ReportedControls(report[i]) = ControlCharge(controls(i))
  <2>1. controls(i).branches # Absent
          => BranchReport(controls(i).branches) # Absent
    <3>1. CASE tools[i].name \in DOMAIN doc.controls
      <4>1. controls(i) = doc.controls[tools[i].name]
        BY <3>1 DEF Controls
      <4>2. IsDocument(doc)
        BY ReviewAssumption DEF Versions
      <4> HIDE DEF doc, controls
      <4> QED
        BY <3>1, <4>1, <4>2 DEF IsDocument
    <3>2. CASE tools[i].name \notin DOMAIN doc.controls
      BY <3>2 DEF Controls
    <3> QED
      BY <3>1, <3>2
  <2>2. report[i] = RowOfTool(doc, i)
    BY <1>1
  <2>3. controls(i) = Controls(doc, doc.tools[i].name)
    OBVIOUS
  <2> HIDE DEF report, controls
  <2> QED
    BY <2>1, <2>2, <2>3, ControlsCount
<1> HIDE DEF report, controls, tools
<1>7. Len(report) = Len(tools) /\ report # <<>>
  <2> DEFINE n == Len(tools)
             row(i) == RowOfTool(doc, i)
  <2>1. report = [i \in 1..n |-> row(i)] /\ n \in Nat /\ n >= 1 /\ n <= MaxTools
    BY <1>1, <1>2, <1>3
  <2> HIDE DEF n, row
  <2>2. Len(report) = n /\ 1 \in DOMAIN report
    BY <2>1
  <2> QED
    BY <2>2 DEF n
<1>8. [i \in DOMAIN report |->
         Len(report[i].arguments) + Cardinality(DOMAIN report[i].unexposed)]
        = [i \in DOMAIN tools |-> ArgumentCharge(tools[i], controls(i))]
  BY <1>1, <1>4
<1>9. [i \in DOMAIN report |-> ReportedEnums(report[i])]
        = [i \in DOMAIN tools |-> EnumCharge(tools[i])]
  BY <1>1, <1>5
<1>10. [i \in DOMAIN report |-> ReportedControls(report[i])]
         = [i \in DOMAIN tools |-> ControlCharge(controls(i))]
  BY <1>1, <1>6
<1>11. Len(report) <= MaxTools
  BY <1>2, <1>7
<1>12. CardinalitiesFit(report)
  BY <1>2, <1>8, <1>9, <1>10, <1>11 DEF CardinalitiesFit
<1> QED
  BY <1>7, <1>12 DEF report

(* Whatever the scanner reports on, the validator accepts its report.      *)
LEMMA ReportIsValid ==
  ASSUME NEW v \in Versions, Scannable(Documents[v])
  PROVE  IsReport(Report(v))
<1> DEFINE doc == Documents[v]
           report == Report(v)
<1>1. /\ DOMAIN report = DOMAIN doc.tools
      /\ \A i \in DOMAIN doc.tools : report[i] = RowOfTool(doc, i)
  BY ScanIs DEF Report
<1>2. Refused(NamesIn(report)) = Unread(doc)
  BY ReportNames, RegistryNames DEF Report, Incomplete, Unread
<1>3. \A i \in DOMAIN report : ToolRowFits(report[i], Refused(NamesIn(report)))
  BY <1>1, <1>2, ToolRow
<1>4. \A j, k \in DOMAIN report : report[j].name = report[k].name => j = k
  BY ScannedReports
<1>5. report # <<>> /\ CardinalitiesFit(report)
  BY CountsRow
<1> HIDE DEF report
<1>6. IsInjective([i \in DOMAIN report |-> report[i].name])
  BY <1>4 DEF IsInjective
<1>7. IsReport(report)
  BY <1>3, <1>5, <1>6 DEF IsReport
<1> QED
  BY <1>7 DEF report

(* The two copies of the rules agree: the diff takes every report the      *)
(* scanner writes for a genuine one.                                       *)
THEOREM ScannedReportsAreValid ==
  Spec => []ScannedReportsValidate
<1>1. ReviewInv => ScannedReportsValidate
  BY ReportIsValid DEF ReviewInv, ScannedReportsValidate
<1> QED
  BY <1>1, ReviewInit, ReviewStep, PTL DEF Spec
===============================================================================
