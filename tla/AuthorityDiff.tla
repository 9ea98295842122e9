---------------------------- MODULE AuthorityDiff ----------------------------
(***************************************************************************)
(* Authority Diff, verb_authority_diff.py: it scans two versions of an     *)
(* export, derives again from each report what the scanner derived, and    *)
(* classifies every difference as an increase of the caller's authority,   *)
(* an increase of protection, or a case for review.                        *)
(***************************************************************************)
EXTENDS SchemaScan

---------------------------------------------------------------------------
(* The validator: a second copy of the scanner's rules, over the report.   *)

\* defect: a name costs only where the validator asks what it says
NamesAsked(report) ==
  FlattenSeq([i \in DOMAIN report |->
    LET asked == SelectSeq(report[i].arguments,
                           LAMBDA row : row.review /\ row.type = "enum")
    IN [j \in DOMAIN asked |-> asked[j].name]])

\* every name of the report, charged in its order to one budget
NamesIn(report) ==
  FlattenSeq([i \in DOMAIN report |->
    <<report[i].name>> \o
      [j \in DOMAIN report[i].arguments |-> report[i].arguments[j].name]])

\* what a tool's name suggests is read again, on a budget of its own
InferenceFits(tool) ==
  \/ tool.inferred = "inference_limit"
  \/ tool.inferred = InferRisk(tool.name, Refused(<<tool.name>>))

\* a tool without branches
RiskRowFits(tool) ==
  LET declared == tool.declaredRisk
      limited == tool.inferred = "inference_limit"
      conflict == /\ declared # Absent
                  /\ tool.inferred \notin {"unknown", "inference_limit"}
                  /\ declared.tier # tool.inferred
      established == declared # Absent /\ ~conflict /\ ~limited
  IN /\ tool.risk = IF established THEN declared.tier ELSE "unknown"
     /\ tool.riskSource = IF conflict THEN "conflict_safe_default"
                          ELSE IF established THEN "control_declaration"
                          ELSE "safe_default"
     /\ tool.riskEvidence = IF established THEN declared.evidence ELSE Absent
     /\ tool.riskConflict = conflict
     /\ tool.riskReview = ~established
     /\ tool.confirm = (tool.risk \in NEEDS_CONFIRM)

\* a tool with branches
BranchRowFits(tool) ==
  LET cases == tool.branches.cases
      risks == {cases[v].risk : v \in DOMAIN cases}
      names == {row.name : row \in ToSet(tool.arguments)}
      selector == CHOOSE row \in ToSet(tool.arguments) :
                    row.name = tool.branches.selector
  IN /\ ~tool.branchReview
     /\ tool.branches.selector \in names
     /\ selector.type = "enum"
     /\ selector.constraints.enum = DOMAIN cases
     /\ \A v \in DOMAIN cases :
          /\ cases[v].risk \in DeclarableRisks
          /\ cases[v].active \subseteq names
          /\ tool.branches.selector \in cases[v].active
          /\ cases[v].confirm = (cases[v].risk \in NEEDS_CONFIRM)
     /\ tool.risk = BranchRiskOrder[Max({SelectInSeq(BranchRiskOrder,
                      LAMBDA x : x = r) : r \in risks})]
     /\ tool.riskSource = "branch_control_declaration"
     /\ tool.riskEvidence = Absent /\ tool.declaredRisk = Absent
     /\ ~tool.riskConflict /\ ~tool.riskReview
     /\ tool.confirm = (risks \cap NEEDS_CONFIRM # {})

UnbranchedRowFits(tool, incomplete) ==
  /\ tool.branchReview =
       /\ tool.risk # "read_only"
       /\ \E row \in ToSet(tool.arguments) :
            /\ row.type = "enum" /\ row.policy = "trusted_fixed"
            /\ row.confidence = "uncertain"
            /\ IsBranchSelectorName(row.name, incomplete)
  /\ RiskRowFits(tool)

\* what branches say is no evidence of who may author an argument
ArgumentRisk(tool) == IF tool.branches # Absent THEN "unknown" ELSE tool.risk

ArgumentRowFits(row, risk, incomplete) ==
  /\ IF row.confidence = "high" THEN ~row.review
     ELSE IF row.policy = "trusted_fixed" THEN row.review
     ELSE row.policy = "typed_bounded" /\ risk = "read_only" /\ ~row.review
  /\ row.remedy = Remedy(row.policy, row.review, row.type, row.name, incomplete)

AssessmentsFit(tool) ==
  LET hints == [h \in DOMAIN tool.assessments |-> tool.assessments[h].value]
  IN tool.assessments = Assessments(hints, tool.risk)

DeclaredFit(tool) ==
  LET row(n) == CHOOSE r \in ToSet(tool.arguments) : r.name = n
      names == {r.name : r \in ToSet(tool.arguments)}
  IN /\ DOMAIN tool.declared \subseteq names
     /\ DOMAIN tool.unexposed \cap names = {}
     /\ \A n \in DOMAIN tool.declared :
          LET declared == tool.declared[n]
          IN /\ declared.policy = row(n).policy
             /\ declared.review = row(n).review
             /\ (declared.authority = "constrained") = (declared.bounds # <<>>)
             /\ IsInjective(declared.bounds)
     /\ tool.unexposed # <<>> /\ ~tool.closes => tool.schemaReview

ReviewFits(tool) ==
  /\ tool.sources = ReviewSources(tool)
  /\ tool.review = InDebt(tool.sources)

ToolRowFits(tool, incomplete) ==
  /\ \A row \in ToSet(tool.arguments) :
       ArgumentRowFits(row, ArgumentRisk(tool), incomplete)
  /\ IF tool.branches = Absent THEN UnbranchedRowFits(tool, incomplete)
     ELSE BranchRowFits(tool)
  /\ InferenceFits(tool)
  /\ AssessmentsFit(tool)
  /\ DeclaredFit(tool)
  /\ ReviewFits(tool)

\* what the scanner charged for the tool a report describes
ReportedEnums(tool) ==
  Sum([i \in DOMAIN tool.arguments |->
         LET enum == tool.arguments[i].constraints.enum
         IN IF enum = Absent THEN 0 ELSE Cardinality(enum)])

ReportedControls(tool) ==
  LET cases == tool.branches.cases
  IN Sum([n \in DOMAIN tool.declared |-> Len(tool.declared[n].bounds)]) +
       IF tool.branches = Absent THEN 0
       ELSE Sum([v \in DOMAIN cases |-> 1 + Cardinality(cases[v].active)])

CardinalitiesFit(report) ==
  /\ Len(report) <= MaxTools
  /\ Sum([i \in DOMAIN report |->
            Len(report[i].arguments) + Cardinality(DOMAIN report[i].unexposed)])
       <= MaxArguments
  /\ Sum([i \in DOMAIN report |-> ReportedEnums(report[i])]) <= MaxEnumMembers
  /\ Sum([i \in DOMAIN report |-> ReportedControls(report[i])])
       <= MaxControlMembers

\* the diff refuses a report the scanner cannot have written
IsReport(report) ==
  /\ report # <<>>
  /\ IsInjective([i \in DOMAIN report |-> report[i].name])
  /\ \A i \in DOMAIN report : ToolRowFits(report[i], Refused(NamesIn(report)))
  /\ CardinalitiesFit(report)

---------------------------------------------------------------------------
(* Classification. *)

PolicyRank == <<"trusted_fixed", "typed_bounded", "outbound_payload">>
AuthorityRank == <<"locked", "constrained", "free">>

Rank(order, x) == SelectInSeq(order, LAMBDA y : y = x)

\* more is more authority for the caller
Ordered(before, after) ==
  IF after > before THEN "authority_increase" ELSE "protection_increase"

\* an upper limit, or the absence of one
LimitClass(before, after) ==
  IF after = Absent THEN "authority_increase"
  ELSE IF before = Absent THEN "protection_increase"
  ELSE Ordered(before, after)

\* defect: whatever admits fewer members is taken for a restriction
EnumClassUnlessWider(before, after) ==
  IF after = Absent THEN "authority_increase"
  ELSE IF before = Absent THEN "protection_increase"
  ELSE IF before \subseteq after THEN "authority_increase"
  ELSE "protection_increase"

EnumClass(before, after) ==
  IF after = Absent THEN "authority_increase"
  ELSE IF before = Absent THEN "protection_increase"
  ELSE IF before \subseteq after THEN "authority_increase"
  ELSE IF after \subseteq before THEN "protection_increase"
  ELSE "review"

\* no argument that a branch gained is hidden by anything else that changed
BranchClass(before, after) ==
  IF before = Absent \/ after = Absent THEN "review"
  ELSE IF before.selector # after.selector THEN "review"
  ELSE
  LET common == DOMAIN before.cases \cap DOMAIN after.cases
      gains(v) == after.cases[v].active \ before.cases[v].active
      same(v) == [after.cases[v] EXCEPT !.active = {}]
                   = [before.cases[v] EXCEPT !.active = {}]
  IN IF \E v \in common : gains(v) # {} THEN "authority_increase"
     ELSE IF DOMAIN before.cases # DOMAIN after.cases
             \/ \E v \in common : ~same(v)
     THEN "review" ELSE "protection_increase"

---------------------------------------------------------------------------
(* Bounds.  Only what is enforced and out of the caller's hands protects;  *)
(* bounds are told apart by their source, mutability and status.           *)

MutabilityRank(b) == Rank(BoundMutability, b.mutability)
Strength(b) == IF b.status = "enforced" THEN MutabilityRank(b) ELSE 0
Protects(b) == b.status = "enforced" /\ b.mutability # "caller"
From(bounds, source) == {b \in bounds : b.source = source}
SourcesOf(bounds) == {b.source : b \in bounds}

\* the protective bounds of a source are matched, one by one, by bounds of
\* the same source that are at least as strong
Dominates(after, before) ==
  \A k \in {MutabilityRank(b) : b \in {x \in before : Protects(x)}} :
    Cardinality({b \in after : Strength(b) >= k})
      >= Cardinality({b \in before : Protects(b) /\ Strength(b) >= k})

\* the only bound of its source, made stronger
Upgrades(before, after) ==
  {u \in before \X after :
     LET b == u[1]
         a == u[2]
     IN /\ From(before, b.source) = {b} /\ From(after, b.source) = {a}
        /\ Protects(a)
        /\ Strength(a) > Strength(b)
        /\ MutabilityRank(a) >= MutabilityRank(b)}

\* the ranks of a source's enforced bounds, and the place of one of them
EnforcedRanks(bounds, source) ==
  {MutabilityRank(b) : b \in {x \in From(bounds, source) :
                                x.status = "enforced"}}
Place(rank, ranks) == Cardinality({r \in ranks : r <= rank})

\* how far they moved, each compared with the one in its place
RankSteps(old, new) ==
  {p[2] - p[1] : p \in {q \in old \X new :
                          Place(q[1], old) = Place(q[2], new)}}

\* the same enforced bounds, more or less mutable
MutabilityShift(before, after) ==
  LET enforced(S) == {b \in S : b.status = "enforced"}
      sources == SourcesOf(enforced(before))
      steps == UNION {RankSteps(EnforcedRanks(before, s),
                                EnforcedRanks(after, s)) : s \in sources}
      comparable ==
        /\ SourcesOf(enforced(after)) = sources
        /\ \A s \in sources :
             Cardinality(EnforcedRanks(before, s))
               = Cardinality(EnforcedRanks(after, s))
  IN IF ~comparable \/ steps \subseteq {0} THEN "none"
     ELSE IF \A step \in steps : step <= 0 THEN "loosened"
     ELSE IF \A step \in steps : step >= 0 THEN "tightened" ELSE "none"

\* defect: a replacement is an improvement if it protects more often
BoundsClassByNumber(before, after) ==
  LET old == {b \in before : Protects(b)}
      new == {b \in after : Protects(b)}
  IN IF \E b \in before \cup after : b.status = "not_stated" THEN "review"
     ELSE IF Cardinality(new) < Cardinality(old) THEN "authority_increase"
     ELSE IF Cardinality(new) > Cardinality(old) THEN "protection_increase"
     ELSE "review"

BoundsClass(before, after) ==
  LET old == {b \in before : Protects(b)}
      new == {b \in after : Protects(b)}
      upgrades == Upgrades(before, after)
      unexplained(S, upgraded) == {b \in S : ~Protects(b)} \ upgraded
      claims(S) == {b \in S : b.status # "enforced"}
      shift == MutabilityShift(before, after)
  IN IF \E b \in before \cup after : b.status = "not_stated" THEN "review"
     ELSE IF \E s \in SourcesOf(before) \cap SourcesOf(after) :
               ~Dominates(From(after, s), From(before, s))
     THEN "authority_increase"
     ELSE IF new \subseteq old /\ new # old THEN "authority_increase"
     ELSE IF old \subseteq new /\ new # old
     THEN IF unexplained(before, {u[1] : u \in upgrades})
               = unexplained(after, {u[2] : u \in upgrades})
          THEN "protection_increase" ELSE "review"
     ELSE IF shift = "loosened" THEN "authority_increase"
     ELSE IF shift = "tightened" /\ claims(before) = claims(after)
     THEN "protection_increase" ELSE "review"

---------------------------------------------------------------------------
(* The changes of one tool, as a set of records. *)

Change(class, kind, t, n) ==
  [class |-> class, kind |-> kind, tool |-> t, argument |-> n]

\* fields whose changes have no direction
RiskFields == {"risk", "riskSource", "riskEvidence", "inferred", "declaredRisk",
               "riskConflict", "riskReview"}
ToolReviewFields == RiskFields \cup
  {"schemaReview", "assessments", "branchReview", "unmodeled"}
ArgumentReviewFields == {"unmodeled", "type", "required", "review"}

ReviewChanges(before, after, fields, t, n) ==
  {Change("review", f, t, n) : f \in {f \in fields : before[f] # after[f]}}

\* a change of one part, if it changed
ChangeOf(before, after, change) == IF before = after THEN {} ELSE {change}

ConfirmationClass(before, after) ==
  IF before.confirm THEN "authority_increase" ELSE "protection_increase"

\* closing an unresolved schema proves nothing
ClosureClass(before, after) ==
  IF before.closes THEN "authority_increase"
  ELSE IF after.schemaReview THEN "review" ELSE "protection_increase"

\* an argument that is no longer described may still be passed
RemovalClass(after) ==
  IF ~after.closes THEN "authority_increase"
  ELSE IF after.schemaReview THEN "review" ELSE "protection_increase"

Exposed(tool) == {row.name : row \in ToSet(tool.arguments)}
RowOf(tool, n) == CHOOSE row \in ToSet(tool.arguments) : row.name = n

\* what is declared of an argument, and what an undeclared one has of it
NoControl == [evidence |-> Absent, bounds |-> <<>>]
IsDeclaredIn(tool, n) == n \in DOMAIN tool.declared
ControlOf(tool, n) ==
  IF IsDeclaredIn(tool, n) THEN tool.declared[n] ELSE NoControl

\* that a declaration comes or goes has no direction, its evidence neither;
\* its bounds are compared with none
DeclaredChanges(before, after, t, n) ==
  LET old == ControlOf(before, n)
      new == ControlOf(after, n)
  IN UNION {
       ChangeOf(IsDeclaredIn(before, n), IsDeclaredIn(after, n),
                Change("review", "declared_control", t, n)),
       IF IsDeclaredIn(before, n) /\ IsDeclaredIn(after, n)
       THEN ChangeOf(old.authority, new.authority,
                     Change(Ordered(Rank(AuthorityRank, old.authority),
                                    Rank(AuthorityRank, new.authority)),
                            "declared_authority_changed", t, n))
       ELSE {},
       ReviewChanges(old, new, {"evidence"}, t, n),
       ChangeOf(old.bounds, new.bounds,
                Change(BoundsClass(ToSet(old.bounds), ToSet(new.bounds)),
                       "bounds_changed", t, n))}

ExposedChanges(before, after, t, n) ==
  LET old == RowOf(before, n)
      new == RowOf(after, n)
      was == old.constraints
      is == new.constraints
  IN UNION {
       ChangeOf(old.policy, new.policy,
                Change(Ordered(Rank(PolicyRank, old.policy),
                               Rank(PolicyRank, new.policy)),
                       "inferred_policy_changed", t, n)),
       DeclaredChanges(before, after, t, n),
       ChangeOf(was.maximum, is.maximum,
                Change(LimitClass(was.maximum, is.maximum), "maximum_changed",
                       t, n)),
       ChangeOf(was.maxLength, is.maxLength,
                Change(LimitClass(was.maxLength, is.maxLength),
                       "max_length_changed", t, n)),
       ChangeOf(was.enum, is.enum,
                Change(EnumClass(was.enum, is.enum), "enum_changed", t, n)),
       ReviewChanges(old, new, ArgumentReviewFields, t, n)}

ArgumentChanges(before, after, t, n) ==
  LET was == IF n \in Exposed(before) THEN "exposed"
             ELSE IF n \in DOMAIN before.unexposed THEN "unexposed" ELSE "absent"
      is == IF n \in Exposed(after) THEN "exposed"
            ELSE IF n \in DOMAIN after.unexposed THEN "unexposed" ELSE "absent"
  IN IF was = "exposed" /\ is = "exposed" THEN ExposedChanges(before, after, t, n)
     ELSE IF was = "unexposed" /\ is = "unexposed"
     THEN IF before.unexposed[n] = after.unexposed[n] THEN {}
          ELSE {Change("review", "unexposed_changed", t, n)}
     ELSE IF is = "exposed"
     THEN {Change("authority_increase", "argument_exposed", t, n)}
     ELSE IF was = "exposed"
     THEN {Change(RemovalClass(after), "argument_withdrawn", t, n)}
     ELSE {Change("review", "unexposed_control", t, n)}

ToolChanges(before, after) ==
  LET t == before.name
      names == UNION {Exposed(x) \cup DOMAIN x.unexposed : x \in {before, after}}
  IN UNION {
       ReviewChanges(before, after, ToolReviewFields, t, NoName),
       ChangeOf(before.confirm, after.confirm,
                Change(ConfirmationClass(before, after),
                       "confirmation_changed", t, NoName)),
       ChangeOf(before.closes, after.closes,
                Change(ClosureClass(before, after),
                       "unknown_arguments_changed", t, NoName)),
       ChangeOf(before.branches, after.branches,
                Change(BranchClass(before.branches, after.branches),
                       "branch_risk_changed", t, NoName)),
       UNION {ArgumentChanges(before, after, t, n) : n \in names}}

Diff(before, after) ==
  LET names(report) == {report[i].name : i \in DOMAIN report}
      row(report, t) == report[CHOOSE i \in DOMAIN report : report[i].name = t]
  IN UNION {
       {Change("authority_increase", "tool_added", t, NoName) :
          t \in names(after) \ names(before)},
       {Change("protection_increase", "tool_removed", t, NoName) :
          t \in names(before) \ names(after)},
       UNION {ToolChanges(row(before, t), row(after, t)) :
                t \in names(before) \cap names(after)}}

Classes(changes) == {c.class : c \in changes}

\* exit status of the command with both thresholds: it scans both documents
\* itself, and a document it cannot scan ends it with an error
Passes(before, after) ==
  /\ Scannable(before) /\ Scannable(after)
  /\ IsReport(Scan(before)) /\ IsReport(Scan(after))
  /\ Classes(Diff(Scan(before), Scan(after))) \subseteq {"protection_increase"}
  /\ ~ReportInDebt(Scan(after))
=============================================================================
