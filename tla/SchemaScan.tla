------------------------------ MODULE SchemaScan ------------------------------
(***************************************************************************)
(* The schema scanner, verb_authority_scan.py: from an exported document   *)
(* of tool definitions and the author's control declarations to a report.  *)
(*                                                                         *)
(* A document is                                                           *)
(*   [envelopes, report, tools, controls]                                  *)
(* with the tool envelopes found in it, whether it has the vocabulary of a *)
(* report, its tools in order and the control sidecar, a function on the   *)
(* tools it names.  A tool is [name, wire, root, props, hints]: how the    *)
(* definition was written, the root of its input schema, its properties in *)
(* order and its boolean MCP annotations.  Names, values and the parts of  *)
(* a schema the scanner only fingerprints are opaque.  Report names are    *)
(* the tools' own: the redacted form is not modelled.                      *)
(***************************************************************************)
EXTENDS PolicyDerivation

CONSTANTS
  Keywords,          \* argument names that are JSON Schema keywords as well
  Portable,          \* scalars a runtime selector represents exactly
  MaxTools,          \* MAX_SCAN_TOOL_DEFINITIONS
  MaxArguments,      \* MAX_SCAN_ARGUMENTS
  MaxEnumMembers,    \* MAX_SCAN_ENUM_MEMBERS
  MaxControlMembers, \* MAX_SCAN_CONTROL_COLLECTION_MEMBERS
  Absent             \* what is not there

ASSUME ScanAssumption ==
  /\ Keywords \subseteq Words
  /\ {MaxTools, MaxArguments, MaxEnumMembers, MaxControlMembers}
       \subseteq Nat \ {0}

DeclarableRisks == Tiers \ {"unknown"}
BranchRiskOrder == <<"read_only", "write", "financial", "code_exec",
                     "destructive">>
ControlEvidence == {"observed", "declared", "attested"}
ControlAuthorities == {"locked", "constrained", "free"}
BoundMutability == <<"caller", "trusted_party", "immutable">>
BoundStatus == {"enforced", "specified", "not_stated"}

Sum(f) == FoldFunction(+, 0, f)

---------------------------------------------------------------------------
(* Reading a document. *)

\* one tool entry: nested or direct, never both, with one schema alias at
\* most, and with none only where its dialect lets the schema be missing
EntryParses(wire) ==
  IF wire.nested
  THEN /\ wire.type = "function"
       /\ ~wire.outer
       /\ wire.aliases \subseteq {"parameters"}
  ELSE /\ "parameters" \in wire.aliases => wire.type \in {"function", Absent}
       /\ IF wire.type = "function" THEN wire.aliases \subseteq {"parameters"}
          ELSE Cardinality(wire.aliases) = 1

\* exactly one envelope, and nothing that looks like a report
Parses(doc) ==
  /\ ~doc.report
  /\ Cardinality(doc.envelopes) = 1
  /\ \A i \in DOMAIN doc.tools : EntryParses(doc.tools[i].wire)

Controls(doc, t) ==
  IF t \in DOMAIN doc.controls THEN doc.controls[t]
  ELSE [risk |-> Absent, branches |-> Absent, arguments |-> <<>>,
        unexposed |-> <<>>]

\* the cases of declared branches, by the value that selects them
CaseValues(branches) == {branches.cases[i].value : i \in DOMAIN branches.cases}
CaseOf(branches, v) == CHOOSE c \in ToSet(branches.cases) : c.value = v

\* What one tool is charged: an unexposed argument as an argument, branch
\* cases (no two with one value, as BranchesFit has it), their arguments and
\* bounds as control members.
ArgumentCharge(tool, controls) ==
  Len(tool.props) + Cardinality(DOMAIN controls.unexposed)

EnumCharge(tool) ==
  Sum([i \in DOMAIN tool.props |->
         IF tool.props[i].enum = Absent THEN 0 ELSE Len(tool.props[i].enum)])

ControlCharge(controls) ==
  LET branches == controls.branches
      bounds == [n \in DOMAIN controls.arguments |->
                   Len(controls.arguments[n].bounds)]
  IN Sum(bounds) +
       IF branches = Absent THEN 0
       ELSE Sum([v \in CaseValues(branches) |->
                   1 + Cardinality(CaseOf(branches, v).active)])

\* the budgets of one scan
WithinBudget(doc) ==
  LET tools == doc.tools
      controls(i) == Controls(doc, tools[i].name)
  IN /\ Len(tools) \in 1..MaxTools
     /\ Sum([i \in DOMAIN tools |-> ArgumentCharge(tools[i], controls(i))])
          <= MaxArguments
     /\ Sum([i \in DOMAIN tools |-> EnumCharge(tools[i])]) <= MaxEnumMembers
     /\ Sum([i \in DOMAIN tools |-> ControlCharge(controls(i))])
          <= MaxControlMembers

---------------------------------------------------------------------------
(* Properties. *)

\* a property without a type is a string, one with several types is JSON
PropertyType(p) ==
  LET types == p.types \ {"null"}
  IN IF p.enum # Absent THEN "enum"
     ELSE IF p.format # Absent THEN p.format
     ELSE IF p.types = {} THEN "string"
     ELSE IF Cardinality(types) = 1 THEN CHOOSE x \in types : TRUE ELSE "json"

\* shown instead of the inferred string where only a composition is declared
ReportedType(p) ==
  IF p.form = "composed" /\ p.types = {} /\ PropertyType(p) # "enum" THEN "json"
  ELSE PropertyType(p)

Constraints(p) ==
  [maximum |-> p.maximum, maxLength |-> p.maxLength,
   enum |-> IF p.enum = Absent THEN Absent ELSE ToSet(p.enum)]

\* what the diff cannot interpret: all but the modelled constraints
ArgumentResidual(p) == <<p.form, p.types, p.format, p.other>>

\* the root's residual keeps only the required names that are no property
ToolResidual(tool) ==
  <<tool.root.shape, tool.root.composed, tool.root.patterns,
    IF tool.root.additional = "schema" THEN "schema" ELSE Absent,
    tool.root.required \ NamesOf(tool.props), tool.root.other>>

\* what the registry learns: never who may author it, and of a maximum only
\* that there is one
ScanParam(p) ==
  [name |-> p.name, type |-> PropertyType(p), sink |-> "undeclared",
   enum |-> IF p.enum = Absent THEN <<>> ELSE p.enum,
   limit |-> IF p.maxLength # Absent THEN p.maxLength
             ELSE IF p.maximum # Absent THEN 0 ELSE NoLimit]

\* a direct export maps argument names to schemas and says nothing of others
ClosesUnknownArguments(tool) ==
  /\ tool.root.shape # "direct"
  /\ tool.root.additional = "closed"
  /\ ~tool.root.patterns

Required(tool, n) == tool.root.shape # "direct" /\ n \in tool.root.required

\* compositions, boolean schemas, nested property maps and unions of types
\* are not resolved
PropertyNeedsReview(p) == p.form # "plain" \/ Cardinality(p.types) > 1

SchemaNeedsReview(tool) ==
  \/ \E i \in DOMAIN tool.props : PropertyNeedsReview(tool.props[i])
  \/ /\ tool.root.shape = "direct"
     /\ NamesOf(tool.props) \cap Keywords # {}
  \/ /\ tool.root.shape # "direct"
     /\ \/ tool.root.shape = "untyped"
        \/ tool.root.composed
        \/ tool.root.patterns
        \/ tool.root.additional = "schema"
        \/ tool.root.required \ NamesOf(tool.props) # {}

PropertiesFit(tool) ==
  /\ IsInjective([i \in DOMAIN tool.props |-> tool.props[i].name])
  /\ \A i \in DOMAIN tool.props :
       tool.props[i].enum # Absent => IsInjective(tool.props[i].enum)

---------------------------------------------------------------------------
(* The control sidecar. *)

RiskFits(risk) ==
  risk.tier \in DeclarableRisks /\ risk.evidence \in ControlEvidence

\* Branches are declared instead of one tool risk, over an exposed enum, one
\* case for each of its members, each with the selector among its arguments.
BranchesFit(tool, controls) ==
  LET branches == controls.branches
      cases == branches.cases
      values == [i \in DOMAIN cases |-> cases[i].value]
      enum == ParamOf([params |-> tool.props], branches.selector).enum
  IN /\ controls.risk = Absent
     /\ branches.selector \in NamesOf(tool.props)
     /\ enum \notin {Absent, <<>>}
     /\ ToSet(enum) \subseteq Portable
     /\ IsInjective(values) /\ ToSet(values) = ToSet(enum)
     /\ \A i \in DOMAIN cases :
          /\ RiskFits(cases[i].risk)
          /\ branches.selector \in cases[i].active
          /\ cases[i].active \subseteq NamesOf(tool.props)

\* bounds belong to constrained arguments, and each is declared once
ArgumentsFit(tool, controls) ==
  /\ DOMAIN controls.arguments \subseteq NamesOf(tool.props)
  /\ \A n \in DOMAIN controls.arguments :
       LET declared == controls.arguments[n]
       IN /\ declared.authority \in ControlAuthorities
          /\ declared.evidence \in ControlEvidence
          /\ (declared.authority = "constrained") = (declared.bounds # <<>>)
          /\ IsInjective(declared.bounds)
          /\ \A i \in DOMAIN declared.bounds :
               /\ declared.bounds[i].mutability \in ToSet(BoundMutability)
               /\ declared.bounds[i].status \in BoundStatus

UnexposedFit(tool, controls) ==
  /\ DOMAIN controls.unexposed \cap NamesOf(tool.props) = {}
  /\ \A n \in DOMAIN controls.unexposed :
       controls.unexposed[n].evidence \in ControlEvidence

ControlsFit(doc) ==
  /\ DOMAIN doc.controls \subseteq ToolNames(doc.tools)
  /\ \A t \in DOMAIN doc.controls :
       LET tool == ToolOf(doc.tools, t)
           controls == doc.controls[t]
       IN /\ controls.risk # Absent => RiskFits(controls.risk)
          /\ controls.branches # Absent => BranchesFit(tool, controls)
          /\ ArgumentsFit(tool, controls)
          /\ UnexposedFit(tool, controls)

\* the scanner reports on a document or rejects it as a whole
Scannable(doc) ==
  /\ Parses(doc)
  /\ WithinBudget(doc)
  /\ IsInjective([i \in DOMAIN doc.tools |-> doc.tools[i].name])
  /\ \A i \in DOMAIN doc.tools : PropertiesFit(doc.tools[i])
  /\ ControlsFit(doc)

---------------------------------------------------------------------------
(* The report. *)

RegistryTool(doc, tool) ==
  LET controls == Controls(doc, tool.name)
      branches == controls.branches
  IN [name |-> tool.name,
      risk |-> IF controls.risk = Absent THEN "undeclared"
               ELSE controls.risk.tier,
      params |-> [i \in DOMAIN tool.props |-> ScanParam(tool.props[i])],
      selector |-> IF branches = Absent THEN NoName ELSE branches.selector,
      cases |-> IF branches = Absent THEN <<>> ELSE branches.cases]

ScanRegistry(doc) ==
  [i \in DOMAIN doc.tools |-> RegistryTool(doc, doc.tools[i])]

\* a hint is compared with the effective risk where the two speak of the
\* same thing; next to a read-only hint most of them mean nothing
HintState(hints, h, risk) ==
  LET readOnly == "readOnlyHint" \in DOMAIN hints /\ hints["readOnlyHint"]
      expected == IF h = "readOnlyHint" THEN "read_only" ELSE "destructive"
  IN IF h = "openWorldHint" THEN "unresolved"
     ELSE IF h # "readOnlyHint" /\ readOnly THEN "inapplicable"
     ELSE IF h = "idempotentHint" \/ risk = "unknown" THEN "unresolved"
     ELSE IF hints[h] = (risk = expected) THEN "consistent" ELSE "conflict"

Assessments(hints, risk) ==
  [h \in DOMAIN hints |-> [value |-> hints[h], state |-> HintState(hints, h, risk)]]

HintConflicts(assessments) ==
  {h \in DOMAIN assessments : assessments[h].state = "conflict"}

IsBranchSelectorName(n, incomplete) == "branch_selector" \in Says(n, incomplete)

AuthorityMismatch(policy, controls, n) ==
  /\ policy = "trusted_fixed"
  /\ n \in DOMAIN controls.arguments
  /\ controls.arguments[n].authority \in {"constrained", "free"}

\* a consequential tool's doubtful enum selector needs a branch declaration
BranchSelectorCandidate(tool, controls, risk, incomplete) ==
  /\ risk # "read_only"
  /\ \E i \in DOMAIN tool.props :
       LET p == ScanParam(tool.props[i])
           verdict == InferPolicy(p, incomplete)
       IN /\ p.type = "enum"
          /\ IsBranchSelectorName(p.name, incomplete)
          /\ verdict.policy = "trusted_fixed"
          /\ \/ verdict.confidence = "uncertain"
             \/ AuthorityMismatch(verdict.policy, controls, p.name)

Remedy(policy, review, type, n, incomplete) ==
  IF policy # "trusted_fixed" THEN Absent
  ELSE IF ~review THEN "recommended"
  ELSE IF type = "enum" /\ IsBranchSelectorName(n, incomplete)
  THEN "review_selector" ELSE "review_authority"

ArgumentRow(tool, p, controls, set, incomplete) ==
  LET pair == <<tool.name, p.name>>
      policy == set.policy[pair]
      mismatch == AuthorityMismatch(policy, controls, p.name)
      review == mismatch \/ pair \in set.review
  IN [name |-> p.name,
      type |-> ReportedType(p),
      required |-> Required(tool, p.name),
      policy |-> policy,
      confidence |-> IF mismatch THEN "uncertain"
                     ELSE InferPolicy(ScanParam(p), incomplete).confidence,
      review |-> review,
      remedy |-> Remedy(policy, review, PropertyType(p), p.name, incomplete),
      constraints |-> Constraints(p),
      material |-> <<ArgumentResidual(p), Constraints(p)>>,
      unmodeled |-> ArgumentResidual(p)]

WorstBranchRisk(branches) ==
  BranchRiskOrder[Max({SelectInSeq(BranchRiskOrder,
                         LAMBDA r : r = branches.cases[i].risk.tier) :
                       i \in DOMAIN branches.cases})]

\* the cases as a function on their fingerprinted values
BranchReport(branches) ==
  [selector |-> branches.selector,
   cases |->
     [v \in CaseValues(branches) |->
        LET case == CaseOf(branches, v)
        IN [risk |-> case.risk.tier, evidence |-> case.risk.evidence,
            active |-> case.active,
            confirm |-> case.risk.tier \in NEEDS_CONFIRM]]]

DeclaredRow(row, declared) ==
  [policy |-> row.policy, review |-> row.review,
   authority |-> declared.authority, evidence |-> declared.evidence,
   bounds |-> declared.bounds]

\* Branches decide the risk and the confirmation of the tool as its worst
\* case does; what they say never reaches the policy of an argument.
Findings(doc, tool, set, incomplete) ==
  LET t == tool.name
      controls == Controls(doc, t)
      branches == controls.branches
      branched == branches # Absent
      conflict == ~branched /\ t \in set.conflicts
      limited == set.evidence[t] = "inference_limit"
      risk == IF branched THEN WorstBranchRisk(branches) ELSE set.risk[t]
      closes == ClosesUnknownArguments(tool)
      rows == [i \in DOMAIN tool.props |->
                 ArgumentRow(tool, tool.props[i], controls, set, incomplete)]
      row(n) == CHOOSE r \in ToSet(rows) : r.name = n
  IN [name |-> t,
      risk |-> risk,
      riskSource |->
        IF branched THEN "branch_control_declaration"
        ELSE IF conflict THEN "conflict_safe_default"
        ELSE IF controls.risk # Absent /\ ~limited
        THEN "control_declaration" ELSE "safe_default",
      riskEvidence |->
        IF controls.risk # Absent /\ ~conflict /\ ~limited
        THEN controls.risk.evidence ELSE Absent,
      inferred |-> set.evidence[t],
      declaredRisk |-> controls.risk,
      riskConflict |-> conflict,
      riskReview |-> ~branched /\ t \in set.riskReview,
      confirm |->
        IF branched
        THEN \E c \in ToSet(branches.cases) : c.risk.tier \in NEEDS_CONFIRM
        ELSE t \in set.confirm,
      branches |-> IF branched THEN BranchReport(branches) ELSE Absent,
      branchReview |->
        ~branched /\ BranchSelectorCandidate(tool, controls, risk, incomplete),
      closes |-> closes,
      schemaReview |->
        \/ SchemaNeedsReview(tool)
        \/ controls.unexposed # <<>> /\ ~closes,
      assessments |-> Assessments(tool.hints, risk),
      arguments |-> rows,
      unmodeled |-> ToolResidual(tool),
      declared |-> [n \in DOMAIN controls.arguments |->
                      DeclaredRow(row(n), controls.arguments[n])],
      unexposed |-> controls.unexposed]

\* every obligation a person still has to discharge for one tool
ReviewSources(report) ==
  [arguments |-> {row.name : row \in {r \in ToSet(report.arguments) : r.review}},
   schema |-> report.schemaReview,
   risk |-> report.riskReview,
   conflict |-> report.riskConflict,
   hints |-> HintConflicts(report.assessments),
   branches |-> report.branchReview]

InDebt(sources) ==
  \/ sources.arguments # {} \/ sources.hints # {}
  \/ sources.schema \/ sources.risk \/ sources.conflict \/ sources.branches

ToolReport(doc, tool, set, incomplete) ==
  LET report == Findings(doc, tool, set, incomplete)
      sources == ReviewSources(report)
  IN [field \in DOMAIN report \cup {"review", "sources"} |->
        CASE field = "review" -> InDebt(sources)
          [] field = "sources" -> sources
          [] OTHER -> report[field]]

Scan(doc) ==
  LET tools == ScanRegistry(doc)
      set == BuildPolicySet(tools)
  IN [i \in DOMAIN doc.tools |->
        ToolReport(doc, doc.tools[i], set, Incomplete(tools))]

\* what --fail-on-review looks at
ReportInDebt(report) == \E i \in DOMAIN report : report[i].review
===============================================================================
