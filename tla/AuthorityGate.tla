--------------------------- MODULE AuthorityGate ---------------------------
(***************************************************************************)
(* The decision the library makes about one proposed tool call:            *)
(* verb_authority.py, dispatch and gate, over a frozen registration        *)
(* bundle.  Nothing here has state; GuardedRunner and AtomicAuthority use  *)
(* the operators with the state of the provenance ledger.                  *)
(*                                                                         *)
(* A call is a record                                                      *)
(*   [plain   |-> the call is finite plain JSON within the budgets,        *)
(*    tool    |-> its name,                                                *)
(*    args    |-> a function from argument names to values,                *)
(*    trusted |-> trusted_args: a function from names to values,           *)
(*    confirm |-> a confirmation callback was supplied].                   *)
(* A value stands for one exactly typed JSON value, so equality of values  *)
(* is _same_authority_value.                                               *)
(***************************************************************************)
EXTENDS Naturals, FiniteSets

CONSTANTS
  Names,        \* argument names
  Values,       \* exactly typed JSON values
  Bundle,       \* the frozen registration: a function from tool names
  MixedScript,  \* values holding a string that mixes Unicode scripts
  NoName        \* the selector of a tool that declares none

Risks == {"read_only", "write", "financial", "destructive", "code_exec",
          "unknown"}

NEEDS_CONFIRM == {"unknown", "financial", "destructive", "code_exec"}

(***************************************************************************)
(* One frozen tool with its frozen policy.  accepts is the parameters'     *)
(* type, enum, length and cap check; locked holds the parameters whose     *)
(* policy is trusted_fixed; cases maps a selector value to its branch.     *)
(* Freezing derives confirm from the risk and lets it only be added to.    *)
(***************************************************************************)
IsFrozenTool(spec) ==
  /\ spec.params \subseteq Names
  /\ spec.locked \subseteq spec.params
  /\ spec.accepts \in [spec.params -> SUBSET Values]
  /\ spec.fn \in {"none", "async", "plain"}
  /\ spec.risk \in Risks
  /\ spec.confirm \in BOOLEAN
  /\ spec.risk \in NEEDS_CONFIRM => spec.confirm
  /\ spec.extraConfirm \in BOOLEAN
  /\ spec.selector \in spec.params \cup {NoName}
  /\ \A v \in DOMAIN spec.cases :
        /\ v \in Values
        /\ spec.cases[v].risk \in Risks
        /\ spec.cases[v].active \subseteq spec.params

ASSUME BundleAssumption ==
  /\ NoName \notin Names
  /\ MixedScript \subseteq Values
  /\ \A t \in DOMAIN Bundle : IsFrozenTool(Bundle[t])

---------------------------------------------------------------------------
(* Seeded defects: each is a plausible bug in the definition that follows. *)

\* the ledger no longer overrides the application's declaration
ProvenanceIgnoringLedger(call, n, tainted) ==
  IF n \in DOMAIN call.trusted /\ call.args[n] = call.trusted[n]
  THEN "trusted" ELSE "data"

\* any declared name counts as trusted, whatever value it was declared for
ProvenanceByName(call, n, tainted) ==
  IF n \in DOMAIN call.trusted /\ call.args[n] \notin tainted
  THEN "trusted" ELSE "data"

\* an argument is trusted only for the exact declared value, and never once
\* the ledger has seen that value come out of a tool
Provenance(call, n, tainted) ==
  IF /\ n \in DOMAIN call.trusted
     /\ call.args[n] = call.trusted[n]
     /\ call.args[n] \notin tainted
  THEN "trusted" ELSE "data"

---------------------------------------------------------------------------
\* inactive arguments are let through
ShapeOkLoose(spec, args) ==
  IF spec.selector = NoName
  THEN spec.params \subseteq DOMAIN args
  ELSE /\ spec.selector \in DOMAIN args
       /\ args[spec.selector] \in DOMAIN spec.cases
       /\ spec.cases[args[spec.selector]].active \subseteq DOMAIN args

\* Without a selector every registered parameter is present, required or
\* not; with one, the exact case exists and its active arguments are exactly
\* the arguments given.
ShapeOk(spec, args) ==
  IF spec.selector = NoName
  THEN spec.params \subseteq DOMAIN args
  ELSE /\ spec.selector \in DOMAIN args
       /\ args[spec.selector] \in DOMAIN spec.cases
       /\ spec.cases[args[spec.selector]].active = DOMAIN args

\* the risk of the call: the tool's, or that of the selected branch
EffectiveRisk(spec, args) ==
  IF spec.selector = NoName THEN spec.risk
  ELSE spec.cases[args[spec.selector]].risk

\* the branch's own risk is forgotten
NeedsConfirmationByTool(spec, args) ==
  IF spec.selector = NoName THEN spec.confirm ELSE spec.extraConfirm

NeedsConfirmation(spec, args) ==
  IF spec.selector = NoName THEN spec.confirm
  ELSE EffectiveRisk(spec, args) \in NEEDS_CONFIRM \/ spec.extraConfirm

\* who may author the argument, then what it may be: provenance never waives
\* the registered type and bounds
ArgAdmitted(spec, n, v, prov) ==
  /\ n \in spec.params
  /\ n \in spec.locked => prov = "trusted" /\ v \notin MixedScript
  /\ v \in spec.accepts[n]

Denied == [allow |-> FALSE, needsConfirm |-> FALSE]

Gate(tool, args, provenance) ==
  IF /\ tool \in DOMAIN Bundle
     /\ ShapeOk(Bundle[tool], args)
     /\ \A n \in DOMAIN args :
          ArgAdmitted(Bundle[tool], n, args[n], provenance[n])
  THEN [allow |-> TRUE, needsConfirm |-> NeedsConfirmation(Bundle[tool], args)]
  ELSE Denied

\* the decision for a call against a ledger with these tainted values; a
\* saturated ledger and a call that cannot be snapshotted are denied first
Dispatch(call, tainted, saturated) ==
  IF saturated \/ ~call.plain THEN Denied
  ELSE Gate(call.tool, call.args,
            [n \in DOMAIN call.args |-> Provenance(call, n, tainted)])
=============================================================================
