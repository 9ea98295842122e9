-------------------------- MODULE AuthorityPolicy --------------------------
(***************************************************************************)
(* From a live registry to a frozen registration bundle:                   *)
(* verb_authority.py, Registry.add, build_policy, _freeze_registry,        *)
(* _freeze_policy_set and _make_registration_bundle.                       *)
(*                                                                         *)
(* The application registers and edits tools, derives a PolicySet from     *)
(* them, edits that too, and has both frozen.  Freezing derives everything *)
(* again from the frozen registry and lets the edited PolicySet differ     *)
(* only where it may.  A bundle never changes; what happens when the live  *)
(* objects drift away from it afterwards is GuardedRunner's.               *)
(***************************************************************************)
EXTENDS PolicyDerivation

CONSTANTS
  ToolDefs,     \* the tools the application may register, malformed ones too
  Values,       \* exactly typed JSON values
  Satisfies,    \* Values -> the parameter types the value has
  Measure,      \* Values -> its length or magnitude
  MixedScript,  \* values holding a string that mixes Unicode scripts
  MaxVersion,   \* bound on registrations
  MaxEdits,     \* bound on edits of one policy set
  None

\* freezing refuses whatever this leaves out: a name that is no string, a
\* risk that is no tier, a sink that is neither Boolean nor None, a selector
\* value that is no JSON
ASSUME PolicyAssumption ==
  /\ \A tool \in ToolDefs :
       /\ tool.name \in Words
       /\ tool.risk \in Tiers \cup {"undeclared"}
       /\ \A i \in DOMAIN tool.params :
            /\ tool.params[i].name \in Words
            /\ tool.params[i].sink \in {"yes", "no", "undeclared"}
       /\ \A i \in DOMAIN tool.cases :
            /\ tool.cases[i].value \in Values
            /\ tool.cases[i].risk \in Tiers \cup {"undeclared"}
  /\ MixedScript \subseteq Values
  /\ None \notin Seq(ToolDefs)

VARIABLES
  registry,     \* Registry.tools, in insertion order
  version,      \* Registry.version
  source,       \* the application's PolicySet
  edits,        \* history: how often it was edited since it was derived
  built,        \* history: the tools it was derived from
  bundle        \* the frozen registration

vars == <<registry, version, source, edits, built, bundle>>

---------------------------------------------------------------------------
(* What freezing accepts. *)

\* the implementation takes exactly the registered parameters by keyword,
\* and no selector case leaves one of them to its default
CallableFits(tool) ==
  /\ tool.fn.kind = "function"
  /\ ~tool.fn.positional
  /\ tool.fn.explicit \subseteq NamesOf(tool.params)
  /\ NamesOf(tool.params) \subseteq tool.fn.explicit \/ tool.fn.keywords
  /\ \A i \in DOMAIN tool.cases : tool.fn.explicit \subseteq tool.cases[i].active

ConstraintsFit(p) ==
  /\ (p.type = "enum") = (p.enum # <<>>)
  /\ p.limit # NoLimit =>
       p.type \in {"string", "email", "uri", "object", "array", "number",
                   "integer"}

\* defect: a case may leave its risk undeclared
SelectorFitsAnyRisk(tool) ==
  \/ tool.selector = NoName /\ tool.cases = <<>>
  \/ /\ tool.selector \in NamesOf(tool.params)
     /\ tool.cases # <<>>
     /\ \A i \in DOMAIN tool.cases :
          /\ tool.selector \in tool.cases[i].active
          /\ tool.cases[i].active \subseteq NamesOf(tool.params)

\* one enum parameter selects; the cases are its members, each once, with an
\* established risk and the arguments the branch takes, the selector included
SelectorFits(tool) ==
  \/ tool.selector = NoName /\ tool.cases = <<>>
  \/ /\ tool.selector \in NamesOf(tool.params)
     /\ tool.cases # <<>>
     /\ LET enum == ParamOf(tool, tool.selector).enum
            values == [i \in DOMAIN tool.cases |-> tool.cases[i].value]
        IN /\ ParamOf(tool, tool.selector).type = "enum"
           /\ IsInjective(enum) /\ IsInjective(values)
           /\ ToSet(values) = ToSet(enum)
     /\ \A i \in DOMAIN tool.cases :
          /\ Declared(tool.cases[i].risk) # "undeclared"
          /\ tool.selector \in tool.cases[i].active
          /\ tool.cases[i].active \subseteq NamesOf(tool.params)

DeclarationFits(tool) ==
  /\ Cardinality(NamesOf(tool.params)) = Len(tool.params)
  /\ \A i \in DOMAIN tool.params : ConstraintsFit(tool.params[i])
  /\ SelectorFits(tool)

\* _freeze_registry raises when one declaration does not fit
CanFreezeDeclarations(tools) ==
  \A i \in DOMAIN tools : DeclarationFits(tools[i])
CanFreeze(tools) ==
  CanFreezeDeclarations(tools) /\ \A i \in DOMAIN tools : CallableFits(tools[i])

\* the registry a PolicySet is bound to: its tools with their order
Binding(tools) == IF CanFreezeDeclarations(tools) THEN tools ELSE None

\* defect: every queued parameter may be overridden
OverridableIfQueued(tools) == Expected(tools).review

\* the queued parameters whose name could be read: the only place where the
\* application's policy may differ
Overridable(tools) ==
  {q \in Expected(tools).review : q[2] \notin Incomplete(tools)}

\* defect: the confirmation list is taken as it comes
AcceptsAnyConfirm(set, tools) ==
  LET expected == Expected(tools)
  IN /\ DOMAIN set.policy = Pairs(tools)
     /\ \A q \in Pairs(tools) \ Overridable(tools) :
          set.policy[q] = expected.policy[q]
     /\ set.risk = expected.risk
     /\ set.evidence = expected.evidence
     /\ set.confirm \subseteq ToolNames(tools)

\* _freeze_policy_set: everything else must be as derived, and derived
\* confirmations may only be added to
AcceptsPolicy(set, tools) ==
  LET expected == Expected(tools)
  IN /\ DOMAIN set.policy = Pairs(tools)
     /\ \A q \in Pairs(tools) \ Overridable(tools) :
          set.policy[q] = expected.policy[q]
     /\ set.review = expected.review
     /\ set.risk = expected.risk
     /\ set.evidence = expected.evidence
     /\ set.riskReview = expected.riskReview
     /\ set.conflicts = expected.conflicts
     /\ set.confirm \subseteq ToolNames(tools)
     /\ expected.confirm \subseteq set.confirm

---------------------------------------------------------------------------
(* The frozen bundle as the gate reads it. *)

TypeOk(p, v) ==
  IF p.type = "enum" THEN v \in ToSet(p.enum)
  ELSE p.type \in Satisfies[v] /\ (p.limit # NoLimit => Measure[v] <= p.limit)

CaseFor(tool, v) ==
  tool.cases[CHOOSE i \in DOMAIN tool.cases : tool.cases[i].value = v]

FrozenTool(tools, set, t) ==
  LET tool == ToolOf(tools, t)
      names == NamesOf(tool.params)
  IN [params |-> names,
      locked |-> {n \in names : set.policy[<<t, n>>] = "trusted_fixed"},
      accepts |-> [n \in names |-> {v \in Values : TypeOk(ParamOf(tool, n), v)}],
      fn |-> "plain",
      risk |-> set.risk[t],
      confirm |-> t \in set.confirm,
      extraConfirm |-> t \in set.confirm \ Expected(tools).confirm,
      selector |-> tool.selector,
      cases |->
        [v \in {tool.cases[i].value : i \in DOMAIN tool.cases} |->
           [risk |-> Declared(CaseFor(tool, v).risk),
            active |-> CaseFor(tool, v).active]]]

Frozen(tools, set) == [t \in ToolNames(tools) |-> FrozenTool(tools, set, t)]

\* the gate over a frozen bundle
Gate(tools) ==
  INSTANCE AuthorityGate WITH Names <- Words, Bundle <- tools

NoBundle == [tools |-> <<>>, frozen |-> None, overridden |-> {}, added |-> {}]

---------------------------------------------------------------------------
Init ==
  /\ registry = <<>>
  /\ version = 0
  /\ source = None
  /\ edits = 0
  /\ built = <<>>
  /\ bundle = NoBundle

\* Registry.add: a known name keeps its place
Add(tool) ==
  /\ version < MaxVersion
  /\ registry' =
       IF tool.name \in ToolNames(registry)
       THEN [i \in DOMAIN registry |->
               IF registry[i].name = tool.name THEN tool ELSE registry[i]]
       ELSE Append(registry, tool)
  /\ version' = version + 1
  /\ UNCHANGED <<source, edits, built, bundle>>

\* the application changes a registered tool or the dictionary's order in
\* place, past Registry.add: the version does not move
EditTool(i, tool) ==
  /\ registry[i].name = tool.name /\ registry[i] # tool
  /\ registry' = [registry EXCEPT ![i] = tool]
  /\ UNCHANGED <<version, source, edits, built, bundle>>

Reorder(i) ==
  /\ i + 1 \in DOMAIN registry
  /\ registry' = [registry EXCEPT ![i] = registry[i + 1],
                                  ![i + 1] = registry[i]]
  /\ UNCHANGED <<version, source, edits, built, bundle>>

\* build_policy, bound to the registration it read
BuildPolicy ==
  /\ registry # <<>>
  /\ source' = [set |-> BuildPolicySet(registry), binding |-> Binding(registry),
                version |-> version]
  /\ edits' = 0
  /\ built' = registry
  /\ UNCHANGED <<registry, version, bundle>>

\* the application edits what it was given
EditSet(set) ==
  /\ source # None
  /\ edits < MaxEdits
  /\ source' = [source EXCEPT !.set = set]
  /\ edits' = edits + 1
  /\ UNCHANGED <<registry, version, built, bundle>>

EditPolicy(q, policy) == EditSet([source.set EXCEPT !.policy[q] = policy])
EditConfirm(t) ==
  EditSet([source.set EXCEPT !.confirm =
             IF t \in @ THEN @ \ {t} ELSE @ \cup {t}])
EditReview(q) == EditSet([source.set EXCEPT !.review = @ \ {q}])
EditRisk(t, r) == EditSet([source.set EXCEPT !.risk[t] = r])
ForgetConflict(t) ==
  EditSet([source.set EXCEPT !.conflicts = @ \ {t}, !.riskReview = @ \ {t}])

\* the policy set was built for this very registration
IsBound(tools) ==
  source.binding = Binding(tools) /\ source.version = version

FreezeAs(set) ==
  bundle' = [tools |-> registry,
             frozen |-> Frozen(registry, set),
             overridden |-> {q \in Pairs(registry) :
                               set.policy[q] # Expected(registry).policy[q]},
             added |-> set.confirm \ Expected(registry).confirm]

\* _make_registration_bundle with the application's policy set
FreezeSource ==
  /\ bundle = NoBundle
  /\ source # None
  /\ CanFreeze(registry)
  /\ IsBound(registry)
  /\ AcceptsPolicy(source.set, registry)
  /\ FreezeAs(source.set)
  /\ UNCHANGED <<registry, version, source, edits, built>>

\* and without one: the policy is derived on the spot
FreezeAlone ==
  /\ bundle = NoBundle
  /\ registry # <<>>
  /\ CanFreeze(registry)
  /\ AcceptsPolicy(BuildPolicySet(registry), registry)
  /\ FreezeAs(BuildPolicySet(registry))
  /\ UNCHANGED <<registry, version, source, edits, built>>

SourceStep ==
  \/ BuildPolicy
  \/ /\ source # None
     /\ \/ \E q \in DOMAIN source.set.policy, p \in Policies : EditPolicy(q, p)
        \/ \E t \in DOMAIN source.set.risk : EditConfirm(t)
        \/ \E q \in source.set.review : EditReview(q)
        \/ \E t \in DOMAIN source.set.risk, r \in Tiers : EditRisk(t, r)
        \/ \E t \in source.set.riskReview : ForgetConflict(t)

RegistryStep ==
  \/ \E tool \in ToolDefs : Add(tool)
  \/ \E i \in DOMAIN registry, tool \in ToolDefs : EditTool(i, tool)
  \/ \E i \in DOMAIN registry : Reorder(i)

Next ==
  /\ bundle = NoBundle  \* the bundle is final
  /\ RegistryStep \/ SourceStep \/ FreezeSource \/ FreezeAlone

Spec == Init /\ [][Next]_vars

---------------------------------------------------------------------------
\* Whatever was registered, edited, overridden and frozen in whatever order,
\* the bundle a runner decides by has the shape that the gate relies on: the
\* assumption AuthorityGate makes of its constant holds of every tool in it.
BundleFitsTheGate ==
  bundle # NoBundle =>
    \A t \in DOMAIN bundle.frozen :
      Gate(bundle.frozen)!IsFrozenTool(bundle.frozen[t])

\* who the application says may author the parameter, judged from its
\* declaration and from everything its name says, whether or not the
\* derivation could afford to read it
OpenToData(tool, p) ==
  \/ p.sink = "no"
  \/ /\ p.sink = "undeclared"
     /\ p.type \notin {"email", "uri"}
     /\ ~IsSinkName(Evidence[p.name])
     /\ p.name \notin Incomplete(bundle.tools)
     /\ \/ IsPayloadName(Evidence[p.name]) /\ ~Doubtful(p, Evidence[p.name])
        \/ Declared(tool.risk) = "read_only" /\ tool.selector = NoName
        \/ <<tool.name, p.name>> \in bundle.overridden

\* every call over the bundle's parameters whose values the gate may see
CallsOf(t) ==
  UNION {[names -> Values] : names \in SUBSET bundle.frozen[t].params}

\* the gate's answer when data wrote exactly the named arguments
Answer(t, args, written) ==
  Gate(bundle.frozen)!Gate(t, args,
    [n \in DOMAIN args |-> IF n \in written THEN "data" ELSE "trusted"])

\* Whatever the application edited and however the names exhausted the
\* budget, a call the gate lets through has data only in arguments that were
\* declared open, that a complete reading of the name leaves open, or that
\* the application unlocked in the review queue: never in an argument
\* declared or named as authority, never in one whose name was not read.
DataNeverFillsAuthority ==
  bundle # NoBundle =>
    \A t \in DOMAIN bundle.frozen : \A args \in CallsOf(t) :
      \A n \in DOMAIN args :
        Answer(t, args, {n}).allow =>
          LET tool == ToolOf(bundle.tools, t)
          IN OpenToData(tool, ParamOf(tool, n))

\* the risk that speaks for a call, if an undisputed declaration does
IsDeclaredHarmless(tool, args) ==
  IF tool.selector # NoName
  THEN CaseFor(tool, args[tool.selector]).risk \in {"read_only", "write"}
  ELSE /\ tool.risk \in {"read_only", "write"}
       /\ tool.name \notin Incomplete(bundle.tools)
       /\ InferRisk(tool.name, {}) \in {tool.risk, "unknown"}

\* A call runs without a person's approval only if an undisputed declaration
\* of its tool, or of the selected branch, says it reads or writes, and the
\* application did not add a confirmation of its own.
UnconfirmedCallsAreDeclared ==
  bundle # NoBundle =>
    \A t \in DOMAIN bundle.frozen : \A args \in CallsOf(t) :
      LET answer == Answer(t, args, {})
      IN answer.allow /\ ~answer.needsConfirm =>
           /\ IsDeclaredHarmless(ToolOf(bundle.tools, t), args)
           /\ t \notin bundle.added

\* A policy set that freezing takes for this registration was derived from
\* it, in this order, edits in place included; and as long as nobody edited
\* the set, the second derivation agrees with the first and it freezes.
BoundSetIsCurrent ==
  source # None /\ CanFreeze(registry) /\ IsBound(registry) =>
    /\ registry = built
    /\ edits = 0 => AcceptsPolicy(source.set, registry)
=============================================================================
