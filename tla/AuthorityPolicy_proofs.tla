---------------------- MODULE AuthorityPolicy_proofs ----------------------
(***************************************************************************)
(* Whatever an application registers, edits and overrides, the bundle that *)
(* freezing makes of it has the shape the gate relies on, and the gate's   *)
(* answers over it keep what the declarations say.  Proved for any tools,  *)
(* names and budget; what the budget refuses stays uninterpreted.          *)
(***************************************************************************)
EXTENDS AuthorityPolicy, TLAPS

---------------------------------------------------------------------------
(* Looking up tools and parameters by name.                                *)

(* A registered name stands for a registered tool.                         *)
LEMMA ToolIsThere ==
  ASSUME NEW tools \in Seq(ToolDefs), NEW t \in ToolNames(tools)
  PROVE  \E i \in DOMAIN tools : /\ ToolOf(tools, t) = tools[i]
                                 /\ tools[i].name = t
                                 /\ tools[i] \in ToolDefs
<1>1. PICK i \in DOMAIN tools : tools[i].name = t
  BY DEF ToolNames
<1> DEFINE k == CHOOSE j \in DOMAIN tools : tools[j].name = t
<1>2. k \in DOMAIN tools /\ tools[k].name = t
  BY <1>1
<1>3. ToolOf(tools, t) = tools[k]
  BY DEF ToolOf
<1> HIDE DEF k
<1>4. tools[k] \in ToolDefs
  BY <1>2
<1> QED
  BY <1>2, <1>3, <1>4

(* A parameter's name stands for one of the tool's parameters.             *)
LEMMA ParamIsThere ==
  ASSUME NEW tool, NEW n \in NamesOf(tool.params)
  PROVE  \E i \in DOMAIN tool.params : /\ ParamOf(tool, n) = tool.params[i]
                                       /\ tool.params[i].name = n
<1>1. PICK i \in DOMAIN tool.params : tool.params[i].name = n
  BY DEF NamesOf
<1> DEFINE k == CHOOSE j \in DOMAIN tool.params : tool.params[j].name = n
<1>2. k \in DOMAIN tool.params /\ tool.params[k].name = n
  BY <1>1
<1> QED
  BY <1>2 DEF ParamOf

(* The tool and the parameter that a pair of the registry names.           *)
LEMMA PairIsThere ==
  ASSUME NEW tools \in Seq(ToolDefs), NEW t \in ToolNames(tools),
         NEW n \in NamesOf(ToolOf(tools, t).params)
  PROVE  /\ <<t, n>> \in Pairs(tools)
         /\ ToolOf(tools, t) \in ToolDefs
         /\ ToolOf(tools, t).name = t
         /\ ParamOf(ToolOf(tools, t), n).name = n
         /\ ParamOf(ToolOf(tools, t), n).sink \in {"yes", "no", "undeclared"}
         /\ n \in Words
<1> DEFINE tool == ToolOf(tools, t)
<1>1. PICK i \in DOMAIN tools : tool = tools[i] /\ tools[i].name = t
                                /\ tools[i] \in ToolDefs
  BY ToolIsThere
<1>2. PICK j \in DOMAIN tool.params : ParamOf(tool, n) = tool.params[j]
                                      /\ tool.params[j].name = n
  BY ParamIsThere
<1>3. <<t, n>> \in Pairs(tools)
  BY <1>1 DEF Pairs
<1> HIDE DEF tool
<1>4. /\ tool \in ToolDefs /\ tool.name = t
      /\ ParamOf(tool, n).name = n
      /\ ParamOf(tool, n).sink \in {"yes", "no", "undeclared"}
      /\ n \in Words
  BY <1>1, <1>2, PolicyAssumption
<1> QED
  BY <1>3, <1>4 DEF tool

(* The first component of a registered pair is a registered tool.          *)
LEMMA PairNamesATool ==
  ASSUME NEW tools, NEW q \in Pairs(tools)
  PROVE  q[1] \in ToolNames(tools)
  BY DEF Pairs, ToolNames

---------------------------------------------------------------------------
(* What a name says.                                                       *)

(* A name that was read has one of the tiers as evidence.                  *)
LEMMA EvidenceIsATier ==
  ASSUME NEW n, NEW incomplete, n \notin incomplete
  PROVE  InferRisk(n, incomplete) \in Tiers
  BY DEF InferRisk, SelectInSeq, RiskOrder, Tiers, Says, Min

(* The budget decides whether a name is read, never what it says.          *)
LEMMA EvidenceIsTheNames ==
  ASSUME NEW n, NEW incomplete, n \notin incomplete
  PROVE  InferRisk(n, incomplete) = InferRisk(n, {})
  BY DEF InferRisk, Says

(* Only the absence of a declaration is no tier.                           *)
LEMMA DeclaredRisks ==
  ASSUME NEW r \in Tiers \cup {"undeclared"}
  PROVE  /\ Declared(r) \in Tiers \cup {"undeclared"}
         /\ Declared(r) # "unknown"
         /\ Declared(r) # "undeclared" => Declared(r) = r
  BY DEF Declared, Tiers

(* The effective tier is always a tier, and the declared one unless it is  *)
(* in doubt.                                                               *)
LEMMA EffectiveTiers ==
  ASSUME NEW tool \in ToolDefs, NEW incomplete
  PROVE  /\ EffectiveTier(tool, incomplete) \in Tiers
         /\ EffectiveTier(tool, incomplete) # "unknown" =>
              /\ ~Unresolved(tool, incomplete)
              /\ tool.risk = EffectiveTier(tool, incomplete)
<1>1. tool.risk \in Tiers \cup {"undeclared"}
  BY PolicyAssumption
<1> QED
  BY <1>1, DeclaredRisks DEF EffectiveTier, Unresolved, Tiers

(* An uncertain parameter is locked, has no declaration of its own and its *)
(* name, if it was read, is no sink's.                                     *)
LEMMA UncertainIsLocked ==
  ASSUME NEW p, p.sink \in {"yes", "no", "undeclared"}, NEW incomplete,
         Uncertain(p, incomplete)
  PROVE  /\ InferPolicy(p, incomplete).policy = "trusted_fixed"
         /\ p.sink = "undeclared"
         /\ p.name \notin incomplete =>
              p.type \notin {"email", "uri"} /\ ~IsSinkName(Evidence[p.name])
  BY DEF Uncertain, InferPolicy, InferUndeclared, InferDeclaredOpen, Verdict

(* What inference leaves open was declared open or has a payload's name.   *)
LEMMA OpenByInference ==
  ASSUME NEW p, p.sink \in {"yes", "no", "undeclared"}, NEW incomplete,
         InferPolicy(p, incomplete).policy # "trusted_fixed"
  PROVE  \/ p.sink = "no"
         \/ /\ p.sink = "undeclared"
            /\ p.name \notin incomplete
            /\ p.type \notin {"email", "uri"}
            /\ ~IsSinkName(Evidence[p.name])
            /\ IsPayloadName(Evidence[p.name])
            /\ ~Doubtful(p, Evidence[p.name])
  BY DEF InferPolicy, InferUndeclared, InferDeclaredOpen, Verdict

---------------------------------------------------------------------------
(* The two derivations.                                                    *)

(* The fields of the policy set that freezing expects.                     *)
LEMMA ExpectedFields ==
  ASSUME NEW tools
  PROVE  LET e == Expected(tools)
             incomplete == Incomplete(tools)
             param(q) == ParamOf(ToolOf(tools, q[1]), q[2])
         IN /\ DOMAIN e.policy = Pairs(tools)
            /\ \A q \in Pairs(tools) :
                 e.policy[q] = IF q \in Relaxed(tools, "freeze")
                               THEN "typed_bounded"
                               ELSE InferPolicy(param(q), incomplete).policy
            /\ e.review = {q \in Pairs(tools) \ Relaxed(tools, "freeze") :
                             Uncertain(param(q), incomplete)}
            /\ \A t \in ToolNames(tools) :
                 e.risk[t] = EffectiveTier(ToolOf(tools, t), incomplete)
            /\ e.confirm = {t \in ToolNames(tools) :
                              ConfirmsByTier(ToolOf(tools, t), incomplete)}
  BY DEF Expected, Derive

(* What freezing relaxes.                                                  *)
LEMMA RelaxedByFreezing ==
  ASSUME NEW tools, NEW q \in Relaxed(tools, "freeze")
  PROVE  FreezeRelaxes(ToolOf(tools, q[1]),
                       ParamOf(ToolOf(tools, q[1]), q[2]), Incomplete(tools))
  BY DEF Relaxed

(* Where declarations fit, building and freezing tell alike that a tool    *)
(* has a selector, so the two copies of the derivation agree.              *)
LEMMA CopiesAgree ==
  ASSUME NEW tools \in Seq(ToolDefs), CanFreezeDeclarations(tools)
  PROVE  BuildPolicySet(tools) = Expected(tools)
<1> DEFINE tool(q) == ToolOf(tools, q[1])
           param(q) == ParamOf(tool(q), q[2])
           incomplete == Incomplete(tools)
<1>1. ASSUME NEW q \in Pairs(tools)
      PROVE  BuildRelaxes(tool(q), param(q), incomplete)
               <=> FreezeRelaxes(tool(q), param(q), incomplete)
  <2>1. q[1] \in ToolNames(tools)
    BY PairNamesATool
  <2>2. PICK i \in DOMAIN tools : tool(q) = tools[i] /\ tools[i] \in ToolDefs
    BY <2>1, ToolIsThere
  <2>3. SelectorFits(tool(q))
    BY <2>2 DEF CanFreezeDeclarations, DeclarationFits
  <2>4. NoName \notin NamesOf(tool(q).params)
    BY <2>2, PolicyAssumption, InferenceAssumption DEF NamesOf
  <2>5. tool(q).selector = NoName => tool(q).cases = <<>>
    BY <2>3, <2>4 DEF SelectorFits
  <2> HIDE DEF tool, param, incomplete
  <2> QED
    BY <2>5 DEF BuildRelaxes, FreezeRelaxes
<1>2. Relaxed(tools, "build") = Relaxed(tools, "freeze")
  BY <1>1 DEF Relaxed
<1> QED
  BY <1>2 DEF BuildPolicySet, Expected, Derive

(* Freezing accepts what it derives itself.                                *)
LEMMA ExpectedIsAccepted ==
  ASSUME NEW tools
  PROVE  AcceptsPolicy(Expected(tools), tools)
  BY ExpectedFields DEF AcceptsPolicy
---------------------------------------------------------------------------
(* The inductive invariant.                                                *)

\* the binding of a policy set speaks for the tools it was derived from, and
\* only an edit makes the set another one
SourceOK ==
  source # None =>
    /\ DOMAIN source = {"set", "binding", "version"}
    /\ source.binding = Binding(built)
    /\ edits = 0 => source.set = BuildPolicySet(built)

\* the bundle is what freezing made of these tools and of a set it accepted
IsFrozenFrom(set) ==
  /\ bundle.tools \in Seq(ToolDefs)
  /\ CanFreeze(bundle.tools)
  /\ AcceptsPolicy(set, bundle.tools)
  /\ bundle.frozen = Frozen(bundle.tools, set)
  /\ bundle.overridden = {q \in Pairs(bundle.tools) :
                            set.policy[q] # Expected(bundle.tools).policy[q]}
  /\ bundle.added = set.confirm \ Expected(bundle.tools).confirm

BundleOK == bundle # NoBundle => \E set : IsFrozenFrom(set)

PolicyInv ==
  /\ registry \in Seq(ToolDefs)
  /\ edits \in Nat
  /\ SourceOK
  /\ BundleOK

(* Nothing is derived or frozen initially.                                 *)
LEMMA InitPolicy == Init => PolicyInv
  BY DEF Init, PolicyInv, SourceOK, BundleOK

(* Registration keeps a sequence of tools.                                 *)
LEMMA RegistryStepKeeps ==
  ASSUME PolicyInv, bundle = NoBundle, RegistryStep
  PROVE  PolicyInv'
<1>1. registry' \in Seq(ToolDefs)
  <2>1. ASSUME NEW tool \in ToolDefs, Add(tool)
        PROVE  registry' \in Seq(ToolDefs)
    <3>1. CASE tool.name \in ToolNames(registry)
      BY <2>1, <3>1 DEF Add, PolicyInv
    <3>2. CASE tool.name \notin ToolNames(registry)
      BY <2>1, <3>2 DEF Add, PolicyInv
    <3> QED
      BY <3>1, <3>2
  <2>2. ASSUME NEW i \in DOMAIN registry, NEW tool \in ToolDefs,
               EditTool(i, tool)
        PROVE  registry' \in Seq(ToolDefs)
    BY <2>2 DEF EditTool, PolicyInv
  <2>3. ASSUME NEW i \in DOMAIN registry, Reorder(i)
        PROVE  registry' \in Seq(ToolDefs)
    BY <2>3 DEF Reorder, PolicyInv
  <2> QED
    BY <2>1, <2>2, <2>3 DEF RegistryStep
<1>2. UNCHANGED <<source, edits, built, bundle>>
  BY DEF RegistryStep, Add, EditTool, Reorder
<1>3. edits' \in Nat
  BY <1>2 DEF PolicyInv
<1>4. SourceOK'
  BY <1>2 DEF PolicyInv, SourceOK
<1>5. BundleOK'
  BY <1>2 DEF BundleOK
<1> QED
  BY <1>1, <1>3, <1>4, <1>5 DEF PolicyInv

(* Deriving and editing a policy set keep its binding.                     *)
LEMMA SourceStepKeeps ==
  ASSUME PolicyInv, bundle = NoBundle, SourceStep
  PROVE  PolicyInv'
<1>1. CASE BuildPolicy
  <2>1. UNCHANGED <<registry, bundle>>
    BY <1>1 DEF BuildPolicy
  <2>2. registry' \in Seq(ToolDefs) /\ edits' \in Nat
    BY <1>1, <2>1 DEF BuildPolicy, PolicyInv
  <2>3. SourceOK'
    BY <1>1 DEF BuildPolicy, SourceOK
  <2>4. BundleOK'
    BY <2>1 DEF BundleOK
  <2> QED
    BY <2>2, <2>3, <2>4 DEF PolicyInv
<1>2. ASSUME NEW set, EditSet(set)
      PROVE  PolicyInv'
  <2>1. UNCHANGED <<registry, built, bundle>> /\ source # None
    BY <1>2 DEF EditSet
  <2>2. registry' \in Seq(ToolDefs) /\ edits' \in Nat /\ edits' # 0
    BY <1>2, <2>1 DEF EditSet, PolicyInv
  <2>3. source' = [source EXCEPT !.set = set]
    BY <1>2 DEF EditSet
  <2>4. SourceOK'
    BY <2>1, <2>2, <2>3 DEF PolicyInv, SourceOK
  <2>5. BundleOK'
    BY <2>1 DEF BundleOK
  <2> QED
    BY <2>2, <2>4, <2>5 DEF PolicyInv
<1>3. CASE \E set : EditSet(set)
  BY <1>2, <1>3
<1> QED
  BY <1>1, <1>3
  DEF SourceStep, EditPolicy, EditConfirm, EditReview, EditRisk, ForgetConflict

(* Both ways of freezing freeze an accepted set.                           *)
LEMMA FreezeKeeps ==
  ASSUME PolicyInv, FreezeSource \/ FreezeAlone
  PROVE  PolicyInv'
<1>1. PICK set : /\ CanFreeze(registry)
                 /\ AcceptsPolicy(set, registry)
                 /\ FreezeAs(set)
                 /\ UNCHANGED <<registry, version, source, edits, built>>
  BY DEF FreezeSource, FreezeAlone
<1>2. BundleOK'
  <2>1. /\ bundle'.tools = registry
        /\ bundle'.frozen = Frozen(registry, set)
        /\ bundle'.overridden = {q \in Pairs(registry) :
                                   set.policy[q] # Expected(registry).policy[q]}
        /\ bundle'.added = set.confirm \ Expected(registry).confirm
    BY <1>1 DEF FreezeAs
  <2>2. IsFrozenFrom(set)'
    BY <1>1, <2>1 DEF IsFrozenFrom, PolicyInv
  <2> QED
    BY <2>2 DEF BundleOK
<1>3. SourceOK'
  BY <1>1 DEF PolicyInv, SourceOK
<1> QED
  BY <1>1, <1>2, <1>3 DEF PolicyInv

(* The invariant is inductive.                                             *)
LEMMA NextPolicy == PolicyInv /\ [Next]_vars => PolicyInv'
<1> SUFFICES ASSUME PolicyInv, [Next]_vars PROVE PolicyInv'
  OBVIOUS
<1>1. CASE UNCHANGED vars
  BY <1>1 DEF vars, PolicyInv, SourceOK, BundleOK, IsFrozenFrom
<1>2. CASE Next
  BY <1>2, RegistryStepKeeps, SourceStepKeeps, FreezeKeeps DEF Next
<1> QED
  BY <1>1, <1>2

(* It holds in every behaviour.                                            *)
LEMMA PolicyInvariant == Spec => []PolicyInv
<1> QED
  BY InitPolicy, NextPolicy, PTL DEF Spec

---------------------------------------------------------------------------
(* A policy set that freezing takes for this registration was derived from *)
(* these tools in this order, edits in place included (_policy_registry_   *)
(* source), and freezes unless it was edited: the two copies of the        *)
(* derivation, build_policy and _freeze_policy_set, agree.                 *)
THEOREM BoundSetsAreCurrent == Spec => []BoundSetIsCurrent
<1>1. PolicyInv => BoundSetIsCurrent
  <2> SUFFICES ASSUME PolicyInv, source # None, CanFreeze(registry),
                      IsBound(registry)
               PROVE  /\ registry = built
                      /\ edits = 0 => AcceptsPolicy(source.set, registry)
    BY DEF BoundSetIsCurrent
  <2>1. Binding(built) = registry
    BY DEF PolicyInv, SourceOK, IsBound, Binding, CanFreeze
  <2>2. registry # None
    BY PolicyAssumption DEF PolicyInv
  <2>3. registry = built
    BY <2>1, <2>2 DEF Binding
  <2>4. ASSUME edits = 0
        PROVE  AcceptsPolicy(source.set, registry)
    <3>1. source.set = BuildPolicySet(registry)
      BY <2>3, <2>4 DEF PolicyInv, SourceOK
    <3>2. BuildPolicySet(registry) = Expected(registry)
      BY CopiesAgree DEF PolicyInv, CanFreeze
    <3> QED
      BY <3>1, <3>2, ExpectedIsAccepted
  <2> QED
    BY <2>3, <2>4
<1> QED
  BY <1>1, PolicyInvariant, PTL

---------------------------------------------------------------------------
(* The frozen tools.                                                       *)

(* The branch a selector value stands for.                                 *)
LEMMA CaseIsThere ==
  ASSUME NEW tool, NEW v \in {tool.cases[i].value : i \in DOMAIN tool.cases}
  PROVE  \E i \in DOMAIN tool.cases : /\ CaseFor(tool, v) = tool.cases[i]
                                      /\ tool.cases[i].value = v
<1>1. PICK i \in DOMAIN tool.cases : tool.cases[i].value = v
  OBVIOUS
<1> DEFINE k == CHOOSE j \in DOMAIN tool.cases : tool.cases[j].value = v
<1>2. k \in DOMAIN tool.cases /\ tool.cases[k].value = v
  BY <1>1
<1> QED
  BY <1>2 DEF CaseFor

(* A branch of a tool that can be frozen has a tier of its own, which it   *)
(* declares, and takes registered arguments only.                          *)
LEMMA FittingCase ==
  ASSUME NEW tool \in ToolDefs, SelectorFits(tool),
         NEW v \in {tool.cases[i].value : i \in DOMAIN tool.cases}
  PROVE  /\ v \in Values
         /\ CaseFor(tool, v).risk \in Tiers \ {"unknown"}
         /\ Declared(CaseFor(tool, v).risk) = CaseFor(tool, v).risk
         /\ CaseFor(tool, v).active \subseteq NamesOf(tool.params)
<1>1. PICK i \in DOMAIN tool.cases : /\ CaseFor(tool, v) = tool.cases[i]
                                     /\ tool.cases[i].value = v
  BY CaseIsThere
<1>2. tool.cases # <<>>
  BY <1>1
<1>3. /\ Declared(tool.cases[i].risk) # "undeclared"
      /\ tool.cases[i].active \subseteq NamesOf(tool.params)
  BY <1>2 DEF SelectorFits
<1>4. v \in Values /\ tool.cases[i].risk \in Tiers \cup {"undeclared"}
  BY <1>1, PolicyAssumption
<1> QED
  BY <1>1, <1>3, <1>4, DeclaredRisks DEF Declared, Tiers

(* What freezing checked of a bundle, tool by tool.                        *)
LEMMA FrozenFrom ==
  ASSUME NEW set, IsFrozenFrom(set), NEW t \in DOMAIN bundle.frozen
  PROVE  LET tool == ToolOf(bundle.tools, t)
         IN /\ t \in ToolNames(bundle.tools)
            /\ bundle.frozen[t] = FrozenTool(bundle.tools, set, t)
            /\ tool \in ToolDefs
            /\ tool.name = t
            /\ SelectorFits(tool)
            /\ set.risk[t] = EffectiveTier(tool, Incomplete(bundle.tools))
            /\ ConfirmsByTier(tool, Incomplete(bundle.tools)) =>
                 t \in Expected(bundle.tools).confirm /\ t \in set.confirm
<1>1. /\ t \in ToolNames(bundle.tools)
      /\ bundle.frozen[t] = FrozenTool(bundle.tools, set, t)
  BY DEF IsFrozenFrom, Frozen
<1>2. PICK i \in DOMAIN bundle.tools :
        /\ ToolOf(bundle.tools, t) = bundle.tools[i]
        /\ bundle.tools[i].name = t
        /\ bundle.tools[i] \in ToolDefs
  BY <1>1, ToolIsThere DEF IsFrozenFrom
<1>3. SelectorFits(bundle.tools[i])
  BY DEF IsFrozenFrom, CanFreeze, CanFreezeDeclarations, DeclarationFits
<1>4. /\ set.risk = Expected(bundle.tools).risk
      /\ Expected(bundle.tools).confirm \subseteq set.confirm
  BY DEF IsFrozenFrom, AcceptsPolicy
<1> QED
  BY <1>1, <1>2, <1>3, <1>4, ExpectedFields

(* Every frozen tool has the shape AuthorityGate assumes.                  *)
LEMMA FrozenToolFits ==
  ASSUME NEW set, IsFrozenFrom(set), NEW t \in DOMAIN bundle.frozen
  PROVE  Gate(bundle.frozen)!IsFrozenTool(bundle.frozen[t])
<1> DEFINE tool == ToolOf(bundle.tools, t)
           incomplete == Incomplete(bundle.tools)
           f == bundle.frozen[t]
<1>1. /\ t \in ToolNames(bundle.tools)
      /\ tool \in ToolDefs
      /\ SelectorFits(tool)
      /\ set.risk[t] = EffectiveTier(tool, incomplete)
      /\ ConfirmsByTier(tool, incomplete) => t \in set.confirm
  BY FrozenFrom
<1>2. f = FrozenTool(bundle.tools, set, t)
  BY FrozenFrom
<1> HIDE DEF tool, incomplete, f
<1>3. /\ f.params = NamesOf(tool.params)
      /\ f.locked \subseteq NamesOf(tool.params)
      /\ f.accepts = [n \in NamesOf(tool.params) |->
                        {v \in Values : TypeOk(ParamOf(tool, n), v)}]
      /\ f.fn = "plain"
      /\ f.extraConfirm \in BOOLEAN
      /\ f.selector = tool.selector
  BY <1>1, <1>2 DEF FrozenTool, tool
<1>4. f.risk = EffectiveTier(tool, incomplete) /\ f.confirm = (t \in set.confirm)
  BY <1>1, <1>2 DEF FrozenTool, tool
<1>5. f.risk \in Tiers
  BY <1>1, <1>4, EffectiveTiers
<1>6. f.risk \in NEEDS_CONFIRM => f.confirm
  BY <1>1, <1>4 DEF ConfirmsByTier
<1>7. f.params \subseteq Words
  BY <1>1, <1>3, PolicyAssumption DEF NamesOf
<1>8. f.accepts \in [f.params -> SUBSET Values]
  BY <1>3
<1>9. f.selector \in f.params \cup {NoName}
  BY <1>1, <1>3 DEF SelectorFits
<1>10. ASSUME NEW v \in DOMAIN f.cases
       PROVE  /\ v \in Values
              /\ f.cases[v].risk \in Tiers
              /\ f.cases[v].active \subseteq f.params
  <2>1. /\ v \in {tool.cases[i].value : i \in DOMAIN tool.cases}
        /\ f.cases[v].risk = Declared(CaseFor(tool, v).risk)
        /\ f.cases[v].active = CaseFor(tool, v).active
    BY <1>1, <1>2 DEF FrozenTool, tool
  <2> QED
    BY <1>1, <1>3, <2>1, FittingCase
<1>11. f.confirm \in BOOLEAN
  BY <1>4
<1>12. Gate(bundle.frozen)!Risks = Tiers
  BY DEF Gate!Risks, Tiers
<1>13. Gate(bundle.frozen)!NEEDS_CONFIRM = NEEDS_CONFIRM
  BY DEF Gate!NEEDS_CONFIRM, NEEDS_CONFIRM
<1>14. Gate(bundle.frozen)!IsFrozenTool(f)
  BY <1>3, <1>5, <1>6, <1>7, <1>8, <1>9, <1>10, <1>11, <1>12, <1>13
  DEF Gate!IsFrozenTool
<1> QED
  BY <1>14 DEF f

(* The bundle a runner decides by has the shape that AuthorityGate assumes *)
(* of its constant: what the theorems over a frozen bundle take for        *)
(* granted is what _make_registration_bundle delivers.                     *)
THEOREM BundlesFitTheGate == Spec => []BundleFitsTheGate
<1>1. PolicyInv => BundleFitsTheGate
  BY FrozenToolFits DEF PolicyInv, BundleOK, BundleFitsTheGate
<1> QED
  BY <1>1, PolicyInvariant, PTL

---------------------------------------------------------------------------
(* The gate's answers over the bundle.                                     *)

(* What an answer over a frozen bundle says of the frozen tool.            *)
LEMMA AllowedAnswer ==
  ASSUME NEW t, NEW args, NEW written, Answer(t, args, written).allow
  PROVE  /\ t \in DOMAIN bundle.frozen
         /\ Gate(bundle.frozen)!ShapeOk(bundle.frozen[t], args)
         /\ \A n \in DOMAIN args :
              /\ n \in bundle.frozen[t].params
              /\ n \in written => n \notin bundle.frozen[t].locked
         /\ Answer(t, args, written).needsConfirm =
              Gate(bundle.frozen)!NeedsConfirmation(bundle.frozen[t], args)
  BY DEF Answer, Gate!Gate, Gate!Denied, Gate!ArgAdmitted

(* A parameter that freezing left unlocked was open to data.               *)
LEMMA UnlockedIsOpen ==
  ASSUME NEW set, IsFrozenFrom(set), NEW t \in DOMAIN bundle.frozen,
         NEW n \in bundle.frozen[t].params, n \notin bundle.frozen[t].locked
  PROVE  OpenToData(ToolOf(bundle.tools, t), ParamOf(ToolOf(bundle.tools, t), n))
<1> DEFINE tool == ToolOf(bundle.tools, t)
           p == ParamOf(tool, n)
           incomplete == Incomplete(bundle.tools)
           q == <<t, n>>
           expected == Expected(bundle.tools)
<1>1. t \in ToolNames(bundle.tools) /\ bundle.tools \in Seq(ToolDefs)
  BY FrozenFrom DEF IsFrozenFrom
<1>2. n \in NamesOf(tool.params) /\ set.policy[q] # "trusted_fixed"
  <2>1. bundle.frozen[t] = FrozenTool(bundle.tools, set, t)
    BY FrozenFrom
  <2>2. /\ bundle.frozen[t].params = NamesOf(tool.params)
        /\ bundle.frozen[t].locked = {m \in NamesOf(tool.params) :
                                       set.policy[<<t, m>>] = "trusted_fixed"}
    BY <2>1 DEF FrozenTool
  <2> QED
    BY <2>2
<1>3. /\ q \in Pairs(bundle.tools) /\ tool \in ToolDefs /\ tool.name = t
      /\ p.name = n
      /\ p.sink \in {"yes", "no", "undeclared"}
  BY <1>1, <1>2, PairIsThere
<1>4. /\ q \in Relaxed(bundle.tools, "freeze") =>
           FreezeRelaxes(tool, p, incomplete)
      /\ q \notin Relaxed(bundle.tools, "freeze") =>
           expected.policy[q] = InferPolicy(p, incomplete).policy
      /\ q \in expected.review =>
           /\ q \notin Relaxed(bundle.tools, "freeze")
           /\ Uncertain(p, incomplete)
  <2>1. q[1] = t /\ q[2] = n
    OBVIOUS
  <2> QED
    BY <1>3, <2>1, RelaxedByFreezing, ExpectedFields
<1>5. /\ q \notin Overridable(bundle.tools) => set.policy[q] = expected.policy[q]
      /\ q \in Overridable(bundle.tools) =>
           q \in expected.review /\ n \notin incomplete
      /\ set.policy[q] # expected.policy[q] => q \in bundle.overridden
  <2>1. q[2] = n
    OBVIOUS
  <2> QED
    BY <1>3, <2>1 DEF IsFrozenFrom, AcceptsPolicy, Overridable
<1> HIDE DEF tool, p, q, expected
<1>6. CASE q \in Overridable(bundle.tools)
  <2>1. Uncertain(p, incomplete) /\ n \notin incomplete
    BY <1>4, <1>5, <1>6
  <2>2. /\ InferPolicy(p, incomplete).policy = "trusted_fixed"
        /\ p.sink = "undeclared"
        /\ p.type \notin {"email", "uri"} /\ ~IsSinkName(Evidence[p.name])
    BY <1>3, <2>1, UncertainIsLocked
  <2>3. <<tool.name, p.name>> \in bundle.overridden
    BY <1>2, <1>3, <1>4, <1>5, <1>6, <2>2 DEF q
  <2> QED
    BY <1>3, <2>1, <2>2, <2>3 DEF OpenToData, tool, p
<1>7. CASE q \notin Overridable(bundle.tools)
            /\ q \in Relaxed(bundle.tools, "freeze")
  <2>1. /\ Uncertain(p, incomplete)
        /\ EffectiveTier(tool, incomplete) = "read_only"
        /\ tool.selector = NoName
        /\ p.name \notin incomplete
    BY <1>4, <1>7 DEF FreezeRelaxes
  <2>2. /\ p.sink = "undeclared"
        /\ p.type \notin {"email", "uri"} /\ ~IsSinkName(Evidence[p.name])
    BY <1>3, <2>1, UncertainIsLocked
  <2>3. Declared(tool.risk) = "read_only"
    BY <1>3, <2>1, EffectiveTiers DEF Declared
  <2> QED
    BY <2>1, <2>2, <2>3 DEF OpenToData, tool, p
<1>8. CASE q \notin Overridable(bundle.tools)
            /\ q \notin Relaxed(bundle.tools, "freeze")
  <2>1. InferPolicy(p, incomplete).policy # "trusted_fixed"
    BY <1>2, <1>4, <1>5, <1>8
  <2> QED
    BY <1>3, <2>1, OpenByInference DEF OpenToData, tool, p
<1> QED
  BY <1>6, <1>7, <1>8

(* Whatever the application edited and however the names exhausted the     *)
(* budget of infer_policy, a call the gate lets through has data only in   *)
(* arguments declared open, left open by a complete reading of the name,   *)
(* or unlocked in the review queue.                                        *)
THEOREM DataStaysOutOfAuthority == Spec => []DataNeverFillsAuthority
<1>1. PolicyInv => DataNeverFillsAuthority
  <2> SUFFICES ASSUME PolicyInv, bundle # NoBundle,
                      NEW t \in DOMAIN bundle.frozen, NEW args,
                      NEW n \in DOMAIN args, Answer(t, args, {n}).allow
               PROVE  OpenToData(ToolOf(bundle.tools, t),
                                 ParamOf(ToolOf(bundle.tools, t), n))
    BY DEF DataNeverFillsAuthority
  <2>1. PICK set : IsFrozenFrom(set)
    BY DEF PolicyInv, BundleOK
  <2>2. n \in bundle.frozen[t].params /\ n \notin bundle.frozen[t].locked
    BY AllowedAnswer
  <2> QED
    BY <2>1, <2>2, UnlockedIsOpen
<1> QED
  BY <1>1, PolicyInvariant, PTL

(* A tool without a selector that asks for no confirmation has an          *)
(* undisputed declaration as reading or writing.                           *)
LEMMA QuietToolIsDeclared ==
  ASSUME NEW tool \in ToolDefs, NEW incomplete,
         ~ConfirmsByTier(tool, incomplete)
  PROVE  /\ tool.risk \in {"read_only", "write"}
         /\ tool.name \notin incomplete
         /\ InferRisk(tool.name, {}) \in {tool.risk, "unknown"}
<1>1. EffectiveTier(tool, incomplete) \in Tiers \ NEEDS_CONFIRM
  BY EffectiveTiers DEF ConfirmsByTier
<1>2. /\ ~Unresolved(tool, incomplete)
      /\ tool.risk = EffectiveTier(tool, incomplete)
  BY <1>1, EffectiveTiers DEF NEEDS_CONFIRM
<1>3. tool.risk \in {"read_only", "write"} /\ Declared(tool.risk) = tool.risk
  BY <1>1, <1>2 DEF Tiers, NEEDS_CONFIRM, Declared
<1>4. tool.name \notin incomplete /\ ~Conflicts(tool, incomplete)
  BY <1>2 DEF Unresolved
<1>5. InferRisk(tool.name, incomplete) \in {tool.risk, "unknown"}
  BY <1>3, <1>4, EvidenceIsATier DEF Conflicts
<1> QED
  BY <1>3, <1>4, <1>5, EvidenceIsTheNames

(* A call runs without a person's approval only if an undisputed           *)
(* declaration of its tool, or of the selected branch, says it reads or    *)
(* writes, and the application did not add a confirmation of its own.      *)
THEOREM QuietCallsAreDeclared == Spec => []UnconfirmedCallsAreDeclared
<1>1. PolicyInv => UnconfirmedCallsAreDeclared
  <2> SUFFICES ASSUME PolicyInv, bundle # NoBundle,
                      NEW t \in DOMAIN bundle.frozen, NEW args,
                      Answer(t, args, {}).allow,
                      ~Answer(t, args, {}).needsConfirm
               PROVE  /\ IsDeclaredHarmless(ToolOf(bundle.tools, t), args)
                      /\ t \notin bundle.added
    BY DEF UnconfirmedCallsAreDeclared
  <2> DEFINE tool == ToolOf(bundle.tools, t)
             incomplete == Incomplete(bundle.tools)
             f == bundle.frozen[t]
  <2>1. PICK set : IsFrozenFrom(set)
    BY DEF PolicyInv, BundleOK
  <2>2. /\ Gate(bundle.frozen)!ShapeOk(f, args)
        /\ ~Gate(bundle.frozen)!NeedsConfirmation(f, args)
    BY AllowedAnswer
  <2>3. /\ t \in ToolNames(bundle.tools) /\ tool \in ToolDefs
        /\ SelectorFits(tool) /\ tool.name = t
        /\ ConfirmsByTier(tool, incomplete) => t \in set.confirm
    BY <2>1, FrozenFrom
  <2>4. /\ f.selector = tool.selector
        /\ f.confirm = (t \in set.confirm)
        /\ f.extraConfirm = (t \in bundle.added)
        /\ bundle.added \subseteq set.confirm
        /\ DOMAIN f.cases = {tool.cases[i].value : i \in DOMAIN tool.cases}
        /\ \A v \in DOMAIN f.cases :
             f.cases[v].risk = Declared(CaseFor(tool, v).risk)
    <3>1. f = FrozenTool(bundle.tools, set, t)
      BY <2>1, FrozenFrom
    <3>2. bundle.added = set.confirm \ Expected(bundle.tools).confirm
      BY <2>1 DEF IsFrozenFrom
    <3> HIDE DEF f
    <3> QED
      BY <3>1, <3>2 DEF FrozenTool
  <2> HIDE DEF tool, incomplete, f
  <2>5. CASE tool.selector = NoName
    <3>1. t \notin set.confirm
      BY <2>2, <2>4, <2>5 DEF Gate!NeedsConfirmation
    <3>2. IsDeclaredHarmless(tool, args)
      <4>1. ~ConfirmsByTier(tool, incomplete)
        BY <2>3, <3>1
      <4> QED
        BY <2>3, <2>5, <4>1, QuietToolIsDeclared
        DEF IsDeclaredHarmless, incomplete
    <3> QED
      BY <2>4, <3>1, <3>2 DEF tool
  <2>6. CASE tool.selector # NoName
    <3> DEFINE v == args[tool.selector]
    <3>1. v \in DOMAIN f.cases
      BY <2>2, <2>4, <2>6 DEF Gate!ShapeOk
    <3>2. f.cases[v].risk \notin NEEDS_CONFIRM /\ ~f.extraConfirm
      BY <2>2, <2>4, <2>6
      DEF Gate!NeedsConfirmation, Gate!EffectiveRisk, Gate!NEEDS_CONFIRM,
          NEEDS_CONFIRM
    <3>3. /\ CaseFor(tool, v).risk \in Tiers
          /\ f.cases[v].risk = CaseFor(tool, v).risk
      BY <2>3, <2>4, <3>1, FittingCase
    <3>4. CaseFor(tool, v).risk \in {"read_only", "write"}
      BY <3>2, <3>3 DEF Tiers, NEEDS_CONFIRM
    <3> QED
      BY <2>4, <2>6, <3>2, <3>4 DEF IsDeclaredHarmless, tool
  <2> QED
    BY <2>5, <2>6
<1> QED
  BY <1>1, PolicyInvariant, PTL
=============================================================================
