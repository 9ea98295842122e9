-------------------------- MODULE PolicyDerivation --------------------------
(***************************************************************************)
(* The PolicySet verb_authority.py derives from a sequence of tools:       *)
(* build_policy, and the second derivation inside _freeze_policy_set that  *)
(* checks a PolicySet an application hands back.                           *)
(***************************************************************************)
EXTENDS PolicyInference

Policies == {"trusted_fixed", "typed_bounded", "outbound_payload"}
NEEDS_CONFIRM == {"unknown", "financial", "destructive", "code_exec"}

NamesOf(params) == {params[i].name : i \in DOMAIN params}
ToolNames(tools) == {tools[i].name : i \in DOMAIN tools}
Pairs(tools) ==
  UNION {{<<tools[i].name, n>> : n \in NamesOf(tools[i].params)} :
           i \in DOMAIN tools}
ToolOf(tools, t) == tools[CHOOSE i \in DOMAIN tools : tools[i].name = t]
ParamOf(tool, n) ==
  tool.params[CHOOSE i \in DOMAIN tool.params : tool.params[i].name = n]

\* UNKNOWN is the absence of a declaration
Declared(risk) == IF risk = "unknown" THEN "undeclared" ELSE risk

---------------------------------------------------------------------------
(* The derivation.  Building and freezing each have their own copy of it   *)
(* in the code, which differ in how they tell that a tool has a selector   *)
(* and in the overridable part of the review queue.                        *)

Conflicts(tool, incomplete) ==
  /\ Declared(tool.risk) # "undeclared"
  /\ InferRisk(tool.name, incomplete) \in Tiers \ {"unknown"}
  /\ Declared(tool.risk) # InferRisk(tool.name, incomplete)

Unresolved(tool, incomplete) ==
  \/ Declared(tool.risk) = "undeclared"
  \/ Conflicts(tool, incomplete)
  \/ tool.name \in incomplete

EffectiveTier(tool, incomplete) ==
  IF Unresolved(tool, incomplete) THEN "unknown" ELSE Declared(tool.risk)

ConfirmsByTier(tool, incomplete) ==
  \/ EffectiveTier(tool, incomplete) \in NEEDS_CONFIRM
  \/ /\ Conflicts(tool, incomplete)
     /\ InferRisk(tool.name, incomplete) \in NEEDS_CONFIRM

Uncertain(p, incomplete) == InferPolicy(p, incomplete).confidence = "uncertain"

\* A declared read-only tool relaxes its ambiguous arguments, unless a
\* selector decides what the call does or a name could not be read:
\* as build_policy has it,
BuildRelaxes(tool, p, incomplete) ==
  /\ Uncertain(p, incomplete)
  /\ EffectiveTier(tool, incomplete) = "read_only"
  /\ tool.selector = NoName
  /\ tool.cases = <<>>
  /\ p.name \notin incomplete

\* defect: the copy in freezing relaxes a refused name like any other
FreezeRelaxesRefused(tool, p, incomplete) ==
  /\ Uncertain(p, incomplete)
  /\ EffectiveTier(tool, incomplete) = "read_only"
  /\ tool.selector = NoName

\* and as _freeze_policy_set has it
FreezeRelaxes(tool, p, incomplete) ==
  /\ Uncertain(p, incomplete)
  /\ EffectiveTier(tool, incomplete) = "read_only"
  /\ tool.selector = NoName
  /\ p.name \notin incomplete

Relaxed(tools, copy) ==
  LET incomplete == Incomplete(tools)
      tool(q) == ToolOf(tools, q[1])
      param(q) == ParamOf(tool(q), q[2])
  IN {q \in Pairs(tools) :
        IF copy = "build" THEN BuildRelaxes(tool(q), param(q), incomplete)
        ELSE FreezeRelaxes(tool(q), param(q), incomplete)}

\* the derived fields of a PolicySet, with the queues as sets
Derive(tools, copy) ==
  LET incomplete == Incomplete(tools)
      relaxed == Relaxed(tools, copy)
      tool(t) == ToolOf(tools, t)
      param(q) == ParamOf(tool(q[1]), q[2])
      chosen(Test(_, _)) == {t \in ToolNames(tools) : Test(tool(t), incomplete)}
  IN [policy |-> [q \in Pairs(tools) |->
                    IF q \in relaxed THEN "typed_bounded"
                    ELSE InferPolicy(param(q), incomplete).policy],
      review |-> {q \in Pairs(tools) \ relaxed : Uncertain(param(q), incomplete)},
      risk |-> [t \in ToolNames(tools) |-> EffectiveTier(tool(t), incomplete)],
      evidence |-> [t \in ToolNames(tools) |-> InferRisk(t, incomplete)],
      confirm |-> chosen(ConfirmsByTier),
      riskReview |-> chosen(Unresolved),
      conflicts |-> chosen(Conflicts)]

BuildPolicySet(tools) == Derive(tools, "build")
Expected(tools) == Derive(tools, "freeze")
=============================================================================
