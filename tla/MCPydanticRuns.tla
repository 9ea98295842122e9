-------------------------- MODULE MCPydanticRuns --------------------------
(***************************************************************************)
(* A tool pay.  The model writes a key for the payee, which prepare_call   *)
(* resolves: "pay1" is Alice, "pay2" is Bob, "payz" is nobody.  Pydantic   *)
(* may coerce "pay1" into the others, of which "payz" has another          *)
(* selector.                                                               *)
(***************************************************************************)
EXTENDS PydanticRuns, TLC

MCCalls == {"pay alice", "pay bob"}
MCPrepared == [c \in RawCalls |-> CASE c = "pay1" -> "pay alice"
                                    [] c = "pay2" -> "pay bob"
                                    [] OTHER -> "unresolved"]
MCCoercions == [c \in RawCalls |->
  IF c = "pay1" THEN RawCalls ELSE {c}]
MCExact == [c \in RawCalls |-> {c}]
MCSelectorOf == [c \in RawCalls |-> IF c = "payz" THEN "third" ELSE "any"]
MCSelectors == {"any", "third"}
MCKindOf == [n \in Nodes |-> CASE n = "prompt" -> "prompt"
                               [] n = "request" -> "request"
                               [] OTHER -> "calls"]

Symmetry == Permutations(Runs) \cup Permutations(Attempts)
=============================================================================
