-------------------------- MODULE PolicyInference --------------------------
(***************************************************************************)
(* What verb_authority.py concludes about tools and parameters from their  *)
(* names and declarations: infer_risk, infer_policy and the shared budget  *)
(* of Unicode normalization their identifiers are read under.              *)
(*                                                                         *)
(* A tool is a record                                                      *)
(*   [name, risk ("undeclared" or a declared tier), params (a sequence),   *)
(*    selector (a parameter name or NoName), cases (a sequence of          *)
(*    [value, risk, active] records), fn (the implementation's shape)]     *)
(* and a parameter is                                                      *)
(*   [name, type, sink ("yes", "no", "undeclared"), enum (a sequence),     *)
(*    limit (its max_len or cap, or NoLimit)].                             *)
(***************************************************************************)
EXTENDS SequencesExt

CONSTANTS
  Words,        \* identifiers of tools and parameters
  NoName,
  Evidence,     \* Words -> what the complete tokens of the word say
  Cost,         \* Words -> characters to normalize; 0 for ASCII, read for free
  Oversize,     \* words longer than MAX_IDENTIFIER_INFERENCE_CHARS
  WorkLimit,    \* MAX_NFKC_OPERATION_CHARS
  NoLimit,
  LongText      \* the length above which a string is a text: 200

Tiers == {"read_only", "write", "financial", "destructive", "code_exec",
          "unknown"}

\* the order of _RISK_TOKENS: the gravest evidence decides
RiskOrder == <<"code_exec", "destructive", "financial", "write", "read_only">>

\* the token tables, and what the flattened spelling of a name suggests
Clues == {"sink", "api", "key", "final_to", "selector", "compact_selector",
          "compact_sink", "final_payload", "letters",
          "branch_selector"} \cup ToSet(RiskOrder)

ASSUME InferenceAssumption ==
  /\ Evidence \in [Words -> SUBSET Clues]
  /\ Cost \in [Words -> Nat]
  /\ Oversize \subseteq Words
  /\ NoName \notin Words
  /\ WorkLimit \in Nat
  /\ LongText \in Nat
  /\ NoLimit \notin Nat

---------------------------------------------------------------------------
\* a parameter whose declaration settles its policy is not read by name
ReadsName(p) ==
  \/ p.sink = "undeclared"
  \/ p.sink = "no" /\ p.type \notin {"number", "integer", "enum", "boolean"}

\* the identifiers one derivation reads, in registration order, and NoName
\* for each that it does not
NamesRead(tools) ==
  FlattenSeq([i \in DOMAIN tools |->
    LET params == tools[i].params
    IN <<tools[i].name>> \o
         [j \in DOMAIN params |->
            IF ReadsName(params[j]) THEN params[j].name ELSE NoName]])

\* one identifier against the shared budget: a name is charged once, and the
\* first that does not fit empties the budget for every later one
ReadName(work, n) ==
  IF n \in Oversize \cup work.cached \cup {NoName} THEN work
  ELSE [left |-> IF Cost[n] > work.left THEN 0 ELSE work.left - Cost[n],
        cached |-> work.cached \cup {n},
        refused |-> IF Cost[n] > work.left
                    THEN work.refused \cup {n} ELSE work.refused]

\* the names whose analysis is incomplete when they are read in this order
Refused(names) ==
  LET work[k \in 0..Len(names)] ==
        IF k = 0 THEN [left |-> WorkLimit, cached |-> {}, refused |-> {}]
        ELSE ReadName(work[k - 1], names[k])
  IN Oversize \cup work[Len(names)].refused

\* and when a registry is read
Incomplete(tools) == Refused(NamesRead(tools))

Says(n, incomplete) == IF n \in incomplete THEN {} ELSE Evidence[n]

---------------------------------------------------------------------------
InferRisk(n, incomplete) ==
  IF n \in incomplete THEN "inference_limit"
  ELSE LET i == SelectInSeq(RiskOrder, LAMBDA r : r \in Says(n, incomplete))
       IN IF i = 0 THEN "unknown" ELSE RiskOrder[i]

IsSinkName(clues) ==
  "sink" \in clues \/ {"api", "key"} \subseteq clues \/ "final_to" \in clues

IsSelectorName(clues) == {"selector", "compact_selector"} \cap clues # {}
IsCompactSinkName(clues) == "compact_sink" \in clues
IsPayloadName(clues) == "final_payload" \in clues

\* non-Latin, punctuation-only and numeric-only names cannot be classified
NameRequiresReview(clues) == "letters" \notin clues

Verdict(policy, confidence) == [policy |-> policy, confidence |-> confidence]

\* a type constrains the representation of a value, not who may author it
Doubtful(p, clues) ==
  \/ IsSelectorName(clues)
  \/ IsCompactSinkName(clues)
  \/ NameRequiresReview(clues)
  \/ p.type \in {"number", "integer", "enum", "boolean"}

\* what an undeclared parameter's type and name say; locked when in doubt
InferUndeclared(p, clues) ==
  IF p.type \in {"email", "uri"} \/ IsSinkName(clues)
  THEN Verdict("trusted_fixed", "high")
  ELSE IF ~Doubtful(p, clues) /\ IsPayloadName(clues)
  THEN Verdict("outbound_payload", "high")
  ELSE Verdict("trusted_fixed", "uncertain")

\* declared not to be a sink: data may fill it, as text or within its type
InferDeclaredOpen(p, incomplete) ==
  IF /\ ReadsName(p)
     /\ \/ IsPayloadName(Says(p.name, incomplete))
        \/ p.type = "string" /\ p.limit # NoLimit /\ p.limit > LongText
  THEN Verdict("outbound_payload", "high")
  ELSE Verdict("typed_bounded", "high")

InferPolicy(p, incomplete) ==
  IF p.sink = "yes" THEN Verdict("trusted_fixed", "high")
  ELSE IF p.sink = "no" THEN InferDeclaredOpen(p, incomplete)
  ELSE IF p.name \in incomplete THEN Verdict("trusted_fixed", "uncertain")
  ELSE InferUndeclared(p, Evidence[p.name])
=============================================================================
