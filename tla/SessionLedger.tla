--------------------------- MODULE SessionLedger ---------------------------
(***************************************************************************)
(* What the rest of the library relies on in a provenance ledger: the set  *)
(* of values it treats as tainted only grows, every change of it opens a   *)
(* new epoch, and exhaustion closes it once and for all.  GuardedRunner is *)
(* built on these two steps; ProvenanceLedger, the ledger with its indexes *)
(* and budgets, is shown to implement Spec.                                *)
(***************************************************************************)
EXTENDS Naturals

CONSTANT Values

VARIABLES
  tainted,    \* the values is_tainted answers True for
  version,    \* the epoch
  saturated   \* permanently closed

vars == <<tainted, version, saturated>>

\* a value that cannot be looked up within the budgets is tainted at once
Init ==
  /\ tainted \in SUBSET Values
  /\ version = 0
  /\ saturated = FALSE

\* record_result commits every leaf, and each commit opens a new epoch
Record(vs) ==
  /\ ~saturated
  /\ tainted' = tainted \cup vs
  /\ version' = version + 1
  /\ UNCHANGED saturated

\* defect: each failed write opens an epoch, the retried ones too
SaturateEachTime ==
  /\ saturated' = TRUE
  /\ version' = version + 1
  /\ UNCHANGED tainted

\* record_result does not fit: nothing is committed, and the first failure
\* closes the ledger and opens a new epoch
Saturate ==
  /\ saturated' = TRUE
  /\ version' = IF saturated THEN version ELSE version + 1
  /\ UNCHANGED tainted

\* a commit as the lookups see it: something is recognised afterwards, nothing
\* tainted turns clean.  Which values are, the ledger's own properties say.
Commit ==
  /\ ~saturated
  /\ tainted' \in (SUBSET Values) \ {{}}
  /\ tainted \subseteq tainted'
  /\ version' = version + 1
  /\ UNCHANGED saturated

Next == Commit \/ Saturate

Spec == Init /\ [][Next]_vars
=============================================================================
