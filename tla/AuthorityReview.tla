--------------------------- MODULE AuthorityReview ---------------------------
(***************************************************************************)
(* Authority Diff as a gate of a protected branch: an export of tool       *)
(* definitions and its control sidecar are versioned together, a proposal  *)
(* merges by itself when the command exits with 0 under both thresholds,   *)
(* and otherwise only when a person takes it.                              *)
(***************************************************************************)
EXTENDS AuthorityDiff

CONSTANTS
  Documents,  \* the versions that may be proposed, a sequence
  Calls,      \* calls of the tools, with the circumstances of each
  Values,     \* exactly typed JSON values
  Satisfies,  \* Values -> the types the value has
  Measure,    \* Values -> its length or magnitude
  None

\* documents are as SchemaScan describes them: definitions and properties
\* come in order, limits are numbers, and nothing is taken for its absence
IsSequence(s) == s \in Seq(ToSet(s))
IsProperty(p) ==
  /\ p.name \in Words
  /\ {p.maximum, p.maxLength} \subseteq Int \cup {Absent}
  /\ p.enum # Absent => IsSequence(p.enum) /\ ToSet(p.enum) # Absent
IsDocument(doc) ==
  /\ IsSequence(doc.tools)
  /\ \A i \in DOMAIN doc.tools :
       LET tool == doc.tools[i]
       IN /\ tool.name \in Words
          /\ IsSequence(tool.props)
          /\ \A j \in DOMAIN tool.props : IsProperty(tool.props[j])
  /\ \A t \in DOMAIN doc.controls :
       LET branches == doc.controls[t].branches
       IN branches # Absent => BranchReport(branches) # Absent

ASSUME ReviewAssumption ==
  /\ \A i \in DOMAIN Documents : IsDocument(Documents[i])
  /\ Absent \notin Int
  /\ Measure \in [Values -> Int]
  /\ \A call \in Calls :
       /\ call.mover \in Int
       /\ \A n \in DOMAIN call.args : call.args[n].value \in Values

VARIABLES
  base,       \* the version on the protected branch
  request,    \* the open proposal, or None
  origin      \* history: the last version a person took

vars == <<base, request, origin>>

Versions == DOMAIN Documents
Report(i) == Scan(Documents[i])

\* what the command says of every pair of versions: its exit with both
\* thresholds, and the classes of the changes
Accepts == [p \in Versions \X Versions |-> Passes(Documents[p[1]], Documents[p[2]])]
ClassesOf ==
  [p \in Versions \X Versions |->
     IF Scannable(Documents[p[1]]) /\ Scannable(Documents[p[2]])
     THEN Classes(Diff(Report(p[1]), Report(p[2]))) ELSE {}]

---------------------------------------------------------------------------
Init ==
  /\ base \in Versions
  /\ request = None
  /\ origin = base

Propose(i) ==
  /\ request = None
  /\ request' = i
  /\ UNCHANGED <<base, origin>>

MergePassing ==
  /\ request # None
  /\ Accepts[<<base, request>>]
  /\ base' = request
  /\ request' = None
  /\ UNCHANGED origin

\* a person may take what the command stops
MergeByPerson ==
  /\ request # None
  /\ base' = request
  /\ origin' = request
  /\ request' = None

Withdraw ==
  /\ request # None
  /\ request' = None
  /\ UNCHANGED <<base, origin>>

Next ==
  \/ \E i \in Versions : Propose(i)
  \/ MergePassing
  \/ MergeByPerson
  \/ Withdraw

Spec == Init /\ [][Next]_vars

---------------------------------------------------------------------------
(* What a report says may be called, as a reader of the report takes it.   *)
(* A call is [tool, args, attended, beyond, mover]: args maps names to     *)
(* [value, author], beyond are the sources whose bounds the call exceeds,  *)
(* and mover is the rank of whoever moved those bounds for it.             *)

AdmitsValue(row, v) ==
  /\ row.constraints.enum # Absent => v \in row.constraints.enum
  /\ row.type # "enum" => row.type \in Satisfies[v]
  /\ \A limit \in {row.constraints.maximum, row.constraints.maxLength} \ {Absent} :
       Measure[v] <= limit

\* data may fill an argument that is neither locked by its name nor by its
\* author's declaration
AdmitsAuthor(tool, row, author) ==
  author = "data" =>
    /\ row.policy # "trusted_fixed"
    /\ row.name \in DOMAIN tool.declared =>
         tool.declared[row.name].authority # "locked"

WithinBounds(tool, n, call) ==
  n \in DOMAIN tool.declared =>
    \A b \in ToSet(tool.declared[n].bounds) :
      b.status = "enforced" /\ b.source \in call.beyond =>
        MutabilityRank(b) <= call.mover

AdmitsCase(tool, call) ==
  LET selector == tool.branches.selector
      case == tool.branches.cases[call.args[selector].value]
  IN /\ selector \in DOMAIN call.args
     /\ call.args[selector].value \in DOMAIN tool.branches.cases
     /\ DOMAIN call.args \cap Exposed(tool) \subseteq case.active
     /\ case.confirm => call.attended

AdmitsTool(tool, call) ==
  /\ IF tool.branches # Absent THEN AdmitsCase(tool, call)
     ELSE tool.confirm => call.attended
  /\ \A n \in DOMAIN call.args :
       IF n \in Exposed(tool)
       THEN /\ AdmitsValue(RowOf(tool, n), call.args[n].value)
            /\ AdmitsAuthor(tool, RowOf(tool, n), call.args[n].author)
            /\ WithinBounds(tool, n, call)
       ELSE ~tool.closes

Admitted(report) ==
  {call \in Calls : \E tool \in ToSet(report) :
                      tool.name = call.tool /\ AdmitsTool(tool, call)}

AdmittedBy ==
  [i \in Versions |-> IF Scannable(Documents[i]) THEN Admitted(Report(i)) ELSE {}]
Wider == {p \in Versions \X Versions : ~(AdmittedBy[p[2]] \subseteq AdmittedBy[p[1]])}

---------------------------------------------------------------------------
\* The scanner and the diff derive the same conclusions with two copies of
\* the rules: whatever the scanner reports, branches, exhausted budgets and
\* mismatching declarations included, the diff takes for a genuine report.
ScannedReportsValidate ==
  request # None /\ Scannable(Documents[request]) => IsReport(Report(request))

\* However many proposals merge one after the other without a person, no
\* call is admitted that the version a person last took did not admit: no
\* tool, argument, value or unknown name, no data where a trusted author was
\* needed, nothing unattended that needed approval, nothing beyond a bound.
NothingWidensUnseen == <<origin, base>> \notin Wider

\* A change of direction is a change of class: what is pure protection one
\* way is an increase of authority on the way back, so a proposal that
\* merges by itself cannot be undone by one that does.
ProtectionIsOneWay ==
  request # None /\ ClassesOf[<<base, request>>] = {"protection_increase"} =>
    "authority_increase" \in ClassesOf[<<request, base>>]
=============================================================================
