# A verification project for Verb Authority

Verb Authority decides whether a tool call proposed by a language model may
run, from a registry of tools, a policy built from it, the values the
application itself declares trusted, and a ledger of everything earlier tools
returned. An adapter carries the decision into agent runs of Pydantic AI, and a
scanner and a diff review exported tool declarations before they are used. This
directory holds TLA+ modules of these parts, TLC configurations that check them
on small instances, and proofs for every instance.

## 1. Inventory

### 1.1 The gate and the runner (`verb_authority.py`)

| part | state | operations | interacts with |
|---|---|---|---|
| JSON snapshots | a budget per snapshot | `_snapshot_json_value`, `_snapshot_tool_call` | used everywhere input enters |
| gate, dispatch | none | `gate`, `dispatch` | ledger lookups, bundle |
| `ProvenanceLedger` | exact, container, blob and canonical stores, two incompleteness flags, a byte counter, an epoch, a saturation flag, a re-entrant lock | `record_result`, `is_tainted`, `version`, `saturated` | dispatch, runner, application |
| `GuardedToolRunner` | the bundle, the ledger alias and its binding | `run`, `_configuration_drift`, `_invoke_locked` | confirmation callback, implementations, ledger lock |

What is hard: threads interleave inside `run`; the ledger can change between a
decision and the invocation it allows; the confirmation callback runs without
the lock and may take for ever; an implementation or callback may call the
runner again on its own thread, through a re-entrant lock; a call may fail
after its tool has run; direct users of `dispatch` have no runner lock at all;
the ledger must answer from a partial index once its budgets bite.

What makes it correct: one thread at a time between the final check and the
publication; no returned value ever authors a locked argument; a risky call
runs only under an approval of that very call and ledger; a result leaves only
once it is recorded; nothing recorded is ever missed by a lookup; no call waits
for another call's human.

### 1.2 The policy (`verb_authority.py`)

| part | state | operations | interacts with |
|---|---|---|---|
| `Registry` | tools in order, a version | `add`, edits in place | read by derivation and freezing |
| inference | one work budget per derivation | `infer_risk`, `infer_policy` | derivation, scanner, diff |
| `build_policy` | a `PolicySet`, mutable until frozen | derivation, edits by the application | freezing |
| freezing | one immutable bundle | `_freeze_registry`, `_freeze_policy_set`, `_make_registration_bundle` | used by gate and runner |
| `TrustedResolver` | an immutable catalogue | `resolve` | the application |

Hard: the policy is derived twice, by two copies of the rules, with edits of
the registry, of its order and of the policy in between; a name that a budget
could not read must not be taken for a harmless one. Correct: whatever was
edited, the bundle locks what the derivation locks, asks where it asks, and
names only the registration it was made from.

### 1.3 The Pydantic AI adapter (`verb_authority_pydantic.py`)

`PydanticAuthoritySession` keeps pending approvals by tool-call id
(`_PendingApproval`, at most 256, under `_pending_lock`).
`VerbAuthorityCapability` keeps node claims, run permits and a resume marker
across the hooks of one run (`before_node_run`, `wrap_tool_validate`,
`wrap_tool_execute`). `PydanticAuthorityAgent` seals the agent, each run, its
graph and its tool managers, and hands the right to start and to advance a run
through two context variables. Hard: hooks await between a check and its use;
several runs may resume one session at once; reconciliation takes the pending
lock in two sections; the framework may repeat a hook; a task created in
between copies both context variables; a block may fail at any point. Correct:
an approval is used at most once, for the action that was shown; a permit
executes once, in its node, with the arguments that were validated; an entry
grant begins one run; a context is put back whatever fails.

### 1.4 The scanner (`verb_authority_scan.py`) and the diff (`verb_authority_diff.py`)

The scanner turns untrusted JSON Schema tool declarations and an author's
control sidecar into a bounded report; the diff validates two reports by
deriving their conclusions again, classifies every difference, and exits by
the classes. Hard: two copies of the derivation under a budget each; the
precedence of the classification rules; multisets of bounds; a chain of
changes, each of which looks harmless. Correct: what the scanner reports
validates; no chain of proposals that pass by themselves admits a call that
nobody reviewed.

### 1.5 Left out

`scripts/` (release artifact and wheel smoke checks), `benchmarks/`,
`examples/`, the demos and adversarial drivers at the root, the fixtures and
the workflows: they exercise or package the program and carry none of its
state.

## 2. Plan

| step | modules | what | status |
|---|---|---|---|
| 1 | `AuthorityGate` | the decision as pure operators | done |
| 2 | `AtomicAuthority`, `GuardedRunner` | the promise of `run` and its threads, locks and callbacks | done |
| 3 | `DirectDispatch` | `dispatch` without the runner's lock | done |
| 4 | `SessionLedger`, `ProvenanceLedger` | the epoch abstraction and the indexes | done |
| 5 | `PolicyInference`, `PolicyDerivation`, `AuthorityPolicy` | from names and declarations to a frozen bundle, composed with the gate | done |
| 6 | `PendingApprovals`, `PydanticRuns` | the adapter's session and the hooks of its runs | done |
| 7 | `SealedRun` | entering, driving and closing runs, in tasks with copied contexts | done |
| 8 | `SchemaScan`, `AuthorityDiff`, `AuthorityReview` | scanner, diff, and the diff as a gate of a branch | done |
| 9 | the proof modules | see section 5 | done, but for what it lists as only model-checked |
| 10 | | redacted reports and older report versions; `prepare_tools`; `TrustedResolver`; the snapshot budgets as counters | left |

The gate is composed into the runner by `EXTENDS`, into the policy by an
`INSTANCE` for each frozen bundle, and the session ledger by `INSTANCE`; the
detailed ledger is linked to the runner only through `SessionLedger`, so the
runner's state space never carries its indexes. The scanner extends the policy
derivation, as the code imports it, and the diff extends the scanner.
`PydanticRuns` carries the guarded runner as the few steps of a worker thread,
with the ledger as a version: what those steps promise is `GuardedRunner`'s
subject.

## 3. The modules

`AuthorityGate` translates `gate` and `dispatch`. A value is opaque and exactly
typed, so `=` is `_same_authority_value`; a parameter's type, enum, length and
cap check is the set of values it `accepts`; `MixedScript` is the homograph
test, including values too long to test. The bundle is a constant: that is what
freezing gives the code. `Provenance`, `ShapeOk`, `ArgAdmitted`,
`NeedsConfirmation` and `Gate` follow the order of `gate` as a conjunction: a
denial is one outcome whatever its reason. Hash mismatches and malformed
policies are denials before the gate and are not represented, except as drift
in the runner.

`GuardedRunner` models `run` with one action per program point:

| action | code |
|---|---|
| `Start` | the application, an implementation or a callback calls `run` |
| `Snapshot` | drift check and snapshot before the lock |
| `Check` | the first `with` block opens, drift check |
| `DecideNo`, `DecideYes`, `DecideUnconfirmed`, `AskConfirmation` | dispatch, implementation checks, request |
| `ConfirmTrue`, `ConfirmOther` | what the callback returns or raises, outside the lock |
| `Recheck`, `RevalidateNo`, `RevalidateYes` | the second `with` block |
| `Enter` | `implementation(**input)` |
| `Publish`, `Overflow`, `Fail` | the ends of `_invoke_locked` |
| `RecordElsewhere`, `Edit`, `Undo`, `MutateInput` | other users of the ledger, trusted code that changes configuration, the caller's dictionary |

The `RLock` is not a variable: an activation holds it exactly while its phase
lies inside a `with` block, and a thread may take it when every holder is on
that thread. That gives re-entrance, and makes "the callback is outside the
lock" a statement about phases. `Edit` may happen at any step, inside the lock
too, since registry and policy are ordinary mutable objects; an edit between
the drift check and the entry is therefore not detected, as in the code.
`request` keeps the ledger contents the approval was given under beside the
epoch the code keeps, so that the properties can ask whether an epoch ever
stands for two contents.

`AtomicAuthority` states the promise without any of this: a call enters in one
step that checks it against all the session has recorded, and leaves in one
step that records what it returns. `GuardedRunner` maps to it by phase and
outcome.

`DirectDispatch` is `dispatch` as a loop whose ledger lookups each take the
lock for themselves, interleaved with other threads' records.

`ProvenanceLedger` models `record_result` and `is_tainted` with the five stores
and the flags. Strings are opaque; substring, strip, canonical form, skeleton
and shape are constants. One property of the real canonical form is assumed
about them and named: `SkeletonAssumption`, the code's own claim that folding
one code point at a time loses no ASCII destination. The loop's early capacity
checks amount to one check of the whole write, since the pending sizes only
grow. Two things depend on the order of a result's leaves and are
nondeterministic within the bounds that any order gives: whether an overlong
string still gets a skeleton when the byte budget is nearly spent (`Cuts`: its
fold, blanks included, must fit what is left, whether its skeleton is retained
already or not), and whether the normalisation budget lasts (`LeastWork`,
`MostWork`). `SessionLedger` is what the runner relies on, and the ledger is
checked to implement it: taint only grows, epochs advance, exhaustion is final.
That a commit taints its own result is no part of that abstraction, which lets
a commit taint any larger set; it is `NothingIsMissed`.

`PolicyInference` has the token tables as what the complete tokens of a name
say (`Evidence`), and the shared budget of Unicode normalisation as a recursive
function along the names a derivation reads in registration order (`Refused`):
what is too long, or comes when the budget is spent, is read as inconclusive.
`PolicyDerivation` is `build_policy` and its second copy inside
`_freeze_policy_set`. `AuthorityPolicy` puts them into a state: registrations,
edits in place, a `PolicySet` built and edited, and `Freeze`, which takes it or
raises. The bundle it makes is given to the gate by `INSTANCE AuthorityGate`,
so that its properties speak of calls and not of tables.

`PendingApprovals` holds the critical sections of `_pending_lock`.
`PydanticRuns` splits the hooks where they await or let a lock go:

| action | code |
|---|---|
| `StartPrompt`, `StartRequest`, `StartCalls` | `before_node_run` with `_claim_run_node_start`, by kind of node |
| `MintPermits` | its last section, under the pending lock |
| `Reconcile`, `ReadAgain` | `_reconcile_pending_results`, from `before_model_request` and again from `wrap_model_request` |
| `ValidateBegin`, `ValidateEnd`, `ValidateFail` | `wrap_tool_validate` before and after its await |
| `ExecuteBegin`, `Prepare` | `wrap_tool_execute` up to the worker thread |
| `Dispatch`, `Refuse`, `ConfirmTake`, `ConfirmAsk`, `ConfirmRaise`, `EnterConfirmed`, `Publish`, `FailInside` | the runner in the worker thread, with the session's confirmation callback |
| `DiscardApproval`, `RecordElsewhere`, `Abandon`, `Advance` | the application, another user of the ledger, a run given up, the framework's next node |

The framework is not trusted: it chooses the calls of a node, the normalised
results of a resume, the arguments and the flag it passes to a hook, how often
it calls one, and which node is next. That may be any node of the run: inside a
live transition `_PinnedGraphRun.override_next` and `_set_next` take whatever
they are given (`verb_authority_pydantic.py:4412-4418`), and a claim compares
the node with the last one only (`:3115`). So a run may leave a node and start
it again, with fresh permits for the same calls. The history variable `turn`
counts the starts of a node other than the one before; what a permit is good
for is stated of one turn. The application chooses the answers, each about an approval
that was shown, this one or an earlier one. A commitment is the call with the
ledger version it was made from, which is what the code hashes.

`SealedRun` has one action for each stage of `iter` between which control can
be lost, and one for each block that is entered or left. A context variable is
a value for each task; `Spawn` copies it at any moment. A block keeps what it
will put back, as a `Token` of `contextvars` does, and the stack of blocks is
the code's nesting of `with` and `finally`. The identity comparisons of a seal
are one bit for each layer that is verified together (root, manager, deps,
run); the application may change a layer and change it back.

`SchemaScan` is the scanner from parsed definitions to the report: envelope
vocabulary, rows and constraints of arguments, annotation assessments, risk,
selector branches from the control sidecar, the shared budget of names and the
limits on counts. `AuthorityDiff` holds the validator (`IsReport`), the change
operators of tools, arguments, controls and branches in the code's order, and
the exit status under both thresholds. `AuthorityReview` uses it as the check
of a protected branch, and reads a report as the set of calls it admits.

## 4. What is checked

| run | instance | shows |
|---|---|---|
| `direct_dispatch` | two tools (locked recipients; a selector tool with a financial branch), six values, calls with matching, missing and excessive declarations | every decision equals an atomic one; locked sinks, completeness, confirmation |
| `guarded_runner` | two threads, three activations, nesting, one external record, three requests | the safety properties of `run` and its refinement of the promise |
| `guarded_runner_live` | two threads, two activations, every kind of outcome, two drift sources | no call waits for another call's human |
| `nested_confirmation` | as `guarded_runner` | the documented claim that confirmation runs outside the lock fails when nested |
| `provenance_ledger` | ten strings, eleven documents, tight budgets, epoch at most 6 | nothing is missed, every taint has a reason, usage is exact, the session ledger is implemented |
| `authority_policy` | up to two registrations from a handful of tools (malformed, branching, unreadable names), one edit of each policy set | a bundle fits the gate; data never fills what the derivation locks; what runs unconfirmed was declared harmless |
| `pydantic_resumes` | three runs of one session, one id, two payments, one change of the ledger | an approval is conserved and names the action, and only a prompt's own yes approves |
| `pydantic_hooks` | one run over four nodes in any order, four turns, two activations of each hook, three spellings of the arguments | a call runs once in each turn of its node, and as validated |
| `pydantic_batch` | two runs, two ids, a budget of one approval | the budget holds without eviction, and worker threads end |
| `pydantic_answers` | as `pydantic_resumes` | the documented promise that an approval is for the exact action it was given for fails |
| `sealed_runs` | a task and a child it creates, one run nested in another, two nodes, two managers, one edit behind the seals | grants, contexts, nodes and tool managers stay on the sealed path |
| `authority_review` | 73 versions of an export, every pair compared | what merges by itself widens nothing unseen; validator and scanner agree |

Bounds. In the runner, three activations on two threads are enough for every
pair of phases to meet while a third call has published, and for a nested call
inside a confirmation or an implementation while another thread waits.
`MaxExternal` bounds records by other users of the ledger; one suffices to move
the epoch under a pending approval. `MaxRecords` bounds the ledger's epoch: six
commits reach every combination of retained strings the byte and entry budgets
allow, and the budgets are small enough that a write fails, a skeleton is cut
and a lookup exceeds its budget.

`MaxTurns` bounds the turns of an adapter run, over the few `Nodes` it may go to
in any order. Two let one run ask and two others race to resume it; four let a
call-tools node be followed by another with permits of the first still about,
and let the run come back to the first. `MaxVersion` 1 moves the ledger once
between an approval and its use. `MaxDepth` 3 lets a task hold an open run
nested inside a step of another one, or inside its close; the child, with one
block, can enter a run or drive one with what it copied. `MaxEdits` 1 breaks a
layer before, during or after a step; changing it back would only return to
states that are reached without the change.
`MaxVersion` and `MaxEdits` of `authority_policy` let an edit come before and
after each of two derivations. The versions of `authority_review` differ in
tools, arguments, constraints, annotations, controls, bounds and branches, one
or two at a time; all pairs are compared, in both directions, and a chain of
proposals may have any length.

Deadlock is not checked where the system may really stop: an application that
stops recording, runs that are all over, a registry at its bound, no proposal
left to make. Symmetry is used in safety runs only.

Fairness. `FairSpec` of the runner asks weak fairness of `Progress(c)`, the
steps of a call that neither a human nor the application decides: a thread that
is not blocked is scheduled, the lock is granted, a tool returns or raises.
Calls are finite in number, so no stream of newcomers can hold the lock for
ever and weak fairness is enough for taking it. The confirmation callback has
no fairness: it may never answer, and `CallsFinish` says that only its own call
waits then. `Nesting` is off in that run, because of the first finding below.
`FairSpec` of `PydanticRuns` asks the same of the steps of a worker thread and
of nothing else: the adapter's callback never waits for a human, it takes,
asks or raises. Nothing is assumed of the framework, which may drop a run at
any await.

Each property is listed in `PROJECT.json` with a defect seeded into the model
(the operators commented "defect", or described as a bug of the definition that
follows) that makes TLC refute it.

### Findings

1. The class documentation says that human confirmation runs outside the
   session lock (`verb_authority.py:3864`). When an implementation calls the
   runner for a risky tool, the nested `run` leaves its own `with` block before
   it calls the callback, but the outer activation of the same thread still
   holds the re-entrant lock. The human is asked while every other thread is
   locked out. `nested_confirmation` shows it; running the library confirms it.
2. `docs/runtime-gate.md:544-547` says that an approval is accepted only for
   the exact action it was given for. `_validate_deferred_results` checks that
   the answered id is pending, and the permit is bound to whatever is pending
   then. If another action has been asked for under the same tool-call id
   since, a late or repeated "yes" approves that one. `pydantic_answers` shows
   it. What does hold, and is proved, is `EntersAsShown`: the action was shown
   to the user, under that id, before it runs.

Observed while modelling, without a run of its own:

- In a resume, changed arguments fail the call and drop its approval
  (`verb_authority_pydantic.py:2451-2459`); they do not ask again by
  themselves.
- `docs/runtime-gate.md:200-202` says what an action id is not: a call that is
  repeated under unchanged state has the same id.
- `_bounds_classification` answers "review" as soon as one bound of an argument
  is `not_stated`, before it looks at the others, so that the loss of an
  enforced bound beside it is a case for review. `NothingWidensUnseen` holds
  because review stops a proposal under the second threshold; with
  `--fail-on-increase` alone it would not stop.
- A child task with a copied transition still passes `_require_guarded` in the
  tool sinks and may write the graph's next node after the transition is over.
  It starts no node with it (`NodesStartOnTheSealedPath`), and a tool still
  needs a permit of the node started last, which is why the permits are the
  barrier and not the transition.
- `docs/runtime-gate.md:577-578` says that each exact node is claimed once. The
  seal remembers the last node only (`verb_authority_pydantic.py:3115`), so a
  node that a run has left can be set as its next one and claimed again. The
  sentence that follows, that a child task with a copied context cannot start
  the node again, is what the claim is for and what holds (`OncePerTurn`).
- A run that fails its verification as it closes is refreshed afterwards, so
  that its seal may name what was just rejected
  (`verb_authority_pydantic.py:5251-5268`). A closed run is not driven.

## 5. What is proved

TLAPS checks these for all threads, calls, requests, values, bundles, runs,
tasks, nodes, managers, registries and chains of proposals. Every safety
property that a passing run checks is a theorem.

- `AuthorityGate_proofs`: an allowed decision means an open ledger, declared
  and unrecorded values in every locked argument, and confirmation exactly when
  the policy asks (`DispatchAllows`); the ledger only takes authority away
  (`LedgerOnlyRestricts`).
- `DirectDispatch_proofs`: `Linearizable`. The labels found so far lie between
  two ledgers: trusted held at the start, data holds now. Since the gate reads
  only the labels of locked arguments, a denial is one of now and anything else
  is the decision of the start. From the same invariant, locked sinks and
  completeness. `RiskyCallsAsk` lifts what the gate asks of one risky call to
  every call of the specification; it rests on what freezing promises of a
  risky tool, its confirmation flag included.
- `GuardedRunner_proofs`: `IInv` and from it every invariant that
  `guarded_runner` checks. None of them is inductive alone. Types; one thread
  inside; the running activation is the top of its thread's stack
  (`TopIsActive`); an approval's epoch stands for one ledger content
  (`EpochOK`); a ready call is allowed now and approved in this epoch
  (`ReadyOK`). The heart is `ReadyIsolates`: while a call is about to enter no
  actor can change the ledger, because it would need the lock, hence be on the
  same thread, hence be the top of a stack whose top is the ready call.
  On top of them `RunnerIsAtomic`: every step of the runner is a step of
  `AtomicAuthority` or a stutter.
- `ProvenanceLedger_proofs`: `NoTaintIsMissed`, from the invariant that every
  recorded leaf is retained and each retained string is covered by the
  canonical index or by a flag that says it is not; `TaintIsExplained`, its
  converse. `AccountIsExact` needs that the sum over a store and over what is
  new to it is the sum over the store after the commit: sums over finite sets,
  whatever the order. That is an induction over the subsets of a finite set,
  which the library's sum does not come with. `LedgerIsSessionLedger` is the
  refinement, one step of the ledger at a time: the cost of a lookup only grows
  with the stores, so what a commit adds makes nothing clean.
- `PydanticRuns_proofs`: every safety property of the three adapter runs.
  `ApprovalInv` follows one approval: what is pending was shown, what was used
  and what is pending never exceed what was asked for, a permit's validated
  arguments come from the model's, and an activation carries them, unchanged,
  to the tool (`FlightOK`); one call at a time is inside, so the version cannot
  move under it. `OnceInv` follows one call of one node through the places it
  can be in: not yet permitted (`FreshOK`), in the only permit for it
  (`PermitsOK`), in the only activation that consumed that (`HeldOK`), or
  entered; a claim opens a turn that no permit was ever made in (`Turned`). `AnswerInv`
  carries a "yes" from the prompt to the marker, the results, the permit and
  the activation, each of which is empty while the run is still at its prompt.
  `ToolsRunWhatWasValidated` and `PermitsAreOfTheStartedNode` add what a permit
  keeps of the turn and of the arguments it was issued for.
- `SealedRun_proofs`: `OneRunPerEntry` and `ManagersSucceed`. The first needs
  that a grant in a task's context is its own only while its innermost block is
  the iter that minted it (`GrantOK`), which in turn needs what every block
  will put back (`StackOK`). The second needs only that a manager is registered
  once and assigned after its predecessor.
  The same module has `ContextsFollowTheStack` and
  `NodesStartOnTheSealedPath`. Restoring a variable on the way out is right
  only if every block saved the value of the next one outwards, so `ContextInv`
  says of all of them what the property says of the innermost (`Linked`), and
  that none but the innermost waits for its base run. A node's driver is then
  inside a step of its own, since no task inherits a transition that it drives
  itself (`InheritedOK`), and its node was put there by a transition, since
  steps begin from the stamp (`PlacedOK`).
- `AuthorityPolicy_proofs`: every property of `authority_policy`. `PolicyInv`
  keeps, through edits of the registry, of its order and of the policy, what
  the binding of a set says of the registry it was built from (`SourceOK`) and
  that a bundle was frozen from a set that its own tools accept (`BundleOK`).
  That the two copies of the derivation agree (`CopiesAgree`) makes an unedited
  set freeze; the rest is what freezing refuses to take from an edited one:
  a risk or a branch other than derived, a lock it did not put in the review
  queue, a confirmation that is missing.
- `AuthorityReview_proofs`: `NothingWidens` and `ProtectionStays`, for every
  chain of merges. `AdmittedBy` puts what a version admits in the sets the
  property compares. One proposal that merges by itself shrinks every one of
  them: the diff's classification of a field is an increase as soon as its
  old set does not contain the new one, an unknown field is for review, and
  review stops a proposal. Containment is transitive, so the chain from the
  last version a person took shrinks too, which is the inductive invariant
  `ReviewInv`. For `ProtectionIsOneWay`, a change that only protects is an
  increase when it is undone.
  `ScannedReportsAreValid` says that the two copies of the rules agree:
  whatever the scanner reports of a document, the validator derives again from
  the report alone. It follows the code's own division, one lemma for each
  check of the validator, a row of an argument (`ArgumentFits`), a tool without
  and with branches (`UnbranchedRow`, `BranchRow`), hints, declared controls
  and cardinalities. Two of them are not local. The names of a report are those
  the scanner read, in its order, so that both spend one budget alike
  (`RegistryNames`, `ReportNames`); and a tool's name that the shared budget
  could pay for is also read when it is the only one (`ToolReadAlone`), which
  is an induction over the names read before it (`WorkSpends`).

Assumptions: `BundleAssumption` (what freezing guarantees: among it that a
risky tool asks for confirmation), `RunnerAssumption` (finitely many calls, null
values outside the sets they extend), `TextAssumption` (a document of the ledger
is finite and has a leaf), `SkeletonAssumption`, `ApprovalsAssumption`,
`RunsAssumption`, `SealedRunAssumption` (null values, ranges of the constants,
managers of one run), `PolicyAssumption` and `ReviewAssumption` (registries and
exports have the shapes that reading them guarantees: definitions and arguments
in order, limits that are numbers, and nothing equal to the value that stands
for its absence). TLC evaluates them in
every run. `BudgetIsKept` assumes besides that the ids are finitely many, as its
cardinality needs.

Only model-checked:

- the liveness properties `CallsFinish` and `ThreadsFinish`: they need fairness
  and ENABLED, which the provers do not take;
- the two violations of section 4, which are counterexamples.

The library's induction theorems take an operator as a parameter and cannot be
instantiated here. Where a proof needs an induction it is stated for a set and
rests on the well-foundedness of the natural numbers (`SetInduction`): for the
sums of the ledger, and for the budget of names and the concatenation of a
document's names. What the other folds compute (the sums of a scan's budgets)
is used only as equal sums of equal terms.

## 6. Limits of the models

Values have no structure in the gate and the runner: a nested container is one
value, and the ledger's answer for it is membership in `tainted`. Budgets for
snapshots and Unicode work appear as calls that are not `plain` or as denials,
not as counters. The lookup budget that the arguments of one dispatch share is
modelled in `ProvenanceLedger` for one value only: in the gate and the runner a
call that is denied because its arguments together exhaust that budget is left
out. It is one more refusal, with the outcome and the end of the others.
`Fail` stands for every way an entered call can end without a recorded result.
Python's asynchronous exceptions between two bytecodes are not modelled. A
drift source is either as frozen or changed; which function of it changed is
not represented.

In the policy, the evidence of a name is a constant: tokenising and the word
tables are not modelled, only which table decides first. `TrustedResolver` is
not modelled: it is a lookup in an immutable catalogue and keeps no state.

`OncePerTurn` is about one turn of a node, not about one run, because the code
claims no more: a node that is left and started again, which takes trusted code
that sets the next node inside a live transition, has its calls permitted
afresh. Until a run's first node has started nobody can set its next node, so
`Advance` asks for a started node.

In the adapter, `prepare_tools` is not modelled, since it compares tool
definitions with the registry and keeps nothing. Registrations do not change
within a session, so a commitment leaves them out. Consuming the ambient run
binding and the entry points that only raise (`run_stream` and its kind) are
not modelled. In `SealedRun` the await inside the session getter is not split
from the stage it belongs to, the edits reach the dependencies and the run
(`Changeable`), and nothing drives a closed run, which is the framework's own
check.

In the scanner and the diff, reading JSON text with its byte and depth budgets,
redacted names, report versions before the current one, wording, escaping and
rendering are not modelled. Fingerprints are the values they are taken of.
