--------------------------- MODULE PydanticRuns ---------------------------
(***************************************************************************)
(* Agent runs of the Pydantic AI adapter over one session: the hooks of    *)
(* VerbAuthorityCapability, split where they await or let a lock go.       *)
(*                                                                         *)
(* A run walks the nodes of its graph: a user prompt, which may carry the  *)
(* approvals of an earlier run; then model requests and call-tools nodes.  *)
(* Whoever holds a live transition of the run chooses the next node, and   *)
(* it may be one the run has been at before.  An application may start     *)
(* several runs over one session, each with the message history and the    *)
(* answers it chooses.  A task is one activation of the validate and       *)
(* execute hooks for a call of a node; a call may meet several, as when a  *)
(* callback replays it.                                                    *)
(*                                                                         *)
(* The framework is free to start a node again, to repeat a hook, and to   *)
(* pass it other arguments or another approval flag.                       *)
(***************************************************************************)
EXTENDS PendingApprovals

CONSTANTS
  Runs,
  Attempts,      \* activations of the hooks for one call of a node
  RawCalls,      \* tool and arguments as the model writes them
  Selectors,
  SelectorOf,    \* the selector of each raw call, presence and type included
  Coercions,     \* what Pydantic's validation may make of a raw call
  Prepared,      \* prepare_call: the canonical call, or Unresolved
  Risky,         \* the canonical calls that need a confirmation
  Nodes,         \* the node objects a run can meet
  KindOf,        \* the type of each
  FirstNode,     \* the user prompt a run begins with
  NoNode,
  MaxTurns,      \* bound on the turns of a run
  MaxVersion,    \* bound on the ledger's version
  NoCall,
  Unresolved

ASSUME RunsAssumption ==
  /\ Coercions \in [RawCalls -> SUBSET RawCalls]
  /\ SelectorOf \in [RawCalls -> Selectors]
  /\ Prepared \in [RawCalls -> Calls \cup {Unresolved}]
  /\ Unresolved \notin Calls
  /\ NoCall \notin RawCalls
  /\ Risky \subseteq Calls
  /\ KindOf \in [Nodes -> {"prompt", "request", "calls"}]
  /\ FirstNode \in Nodes
  /\ KindOf[FirstNode] = "prompt"
  /\ NoNode \notin Nodes
  /\ MaxTurns \in Nat
  /\ MaxVersion \in Nat

Tasks == Runs \X Ids \X Attempts
RunOf(t) == t[1]
IdOf(t) == t[2]

Turns == 0..MaxTurns

Answers == {"none", "yes", "no"}
NoAnswers == [i \in Ids |-> "none"]
Normalized == {"none", "approved", "denied", "skip", "foreign"}
NoResults == [i \in Ids |-> "none"]

VARIABLES
  node,       \* each run's current node
  started,    \* the last node that was started: started_node
  phase,      \* how far before_node_run and the request hooks are
  marker,     \* the resume marker: the raw answers of this run
  nodeCalls,  \* the calls of the current call-tools node
  results,    \* its tool_call_results, normalized by Pydantic
  permits,    \* execution_permits
  seen,       \* pending ids, read before the messages are searched
  task,       \* the hooks' activations
  version,    \* the ledger's version
  turn,       \* history: how often a run started another node than before
  meant,      \* history: the approval each "yes" of its prompt was about
  shown,      \* history: the approvals users were asked for
  proposals,  \* history: approvals asked for by calls that had none
  used,       \* history: approvals taken
  entries     \* history: implementations entered, by run, turn and call

graph == <<node, started, phase, turn>>
resume == <<marker, nodeCalls, results, seen, meant>>
history == <<shown, proposals, used, entries>>
vars == <<pending, graph, resume, permits, task, version, history>>

\* the turn a permit was made in is history too
Permits ==
  [turn : Turns, id : Ids, raw : RawCalls, approved : BOOLEAN,
   commitment : Approvals \cup {NoApproval},
   validated : RawCalls \cup {NoCall}]

\* in the worker thread, before and inside the tool
ThreadStages == {"running", "confirming", "confirmed", "inside"}
Finished == {"executed", "asked", "failed"}
Stages == {"idle", "validating", "consumed"} \cup ThreadStages \cup Finished

Activations ==
  [stage : Stages, permit : Permits \cup {NoCall},
   args : RawCalls \cup {NoCall}, approved : BOOLEAN,
   request : Approvals \cup {NoApproval}]

Idle == [stage |-> "idle", permit |-> NoCall, args |-> NoCall,
         approved |-> FALSE, request |-> NoApproval]

RunInit ==
  /\ Init
  /\ node = [r \in Runs |-> FirstNode]
  /\ started = [r \in Runs |-> NoNode]
  /\ turn = [r \in Runs |-> 0]
  /\ phase = [r \in Runs |-> "ready"]
  /\ marker = [r \in Runs |-> NoAnswers]
  /\ nodeCalls = [r \in Runs |-> [i \in Ids |-> NoCall]]
  /\ results = [r \in Runs |-> NoResults]
  /\ permits = [r \in Runs |-> {}]
  /\ seen = [r \in Runs |-> {}]
  /\ task = [t \in Tasks |-> Idle]
  /\ version = 0
  /\ meant = [r \in Runs |-> [i \in Ids |-> NoApproval]]
  /\ shown = [i \in Ids |-> {}]
  /\ proposals = [i \in Ids |-> 0]
  /\ used = [i \in Ids |-> 0]
  /\ entries = [e \in Runs \X Turns \X Ids |-> 0]

---------------------------------------------------------------------------
\* a permit of this run for this call, as _run_execution_permit finds it
PermitsFor(t) == {p \in permits[RunOf(t)] : p.id = IdOf(t)}

\* the current node of the run is one of this type
IsAt(r, k) == KindOf[node[r]] = k

\* defect: the node that was started last starts again
MayClaimAgain(r) == phase[r] # "ended" /\ turn[r] < MaxTurns

\* _claim_run_node_start: not the node that was started last
MayClaim(r) ==
  /\ phase[r] # "ended"
  /\ started[r] # node[r]
  /\ turn[r] < MaxTurns

\* what a start adds to the history: it is a turn if the node is another one
CountTurn(r) ==
  turn' = [turn EXCEPT ![r] = IF started[r] = node[r] THEN @ ELSE @ + 1]

\* defect: the permits of the node before stay
ClaimOnly(r, p) ==
  /\ started' = [started EXCEPT ![r] = node[r]]
  /\ phase' = [phase EXCEPT ![r] = p]
  /\ CountTurn(r)
  /\ UNCHANGED <<node, permits>>

Claim(r, p) ==
  /\ started' = [started EXCEPT ![r] = node[r]]
  /\ phase' = [phase EXCEPT ![r] = p]
  /\ permits' = [permits EXCEPT ![r] = {}]
  /\ CountTurn(r)
  /\ UNCHANGED node

\* a check that fails raises and ends the run, whatever the phase; or the
\* application gives the run up.  Its permits stay on the sealed root, and a
\* worker thread goes on by itself.
Abandon(r) ==
  /\ phase[r] # "ended"
  /\ phase' = [phase EXCEPT ![r] = "ended"]
  /\ marker' = [marker EXCEPT ![r] = NoAnswers]
  /\ nodeCalls' = [nodeCalls EXCEPT ![r] = [i \in Ids |-> NoCall]]
  /\ results' = [results EXCEPT ![r] = NoResults]
  /\ seen' = [seen EXCEPT ![r] = {}]
  /\ UNCHANGED <<pending, node, started, turn, meant, permits, task, version,
                 history>>

\* the graph advances, or is told its next node while a transition is live:
\* any node, the one it is at and those it left included.  A hook that was
\* started by a copied context may still be running.  Activations that ended
\* are free.
Advance(r, n) ==
  /\ phase[r] \in {"ready", "open"}
  /\ started[r] # NoNode
  /\ turn[r] < MaxTurns
  /\ node' = [node EXCEPT ![r] = n]
  /\ phase' = [phase EXCEPT ![r] = "ready"]
  /\ task' = [t \in Tasks |->
       IF RunOf(t) = r /\ task[t].stage \in Finished THEN Idle ELSE task[t]]
  /\ UNCHANGED <<pending, started, turn, resume, permits, version, history>>

---------------------------------------------------------------------------
\* before_node_run of a user prompt.  answers are the raw booleans of
\* deferred_tool_results, if any; each answers an approval that was shown.
\* _validate_deferred_results accepts only ids that are pending now.
StartPrompt(r, answers, about) ==
  /\ IsAt(r, "prompt")
  /\ MayClaim(r)
  /\ \A i \in Ids :
       /\ answers[i] # "none" => i \in PendingIds
       /\ IF answers[i] = "yes" THEN about[i] \in shown[i]
                              ELSE about[i] = NoApproval
  /\ Claim(r, "open")
  /\ marker' = [marker EXCEPT ![r] = answers]
  /\ meant' = [meant EXCEPT ![r] =
       [i \in Ids |-> IF about[i] = NoApproval THEN @[i] ELSE about[i]]]
  /\ UNCHANGED <<pending, nodeCalls, results, seen, task, version, history>>

Answered(res) ==
  [i \in Ids |-> CASE res[i] = "approved" -> "yes"
                   [] res[i] = "denied" -> "no"
                   [] OTHER -> "none"]

\* defect: results are accepted whether the user was asked or not
ResumeFitsAnyAnswers(r, calls, res, settled) ==
  /\ res # NoResults
  /\ \A i \in Ids : res[i] # "none" => calls[i] # NoCall
  /\ \A i \in Ids : res[i] \in {"approved", "denied"} => i \in PendingIds
  /\ \A i \in Ids : res[i] = "skip" => i \notin PendingIds /\ i \in settled
  /\ \A i \in Ids : res[i] # "foreign"

\* _validate_resumed_call_results: Pydantic's normalized results are exactly
\* the answers that were validated, and ids that are settled in the messages
ResumeFits(r, calls, res, settled) ==
  /\ ResumeFitsAnyAnswers(r, calls, res, settled)
  /\ Answered(res) = marker[r]

\* before_node_run of a call-tools node, up to the permits: the calls of the
\* model response, and the results of a resume, for which the answers of this
\* run are used up.  Without results no answer may be left over.
StartCalls(r, calls, res, settled) ==
  /\ IsAt(r, "calls")
  /\ MayClaim(r)
  /\ IF res = NoResults THEN marker[r] = NoAnswers
                        ELSE ResumeFits(r, calls, res, settled)
  /\ Claim(r, "minting")
  /\ marker' = [marker EXCEPT ![r] = NoAnswers]
  /\ nodeCalls' = [nodeCalls EXCEPT ![r] = calls]
  /\ results' = [results EXCEPT ![r] = res]
  /\ UNCHANGED <<pending, meant, seen, task, version, history>>

Permit(r, i) ==
  LET approved == results[r][i] = "approved" IN
  [turn |-> turn[r], id |-> i, raw |-> nodeCalls[r][i], approved |-> approved,
   commitment |-> IF approved THEN pending[i] ELSE NoApproval,
   validated |-> NoCall]

\* in a resume only the approved calls may run
MayRun(r) ==
  {i \in Ids : /\ nodeCalls[r][i] # NoCall
               /\ results[r] # NoResults => results[r][i] = "approved"}

\* the permits, under the pending lock: an approved call must still be
\* pending, and its permit is bound to what is pending now
MintPermits(r) ==
  /\ phase[r] = "minting"
  /\ \A i \in MayRun(r) : results[r][i] = "approved" => i \in PendingIds
  /\ permits' = [permits EXCEPT ![r] = {Permit(r, i) : i \in MayRun(r)}]
  /\ phase' = [phase EXCEPT ![r] = "open"]
  /\ nodeCalls' = [nodeCalls EXCEPT ![r] = [i \in Ids |-> NoCall]]
  /\ results' = [results EXCEPT ![r] = NoResults]
  /\ UNCHANGED <<pending, node, started, turn, marker, meant, seen, task,
                 version, history>>

---------------------------------------------------------------------------
\* before_node_run of a model request, and _reconcile_pending_results of
\* before_model_request: the pending ids are read, the lock is let go
StartRequest(r) ==
  /\ IsAt(r, "request")
  /\ MayClaim(r)
  /\ Claim(r, "before_model")
  /\ seen' = [seen EXCEPT ![r] = PendingIds]
  /\ UNCHANGED <<pending, marker, nodeCalls, results, meant, task, version,
                 history>>

\* the messages were searched: outcome[i] is "denied" if every result found
\* for i is a denial, "other" if there is a retry or another result.
\* Nothing is searched, and nothing refused, if nothing was pending.
Reconcile(r, outcome) ==
  /\ phase[r] \in {"before_model", "wrap_model"}
  /\ ~ResultForPending(seen[r], outcome)
  /\ ReleaseDenied(seen[r], outcome)
  /\ IF phase[r] = "before_model"
     THEN /\ phase' = [phase EXCEPT ![r] = "between"]
          /\ seen' = [seen EXCEPT ![r] = {}]
     ELSE /\ phase' = [phase EXCEPT ![r] = "open"]
          /\ seen' = [seen EXCEPT ![r] = {}]
  /\ UNCHANGED <<node, started, turn, marker, nodeCalls, results, meant,
                 permits, task, version, history>>

\* wrap_model_request reconciles again
ReadAgain(r) ==
  /\ phase[r] = "between"
  /\ phase' = [phase EXCEPT ![r] = "wrap_model"]
  /\ seen' = [seen EXCEPT ![r] = PendingIds]
  /\ UNCHANGED <<pending, node, started, turn, marker, nodeCalls, results,
                 meant, permits, task, version, history>>

\* the application discards an approval
DiscardApproval(i) ==
  /\ Discard(i)
  /\ UNCHANGED <<graph, resume, permits, task, version, history>>

---------------------------------------------------------------------------
Goto(t, s) == task' = [task EXCEPT ![t].stage = s]
Reset(t) == task' = [task EXCEPT ![t] = Idle]

\* wrap_tool_validate, up to the await: the call has a permit, with these raw
\* arguments and this approval flag.  A hook that fails before an await
\* changes nothing.
ValidateBegin(t, raw, flag) ==
  /\ task[t] = Idle
  /\ \E p \in PermitsFor(t) :
       /\ p.approved = flag
       /\ p.raw = raw
       /\ task' = [task EXCEPT ![t].stage = "validating", ![t].permit = p]
  /\ UNCHANGED <<pending, graph, resume, permits, version, history>>

\* defect: the validated arguments replace those of an earlier validation
MarkAny(p, validated, ps) ==
  {q \in ps : q.id # p.id \/ q.turn # p.turn}
    \cup {[p EXCEPT !.validated = validated]}

\* _mark_run_execution_permit_validated: the permit must still be there as
\* it was read, and not validated before
Mark(p, validated, ps) ==
  IF p \in ps /\ p.validated = NoCall
  THEN (ps \ {p}) \cup {[p EXCEPT !.validated = validated]}
  ELSE ps

SelectorKept(raw, validated) == SelectorOf[validated] = SelectorOf[raw]

\* after the await
ValidateEnd(t, validated) ==
  /\ task[t].stage = "validating"
  /\ validated \in Coercions[task[t].permit.raw]
  /\ SelectorKept(task[t].permit.raw, validated)
  /\ permits' = [permits EXCEPT
       ![RunOf(t)] = Mark(task[t].permit, validated, @)]
  /\ Reset(t)
  /\ UNCHANGED <<pending, graph, resume, version, history>>

ValidateFail(t) ==
  /\ task[t].stage = "validating"
  /\ Reset(t)
  /\ UNCHANGED <<pending, graph, resume, permits, version, history>>

\* defect: a permit stays until its node is over
KeepPermit(ps, p) == ps

ConsumePermit(ps, p) == ps \ {p}

\* defect: the arguments passed to execution are believed
ExecutableWithAnyArgs(p, args, flag) ==
  /\ p.validated # NoCall
  /\ p.approved = flag
  /\ p.approved => pending[p.id] = p.commitment

\* the permit was validated, with these arguments, and is approved exactly if
\* the framework says so; what it was approved as is still pending
Executable(p, args, flag) ==
  /\ p.validated = args
  /\ p.approved = flag
  /\ p.approved => pending[p.id] = p.commitment

\* wrap_tool_execute, up to the consumption of the permit
ExecuteBegin(t, args, flag) ==
  /\ task[t] = Idle
  /\ \E p \in PermitsFor(t) :
       /\ Executable(p, args, flag)
       /\ permits' = [permits EXCEPT ![RunOf(t)] = ConsumePermit(@, p)]
       /\ task' = [task EXCEPT ![t] =
            [stage |-> "consumed", permit |-> p, args |-> args,
             approved |-> flag, request |-> NoApproval]]
  /\ UNCHANGED <<pending, graph, resume, version, history>>

\* prepare_call; then an approved call must be pending as its permit says and
\* be the call that was approved, or the approval is dropped
Prepare(t) ==
  LET p == task[t].permit
      call == Prepared[task[t].args]
      fits == /\ pending[p.id] = p.commitment
              /\ MatchesCall(pending[p.id], call)
  IN
  /\ task[t].stage = "consumed"
  /\ IF call = Unresolved
     THEN Goto(t, "failed") /\ UNCHANGED pending
     ELSE IF p.approved /\ ~fits
     THEN Goto(t, "failed") /\ Put(p.id, NoApproval)
     ELSE Goto(t, "running") /\ UNCHANGED pending
  /\ UNCHANGED <<graph, resume, permits, version, history>>

---------------------------------------------------------------------------
\* GuardedToolRunner.run in the worker thread

CallOf(t) == Prepared[task[t].args]
LockIsFree == \A t \in Tasks : task[t].stage # "inside"

EnterTool(t) ==
  /\ Goto(t, "inside")
  /\ entries' = [entries EXCEPT
       ![<<RunOf(t), task[t].permit.turn, IdOf(t)>>] = @ + 1]
  /\ UNCHANGED <<shown, proposals, used>>

\* the call is allowed: it asks first, or runs at once
Dispatch(t) ==
  /\ task[t].stage = "running"
  /\ LockIsFree
  /\ IF CallOf(t) \in Risky
     THEN /\ task' = [task EXCEPT ![t].stage = "confirming",
                ![t].request = [call |-> CallOf(t), version |-> version]]
          /\ UNCHANGED history
     ELSE EnterTool(t)
  /\ UNCHANGED <<pending, graph, resume, permits, version>>

\* the gate, the drift check or the revalidation denies it
Refuse(t) ==
  /\ task[t].stage \in {"running", "confirmed"}
  /\ LockIsFree
  /\ Goto(t, "failed")
  /\ UNCHANGED <<pending, graph, resume, permits, version, history>>

\* the callback, under the pending lock
ConfirmTake(t) ==
  LET i == IdOf(t) IN
  /\ task[t].stage = "confirming"
  /\ CanTake(i, task[t].request, task[t].approved)
  /\ Take(i)
  /\ Goto(t, "confirmed")
  /\ used' = [used EXCEPT ![i] = @ + 1]
  /\ UNCHANGED <<graph, resume, permits, version, shown, proposals, entries>>

\* defect: a call waits until the session has room for its request
ConfirmRaiseWhenUsed(t) ==
  /\ task[t].stage = "confirming"
  /\ CannotAsk(IdOf(t), task[t].approved)
  /\ task[t].approved
  /\ Goto(t, "failed")
  /\ UNCHANGED <<pending, graph, resume, permits, version, history>>

ConfirmRaise(t) ==
  /\ task[t].stage = "confirming"
  /\ CannotAsk(IdOf(t), task[t].approved)
  /\ Goto(t, "failed")
  /\ UNCHANGED <<pending, graph, resume, permits, version, history>>

\* ApprovalRequired: the user is shown the request
ConfirmAsk(t) ==
  LET i == IdOf(t) IN
  /\ task[t].stage = "confirming"
  /\ ~CanTake(i, task[t].request, task[t].approved)
  /\ ~CannotAsk(i, task[t].approved)
  /\ Ask(i, task[t].request)
  /\ Goto(t, "asked")
  /\ shown' = [shown EXCEPT ![i] = @ \cup {task[t].request}]
  /\ proposals' = [proposals EXCEPT ![i] =
       IF pending[i] = NoApproval /\ ~task[t].approved THEN @ + 1 ELSE @]
  /\ UNCHANGED <<graph, resume, permits, version, used, entries>>

Revalidate(t) ==
  IF task[t].request.version = version
  THEN EnterTool(t)
  ELSE Goto(t, "failed") /\ UNCHANGED history

\* the second `with` block of run()
EnterConfirmed(t) ==
  /\ task[t].stage = "confirmed"
  /\ LockIsFree
  /\ Revalidate(t)
  /\ UNCHANGED <<pending, graph, resume, permits, version>>

\* the result is recorded, which opens a new epoch
Publish(t) ==
  /\ task[t].stage = "inside"
  /\ version < MaxVersion
  /\ version' = version + 1
  /\ Goto(t, "executed")
  /\ UNCHANGED <<pending, graph, resume, permits, history>>

\* the tool raises: nothing is recorded
FailInside(t) ==
  /\ task[t].stage = "inside"
  /\ Goto(t, "failed")
  /\ UNCHANGED <<pending, graph, resume, permits, version, history>>

\* another user of the session's ledger records a result
RecordElsewhere ==
  /\ LockIsFree
  /\ version < MaxVersion
  /\ version' = version + 1
  /\ UNCHANGED <<pending, graph, resume, permits, task, history>>

---------------------------------------------------------------------------
ThreadStep(t) ==
  \/ Dispatch(t) \/ Refuse(t)
  \/ ConfirmTake(t) \/ ConfirmRaise(t) \/ ConfirmAsk(t)
  \/ EnterConfirmed(t) \/ Publish(t) \/ FailInside(t)

HookStep(t) ==
  \/ \E c \in RawCalls, b \in BOOLEAN :
       ValidateBegin(t, c, b) \/ ExecuteBegin(t, c, b)
  \/ \E c \in RawCalls : ValidateEnd(t, c)
  \/ ValidateFail(t) \/ Prepare(t)

RunStep(r) ==
  \/ Abandon(r) \/ MintPermits(r) \/ StartRequest(r) \/ ReadAgain(r)
  \/ \E n \in Nodes : Advance(r, n)
  \/ \E o \in [Ids -> {"none", "denied", "other"}] : Reconcile(r, o)
  \/ \E a \in [Ids -> Answers], m \in [Ids -> {NoApproval} \cup UNION {shown[i] : i \in Ids}] :
       StartPrompt(r, a, m)
  \/ \E c \in [Ids -> RawCalls \cup {NoCall}], o \in [Ids -> Normalized],
        s \in SUBSET Ids : StartCalls(r, c, o, s)

Next ==
  \/ \E r \in Runs : RunStep(r)
  \/ \E t \in Tasks : HookStep(t) \/ ThreadStep(t)
  \/ \E i \in Ids : DiscardApproval(i)
  \/ RecordElsewhere

Spec == RunInit /\ [][Next]_vars

\* a worker thread goes on, and a tool returns or raises; nothing is assumed
\* of the framework, the application or the user
FairSpec == Spec /\ \A t \in Tasks : WF_vars(ThreadStep(t))

---------------------------------------------------------------------------
\* the types of the variables
TypeOK ==
  /\ pending \in [Ids -> Approvals \cup {NoApproval}]
  /\ node \in [Runs -> Nodes]
  /\ started \in [Runs -> Nodes \cup {NoNode}]
  /\ turn \in [Runs -> Turns]
  /\ phase \in [Runs -> {"ready", "minting", "before_model", "between",
                         "wrap_model", "open", "ended"}]
  /\ marker \in [Runs -> [Ids -> Answers]]
  /\ nodeCalls \in [Runs -> [Ids -> RawCalls \cup {NoCall}]]
  /\ results \in [Runs -> [Ids -> Normalized]]
  /\ permits \in [Runs -> SUBSET Permits]
  /\ seen \in [Runs -> SUBSET Ids]
  /\ task \in [Tasks -> Activations]
  /\ version \in 0..MaxVersion
  /\ meant \in [Runs -> [Ids -> Approvals \cup {NoApproval}]]
  /\ shown \in [Ids -> SUBSET Approvals]
  /\ proposals \in [Ids -> Nat]
  /\ used \in [Ids -> Nat]
  /\ entries \in [Runs \X Turns \X Ids -> Nat]

\* However many resumes race with however many copies of an answer, an id's
\* approval is used at most once for each time an unapproved call asked for
\* it: a resume that loses neither runs nor puts the approval back.
ApprovalsAreConserved ==
  \A i \in Ids :
    used[i] + (IF pending[i] = NoApproval THEN 0 ELSE 1) <= proposals[i]

\* A call that needs approval is inside its tool only as the action that was
\* put before the user: by an approved call, with the arguments that were
\* shown, under the ledger version they were shown with.
EntersAsShown ==
  \A t \in Tasks :
    task[t].stage = "inside" /\ CallOf(t) \in Risky =>
      /\ task[t].permit.approved
      /\ task[t].request \in shown[IdOf(t)]
      /\ task[t].request = [call |-> CallOf(t), version |-> version]

\* A call runs as approved only in a run whose own prompt brought a "yes" for
\* its id: nothing the framework puts into a call-tools node stands in for it.
OnlyYesRuns ==
  \A t \in Tasks :
    task[t].stage = "inside" /\ task[t].permit.approved =>
      meant[RunOf(t)][IdOf(t)] # NoApproval

\* From the start of a node until another node starts, a call of it runs at
\* most once: no repeated hook runs it again, no thread left over from an
\* earlier turn, and no way back to the node it is at.
OncePerTurn ==
  \A e \in Runs \X Turns \X Ids : entries[e] <= 1

\* A tool runs the arguments Pydantic validated, which come from the model's
\* for that very call and kept its selector.
RunsWhatWasValidated ==
  \A t \in Tasks :
    task[t].stage \in ThreadStages =>
      LET raw == task[t].permit.raw IN
      /\ task[t].args \in Coercions[raw]
      /\ SelectorOf[task[t].args] = SelectorOf[raw]
      /\ task[t].args = task[t].permit.validated

\* the session never holds more approvals than its budget
PendingWithinBudget == Cardinality(PendingIds) <= MaxPending

\* No hook starts a call of a node that is over, though the run be back at
\* it: the permits a run holds are those of the start it made last.
OnlyTheStartedNodeRuns ==
  \A r \in Runs, p \in UNION {permits[q] : q \in Runs} :
    p \in permits[r] => p.turn = turn[r]

\* A permit's validated arguments are set once: two validations of a call
\* that overlap cannot leave the second one's arguments to be executed.
ValidatedOnce ==
  [][\A r \in Runs : \A p \in permits[r] : \A q \in permits'[r] :
       /\ q.turn = p.turn
       /\ q.id = p.id
       /\ p.validated # NoCall
       => q.validated = p.validated]_vars

\* A call that reached the worker thread ends there: executed, failed, or
\* asking for an approval.
ThreadsFinish ==
  \A t \in Tasks :
    task[t].stage \in ThreadStages ~> task[t].stage \notin ThreadStages

\* docs/runtime-gate.md:544-547: approval is accepted only for the exact prior
\* action commitment, and a changed amount does not execute under the old
\* approval.  What runs is what the user who answered was shown.
ApprovalNamesItsAction ==
  \A t \in Tasks :
    task[t].stage = "inside" /\ CallOf(t) \in Risky =>
      task[t].request = meant[RunOf(t)][IdOf(t)]
=============================================================================
