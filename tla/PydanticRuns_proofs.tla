------------------------ MODULE PydanticRuns_proofs ------------------------
(***************************************************************************)
(* What the hooks of the Pydantic AI adapter keep, for every number of     *)
(* runs, calls, repeated hooks and nodes: approvals are used once and for  *)
(* what was shown, permits run a call once with the arguments that were    *)
(* validated, and approved calls were answered in their own run.           *)
(***************************************************************************)
EXTENDS PydanticRuns, FiniteSetTheorems, TLAPS

---------------------------------------------------------------------------
\* past a permit, up to the end of the tool
InFlight == {"consumed"} \cup ThreadStages

\* what is pending was shown, and every approval asked for by a call that had
\* none is pending, was taken once, or is gone
ApprovalOK(i) ==
  /\ pending[i] # NoApproval => pending[i] \in shown[i]
  /\ used[i] + (IF pending[i] = NoApproval THEN 0 ELSE 1) <= proposals[i]

\* a permit's validated arguments come from the model's
PermitOK(p) ==
  p.validated # NoCall =>
    /\ p.validated \in Coercions[p.raw]
    /\ SelectorOf[p.validated] = SelectorOf[p.raw]

\* an activation that consumed a permit has its arguments and its flag; past
\* prepare_call its call exists; once confirmed it is what was shown, and
\* inside the tool it is so under the version of now
FlightOK(t) ==
  /\ task[t].stage \in InFlight =>
       /\ task[t].permit \in Permits
       /\ task[t].permit.id = IdOf(t)
       /\ PermitOK(task[t].permit)
       /\ task[t].args \in RawCalls
       /\ task[t].args = task[t].permit.validated
       /\ task[t].approved = task[t].permit.approved
  /\ task[t].stage \in ThreadStages => CallOf(t) \in Calls
  /\ task[t].stage \in {"confirming", "confirmed"} =>
       /\ task[t].request \in Approvals
       /\ task[t].request.call = CallOf(t)
  /\ task[t].stage = "confirmed" =>
       /\ task[t].permit.approved
       /\ task[t].request \in shown[IdOf(t)]
  /\ task[t].stage = "inside" /\ CallOf(t) \in Risky =>
       /\ task[t].permit.approved
       /\ task[t].request \in shown[IdOf(t)]
       /\ task[t].request = [call |-> CallOf(t), version |-> version]

\* the runner's lock: one call at a time is inside
InsideOK ==
  \A t, u \in Tasks :
    task[t].stage = "inside" /\ task[u].stage = "inside" => t = u

ApprovalInv ==
  /\ TypeOK
  /\ \A i \in Ids : ApprovalOK(i)
  /\ \A r \in Runs : \A p \in permits[r] : PermitOK(p)
  /\ \A t \in Tasks : FlightOK(t)
  /\ InsideOK

Entries(r, n, i) == entries[<<r, n, i>>]
HoldsCall(t, r, n, i) ==
  /\ RunOf(t) = r
  /\ IdOf(t) = i
  /\ task[t].stage \in InFlight
  /\ task[t].permit.turn = n

\* nobody has run, or is running, a call in a turn without permits so far
FreshOK(r, n, i) ==
  n > turn[r] \/ (n = turn[r] /\ phase[r] = "minting") =>
    /\ Entries(r, n, i) = 0
    /\ \A t \in Tasks : ~HoldsCall(t, r, n, i)

\* a permit is for a call of the last turn that has not run in it, and the
\* only one for it
PermitsOK(r) ==
  /\ phase[r] = "minting" => permits[r] = {}
  /\ \A p \in permits[r] :
       /\ p.turn = turn[r]
       /\ Entries(r, p.turn, p.id) = 0
       /\ \A t \in Tasks : ~HoldsCall(t, r, p.turn, p.id)
  /\ \A p, q \in permits[r] : p.id = q.id => p = q

\* so is a consumed one, until its call is inside
HeldOK(t) ==
  task[t].stage \in InFlight =>
    /\ task[t].stage # "inside" =>
         Entries(RunOf(t), task[t].permit.turn, IdOf(t)) = 0
    /\ \A u \in Tasks :
         HoldsCall(u, RunOf(t), task[t].permit.turn, IdOf(t)) => u = t

OnceInv ==
  /\ \A r \in Runs, n \in Turns, i \in Ids : FreshOK(r, n, i)
  /\ \A r \in Runs : PermitsOK(r)
  /\ \A t \in Tasks : HeldOK(t)
  /\ OncePerTurn

\* an approved call has been answered in this run's prompt
YesOK(r) ==
  /\ \A i \in Ids :
       /\ marker[r][i] = "yes" => meant[r][i] # NoApproval
       /\ results[r][i] = "approved" => meant[r][i] # NoApproval
  /\ \A p \in permits[r] : p.approved => meant[r][p.id] # NoApproval
  /\ \A t \in Tasks :
       /\ RunOf(t) = r
       /\ task[t].stage \in InFlight
       /\ task[t].permit.approved
       => meant[r][IdOf(t)] # NoApproval

AnswerInv == \A r \in Runs : YesOK(r)

---------------------------------------------------------------------------
(* The types. *)

Assumptions == ApprovalsAssumption /\ RunsAssumption

(* A step of a hook or of a worker thread moves one activation on.         *)
LEMMA MovedTask ==
  ASSUME NEW t \in Tasks, NEW s \in Stages, task \in [Tasks -> Activations]
  PROVE  /\ [task EXCEPT ![t].stage = s] \in [Tasks -> Activations]
         /\ [task EXCEPT ![t].stage = s][t] = [task[t] EXCEPT !.stage = s]
         /\ \A u \in Tasks \ {t} : [task EXCEPT ![t].stage = s][u] = task[u]
<1>1. task[t] \in Activations
  OBVIOUS
<1>2. [task[t] EXCEPT !.stage = s] \in Activations
  BY <1>1 DEF Activations
<1> QED BY <1>2

(* Counting one more keeps a function of counts one.                       *)
LEMMA Counted ==
  ASSUME NEW X, NEW f \in [X -> Nat], NEW k
  PROVE  [f EXCEPT ![k] = f[k] + 1] \in [X -> Nat]
<1>1. ASSUME NEW x \in X PROVE [f EXCEPT ![k] = f[k] + 1][x] \in Nat
  BY <1>1
<1> QED BY <1>1

(* An activation that has not begun has the type of one.                   *)
LEMMA IdleIsActivation == Idle \in Activations
  BY DEF Idle, Activations, Stages

(* The initial state is typed.                                             *)
LEMMA TypeInit ==
  ASSUME RunInit, Assumptions
  PROVE  TypeOK
<1> USE DEF Assumptions, RunsAssumption
<1>1. /\ pending \in [Ids -> Approvals \cup {NoApproval}]
      /\ task \in [Tasks -> Activations]
  BY IdleIsActivation DEF RunInit, Init
<1>2. /\ node \in [Runs -> Nodes]
      /\ started \in [Runs -> Nodes \cup {NoNode}]
      /\ turn \in [Runs -> Turns]
      /\ phase \in [Runs -> {"ready", "minting", "before_model", "between",
                             "wrap_model", "open", "ended"}]
      /\ version \in 0..MaxVersion
  BY DEF RunInit, Turns
<1>3. /\ marker \in [Runs -> [Ids -> Answers]]
      /\ nodeCalls \in [Runs -> [Ids -> RawCalls \cup {NoCall}]]
      /\ results \in [Runs -> [Ids -> Normalized]]
      /\ meant \in [Runs -> [Ids -> Approvals \cup {NoApproval}]]
  BY DEF RunInit, NoAnswers, NoResults, Answers, Normalized
<1>4. /\ permits \in [Runs -> SUBSET Permits]
      /\ seen \in [Runs -> SUBSET Ids]
      /\ shown \in [Ids -> SUBSET Approvals]
      /\ proposals \in [Ids -> Nat]
      /\ used \in [Ids -> Nat]
      /\ entries \in [Runs \X Turns \X Ids -> Nat]
  BY DEF RunInit
<1> QED BY <1>1, <1>2, <1>3, <1>4 DEF TypeOK

(* A start is of another node than the last one: a turn, the next one.     *)
LEMMA Turned ==
  ASSUME TypeOK, Assumptions, NEW r \in Runs, MayClaim(r), CountTurn(r)
  PROVE  /\ turn' = [turn EXCEPT ![r] = turn[r] + 1]
         /\ turn' \in [Runs -> Turns]
<1>1. turn' = [turn EXCEPT ![r] = turn[r] + 1]
  BY DEF MayClaim, CountTurn
<1>2. turn[r] + 1 \in Turns
  BY DEF MayClaim, TypeOK, Turns, Assumptions, RunsAssumption
<1> QED BY <1>1, <1>2 DEF TypeOK

(* What a run does over its nodes keeps the types.                         *)
LEMMA TypeRunStep ==
  ASSUME TypeOK, Assumptions, NEW r \in Runs, RunStep(r)
  PROVE  TypeOK'
<1> USE DEF Assumptions, RunsAssumption
<1>1. CASE Abandon(r)
  BY <1>1 DEF Abandon, TypeOK, NoAnswers, NoResults, Answers, Normalized, history
<1>2. CASE MintPermits(r)
  <2>1. ASSUME NEW i \in MayRun(r) PROVE Permit(r, i) \in Permits
    BY DEF Permit, MayRun, Permits, TypeOK
  <2> QED BY <1>2, <2>1 DEF MintPermits, TypeOK, NoResults, Normalized, history
<1>3. CASE StartRequest(r)
  BY <1>3, Turned DEF StartRequest, Claim, TypeOK, history, PendingIds
<1>4. CASE ReadAgain(r)
  BY <1>4 DEF ReadAgain, TypeOK, history, PendingIds
<1>5. ASSUME NEW n \in Nodes, Advance(r, n) PROVE TypeOK'
  <2>1. task' \in [Tasks -> Activations]
    BY <1>5, IdleIsActivation DEF Advance, TypeOK
  <2> QED BY <1>5, <2>1 DEF Advance, TypeOK, resume, history
<1>6. ASSUME NEW o \in [Ids -> {"none", "denied", "other"}], Reconcile(r, o)
      PROVE  TypeOK'
  <2>1. pending' \in [Ids -> Approvals \cup {NoApproval}]
    BY <1>6 DEF Reconcile, ReleaseDenied, TypeOK
  <2>o. PICK p \in {"between", "open"} :
          /\ phase' = [phase EXCEPT ![r] = p]
          /\ seen' = [seen EXCEPT ![r] = {}]
    BY <1>6 DEF Reconcile
  <2>2. /\ phase' \in [Runs -> {"ready", "minting", "before_model", "between",
                                "wrap_model", "open", "ended"}]
        /\ seen' \in [Runs -> SUBSET Ids]
    BY <2>o DEF TypeOK
  <2>3. UNCHANGED <<node, started, turn, marker, nodeCalls, results, meant,
                    permits, task, version, history>>
    BY <1>6 DEF Reconcile
  <2> QED BY <2>1, <2>2, <2>3 DEF TypeOK, history
<1>7. ASSUME NEW a \in [Ids -> Answers],
             NEW m \in [Ids -> {NoApproval} \cup UNION {shown[i] : i \in Ids}],
             StartPrompt(r, a, m)
      PROVE  TypeOK'
  <2>1. m \in [Ids -> Approvals \cup {NoApproval}]
    BY DEF TypeOK
  <2>2. meant' \in [Runs -> [Ids -> Approvals \cup {NoApproval}]]
    BY <1>7, <2>1 DEF StartPrompt, TypeOK
  <2> QED BY <1>7, <2>2, Turned DEF StartPrompt, Claim, TypeOK, history
<1>8. ASSUME NEW c \in [Ids -> RawCalls \cup {NoCall}],
             NEW o \in [Ids -> Normalized], NEW s \in SUBSET Ids,
             StartCalls(r, c, o, s)
      PROVE  TypeOK'
  BY <1>8, Turned DEF StartCalls, Claim, TypeOK, history, NoAnswers, Answers
<1> QED
  BY <1>1, <1>2, <1>3, <1>4, <1>5, <1>6, <1>7, <1>8 DEF RunStep

(* So do the hooks: what they keep of a permit is one of the run's.        *)
LEMMA TypeHookStep ==
  ASSUME TypeOK, Assumptions, NEW t \in Tasks, HookStep(t)
  PROVE  TypeOK'
<1> USE DEF Assumptions, RunsAssumption
<1>0. RunOf(t) \in Runs /\ IdOf(t) \in Ids
  BY DEF Tasks, RunOf, IdOf
<1>1. ASSUME NEW c \in RawCalls, NEW b \in BOOLEAN, ValidateBegin(t, c, b)
      PROVE  TypeOK'
  <2>1. PICK p \in PermitsFor(t) :
          task' = [task EXCEPT ![t].stage = "validating", ![t].permit = p]
    BY <1>1 DEF ValidateBegin
  <2>2. p \in Permits
    BY <1>0 DEF PermitsFor, TypeOK
  <2>3. task' \in [Tasks -> Activations]
    <3>1. task[t] \in Activations /\ task \in [Tasks -> Activations]
      BY DEF TypeOK
    <3>2. [task[t] EXCEPT !.stage = "validating", !.permit = p] \in Activations
      BY <3>1, <2>2 DEF Activations, Stages
    <3> QED BY <3>1, <3>2, <2>1
  <2> QED BY <1>1, <2>3 DEF ValidateBegin, TypeOK, graph, resume, history
<1>2. ASSUME NEW c \in RawCalls, NEW b \in BOOLEAN, ExecuteBegin(t, c, b)
      PROVE  TypeOK'
  <2>1. PICK p \in PermitsFor(t) :
          /\ permits' = [permits EXCEPT ![RunOf(t)] = ConsumePermit(@, p)]
          /\ task' = [task EXCEPT ![t] =
               [stage |-> "consumed", permit |-> p, args |-> c,
                approved |-> b, request |-> NoApproval]]
    BY <1>2 DEF ExecuteBegin
  <2>2. p \in Permits
    BY <1>0 DEF PermitsFor, TypeOK
  <2>3. task' \in [Tasks -> Activations]
    BY <2>1, <2>2 DEF TypeOK, Activations, Stages
  <2>4. permits' \in [Runs -> SUBSET Permits]
    BY <2>1, <1>0 DEF ConsumePermit, TypeOK
  <2> QED BY <1>2, <2>3, <2>4 DEF ExecuteBegin, TypeOK, graph, resume, history
<1>3. ASSUME NEW v \in RawCalls, ValidateEnd(t, v) PROVE TypeOK'
  <2>1. task' \in [Tasks -> Activations]
    BY <1>3, IdleIsActivation DEF ValidateEnd, Reset, TypeOK
  <2>2. \A ps \in SUBSET Permits : Mark(task[t].permit, v, ps) \in SUBSET Permits
    BY DEF Mark, Permits
  <2>3. permits' \in [Runs -> SUBSET Permits]
    BY <1>3, <2>2, <1>0 DEF ValidateEnd, TypeOK
  <2> QED BY <1>3, <2>1, <2>3 DEF ValidateEnd, TypeOK, graph, resume, history
<1>4. CASE ValidateFail(t)
  <2>1. task' \in [Tasks -> Activations]
    BY <1>4, IdleIsActivation DEF ValidateFail, Reset, TypeOK
  <2> QED BY <1>4, <2>1 DEF ValidateFail, TypeOK, graph, resume, history
<1>5. CASE Prepare(t)
  <2>1. task' \in [Tasks -> Activations]
    <3>1. PICK s \in {"failed", "running"} : Goto(t, s)
      BY <1>5 DEF Prepare
    <3>2. s \in Stages
      BY DEF Stages, ThreadStages, Finished
    <3> QED BY <3>1, <3>2, MovedTask DEF Goto, TypeOK
  <2>2. pending' \in [Ids -> Approvals \cup {NoApproval}]
    BY <1>5 DEF Prepare, Put, TypeOK
  <2> QED BY <1>5, <2>1, <2>2 DEF Prepare, TypeOK, graph, resume, history
<1> QED BY <1>1, <1>2, <1>3, <1>4, <1>5 DEF HookStep

(* So does a worker thread, whose request is one it made itself.           *)
LEMMA TypeThreadStep ==
  ASSUME TypeOK, Assumptions, NEW t \in Tasks, FlightOK(t), ThreadStep(t)
  PROVE  TypeOK'
<1> USE DEF Assumptions, RunsAssumption
<1>0. /\ RunOf(t) \in Runs /\ IdOf(t) \in Ids
      /\ task \in [Tasks -> Activations]
  BY DEF Tasks, RunOf, IdOf, TypeOK
<1>1. ASSUME NEW s \in ThreadStages \cup Finished, Goto(t, s)
      PROVE  task' \in [Tasks -> Activations]
  <2>1. s \in Stages
    BY DEF Stages
  <2> QED BY <1>0, <1>1, <2>1, MovedTask DEF Goto
<1>2. ASSUME EnterTool(t), UNCHANGED <<pending, graph, resume, permits, version>>
      PROVE  TypeOK'
  <2>1. task' \in [Tasks -> Activations]
    BY <1>1, <1>2 DEF EnterTool, ThreadStages
  <2>2. entries' \in [Runs \X Turns \X Ids -> Nat]
    <3> DEFINE k == <<RunOf(t), task[t].permit.turn, IdOf(t)>>
    <3>1. entries' = [entries EXCEPT ![k] = entries[k] + 1]
      BY <1>2 DEF EnterTool
    <3> HIDE DEF k
    <3>2. entries \in [Runs \X Turns \X Ids -> Nat]
      BY DEF TypeOK
    <3> QED BY <3>1, <3>2, Counted
  <2> QED BY <1>2, <2>1, <2>2 DEF EnterTool, TypeOK, graph, resume
<1>3. CASE Dispatch(t)
  <2>1. CASE CallOf(t) \in Risky
    <3>1. /\ task' = [task EXCEPT ![t].stage = "confirming",
                ![t].request = [call |-> CallOf(t), version |-> version]]
          /\ UNCHANGED <<pending, graph, resume, permits, version, history>>
      BY <1>3, <2>1 DEF Dispatch
    <3>2. [call |-> CallOf(t), version |-> version] \in Approvals
      BY <2>1 DEF Approvals, TypeOK
    <3> DEFINE q == [call |-> CallOf(t), version |-> version]
    <3>3. [task[t] EXCEPT !.stage = "confirming", !.request = q] \in Activations
      <4>1. task[t] \in Activations
        BY <1>0
      <4> HIDE DEF q
      <4>2. q \in Approvals
        BY <3>2 DEF q
      <4> QED BY <4>1, <4>2 DEF Activations, Stages, ThreadStages
    <3>4. task' \in [Tasks -> Activations]
      BY <1>0, <3>1, <3>3
    <3> QED BY <3>1, <3>4 DEF TypeOK, graph, resume, history
  <2>2. CASE CallOf(t) \notin Risky
    BY <1>2, <1>3, <2>2 DEF Dispatch
  <2> QED BY <2>1, <2>2
<1>4. CASE Refuse(t) \/ ConfirmRaise(t) \/ FailInside(t)
  <2>1. Goto(t, "failed")
    BY <1>4 DEF Refuse, ConfirmRaise, FailInside
  <2>2. task' \in [Tasks -> Activations]
    BY <1>1, <2>1 DEF Finished
  <2> QED BY <1>4, <2>2
          DEF Refuse, ConfirmRaise, FailInside, TypeOK, graph, resume, history
<1>5. CASE ConfirmTake(t)
  <2>1. task' \in [Tasks -> Activations]
    BY <1>1, <1>5 DEF ConfirmTake, ThreadStages
  <2> QED BY <1>0, <1>5, <2>1 DEF ConfirmTake, Take, Put, TypeOK, graph, resume
<1>6. CASE ConfirmAsk(t)
  <2>1. task' \in [Tasks -> Activations]
    BY <1>1, <1>6 DEF ConfirmAsk, Finished
  <2>2. task[t].request \in Approvals
    BY <1>6 DEF ConfirmAsk, FlightOK
  <2> QED BY <1>0, <1>6, <2>1, <2>2
          DEF ConfirmAsk, Ask, Put, TypeOK, graph, resume
<1>7. CASE EnterConfirmed(t)
  <2>1. CASE EnterTool(t)
    BY <1>2, <1>7, <2>1 DEF EnterConfirmed
  <2>2. CASE Goto(t, "failed") /\ UNCHANGED history
    <3>1. task' \in [Tasks -> Activations]
      BY <1>1, <2>2 DEF Finished
    <3> QED BY <1>7, <2>2, <3>1
            DEF EnterConfirmed, TypeOK, graph, resume, history
  <2> QED BY <1>7, <2>1, <2>2 DEF EnterConfirmed, Revalidate
<1>8. CASE Publish(t)
  <2>1. task' \in [Tasks -> Activations]
    BY <1>1, <1>8 DEF Publish, Finished
  <2>2. version' \in 0..MaxVersion
    BY <1>8 DEF Publish, TypeOK
  <2> QED BY <1>8, <2>1, <2>2 DEF Publish, TypeOK, graph, resume, history
<1> QED BY <1>3, <1>4, <1>5, <1>6, <1>7, <1>8 DEF ThreadStep

---------------------------------------------------------------------------
(* The approvals. *)

(* What others do disturbs no activation: what was shown stays shown, and  *)
(* the version changes only while nobody is inside.                        *)
LEMMA FlightKeeps ==
  ASSUME NEW u \in Tasks, FlightOK(u), task'[u] = task[u],
         \A i \in Ids : shown[i] \subseteq shown'[i],
         version' = version \/ task[u].stage # "inside"
  PROVE  FlightOK(u)'
<1>1. IdOf(u) \in Ids
  BY DEF Tasks, IdOf
<1>2. CallOf(u)' = CallOf(u)
  BY DEF CallOf
<1> QED BY <1>1, <1>2 DEF FlightOK

(* Nothing is said of an activation that is not past its permit.           *)
LEMMA NotInFlight ==
  ASSUME NEW u \in Tasks, task'[u].stage \notin InFlight
  PROVE  FlightOK(u)'
  BY DEF FlightOK, InFlight, ThreadStages

\* an action that leaves approvals and permits alone
LEMMA ApprovalFrame ==
  ASSUME ApprovalInv, TypeOK',
         \A i \in Ids : pending'[i] \in {pending[i], NoApproval},
         UNCHANGED <<shown, proposals, used>>,
         \A r \in Runs : \A p \in permits'[r] : PermitOK(p),
         \A u \in Tasks : FlightOK(u)',
         \A u \in Tasks : task'[u].stage = "inside" => task[u].stage = "inside"
  PROVE  ApprovalInv'
<1>1. ASSUME NEW i \in Ids PROVE ApprovalOK(i)'
  BY DEF ApprovalInv, ApprovalOK, TypeOK
<1>2. InsideOK'
  BY DEF ApprovalInv, InsideOK
<1>3. (\A r \in Runs : \A p \in permits[r] : PermitOK(p))'
  BY DEF PermitOK
<1> QED BY <1>1, <1>2, <1>3 DEF ApprovalInv

(* A run's step asks for nothing, and its new permits are unvalidated.     *)
LEMMA ApprovalRunStep ==
  ASSUME ApprovalInv, Assumptions, NEW r \in Runs, RunStep(r)
  PROVE  ApprovalInv'
<1>1. TypeOK'
  BY TypeRunStep DEF ApprovalInv
<1>2. /\ UNCHANGED <<shown, proposals, used, version>>
      /\ \A u \in Tasks : task'[u] \in {task[u], Idle}
  BY DEF RunStep, Abandon, MintPermits, StartRequest, ReadAgain, Advance,
         Reconcile, StartPrompt, StartCalls, history, ApprovalInv, TypeOK
<1>3. ASSUME NEW i \in Ids PROVE pending'[i] \in {pending[i], NoApproval}
  BY DEF RunStep, Abandon, MintPermits, StartRequest, ReadAgain, Advance,
         Reconcile, ReleaseDenied, StartPrompt, StartCalls
<1>4. ASSUME NEW q \in Runs, NEW p \in permits'[q] PROVE PermitOK(p)
  <2>1. CASE MintPermits(r)
    <3>1. permits' = [permits EXCEPT ![r] = {Permit(r, i) : i \in MayRun(r)}]
      BY <2>1 DEF MintPermits
    <3>2. \A i \in MayRun(r) : Permit(r, i).validated = NoCall
      BY DEF Permit
    <3> QED BY <3>1, <3>2 DEF PermitOK, ApprovalInv, TypeOK
  <2>2. CASE ~MintPermits(r)
    <3>1. permits' = permits \/ permits' = [permits EXCEPT ![r] = {}]
      BY <2>2 DEF RunStep, Abandon, StartRequest, ReadAgain, Advance,
                  Reconcile, StartPrompt, StartCalls, Claim
    <3> QED BY <3>1 DEF ApprovalInv, TypeOK
  <2> QED BY <2>1, <2>2
<1>5. ASSUME NEW u \in Tasks
      PROVE  /\ FlightOK(u)'
             /\ task'[u].stage = "inside" => task[u].stage = "inside"
  <2>1. Idle.stage \notin InFlight /\ Idle.stage # "inside"
    BY DEF Idle, InFlight, ThreadStages
  <2>2. CASE task'[u] = task[u]
    BY <1>2, <2>2, FlightKeeps DEF ApprovalInv
  <2>3. CASE task'[u] = Idle
    BY <2>1, <2>3, NotInFlight
  <2> QED BY <1>2, <2>2, <2>3
<1> QED BY <1>1, <1>2, <1>3, <1>4, <1>5, ApprovalFrame

(* A hook marks or hands on a permit, and may drop a stale approval.       *)
LEMMA ApprovalHookStep ==
  ASSUME ApprovalInv, Assumptions, NEW t \in Tasks, HookStep(t)
  PROVE  ApprovalInv'
<1>1. TypeOK' /\ RunOf(t) \in Runs /\ IdOf(t) \in Ids /\ TypeOK
  BY TypeHookStep DEF ApprovalInv, Tasks, RunOf, IdOf
<1>2. /\ UNCHANGED <<shown, proposals, used, version>>
      /\ \A u \in Tasks \ {t} : task'[u] = task[u]
  BY <1>1 DEF HookStep, ValidateBegin, ExecuteBegin, ValidateEnd, ValidateFail,
              Prepare, Goto, Reset, history, TypeOK
<1>3. ASSUME NEW u \in Tasks \ {t} PROVE FlightOK(u)'
  BY <1>2, FlightKeeps DEF ApprovalInv
<1>4. ASSUME \A i \in Ids : pending'[i] \in {pending[i], NoApproval},
             \A q \in Runs : \A p \in permits'[q] : PermitOK(p),
             FlightOK(t)', task'[t].stage # "inside"
      PROVE  ApprovalInv'
  <2>1. \A u \in Tasks : FlightOK(u)'
    BY <1>3, <1>4
  <2>2. \A u \in Tasks : task'[u].stage = "inside" => task[u].stage = "inside"
    BY <1>2, <1>4
  <2> QED BY <1>1, <1>2, <1>4, <2>1, <2>2, ApprovalFrame
<1>5. task \in [Tasks -> Activations]
  BY <1>1 DEF TypeOK
<1>6. \A q \in Runs : \A p \in permits[q] : PermitOK(p)
  BY DEF ApprovalInv
<1>7. ASSUME NEW c \in RawCalls, NEW b \in BOOLEAN, ValidateBegin(t, c, b)
      PROVE  ApprovalInv'
  <2>1. task'[t].stage = "validating"
    BY <1>5, <1>7 DEF ValidateBegin, Activations
  <2>2. FlightOK(t)'
    BY <2>1, NotInFlight DEF InFlight, ThreadStages
  <2>3. UNCHANGED <<pending, permits>>
    BY <1>7 DEF ValidateBegin
  <2> QED BY <1>4, <1>6, <2>1, <2>2, <2>3
<1>8. ASSUME NEW c \in RawCalls, NEW b \in BOOLEAN, ExecuteBegin(t, c, b)
      PROVE  ApprovalInv'
  <2>1. PICK p \in PermitsFor(t) :
          /\ Executable(p, c, b)
          /\ permits' = [permits EXCEPT ![RunOf(t)] = ConsumePermit(@, p)]
          /\ task' = [task EXCEPT ![t] =
               [stage |-> "consumed", permit |-> p, args |-> c,
                approved |-> b, request |-> NoApproval]]
          /\ UNCHANGED pending
    BY <1>8 DEF ExecuteBegin
  <2>2. p \in permits[RunOf(t)] /\ p \in Permits /\ p.id = IdOf(t) /\ PermitOK(p)
    BY <1>1, <1>6 DEF PermitsFor, TypeOK
  <2>3. task'[t] = [stage |-> "consumed", permit |-> p, args |-> c,
                    approved |-> b, request |-> NoApproval]
    BY <1>5, <2>1
  <2>4. FlightOK(t)'
    BY <2>1, <2>2, <2>3 DEF FlightOK, Executable, ThreadStages, PermitOK
  <2>5. \A q \in Runs : permits'[q] \subseteq permits[q]
    BY <2>1, <1>1 DEF ConsumePermit, TypeOK
  <2> QED BY <1>4, <1>6, <2>1, <2>3, <2>4, <2>5
<1>9. ASSUME NEW v \in RawCalls, ValidateEnd(t, v) PROVE ApprovalInv'
  <2> DEFINE p == task[t].permit
  <2>1. /\ v \in Coercions[p.raw]
        /\ SelectorOf[v] = SelectorOf[p.raw]
        /\ permits' = [permits EXCEPT ![RunOf(t)] = Mark(p, v, @)]
        /\ task' = [task EXCEPT ![t] = Idle]
        /\ UNCHANGED pending
    BY <1>9 DEF ValidateEnd, SelectorKept, Reset
  <2> HIDE DEF p
  <2>2. ASSUME NEW q \in Runs, NEW x \in permits'[q] PROVE PermitOK(x)
    <3>1. CASE x \in permits[q]
      BY <1>6, <3>1
    <3>2. CASE x \notin permits[q]
      <4>1. /\ x = [p EXCEPT !.validated = v]
            /\ p \in Permits
        BY <1>1, <2>1, <3>2 DEF Mark, TypeOK
      <4>2. x.validated = v /\ x.raw = p.raw
        BY <4>1 DEF Permits
      <4> QED BY <2>1, <4>2 DEF PermitOK
    <3> QED BY <3>1, <3>2
  <2>3. task'[t].stage = "idle"
    BY <1>5, <2>1 DEF Idle
  <2>4. FlightOK(t)'
    BY <2>3, NotInFlight DEF InFlight, ThreadStages
  <2> QED BY <1>4, <2>1, <2>2, <2>3, <2>4
<1>10. CASE ValidateFail(t)
  <2>1. task'[t].stage = "idle" /\ UNCHANGED <<pending, permits>>
    BY <1>5, <1>10 DEF ValidateFail, Reset, Idle
  <2>2. FlightOK(t)'
    BY <2>1, NotInFlight DEF InFlight, ThreadStages
  <2> QED BY <1>4, <1>6, <2>1, <2>2
<1>11. CASE Prepare(t)
  <2>1. /\ UNCHANGED permits
        /\ \A i \in Ids : pending'[i] \in {pending[i], NoApproval}
        /\ task[t].stage = "consumed"
    BY <1>1, <1>11 DEF Prepare, Put, TypeOK
  <2>2. CASE Goto(t, "failed")
    <3>1. task'[t].stage = "failed"
      BY <1>5, <2>2, MovedTask DEF Goto, Activations
    <3>2. FlightOK(t)'
      BY <3>1, NotInFlight DEF InFlight, ThreadStages
    <3> QED BY <1>4, <1>6, <2>1, <3>1, <3>2
  <2>3. CASE Goto(t, "running") /\ CallOf(t) # Unresolved
    <3>1. task'[t] = [task[t] EXCEPT !.stage = "running"]
      BY <1>5, <2>3 DEF Goto
    <3>2. /\ task'[t].stage = "running"
          /\ task'[t].permit = task[t].permit
          /\ task'[t].args = task[t].args
          /\ task'[t].approved = task[t].approved
      BY <1>5, <3>1 DEF Activations
    <3>3. CallOf(t)' = CallOf(t)
      BY <3>2 DEF CallOf
    <3>4. FlightOK(t) /\ task[t].stage \in InFlight
      BY <2>1 DEF ApprovalInv, InFlight
    <3>5. CallOf(t) \in Calls
      BY <2>3, <3>4 DEF FlightOK, CallOf, Assumptions, RunsAssumption
    <3>6. FlightOK(t)'
      BY <3>2, <3>3, <3>4, <3>5 DEF FlightOK, PermitOK
    <3> QED BY <1>4, <1>6, <2>1, <3>2, <3>6
  <2> QED BY <1>11, <2>2, <2>3 DEF Prepare, CallOf
<1> QED BY <1>7, <1>8, <1>9, <1>10, <1>11 DEF HookStep

\* what the actions of a worker thread have in common
ThreadFrame(t) ==
  /\ task' \in [Tasks -> Activations]
  /\ \A u \in Tasks \ {t} : task'[u] = task[u]
  /\ \A i \in Ids : shown[i] \subseteq shown'[i]
  /\ UNCHANGED permits

(* A step of a worker thread changes one stage and nothing beside it.      *)
LEMMA ThreadMoves ==
  ASSUME ApprovalInv, NEW t \in Tasks, NEW s \in ThreadStages \cup Finished,
         Goto(t, s)
  PROVE  /\ task' \in [Tasks -> Activations]
         /\ \A u \in Tasks \ {t} : task'[u] = task[u]
         /\ task'[t].stage = s
         /\ task'[t].permit = task[t].permit
         /\ task'[t].args = task[t].args
         /\ task'[t].approved = task[t].approved
         /\ task'[t].request = task[t].request
         /\ CallOf(t)' = CallOf(t)
<1>1. task \in [Tasks -> Activations] /\ s \in Stages
  BY DEF ApprovalInv, TypeOK, Stages
<1>2. task' = [task EXCEPT ![t].stage = s]
  BY DEF Goto
<1>3. /\ task' \in [Tasks -> Activations]
      /\ task'[t] = [task[t] EXCEPT !.stage = s]
      /\ \A u \in Tasks \ {t} : task'[u] = task[u]
  BY <1>1, <1>2, MovedTask
<1>4. /\ task'[t].stage = s
      /\ task'[t].permit = task[t].permit
      /\ task'[t].args = task[t].args
      /\ task'[t].approved = task[t].approved
      /\ task'[t].request = task[t].request
  BY <1>1, <1>3 DEF Activations
<1> QED BY <1>3, <1>4 DEF CallOf

(* A thread that ends, or only moves on, changes no approval but its own.  *)
LEMMA ThreadKeeps ==
  ASSUME ApprovalInv, TypeOK', NEW t \in Tasks,
         \A u \in Tasks \ {t} : task'[u] = task[u],
         \A i \in Ids : shown[i] \subseteq shown'[i],
         UNCHANGED permits,
         version' = version
           \/ \A u \in Tasks \ {t} : task[u].stage # "inside",
         FlightOK(t)',
         \A i \in Ids : ApprovalOK(i)',
         task'[t].stage = "inside" => LockIsFree
  PROVE  ApprovalInv'
<1>1. ASSUME NEW u \in Tasks PROVE FlightOK(u)'
  BY FlightKeeps DEF ApprovalInv
<1>2. InsideOK'
  BY DEF ApprovalInv, InsideOK, LockIsFree
<1>3. (\A r \in Runs : \A p \in permits[r] : PermitOK(p))'
  BY DEF PermitOK, ApprovalInv
<1> QED BY <1>1, <1>2, <1>3 DEF ApprovalInv

(* Approvals and their counts that stay keep their relation.               *)
LEMMA SameApprovals ==
  ASSUME ApprovalInv, UNCHANGED <<pending, shown, proposals, used>>
  PROVE  \A i \in Ids : ApprovalOK(i)'
  BY DEF ApprovalInv, ApprovalOK

(* A thread enters under the lock, as it was shown or without asking.      *)
LEMMA ApprovalEnter ==
  ASSUME ApprovalInv, TypeOK', NEW t \in Tasks, LockIsFree,
         task[t].stage \in ThreadStages,
         CallOf(t) \in Risky =>
           /\ task[t].permit.approved
           /\ task[t].request \in shown[IdOf(t)]
           /\ task[t].request = [call |-> CallOf(t), version |-> version],
         EnterTool(t), UNCHANGED <<pending, permits, version>>
  PROVE  ApprovalInv'
<1>1. Goto(t, "inside") /\ UNCHANGED <<shown, proposals, used>>
  BY DEF EnterTool
<1>2. /\ \A u \in Tasks \ {t} : task'[u] = task[u]
      /\ task'[t].stage = "inside"
      /\ task'[t].permit = task[t].permit
      /\ task'[t].args = task[t].args
      /\ task'[t].approved = task[t].approved
      /\ task'[t].request = task[t].request
      /\ CallOf(t)' = CallOf(t)
  BY <1>1, ThreadMoves DEF ThreadStages
<1>3. FlightOK(t) /\ task[t].stage \in InFlight
  BY DEF ApprovalInv, InFlight
<1>4. FlightOK(t)'
  BY <1>1, <1>2, <1>3 DEF FlightOK, PermitOK, ThreadStages
<1>5. \A i \in Ids : ApprovalOK(i)'
  BY <1>1, SameApprovals
<1> QED BY <1>1, <1>2, <1>4, <1>5, ThreadKeeps

(* A thread that ends leaves nothing of the invariant to say of it.        *)
LEMMA ApprovalEnd ==
  ASSUME ApprovalInv, TypeOK', NEW t \in Tasks, NEW s \in Finished, Goto(t, s),
         UNCHANGED <<pending, permits, shown, proposals, used>>,
         version' = version \/ task[t].stage = "inside"
  PROVE  ApprovalInv'
<1>1. /\ \A u \in Tasks \ {t} : task'[u] = task[u]
      /\ task'[t].stage = s
  BY ThreadMoves
<1>2. s \notin InFlight /\ s # "inside"
  BY DEF Finished, InFlight, ThreadStages
<1>3. FlightOK(t)'
  BY <1>1, <1>2, NotInFlight
<1>4. \A i \in Ids : ApprovalOK(i)'
  BY SameApprovals
<1>5. version' = version \/ \A u \in Tasks \ {t} : task[u].stage # "inside"
  BY DEF ApprovalInv, InsideOK
<1> QED BY <1>1, <1>2, <1>3, <1>4, <1>5, ThreadKeeps

(* A call that needs approval makes its request; another one enters.       *)
LEMMA ApprovalDispatch ==
  ASSUME ApprovalInv, TypeOK', NEW t \in Tasks, Dispatch(t)
  PROVE  ApprovalInv'
<1>1. CASE CallOf(t) \notin Risky
  BY <1>1, ApprovalEnter DEF Dispatch, ThreadStages
<1>2. CASE CallOf(t) \in Risky
  <2> DEFINE q == [call |-> CallOf(t), version |-> version]
  <2>1. /\ task' = [task EXCEPT ![t].stage = "confirming", ![t].request = q]
        /\ UNCHANGED <<pending, permits, version, shown, proposals, used>>
        /\ task[t].stage = "running"
    BY <1>2 DEF Dispatch, history
  <2>2. task \in [Tasks -> Activations]
    BY DEF ApprovalInv, TypeOK
  <2>3. q.call = CallOf(t)
    OBVIOUS
  <2>4. FlightOK(t) /\ task[t].stage \in InFlight \cap ThreadStages
    BY <2>1 DEF ApprovalInv, InFlight, ThreadStages
  <2>5. q \in Approvals
    BY <2>4 DEF FlightOK, Approvals, ApprovalInv, TypeOK
  <2> HIDE DEF q
  <2>6. /\ task'[t].stage = "confirming"
        /\ task'[t].permit = task[t].permit
        /\ task'[t].args = task[t].args
        /\ task'[t].approved = task[t].approved
        /\ task'[t].request = q
        /\ \A u \in Tasks \ {t} : task'[u] = task[u]
    BY <2>1, <2>2 DEF Activations
  <2>7. CallOf(t)' = CallOf(t)
    BY <2>6 DEF CallOf
  <2>8. FlightOK(t)'
    BY <2>3, <2>4, <2>5, <2>6, <2>7 DEF FlightOK, PermitOK
  <2>9. \A i \in Ids : ApprovalOK(i)'
    BY <2>1, SameApprovals
  <2> QED BY <2>1, <2>6, <2>8, <2>9, ThreadKeeps
<1> QED BY <1>1, <1>2

(* Taking an approval uses what is pending, and leaves nothing to take.    *)
LEMMA ApprovalTake ==
  ASSUME ApprovalInv, TypeOK', NEW t \in Tasks, ConfirmTake(t)
  PROVE  ApprovalInv'
<1>1. TypeOK /\ IdOf(t) \in Ids /\ FlightOK(t) /\ ApprovalOK(IdOf(t))
  BY DEF ApprovalInv, Tasks, IdOf
<1>2. /\ task[t].stage = "confirming"
      /\ task[t].approved
      /\ pending[IdOf(t)] = task[t].request
      /\ pending' = [pending EXCEPT ![IdOf(t)] = NoApproval]
      /\ Goto(t, "confirmed")
      /\ used' = [used EXCEPT ![IdOf(t)] = @ + 1]
      /\ UNCHANGED <<permits, version, shown, proposals>>
  BY DEF ConfirmTake, CanTake, Matches, Take, Put
<1>3. /\ \A u \in Tasks \ {t} : task'[u] = task[u]
      /\ task'[t].stage = "confirmed"
      /\ task'[t].permit = task[t].permit
      /\ task'[t].args = task[t].args
      /\ task'[t].approved = task[t].approved
      /\ task'[t].request = task[t].request
      /\ CallOf(t)' = CallOf(t)
  BY <1>2, ThreadMoves DEF ThreadStages
<1>4. pending[IdOf(t)] # NoApproval
  <2>1. task[t].request \in Approvals
    BY <1>1, <1>2 DEF FlightOK
  <2> QED BY <1>2, <2>1, ApprovalsAssumption DEF ApprovalsAssumption
<1>5. FlightOK(t)'
  <2>1. task[t].permit.approved /\ task[t].request \in shown[IdOf(t)]
    BY <1>1, <1>2, <1>4 DEF FlightOK, ApprovalOK, InFlight, ThreadStages
  <2> QED BY <1>1, <1>2, <1>3, <2>1
          DEF FlightOK, PermitOK, InFlight, ThreadStages
<1>6. ASSUME NEW i \in Ids PROVE ApprovalOK(i)'
  <2>1. CASE i = IdOf(t)
    BY <1>1, <1>2, <1>4, <2>1 DEF ApprovalOK, TypeOK
  <2>2. CASE i # IdOf(t)
    <3>1. pending'[i] = pending[i] /\ used'[i] = used[i]
      BY <1>1, <1>2, <2>2 DEF TypeOK
    <3> QED BY <1>2, <3>1 DEF ApprovalInv, ApprovalOK
  <2> QED BY <2>1, <2>2
<1> QED BY <1>2, <1>3, <1>5, <1>6, ThreadKeeps

(* Asking puts a commitment over none only for a call that is not approved.*)
LEMMA ApprovalAsk ==
  ASSUME ApprovalInv, TypeOK', NEW t \in Tasks, ConfirmAsk(t)
  PROVE  ApprovalInv'
<1> DEFINE j == IdOf(t)
           q == task[t].request
<1>1. TypeOK /\ j \in Ids /\ ApprovalOK(j)
  BY DEF ApprovalInv, Tasks, IdOf
<1>2. /\ ~(pending[j] = NoApproval /\ task[t].approved)
      /\ pending' = [pending EXCEPT ![j] = q]
      /\ Goto(t, "asked")
      /\ shown' = [shown EXCEPT ![j] = @ \cup {q}]
      /\ proposals' = [proposals EXCEPT ![j] =
           IF pending[j] = NoApproval /\ ~task[t].approved THEN @ + 1 ELSE @]
      /\ UNCHANGED <<permits, version, used>>
  BY DEF ConfirmAsk, CannotAsk, Ask, Put
<1>3. /\ \A u \in Tasks \ {t} : task'[u] = task[u]
      /\ task'[t].stage = "asked"
  BY <1>2, ThreadMoves DEF Finished
<1>4. FlightOK(t)'
  BY <1>3, NotInFlight DEF InFlight, ThreadStages
<1> HIDE DEF j, q
<1>5. \A i \in Ids : shown[i] \subseteq shown'[i]
  BY <1>1, <1>2 DEF TypeOK
<1>6. ASSUME NEW i \in Ids PROVE ApprovalOK(i)'
  <2>1. CASE i = j
    <3>1. /\ pending'[j] = q
          /\ shown'[j] = shown[j] \cup {q}
          /\ used'[j] = used[j]
          /\ used[j] \in Nat
          /\ proposals[j] \in Nat
          /\ proposals'[j] = IF pending[j] = NoApproval THEN proposals[j] + 1
                                                        ELSE proposals[j]
      BY <1>1, <1>2 DEF TypeOK
    <3> QED BY <1>1, <2>1, <3>1 DEF ApprovalOK
  <2>2. CASE i # j
    <3>1. /\ pending'[i] = pending[i]
          /\ shown'[i] = shown[i]
          /\ used'[i] = used[i]
          /\ proposals'[i] = proposals[i]
      BY <1>1, <1>2, <2>2 DEF TypeOK
    <3> QED BY <3>1 DEF ApprovalInv, ApprovalOK
  <2> QED BY <2>1, <2>2
<1> QED BY <1>2, <1>3, <1>4, <1>5, <1>6, ThreadKeeps

(* Every step of a worker thread keeps the invariant.                      *)
LEMMA ApprovalThreadStep ==
  ASSUME ApprovalInv, Assumptions, NEW t \in Tasks, ThreadStep(t)
  PROVE  ApprovalInv'
<1>1. TypeOK'
  BY TypeThreadStep DEF ApprovalInv
<1>2. CASE Dispatch(t)
  BY <1>1, <1>2, ApprovalDispatch
<1>3. CASE Refuse(t) \/ ConfirmRaise(t) \/ FailInside(t)
  BY <1>1, <1>3, ApprovalEnd
     DEF Refuse, ConfirmRaise, FailInside, Finished, history
<1>4. CASE ConfirmTake(t)
  BY <1>1, <1>4, ApprovalTake
<1>5. CASE ConfirmAsk(t)
  BY <1>1, <1>5, ApprovalAsk
<1>6. CASE EnterConfirmed(t)
  <2>1. /\ task[t].stage = "confirmed"
        /\ LockIsFree
        /\ UNCHANGED <<pending, permits, version>>
    BY <1>6 DEF EnterConfirmed
  <2>2. CASE task[t].request.version = version
    <3>1. EnterTool(t)
      BY <1>6, <2>2 DEF EnterConfirmed, Revalidate
    <3>2. /\ task[t].permit.approved
          /\ task[t].request \in shown[IdOf(t)]
          /\ task[t].request = [call |-> CallOf(t), version |-> version]
      BY <2>1, <2>2 DEF ApprovalInv, FlightOK, Approvals
    <3> QED BY <1>1, <2>1, <3>1, <3>2, ApprovalEnter DEF ThreadStages
  <2>3. CASE task[t].request.version # version
    <3>1. Goto(t, "failed") /\ UNCHANGED <<shown, proposals, used>>
      BY <1>6, <2>3 DEF EnterConfirmed, Revalidate, history
    <3> QED BY <1>1, <2>1, <3>1, ApprovalEnd DEF Finished
  <2> QED BY <2>2, <2>3
<1>7. CASE Publish(t)
  BY <1>1, <1>7, ApprovalEnd DEF Publish, Finished, history
<1> QED BY <1>2, <1>3, <1>4, <1>5, <1>6, <1>7 DEF ThreadStep

(* So does every step.                                                     *)
LEMMA ApprovalNext ==
  ASSUME ApprovalInv, Assumptions, [Next]_vars
  PROVE  ApprovalInv'
<1>1. ASSUME UNCHANGED <<graph, resume, permits, task, history>>,
             version' \in 0..MaxVersion,
             version' = version \/ LockIsFree,
             \A i \in Ids : pending'[i] \in {pending[i], NoApproval},
             pending' \in [Ids -> Approvals \cup {NoApproval}]
      PROVE  ApprovalInv'
  <2>1. TypeOK'
    BY <1>1 DEF ApprovalInv, TypeOK, graph, resume, history
  <2>2. ASSUME NEW u \in Tasks PROVE FlightOK(u)'
    BY <1>1, FlightKeeps DEF ApprovalInv, history, LockIsFree
  <2> QED BY <1>1, <2>1, <2>2, ApprovalFrame DEF history, ApprovalInv
<1>2. CASE \E r \in Runs : RunStep(r)
  BY <1>2, ApprovalRunStep
<1>3. CASE \E t \in Tasks : HookStep(t) \/ ThreadStep(t)
  BY <1>3, ApprovalHookStep, ApprovalThreadStep
<1>4. CASE \E i \in Ids : DiscardApproval(i)
  BY <1>1, <1>4 DEF DiscardApproval, Discard, Put, ApprovalInv, TypeOK
<1>5. CASE RecordElsewhere
  <2>1. version' \in 0..MaxVersion
    BY <1>5 DEF RecordElsewhere, ApprovalInv, TypeOK, Assumptions,
                RunsAssumption
  <2>2. /\ UNCHANGED <<pending, graph, resume, permits, task, history>>
        /\ LockIsFree
    BY <1>5 DEF RecordElsewhere
  <2> QED BY <1>1, <2>1, <2>2 DEF ApprovalInv, TypeOK
<1>6. CASE UNCHANGED vars
  BY <1>1, <1>6 DEF vars, ApprovalInv, TypeOK
<1> QED BY <1>2, <1>3, <1>4, <1>5, <1>6 DEF Next

(* It holds of the initial state.                                          *)
LEMMA ApprovalInit ==
  ASSUME RunInit, Assumptions
  PROVE  ApprovalInv
<1>1. TypeOK
  BY TypeInit
<1>2. \A i \in Ids : ApprovalOK(i)
  BY DEF RunInit, Init, ApprovalOK
<1>3. \A t \in Tasks : task[t] = Idle
  BY DEF RunInit
<1>4. \A t \in Tasks : FlightOK(t)
  BY <1>3 DEF FlightOK, Idle, InFlight, ThreadStages
<1>5. InsideOK
  BY <1>3 DEF InsideOK, Idle
<1>6. \A r \in Runs : \A p \in permits[r] : PermitOK(p)
  BY DEF RunInit
<1> QED BY <1>1, <1>2, <1>4, <1>5, <1>6 DEF ApprovalInv

(* TypeOK, for every session, number of runs and sequence of hooks.        *)
THEOREM TypesAreKept == Spec => []TypeOK
<1> USE ApprovalsAssumption, RunsAssumption DEF Assumptions
<1>1. RunInit => ApprovalInv
  BY ApprovalInit
<1>2. ApprovalInv /\ [Next]_vars => ApprovalInv'
  BY ApprovalNext
<1>3. ApprovalInv => TypeOK
  BY DEF ApprovalInv
<1> QED BY <1>1, <1>2, <1>3, PTL DEF Spec

(* ApprovalsAreConserved: a resume that loses its race neither runs under  *)
(* the approval nor puts it back.                                          *)
THEOREM ApprovalsAreUsedOnce == Spec => []ApprovalsAreConserved
<1> USE ApprovalsAssumption, RunsAssumption DEF Assumptions
<1>1. RunInit => ApprovalInv
  BY ApprovalInit
<1>2. ApprovalInv /\ [Next]_vars => ApprovalInv'
  BY ApprovalNext
<1>3. ApprovalInv => ApprovalsAreConserved
  BY DEF ApprovalInv, ApprovalOK, ApprovalsAreConserved
<1> QED BY <1>1, <1>2, <1>3, PTL DEF Spec

(* EntersAsShown: a call that needs an approval is inside its tool as the  *)
(* action the user was shown, under the version of now.                    *)
THEOREM ToolsRunWhatWasShown == Spec => []EntersAsShown
<1> USE ApprovalsAssumption, RunsAssumption DEF Assumptions
<1>1. RunInit => ApprovalInv
  BY ApprovalInit
<1>2. ApprovalInv /\ [Next]_vars => ApprovalInv'
  BY ApprovalNext
<1>3. ApprovalInv => EntersAsShown
  BY DEF ApprovalInv, FlightOK, EntersAsShown
<1> QED BY <1>1, <1>2, <1>3, PTL DEF Spec

(* RunsWhatWasValidated: past its permit a call has the arguments Pydantic *)
(* made of the model's own, with the selector the model wrote.             *)
THEOREM ToolsRunWhatWasValidated == Spec => []RunsWhatWasValidated
<1> USE ApprovalsAssumption, RunsAssumption DEF Assumptions
<1>1. RunInit => ApprovalInv
  BY ApprovalInit
<1>2. ApprovalInv /\ [Next]_vars => ApprovalInv'
  BY ApprovalNext
<1>3. ApprovalInv => RunsWhatWasValidated
  <2> SUFFICES ASSUME ApprovalInv, NEW t \in Tasks,
                      task[t].stage \in ThreadStages
               PROVE  LET raw == task[t].permit.raw
                      IN /\ task[t].args \in Coercions[raw]
                         /\ SelectorOf[task[t].args] = SelectorOf[raw]
                         /\ task[t].args = task[t].permit.validated
    BY DEF RunsWhatWasValidated
  <2>1. FlightOK(t) /\ task[t].stage \in InFlight
    BY DEF ApprovalInv, InFlight
  <2>2. task[t].permit.validated # NoCall
    BY <2>1 DEF FlightOK, RunsAssumption
  <2> QED BY <2>1, <2>2 DEF FlightOK, PermitOK
<1> QED BY <1>1, <1>2, <1>3, PTL DEF Spec

---------------------------------------------------------------------------
(* A call of a node runs once in a turn of it. *)

(* Activations that end or go on, short of entering, and permits that are  *)
(* the same but for what was validated.                                    *)
LEMMA OnceFrame ==
  ASSUME OnceInv, TypeOK, UNCHANGED <<entries, turn>>,
         \A r \in Runs : phase'[r] = "minting" => phase[r] = "minting",
         \A r \in Runs : \A x \in permits'[r] : \E p \in permits[r] :
           x.turn = p.turn /\ x.id = p.id,
         \A r \in Runs : \A x, y \in permits'[r] : x.id = y.id => x = y,
         \A t \in Tasks : task'[t].stage \in InFlight =>
           /\ task[t].stage \in InFlight
           /\ task'[t].permit = task[t].permit
           /\ task[t].stage = "inside" => task'[t].stage = "inside"
  PROVE  OnceInv'
<1>1. \A t \in Tasks : \A r, n, i : HoldsCall(t, r, n, i)' => HoldsCall(t, r, n, i)
  BY DEF HoldsCall
<1>2. \A r, n, i : Entries(r, n, i)' = Entries(r, n, i)
  BY DEF Entries
<1>3. ASSUME NEW r \in Runs, NEW n \in Turns, NEW i \in Ids
      PROVE  FreshOK(r, n, i)'
  BY <1>1, <1>2 DEF OnceInv, FreshOK
<1>4. ASSUME NEW r \in Runs PROVE PermitsOK(r)'
  <2>1. phase'[r] = "minting" => permits'[r] = {}
    BY DEF OnceInv, PermitsOK
  <2>2. ASSUME NEW x \in permits'[r]
        PROVE  /\ x.turn = turn'[r]
               /\ Entries(r, x.turn, x.id)' = 0
               /\ \A t \in Tasks : ~HoldsCall(t, r, x.turn, x.id)'
    <3>1. PICK p \in permits[r] : x.turn = p.turn /\ x.id = p.id
      OBVIOUS
    <3>2. /\ p.turn = turn[r]
          /\ Entries(r, p.turn, p.id) = 0
          /\ \A t \in Tasks : ~HoldsCall(t, r, p.turn, p.id)
      BY DEF OnceInv, PermitsOK
    <3> QED BY <1>1, <1>2, <3>1, <3>2
  <2> QED BY <2>1, <2>2 DEF PermitsOK, HoldsCall, Entries
<1>5. ASSUME NEW t \in Tasks PROVE HeldOK(t)'
  BY <1>1, <1>2 DEF OnceInv, HeldOK, HoldsCall, Entries
<1>6. OncePerTurn'
  BY DEF OnceInv, OncePerTurn
<1> QED BY <1>3, <1>4, <1>5, <1>6 DEF OnceInv

(* Starting a node: none of its calls has run, and no permit is left.      *)
LEMMA OnceClaim ==
  ASSUME OnceInv, TypeOK, Assumptions, NEW r \in Runs,
         NEW k \in {"open", "minting", "before_model"},
         MayClaim(r), Claim(r, k), UNCHANGED <<entries, task>>
  PROVE  OnceInv'
<1>1. /\ turn' = [turn EXCEPT ![r] = turn[r] + 1]
      /\ phase' = [phase EXCEPT ![r] = k]
      /\ permits' = [permits EXCEPT ![r] = {}]
  BY Turned DEF Claim
<1>2. turn[r] \in Int /\ Turns \subseteq Int
  BY DEF TypeOK, Turns
<1>3. \A t \in Tasks : \A q, n, i : HoldsCall(t, q, n, i)' = HoldsCall(t, q, n, i)
  BY DEF HoldsCall
<1>4. ASSUME NEW q \in Runs
      PROVE  /\ \A n \in Turns, i \in Ids : FreshOK(q, n, i)'
             /\ PermitsOK(q)'
  <2>1. CASE q = r
    <3>1. turn'[r] = turn[r] + 1 /\ phase'[r] = k /\ permits'[r] = {}
      BY <1>1 DEF TypeOK
    <3>3. ASSUME NEW n \in Turns, NEW i \in Ids PROVE FreshOK(r, n, i)'
      <4>1. n > turn[r] + 1 \/ n = turn[r] + 1 => n > turn[r]
        BY <1>2
      <4>2. FreshOK(r, n, i)
        BY DEF OnceInv
      <4> QED BY <1>3, <3>1, <4>1, <4>2 DEF FreshOK, Entries
    <3>4. PermitsOK(r)'
      BY <3>1 DEF PermitsOK
    <3> QED BY <2>1, <3>3, <3>4
  <2>2. CASE q # r
    <3>1. /\ turn'[q] = turn[q]
          /\ phase'[q] = phase[q]
          /\ permits'[q] = permits[q]
      BY <1>1, <2>2 DEF TypeOK
    <3> QED BY <1>1, <1>3, <3>1
            DEF OnceInv, FreshOK, PermitsOK, Entries
  <2> QED BY <2>1, <2>2
<1>5. ASSUME NEW t \in Tasks PROVE HeldOK(t)'
  BY <1>3 DEF OnceInv, HeldOK, Entries
<1>6. OncePerTurn'
  BY DEF OnceInv, OncePerTurn
<1> QED BY <1>4, <1>5, <1>6 DEF OnceInv

(* Permits are minted once for a node, one for each call.                  *)
LEMMA OnceMint ==
  ASSUME OnceInv, TypeOK, NEW r \in Runs, MintPermits(r)
  PROVE  OnceInv'
<1>1. /\ phase[r] = "minting"
      /\ permits' = [permits EXCEPT ![r] = {Permit(r, i) : i \in MayRun(r)}]
      /\ phase' = [phase EXCEPT ![r] = "open"]
      /\ UNCHANGED <<turn, task, entries>>
  BY DEF MintPermits, history
<1>3. \A t \in Tasks : \A q, n, i : HoldsCall(t, q, n, i)' = HoldsCall(t, q, n, i)
  BY <1>1 DEF HoldsCall
<1>4. \A i \in MayRun(r) : /\ i \in Ids
                           /\ Permit(r, i).turn = turn[r]
                           /\ Permit(r, i).id = i
  BY DEF Permit, MayRun
<1>5. \A q \in Runs : phase'[q] = IF q = r THEN "open" ELSE phase[q]
  BY <1>1 DEF TypeOK
<1>6. ASSUME NEW q \in Runs, NEW n \in Turns, NEW i \in Ids
      PROVE  FreshOK(q, n, i)'
  BY <1>1, <1>3, <1>5 DEF OnceInv, FreshOK, Entries
<1>7. ASSUME NEW q \in Runs PROVE PermitsOK(q)'
  <2>1. CASE q = r
    <3>1. permits'[r] = {Permit(r, i) : i \in MayRun(r)}
      BY <1>1 DEF TypeOK
    <3>2. ASSUME NEW i \in MayRun(r)
          PROVE  /\ Permit(r, i).turn = turn[r]
                 /\ Entries(r, Permit(r, i).turn, Permit(r, i).id) = 0
                 /\ \A t \in Tasks :
                      ~HoldsCall(t, r, Permit(r, i).turn, Permit(r, i).id)
      <4>1. turn[r] \in Turns
        BY DEF TypeOK
      <4>2. FreshOK(r, turn[r], i)
        BY <1>4, <4>1 DEF OnceInv
      <4> QED BY <1>1, <1>4, <4>2 DEF FreshOK
    <3>3. ASSUME NEW i \in MayRun(r), NEW j \in MayRun(r),
                 Permit(r, i).id = Permit(r, j).id
          PROVE  Permit(r, i) = Permit(r, j)
      BY <1>4, <3>3
    <3>4. ASSUME NEW p \in permits'[r]
          PROVE  /\ p.turn = turn'[r]
                 /\ Entries(r, p.turn, p.id)' = 0
                 /\ \A t \in Tasks : ~HoldsCall(t, r, p.turn, p.id)'
      <4>1. PICK i \in MayRun(r) : p = Permit(r, i)
        BY <3>1
      <4> QED BY <1>1, <1>3, <3>2, <4>1 DEF Entries
    <3>5. \A p, x \in permits'[r] : p.id = x.id => p = x
      BY <3>1, <3>3
    <3> QED BY <2>1, <1>5, <3>4, <3>5 DEF PermitsOK, Entries, HoldsCall
  <2>2. CASE q # r
    <3>1. permits'[q] = permits[q]
      BY <1>1, <2>2 DEF TypeOK
    <3> QED BY <1>1, <1>3, <1>5, <2>2, <3>1 DEF OnceInv, PermitsOK, Entries
  <2> QED BY <2>1, <2>2
<1>8. ASSUME NEW t \in Tasks PROVE HeldOK(t)'
  BY <1>1, <1>3 DEF OnceInv, HeldOK, Entries
<1>9. OncePerTurn'
  BY <1>1 DEF OnceInv, OncePerTurn
<1> QED BY <1>6, <1>7, <1>8, <1>9 DEF OnceInv

(* A permit is handed to one activation, which is then the only one.       *)
LEMMA OnceConsume ==
  ASSUME OnceInv, TypeOK, NEW t \in Tasks, NEW c \in RawCalls,
         NEW b \in BOOLEAN, ExecuteBegin(t, c, b)
  PROVE  OnceInv'
<1> DEFINE r == RunOf(t)
<1>1. r \in Runs /\ IdOf(t) \in Ids /\ task \in [Tasks -> Activations]
  BY DEF Tasks, RunOf, IdOf, TypeOK
<1>2. PICK p \in permits[r] :
        /\ p.id = IdOf(t)
        /\ permits' = [permits EXCEPT ![r] = permits[r] \ {p}]
        /\ task' = [task EXCEPT ![t] =
             [stage |-> "consumed", permit |-> p, args |-> c,
              approved |-> b, request |-> NoApproval]]
        /\ UNCHANGED <<turn, phase, entries>>
  BY DEF ExecuteBegin, PermitsFor, ConsumePermit, graph, history
<1>3. /\ task'[t].stage = "consumed"
      /\ task'[t].permit = p
      /\ \A u \in Tasks \ {t} : task'[u] = task[u]
  BY <1>1, <1>2
<1>4. /\ p.turn = turn[r]
      /\ Entries(r, p.turn, p.id) = 0
      /\ \A u \in Tasks : ~HoldsCall(u, r, p.turn, p.id)
      /\ \A x \in permits[r] : x.id = p.id => x = p
      /\ phase[r] # "minting"
  BY <1>1, <1>2 DEF OnceInv, PermitsOK
<1>5. ASSUME NEW u \in Tasks, NEW q, NEW n, NEW i, HoldsCall(u, q, n, i)'
      PROVE  HoldsCall(u, q, n, i) \/ (u = t /\ q = r /\ n = p.turn /\ i = p.id)
  BY <1>2, <1>3, <1>5 DEF HoldsCall
<1>6. ASSUME NEW q \in Runs, NEW n \in Turns, NEW i \in Ids
      PROVE  FreshOK(q, n, i)'
  <2>1. q = r /\ n = p.turn =>
          ~(n > turn[q] \/ (n = turn[q] /\ phase[q] = "minting"))
    BY <1>4 DEF TypeOK, Turns
  <2>2. FreshOK(q, n, i)
    BY DEF OnceInv
  <2> QED BY <1>2, <1>5, <2>1, <2>2 DEF FreshOK, Entries
<1>7. ASSUME NEW q \in Runs PROVE PermitsOK(q)'
  <2>1. /\ permits'[q] \subseteq permits[q]
        /\ q = r => permits'[q] = permits[q] \ {p}
    BY <1>1, <1>2 DEF TypeOK
  <2>2. ASSUME NEW x \in permits'[q], NEW u \in Tasks
        PROVE  ~HoldsCall(u, q, x.turn, x.id)'
    <3>1. ~HoldsCall(u, q, x.turn, x.id)
      BY <2>1 DEF OnceInv, PermitsOK
    <3>2. ~(q = r /\ x.id = p.id)
      BY <1>4, <2>1
    <3> QED BY <1>5, <3>1, <3>2
  <2>3. \A x \in permits'[q] : x.turn = turn'[q] /\ Entries(q, x.turn, x.id)' = 0
    BY <1>2, <2>1 DEF OnceInv, PermitsOK, Entries
  <2>4. /\ phase'[q] = "minting" => permits'[q] = {}
        /\ \A x, y \in permits'[q] : x.id = y.id => x = y
    BY <1>2, <2>1 DEF OnceInv, PermitsOK
  <2> QED BY <2>2, <2>3, <2>4 DEF PermitsOK, HoldsCall, Entries
<1>8. ASSUME NEW u \in Tasks PROVE HeldOK(u)'
  <2>1. CASE u = t
    <3>1. Entries(r, p.turn, IdOf(t))' = 0
      BY <1>2, <1>4 DEF Entries
    <3>2. \A v \in Tasks : HoldsCall(v, r, p.turn, IdOf(t))' => v = t
      BY <1>2, <1>4, <1>5
    <3> QED BY <2>1, <1>3, <3>1, <3>2 DEF HeldOK, HoldsCall, Entries
  <2>2. CASE u # t
    <3>1. task'[u] = task[u]
      BY <1>3, <2>2
    <3>2. ASSUME task[u].stage \in InFlight, NEW v \in Tasks,
                 HoldsCall(v, RunOf(u), task[u].permit.turn, IdOf(u))'
          PROVE  v = u
      <4>1. HoldsCall(u, RunOf(u), task[u].permit.turn, IdOf(u))
        BY <3>2 DEF HoldsCall
      <4>2. HoldsCall(v, RunOf(u), task[u].permit.turn, IdOf(u))
        <5>1. ~(RunOf(u) = r /\ task[u].permit.turn = p.turn /\ IdOf(u) = p.id)
          BY <1>4, <4>1
        <5>2. HoldsCall(v, RunOf(u), task[u].permit.turn, IdOf(u))
                \/ /\ v = t
                   /\ RunOf(u) = r
                   /\ task[u].permit.turn = p.turn
                   /\ IdOf(u) = p.id
          BY <1>5, <3>1, <3>2 DEF HoldsCall
        <5> QED BY <5>1, <5>2
      <4> QED BY <3>2, <4>2 DEF OnceInv, HeldOK
    <3>3. HeldOK(u)
      BY DEF OnceInv
    <3> QED BY <1>2, <3>1, <3>2, <3>3 DEF HeldOK, HoldsCall, Entries
  <2> QED BY <2>1, <2>2
<1>9. OncePerTurn'
  BY <1>2 DEF OnceInv, OncePerTurn
<1> QED BY <1>6, <1>7, <1>8, <1>9 DEF OnceInv

(* Entering uses the call up: nobody else holds it.                        *)
LEMMA OnceEnter ==
  ASSUME OnceInv, ApprovalInv, TypeOK', NEW t \in Tasks, EnterTool(t),
         task[t].stage \in ThreadStages \ {"inside"},
         UNCHANGED <<graph, permits>>
  PROVE  OnceInv'
<1> DEFINE r == RunOf(t)
           n == task[t].permit.turn
           k == <<r, n, IdOf(t)>>
<1>1. /\ task' = [task EXCEPT ![t].stage = "inside"]
      /\ entries' = [entries EXCEPT ![k] = entries[k] + 1]
      /\ UNCHANGED <<turn, phase, permits>>
  BY DEF EnterTool, Goto, graph
<1>2. /\ TypeOK
      /\ r \in Runs
      /\ IdOf(t) \in Ids
      /\ n \in Turns
  BY DEF ApprovalInv, FlightOK, InFlight, Permits, Tasks, RunOf, IdOf
<1>3. HoldsCall(t, r, n, IdOf(t)) /\ HeldOK(t)
  BY DEF HoldsCall, OnceInv, InFlight
<1>4. /\ \A u \in Tasks \ {t} : task'[u] = task[u]
      /\ task'[t].stage = "inside"
      /\ task'[t].permit = task[t].permit
  BY <1>1, <1>2 DEF TypeOK, Activations
<1> HIDE DEF n, r
<1>5. ASSUME NEW u \in Tasks, NEW q, NEW m, NEW i
      PROVE  HoldsCall(u, q, m, i)' = HoldsCall(u, q, m, i)
  BY <1>4 DEF HoldsCall, InFlight, ThreadStages
<1>6. /\ Entries(r, n, IdOf(t)) = 0
      /\ \A u \in Tasks : HoldsCall(u, r, n, IdOf(t)) => u = t
  BY <1>3 DEF HeldOK, InFlight, n, r
<1>7. ASSUME NEW q \in Runs, NEW m \in Turns, NEW i \in Ids,
             ~(q = r /\ m = n /\ i = IdOf(t))
      PROVE  Entries(q, m, i)' = Entries(q, m, i)
  BY <1>1, <1>2, <1>7 DEF Entries, TypeOK
<1>8. ASSUME NEW q \in Runs
      PROVE  /\ \A m \in Turns, i \in Ids : FreshOK(q, m, i)'
             /\ PermitsOK(q)'
  <2>2. ASSUME NEW m \in Turns, NEW i \in Ids PROVE FreshOK(q, m, i)'
    <3>1. FreshOK(q, m, i)
      BY DEF OnceInv
    <3>2. CASE q = r /\ m = n /\ i = IdOf(t)
      BY <1>1, <1>3, <3>1, <3>2 DEF FreshOK, r, n
    <3>3. CASE ~(q = r /\ m = n /\ i = IdOf(t))
      BY <1>1, <1>5, <1>7, <3>1, <3>3 DEF FreshOK
    <3> QED BY <3>2, <3>3
  <2>3. PermitsOK(q)'
    <3>1. ASSUME NEW x \in permits[q]
          PROVE  /\ x.turn = turn[q]
                 /\ Entries(q, x.turn, x.id)' = 0
                 /\ \A u \in Tasks : ~HoldsCall(u, q, x.turn, x.id)'
      <4>1. /\ x.turn = turn[q]
            /\ Entries(q, x.turn, x.id) = 0
            /\ \A u \in Tasks : ~HoldsCall(u, q, x.turn, x.id)
        BY DEF OnceInv, PermitsOK
      <4>2. x.turn \in Turns /\ x.id \in Ids
        BY <1>2 DEF TypeOK, Permits
      <4>3. ~(q = r /\ x.turn = n /\ x.id = IdOf(t))
        BY <1>3, <4>1 DEF r, n
      <4> QED BY <1>5, <1>7, <4>1, <4>2, <4>3
    <3>2. /\ phase[q] = "minting" => permits[q] = {}
          /\ \A x, y \in permits[q] : x.id = y.id => x = y
      BY DEF OnceInv, PermitsOK
    <3> QED BY <1>1, <3>1, <3>2 DEF PermitsOK, Entries, HoldsCall
  <2> QED BY <2>2, <2>3
<1>9. ASSUME NEW u \in Tasks PROVE HeldOK(u)'
  <2>1. CASE u = t
    <3>1. \A v \in Tasks : HoldsCall(v, r, n, IdOf(t))' => v = t
      BY <1>4, <1>5, <1>6 DEF HoldsCall, n, r
    <3> QED BY <1>4, <2>1, <3>1 DEF HeldOK, HoldsCall, r, n
  <2>2. CASE u # t /\ task[u].stage \in InFlight
    <3>1. task'[u] = task[u]
      BY <1>4, <2>2
    <3>2. HeldOK(u) /\ HoldsCall(u, RunOf(u), task[u].permit.turn, IdOf(u))
      BY <2>2 DEF OnceInv, HoldsCall
    <3>3. /\ RunOf(u) \in Runs
          /\ IdOf(u) \in Ids
          /\ task[u].permit.turn \in Turns
      BY <2>2 DEF ApprovalInv, FlightOK, Permits, Tasks, RunOf, IdOf
    <3>4. ~(RunOf(u) = r /\ task[u].permit.turn = n /\ IdOf(u) = IdOf(t))
      BY <1>6, <2>2, <3>2
    <3>5. Entries(RunOf(u), task[u].permit.turn, IdOf(u))'
            = Entries(RunOf(u), task[u].permit.turn, IdOf(u))
      BY <1>7, <3>1, <3>3, <3>4 DEF Entries
    <3>6. \A v \in Tasks :
            HoldsCall(v, RunOf(u), task[u].permit.turn, IdOf(u))' => v = u
      BY <1>5, <2>2, <3>1, <3>2 DEF HeldOK, HoldsCall
    <3> QED BY <2>2, <3>1, <3>2, <3>5, <3>6 DEF HeldOK, HoldsCall, Entries
  <2>3. CASE u # t /\ task[u].stage \notin InFlight
    BY <1>4, <2>3 DEF HeldOK
  <2> QED BY <2>1, <2>2, <2>3
<1>10. OncePerTurn'
  <2>1. ASSUME NEW q \in Runs, NEW m \in Turns, NEW i \in Ids
        PROVE  entries'[<<q, m, i>>] <= 1
    <3>1. CASE q = r /\ m = n /\ i = IdOf(t)
      BY <1>1, <1>2, <1>6, <3>1 DEF Entries, TypeOK
    <3>2. CASE ~(q = r /\ m = n /\ i = IdOf(t))
      BY <1>7, <3>2 DEF OnceInv, OncePerTurn, Entries
    <3> QED BY <3>1, <3>2
  <2> QED BY <2>1 DEF OncePerTurn
<1> QED BY <1>8, <1>9, <1>10 DEF OnceInv

(* A run's step claims a node, mints its permits or drops them.            *)
LEMMA OnceRunStep ==
  ASSUME OnceInv, ApprovalInv, Assumptions, NEW r \in Runs, RunStep(r)
  PROVE  OnceInv'
<1>1. TypeOK
  BY DEF ApprovalInv
<1>2. ASSUME NEW q \in Runs, NEW x \in permits[q], NEW y \in permits[q],
             x.id = y.id
      PROVE  x = y
  BY <1>2 DEF OnceInv, PermitsOK
<1>3. \A u \in Tasks : Idle.stage \notin InFlight
  BY DEF Idle, InFlight, ThreadStages
<1>4. ASSUME UNCHANGED <<entries, turn, permits>>,
             \A q \in Runs : phase'[q] = "minting" => phase[q] = "minting",
             \A u \in Tasks : task'[u] \in {task[u], Idle}
      PROVE  OnceInv'
  BY <1>1, <1>2, <1>3, <1>4, OnceFrame
<1>5. CASE Abandon(r)
  <2>1. /\ phase' = [phase EXCEPT ![r] = "ended"]
        /\ UNCHANGED <<turn, permits, task, entries>>
    BY <1>5 DEF Abandon, history
  <2>2. \A q \in Runs : phase'[q] = IF q = r THEN "ended" ELSE phase[q]
    BY <1>1, <2>1 DEF TypeOK
  <2> QED BY <1>4, <2>1, <2>2
<1>6. CASE MintPermits(r)
  BY <1>1, <1>6, OnceMint
<1>7. CASE StartRequest(r)
  BY <1>1, <1>7, OnceClaim DEF StartRequest, history
<1>8. CASE ReadAgain(r)
  <2>1. /\ phase[r] = "between"
        /\ phase' = [phase EXCEPT ![r] = "wrap_model"]
        /\ UNCHANGED <<turn, permits, task, entries>>
    BY <1>8 DEF ReadAgain, history
  <2>2. \A q \in Runs : phase'[q] = IF q = r THEN "wrap_model" ELSE phase[q]
    BY <1>1, <2>1 DEF TypeOK
  <2> QED BY <1>4, <2>1, <2>2
<1>9. ASSUME NEW n \in Nodes, Advance(r, n) PROVE OnceInv'
  <2>1. /\ phase' = [phase EXCEPT ![r] = "ready"]
        /\ UNCHANGED <<turn, permits, entries>>
        /\ \A u \in Tasks : task'[u] \in {task[u], Idle}
    BY <1>9 DEF Advance, history
  <2>2. \A q \in Runs : phase'[q] = IF q = r THEN "ready" ELSE phase[q]
    BY <1>1, <2>1 DEF TypeOK
  <2> QED BY <1>4, <2>1, <2>2
<1>10. ASSUME NEW o \in [Ids -> {"none", "denied", "other"}], Reconcile(r, o)
       PROVE  OnceInv'
  <2>1. PICK p \in {"between", "open"} : phase' = [phase EXCEPT ![r] = p]
    BY <1>10 DEF Reconcile
  <2>2. /\ phase[r] \in {"before_model", "wrap_model"}
        /\ UNCHANGED <<turn, permits, task, entries>>
    BY <1>10 DEF Reconcile, history
  <2>3. \A q \in Runs : phase'[q] = IF q = r THEN p ELSE phase[q]
    BY <1>1, <2>1 DEF TypeOK
  <2> QED BY <1>4, <2>2, <2>3
<1>11. ASSUME NEW a, NEW m, StartPrompt(r, a, m) PROVE OnceInv'
  BY <1>1, <1>11, OnceClaim DEF StartPrompt, history
<1>12. ASSUME NEW c, NEW o, NEW s, StartCalls(r, c, o, s) PROVE OnceInv'
  BY <1>1, <1>12, OnceClaim DEF StartCalls, history
<1> QED
  BY <1>5, <1>6, <1>7, <1>8, <1>9, <1>10, <1>11, <1>12 DEF RunStep

(* A hook consumes a permit or hands it on.                                *)
LEMMA OnceHookStep ==
  ASSUME OnceInv, ApprovalInv, Assumptions, NEW t \in Tasks, HookStep(t)
  PROVE  OnceInv'
<1>1. /\ TypeOK
      /\ task \in [Tasks -> Activations]
      /\ RunOf(t) \in Runs
  BY DEF ApprovalInv, TypeOK, Tasks, RunOf
<1>2. ASSUME NEW q \in Runs, NEW x \in permits[q], NEW y \in permits[q],
             x.id = y.id
      PROVE  x = y
  BY <1>2 DEF OnceInv, PermitsOK
<1>4. ASSUME UNCHANGED <<graph, permits, history>>,
             \A u \in Tasks \ {t} : task'[u] = task[u],
             task'[t].stage \notin InFlight
               \/ /\ task[t].stage = "consumed"
                  /\ task'[t].permit = task[t].permit
      PROVE  OnceInv'
  <2>1. task[t].stage = "consumed" =>
          task[t].stage \in InFlight /\ task[t].stage # "inside"
    BY DEF InFlight
  <2>2. \A u \in Tasks : task'[u].stage \in InFlight =>
          /\ task[u].stage \in InFlight
          /\ task'[u].permit = task[u].permit
          /\ task[u].stage = "inside" => task'[u].stage = "inside"
    BY <1>4, <2>1
  <2>3. UNCHANGED <<entries, turn, phase, permits>>
    BY <1>4 DEF graph, history
  <2> QED BY <1>1, <1>2, <1>4, <2>2, <2>3, OnceFrame
<1>5. ASSUME NEW c \in RawCalls, NEW b \in BOOLEAN, ValidateBegin(t, c, b)
      PROVE  OnceInv'
  <2>1. /\ task'[t].stage = "validating"
        /\ \A u \in Tasks \ {t} : task'[u] = task[u]
        /\ UNCHANGED <<graph, permits, history>>
    BY <1>1, <1>5 DEF ValidateBegin, Activations
  <2> QED BY <1>4, <2>1 DEF InFlight, ThreadStages
<1>6. ASSUME NEW c \in RawCalls, NEW b \in BOOLEAN, ExecuteBegin(t, c, b)
      PROVE  OnceInv'
  BY <1>1, <1>6, OnceConsume
<1>7. ASSUME NEW v \in RawCalls, ValidateEnd(t, v) PROVE OnceInv'
  <2> DEFINE p == task[t].permit
  <2>1. /\ permits' = [permits EXCEPT ![RunOf(t)] = Mark(p, v, @)]
        /\ task' = [task EXCEPT ![t] = Idle]
        /\ UNCHANGED <<graph, history>>
    BY <1>7 DEF ValidateEnd, Reset
  <2> HIDE DEF p
  <2>2. ASSUME NEW q \in Runs, NEW x \in permits'[q]
        PROVE  /\ x \in permits[q]
                    \/ (p \in permits[q] /\ x = [p EXCEPT !.validated = v])
               /\ p \in permits[q] /\ x # p => x.id # p.id \/ x \notin permits[q]
    BY <1>1, <1>2, <2>1 DEF Mark, TypeOK
  <2>3. ASSUME NEW q \in Runs, NEW x \in permits'[q]
        PROVE  \E y \in permits[q] : x.turn = y.turn /\ x.id = y.id
    <3>1. p \in permits[q] => p \in Permits
      BY <1>1 DEF TypeOK
    <3> QED BY <2>2, <2>3, <3>1 DEF Permits
  <2>4. ASSUME NEW q \in Runs, NEW x \in permits'[q], NEW y \in permits'[q],
               x.id = y.id
        PROVE  x = y
    <3>1. CASE permits'[q] = permits[q]
      BY <1>2, <2>4, <3>1
    <3>2. CASE permits'[q] # permits[q]
      <4>1. /\ p \in permits[q]
            /\ permits'[q] = (permits[q] \ {p}) \cup {[p EXCEPT !.validated = v]}
        BY <1>1, <2>1, <3>2 DEF Mark, TypeOK
      <4>2. [p EXCEPT !.validated = v].id = p.id
        BY <1>1, <4>1 DEF TypeOK, Permits
      <4> QED BY <1>2, <2>4, <4>1, <4>2
    <3> QED BY <3>1, <3>2
  <2>5. \A u \in Tasks : task'[u].stage \in InFlight => task'[u] = task[u]
    BY <1>1, <2>1 DEF Idle, InFlight, ThreadStages
  <2>6. UNCHANGED <<entries, turn, phase>>
    BY <2>1 DEF graph, history
  <2> QED BY <1>1, <2>1, <2>3, <2>4, <2>5, <2>6, OnceFrame
<1>8. CASE ValidateFail(t)
  <2>1. /\ task'[t].stage = "idle"
        /\ \A u \in Tasks \ {t} : task'[u] = task[u]
        /\ UNCHANGED <<graph, permits, history>>
    BY <1>1, <1>8 DEF ValidateFail, Reset, Idle
  <2> QED BY <1>4, <2>1 DEF InFlight, ThreadStages
<1>9. CASE Prepare(t)
  <2>1. PICK s \in {"failed", "running"} : Goto(t, s)
    BY <1>9 DEF Prepare
  <2>2. s \in ThreadStages \cup Finished
    BY DEF ThreadStages, Finished
  <2>3. /\ \A u \in Tasks \ {t} : task'[u] = task[u]
        /\ task'[t].permit = task[t].permit
    BY <2>1, <2>2, ThreadMoves
  <2>4. task[t].stage = "consumed" /\ UNCHANGED <<graph, permits, history>>
    BY <1>9 DEF Prepare
  <2> QED BY <1>4, <2>3, <2>4
<1> QED BY <1>5, <1>6, <1>7, <1>8, <1>9 DEF HookStep

(* Among a worker thread's steps only entering uses a call up.             *)
LEMMA OnceThreadStep ==
  ASSUME OnceInv, ApprovalInv, Assumptions, NEW t \in Tasks, ThreadStep(t)
  PROVE  OnceInv'
<1>1. TypeOK /\ TypeOK' /\ task \in [Tasks -> Activations]
  BY TypeThreadStep DEF ApprovalInv, TypeOK
<1>2. ASSUME NEW q \in Runs, NEW x \in permits[q], NEW y \in permits[q],
             x.id = y.id
      PROVE  x = y
  BY <1>2 DEF OnceInv, PermitsOK
<1>3. UNCHANGED <<graph, permits>>
  BY DEF ThreadStep, Dispatch, Refuse, ConfirmTake, ConfirmRaise, ConfirmAsk,
         EnterConfirmed, Publish, FailInside
<1>4. ASSUME UNCHANGED entries,
             \A u \in Tasks \ {t} : task'[u] = task[u],
             task[t].stage \in InFlight,
             task'[t].permit = task[t].permit,
             task[t].stage # "inside" \/ task'[t].stage \notin InFlight
      PROVE  OnceInv'
  <2>2. \A u \in Tasks : task'[u].stage \in InFlight =>
          /\ task[u].stage \in InFlight
          /\ task'[u].permit = task[u].permit
          /\ task[u].stage = "inside" => task'[u].stage = "inside"
    BY <1>4
  <2>3. UNCHANGED <<turn, phase, permits>>
    BY <1>3 DEF graph
  <2> QED BY <1>1, <1>2, <1>4, <2>2, <2>3, OnceFrame
<1>5. ASSUME NEW s \in ThreadStages \cup Finished, Goto(t, s),
             UNCHANGED entries, task[t].stage \in ThreadStages,
             task[t].stage # "inside" \/ s \in Finished
      PROVE  OnceInv'
  <2>1. /\ \A u \in Tasks \ {t} : task'[u] = task[u]
        /\ task'[t].stage = s
        /\ task'[t].permit = task[t].permit
    BY <1>5, ThreadMoves
  <2>2. s \in Finished => s \notin InFlight
    BY DEF Finished, InFlight, ThreadStages
  <2> QED BY <1>4, <1>5, <2>1, <2>2 DEF InFlight
<1>6. CASE Dispatch(t)
  <2>1. CASE CallOf(t) \in Risky
    <3>1. /\ task' = [task EXCEPT ![t].stage = "confirming",
                ![t].request = [call |-> CallOf(t), version |-> version]]
          /\ task[t].stage = "running"
          /\ UNCHANGED entries
      BY <1>6, <2>1 DEF Dispatch, history
    <3>2. /\ \A u \in Tasks \ {t} : task'[u] = task[u]
          /\ task'[t].permit = task[t].permit
      BY <1>1, <3>1 DEF Activations
    <3> QED BY <1>4, <3>1, <3>2 DEF InFlight, ThreadStages
  <2>2. CASE CallOf(t) \notin Risky
    <3>1. EnterTool(t) /\ task[t].stage \in ThreadStages \ {"inside"}
      BY <1>6, <2>2 DEF Dispatch, ThreadStages
    <3> QED BY <1>1, <1>3, <3>1, OnceEnter
  <2> QED BY <2>1, <2>2
<1>7. CASE Refuse(t) \/ ConfirmRaise(t) \/ FailInside(t)
  BY <1>5, <1>7 DEF Refuse, ConfirmRaise, FailInside, ThreadStages, Finished,
                    history
<1>8. CASE ConfirmTake(t)
  BY <1>5, <1>8 DEF ConfirmTake, ThreadStages
<1>9. CASE ConfirmAsk(t)
  BY <1>5, <1>9 DEF ConfirmAsk, ThreadStages, Finished
<1>10. CASE EnterConfirmed(t)
  <2>1. task[t].stage \in ThreadStages \ {"inside"}
    BY <1>10 DEF EnterConfirmed, ThreadStages
  <2>2. CASE EnterTool(t)
    BY <1>1, <1>3, <2>1, <2>2, OnceEnter
  <2>3. CASE Goto(t, "failed") /\ UNCHANGED history
    BY <1>5, <2>1, <2>3 DEF Finished, history
  <2> QED BY <1>10, <2>2, <2>3 DEF EnterConfirmed, Revalidate
<1>11. CASE Publish(t)
  BY <1>5, <1>11 DEF Publish, ThreadStages, Finished, history
<1> QED BY <1>6, <1>7, <1>8, <1>9, <1>10, <1>11 DEF ThreadStep

(* Every step keeps the invariant.                                         *)
LEMMA OnceNext ==
  ASSUME OnceInv, ApprovalInv, Assumptions, [Next]_vars
  PROVE  OnceInv'
<1>1. ASSUME UNCHANGED <<graph, permits, task, entries>> PROVE OnceInv'
  BY <1>1 DEF graph, OnceInv, FreshOK, PermitsOK, HeldOK, HoldsCall,
              Entries, OncePerTurn
<1>2. CASE \E i \in Ids : DiscardApproval(i)
  BY <1>1, <1>2 DEF DiscardApproval, history
<1>3. CASE RecordElsewhere
  BY <1>1, <1>3 DEF RecordElsewhere, history
<1>4. CASE UNCHANGED vars
  BY <1>1, <1>4 DEF vars, history
<1>5. CASE \E r \in Runs : RunStep(r)
  BY <1>5, OnceRunStep
<1>6. CASE \E t \in Tasks : HookStep(t) \/ ThreadStep(t)
  BY <1>6, OnceHookStep, OnceThreadStep
<1> QED BY <1>2, <1>3, <1>4, <1>5, <1>6 DEF Next

(* It holds of the initial state.                                          *)
LEMMA OnceInit ==
  ASSUME RunInit, Assumptions
  PROVE  OnceInv
<1>1. /\ \A r \in Runs : /\ phase[r] = "ready"
                         /\ permits[r] = {}
      /\ \A t \in Tasks : task[t] = Idle
  BY DEF RunInit
<1>2. \A r \in Runs, n \in Turns, i \in Ids : entries[<<r, n, i>>] = 0
  BY DEF RunInit
<1>3. \A t \in Tasks : task[t].stage \notin InFlight
  BY <1>1 DEF Idle, InFlight, ThreadStages
<1>4. \A r \in Runs : PermitsOK(r)
  BY <1>1 DEF PermitsOK
<1>5. \A r \in Runs, n \in Turns, i \in Ids : FreshOK(r, n, i)
  BY <1>2, <1>3 DEF FreshOK, Entries, HoldsCall
<1>6. \A t \in Tasks : HeldOK(t)
  BY <1>3 DEF HeldOK
<1>7. OncePerTurn
  BY <1>2 DEF OncePerTurn
<1> QED BY <1>4, <1>5, <1>6, <1>7 DEF OnceInv

(* OncePerTurn: whatever hooks the framework repeats, whatever threads go  *)
(* on from earlier turns, and wherever the run is sent.                    *)
THEOREM CallsRunOncePerTurn == Spec => []OncePerTurn
<1> USE ApprovalsAssumption, RunsAssumption DEF Assumptions
<1>1. RunInit => ApprovalInv /\ OnceInv
  BY ApprovalInit, OnceInit
<1>2. ApprovalInv /\ OnceInv /\ [Next]_vars => ApprovalInv' /\ OnceInv'
  BY ApprovalNext, OnceNext
<1>3. OnceInv => OncePerTurn
  BY DEF OnceInv
<1> QED BY <1>1, <1>2, <1>3, PTL DEF Spec

(* OnlyTheStartedNodeRuns: every permit a run holds was minted in its last *)
(* turn, also where the node was started before.                           *)
THEOREM PermitsAreOfTheStartedNode == Spec => []OnlyTheStartedNodeRuns
<1> USE ApprovalsAssumption, RunsAssumption DEF Assumptions
<1>1. RunInit => ApprovalInv /\ OnceInv
  BY ApprovalInit, OnceInit
<1>2. ApprovalInv /\ OnceInv /\ [Next]_vars => ApprovalInv' /\ OnceInv'
  BY ApprovalNext, OnceNext
<1>3. OnceInv => OnlyTheStartedNodeRuns
  BY DEF OnceInv, PermitsOK, OnlyTheStartedNodeRuns
<1> QED BY <1>1, <1>2, <1>3, PTL DEF Spec

(* ValidatedOnce: a permit that was validated is handed on as it is, and   *)
(* no other permit of its call takes its place.                            *)
THEOREM ValidatedArgumentsStay == Spec => ValidatedOnce
<1> USE ApprovalsAssumption, RunsAssumption DEF Assumptions
<1>1. RunInit => ApprovalInv /\ OnceInv
  BY ApprovalInit, OnceInit
<1>2. ApprovalInv /\ OnceInv /\ [Next]_vars => ApprovalInv' /\ OnceInv'
  BY ApprovalNext, OnceNext
<1>3. ApprovalInv /\ OnceInv /\ [Next]_vars =>
        [\A r \in Runs : \A p \in permits[r] : \A q \in permits'[r] :
           /\ q.turn = p.turn
           /\ q.id = p.id
           /\ p.validated # NoCall
           => q.validated = p.validated]_vars
  <2> SUFFICES ASSUME TypeOK, OnceInv, Next, NEW r \in Runs,
                      NEW p \in permits[r], NEW q \in permits'[r],
                      q.id = p.id, p.validated # NoCall
               PROVE  q.validated = p.validated
    BY DEF ApprovalInv
  <2>1. CASE q \in permits[r]
    BY <2>1 DEF OnceInv, PermitsOK
  <2>2. CASE \E s \in Runs : RunStep(s)
    <3>1. permits'[r] \subseteq permits[r] \/ MintPermits(r)
      <4>1. PICK s \in Runs :
              \/ permits' \in {permits, [permits EXCEPT ![s] = {}]}
              \/ /\ MintPermits(s)
                 /\ permits' = [permits EXCEPT
                      ![s] = {Permit(s, i) : i \in MayRun(s)}]
        BY <2>2 DEF RunStep, Abandon, MintPermits, StartRequest, ReadAgain,
                    Advance, Reconcile, StartPrompt, StartCalls, Claim
      <4> QED BY <4>1 DEF TypeOK
    <3>2. ~MintPermits(r)
      BY DEF MintPermits, OnceInv, PermitsOK
    <3> QED BY <2>1, <3>1, <3>2
  <2>3. CASE \E t \in Tasks : HookStep(t) \/ ThreadStep(t)
    <3>1. PICK t \in Tasks : HookStep(t) \/ ThreadStep(t)
      BY <2>3
    <3>2. RunOf(t) \in Runs
      BY DEF Tasks, RunOf
    <3>3. CASE permits' = permits
      BY <2>1, <3>3
    <3>4. ASSUME NEW x, permits' = [permits EXCEPT
                   ![RunOf(t)] = permits[RunOf(t)] \ {x}]
          PROVE  q.validated = p.validated
      BY <2>1, <3>2, <3>4 DEF TypeOK
    <3>5. ASSUME NEW v \in RawCalls, ValidateEnd(t, v)
          PROVE  q.validated = p.validated
      <4> DEFINE ps == permits[RunOf(t)]
      <4>1. permits'[r] = IF r = RunOf(t) THEN Mark(task[t].permit, v, ps)
                                         ELSE permits[r]
        BY <3>2, <3>5 DEF ValidateEnd, TypeOK
      <4>2. CASE q \notin permits[r]
        <5>1. /\ task[t].permit \in permits[r]
              /\ task[t].permit.validated = NoCall
              /\ q = [task[t].permit EXCEPT !.validated = v]
          BY <4>1, <4>2 DEF Mark
        <5>2. q.id = task[t].permit.id
          BY <5>1 DEF TypeOK, Permits
        <5>3. task[t].permit = p
          BY <5>1, <5>2 DEF OnceInv, PermitsOK
        <5> QED BY <5>1, <5>3
      <4> QED BY <2>1, <4>2
    <3>6. \/ permits' = permits
          \/ \E x : permits' = [permits EXCEPT
               ![RunOf(t)] = permits[RunOf(t)] \ {x}]
          \/ \E v \in RawCalls : ValidateEnd(t, v)
      BY <3>1 DEF HookStep, ValidateBegin, ExecuteBegin, ValidateFail,
                  Prepare, ConsumePermit, ThreadStep, Dispatch, Refuse,
                  ConfirmTake, ConfirmRaise, ConfirmAsk, EnterConfirmed,
                  Publish, FailInside
    <3> QED BY <3>3, <3>4, <3>5, <3>6
  <2>4. CASE (\E i \in Ids : DiscardApproval(i)) \/ RecordElsewhere
    <3>1. permits' = permits
      BY <2>4 DEF DiscardApproval, RecordElsewhere
    <3> QED BY <2>1, <3>1
  <2> QED BY <2>2, <2>3, <2>4 DEF Next
<1> QED BY <1>1, <1>2, <1>3, PTL DEF Spec, ValidatedOnce

---------------------------------------------------------------------------
(* A call runs as approved only if this run's prompt was answered yes. *)

(* Whatever an action drops, and any permit it hands on, was answered.     *)
LEMMA AnswerFrame ==
  ASSUME NEW r \in Runs, YesOK(r), meant' = meant,
         \A i \in Ids : marker'[r][i] = "yes" => marker[r][i] = "yes",
         \A i \in Ids : results'[r][i] = "approved" =>
           results[r][i] = "approved" \/ marker[r][i] = "yes",
         \A p \in permits'[r] : p.approved =>
           \/ p.id \in Ids /\ results[r][p.id] = "approved"
           \/ \E q \in permits[r] : q.id = p.id /\ q.approved,
         \A t \in Tasks :
           /\ RunOf(t) = r
           /\ task'[t].stage \in InFlight
           /\ task'[t].permit.approved
           => \/ task[t].stage \in InFlight /\ task[t].permit.approved
              \/ \E q \in permits[r] : q.id = IdOf(t) /\ q.approved
  PROVE  YesOK(r)'
<1>1. \A i \in Ids :
        /\ marker'[r][i] = "yes" => meant[r][i] # NoApproval
        /\ results'[r][i] = "approved" => meant[r][i] # NoApproval
  BY DEF YesOK
<1>2. \A p \in permits'[r] : p.approved => meant[r][p.id] # NoApproval
  BY DEF YesOK
<1>3. ASSUME NEW t \in Tasks, RunOf(t) = r, task'[t].stage \in InFlight,
             task'[t].permit.approved
      PROVE  meant[r][IdOf(t)] # NoApproval
  <2>1. CASE task[t].stage \in InFlight /\ task[t].permit.approved
    BY <1>3, <2>1 DEF YesOK
  <2>2. CASE \E q \in permits[r] : q.id = IdOf(t) /\ q.approved
    BY <2>2 DEF YesOK
  <2> QED BY <1>3, <2>1, <2>2
<1> QED BY <1>1, <1>2, <1>3 DEF YesOK

(* The prompt's own answers: a yes names an approval that was shown.       *)
LEMMA AnswerPrompt ==
  ASSUME AnswerInv, TypeOK, TypeOK', Assumptions, NEW r \in Runs,
         NEW a \in [Ids -> Answers],
         NEW m \in [Ids -> {NoApproval} \cup UNION {shown[i] : i \in Ids}],
         StartPrompt(r, a, m)
  PROVE  AnswerInv'
<1>1. /\ permits' = [permits EXCEPT ![r] = {}]
      /\ marker' = [marker EXCEPT ![r] = a]
      /\ UNCHANGED <<results, task>>
  BY DEF StartPrompt, Claim
<1>2. \A i \in Ids : a[i] = "yes" => m[i] # NoApproval
  BY DEF StartPrompt, TypeOK, Assumptions, ApprovalsAssumption
<1>3. ASSUME NEW q \in Runs, NEW i \in Ids
      PROVE  /\ meant[q][i] # NoApproval => meant'[q][i] # NoApproval
             /\ q = r /\ m[i] # NoApproval => meant'[q][i] # NoApproval
  BY DEF StartPrompt, TypeOK
<1>4. ASSUME NEW q \in Runs PROVE YesOK(q)'
  <2>1. ASSUME NEW i \in Ids
        PROVE  /\ marker'[q][i] = "yes" => meant'[q][i] # NoApproval
               /\ results'[q][i] = "approved" => meant'[q][i] # NoApproval
    BY <1>1, <1>2, <1>3 DEF AnswerInv, YesOK, TypeOK
  <2>2. ASSUME NEW p \in permits'[q], p.approved
        PROVE  meant'[q][p.id] # NoApproval
    <3>1. p \in permits[q] /\ p.id \in Ids
      BY <1>1 DEF TypeOK, Permits
    <3> QED BY <1>3, <2>2, <3>1 DEF AnswerInv, YesOK
  <2>3. ASSUME NEW t \in Tasks, RunOf(t) = q, task'[t].stage \in InFlight,
               task'[t].permit.approved
        PROVE  meant'[q][IdOf(t)] # NoApproval
    <3>1. IdOf(t) \in Ids
      BY DEF Tasks, IdOf
    <3> QED BY <1>1, <1>3, <2>3, <3>1 DEF AnswerInv, YesOK
  <2> QED BY <2>1, <2>2, <2>3 DEF YesOK
<1> QED BY <1>4 DEF AnswerInv

(* Pydantic's results are accepted only as the answers of the prompt, and  *)
(* permits are minted from them.                                           *)
LEMMA AnswerRunStep ==
  ASSUME AnswerInv, TypeOK, TypeOK', Assumptions, NEW r \in Runs, RunStep(r)
  PROVE  AnswerInv'
<1>1. CASE \E a \in [Ids -> Answers],
              m \in [Ids -> {NoApproval} \cup UNION {shown[i] : i \in Ids}] :
             StartPrompt(r, a, m)
  BY <1>1, AnswerPrompt
<1>2. ASSUME ~(\E a \in [Ids -> Answers],
              m \in [Ids -> {NoApproval} \cup UNION {shown[i] : i \in Ids}] :
             StartPrompt(r, a, m)),
             NEW q \in Runs
      PROVE  YesOK(q)'
  <2>o. \/ Abandon(r) \/ MintPermits(r) \/ StartRequest(r) \/ ReadAgain(r)
        \/ \E n \in Nodes : Advance(r, n)
        \/ \E o \in [Ids -> {"none", "denied", "other"}] : Reconcile(r, o)
        \/ \E c \in [Ids -> RawCalls \cup {NoCall}], o \in [Ids -> Normalized],
              s \in SUBSET Ids : StartCalls(r, c, o, s)
    BY <1>2 DEF RunStep
  <2>0. meant' = meant /\ YesOK(q)
    BY <2>o DEF Abandon, MintPermits, StartRequest, ReadAgain,
                Advance, Reconcile, StartCalls, resume, AnswerInv
  <2>1. \A t \in Tasks : task'[t] \in {task[t], Idle}
    <3>1. task' = task \/ \E n \in Nodes : Advance(r, n)
      BY <2>o DEF Abandon, MintPermits, StartRequest, ReadAgain, Reconcile,
                  StartCalls
    <3> QED BY <3>1 DEF Advance
  <2>2. \A i \in Ids : marker'[q][i] = "yes" => marker[q][i] = "yes"
    <3>1. marker' \in {marker, [marker EXCEPT ![r] = NoAnswers]}
      BY <2>o DEF Abandon, MintPermits, StartRequest, ReadAgain,
                  Advance, Reconcile, StartCalls, resume
    <3>2. \A i \in Ids : NoAnswers[i] # "yes"
      BY DEF NoAnswers
    <3> QED BY <3>1, <3>2 DEF TypeOK
  <2>3. ASSUME NEW i \in Ids, results'[q][i] = "approved"
        PROVE  results[q][i] = "approved" \/ marker[q][i] = "yes"
    <3>1. ASSUME NEW c \in [Ids -> RawCalls \cup {NoCall}],
                 NEW o \in [Ids -> Normalized], NEW s \in SUBSET Ids,
                 StartCalls(r, c, o, s)
          PROVE  results[q][i] = "approved" \/ marker[q][i] = "yes"
      <4>1. results' = [results EXCEPT ![r] = o]
        BY <3>1 DEF StartCalls
      <4>2. CASE q # r
        BY <2>3, <4>1, <4>2 DEF TypeOK
      <4>3. CASE q = r
        <5>1. o[i] = "approved"
          BY <2>3, <4>1, <4>3 DEF TypeOK
        <5>2. o # NoResults
          BY <5>1 DEF NoResults
        <5>3. marker[r] = Answered(o)
          BY <3>1, <5>2 DEF StartCalls, ResumeFits
        <5> QED BY <4>3, <5>1, <5>3 DEF Answered
      <4> QED BY <4>2, <4>3
    <3>2. CASE results' \in {results, [results EXCEPT ![r] = NoResults]}
      <4>1. NoResults[i] # "approved"
        BY DEF NoResults
      <4> QED BY <2>3, <3>2, <4>1 DEF TypeOK
    <3> QED
      BY <2>o, <3>1, <3>2 DEF Abandon, MintPermits, StartRequest,
         ReadAgain, Advance, Reconcile, resume
  <2>4. ASSUME NEW p \in permits'[q], p.approved
        PROVE  \/ p.id \in Ids /\ results[q][p.id] = "approved"
               \/ \E x \in permits[q] : x.id = p.id /\ x.approved
    <3>1. CASE MintPermits(r) /\ q = r
      <4>1. permits'[r] = {Permit(r, i) : i \in MayRun(r)}
        BY <3>1 DEF MintPermits, TypeOK
      <4>2. PICK i \in MayRun(r) : p = Permit(r, i)
        BY <3>1, <4>1
      <4>3. p.id = i /\ i \in Ids /\ p.approved = (results[r][i] = "approved")
        BY <4>2 DEF Permit, MayRun
      <4> QED BY <2>4, <3>1, <4>3
    <3>2. CASE permits'[q] \subseteq permits[q]
      BY <2>4, <3>2
    <3>3. permits'[q] \subseteq permits[q] \/ (MintPermits(r) /\ q = r)
      <4>1. \/ permits' \in {permits, [permits EXCEPT ![r] = {}]}
            \/ /\ MintPermits(r)
               /\ permits' = [permits EXCEPT
                    ![r] = {Permit(r, i) : i \in MayRun(r)}]
        BY <2>o DEF Abandon, MintPermits, StartRequest, ReadAgain,
                    Advance, Reconcile, StartCalls, Claim
      <4> QED BY <4>1 DEF TypeOK
    <3> QED BY <3>1, <3>2, <3>3
  <2>7. Idle.stage \notin InFlight
    BY DEF Idle, InFlight, ThreadStages
  <2> QED BY <2>0, <2>1, <2>2, <2>3, <2>4, <2>7, AnswerFrame
<1> QED BY <1>1, <1>2 DEF AnswerInv

(* A hook passes the permits of its run on as they were minted.            *)
LEMMA AnswerHookStep ==
  ASSUME AnswerInv, TypeOK, Assumptions, NEW t \in Tasks, HookStep(t),
         NEW r \in Runs
  PROVE  YesOK(r)'
<1>0. /\ RunOf(t) \in Runs /\ IdOf(t) \in Ids
      /\ task \in [Tasks -> Activations]
      /\ YesOK(r)
  BY DEF Tasks, RunOf, IdOf, TypeOK, AnswerInv
<1>1. UNCHANGED <<meant, marker, results>>
  BY DEF HookStep, ValidateBegin, ExecuteBegin, ValidateEnd, ValidateFail,
         Prepare, graph, resume
<1>2. \A u \in Tasks \ {t} : task'[u] = task[u]
  BY <1>0 DEF HookStep, ValidateBegin, ExecuteBegin, ValidateEnd,
              ValidateFail, Prepare, Goto, Reset
<1>3. ASSUME NEW p \in permits'[r]
      PROVE  \E x \in permits[r] : x.id = p.id /\ x.approved = p.approved
  <2>1. ASSUME NEW v \in RawCalls, ValidateEnd(t, v)
        PROVE  \E x \in permits[r] : x.id = p.id /\ x.approved = p.approved
    <3>1. permits' = [permits EXCEPT
            ![RunOf(t)] = Mark(task[t].permit, v, permits[RunOf(t)])]
      BY <2>1 DEF ValidateEnd
    <3>2. \/ p \in permits[r]
          \/ /\ task[t].permit \in permits[r]
             /\ p = [task[t].permit EXCEPT !.validated = v]
      <4> DEFINE ps == permits[RunOf(t)]
      <4>1. \A x \in Mark(task[t].permit, v, ps) :
              \/ x \in ps
              \/ /\ task[t].permit \in ps
                 /\ x = [task[t].permit EXCEPT !.validated = v]
        BY DEF Mark
      <4>2. permits'[r] = IF r = RunOf(t) THEN Mark(task[t].permit, v, ps)
                                         ELSE permits[r]
        BY <1>0, <3>1 DEF TypeOK
      <4>3. CASE r = RunOf(t)
        <5>1. p \in Mark(task[t].permit, v, ps)
          BY <4>2, <4>3
        <5> QED BY <4>1, <4>3, <5>1
      <4>4. CASE r # RunOf(t)
        BY <4>2, <4>4
      <4> QED BY <4>3, <4>4
    <3>3. permits[r] \subseteq Permits
      BY DEF TypeOK
    <3> QED BY <3>2, <3>3 DEF Permits
  <2>2. CASE permits'[r] \subseteq permits[r]
    BY <2>2
  <2>3. permits'[r] \subseteq permits[r] \/ \E v \in RawCalls : ValidateEnd(t, v)
    <3>1. \/ permits' = permits
          \/ \E v \in RawCalls : ValidateEnd(t, v)
          \/ \E q \in PermitsFor(t) :
               permits' = [permits EXCEPT ![RunOf(t)] = ConsumePermit(@, q)]
      BY DEF HookStep, ValidateBegin, ExecuteBegin, ValidateFail, Prepare
    <3> QED BY <1>0, <3>1, ZenonT(60) DEF ConsumePermit, TypeOK
  <2> QED BY <2>1, <2>2, <2>3
<1>4. ASSUME RunOf(t) = r, task'[t].stage \in InFlight,
             task'[t].permit.approved
      PROVE  \/ task[t].stage \in InFlight /\ task[t].permit.approved
             \/ \E x \in permits[r] : x.id = IdOf(t) /\ x.approved
  <2>1. ASSUME NEW c \in RawCalls, NEW b \in BOOLEAN, ValidateBegin(t, c, b)
        PROVE  FALSE
    <3>1. PICK p \in PermitsFor(t) :
            task' = [task EXCEPT ![t].stage = "validating", ![t].permit = p]
      BY <2>1 DEF ValidateBegin
    <3>2. task'[t].stage = "validating"
      BY <1>0, <3>1 DEF Activations
    <3> QED BY <1>4, <3>2 DEF InFlight, ThreadStages
  <2>2. ASSUME NEW c \in RawCalls, NEW b \in BOOLEAN, ExecuteBegin(t, c, b)
        PROVE  \E x \in permits[r] : x.id = IdOf(t) /\ x.approved
    <3>1. PICK p \in PermitsFor(t) :
            task' = [task EXCEPT ![t] =
              [stage |-> "consumed", permit |-> p, args |-> c,
               approved |-> b, request |-> NoApproval]]
      BY <2>2 DEF ExecuteBegin
    <3>2. task'[t].permit = p
      BY <1>0, <3>1
    <3> QED BY <1>4, <3>1, <3>2 DEF PermitsFor
  <2>3. CASE (\E v \in RawCalls : ValidateEnd(t, v)) \/ ValidateFail(t)
    <3>1. task'[t] = Idle
      BY <1>0, <2>3 DEF ValidateEnd, ValidateFail, Reset
    <3> QED BY <1>4, <3>1 DEF Idle, InFlight, ThreadStages
  <2>4. CASE Prepare(t)
    <3>1. PICK s \in {"failed", "running"} : Goto(t, s)
      BY <2>4 DEF Prepare
    <3>2. task'[t].permit = task[t].permit
      BY <1>0, <3>1 DEF Goto, Activations
    <3>3. task[t].stage \in InFlight
      BY <2>4 DEF Prepare, InFlight
    <3> QED BY <1>4, <3>2, <3>3
  <2> QED BY <2>1, <2>2, <2>3, <2>4 DEF HookStep
<1>6. \A u \in Tasks :
        /\ RunOf(u) = r
        /\ task'[u].stage \in InFlight
        /\ task'[u].permit.approved
        => \/ task[u].stage \in InFlight /\ task[u].permit.approved
           \/ \E x \in permits[r] : x.id = IdOf(u) /\ x.approved
  BY <1>2, <1>4
<1>8. \A p \in permits'[r] : p.approved =>
        \E x \in permits[r] : x.id = p.id /\ x.approved
  BY <1>3
<1> QED BY <1>0, <1>1, <1>6, <1>8, AnswerFrame

(* A worker thread keeps the permit it was given.                          *)
LEMMA AnswerThreadStep ==
  ASSUME AnswerInv, TypeOK, NEW t \in Tasks, ThreadStep(t), NEW r \in Runs
  PROVE  YesOK(r)'
<1>0. task \in [Tasks -> Activations] /\ YesOK(r)
  BY DEF TypeOK, AnswerInv
<1>1. UNCHANGED <<meant, marker, results, permits>>
  BY DEF ThreadStep, Dispatch, Refuse, ConfirmTake, ConfirmRaise, ConfirmAsk,
         EnterConfirmed, Publish, FailInside, graph, resume
<1>2. task[t].stage \in ThreadStages
  BY DEF ThreadStep, Dispatch, Refuse, ConfirmTake, ConfirmRaise, ConfirmAsk,
         EnterConfirmed, Publish, FailInside, ThreadStages
<1>3. \/ \E s \in Stages : Goto(t, s)
      \/ task' = [task EXCEPT ![t].stage = "confirming",
           ![t].request = [call |-> CallOf(t), version |-> version]]
  BY DEF ThreadStep, Dispatch, Refuse, ConfirmTake, ConfirmRaise, ConfirmAsk,
         EnterConfirmed, Revalidate, EnterTool, Publish, FailInside,
         Stages, ThreadStages, Finished
<1>4. /\ \A u \in Tasks \ {t} : task'[u] = task[u]
      /\ task'[t].permit = task[t].permit
  BY <1>0, <1>3 DEF Goto, Activations
<1>6. /\ \A u \in Tasks : RunOf(u) = r => task[u].stage \in InFlight \/ u # t
      /\ task[t].stage \in InFlight
  BY <1>2 DEF InFlight
<1>8. \A p \in permits[r] : p.approved =>
        \E x \in permits[r] : x.id = p.id /\ x.approved
  OBVIOUS
<1>9. \A u \in Tasks :
        task'[u].stage \in InFlight /\ task'[u].permit.approved
        => task[u].stage \in InFlight /\ task[u].permit.approved
  BY <1>4, <1>6
<1> QED BY <1>0, <1>1, <1>8, <1>9, AnswerFrame

(* OnlyYesRuns: nothing the framework puts into a call-tools node stands   *)
(* in for the answer of the run's own prompt.                              *)
THEOREM ApprovedCallsWereAnswered == Spec => []OnlyYesRuns
<1> USE ApprovalsAssumption, RunsAssumption DEF Assumptions
<1>1. RunInit => ApprovalInv /\ AnswerInv
  <2> SUFFICES ASSUME RunInit PROVE AnswerInv
    BY ApprovalInit
  <2>1. \A i \in Ids, r \in Runs :
          results[r][i] = "none" /\ marker[r][i] = "none"
    BY DEF RunInit, NoResults, NoAnswers
  <2>2. Idle.stage \notin InFlight
    BY DEF Idle, InFlight, ThreadStages
  <2>3. ASSUME NEW r \in Runs
        PROVE  /\ permits[r] = {}
               /\ \A t \in Tasks : task[t] = Idle
    BY DEF RunInit
  <2> QED BY <2>1, <2>2, <2>3 DEF AnswerInv, YesOK
<1>2. ApprovalInv /\ AnswerInv /\ [Next]_vars => ApprovalInv' /\ AnswerInv'
  <2> SUFFICES ASSUME ApprovalInv, AnswerInv, [Next]_vars
               PROVE  ApprovalInv' /\ AnswerInv'
    OBVIOUS
  <2>1. ApprovalInv' /\ TypeOK /\ TypeOK'
    BY ApprovalNext DEF ApprovalInv
  <2>2. CASE \E r \in Runs : RunStep(r)
    BY <2>1, <2>2, AnswerRunStep
  <2>3. CASE \E t \in Tasks : HookStep(t) \/ ThreadStep(t)
    BY <2>1, <2>3, AnswerHookStep, AnswerThreadStep DEF AnswerInv
  <2>4. CASE \/ \E i \in Ids : DiscardApproval(i)
             \/ RecordElsewhere
             \/ UNCHANGED vars
    <3>1. UNCHANGED <<meant, marker, results, permits, task>>
      BY <2>4 DEF DiscardApproval, RecordElsewhere, vars, graph, resume
    <3> QED BY <2>1, <3>1 DEF AnswerInv, YesOK
  <2> QED BY <2>1, <2>2, <2>3, <2>4 DEF Next
<1>3. AnswerInv /\ ApprovalInv => OnlyYesRuns
  <2> SUFFICES ASSUME AnswerInv, NEW t \in Tasks, task[t].stage = "inside",
                      task[t].permit.approved
               PROVE  meant[RunOf(t)][IdOf(t)] # NoApproval
    BY DEF OnlyYesRuns
  <2>1. RunOf(t) \in Runs /\ task[t].stage \in InFlight
    BY DEF Tasks, RunOf, InFlight, ThreadStages
  <2> QED BY <2>1 DEF AnswerInv, YesOK
<1> QED BY <1>1, <1>2, <1>3, PTL DEF Spec

---------------------------------------------------------------------------
(* The session's budget. *)

(* PendingWithinBudget: only a call that asks adds an approval, under the  *)
(* lock that looked for room; for any finite set of ids.                   *)
THEOREM BudgetIsKept ==
  ASSUME IsFiniteSet(Ids)
  PROVE  Spec => []PendingWithinBudget
<1> USE ApprovalsAssumption, RunsAssumption DEF Assumptions
<1>0. ASSUME NEW S \in SUBSET Ids
      PROVE  IsFiniteSet(S) /\ Cardinality(S) \in Nat
  BY FS_Subset, FS_CardinalityType
<1>1. RunInit => ApprovalInv /\ PendingWithinBudget
  <2> SUFFICES ASSUME RunInit PROVE PendingWithinBudget
    BY ApprovalInit
  <2>1. PendingIds = {}
    BY DEF RunInit, Init, PendingIds
  <2> QED BY <2>1, FS_EmptySet DEF PendingWithinBudget, ApprovalsAssumption
<1>2. ApprovalInv /\ PendingWithinBudget /\ [Next]_vars
        => ApprovalInv' /\ PendingWithinBudget'
  <2> SUFFICES ASSUME ApprovalInv, PendingWithinBudget, [Next]_vars
               PROVE  PendingWithinBudget'
    BY ApprovalNext
  <2>0. pending \in [Ids -> Approvals \cup {NoApproval}]
    BY DEF ApprovalInv, TypeOK
  <2>1. PendingIds \in SUBSET Ids /\ PendingIds' \in SUBSET Ids
    BY DEF PendingIds
  <2>2. CASE PendingIds' \subseteq PendingIds
    <3>1. Cardinality(PendingIds') <= Cardinality(PendingIds)
      BY <1>0, <2>1, <2>2, FS_Subset
    <3> QED BY <1>0, <2>1, <3>1
            DEF PendingWithinBudget, ApprovalsAssumption
  <2>3. ASSUME NEW t \in Tasks, ConfirmAsk(t),
               ~(PendingIds' \subseteq PendingIds)
        PROVE  PendingWithinBudget'
    <3> DEFINE i == IdOf(t)
    <3>1. pending' = [pending EXCEPT ![i] = task[t].request] \/ pending' = pending
      BY <2>3 DEF ConfirmAsk, Ask, Put
    <3>2. pending[i] = NoApproval /\ PendingIds' \subseteq PendingIds \cup {i}
      BY <2>0, <2>3, <3>1 DEF PendingIds
    <3>3. Cardinality(PendingIds) < MaxPending
      BY <1>0, <2>1, <2>3, <3>2 DEF ConfirmAsk, CannotAsk, PendingWithinBudget
    <3>0. IsFiniteSet(PendingIds) /\ Cardinality(PendingIds) \in Nat
      BY <1>0, <2>1, FS_CardinalityType
    <3> HIDE DEF i
    <3>4. /\ Cardinality(PendingIds \cup {i}) = Cardinality(PendingIds)
            \/ Cardinality(PendingIds \cup {i}) = Cardinality(PendingIds) + 1
          /\ IsFiniteSet(PendingIds \cup {i})
      BY <3>0, FS_AddElement
    <3>5. IsFiniteSet(PendingIds \cup {i})
      BY <3>4
    <3>6. Cardinality(PendingIds') <= Cardinality(PendingIds \cup {i})
      BY <3>2, <3>5, FS_Subset
    <3> QED BY <1>0, <2>1, <3>0, <3>3, <3>4, <3>5, <3>6, FS_CardinalityType
            DEF PendingWithinBudget, ApprovalsAssumption
  <2>4. \/ PendingIds' \subseteq PendingIds
        \/ \E t \in Tasks : ConfirmAsk(t)
    <3>1. \/ \A i \in Ids : pending'[i] \in {pending[i], NoApproval}
          \/ \E t \in Tasks : ConfirmAsk(t)
      <4>1. CASE \E r \in Runs : RunStep(r)
        BY <4>1 DEF RunStep, Abandon, MintPermits, StartRequest, ReadAgain,
                    Advance, Reconcile, ReleaseDenied, StartPrompt, StartCalls
      <4>2. ASSUME NEW t \in Tasks, HookStep(t)
            PROVE  \/ pending' = pending
                   \/ \E j : pending' = [pending EXCEPT ![j] = NoApproval]
        BY <4>2 DEF HookStep, ValidateBegin, ExecuteBegin, ValidateEnd,
                    ValidateFail, Prepare, Put
      <4>3. ASSUME NEW t \in Tasks, ThreadStep(t)
            PROVE  \/ pending' = pending
                   \/ \E j : pending' = [pending EXCEPT ![j] = NoApproval]
                   \/ ConfirmAsk(t)
        BY <4>3 DEF ThreadStep, Dispatch, Refuse, ConfirmTake, Take, Put,
                    ConfirmRaise, EnterConfirmed, Publish, FailInside
      <4>4. CASE \/ \E i \in Ids : DiscardApproval(i)
                 \/ RecordElsewhere
                 \/ UNCHANGED vars
        <5>1. \/ pending' = pending
              \/ \E j : pending' = [pending EXCEPT ![j] = NoApproval]
          BY <4>4 DEF DiscardApproval, Discard, Put, RecordElsewhere, vars
        <5> QED BY <2>0, <5>1
      <4> QED BY <2>0, <4>1, <4>2, <4>3, <4>4 DEF Next
    <3> QED BY <3>1 DEF PendingIds
  <2> QED BY <2>2, <2>3, <2>4
<1> QED BY <1>1, <1>2, PTL DEF Spec
=============================================================================
