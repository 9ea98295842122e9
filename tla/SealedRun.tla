----------------------------- MODULE SealedRun -----------------------------
(***************************************************************************)
(* How PydanticAuthorityAgent keeps its runs to one path: the entry grant  *)
(* of iter, the seals of a run, the transition under which its graph       *)
(* advances, and the tool managers that succeed one another.               *)
(*                                                                         *)
(* The grant and the transition are context variables.  A task has its own *)
(* context, and a task it creates starts with a copy: a copied value       *)
(* outlives whatever the first task does with its own.  A task is inside   *)
(* nested blocks, each of which puts back on leaving what it found.        *)
(*                                                                         *)
(* Seals name parts by identity.  Whether a run still has the parts it was *)
(* sealed with, and the agent its own, is one bit for each layer; the      *)
(* application, which holds the objects, may change a part and change it   *)
(* back.  What an advancing graph changes itself is its next node, of      *)
(* which the seal keeps a stamp.                                           *)
(***************************************************************************)
EXTENDS Integers, Sequences

CONSTANTS
  Tasks,
  Main,          \* the tasks there are from the start
  Runs,          \* a run is also the token of its seals
  Nodes,         \* the node objects each run can meet
  Managers,      \* the tool managers that can be made for its steps
  FirstManager,  \* the tool manager a run begins with
  None,
  MaxDepth,      \* bound on the blocks each task is in
  MaxEdits,      \* bound on the application's changes behind the seals
  Changeable     \* and on the layers of a run that they reach

\* the layers of a run, each verified with those before it: the capability
\* root, the tool managers, the graph's dependencies, and the run with its
\* graph and iterator
Layers == {"root", "manager", "deps", "run"}

AllManagers == UNION {Managers[r] : r \in Runs}

ASSUME SealedRunAssumption ==
  /\ Main \subseteq Tasks
  /\ None \notin Runs \cup Tasks \cup (Runs \X Tasks)
  /\ \A r \in Runs : None \notin Nodes[r] \cup Managers[r]
  /\ \A r \in Runs : FirstManager \notin Managers[r]
  /\ \A r, q \in Runs : r # q => Managers[r] \cap Managers[q] = {}
  /\ MaxDepth \in [Tasks -> Nat]
  /\ MaxEdits \in Nat
  /\ Changeable \subseteq Layers

VARIABLES
  alive,      \* the tasks there are
  entry,      \* _AGENT_ITER_ENTRY in each task: the run the grant is for
  active,     \* _AGENT_RUN_TRANSITION in each task: run and driver
  blocks,     \* what each task is inside, innermost first
  phase,      \* how far each run is
  owner,      \* the task that entered it, as its grant says
  boundary,   \* the agent has the parts it was sealed with
  changed,    \* the layers of each run that lost a part
  next,       \* the next node of its graph
  stamp,      \* the same, as the seal has it
  started,    \* the last node that was claimed: started_node
  manager,    \* the tool manager of its graph
  origin,     \* the manager each manager was made from
  edits,      \* bound: changes behind the seals so far
  begun,      \* history: the tasks that began a base run on each grant
  inherited,  \* history: the context a task was created with
  placed,     \* history: the node a refresh found next, and those that
              \* became it since while a transition was in progress
  starter,    \* history: the task that claimed started_node
  line        \* history: the managers each graph has had

contexts == <<alive, entry, active, blocks, inherited>>
seals == <<boundary, changed, edits>>
graph == <<next, stamp, started, placed, starter>>
managers == <<manager, origin, line>>
vars == <<contexts, phase, owner, begun, seals, graph, managers>>

\* how far a run is: being set up, with its root, with the seal of the run
Setup == {"granted", "begun", "resolved", "equipped"}
Rooted == {"resolved", "equipped", "open", "closing", "closed"}
Sealed == {"open", "closing", "closed"}

\* _verify_tool_boundary: the agent's capabilities, tools and overrides
AgentVerified == boundary

\* _verify_run_tree, _verify_tool_manager, _verify_graph_deps, and the parts
\* _verify_agent_run compares itself
RootVerified(r) == "root" \notin changed[r]
ManagersVerified(r) == RootVerified(r) /\ "manager" \notin changed[r]
DepsVerified(r) == ManagersVerified(r) /\ "deps" \notin changed[r]
RunVerified(r) == DepsVerified(r) /\ "run" \notin changed[r]

\* a block and the value of the context variable it will put back
Block(kind, r, old) == [kind |-> kind, run |-> r, old |-> old]
Top(t) == Head(blocks[t])
IsIn(t, kind) == blocks[t] # <<>> /\ Top(t).kind = kind
Enter(t, b) == blocks' = [blocks EXCEPT ![t] = <<b>> \o @]

\* the application's code runs in t: in no block, in the body of an iter,
\* or in a tool or callback of a step
Free(t) ==
  /\ t \in alive
  /\ Len(blocks[t]) < MaxDepth[t]
  /\ \/ blocks[t] = <<>>
     \/ IsIn(t, "step")
     \/ IsIn(t, "iter") /\ phase[Top(t).run] = "open"

Init ==
  /\ alive = Main
  /\ entry = [t \in Tasks |-> None]
  /\ active = [t \in Tasks |-> None]
  /\ blocks = [t \in Tasks |-> <<>>]
  /\ phase = [r \in Runs |-> "none"]
  /\ owner = [r \in Runs |-> None]
  /\ boundary = TRUE
  /\ changed = [r \in Runs |-> {}]
  /\ next = [r \in Runs |-> None]
  /\ stamp = [r \in Runs |-> None]
  /\ started = [r \in Runs |-> None]
  /\ manager = [r \in Runs |-> None]
  /\ origin = [m \in AllManagers |-> None]
  /\ edits = 0
  /\ begun = [r \in Runs |-> <<>>]
  /\ inherited = [t \in Tasks |-> [entry |-> None, active |-> None]]
  /\ placed = [r \in Runs |-> {}]
  /\ starter = [r \in Runs |-> None]
  /\ line = [r \in Runs |-> <<>>]

\* a task is created, at any moment: asyncio copies the context
Spawn(t, c) ==
  /\ t \in alive
  /\ c \notin alive
  /\ alive' = alive \cup {c}
  /\ entry' = [entry EXCEPT ![c] = entry[t]]
  /\ active' = [active EXCEPT ![c] = active[t]]
  /\ inherited' =
       [inherited EXCEPT ![c] = [entry |-> entry[t], active |-> active[t]]]
  /\ UNCHANGED <<blocks, phase, owner, begun, seals, graph, managers>>

---------------------------------------------------------------------------
(* Entering a run. *)

\* iter, until the grant is minted: nothing it does before can change what
\* the grant allows, and all of it fails before there is one
EnterIter(t, r) ==
  /\ Free(t)
  /\ phase[r] = "none"
  /\ AgentVerified
  /\ phase' = [phase EXCEPT ![r] = "granted"]
  /\ owner' = [owner EXCEPT ![r] = t]
  /\ Enter(t, Block("iter", r, entry[t]))
  /\ entry' = [entry EXCEPT ![t] = r]
  /\ UNCHANGED <<alive, active, inherited, begun, seals, graph, managers>>

\* the base run the iter of t is waiting for, if that is who asks
Continues(t, r) ==
  phase' = [phase EXCEPT ![r] =
              IF IsIn(t, "iter") /\ Top(t).run = r /\ @ = "granted"
              THEN "begun" ELSE @]

\* defect: the grant is good in any task that has it
BaseRunWithGrant(t) ==
  \E r \in Runs :
    /\ AgentVerified
    /\ entry[t] = r
    /\ entry' = [entry EXCEPT ![t] = None]
    /\ begun' = [begun EXCEPT ![r] = Append(@, t)]
    /\ Continues(t, r)
    /\ UNCHANGED <<alive, active, blocks, inherited, owner, seals, graph,
                   managers>>

\* Agent.iter asks for its capability: the iter of t does, and so does any
\* task that calls the base method itself
BaseRun(t) ==
  \E r \in Runs :
    /\ AgentVerified
    /\ entry[t] = r
    /\ owner[r] = t
    /\ entry' = [entry EXCEPT ![t] = None]
    /\ begun' = [begun EXCEPT ![r] = Append(@, t)]
    /\ Continues(t, r)
    /\ UNCHANGED <<alive, active, blocks, inherited, owner, seals, graph,
                   managers>>

\* the iter of t goes on with its set-up
Stage(t, from, to) ==
  /\ IsIn(t, "iter")
  /\ phase[Top(t).run] = from
  /\ phase' = [phase EXCEPT ![Top(t).run] = to]
  /\ UNCHANGED <<contexts, owner, begun, boundary, edits>>

\* the seal of a run's root takes it as it is
PinRoot(r) == changed' = [changed EXCEPT ![r] = {}]

\* the run's capabilities are made, by way of the session getter and of
\* awaits; the agent is looked at before and after
Resolve(t) ==
  /\ Stage(t, "begun", "resolved")
  /\ AgentVerified
  /\ PinRoot(Top(t).run)
  /\ UNCHANGED <<graph, managers>>

GetToolset(t) ==
  /\ Stage(t, "resolved", "equipped")
  /\ AgentVerified
  /\ UNCHANGED <<changed, graph, managers>>

\* the graph's dependencies are sealed, with the run's first tool manager
PinGraph(r) ==
  /\ ManagersVerified(r)
  /\ manager' = [manager EXCEPT ![r] = FirstManager]
  /\ line' = [line EXCEPT ![r] = <<FirstManager>>]

\* the run and its graph are sealed, with a stamp of the first node
PinRun(r) ==
  /\ RunVerified(r)
  /\ \E n \in Nodes[r] :
       /\ next' = [next EXCEPT ![r] = n]
       /\ stamp' = [stamp EXCEPT ![r] = n]
       /\ placed' = [placed EXCEPT ![r] = {n}]

\* the run is pinned and handed to the application
Pin(t) ==
  /\ Stage(t, "equipped", "open")
  /\ PinGraph(Top(t).run)
  /\ PinRun(Top(t).run)
  /\ UNCHANGED <<changed, started, starter, origin>>

\* a stage fails: the outer finally takes the grant back
SetupFails(t) ==
  /\ IsIn(t, "iter")
  /\ LET r == Top(t).run
     IN /\ phase[r] \in Setup
        /\ phase' = [phase EXCEPT ![r] = "failed"]
        /\ entry' = [entry EXCEPT ![t] = Top(t).old]
        /\ blocks' = [blocks EXCEPT ![t] = Tail(@)]
  /\ UNCHANGED <<alive, active, inherited, owner, begun, seals, graph,
                 managers>>

---------------------------------------------------------------------------
(* Driving it. *)

\* _agent_run_transition_active: by the context of the task alone
TransitionActive(t, r) == active[t] # None /\ active[t][1] = r

\* what a seal keeps of the state that an advancing graph changes
Stamp(r) == next[r]

\* _verify_agent_run, as t calls it
Verified(t, r) ==
  /\ phase[r] \in Sealed
  /\ RunVerified(r)
  /\ TransitionActive(t, r) \/ stamp[r] = Stamp(r)

\* some task is in a transition of the run now
InTransition(r) ==
  \E t \in alive : \E i \in DOMAIN blocks[t] :
    blocks[t][i].kind \in {"step", "close"} /\ blocks[t][i].run = r

\* _guarded_agent_run_transition makes a transition of the call.  Where one
\* is active in this context already, the call goes through as it is and
\* changes nothing here.
Transits(t, r) == Verified(t, r) /\ ~TransitionActive(t, r)

\* one of the run's methods that advance it, with the current node and the
\* run's own step
BeginStep(t, r) ==
  /\ Free(t)
  /\ phase[r] = "open"
  /\ Transits(t, r)
  /\ Enter(t, Block("step", r, active[t]))
  /\ active' = [active EXCEPT ![t] = <<r, t>>]
  /\ UNCHANGED <<alive, entry, inherited, phase, owner, begun, seals, graph,
                 managers>>

\* defect: a copied transition starts nodes as well
StartNodeAnywhere(t, r) ==
  /\ phase[r] = "open"
  /\ TransitionActive(t, r)
  /\ Verified(t, r)
  /\ started[r] # next[r]
  /\ started' = [started EXCEPT ![r] = next[r]]
  /\ starter' = [starter EXCEPT ![r] = t]
  /\ UNCHANGED <<contexts, phase, owner, begun, seals, next, stamp, placed,
                 managers>>

\* before_node_run: the driver of the transition claims the current node
StartNode(t, r) ==
  /\ phase[r] = "open"
  /\ active[t] = <<r, t>>
  /\ Verified(t, r)
  /\ started[r] # next[r]
  /\ started' = [started EXCEPT ![r] = next[r]]
  /\ starter' = [starter EXCEPT ![r] = t]
  /\ UNCHANGED <<contexts, phase, owner, begun, seals, next, stamp, placed,
                 managers>>

SetNext(r, n) ==
  /\ n # next[r]
  /\ next' = [next EXCEPT ![r] = n]
  /\ placed' = [placed EXCEPT ![r] = @ \cup {m \in {n} : InTransition(r)}]

\* the graph advances, or is told its next node: the graph run takes it from
\* any task in whose context a transition of the run is active
Advance(t, r) ==
  /\ t \in alive
  /\ Verified(t, r)
  /\ TransitionActive(t, r)
  /\ \E n \in Nodes[r] : SetNext(r, n)
  /\ UNCHANGED <<contexts, phase, owner, begun, seals, stamp, started,
                 starter, managers>>

\* _refresh_agent_run_seal, which fails on a run that lost a part
Refresh(r) ==
  /\ stamp' = [stamp EXCEPT ![r] = IF RunVerified(r) THEN Stamp(r) ELSE @]
  /\ placed' = [placed EXCEPT ![r] = IF RunVerified(r) THEN {next[r]} ELSE @]

\* defect: the context is put back only after a refresh that worked
EndStepIfRefreshed(t) ==
  /\ IsIn(t, "step")
  /\ Refresh(Top(t).run)
  /\ active' = [active EXCEPT ![t] = IF RunVerified(Top(t).run)
                                     THEN Top(t).old ELSE @]
  /\ blocks' = [blocks EXCEPT ![t] = Tail(@)]
  /\ UNCHANGED <<alive, entry, inherited, phase, owner, begun, seals, next,
                 started, starter, managers>>

\* the step returns or fails, at whatever point
EndStep(t) ==
  /\ IsIn(t, "step")
  /\ Refresh(Top(t).run)
  /\ active' = [active EXCEPT ![t] = Top(t).old]
  /\ blocks' = [blocks EXCEPT ![t] = Tail(@)]
  /\ UNCHANGED <<alive, entry, inherited, phase, owner, begun, seals, next,
                 started, starter, managers>>

\* the body of the iter is left.  The run is verified, and the transition
\* under which the framework writes the result begins even if that fails.
CloseBegin(t) ==
  /\ IsIn(t, "iter")
  /\ LET r == Top(t).run
     IN /\ phase[r] = "open"
        /\ phase' = [phase EXCEPT ![r] = "closing"]
        /\ Enter(t, Block("close", r, active[t]))
        /\ active' = [active EXCEPT ![t] = <<r, owner[r]>>]
  /\ UNCHANGED <<alive, entry, inherited, owner, begun, seals, graph,
                 managers>>

\* both finally blocks
CloseEnd(t) ==
  /\ IsIn(t, "close")
  /\ LET r == Top(t).run
     IN /\ phase' = [phase EXCEPT ![r] = "closed"]
        /\ Refresh(r)
        /\ active' = [active EXCEPT ![t] = Top(t).old]
        /\ entry' = [entry EXCEPT ![t] = blocks[t][2].old]
        /\ blocks' = [blocks EXCEPT ![t] = Tail(Tail(@))]
  /\ UNCHANGED <<alive, inherited, owner, begun, seals, next, started,
                 starter, managers>>

---------------------------------------------------------------------------
(* The tool managers of a run. *)

\* _verify_tool_manager: pinned for this run, and committed
ManagerOf(m, r) == m = FirstManager \/ (m \in Managers[r] /\ origin[m] # None)

\* _register_tool_manager: the seal of a manager names its predecessor
Register(m, predecessor) == origin' = [origin EXCEPT ![m] = predecessor]

\* for_run_step of a manager hands out another.  It is registered when it is
\* made and committed at the end of the same call; before that, or if it was
\* made from another than the one asked, it can be neither used nor assigned.
NextManager(r, m) ==
  /\ phase[r] \in Sealed
  /\ ManagersVerified(r)
  /\ origin[m] = None
  /\ \E asked \in Managers[r] \cup {FirstManager} :
       ManagerOf(asked, r) /\ Register(m, asked)
  /\ UNCHANGED <<contexts, phase, owner, begun, seals, graph, manager, line>>

\* defect: any manager of the run will do
SucceedsAny(r, m) == ManagerOf(m, r) /\ m # FirstManager /\ m # manager[r]

\* _validate_graph_assignment
Succeeds(r, m) == ManagerOf(m, r) /\ origin[m] = manager[r]

\* the graph takes a manager
AssignManager(r, m) ==
  /\ phase[r] \in Sealed
  /\ DepsVerified(r)
  /\ Succeeds(r, m)
  /\ manager' = [manager EXCEPT ![r] = m]
  /\ line' = [line EXCEPT ![r] = Append(@, m)]
  /\ UNCHANGED <<contexts, phase, owner, begun, seals, graph, origin>>

---------------------------------------------------------------------------
(* The application changes what it holds, behind the seals. *)

SymDiff(a, b) == (a \ b) \cup (b \ a)

Edit == edits < MaxEdits /\ edits' = edits + 1

ChangeAgent ==
  /\ Edit
  /\ boundary' = ~boundary
  /\ UNCHANGED <<contexts, phase, owner, begun, changed, graph, managers>>

ChangeRun(r) ==
  /\ Edit
  /\ phase[r] \in Rooted
  /\ \E l \in Changeable : changed' = [changed EXCEPT ![r] = SymDiff(@, {l})]
  /\ UNCHANGED <<contexts, phase, owner, begun, boundary, graph, managers>>

ChangeNext(r) ==
  /\ Edit
  /\ phase[r] \in Sealed
  /\ \E n \in Nodes[r] : SetNext(r, n)
  /\ UNCHANGED <<contexts, phase, owner, begun, boundary, changed, stamp,
                 started, starter, managers>>

Next ==
  \/ ChangeAgent
  \/ \E t \in Tasks :
       \/ BaseRun(t)
       \/ Resolve(t) \/ GetToolset(t)
       \/ Pin(t)
       \/ SetupFails(t)
       \/ EndStep(t)
       \/ CloseBegin(t) \/ CloseEnd(t)
       \/ \E c \in Tasks : Spawn(t, c)
       \/ \E r \in Runs :
            EnterIter(t, r) \/ BeginStep(t, r) \/ StartNode(t, r)
              \/ Advance(t, r)
  \/ \E r \in Runs :
       \/ ChangeRun(r) \/ ChangeNext(r)
       \/ \E m \in Managers[r] :
            NextManager(r, m) \/ AssignManager(r, m)

Spec == Init /\ [][Next]_vars

---------------------------------------------------------------------------
(* Properties. *)

\* A grant of iter begins at most one base run, and that in the task that
\* entered: not in a task that copied the context while the grant was live,
\* nor in a nested or a later call of Agent.iter.
OneRunPerEntry ==
  \A r \in Runs : begun[r] = <<>> \/ begun[r] = <<owner[r]>>

\* A node is claimed only by a task that is inside a transition of the run
\* which it began itself, and only a node that a transition put there: a
\* child with a copied context claims nothing, and a next node written when
\* no transition was in progress is never driven.
NodesStartOnTheSealedPath ==
  [][\A r \in Runs : started'[r] # started[r] =>
       /\ \E i \in DOMAIN blocks[starter'[r]] :
            blocks[starter'[r]][i].kind = "step"
              /\ blocks[starter'[r]][i].run = r
       /\ started'[r] \in placed[r]]_vars

\* After any return or failure of a step, a set-up stage or a close, and
\* whatever the run's seals say by then, a task's context says what the
\* blocks it is still in say: its innermost transition, or the one it was
\* created with, and a grant only while the iter it entered last waits.
FollowsBlocks(t) ==
  LET runs == {i \in DOMAIN blocks[t] : blocks[t][i].kind # "iter"}
      iters == {i \in DOMAIN blocks[t] : blocks[t][i].kind = "iter"}
      Innermost(is, i) == i \in is /\ \A j \in is : i <= j
  IN /\ runs = {} => active[t] = inherited[t].active
     /\ \A i \in runs :
          Innermost(runs, i) => active[t] = <<blocks[t][i].run, t>>
     /\ iters = {} => entry[t] = inherited[t].entry
     /\ \A i \in iters :
          Innermost(iters, i) =>
            entry[t] = IF phase[blocks[t][i].run] = "granted"
                       THEN blocks[t][i].run ELSE None

ContextsFollowTheStack == \A t \in alive : FollowsBlocks(t)

\* The managers a run's graph has had form one line: each was made from the
\* one it replaced, so that of two made from one at most one is taken, and
\* the graph never goes back to a manager it left.
ManagersSucceed ==
  \A r \in Runs :
    /\ \A i, j \in DOMAIN line[r] : line[r][i] = line[r][j] => i = j
    /\ \A i \in 2..Len(line[r]) : origin[line[r][i]] = line[r][i - 1]
=============================================================================
