--------------------------- MODULE GuardedRunner ---------------------------
(***************************************************************************)
(* GuardedToolRunner.run of verb_authority.py: threads call one runner     *)
(* over one provenance ledger.  The ledger's re-entrant lock is held from  *)
(* the final check through the implementation to the publication of its    *)
(* result, and is let go while a confirmation callback runs.               *)
(*                                                                         *)
(* A call is one activation of run().  An implementation or a callback may *)
(* call the runner again on its own thread; parent links such a nested     *)
(* activation to the one it runs inside, and current is the innermost      *)
(* activation of a thread.  The lock is re-entrant, so it is represented   *)
(* by the set of activations whose `with` block is open: the phases in     *)
(* LockedPhases are the program points inside such a block.                *)
(***************************************************************************)
EXTENDS AuthorityGate

CONSTANTS
  Threads,
  Calls,        \* activations of run(), each used once
  Requests,     \* the tool calls an application makes
  Results,      \* the value sets a tool may return, the empty set included
  Sources,      \* what _configuration_drift compares, e.g. "registry"
  Nesting,      \* whether tools and callbacks call the runner themselves
  MaxExternal,  \* bound on the records made by other users of the ledger
  NoCall,
  NoThread,
  NoRequest,
  NoApproval

\* what a confirmation commits to
Approvals == [request : Requests, version : Nat, tainted : SUBSET Values]

ASSUME RunnerAssumption ==
  /\ IsFiniteSet(Calls)
  /\ NoCall \notin Calls
  /\ NoThread \notin Threads
  /\ NoRequest \notin Requests
  /\ NoApproval \notin Approvals
  /\ Results \subseteq SUBSET Values
  /\ Nesting \in BOOLEAN
  /\ MaxExternal \in Nat

VARIABLES
  phase,      \* where each activation is in run()
  thread,     \* the thread it runs on
  parent,     \* the activation it is nested in
  current,    \* the innermost activation of each thread
  input,      \* the caller's live tool_use and trusted_args
  approved,   \* the private snapshot: approved_call, approved_trusted_args
  request,    \* what the callback was shown, and the confirmed epoch
  outcome,    \* of each finished activation
  returned,   \* the values handed back to the caller
  tainted,    \* the ledger: values it treats as tainted
  version,    \* the ledger: its epoch
  saturated,  \* the ledger: permanently closed
  edited,     \* configuration sources that differ from the frozen bundle
  externals   \* records made by other users of the ledger

ledger == <<tainted, version, saturated>>
stack == <<thread, parent, current>>
locals == <<input, approved, request>>
vars == <<phase, stack, locals, outcome, returned, ledger, edited, externals>>

\* defect: the callback is called inside the `with` block
LockedPhasesWithConfirm ==
  {"dispatching", "redispatching", "ready", "invoking", "confirming"}

\* dispatching, redispatching: lock taken, configuration compared.  ready:
\* decided, about to enter.  invoking: inside the implementation.
LockedPhases == {"dispatching", "redispatching", "ready", "invoking"}

Phases == {"idle", "entered", "waiting", "confirming", "confirmed", "done"}
            \cup LockedPhases

Outcomes == {"none", "denied", "unconfirmed", "raised", "executed", "failed",
             "interrupted"}

Init ==
  /\ phase = [c \in Calls |-> "idle"]
  /\ thread = [c \in Calls |-> NoThread]
  /\ parent = [c \in Calls |-> NoCall]
  /\ current = [t \in Threads |-> NoCall]
  /\ input = [c \in Calls |-> NoRequest]
  /\ approved = [c \in Calls |-> NoRequest]
  /\ request = [c \in Calls |-> NoApproval]
  /\ outcome = [c \in Calls |-> "none"]
  /\ returned = [c \in Calls |-> {}]
  /\ tainted = {}
  /\ version = 0
  /\ saturated = FALSE
  /\ edited = {}
  /\ externals = 0

---------------------------------------------------------------------------
Holders == {c \in Calls : phase[c] \in LockedPhases}

\* defect: each run() takes a lock of its own instead of the ledger's
CanAcquireUnguarded(t) == TRUE

\* the RLock is free, or already owned by this thread
CanAcquire(t) == \A c \in Holders : thread[c] = t

\* application code is running on t: outside any run(), or inside the
\* implementation or callback of t's innermost one
InApplication(t) ==
  current[t] # NoCall => /\ Nesting
                         /\ phase[current[t]] \in {"confirming", "invoking"}

Goto(c, p) == phase' = [phase EXCEPT ![c] = p]

\* the activation returns o, or propagates an exception; its locals are gone
Finish(c, o) ==
  /\ Goto(c, "done")
  /\ outcome' = [outcome EXCEPT ![c] = o]
  /\ current' = [current EXCEPT ![thread[c]] = parent[c]]
  /\ thread' = [thread EXCEPT ![c] = NoThread]
  /\ parent' = [parent EXCEPT ![c] = NoCall]
  /\ input' = [input EXCEPT ![c] = NoRequest]
  /\ approved' = [approved EXCEPT ![c] = NoRequest]
  /\ request' = [request EXCEPT ![c] = NoApproval]

Drifted == edited # {} \/ saturated

Decision(c) == Dispatch(approved[c], tainted, saturated)

\* the session's ledger, over this module's tainted, version and saturated
Ledger == INSTANCE SessionLedger

---------------------------------------------------------------------------
\* the application calls run(r) on thread t
Start(t, c, r) ==
  /\ phase[c] = "idle"
  /\ InApplication(t)
  /\ Goto(c, "entered")
  /\ thread' = [thread EXCEPT ![c] = t]
  /\ parent' = [parent EXCEPT ![c] = current[t]]
  /\ current' = [current EXCEPT ![t] = c]
  /\ input' = [input EXCEPT ![c] = r]
  /\ UNCHANGED <<approved, request, outcome, returned, ledger, edited,
                 externals>>

\* the drift check before the lock, then the snapshot of the call.  Reading
\* `saturated` takes the lock for a moment, unless the ledger alias is
\* already known to be replaced.
Snapshot(c) ==
  /\ phase[c] = "entered"
  /\ "ledger" \in edited \/ CanAcquire(thread[c])
  /\ IF Drifted \/ ~input[c].plain
     THEN Finish(c, "denied")
     ELSE /\ Goto(c, "waiting")
          /\ approved' = [approved EXCEPT ![c] = input[c]]
          /\ UNCHANGED <<stack, input, request, outcome>>
  /\ UNCHANGED <<returned, ledger, edited, externals>>

\* the first `with` block opens with the drift check
Check(c) ==
  /\ phase[c] = "waiting"
  /\ CanAcquire(thread[c])
  /\ IF Drifted THEN Finish(c, "denied")
     ELSE Goto(c, "dispatching") /\ UNCHANGED <<stack, locals, outcome>>
  /\ UNCHANGED <<returned, ledger, edited, externals>>

\* a decision not to run the tool: the gate denies, the tool has no plain
\* synchronous implementation, or the function object was modified after the
\* drift check and its signature or identity no longer matches
DecideNo(c) ==
  /\ phase[c] = "dispatching"
  /\ \/ ~Decision(c).allow
     \/ Decision(c).allow /\ Bundle[approved[c].tool].fn # "plain"
     \/ "registry" \in edited
  /\ Finish(c, "denied")
  /\ UNCHANGED <<returned, ledger, edited, externals>>

Allowed(c) == Decision(c).allow /\ Bundle[approved[c].tool].fn = "plain"

DecideYes(c) ==
  /\ phase[c] = "dispatching"
  /\ Allowed(c)
  /\ ~Decision(c).needsConfirm
  /\ Goto(c, "ready")
  /\ UNCHANGED <<stack, locals, outcome, returned, ledger, edited,
                 externals>>

\* confirmation is required and no callback was supplied
DecideUnconfirmed(c) ==
  /\ phase[c] = "dispatching"
  /\ Allowed(c)
  /\ Decision(c).needsConfirm
  /\ ~approved[c].confirm
  /\ Finish(c, "unconfirmed")
  /\ UNCHANGED <<returned, ledger, edited, externals>>

\* defect: the request commits to the epoch before this one
AskConfirmationEarlierEpoch(c) ==
  /\ phase[c] = "dispatching"
  /\ Allowed(c)
  /\ Decision(c).needsConfirm
  /\ approved[c].confirm
  /\ Goto(c, "confirming")
  /\ request' = [request EXCEPT
                   ![c] = [request |-> approved[c], version |-> version - 1,
                           tainted |-> tainted]]
  /\ UNCHANGED <<stack, input, approved, outcome, returned, ledger, edited,
                 externals>>

\* the request is built under the lock, which is then let go
AskConfirmation(c) ==
  /\ phase[c] = "dispatching"
  /\ Allowed(c)
  /\ Decision(c).needsConfirm
  /\ approved[c].confirm
  /\ Goto(c, "confirming")
  /\ request' = [request EXCEPT
                   ![c] = [request |-> approved[c], version |-> version,
                           tainted |-> tainted]]
  /\ UNCHANGED <<stack, input, approved, outcome, returned, ledger, edited,
                 externals>>

\* the callback returns exactly True
ConfirmTrue(c) ==
  /\ phase[c] = "confirming"
  /\ current[thread[c]] = c
  /\ Goto(c, "confirmed")
  /\ UNCHANGED <<stack, locals, outcome, returned, ledger, edited,
                 externals>>

\* it returns anything else, an awaitable that is refused, or it raises and
\* the exception leaves run()
ConfirmOther(c) ==
  /\ phase[c] = "confirming"
  /\ current[thread[c]] = c
  /\ \E o \in {"unconfirmed", "denied", "raised"} : Finish(c, o)
  /\ UNCHANGED <<returned, ledger, edited, externals>>

\* the second `with` block opens with the drift check
Recheck(c) ==
  /\ phase[c] = "confirmed"
  /\ CanAcquire(thread[c])
  /\ IF Drifted THEN Finish(c, "denied")
     ELSE Goto(c, "redispatching") /\ UNCHANGED <<stack, locals, outcome>>
  /\ UNCHANGED <<returned, ledger, edited, externals>>

\* the call is dispatched again, and the approval must be of this epoch
RevalidateNo(c) ==
  /\ phase[c] = "redispatching"
  /\ \/ ~Decision(c).allow
     \/ version # request[c].version
     \/ "registry" \in edited
  /\ Finish(c, "denied")
  /\ UNCHANGED <<returned, ledger, edited, externals>>

\* defect: the second dispatch is trusted to notice every change
RevalidateYesAnyEpoch(c) ==
  /\ phase[c] = "redispatching"
  /\ Decision(c).allow
  /\ Goto(c, "ready")
  /\ UNCHANGED <<stack, locals, outcome, returned, ledger, edited,
                 externals>>

\* defect: the second dispatch reads the caller's dictionary again
RevalidateYesLive(c) ==
  /\ phase[c] = "redispatching"
  /\ Dispatch(input[c], tainted, saturated).allow
  /\ version = request[c].version
  /\ Goto(c, "ready")
  /\ approved' = [approved EXCEPT ![c] = input[c]]
  /\ UNCHANGED <<stack, input, request, outcome, returned, ledger, edited,
                 externals>>

RevalidateYes(c) ==
  /\ phase[c] = "redispatching"
  /\ Decision(c).allow
  /\ version = request[c].version
  /\ Goto(c, "ready")
  /\ UNCHANGED <<stack, locals, outcome, returned, ledger, edited,
                 externals>>

\* implementation(**input)
Enter(c) ==
  /\ phase[c] = "ready"
  /\ Goto(c, "invoking")
  /\ UNCHANGED <<stack, locals, outcome, returned, ledger, edited,
                 externals>>

---------------------------------------------------------------------------
Invoked(c) == phase[c] = "invoking" /\ current[thread[c]] = c

\* defect: the result is returned although it could not be recorded
PublishUnrecorded(c, vs) ==
  /\ Invoked(c)
  /\ Finish(c, "executed")
  /\ returned' = [returned EXCEPT ![c] = vs]
  /\ IF saturated THEN UNCHANGED ledger ELSE Ledger!Record(vs)
  /\ UNCHANGED <<edited, externals>>

\* the implementation returned plain JSON: record it, then hand it back
Publish(c, vs) ==
  /\ Invoked(c)
  /\ Ledger!Record(vs)
  /\ returned' = [returned EXCEPT ![c] = vs]
  /\ Finish(c, "executed")
  /\ UNCHANGED <<edited, externals>>

\* the result does not fit, or a nested call already closed the ledger
Overflow(c) ==
  /\ Invoked(c)
  /\ Ledger!Saturate
  /\ Finish(c, "failed")
  /\ UNCHANGED <<returned, edited, externals>>

\* the implementation raised, its result was no plain JSON, or recording
\* failed for another reason; or a BaseException passed through
Fail(c) ==
  /\ Invoked(c)
  /\ \E o \in {"failed", "interrupted"} : Finish(c, o)
  /\ UNCHANGED <<returned, ledger, edited, externals>>

---------------------------------------------------------------------------
\* another user of the ledger on thread t: application code that records a
\* result itself, or a second runner that shares the ledger
RecordElsewhere(t, vs) ==
  /\ InApplication(t)
  /\ CanAcquire(t)
  /\ ~saturated
  /\ externals < MaxExternal
  /\ \/ Ledger!Record(vs) /\ externals' = externals + 1
     \/ Ledger!Saturate /\ UNCHANGED externals
  /\ UNCHANGED <<phase, stack, locals, outcome, returned, edited>>

\* trusted code edits the registry, the policy or the ledger alias, without
\* any lock; an edit in place can be undone
Edit(s) ==
  /\ edited' = edited \cup {s}
  /\ UNCHANGED <<phase, stack, locals, outcome, returned, ledger, externals>>

Undo(s) ==
  /\ edited' = edited \ {s}
  /\ UNCHANGED <<phase, stack, locals, outcome, returned, ledger, externals>>

\* the caller reuses its tool_use dictionary while the callback runs; at any
\* other moment after the snapshot a change is no more visible than here
MutateInput(c, r) ==
  /\ phase[c] = "confirming"
  /\ input[c].tool = r.tool
  /\ input' = [input EXCEPT ![c] = r]
  /\ UNCHANGED <<phase, stack, approved, request, outcome, returned, ledger,
                 edited, externals>>

Environment ==
  \/ \E t \in Threads, vs \in Results : RecordElsewhere(t, vs)
  \/ \E s \in Sources : Edit(s) \/ Undo(s)
  \/ \E c \in Calls, r \in Requests : MutateInput(c, r)

\* the steps the runner and the tools take on their own; a confirmation
\* callback need never answer
Progress(c) ==
  \/ Snapshot(c)
  \/ Check(c)
  \/ DecideNo(c) \/ DecideYes(c) \/ DecideUnconfirmed(c) \/ AskConfirmation(c)
  \/ Recheck(c)
  \/ RevalidateNo(c) \/ RevalidateYes(c)
  \/ Enter(c)
  \/ \E vs \in Results : Publish(c, vs)
  \/ Overflow(c)
  \/ Fail(c)

Next ==
  \/ \E t \in Threads, c \in Calls, r \in Requests : Start(t, c, r)
  \/ \E c \in Calls : Progress(c) \/ ConfirmTrue(c) \/ ConfirmOther(c)
  \/ Environment

Spec == Init /\ [][Next]_vars

FairSpec == Spec /\ \A c \in Calls : WF_vars(Progress(c))

---------------------------------------------------------------------------
TypeOK ==
  /\ phase \in [Calls -> Phases]
  /\ thread \in [Calls -> Threads \cup {NoThread}]
  /\ parent \in [Calls -> Calls \cup {NoCall}]
  /\ current \in [Threads -> Calls \cup {NoCall}]
  /\ input \in [Calls -> Requests \cup {NoRequest}]
  /\ approved \in [Calls -> Requests \cup {NoRequest}]
  /\ request \in [Calls -> Approvals \cup {NoApproval}]
  /\ outcome \in [Calls -> Outcomes]
  /\ returned \in [Calls -> SUBSET Values]
  /\ tainted \subseteq Values
  /\ version \in Nat
  /\ saturated \in BOOLEAN
  /\ edited \subseteq Sources
  /\ externals \in 0..MaxExternal

(* The session lock serializes final check, invocation and publication: two *)
(* activations inside their `with` blocks are on one thread, nested in one *)
(* another, however runners, confirmations and nested calls interleave.    *)
OneThreadInside == \A c, d \in Holders : thread[c] = thread[d]

Locked(r) == Bundle[r.tool].locked \cap DOMAIN r.args

(* No value that any finished call has handed back to its caller reaches a *)
(* locked argument of a call about to be invoked, even when that call was  *)
(* first decided before the value was recorded (the decision-to-execution  *)
(* gap of run, verb_authority.py:4140 and 4222).                           *)
NoLaunderedEntry ==
  \A c, d \in Calls : phase[c] = "ready" =>
    /\ ~saturated
    /\ \A n \in Locked(approved[c]) : approved[c].args[n] \notin returned[d]

(* A risky call about to be invoked was approved as exactly the call that  *)
(* is invoked, under exactly the ledger contents of this moment, whatever  *)
(* the caller did to its dictionary and other threads did to the ledger    *)
(* while the callback ran outside the lock.                                *)
ApprovalIsCurrent ==
  \A c \in Calls :
    phase[c] = "ready" /\ NeedsConfirmation(Bundle[approved[c].tool],
                                           approved[c].args)
    => /\ request[c] # NoApproval
       /\ request[c].request = approved[c]
       /\ request[c].tainted = tainted

(* The epoch counts the publications: one for each executed call and each  *)
(* record by another user, one more for the failure that closed the ledger *)
(* and none for a denial, a failure or a retried failure.  An approval     *)
(* compares epochs, so an epoch must never stand for two ledger contents.  *)
EpochCountsPublications ==
  version = Cardinality({c \in Calls : outcome[c] = "executed"})
              + externals + (IF saturated THEN 1 ELSE 0)

(* A result reaches the caller only once the ledger holds it: an executed  *)
(* call's values are tainted, and every other outcome withholds them.      *)
ReturnedResultsAreTainted ==
  \A c \in Calls :
    /\ returned[c] \subseteq tainted
    /\ outcome[c] # "executed" => returned[c] = {}

(* A confirmation callback runs without the session lock held by its       *)
(* thread, as the class documentation says (verb_authority.py:3864).       *)
ConfirmationRunsUnlocked ==
  \A c, d \in Calls :
    phase[c] = "confirming" /\ d \in Holders => thread[d] # thread[c]

(* Every call that started either returns or waits for its own human: a    *)
(* confirmation that is never answered blocks no other call, and a         *)
(* confirmed call always reaches a final answer.                           *)
CallsFinish ==
  \A c \in Calls :
    /\ phase[c] = "entered" ~> phase[c] \in {"confirming", "done"}
    /\ phase[c] = "confirmed" ~> phase[c] = "done"

---------------------------------------------------------------------------
(* The refinement mapping to the atomic promise.                           *)
AbstractStatus(c) ==
  CASE phase[c] = "invoking" -> "running"
    [] outcome[c] = "executed" -> "executed"
    [] outcome[c] \in {"failed", "interrupted"} -> "failed"
    [] outcome[c] = "none" /\ phase[c] # "invoking" -> "pending"
    [] OTHER -> "refused"

AbstractApproval(c) ==
  IF request[c] = NoApproval THEN NoApproval
  ELSE [request |-> request[c].request, tainted |-> request[c].tainted]

Atomic == INSTANCE AtomicAuthority WITH
  status <- [c \in Calls |-> AbstractStatus(c)],
  ask <- approved,
  approval <- [c \in Calls |-> AbstractApproval(c)],
  closed <- saturated

(* The runner implements the atomic promise: with its locks, callbacks and *)
(* re-checks it behaves as if each call were checked against the whole     *)
(* session and entered in one step, and published in another.              *)
RefinesAtomicAuthority == Atomic!Spec
=============================================================================
