------------------------- MODULE PendingApprovals -------------------------
(***************************************************************************)
(* The pending approvals of a PydanticAuthoritySession: one commitment per *)
(* tool-call id, kept from the moment a guarded call asks for approval     *)
(* until the approval is used, denied, discarded or found not to fit.      *)
(* Every action is one critical section of _pending_lock.                  *)
(*                                                                         *)
(* A commitment is a hash of the tool with its arguments, its registration *)
(* and the ledger's version.  Registrations cannot change in a session, so *)
(* it is represented by the call and the version it was made from.         *)
(***************************************************************************)
EXTENDS Naturals, FiniteSets

CONSTANTS
  Ids,          \* tool-call ids
  Calls,        \* tool and canonical arguments, as the gate sees them
  MaxPending,   \* _MAX_PENDING_APPROVALS
  NoApproval

Approvals == [call : Calls, version : Nat]

ASSUME ApprovalsAssumption ==
  /\ NoApproval \notin Approvals
  /\ MaxPending \in Nat \ {0}

VARIABLE pending

Init == pending = [i \in Ids |-> NoApproval]

PendingIds == {i \in Ids : pending[i] # NoApproval}

Put(i, a) == pending' = [pending EXCEPT ![i] = a]

\* defect: an approval is good for whatever runs under its id
MatchesId(a, request) == a # NoApproval

\* _PendingApproval.matches: the whole action; matches_call: tool, arguments
Matches(a, request) == a = request
MatchesCall(a, call) == a # NoApproval /\ a.call = call

\* the callback: an approved call takes the commitment made for it
CanTake(i, request, approved) == approved /\ Matches(pending[i], request)
Take(i) == Put(i, NoApproval)

\* defect: a resume that finds its approval used asks for a new one
CannotAskWhenFull(i, approved) ==
  pending[i] = NoApproval /\ Cardinality(PendingIds) >= MaxPending

\* defect: an old approval makes room
CannotAskWhenUsed(i, approved) == approved /\ pending[i] = NoApproval

\* the callback raises: the approval was used or discarded meanwhile, or the
\* session has no room for another one
CannotAsk(i, approved) ==
  /\ pending[i] = NoApproval
  /\ approved \/ Cardinality(PendingIds) >= MaxPending

\* defect: the commitment names the epoch before
AskEarlierVersion(i, request) == Put(i, [request EXCEPT !.version = @ - 1])

\* otherwise the request is put under the id, over whatever was there
Ask(i, request) == Put(i, request)

\* discard_pending_approval
Discard(i) ==
  /\ pending[i] # NoApproval
  /\ Put(i, NoApproval)

\* the end of _reconcile_pending_results: seen are the ids that were pending
\* when the messages were read, outcome what the messages say of each
ResultForPending(seen, outcome) ==
  \E i \in seen : pending[i] # NoApproval /\ outcome[i] = "other"

ReleaseDenied(seen, outcome) ==
  pending' = [i \in Ids |->
    IF i \in seen /\ outcome[i] = "denied" THEN NoApproval ELSE pending[i]]
=============================================================================
