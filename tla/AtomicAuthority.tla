-------------------------- MODULE AtomicAuthority --------------------------
(***************************************************************************)
(* What the guarded runner promises an application, without threads, locks *)
(* or callbacks: a call enters its implementation in one atomic step that  *)
(* checks its authority against everything the session has recorded, and a *)
(* result leaves the session only in the step that records it.             *)
(***************************************************************************)
EXTENDS AuthorityGate

CONSTANTS
  Calls,     \* the activations of run()
  Requests,  \* the calls they may be asked to make
  Results,   \* the value sets a tool may return
  NoRequest, \* a call not snapshotted yet
  NoApproval

VARIABLES
  status,    \* of each call
  ask,       \* the exact request of each call
  approval,  \* what a confirmation was asked for: a request and a ledger
  returned,  \* the values a call handed back to its caller
  tainted,   \* every value recorded in the session
  closed     \* the session's ledger is exhausted

vars == <<status, ask, approval, returned, tainted, closed>>

Statuses == {"pending", "running", "executed", "failed", "refused"}

Init ==
  /\ status = [c \in Calls |-> "pending"]
  /\ ask = [c \in Calls |-> NoRequest]
  /\ approval = [c \in Calls |-> NoApproval]
  /\ returned = [c \in Calls |-> {}]
  /\ tainted = {}
  /\ closed = FALSE

\* a call is fixed once: what is decided is what runs
Submit(c, r) ==
  /\ status[c] = "pending"
  /\ ask[c] = NoRequest
  /\ ask' = [ask EXCEPT ![c] = r]
  /\ UNCHANGED <<status, approval, returned, tainted, closed>>

\* a confirmation shows the exact request and is asked under one ledger
AskApproval(c) ==
  /\ status[c] = "pending"
  /\ ask[c] # NoRequest
  /\ approval[c] = NoApproval
  /\ approval' = [approval EXCEPT
                    ![c] = [request |-> ask[c], tainted |-> tainted]]
  /\ UNCHANGED <<status, ask, returned, tainted, closed>>

\* nothing of a finished call can be used again
Close(c, s) ==
  /\ status' = [status EXCEPT ![c] = s]
  /\ ask' = [ask EXCEPT ![c] = NoRequest]
  /\ approval' = [approval EXCEPT ![c] = NoApproval]

Refuse(c) ==
  /\ status[c] = "pending"
  /\ Close(c, "refused")
  /\ UNCHANGED <<returned, tainted, closed>>

\* every locked argument is a value the application declared and no tool has
\* returned
OwnsLockedArguments(r) ==
  \A n \in Bundle[r.tool].locked \cap DOMAIN r.args :
    /\ n \in DOMAIN r.trusted
    /\ r.args[n] = r.trusted[n]
    /\ r.args[n] \notin tainted

\* a risky call runs only under an approval of this request and this ledger
ApprovedIfRisky(c) ==
  NeedsConfirmation(Bundle[ask[c].tool], ask[c].args) =>
    approval[c] = [request |-> ask[c], tainted |-> tainted]

Enter(c) ==
  /\ status[c] = "pending"
  /\ ~closed
  /\ ask[c] # NoRequest
  /\ ask[c].tool \in DOMAIN Bundle
  /\ OwnsLockedArguments(ask[c])
  /\ ApprovedIfRisky(c)
  /\ status' = [status EXCEPT ![c] = "running"]
  /\ UNCHANGED <<ask, approval, returned, tainted, closed>>

Execute(c, vs) ==
  /\ status[c] = "running"
  /\ ~closed
  /\ Close(c, "executed")
  /\ returned' = [returned EXCEPT ![c] = vs]
  /\ tainted' = tainted \cup vs
  /\ UNCHANGED closed

\* an entered call that does not execute withholds its result; it may have
\* exhausted the ledger, and then nothing of it was recorded
Fail(c) ==
  /\ status[c] = "running"
  /\ Close(c, "failed")
  /\ closed' \in {closed, TRUE}
  /\ UNCHANGED <<returned, tainted>>

\* other users of the same ledger record results or exhaust it
RecordElsewhere(vs) ==
  /\ ~closed
  /\ \/ tainted' = tainted \cup vs /\ UNCHANGED closed
     \/ closed' = TRUE /\ UNCHANGED tainted
  /\ UNCHANGED <<status, ask, approval, returned>>

Next ==
  \/ \E c \in Calls :
       \/ \E r \in Requests : Submit(c, r)
       \/ AskApproval(c)
       \/ Refuse(c)
       \/ Enter(c)
       \/ \E vs \in Results : Execute(c, vs)
       \/ Fail(c)
  \/ \E vs \in Results : RecordElsewhere(vs)

Spec == Init /\ [][Next]_vars
=============================================================================
