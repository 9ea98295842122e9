-------------------------- MODULE DirectDispatch --------------------------
(***************************************************************************)
(* verb_authority.dispatch used directly, without the guarded runner: the  *)
(* ledger is looked up once per argument, each time under its own short    *)
(* lock, while tool threads go on recording results.  The decision is      *)
(* therefore assembled from several ledger states.                         *)
(***************************************************************************)
EXTENDS AuthorityGate

CONSTANTS
  Requests,  \* the calls that are dispatched
  NoCall

VARIABLES
  phase,       \* "idle", "looking" or "done"
  call,        \* the private snapshot of the call being decided
  provenance,  \* what the loop over the arguments has established so far
  decision,
  tainted,     \* values the ledger treats as tainted
  saturated,
  atStart      \* history: the ledger when this dispatch began

vars == <<phase, call, provenance, decision, tainted, saturated, atStart>>

NoProvenance == [n \in {} |-> "data"]

Init ==
  /\ phase = "idle"
  /\ call = NoCall
  /\ provenance = NoProvenance
  /\ decision = Denied
  /\ tainted = {}
  /\ saturated = FALSE
  /\ atStart = [tainted |-> {}, saturated |-> FALSE]

\* unknown tools and unknown arguments are refused before any lookup
RejectedEarly(c) ==
  \/ c.tool \notin DOMAIN Bundle
  \/ ~(DOMAIN c.args \subseteq Bundle[c.tool].params)

Begin(c) ==
  /\ phase # "looking"
  /\ call' = c
  /\ provenance' = NoProvenance
  /\ decision' = Denied
  /\ atStart' = [tainted |-> tainted, saturated |-> saturated]
  /\ phase' = IF saturated \/ ~c.plain \/ RejectedEarly(c)
              THEN "done" ELSE "looking"
  /\ UNCHANGED <<tainted, saturated>>

\* a saturated ledger reports every value tainted
Lookup(n) ==
  /\ phase = "looking"
  /\ n \in DOMAIN call.args \ DOMAIN provenance
  /\ LET seen == IF saturated THEN Values ELSE tainted
     IN  provenance' = [m \in DOMAIN provenance \cup {n} |->
                          IF m = n THEN Provenance(call, n, seen)
                          ELSE provenance[m]]
  /\ UNCHANGED <<phase, call, decision, tainted, saturated, atStart>>

\* defect: the decision is taken before every argument was looked up, with
\* the arguments not yet reached taken as declared
DecideEarly ==
  /\ phase = "looking"
  /\ decision' =
       Gate(call.tool, call.args,
            [n \in DOMAIN call.args |->
               IF n \in DOMAIN provenance THEN provenance[n]
               ELSE Provenance(call, n, {})])
  /\ phase' = "done"
  /\ UNCHANGED <<call, provenance, tainted, saturated, atStart>>

\* saturation is checked again after the loop, then the gate decides
Decide ==
  /\ phase = "looking"
  /\ DOMAIN provenance = DOMAIN call.args
  /\ decision' = IF saturated THEN Denied
                 ELSE Gate(call.tool, call.args, provenance)
  /\ phase' = "done"
  /\ UNCHANGED <<call, provenance, tainted, saturated, atStart>>

\* another thread's record_result: taint only grows, and an overflow
\* saturates without recording anything
RecordElsewhere(v) ==
  /\ ~saturated
  /\ v \notin tainted
  /\ \/ tainted' = tainted \cup {v} /\ UNCHANGED saturated
     \/ saturated' = TRUE /\ UNCHANGED tainted
  /\ UNCHANGED <<phase, call, provenance, decision, atStart>>

Next ==
  \/ \E c \in Requests : Begin(c)
  \/ \E n \in Names : Lookup(n)
  \/ Decide
  \/ \E v \in Values : RecordElsewhere(v)

Spec == Init /\ [][Next]_vars

---------------------------------------------------------------------------
(* A decision assembled from several lookups equals the decision of an     *)
(* atomic dispatch against a single ledger state between its start and its *)
(* end: the ledger may grow or saturate between two arguments of the same  *)
(* call (dispatch, the loop at verb_authority.py:2623).                    *)
Linearizable ==
  [][phase' = "done" /\ <<phase, call>>' # <<phase, call>>
       => \/ decision' = Dispatch(call', atStart'.tainted, atStart'.saturated)
          \/ decision' = Dispatch(call', tainted, saturated)]_vars

(* A locked argument of an allowed call carries the exact value the        *)
(* application declared for it, and one the ledger did not know when the   *)
(* dispatch began: no laundered result authors a trusted_fixed argument.   *)
LockedSinksAreTrusted ==
  phase = "done" /\ decision.allow =>
    \A n \in Bundle[call.tool].locked \cap DOMAIN call.args :
      /\ n \in DOMAIN call.trusted
      /\ call.args[n] = call.trusted[n]
      /\ call.args[n] \notin atStart.tainted

(* An allowed call leaves the callable nothing to fill in: it binds every  *)
(* registered parameter, or exactly the active ones of its selector case,  *)
(* each within its bounds, so no implicit default carries authority.       *)
AllowedCallIsComplete ==
  phase = "done" /\ decision.allow =>
    LET spec == Bundle[call.tool]
        case == call.args[spec.selector]
    IN  /\ \A n \in DOMAIN call.args :
             n \in spec.params /\ call.args[n] \in spec.accepts[n]
        /\ DOMAIN call.args = IF spec.selector = NoName THEN spec.params
                              ELSE spec.cases[case].active

(* Whatever tier the model selects by the selector value, an allowed call  *)
(* whose effective risk is in NEEDS_CONFIRM asks for confirmation.         *)
RiskyCallsAskFirst ==
  phase = "done" /\ decision.allow
    /\ EffectiveRisk(Bundle[call.tool], call.args) \in NEEDS_CONFIRM
    => decision.needsConfirm
=============================================================================
