----------------------- MODULE DirectDispatch_proofs -----------------------
(***************************************************************************)
(* dispatch() without the runner's lock is linearizable, for every bundle, *)
(* call and interleaving with the threads that record results.             *)
(***************************************************************************)
EXTENDS DirectDispatch, AuthorityGate_proofs

\* the labels found so far lie between the ledger of the start and the
\* ledger of now: trusted held then, data holds still
LookingOK ==
  phase = "looking" =>
    /\ ~atStart.saturated
    /\ call.plain
    /\ DOMAIN provenance \subseteq DOMAIN call.args
    /\ \A n \in DOMAIN provenance :
         /\ provenance[n] = "trusted" =>
              Provenance(call, n, atStart.tainted) = "trusted"
         /\ provenance[n] # "trusted" /\ ~saturated =>
              Provenance(call, n, tainted) = "data"

\* the ledger only grows
GrowthOK == atStart.tainted \subseteq tainted

LinInv == LookingOK /\ GrowthOK /\ tainted \subseteq Values

(* A label can only turn from trusted to data as the ledger grows.         *)
LEMMA LabelsDecay ==
  ASSUME NEW c, NEW n, NEW T1, NEW T2, T1 \subseteq T2
  PROVE  /\ Provenance(c, n, T2) = "trusted" => Provenance(c, n, T1) = "trusted"
         /\ Provenance(c, n, T1) \in {"data", "trusted"}
  BY DEF Provenance

(* The gate looks at the labels of the locked arguments only.              *)
LEMMA GateReadsLockedLabels ==
  ASSUME NEW tool, NEW args, NEW p1, NEW p2,
         tool \in DOMAIN Bundle =>
           \A n \in Bundle[tool].locked \cap DOMAIN args :
             p1[n] = "trusted" <=> p2[n] = "trusted"
  PROVE  Gate(tool, args, p1) = Gate(tool, args, p2)
<1>1. CASE tool \notin DOMAIN Bundle
  BY <1>1 DEF Gate
<1>2. CASE tool \in DOMAIN Bundle
  <2>1. \A n \in DOMAIN args :
          ArgAdmitted(Bundle[tool], n, args[n], p1[n])
            <=> ArgAdmitted(Bundle[tool], n, args[n], p2[n])
    BY <1>2 DEF ArgAdmitted
  <2> QED
    BY <1>2, <2>1 DEF Gate
<1> QED
  BY <1>1, <1>2

(* Nothing is being looked up initially.                                   *)
LEMMA InitLin == Init => LinInv
  BY DEF Init, LinInv, LookingOK, GrowthOK

(* Every lookup and every record keeps the labels between the two ledgers. *)
LEMMA NextLin == LinInv /\ [Next]_vars => LinInv'
<1> SUFFICES ASSUME LinInv, [Next]_vars PROVE LinInv'
  OBVIOUS
<1> USE DEF LinInv, LookingOK, GrowthOK
<1>1. ASSUME NEW c \in Requests, Begin(c) PROVE LinInv'
  BY <1>1 DEF Begin, NoProvenance
<1>2. ASSUME NEW n \in Names, Lookup(n) PROVE LinInv'
  <2> DEFINE seen == IF saturated THEN Values ELSE tainted
  <2>1. /\ provenance' = [m \in DOMAIN provenance \cup {n} |->
                            IF m = n THEN Provenance(call, n, seen)
                            ELSE provenance[m]]
        /\ phase = "looking"
        /\ n \in DOMAIN call.args
        /\ UNCHANGED <<phase, call, decision, tainted, saturated, atStart>>
    BY <1>2 DEF Lookup
  <2>2. atStart.tainted \subseteq seen
    OBVIOUS
  <2>3. Provenance(call, n, seen) = "trusted" =>
          Provenance(call, n, atStart.tainted) = "trusted"
    BY <2>2, LabelsDecay
  <2>4. Provenance(call, n, seen) # "trusted" /\ ~saturated =>
          Provenance(call, n, tainted) = "data"
    BY DEF Provenance
  <2> QED
    BY <2>1, <2>3, <2>4 DEF Provenance
<1>3. CASE Decide
  BY <1>3 DEF Decide
<1>4. ASSUME NEW v \in Values, RecordElsewhere(v) PROVE LinInv'
  BY <1>4 DEF RecordElsewhere, Provenance
<1>5. CASE UNCHANGED vars
  BY <1>5 DEF vars, Provenance
<1> QED
  BY <1>1, <1>2, <1>3, <1>4, <1>5 DEF Next

(* A decision made now from labels of several moments is the decision of   *)
(* the start or of the end.                                                *)
LEMMA DecideLinearizes ==
  ASSUME LinInv, Decide
  PROVE  \/ decision' = Dispatch(call, atStart.tainted, atStart.saturated)
         \/ decision' = Dispatch(call, tainted, saturated)
<1> DEFINE early == [n \in DOMAIN call.args |->
                       Provenance(call, n, atStart.tainted)]
           late == [n \in DOMAIN call.args |-> Provenance(call, n, tainted)]
           locked == Bundle[call.tool].locked \cap DOMAIN call.args
<1> USE DEF LinInv, LookingOK, GrowthOK
<1>1. CASE saturated
  BY <1>1 DEF Decide, Dispatch
<1>2. CASE ~saturated
  <2>1. /\ decision' = Gate(call.tool, call.args, provenance)
        /\ phase = "looking"
        /\ DOMAIN provenance = DOMAIN call.args
    BY <1>2 DEF Decide
  <2>2. /\ Dispatch(call, atStart.tainted, atStart.saturated)
             = Gate(call.tool, call.args, early)
        /\ Dispatch(call, tainted, saturated)
             = Gate(call.tool, call.args, late)
    BY <1>2, <2>1 DEF Dispatch
  <2>3. CASE /\ call.tool \in DOMAIN Bundle
             /\ \E n \in locked : provenance[n] # "trusted"
    <3>1. PICK n \in locked : provenance[n] # "trusted"
      BY <2>3
    <3>2. late[n] = "data"
      BY <1>2, <2>1, <3>1
    <3>3. /\ ~ArgAdmitted(Bundle[call.tool], n, call.args[n], provenance[n])
          /\ ~ArgAdmitted(Bundle[call.tool], n, call.args[n], late[n])
      BY <3>1, <3>2 DEF ArgAdmitted
    <3> QED
      BY <2>1, <2>2, <3>1, <3>3 DEF Gate
  <2>4. CASE \/ call.tool \notin DOMAIN Bundle
             \/ \A n \in locked : provenance[n] = "trusted"
    <3>1. call.tool \in DOMAIN Bundle =>
            \A n \in locked : early[n] = "trusted" /\ provenance[n] = "trusted"
      BY <2>1, <2>4
    <3>2. Gate(call.tool, call.args, provenance)
            = Gate(call.tool, call.args, early)
      BY <3>1, GateReadsLockedLabels
    <3> QED
      BY <2>1, <2>2, <3>2
  <2> QED
    BY <2>3, <2>4
<1> QED
  BY <1>1, <1>2

(* What is refused before any lookup is refused by an atomic dispatch too. *)
LEMMA EarlyRefusal ==
  ASSUME NEW c, NEW T, NEW S, S \/ ~c.plain \/ RejectedEarly(c)
  PROVE  Dispatch(c, T, S) = Denied
<1>1. CASE S \/ ~c.plain
  BY <1>1 DEF Dispatch
<1>2. CASE RejectedEarly(c)
  BY <1>2 DEF RejectedEarly, Dispatch, Gate, ArgAdmitted
<1> QED
  BY <1>1, <1>2

(* A decision assembled from several lookups, between which other threads  *)
(* record results, equals that of an atomic dispatch.                      *)
THEOREM DispatchIsLinearizable == Spec => Linearizable
<1> DEFINE A == phase' = "done" /\ <<phase, call>>' # <<phase, call>>
                => \/ decision' = Dispatch(call', atStart'.tainted,
                                           atStart'.saturated)
                   \/ decision' = Dispatch(call', tainted, saturated)
<1>1. LinInv /\ [Next]_vars => [A]_vars
  <2> SUFFICES ASSUME LinInv, Next PROVE A
    OBVIOUS
  <2>1. ASSUME NEW c \in Requests, Begin(c) PROVE A
    <3>1. CASE saturated \/ ~c.plain \/ RejectedEarly(c)
      BY <2>1, <3>1, EarlyRefusal DEF Begin
    <3>2. CASE ~(saturated \/ ~c.plain \/ RejectedEarly(c))
      BY <2>1, <3>2 DEF Begin
    <3> QED
      BY <3>1, <3>2
  <2>2. CASE Decide
    BY <2>2, DecideLinearizes DEF Decide
  <2>3. ASSUME NEW n \in Names, Lookup(n) PROVE A
    BY <2>3 DEF Lookup
  <2>4. ASSUME NEW v \in Values, RecordElsewhere(v) PROVE A
    BY <2>4 DEF RecordElsewhere
  <2> QED
    BY <2>1, <2>2, <2>3, <2>4 DEF Next
<1>2. Spec => []LinInv
  BY InitLin, NextLin, PTL DEF Spec
<1> QED
  BY <1>1, <1>2, PTL DEF Spec, Linearizable

---------------------------------------------------------------------------
(* What the gate allows is complete and within its bounds.                 *)
LEMMA GateAdmits ==
  ASSUME NEW tool, NEW args, NEW prov, Gate(tool, args, prov).allow
  PROVE  LET spec == Bundle[tool]
             case == args[spec.selector]
         IN  /\ \A n \in DOMAIN args :
                  n \in spec.params /\ args[n] \in spec.accepts[n]
             /\ DOMAIN args = IF spec.selector = NoName THEN spec.params
                              ELSE spec.cases[case].active
<1>1. /\ tool \in DOMAIN Bundle
      /\ ShapeOk(Bundle[tool], args)
      /\ \A n \in DOMAIN args : ArgAdmitted(Bundle[tool], n, args[n], prov[n])
  BY DEF Gate, Denied
<1> QED
  BY <1>1 DEF ShapeOk, ArgAdmitted

(* What the gate allows under a risk that needs a confirmation asks for    *)
(* it: by the tool's own list, or by the branch the call selects.          *)
LEMMA GateAsks ==
  ASSUME NEW tool, NEW args, NEW prov, Gate(tool, args, prov).allow,
         EffectiveRisk(Bundle[tool], args) \in NEEDS_CONFIRM
  PROVE  Gate(tool, args, prov).needsConfirm
<1>1. /\ tool \in DOMAIN Bundle
      /\ Gate(tool, args, prov).needsConfirm
           = NeedsConfirmation(Bundle[tool], args)
  BY GateAllows
<1>2. Bundle[tool].risk \in NEEDS_CONFIRM => Bundle[tool].confirm
  BY <1>1, BundleAssumption DEF IsFrozenTool
<1> QED
  BY <1>1, <1>2 DEF NeedsConfirmation, EffectiveRisk

DecisionOK ==
  LockedSinksAreTrusted /\ AllowedCallIsComplete /\ RiskyCallsAskFirst

(* A new decision is sound, and recording results does not touch it.       *)
LEMMA NextDecision == LinInv /\ DecisionOK /\ [Next]_vars => DecisionOK'
<1> SUFFICES ASSUME LinInv, DecisionOK, [Next]_vars PROVE DecisionOK'
  OBVIOUS
<1> USE DEF DecisionOK, LockedSinksAreTrusted, AllowedCallIsComplete,
            RiskyCallsAskFirst
<1>1. ASSUME NEW c \in Requests, Begin(c) PROVE DecisionOK'
  BY <1>1 DEF Begin, Denied
<1>2. ASSUME NEW n \in Names, Lookup(n) PROVE DecisionOK'
  BY <1>2 DEF Lookup
<1>3. CASE Decide
  <2>1. /\ phase = "looking"
        /\ DOMAIN provenance = DOMAIN call.args
        /\ UNCHANGED <<call, atStart>>
    BY <1>3 DEF Decide
  <2> SUFFICES ASSUME decision'.allow PROVE DecisionOK'
    BY <2>1
  <2>2. decision' = Gate(call.tool, call.args, provenance)
    BY <1>3 DEF Decide, Denied
  <2>3. Gate(call.tool, call.args, provenance).allow
    BY <2>2
  <2>4. \A n \in Bundle[call.tool].locked \cap DOMAIN call.args :
          provenance[n] = "trusted"
    BY <2>3, GateAllows
  <2>5. \A n \in Bundle[call.tool].locked \cap DOMAIN call.args :
          /\ n \in DOMAIN call.trusted
          /\ call.args[n] = call.trusted[n]
          /\ call.args[n] \notin atStart.tainted
    BY <2>1, <2>4, TrustedLabel DEF LinInv, LookingOK
  <2> QED
    BY <2>1, <2>2, <2>3, <2>5, GateAdmits, GateAsks
<1>4. ASSUME NEW v \in Values, RecordElsewhere(v) PROVE DecisionOK'
  BY <1>4 DEF RecordElsewhere
<1>5. CASE UNCHANGED vars
  BY <1>5 DEF vars
<1> QED
  BY <1>1, <1>2, <1>3, <1>4, <1>5 DEF Next

(* Every decision taken is sound.                                          *)
LEMMA DecisionInvariance == Spec => []DecisionOK
<1>1. Init => DecisionOK
  BY DEF Init, Denied, DecisionOK, LockedSinksAreTrusted,
         AllowedCallIsComplete, RiskyCallsAskFirst
<1>2. Spec => []LinInv
  BY InitLin, NextLin, PTL DEF Spec
<1> QED
  BY <1>1, <1>2, NextDecision, PTL DEF Spec

(* A locked argument of an allowed call carries the declared value, and    *)
(* one the ledger did not know when the dispatch began.                    *)
THEOREM SinksAreTrusted == Spec => []LockedSinksAreTrusted
  BY DecisionInvariance, PTL DEF DecisionOK

(* An allowed call binds every registered parameter, or exactly the active *)
(* ones of its case, each within its bounds.                               *)
THEOREM CallsAreComplete == Spec => []AllowedCallIsComplete
  BY DecisionInvariance, PTL DEF DecisionOK

(* Whatever tier the model selects by the selector value, an allowed call  *)
(* whose effective risk needs a confirmation asks for one.                 *)
THEOREM RiskyCallsAsk == Spec => []RiskyCallsAskFirst
  BY DecisionInvariance, PTL DEF DecisionOK
============================================================================
