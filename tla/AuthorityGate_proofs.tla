----------------------- MODULE AuthorityGate_proofs -----------------------
(***************************************************************************)
(* What an allowed decision means, for every bundle, call and ledger.      *)
(***************************************************************************)
EXTENDS AuthorityGate, TLAPS

\* every locked argument of a call is the value the application declared and
\* is not one the ledger knows
OwnsLocked(call, T) ==
  \A n \in Bundle[call.tool].locked \cap DOMAIN call.args :
    /\ n \in DOMAIN call.trusted
    /\ call.args[n] = call.trusted[n]
    /\ call.args[n] \notin T

(* gate allows a call only when every locked argument carries the label    *)
(* "trusted", and asks for confirmation exactly when the policy or the     *)
(* selected branch requires it.                                            *)
LEMMA GateAllows ==
  ASSUME NEW tool, NEW args, NEW prov, Gate(tool, args, prov).allow
  PROVE  /\ tool \in DOMAIN Bundle
         /\ Gate(tool, args, prov).needsConfirm
              = NeedsConfirmation(Bundle[tool], args)
         /\ \A n \in Bundle[tool].locked \cap DOMAIN args :
              prov[n] = "trusted"
<1>1. /\ tool \in DOMAIN Bundle
      /\ ShapeOk(Bundle[tool], args)
      /\ \A n \in DOMAIN args : ArgAdmitted(Bundle[tool], n, args[n], prov[n])
  BY DEF Gate, Denied
<1>2. Gate(tool, args, prov)
        = [allow |-> TRUE,
           needsConfirm |-> NeedsConfirmation(Bundle[tool], args)]
  BY <1>1 DEF Gate
<1>3. \A n \in Bundle[tool].locked \cap DOMAIN args : prov[n] = "trusted"
  BY <1>1 DEF ArgAdmitted
<1> QED
  BY <1>1, <1>2, <1>3

(* A trusted label is given only to the exact declared value, and never to *)
(* one the ledger has recorded.                                            *)
LEMMA TrustedLabel ==
  ASSUME NEW call, NEW n, NEW T, Provenance(call, n, T) = "trusted"
  PROVE  /\ n \in DOMAIN call.trusted
         /\ call.args[n] = call.trusted[n]
         /\ call.args[n] \notin T
  BY DEF Provenance

(* No recorded value ever authors a locked argument of an allowed call,    *)
(* whatever the application declares, and an exhausted ledger allows       *)
(* nothing (dispatch, verb_authority.py:2561).                             *)
THEOREM DispatchAllows ==
  ASSUME NEW call, NEW T, NEW S, Dispatch(call, T, S).allow
  PROVE  /\ ~S
         /\ call.tool \in DOMAIN Bundle
         /\ Dispatch(call, T, S).needsConfirm
              = NeedsConfirmation(Bundle[call.tool], call.args)
         /\ OwnsLocked(call, T)
<1> DEFINE prov == [n \in DOMAIN call.args |-> Provenance(call, n, T)]
<1>1. ~S /\ Dispatch(call, T, S) = Gate(call.tool, call.args, prov)
  BY DEF Dispatch, Denied
<1>2. Gate(call.tool, call.args, prov).allow
  BY <1>1
<1>3. /\ call.tool \in DOMAIN Bundle
      /\ Gate(call.tool, call.args, prov).needsConfirm
           = NeedsConfirmation(Bundle[call.tool], call.args)
      /\ \A n \in Bundle[call.tool].locked \cap DOMAIN call.args :
           prov[n] = "trusted"
  BY <1>2, GateAllows
<1>4. OwnsLocked(call, T)
  BY <1>3, TrustedLabel DEF OwnsLocked
<1> QED
  BY <1>1, <1>3, <1>4

(* The ledger only ever takes authority away: what is allowed against some *)
(* recorded values is decided alike against fewer, so a ledger miss never  *)
(* supplies authority a call did not have (verb_authority.py:1808).        *)
THEOREM LedgerOnlyRestricts ==
  ASSUME NEW call, NEW T1, NEW T2, T1 \subseteq T2, NEW S,
         Dispatch(call, T2, S).allow
  PROVE  Dispatch(call, T1, S) = Dispatch(call, T2, S)
<1> DEFINE prov1 == [n \in DOMAIN call.args |-> Provenance(call, n, T1)]
           prov2 == [n \in DOMAIN call.args |-> Provenance(call, n, T2)]
           spec == Bundle[call.tool]
<1>1. /\ Dispatch(call, T1, S) = Gate(call.tool, call.args, prov1)
      /\ Dispatch(call, T2, S) = Gate(call.tool, call.args, prov2)
  BY DEF Dispatch, Denied
<1>2. Gate(call.tool, call.args, prov2).allow
  BY <1>1
<1>3. /\ call.tool \in DOMAIN Bundle
      /\ ShapeOk(spec, call.args)
      /\ \A n \in DOMAIN call.args :
           ArgAdmitted(spec, n, call.args[n], prov2[n])
  BY <1>2 DEF Gate, Denied
<1>4. ASSUME NEW n \in DOMAIN call.args
      PROVE  ArgAdmitted(spec, n, call.args[n], prov1[n])
  <2>1. prov2[n] = "trusted" => prov1[n] = "trusted"
    BY DEF Provenance
  <2> QED
    BY <1>3, <2>1 DEF ArgAdmitted
<1>5. Gate(call.tool, call.args, prov1) = Gate(call.tool, call.args, prov2)
  BY <1>3, <1>4 DEF Gate
<1> QED
  BY <1>1, <1>5
=============================================================================
