----------------------- MODULE GuardedRunner_proofs -----------------------
(***************************************************************************)
(* Theorems about GuardedRunner, for every set of threads, calls, requests *)
(* and results, and every bundle: its invariants, and at the end that it   *)
(* implements AtomicAuthority.                                             *)
(***************************************************************************)
EXTENDS GuardedRunner, AuthorityGate_proofs, FiniteSetTheorems

---------------------------------------------------------------------------
\* a call has a snapshot from its first check until it ends, and an approval
\* only once its callback was asked
LocalsOK ==
  \A c \in Calls :
    /\ phase[c] \notin {"idle", "done"} =>
         thread[c] \in Threads /\ input[c] \in Requests
    /\ phase[c] \in {"idle", "entered", "done"} => approved[c] = NoRequest
    /\ phase[c] \in {"idle", "entered", "waiting", "dispatching", "done"} =>
         request[c] = NoApproval
    /\ phase[c] \notin {"idle", "entered", "done"} =>
         approved[c] \in Requests

TypeInv == TypeOK /\ LocalsOK

\* an activation that is running its own code is the innermost of its thread
TopIsActive ==
  \A c \in Calls :
    phase[c] \notin {"idle", "done", "confirming", "invoking"} =>
      current[thread[c]] = c

\* an approval commits to its call and, by its epoch, to the ledger
EpochOK ==
  \A c \in Calls :
    /\ phase[c] \in {"confirming", "confirmed", "redispatching"} =>
         request[c] # NoApproval
    /\ request[c] # NoApproval =>
         /\ request[c].request = approved[c]
         /\ request[c].version <= version
         /\ request[c].version = version => request[c].tainted = tainted

\* a call about to enter is allowed against the ledger of this moment and, if
\* it is risky, was approved in this epoch
ReadyOK ==
  \A c \in Calls : phase[c] = "ready" =>
    /\ Decision(c).allow
    /\ Decision(c).needsConfirm => /\ request[c] # NoApproval
                                   /\ request[c].version = version

\* an unfinished call has no outcome, and only an executed one a result
ResultsOK ==
  \A c \in Calls :
    /\ phase[c] # "done" => outcome[c] = "none"
    /\ outcome[c] # "executed" => returned[c] = {}
    /\ returned[c] \subseteq tainted

(* The fields have their types and the locals their phases initially.      *)
LEMMA InitType == Init => TypeInv
<1> SUFFICES ASSUME Init PROVE TypeInv
  OBVIOUS
<1>1. TypeOK
  <2>1. externals \in 0..MaxExternal
    BY RunnerAssumption DEF Init
  <2> QED
    BY <2>1 DEF Init, TypeOK, Phases, LockedPhases, Outcomes
<1>2. LocalsOK
  BY DEF Init, LocalsOK
<1> QED
  BY <1>1, <1>2 DEF TypeInv

(* Every step keeps the types.                                             *)
LEMMA NextTypeOK == TypeInv /\ [Next]_vars => TypeOK'
<1> SUFFICES ASSUME TypeInv, [Next]_vars PROVE TypeOK'
  OBVIOUS
<1> USE RunnerAssumption
        DEF TypeInv, TypeOK, LocalsOK, Phases, LockedPhases, Outcomes
<1>1. ASSUME NEW t \in Threads, NEW c \in Calls, NEW r \in Requests,
             Start(t, c, r)
      PROVE  TypeOK'
  BY <1>1 DEF Start, Goto, stack, locals, ledger
<1>2. ASSUME NEW c \in Calls, Snapshot(c) PROVE TypeOK'
  BY <1>2 DEF Snapshot, Finish, Goto, stack, locals, ledger
<1>3. ASSUME NEW c \in Calls, Check(c) PROVE TypeOK'
  BY <1>3 DEF Check, Finish, Goto, stack, locals, ledger
<1>4. ASSUME NEW c \in Calls, DecideNo(c) PROVE TypeOK'
  BY <1>4 DEF DecideNo, Finish, Goto, stack, locals, ledger
<1>5. ASSUME NEW c \in Calls, DecideYes(c) PROVE TypeOK'
  BY <1>5 DEF DecideYes, Goto, stack, locals, ledger
<1>6. ASSUME NEW c \in Calls, DecideUnconfirmed(c) PROVE TypeOK'
  BY <1>6 DEF DecideUnconfirmed, Finish, Goto, stack, locals, ledger
<1>7. ASSUME NEW c \in Calls, AskConfirmation(c) PROVE TypeOK'
  BY <1>7 DEF AskConfirmation, Goto, stack, ledger, Approvals
<1>8. ASSUME NEW c \in Calls, ConfirmTrue(c) PROVE TypeOK'
  BY <1>8 DEF ConfirmTrue, Goto, stack, locals, ledger
<1>9. ASSUME NEW c \in Calls, ConfirmOther(c) PROVE TypeOK'
  BY <1>9 DEF ConfirmOther, Finish, Goto, stack, locals, ledger
<1>10. ASSUME NEW c \in Calls, Recheck(c) PROVE TypeOK'
  BY <1>10 DEF Recheck, Finish, Goto, stack, locals, ledger
<1>11. ASSUME NEW c \in Calls, RevalidateNo(c) PROVE TypeOK'
  BY <1>11 DEF RevalidateNo, Finish, Goto, stack, locals, ledger
<1>12. ASSUME NEW c \in Calls, RevalidateYes(c) PROVE TypeOK'
  BY <1>12 DEF RevalidateYes, Goto, stack, locals, ledger
<1>13. ASSUME NEW c \in Calls, Enter(c) PROVE TypeOK'
  BY <1>13 DEF Enter, Goto, stack, locals, ledger
<1>14. ASSUME NEW c \in Calls, NEW vs \in Results,
             Publish(c, vs)
      PROVE  TypeOK'
  BY <1>14
  DEF Publish, Invoked, Finish, Goto, Ledger!Record, stack, locals, ledger
<1>15. ASSUME NEW c \in Calls, Overflow(c) PROVE TypeOK'
  BY <1>15
  DEF Overflow, Invoked, Finish, Goto, Ledger!Saturate, stack, locals,
      ledger
<1>16. ASSUME NEW c \in Calls, Fail(c) PROVE TypeOK'
  BY <1>16 DEF Fail, Invoked, Finish, Goto, stack, locals, ledger
<1>17. ASSUME NEW t \in Threads, NEW vs \in Results,
             RecordElsewhere(t, vs)
      PROVE  TypeOK'
  <2>1. externals' \in 0..MaxExternal
    BY <1>17 DEF RecordElsewhere
  <2>2. tainted' \subseteq Values /\ version' \in Nat /\ saturated' \in BOOLEAN
    <3>1. CASE Ledger!Record(vs)
      BY <3>1 DEF Ledger!Record
    <3>2. CASE Ledger!Saturate
      BY <3>2 DEF Ledger!Saturate
    <3> QED
      BY <1>17, <3>1, <3>2 DEF RecordElsewhere
  <2> QED
    BY <1>17, <2>1, <2>2 DEF RecordElsewhere, stack, locals
<1>18. ASSUME NEW s \in Sources, Edit(s) PROVE TypeOK'
  BY <1>18 DEF Edit, stack, locals, ledger
<1>19. ASSUME NEW s \in Sources, Undo(s) PROVE TypeOK'
  BY <1>19 DEF Undo, stack, locals, ledger
<1>20. ASSUME NEW c \in Calls, NEW r \in Requests,
             MutateInput(c, r)
      PROVE  TypeOK'
  BY <1>20 DEF MutateInput, stack, locals, ledger
<1>21. CASE UNCHANGED vars
  BY <1>21 DEF vars, stack, locals, ledger
<1> QED
  BY <1>1, <1>2, <1>3, <1>4, <1>5, <1>6, <1>7, <1>8, <1>9, <1>10,
     <1>11, <1>12, <1>13, <1>14, <1>15, <1>16, <1>17, <1>18, <1>19,
     <1>20, <1>21
  DEF Next, Progress, Environment

(* Every step keeps the locals in accord with the phase.                   *)
LEMMA NextLocals == TypeInv /\ [Next]_vars => LocalsOK'
<1> SUFFICES ASSUME TypeInv, [Next]_vars PROVE LocalsOK'
  OBVIOUS
<1> USE DEF TypeInv, TypeOK, LocalsOK, Phases, LockedPhases
<1>1. ASSUME NEW t \in Threads, NEW c \in Calls, NEW r \in Requests,
             Start(t, c, r)
      PROVE  LocalsOK'
  BY <1>1 DEF Start, Goto, stack, locals, ledger
<1>2. ASSUME NEW c \in Calls, Snapshot(c) PROVE LocalsOK'
  BY <1>2 DEF Snapshot, Finish, Goto, stack, locals, ledger
<1>3. ASSUME NEW c \in Calls, Check(c) PROVE LocalsOK'
  BY <1>3 DEF Check, Finish, Goto, stack, locals, ledger
<1>4. ASSUME NEW c \in Calls, DecideNo(c) PROVE LocalsOK'
  BY <1>4 DEF DecideNo, Finish, Goto, stack, locals, ledger
<1>5. ASSUME NEW c \in Calls, DecideYes(c) PROVE LocalsOK'
  BY <1>5 DEF DecideYes, Goto, stack, locals, ledger
<1>6. ASSUME NEW c \in Calls, DecideUnconfirmed(c) PROVE LocalsOK'
  BY <1>6 DEF DecideUnconfirmed, Finish, Goto, stack, locals, ledger
<1>7. ASSUME NEW c \in Calls, AskConfirmation(c) PROVE LocalsOK'
  BY <1>7 DEF AskConfirmation, Goto, stack, locals, ledger
<1>8. ASSUME NEW c \in Calls, ConfirmTrue(c) PROVE LocalsOK'
  BY <1>8 DEF ConfirmTrue, Goto, stack, locals, ledger
<1>9. ASSUME NEW c \in Calls, ConfirmOther(c) PROVE LocalsOK'
  BY <1>9 DEF ConfirmOther, Finish, Goto, stack, locals, ledger
<1>10. ASSUME NEW c \in Calls, Recheck(c) PROVE LocalsOK'
  BY <1>10 DEF Recheck, Finish, Goto, stack, locals, ledger
<1>11. ASSUME NEW c \in Calls, RevalidateNo(c) PROVE LocalsOK'
  BY <1>11 DEF RevalidateNo, Finish, Goto, stack, locals, ledger
<1>12. ASSUME NEW c \in Calls, RevalidateYes(c) PROVE LocalsOK'
  BY <1>12 DEF RevalidateYes, Goto, stack, locals, ledger
<1>13. ASSUME NEW c \in Calls, Enter(c) PROVE LocalsOK'
  BY <1>13 DEF Enter, Goto, stack, locals, ledger
<1>14. ASSUME NEW c \in Calls, NEW vs \in Results,
             Publish(c, vs)
      PROVE  LocalsOK'
  BY <1>14
  DEF Publish, Invoked, Finish, Goto, Ledger!Record, stack, locals, ledger
<1>15. ASSUME NEW c \in Calls, Overflow(c) PROVE LocalsOK'
  BY <1>15
  DEF Overflow, Invoked, Finish, Goto, Ledger!Saturate, stack, locals,
      ledger
<1>16. ASSUME NEW c \in Calls, Fail(c) PROVE LocalsOK'
  BY <1>16 DEF Fail, Invoked, Finish, Goto, stack, locals, ledger
<1>17. ASSUME NEW t \in Threads, NEW vs \in Results,
             RecordElsewhere(t, vs)
      PROVE  LocalsOK'
  BY <1>17
  DEF RecordElsewhere, Ledger!Record, Ledger!Saturate, stack, locals,
      ledger
<1>18. ASSUME NEW s \in Sources, Edit(s) PROVE LocalsOK'
  BY <1>18 DEF Edit, stack, locals, ledger
<1>19. ASSUME NEW s \in Sources, Undo(s) PROVE LocalsOK'
  BY <1>19 DEF Undo, stack, locals, ledger
<1>20. ASSUME NEW c \in Calls, NEW r \in Requests,
             MutateInput(c, r)
      PROVE  LocalsOK'
  BY <1>20 DEF MutateInput, stack, locals, ledger
<1>21. CASE UNCHANGED vars
  BY <1>21 DEF vars, stack, locals, ledger
<1> QED
  BY <1>1, <1>2, <1>3, <1>4, <1>5, <1>6, <1>7, <1>8, <1>9, <1>10,
     <1>11, <1>12, <1>13, <1>14, <1>15, <1>16, <1>17, <1>18, <1>19,
     <1>20, <1>21
  DEF Next, Progress, Environment

---------------------------------------------------------------------------
(* A `with` block opens only when its thread may take the lock, so two open*)
(* blocks stay on one thread.                                              *)
LEMMA NextOneThread ==
  TypeInv /\ OneThreadInside /\ [Next]_vars => OneThreadInside'
<1> SUFFICES ASSUME TypeInv, OneThreadInside, [Next]_vars
             PROVE  OneThreadInside'
  OBVIOUS
<1> USE DEF TypeInv, TypeOK, LocalsOK, OneThreadInside, Holders, LockedPhases
<1>1. ASSUME NEW t \in Threads, NEW c \in Calls, NEW r \in Requests,
             Start(t, c, r)
      PROVE  OneThreadInside'
  BY <1>1 DEF Start, Goto, stack, locals, ledger
<1>2. ASSUME NEW c \in Calls, Snapshot(c) PROVE OneThreadInside'
  BY <1>2 DEF Snapshot, Finish, Goto, stack, locals, ledger
<1>3. ASSUME NEW c \in Calls, Check(c) PROVE OneThreadInside'
  BY <1>3 DEF Check, Finish, Goto, CanAcquire, Holders, stack, locals, ledger
<1>4. ASSUME NEW c \in Calls, DecideNo(c) PROVE OneThreadInside'
  BY <1>4 DEF DecideNo, Finish, Goto, stack, locals, ledger
<1>5. ASSUME NEW c \in Calls, DecideYes(c) PROVE OneThreadInside'
  BY <1>5 DEF DecideYes, Goto, stack, locals, ledger
<1>6. ASSUME NEW c \in Calls, DecideUnconfirmed(c) PROVE OneThreadInside'
  BY <1>6 DEF DecideUnconfirmed, Finish, Goto, stack, locals, ledger
<1>7. ASSUME NEW c \in Calls, AskConfirmation(c) PROVE OneThreadInside'
  BY <1>7 DEF AskConfirmation, Goto, stack, locals, ledger
<1>8. ASSUME NEW c \in Calls, ConfirmTrue(c) PROVE OneThreadInside'
  BY <1>8 DEF ConfirmTrue, Goto, stack, locals, ledger
<1>9. ASSUME NEW c \in Calls, ConfirmOther(c) PROVE OneThreadInside'
  BY <1>9 DEF ConfirmOther, Finish, Goto, stack, locals, ledger
<1>10. ASSUME NEW c \in Calls, Recheck(c) PROVE OneThreadInside'
  BY <1>10
  DEF Recheck, Finish, Goto, CanAcquire, Holders, stack, locals, ledger
<1>11. ASSUME NEW c \in Calls, RevalidateNo(c) PROVE OneThreadInside'
  BY <1>11 DEF RevalidateNo, Finish, Goto, stack, locals, ledger
<1>12. ASSUME NEW c \in Calls, RevalidateYes(c) PROVE OneThreadInside'
  BY <1>12 DEF RevalidateYes, Goto, stack, locals, ledger
<1>13. ASSUME NEW c \in Calls, Enter(c) PROVE OneThreadInside'
  BY <1>13 DEF Enter, Goto, stack, locals, ledger
<1>14. ASSUME NEW c \in Calls, NEW vs \in Results,
             Publish(c, vs)
      PROVE  OneThreadInside'
  BY <1>14
  DEF Publish, Invoked, Finish, Goto, Ledger!Record, stack, locals, ledger
<1>15. ASSUME NEW c \in Calls, Overflow(c) PROVE OneThreadInside'
  BY <1>15
  DEF Overflow, Invoked, Finish, Goto, Ledger!Saturate, stack, locals,
      ledger
<1>16. ASSUME NEW c \in Calls, Fail(c) PROVE OneThreadInside'
  BY <1>16 DEF Fail, Invoked, Finish, Goto, stack, locals, ledger
<1>17. ASSUME NEW t \in Threads, NEW vs \in Results,
             RecordElsewhere(t, vs)
      PROVE  OneThreadInside'
  BY <1>17
  DEF RecordElsewhere, Ledger!Record, Ledger!Saturate, stack, locals,
      ledger
<1>18. ASSUME NEW s \in Sources, Edit(s) PROVE OneThreadInside'
  BY <1>18 DEF Edit, stack, locals, ledger
<1>19. ASSUME NEW s \in Sources, Undo(s) PROVE OneThreadInside'
  BY <1>19 DEF Undo, stack, locals, ledger
<1>20. ASSUME NEW c \in Calls, NEW r \in Requests,
             MutateInput(c, r)
      PROVE  OneThreadInside'
  BY <1>20 DEF MutateInput, stack, locals, ledger
<1>21. CASE UNCHANGED vars
  BY <1>21 DEF vars, stack, locals, ledger
<1> QED
  BY <1>1, <1>2, <1>3, <1>4, <1>5, <1>6, <1>7, <1>8, <1>9, <1>10,
     <1>11, <1>12, <1>13, <1>14, <1>15, <1>16, <1>17, <1>18, <1>19,
     <1>20, <1>21
  DEF Next, Progress, Environment

(* A step returns to, or suspends, the innermost activation only.          *)
LEMMA NextTop == TypeInv /\ TopIsActive /\ [Next]_vars => TopIsActive'
<1> SUFFICES ASSUME TypeInv, TopIsActive, [Next]_vars PROVE TopIsActive'
  OBVIOUS
<1> USE RunnerAssumption
        DEF TypeInv, TypeOK, LocalsOK, TopIsActive, LockedPhases
<1>1. ASSUME NEW t \in Threads, NEW c \in Calls, NEW r \in Requests,
             Start(t, c, r)
      PROVE  TopIsActive'
  BY <1>1 DEF Start, Goto, InApplication, stack, locals, ledger
<1>2. ASSUME NEW c \in Calls, Snapshot(c) PROVE TopIsActive'
  BY <1>2 DEF Snapshot, Finish, Goto, stack, locals, ledger
<1>3. ASSUME NEW c \in Calls, Check(c) PROVE TopIsActive'
  BY <1>3 DEF Check, Finish, Goto, stack, locals, ledger
<1>4. ASSUME NEW c \in Calls, DecideNo(c) PROVE TopIsActive'
  BY <1>4 DEF DecideNo, Finish, Goto, stack, locals, ledger
<1>5. ASSUME NEW c \in Calls, DecideYes(c) PROVE TopIsActive'
  BY <1>5 DEF DecideYes, Goto, stack, locals, ledger
<1>6. ASSUME NEW c \in Calls, DecideUnconfirmed(c) PROVE TopIsActive'
  BY <1>6 DEF DecideUnconfirmed, Finish, Goto, stack, locals, ledger
<1>7. ASSUME NEW c \in Calls, AskConfirmation(c) PROVE TopIsActive'
  BY <1>7 DEF AskConfirmation, Goto, stack, locals, ledger
<1>8. ASSUME NEW c \in Calls, ConfirmTrue(c) PROVE TopIsActive'
  BY <1>8 DEF ConfirmTrue, Goto, stack, locals, ledger
<1>9. ASSUME NEW c \in Calls, ConfirmOther(c) PROVE TopIsActive'
  BY <1>9 DEF ConfirmOther, Finish, Goto, stack, locals, ledger
<1>10. ASSUME NEW c \in Calls, Recheck(c) PROVE TopIsActive'
  BY <1>10 DEF Recheck, Finish, Goto, stack, locals, ledger
<1>11. ASSUME NEW c \in Calls, RevalidateNo(c) PROVE TopIsActive'
  BY <1>11 DEF RevalidateNo, Finish, Goto, stack, locals, ledger
<1>12. ASSUME NEW c \in Calls, RevalidateYes(c) PROVE TopIsActive'
  BY <1>12 DEF RevalidateYes, Goto, stack, locals, ledger
<1>13. ASSUME NEW c \in Calls, Enter(c) PROVE TopIsActive'
  BY <1>13 DEF Enter, Goto, stack, locals, ledger
<1>14. ASSUME NEW c \in Calls, NEW vs \in Results,
             Publish(c, vs)
      PROVE  TopIsActive'
  BY <1>14
  DEF Publish, Invoked, Finish, Goto, Ledger!Record, stack, locals, ledger
<1>15. ASSUME NEW c \in Calls, Overflow(c) PROVE TopIsActive'
  BY <1>15
  DEF Overflow, Invoked, Finish, Goto, Ledger!Saturate, stack, locals,
      ledger
<1>16. ASSUME NEW c \in Calls, Fail(c) PROVE TopIsActive'
  BY <1>16 DEF Fail, Invoked, Finish, Goto, stack, locals, ledger
<1>17. ASSUME NEW t \in Threads, NEW vs \in Results,
             RecordElsewhere(t, vs)
      PROVE  TopIsActive'
  BY <1>17
  DEF RecordElsewhere, Ledger!Record, Ledger!Saturate, stack, locals,
      ledger
<1>18. ASSUME NEW s \in Sources, Edit(s) PROVE TopIsActive'
  BY <1>18 DEF Edit, stack, locals, ledger
<1>19. ASSUME NEW s \in Sources, Undo(s) PROVE TopIsActive'
  BY <1>19 DEF Undo, stack, locals, ledger
<1>20. ASSUME NEW c \in Calls, NEW r \in Requests,
             MutateInput(c, r)
      PROVE  TopIsActive'
  BY <1>20 DEF MutateInput, stack, locals, ledger
<1>21. CASE UNCHANGED vars
  BY <1>21 DEF vars, stack, locals, ledger
<1> QED
  BY <1>1, <1>2, <1>3, <1>4, <1>5, <1>6, <1>7, <1>8, <1>9, <1>10,
     <1>11, <1>12, <1>13, <1>14, <1>15, <1>16, <1>17, <1>18, <1>19,
     <1>20, <1>21
  DEF Next, Progress, Environment

---------------------------------------------------------------------------
(* Approvals stay bound to their call, and their epoch to one ledger       *)
(* content, because every record opens an epoch of its own.                *)
LEMMA NextEpoch == TypeInv /\ EpochOK /\ [Next]_vars => EpochOK'
<1> SUFFICES ASSUME TypeInv, EpochOK, [Next]_vars PROVE EpochOK'
  OBVIOUS
<1> USE RunnerAssumption DEF TypeInv, TypeOK, LocalsOK, EpochOK, LockedPhases
\* a record opens an epoch no approval has seen, and saturation changes none
\* of the values an approval of this epoch was given under
<1>a. \A d \in Calls : request[d] # NoApproval => request[d].version \in Nat
  BY DEF Approvals
<1>b. ASSUME NEW vs, Ledger!Record(vs), NEW d \in Calls, request[d] # NoApproval
      PROVE  request[d].version <= version' /\ request[d].version # version'
  BY <1>a, <1>b DEF Ledger!Record
<1>c. ASSUME Ledger!Saturate, NEW d \in Calls, request[d] # NoApproval
      PROVE  /\ request[d].version <= version'
             /\ request[d].version = version' => request[d].tainted = tainted'
  BY <1>a, <1>c DEF Ledger!Saturate
<1>1. ASSUME NEW t \in Threads, NEW c \in Calls, NEW r \in Requests,
             Start(t, c, r)
      PROVE  EpochOK'
  BY <1>1 DEF Start, Goto, stack, locals, ledger
<1>2. ASSUME NEW c \in Calls, Snapshot(c) PROVE EpochOK'
  BY <1>2 DEF Snapshot, Finish, Goto, stack, locals, ledger
<1>3. ASSUME NEW c \in Calls, Check(c) PROVE EpochOK'
  BY <1>3 DEF Check, Finish, Goto, stack, locals, ledger
<1>4. ASSUME NEW c \in Calls, DecideNo(c) PROVE EpochOK'
  BY <1>4 DEF DecideNo, Finish, Goto, stack, locals, ledger
<1>5. ASSUME NEW c \in Calls, DecideYes(c) PROVE EpochOK'
  BY <1>5 DEF DecideYes, Goto, stack, locals, ledger
<1>6. ASSUME NEW c \in Calls, DecideUnconfirmed(c) PROVE EpochOK'
  BY <1>6 DEF DecideUnconfirmed, Finish, Goto, stack, locals, ledger
<1>7. ASSUME NEW c \in Calls, AskConfirmation(c) PROVE EpochOK'
  BY <1>7 DEF AskConfirmation, Goto, stack, ledger, Approvals
<1>8. ASSUME NEW c \in Calls, ConfirmTrue(c) PROVE EpochOK'
  BY <1>8 DEF ConfirmTrue, Goto, stack, locals, ledger
<1>9. ASSUME NEW c \in Calls, ConfirmOther(c) PROVE EpochOK'
  BY <1>9 DEF ConfirmOther, Finish, Goto, stack, locals, ledger
<1>10. ASSUME NEW c \in Calls, Recheck(c) PROVE EpochOK'
  BY <1>10 DEF Recheck, Finish, Goto, stack, locals, ledger
<1>11. ASSUME NEW c \in Calls, RevalidateNo(c) PROVE EpochOK'
  BY <1>11 DEF RevalidateNo, Finish, Goto, stack, locals, ledger
<1>12. ASSUME NEW c \in Calls, RevalidateYes(c) PROVE EpochOK'
  BY <1>12 DEF RevalidateYes, Goto, stack, locals, ledger
<1>13. ASSUME NEW c \in Calls, Enter(c) PROVE EpochOK'
  BY <1>13 DEF Enter, Goto, stack, locals, ledger
<1>14. ASSUME NEW c \in Calls, NEW vs \in Results,
             Publish(c, vs)
      PROVE  EpochOK'
  BY <1>14, <1>b DEF Publish, Invoked, Finish, Goto
<1>15. ASSUME NEW c \in Calls, Overflow(c) PROVE EpochOK'
  BY <1>15, <1>c DEF Overflow, Invoked, Finish, Goto
<1>16. ASSUME NEW c \in Calls, Fail(c) PROVE EpochOK'
  BY <1>16 DEF Fail, Invoked, Finish, Goto, stack, locals, ledger
<1>17. ASSUME NEW t \in Threads, NEW vs \in Results,
             RecordElsewhere(t, vs)
      PROVE  EpochOK'
  BY <1>17, <1>b, <1>c DEF RecordElsewhere, stack, locals
<1>18. ASSUME NEW s \in Sources, Edit(s) PROVE EpochOK'
  BY <1>18 DEF Edit, stack, locals, ledger
<1>19. ASSUME NEW s \in Sources, Undo(s) PROVE EpochOK'
  BY <1>19 DEF Undo, stack, locals, ledger
<1>20. ASSUME NEW c \in Calls, NEW r \in Requests,
             MutateInput(c, r)
      PROVE  EpochOK'
  BY <1>20 DEF MutateInput, stack, locals, ledger
<1>21. CASE UNCHANGED vars
  BY <1>21 DEF vars, stack, locals, ledger
<1> QED
  BY <1>1, <1>2, <1>3, <1>4, <1>5, <1>6, <1>7, <1>8, <1>9, <1>10,
     <1>11, <1>12, <1>13, <1>14, <1>15, <1>16, <1>17, <1>18, <1>19,
     <1>20, <1>21
  DEF Next, Progress, Environment

(* Only an execution hands values back, in the step that records them.     *)
LEMMA NextResults == TypeInv /\ ResultsOK /\ [Next]_vars => ResultsOK'
<1> SUFFICES ASSUME TypeInv, ResultsOK, [Next]_vars PROVE ResultsOK'
  OBVIOUS
<1> USE DEF TypeInv, TypeOK, LocalsOK, ResultsOK, LockedPhases
<1>1. ASSUME NEW t \in Threads, NEW c \in Calls, NEW r \in Requests,
             Start(t, c, r)
      PROVE  ResultsOK'
  BY <1>1 DEF Start, Goto, stack, locals, ledger
<1>2. ASSUME NEW c \in Calls, Snapshot(c) PROVE ResultsOK'
  BY <1>2 DEF Snapshot, Finish, Goto, stack, locals, ledger
<1>3. ASSUME NEW c \in Calls, Check(c) PROVE ResultsOK'
  BY <1>3 DEF Check, Finish, Goto, stack, locals, ledger
<1>4. ASSUME NEW c \in Calls, DecideNo(c) PROVE ResultsOK'
  BY <1>4 DEF DecideNo, Finish, Goto, stack, locals, ledger
<1>5. ASSUME NEW c \in Calls, DecideYes(c) PROVE ResultsOK'
  BY <1>5 DEF DecideYes, Goto, stack, locals, ledger
<1>6. ASSUME NEW c \in Calls, DecideUnconfirmed(c) PROVE ResultsOK'
  BY <1>6 DEF DecideUnconfirmed, Finish, Goto, stack, locals, ledger
<1>7. ASSUME NEW c \in Calls, AskConfirmation(c) PROVE ResultsOK'
  BY <1>7 DEF AskConfirmation, Goto, stack, locals, ledger
<1>8. ASSUME NEW c \in Calls, ConfirmTrue(c) PROVE ResultsOK'
  BY <1>8 DEF ConfirmTrue, Goto, stack, locals, ledger
<1>9. ASSUME NEW c \in Calls, ConfirmOther(c) PROVE ResultsOK'
  BY <1>9 DEF ConfirmOther, Finish, Goto, stack, locals, ledger
<1>10. ASSUME NEW c \in Calls, Recheck(c) PROVE ResultsOK'
  BY <1>10 DEF Recheck, Finish, Goto, stack, locals, ledger
<1>11. ASSUME NEW c \in Calls, RevalidateNo(c) PROVE ResultsOK'
  BY <1>11 DEF RevalidateNo, Finish, Goto, stack, locals, ledger
<1>12. ASSUME NEW c \in Calls, RevalidateYes(c) PROVE ResultsOK'
  BY <1>12 DEF RevalidateYes, Goto, stack, locals, ledger
<1>13. ASSUME NEW c \in Calls, Enter(c) PROVE ResultsOK'
  BY <1>13 DEF Enter, Goto, stack, locals, ledger
<1>14. ASSUME NEW c \in Calls, NEW vs \in Results,
             Publish(c, vs)
      PROVE  ResultsOK'
  BY <1>14
  DEF Publish, Invoked, Finish, Goto, Ledger!Record, stack, locals, ledger
<1>15. ASSUME NEW c \in Calls, Overflow(c) PROVE ResultsOK'
  BY <1>15
  DEF Overflow, Invoked, Finish, Goto, Ledger!Saturate, stack, locals,
      ledger
<1>16. ASSUME NEW c \in Calls, Fail(c) PROVE ResultsOK'
  BY <1>16 DEF Fail, Invoked, Finish, Goto, stack, locals, ledger
<1>17. ASSUME NEW t \in Threads, NEW vs \in Results,
             RecordElsewhere(t, vs)
      PROVE  ResultsOK'
  BY <1>17
  DEF RecordElsewhere, Ledger!Record, Ledger!Saturate, stack, locals,
      ledger
<1>18. ASSUME NEW s \in Sources, Edit(s) PROVE ResultsOK'
  BY <1>18 DEF Edit, stack, locals, ledger
<1>19. ASSUME NEW s \in Sources, Undo(s) PROVE ResultsOK'
  BY <1>19 DEF Undo, stack, locals, ledger
<1>20. ASSUME NEW c \in Calls, NEW r \in Requests,
             MutateInput(c, r)
      PROVE  ResultsOK'
  BY <1>20 DEF MutateInput, stack, locals, ledger
<1>21. CASE UNCHANGED vars
  BY <1>21 DEF vars, stack, locals, ledger
<1> QED
  BY <1>1, <1>2, <1>3, <1>4, <1>5, <1>6, <1>7, <1>8, <1>9, <1>10,
     <1>11, <1>12, <1>13, <1>14, <1>15, <1>16, <1>17, <1>18, <1>19,
     <1>20, <1>21
  DEF Next, Progress, Environment

---------------------------------------------------------------------------
(* While a call is about to enter, no step of any actor changes the        *)
(* ledger: this is what holding the session lock is worth.                 *)
LEMMA ReadyIsolates ==
  ASSUME TypeInv, OneThreadInside, TopIsActive, [Next]_vars,
         NEW d \in Calls, phase[d] = "ready"
  PROVE  UNCHANGED ledger
<1> USE RunnerAssumption
        DEF TypeInv, TypeOK, LocalsOK, OneThreadInside, TopIsActive,
        Holders, LockedPhases
<1>1. ASSUME NEW t \in Threads, NEW c \in Calls, NEW r \in Requests,
             Start(t, c, r)
      PROVE  UNCHANGED ledger
  BY <1>1 DEF Start, Goto, ledger
<1>2. ASSUME NEW c \in Calls, Snapshot(c) PROVE UNCHANGED ledger
  BY <1>2 DEF Snapshot, Finish, Goto, ledger
<1>3. ASSUME NEW c \in Calls, Check(c) PROVE UNCHANGED ledger
  BY <1>3 DEF Check, Finish, Goto, ledger
<1>4. ASSUME NEW c \in Calls, DecideNo(c) PROVE UNCHANGED ledger
  BY <1>4 DEF DecideNo, Finish, Goto, ledger
<1>5. ASSUME NEW c \in Calls, DecideYes(c) PROVE UNCHANGED ledger
  BY <1>5 DEF DecideYes, Goto, ledger
<1>6. ASSUME NEW c \in Calls, DecideUnconfirmed(c) PROVE UNCHANGED ledger
  BY <1>6 DEF DecideUnconfirmed, Finish, Goto, ledger
<1>7. ASSUME NEW c \in Calls, AskConfirmation(c) PROVE UNCHANGED ledger
  BY <1>7 DEF AskConfirmation, Goto, ledger
<1>8. ASSUME NEW c \in Calls, ConfirmTrue(c) PROVE UNCHANGED ledger
  BY <1>8 DEF ConfirmTrue, Goto, ledger
<1>9. ASSUME NEW c \in Calls, ConfirmOther(c) PROVE UNCHANGED ledger
  BY <1>9 DEF ConfirmOther, Finish, Goto, ledger
<1>10. ASSUME NEW c \in Calls, Recheck(c) PROVE UNCHANGED ledger
  BY <1>10 DEF Recheck, Finish, Goto, ledger
<1>11. ASSUME NEW c \in Calls, RevalidateNo(c) PROVE UNCHANGED ledger
  BY <1>11 DEF RevalidateNo, Finish, Goto, ledger
<1>12. ASSUME NEW c \in Calls, RevalidateYes(c) PROVE UNCHANGED ledger
  BY <1>12 DEF RevalidateYes, Goto, ledger
<1>13. ASSUME NEW c \in Calls, Enter(c) PROVE UNCHANGED ledger
  BY <1>13 DEF Enter, Goto, ledger
<1>14. ASSUME NEW c \in Calls, NEW vs \in Results,
             Publish(c, vs)
      PROVE  UNCHANGED ledger
  BY <1>14 DEF Publish, Invoked, Finish, Goto, Ledger!Record, ledger
<1>15. ASSUME NEW c \in Calls, Overflow(c) PROVE UNCHANGED ledger
  BY <1>15 DEF Overflow, Invoked, Finish, Goto, Ledger!Saturate, ledger
<1>16. ASSUME NEW c \in Calls, Fail(c) PROVE UNCHANGED ledger
  BY <1>16 DEF Fail, Invoked, Finish, Goto, ledger
<1>17. ASSUME NEW t \in Threads, NEW vs \in Results,
             RecordElsewhere(t, vs)
      PROVE  UNCHANGED ledger
  BY <1>17
  DEF RecordElsewhere, Ledger!Record, Ledger!Saturate, InApplication,
      CanAcquire, ledger
<1>18. ASSUME NEW s \in Sources, Edit(s) PROVE UNCHANGED ledger
  BY <1>18 DEF Edit, ledger
<1>19. ASSUME NEW s \in Sources, Undo(s) PROVE UNCHANGED ledger
  BY <1>19 DEF Undo, ledger
<1>20. ASSUME NEW c \in Calls, NEW r \in Requests,
             MutateInput(c, r)
      PROVE  UNCHANGED ledger
  BY <1>20 DEF MutateInput, ledger
<1>21. CASE UNCHANGED vars
  BY <1>21 DEF vars, ledger
<1> QED
  BY <1>1, <1>2, <1>3, <1>4, <1>5, <1>6, <1>7, <1>8, <1>9, <1>10,
     <1>11, <1>12, <1>13, <1>14, <1>15, <1>16, <1>17, <1>18, <1>19,
     <1>20, <1>21
  DEF Next, Progress, Environment

(* A call becomes ready in two places, and nothing rewrites it there.      *)
LEMMA BecomesReady ==
  ASSUME TypeInv, [Next]_vars, NEW d \in Calls, phase'[d] = "ready"
  PROVE  \/ phase[d] = "ready" /\ UNCHANGED <<approved[d], request[d]>>
         \/ DecideYes(d)
         \/ RevalidateYes(d)
<1> DEFINE Goal ==
      \/ phase[d] = "ready" /\ UNCHANGED <<approved[d], request[d]>>
      \/ DecideYes(d)
      \/ RevalidateYes(d)
<1> USE DEF TypeInv, TypeOK, LocalsOK
<1>1. ASSUME NEW t \in Threads, NEW c \in Calls, NEW r \in Requests,
             Start(t, c, r)
      PROVE  Goal
  BY <1>1 DEF Start, Goto, stack, locals, ledger
<1>2. ASSUME NEW c \in Calls, Snapshot(c) PROVE Goal
  BY <1>2 DEF Snapshot, Finish, Goto, stack, locals, ledger
<1>3. ASSUME NEW c \in Calls, Check(c) PROVE Goal
  BY <1>3 DEF Check, Finish, Goto, stack, locals, ledger
<1>4. ASSUME NEW c \in Calls, DecideNo(c) PROVE Goal
  BY <1>4 DEF DecideNo, Finish, Goto, stack, locals, ledger
<1>5. ASSUME NEW c \in Calls, DecideYes(c) PROVE Goal
  BY <1>5 DEF DecideYes, Goto, stack, locals, ledger
<1>6. ASSUME NEW c \in Calls, DecideUnconfirmed(c) PROVE Goal
  BY <1>6 DEF DecideUnconfirmed, Finish, Goto, stack, locals, ledger
<1>7. ASSUME NEW c \in Calls, AskConfirmation(c) PROVE Goal
  BY <1>7 DEF AskConfirmation, Goto, stack, locals, ledger
<1>8. ASSUME NEW c \in Calls, ConfirmTrue(c) PROVE Goal
  BY <1>8 DEF ConfirmTrue, Goto, stack, locals, ledger
<1>9. ASSUME NEW c \in Calls, ConfirmOther(c) PROVE Goal
  BY <1>9 DEF ConfirmOther, Finish, Goto, stack, locals, ledger
<1>10. ASSUME NEW c \in Calls, Recheck(c) PROVE Goal
  BY <1>10 DEF Recheck, Finish, Goto, stack, locals, ledger
<1>11. ASSUME NEW c \in Calls, RevalidateNo(c) PROVE Goal
  BY <1>11 DEF RevalidateNo, Finish, Goto, stack, locals, ledger
<1>12. ASSUME NEW c \in Calls, RevalidateYes(c) PROVE Goal
  BY <1>12 DEF RevalidateYes, Goto, stack, locals, ledger
<1>13. ASSUME NEW c \in Calls, Enter(c) PROVE Goal
  BY <1>13 DEF Enter, Goto, stack, locals, ledger
<1>14. ASSUME NEW c \in Calls, NEW vs \in Results, Publish(c, vs) PROVE Goal
  BY <1>14
  DEF Publish, Invoked, Finish, Goto, Ledger!Record, stack, locals, ledger
<1>15. ASSUME NEW c \in Calls, Overflow(c) PROVE Goal
  BY <1>15
  DEF Overflow, Invoked, Finish, Goto, Ledger!Saturate, stack, locals,
      ledger
<1>16. ASSUME NEW c \in Calls, Fail(c) PROVE Goal
  BY <1>16 DEF Fail, Invoked, Finish, Goto, stack, locals, ledger
<1>17. ASSUME NEW t \in Threads, NEW vs \in Results,
             RecordElsewhere(t, vs)
      PROVE  Goal
  BY <1>17
  DEF RecordElsewhere, Ledger!Record, Ledger!Saturate, stack, locals,
      ledger
<1>18. ASSUME NEW s \in Sources, Edit(s) PROVE Goal
  BY <1>18 DEF Edit, stack, locals, ledger
<1>19. ASSUME NEW s \in Sources, Undo(s) PROVE Goal
  BY <1>19 DEF Undo, stack, locals, ledger
<1>20. ASSUME NEW c \in Calls, NEW r \in Requests,
             MutateInput(c, r)
      PROVE  Goal
  BY <1>20 DEF MutateInput, stack, locals, ledger
<1>21. CASE UNCHANGED vars
  BY <1>21 DEF vars, stack, locals, ledger
<1> QED
  BY <1>1, <1>2, <1>3, <1>4, <1>5, <1>6, <1>7, <1>8, <1>9, <1>10,
     <1>11, <1>12, <1>13, <1>14, <1>15, <1>16, <1>17, <1>18, <1>19,
     <1>20, <1>21
  DEF Next, Progress, Environment

(* A call that is about to enter stays allowed and approved: it became     *)
(* ready on this ledger, and the ledger has not moved since.               *)
LEMMA NextReady ==
  TypeInv /\ OneThreadInside /\ TopIsActive /\ EpochOK /\ ReadyOK /\ [Next]_vars
    => ReadyOK'
<1> SUFFICES ASSUME TypeInv, OneThreadInside, TopIsActive, EpochOK, ReadyOK,
                    [Next]_vars, NEW d \in Calls, phase'[d] = "ready"
             PROVE  /\ Decision(d)'.allow
                    /\ Decision(d)'.needsConfirm =>
                         /\ request'[d] # NoApproval
                         /\ request'[d].version = version'
  BY DEF ReadyOK
<1>1. CASE phase[d] = "ready" /\ UNCHANGED <<approved[d], request[d]>>
  <2>1. UNCHANGED ledger
    BY <1>1, ReadyIsolates
  <2>2. Decision(d)' = Decision(d)
    BY <1>1, <2>1 DEF Decision, ledger, Dispatch, Gate, Provenance
  <2> QED
    BY <1>1, <2>1, <2>2 DEF ReadyOK, ledger
<1>2. CASE DecideYes(d)
  <2>1. Decision(d)' = Decision(d)
    BY <1>2 DEF DecideYes, Decision, ledger, locals, Dispatch, Gate, Provenance
  <2> QED
    BY <1>2, <2>1 DEF DecideYes, Allowed
<1>3. CASE RevalidateYes(d)
  <2>1. Decision(d)' = Decision(d)
    BY <1>3 DEF RevalidateYes, Decision, ledger, locals, Dispatch, Gate,
                Provenance
  <2> QED
    BY <1>3, <2>1 DEF RevalidateYes, EpochOK, ledger, locals
<1> QED
  BY <1>1, <1>2, <1>3, BecomesReady

---------------------------------------------------------------------------
(* The inductive invariant: types, the lock, the activation stack, the     *)
(* approvals and the calls about to enter depend on one another.           *)
IInv == /\ TypeInv
        /\ OneThreadInside
        /\ TopIsActive
        /\ EpochOK
        /\ ReadyOK
        /\ ResultsOK

(* The inductive invariant holds throughout.                               *)
THEOREM Invariance == Spec => []IInv
<1>1. Init => IInv
  <2> SUFFICES ASSUME Init PROVE IInv
    OBVIOUS
  <2>1. TypeInv
    BY InitType
  <2>2. /\ OneThreadInside
        /\ TopIsActive
        /\ EpochOK
        /\ ReadyOK
        /\ ResultsOK
    BY DEF Init, OneThreadInside, Holders, LockedPhases, TopIsActive, EpochOK,
           ReadyOK, ResultsOK
  <2> QED
    BY <2>1, <2>2 DEF IInv
<1>2. IInv /\ [Next]_vars => IInv'
  BY NextTypeOK, NextLocals, NextOneThread, NextTop, NextEpoch, NextReady,
     NextResults
  DEF IInv, TypeInv
<1> QED
  BY <1>1, <1>2, PTL DEF Spec

(* Every variable of the runner keeps its type.                            *)
THEOREM TypeCorrect == Spec => []TypeOK
  BY Invariance, PTL DEF IInv, TypeInv

(* The session lock serializes final check, invocation and publication.    *)
THEOREM MutualExclusion == Spec => []OneThreadInside
  BY Invariance, PTL DEF IInv

(* No result handed back by any call reaches a locked argument of a call   *)
(* about to be invoked.                                                    *)
THEOREM NoLaundering == Spec => []NoLaunderedEntry
<1>1. IInv => NoLaunderedEntry
  <2> SUFFICES ASSUME IInv, NEW c \in Calls, NEW d \in Calls,
                      phase[c] = "ready"
               PROVE  /\ ~saturated
                      /\ \A n \in Locked(approved[c]) :
                           approved[c].args[n] \notin returned[d]
    BY DEF NoLaunderedEntry
  <2>1. Decision(c).allow
    BY DEF IInv, ReadyOK
  <2>2. ~saturated /\ OwnsLocked(approved[c], tainted)
    BY <2>1, DispatchAllows DEF Decision
  <2>3. returned[d] \subseteq tainted
    BY DEF IInv, ResultsOK
  <2> QED
    BY <2>2, <2>3 DEF OwnsLocked, Locked
<1> QED
  BY <1>1, Invariance, PTL

(* A risky call about to be invoked was approved as exactly the call that  *)
(* is invoked, under exactly the ledger of this moment.                    *)
THEOREM ApprovalsAreCurrent == Spec => []ApprovalIsCurrent
<1>1. IInv => ApprovalIsCurrent
  <2> SUFFICES ASSUME IInv, NEW c \in Calls, phase[c] = "ready",
                      NeedsConfirmation(Bundle[approved[c].tool],
                                        approved[c].args)
               PROVE  /\ request[c] # NoApproval
                      /\ request[c].request = approved[c]
                      /\ request[c].tainted = tainted
    BY DEF ApprovalIsCurrent
  <2>1. Decision(c).allow
    BY DEF IInv, ReadyOK
  <2>2. Decision(c).needsConfirm
    BY <2>1, DispatchAllows DEF Decision
  <2>3. request[c] # NoApproval /\ request[c].version = version
    BY <2>2 DEF IInv, ReadyOK
  <2> QED
    BY <2>3 DEF IInv, EpochOK
<1> QED
  BY <1>1, Invariance, PTL

(* A result reaches the caller only once the ledger holds it.              *)
THEOREM ResultsAreTainted == Spec => []ReturnedResultsAreTainted
<1>1. IInv => ReturnedResultsAreTainted
  BY DEF IInv, ResultsOK, ReturnedResultsAreTainted
<1> QED
  BY <1>1, Invariance, PTL

---------------------------------------------------------------------------
Executed == {c \in Calls : outcome[c] = "executed"}

\* how the ledger's epoch and the executed calls may move together
Quiet == UNCHANGED <<Executed, version, saturated, externals>>
Publication(c) == /\ c \notin Executed
                  /\ Executed' = Executed \cup {c}
                  /\ version' = version + 1
                  /\ UNCHANGED <<saturated, externals>>
Elsewhere == /\ version' = version + 1
             /\ externals' = externals + 1
             /\ UNCHANGED <<Executed, saturated>>
Closing == Ledger!Saturate /\ UNCHANGED <<Executed, externals>>

(* A step publishes at most once: it executes one call, records one result *)
(* of another user, or closes the ledger.                                  *)
LEMMA EpochStep ==
  ASSUME TypeInv, ResultsOK, [Next]_vars
  PROVE  \/ Quiet
         \/ \E c \in Calls : Publication(c)
         \/ Elsewhere
         \/ Closing
<1> DEFINE Goal == \/ Quiet
                   \/ \E c \in Calls : Publication(c)
                   \/ Elsewhere
                   \/ Closing
<1> USE DEF TypeInv, TypeOK, LocalsOK, ResultsOK, Executed, LockedPhases
<1>1. ASSUME NEW t \in Threads, NEW c \in Calls, NEW r \in Requests,
             Start(t, c, r)
      PROVE  Goal
  BY <1>1 DEF Start, Goto, stack, locals, ledger, Quiet
<1>2. ASSUME NEW c \in Calls, Snapshot(c) PROVE Goal
  BY <1>2 DEF Snapshot, Finish, Goto, stack, locals, ledger, Quiet
<1>3. ASSUME NEW c \in Calls, Check(c) PROVE Goal
  BY <1>3 DEF Check, Finish, Goto, stack, locals, ledger, Quiet
<1>4. ASSUME NEW c \in Calls, DecideNo(c) PROVE Goal
  BY <1>4 DEF DecideNo, Finish, Goto, stack, locals, ledger, Quiet
<1>5. ASSUME NEW c \in Calls, DecideYes(c) PROVE Goal
  BY <1>5 DEF DecideYes, Goto, stack, locals, ledger, Quiet
<1>6. ASSUME NEW c \in Calls, DecideUnconfirmed(c) PROVE Goal
  BY <1>6 DEF DecideUnconfirmed, Finish, Goto, stack, locals, ledger, Quiet
<1>7. ASSUME NEW c \in Calls, AskConfirmation(c) PROVE Goal
  BY <1>7 DEF AskConfirmation, Goto, stack, locals, ledger, Quiet
<1>8. ASSUME NEW c \in Calls, ConfirmTrue(c) PROVE Goal
  BY <1>8 DEF ConfirmTrue, Goto, stack, locals, ledger, Quiet
<1>9. ASSUME NEW c \in Calls, ConfirmOther(c) PROVE Goal
  BY <1>9 DEF ConfirmOther, Finish, Goto, stack, locals, ledger, Quiet
<1>10. ASSUME NEW c \in Calls, Recheck(c) PROVE Goal
  BY <1>10 DEF Recheck, Finish, Goto, stack, locals, ledger, Quiet
<1>11. ASSUME NEW c \in Calls, RevalidateNo(c) PROVE Goal
  BY <1>11 DEF RevalidateNo, Finish, Goto, stack, locals, ledger, Quiet
<1>12. ASSUME NEW c \in Calls, RevalidateYes(c) PROVE Goal
  BY <1>12 DEF RevalidateYes, Goto, stack, locals, ledger, Quiet
<1>13. ASSUME NEW c \in Calls, Enter(c) PROVE Goal
  BY <1>13 DEF Enter, Goto, stack, locals, ledger, Quiet
<1>14. ASSUME NEW c \in Calls, NEW vs \in Results, Publish(c, vs) PROVE Goal
  <2>1. Publication(c)
    BY <1>14 DEF Publish, Invoked, Finish, Goto, Ledger!Record, Publication
  <2> QED
    BY <2>1
<1>15. ASSUME NEW c \in Calls, Overflow(c) PROVE Goal
  BY <1>15 DEF Overflow, Invoked, Finish, Goto, Closing
<1>16. ASSUME NEW c \in Calls, Fail(c) PROVE Goal
  BY <1>16 DEF Fail, Invoked, Finish, Goto, stack, locals, ledger, Quiet
<1>17. ASSUME NEW t \in Threads, NEW vs \in Results,
             RecordElsewhere(t, vs)
      PROVE  Goal
  BY <1>17 DEF RecordElsewhere, Ledger!Record, Elsewhere, Closing
<1>18. ASSUME NEW s \in Sources, Edit(s) PROVE Goal
  BY <1>18 DEF Edit, stack, locals, ledger, Quiet
<1>19. ASSUME NEW s \in Sources, Undo(s) PROVE Goal
  BY <1>19 DEF Undo, stack, locals, ledger, Quiet
<1>20. ASSUME NEW c \in Calls, NEW r \in Requests,
             MutateInput(c, r)
      PROVE  Goal
  BY <1>20 DEF MutateInput, stack, locals, ledger, Quiet
<1>21. CASE UNCHANGED vars
  BY <1>21 DEF vars, stack, locals, ledger, Quiet
<1> QED
  BY <1>1, <1>2, <1>3, <1>4, <1>5, <1>6, <1>7, <1>8, <1>9, <1>10,
     <1>11, <1>12, <1>13, <1>14, <1>15, <1>16, <1>17, <1>18, <1>19,
     <1>20, <1>21
  DEF Next, Progress, Environment

(* The epoch counts the publications, so it never stands for two ledger    *)
(* contents.                                                               *)
THEOREM EpochsAreCounted == Spec => []EpochCountsPublications
<1>1. Init => EpochCountsPublications
  BY FS_EmptySet DEF Init, EpochCountsPublications
<1>2. IInv /\ EpochCountsPublications /\ [Next]_vars
        => EpochCountsPublications'
  <2> SUFFICES ASSUME IInv, EpochCountsPublications, [Next]_vars
               PROVE  EpochCountsPublications'
    OBVIOUS
  <2> DEFINE closed == IF saturated THEN 1 ELSE 0
  <2>1. version = Cardinality(Executed) + externals + closed
    BY DEF EpochCountsPublications, Executed
  <2>2. IsFiniteSet(Executed) /\ Cardinality(Executed) \in Nat
    BY RunnerAssumption, FS_Subset, FS_CardinalityType DEF Executed
  <2>3. externals \in Nat /\ version \in Nat /\ saturated \in BOOLEAN
    BY RunnerAssumption DEF IInv, TypeInv, TypeOK
  <2>4. SUFFICES version' = Cardinality(Executed') + externals' + closed'
    BY DEF EpochCountsPublications, Executed
  <2>5. CASE Quiet
    BY <2>1, <2>5 DEF Quiet
  <2>6. ASSUME NEW c \in Calls, Publication(c)
        PROVE  version' = Cardinality(Executed') + externals' + closed'
    <3>1. Cardinality(Executed') = Cardinality(Executed) + 1
      BY <2>2, <2>6, FS_AddElement DEF Publication
    <3> QED
      BY <2>1, <2>2, <2>3, <2>6, <3>1 DEF Publication
  <2>7. CASE Elsewhere
    BY <2>1, <2>2, <2>3, <2>7 DEF Elsewhere
  <2>8. CASE Closing
    BY <2>1, <2>2, <2>3, <2>8 DEF Closing, Ledger!Saturate
  <2> QED
    BY <2>5, <2>6, <2>7, <2>8, EpochStep DEF IInv
<1> QED
  BY <1>1, <1>2, Invariance, PTL DEF Spec

---------------------------------------------------------------------------
(* The guarded runner implements AtomicAuthority: every step of its        *)
(* threads, locks, callbacks and re-checks is one step of the atomic       *)
(* promise or leaves it alone.                                             *)

(* A call that neither runs nor has ended is pending.                      *)
LEMMA StatusOf ==
  ASSUME NEW c \in Calls, ResultsOK
  PROVE  /\ phase[c] = "invoking" => AbstractStatus(c) = "running"
         /\ phase[c] \notin {"invoking", "done"} =>
              AbstractStatus(c) = "pending"
  BY DEF AbstractStatus, ResultsOK

(* Ending a pending call with any outcome but an execution refuses it.     *)
LEMMA Refusal ==
  ASSUME IInv, NEW c \in Calls, phase[c] \notin {"idle", "invoking", "done"},
         NEW o \in {"denied", "unconfirmed", "raised"}, Finish(c, o),
         UNCHANGED <<returned, ledger>>
  PROVE  Atomic!Refuse(c)
<1> USE DEF IInv, TypeInv, TypeOK
<1>1. AbstractStatus(c) = "pending"
  BY StatusOf
<1>2. AbstractStatus(c)' = "refused"
  BY DEF Finish, Goto, AbstractStatus
<1>3. \A d \in Calls : d # c => AbstractStatus(d)' = AbstractStatus(d)
  BY DEF Finish, Goto, AbstractStatus
<1>4. [d \in Calls |-> AbstractStatus(d)]'
        = [[d \in Calls |-> AbstractStatus(d)] EXCEPT ![c] = "refused"]
  BY <1>2, <1>3
<1>5. [d \in Calls |-> AbstractApproval(d)]'
        = [[d \in Calls |-> AbstractApproval(d)] EXCEPT ![c] = NoApproval]
  BY DEF Finish, AbstractApproval
<1> QED
  BY <1>1, <1>4, <1>5 DEF Finish, ledger, Atomic!Refuse, Atomic!Close

(* Moving between two points of run() at which the call is neither running *)
(* nor over shows nothing.                                                 *)
LEMMA Unseen ==
  ASSUME IInv, NEW c \in Calls, phase[c] \notin {"invoking", "done"},
         NEW p \in Phases \ {"invoking", "done"}, Goto(c, p),
         UNCHANGED <<approved, request, outcome, returned, ledger>>
  PROVE  UNCHANGED Atomic!vars
<1> USE DEF IInv, TypeInv, TypeOK
<1>1. \A d \in Calls : AbstractStatus(d)' = AbstractStatus(d)
  BY DEF Goto, AbstractStatus, ResultsOK
<1>2. \A d \in Calls : AbstractApproval(d)' = AbstractApproval(d)
  BY DEF AbstractApproval
<1> QED
  BY <1>1, <1>2 DEF Atomic!vars, ledger

(* An entered call ends in one abstract step, its result recorded with it. *)
LEMMA Ending ==
  ASSUME IInv, NEW c \in Calls, phase[c] = "invoking",
         NEW o \in {"executed", "failed", "interrupted"}, Finish(c, o)
  PROVE  /\ AbstractStatus(c) = "running"
         /\ Atomic!Close(c, IF o = "executed" THEN "executed" ELSE "failed")
<1> USE DEF IInv, TypeInv, TypeOK
<1> DEFINE s == IF o = "executed" THEN "executed" ELSE "failed"
<1>1. AbstractStatus(c) = "running"
  BY StatusOf
<1>2. AbstractStatus(c)' = s
  BY DEF Finish, Goto, AbstractStatus
<1>3. \A d \in Calls : d # c => AbstractStatus(d)' = AbstractStatus(d)
  BY DEF Finish, Goto, AbstractStatus
<1>4. [d \in Calls |-> AbstractStatus(d)]'
        = [[d \in Calls |-> AbstractStatus(d)] EXCEPT ![c] = s]
  BY <1>2, <1>3
<1>5. [d \in Calls |-> AbstractApproval(d)]'
        = [[d \in Calls |-> AbstractApproval(d)] EXCEPT ![c] = NoApproval]
  BY DEF Finish, AbstractApproval
<1> QED
  BY <1>1, <1>4, <1>5 DEF Finish, Atomic!Close

(* The first check of a call submits its snapshot.                         *)
LEMMA SnapshotRefines ==
  ASSUME IInv, NEW c \in Calls, Snapshot(c)
  PROVE  Atomic!Next
<1> USE DEF IInv, TypeInv, TypeOK
<1>1. CASE Drifted \/ ~input[c].plain
  <2>1. Finish(c, "denied") /\ phase[c] = "entered"
        /\ UNCHANGED <<returned, ledger>>
    BY <1>1 DEF Snapshot
  <2>2. Atomic!Refuse(c)
    BY <2>1, Refusal
  <2> QED
    BY <2>2 DEF Atomic!Next
<1>2. CASE ~(Drifted \/ ~input[c].plain)
  <2> USE <1>2 DEF Snapshot, Goto, stack, ledger
  <2>1. input[c] \in Requests /\ approved[c] = NoRequest
    BY DEF LocalsOK
  <2>2. \A d \in Calls : AbstractStatus(d)' = AbstractStatus(d)
    BY DEF AbstractStatus, ResultsOK
  <2>3. \A d \in Calls : AbstractApproval(d)' = AbstractApproval(d)
    BY DEF AbstractApproval
  <2>4. AbstractStatus(c) = "pending"
    BY StatusOf
  <2>5. Atomic!Submit(c, input[c])
    BY <2>1, <2>2, <2>3, <2>4 DEF Atomic!Submit
  <2> QED
    BY <2>1, <2>5 DEF Atomic!Next
<1> QED
  BY <1>1, <1>2

(* Building the confirmation request under the lock asks for approval.     *)
LEMMA AskRefines ==
  ASSUME IInv, NEW c \in Calls, AskConfirmation(c)
  PROVE  Atomic!AskApproval(c)
<1> USE RunnerAssumption
        DEF IInv, TypeInv, TypeOK, AskConfirmation, Goto, stack, ledger
<1>1. approved[c] \in Requests /\ request[c] = NoApproval
  BY DEF LocalsOK
<1>2. AbstractStatus(c) = "pending"
  BY StatusOf
<1>3. \A d \in Calls : AbstractStatus(d)' = AbstractStatus(d)
  BY DEF AbstractStatus, ResultsOK
<1>4. request'[c] = [request |-> approved[c], version |-> version,
                     tainted |-> tainted]
  OBVIOUS
<1>5. request'[c] # NoApproval
  BY <1>1, <1>4 DEF Approvals
<1>6. AbstractApproval(c)' = [request |-> approved[c], tainted |-> tainted]
  BY <1>4, <1>5 DEF AbstractApproval
<1>7. \A d \in Calls : d # c => AbstractApproval(d)' = AbstractApproval(d)
  BY DEF AbstractApproval
<1>8. AbstractApproval(c) = NoApproval
  BY <1>1 DEF AbstractApproval
<1>9. [d \in Calls |-> AbstractApproval(d)]'
        = [[d \in Calls |-> AbstractApproval(d)] EXCEPT
             ![c] = [request |-> approved[c], tainted |-> tainted]]
  BY <1>6, <1>7
<1> QED
  BY <1>1, <1>2, <1>3, <1>8, <1>9 DEF Atomic!AskApproval

(* Entering the implementation is one atomic check against the session.    *)
LEMMA EnterRefines ==
  ASSUME IInv, NEW c \in Calls, Enter(c)
  PROVE  Atomic!Enter(c)
<1> USE DEF IInv, TypeInv, TypeOK, Enter, Goto, locals, ledger, stack
<1>1. approved[c] \in Requests /\ approved[c] # NoRequest
  BY RunnerAssumption DEF LocalsOK
<1>2. AbstractStatus(c) = "pending"
  BY StatusOf
<1>3. AbstractStatus(c)' = "running"
  <2>1. phase'[c] = "invoking" /\ outcome'[c] = "none"
    BY DEF ResultsOK
  <2> QED
    BY <2>1 DEF AbstractStatus
<1>4. \A d \in Calls : d # c => AbstractStatus(d)' = AbstractStatus(d)
  BY DEF AbstractStatus
<1>5. [d \in Calls |-> AbstractStatus(d)]'
        = [[d \in Calls |-> AbstractStatus(d)] EXCEPT ![c] = "running"]
  BY <1>3, <1>4
<1>6. \A d \in Calls : AbstractApproval(d)' = AbstractApproval(d)
  BY DEF AbstractApproval
<1>7. Decision(c).allow
  BY DEF ReadyOK
<1>8. /\ ~saturated
      /\ approved[c].tool \in DOMAIN Bundle
      /\ Decision(c).needsConfirm
           = NeedsConfirmation(Bundle[approved[c].tool], approved[c].args)
      /\ OwnsLocked(approved[c], tainted)
  BY <1>7, DispatchAllows DEF Decision
<1>9. Atomic!OwnsLockedArguments(approved[c])
  BY <1>8 DEF OwnsLocked, Atomic!OwnsLockedArguments
<1>10. Atomic!ApprovedIfRisky(c)
  <2> SUFFICES ASSUME Decision(c).needsConfirm
               PROVE  AbstractApproval(c)
                        = [request |-> approved[c], tainted |-> tainted]
    <3>1. NeedsConfirmation(Bundle[approved[c].tool], approved[c].args)
            = Atomic!NeedsConfirmation(Bundle[approved[c].tool],
                                       approved[c].args)
      BY DEF NeedsConfirmation, EffectiveRisk, NEEDS_CONFIRM,
             Atomic!NeedsConfirmation, Atomic!EffectiveRisk,
             Atomic!NEEDS_CONFIRM
    <3> QED
      BY <1>8, <3>1 DEF Atomic!ApprovedIfRisky
  <2>1. request[c] # NoApproval /\ request[c].version = version
    BY DEF ReadyOK
  <2>2. request[c].request = approved[c] /\ request[c].tainted = tainted
    BY <2>1 DEF EpochOK
  <2> QED
    BY <2>1, <2>2 DEF AbstractApproval
<1> QED
  BY <1>1, <1>2, <1>5, <1>6, <1>8, <1>9, <1>10 DEF Atomic!Enter

---------------------------------------------------------------------------
(* Every step of the runner is a step of the atomic promise or a stutter.  *)
LEMMA NextRefines == IInv /\ [Next]_vars => [Atomic!Next]_Atomic!vars
<1> SUFFICES ASSUME IInv, [Next]_vars
             PROVE  Atomic!Next \/ UNCHANGED Atomic!vars
  OBVIOUS
<1> DEFINE Goal == Atomic!Next \/ UNCHANGED Atomic!vars
<1>a. ASSUME NEW c \in Calls, Atomic!Refuse(c) PROVE Goal
  BY <1>a DEF Atomic!Next
<1>b. ASSUME NEW c \in Calls, phase[c] \notin {"idle", "invoking", "done"},
             Finish(c, "denied"), UNCHANGED <<returned, ledger>>
      PROVE  Goal
  BY <1>a, <1>b, Refusal
<1>c. UNCHANGED <<phase, approved, request, outcome, returned, ledger>>
        => UNCHANGED Atomic!vars
  BY DEF Atomic!vars, AbstractStatus, AbstractApproval, ledger
<1> USE DEF Phases, LockedPhases
<1>1. ASSUME NEW t \in Threads, NEW c \in Calls, NEW r \in Requests,
             Start(t, c, r)
      PROVE  Goal
  BY <1>1, Unseen DEF Start, stack
<1>2. ASSUME NEW c \in Calls, Snapshot(c) PROVE Goal
  BY <1>2, SnapshotRefines
<1>3. ASSUME NEW c \in Calls, Check(c) PROVE Goal
  BY <1>3, <1>b, Unseen DEF Check, locals
<1>4. ASSUME NEW c \in Calls, DecideNo(c) PROVE Goal
  BY <1>4, <1>b DEF DecideNo
<1>5. ASSUME NEW c \in Calls, DecideYes(c) PROVE Goal
  BY <1>5, Unseen DEF DecideYes, locals
<1>6. ASSUME NEW c \in Calls, DecideUnconfirmed(c) PROVE Goal
  BY <1>6, <1>a, Refusal DEF DecideUnconfirmed
<1>7. ASSUME NEW c \in Calls, AskConfirmation(c) PROVE Goal
  BY <1>7, AskRefines DEF Atomic!Next
<1>8. ASSUME NEW c \in Calls, ConfirmTrue(c) PROVE Goal
  BY <1>8, Unseen DEF ConfirmTrue, locals
<1>9. ASSUME NEW c \in Calls, ConfirmOther(c) PROVE Goal
  BY <1>9, <1>a, Refusal DEF ConfirmOther
<1>10. ASSUME NEW c \in Calls, Recheck(c) PROVE Goal
  BY <1>10, <1>b, Unseen DEF Recheck, locals
<1>11. ASSUME NEW c \in Calls, RevalidateNo(c) PROVE Goal
  BY <1>11, <1>b DEF RevalidateNo
<1>12. ASSUME NEW c \in Calls, RevalidateYes(c) PROVE Goal
  BY <1>12, Unseen DEF RevalidateYes, locals
<1>13. ASSUME NEW c \in Calls, Enter(c) PROVE Goal
  BY <1>13, EnterRefines DEF Atomic!Next
<1>14. ASSUME NEW c \in Calls, NEW vs \in Results, Publish(c, vs) PROVE Goal
  <2>1. AbstractStatus(c) = "running" /\ Atomic!Close(c, "executed")
    BY <1>14, Ending DEF Publish, Invoked
  <2>2. Atomic!Execute(c, vs)
    BY <1>14, <2>1 DEF Publish, Ledger!Record, Atomic!Execute
  <2> QED
    BY <2>2 DEF Atomic!Next
<1>15. ASSUME NEW c \in Calls, Overflow(c) PROVE Goal
  <2>1. AbstractStatus(c) = "running" /\ Atomic!Close(c, "failed")
    BY <1>15, Ending DEF Overflow, Invoked
  <2>2. Atomic!Fail(c)
    BY <1>15, <2>1 DEF Overflow, Ledger!Saturate, Atomic!Fail
  <2> QED
    BY <2>2 DEF Atomic!Next
<1>16. ASSUME NEW c \in Calls, Fail(c) PROVE Goal
  <2>1. AbstractStatus(c) = "running" /\ Atomic!Close(c, "failed")
    BY <1>16, Ending DEF Fail, Invoked
  <2>2. Atomic!Fail(c)
    BY <1>16, <2>1 DEF Fail, ledger, Atomic!Fail
  <2> QED
    BY <2>2 DEF Atomic!Next
<1>17. ASSUME NEW t \in Threads, NEW vs \in Results, RecordElsewhere(t, vs)
       PROVE  Goal
  <2>1. /\ UNCHANGED [d \in Calls |-> AbstractStatus(d)]
        /\ UNCHANGED [d \in Calls |-> AbstractApproval(d)]
    BY <1>17 DEF RecordElsewhere, locals, AbstractStatus, AbstractApproval
  <2>2. Atomic!RecordElsewhere(vs)
    BY <1>17, <2>1 DEF RecordElsewhere, locals, Ledger!Record,
                       Ledger!Saturate, Atomic!RecordElsewhere
  <2> QED
    BY <2>2 DEF Atomic!Next
<1>18. ASSUME NEW s \in Sources, Edit(s) PROVE Goal
  BY <1>18, <1>c DEF Edit, locals
<1>19. ASSUME NEW s \in Sources, Undo(s) PROVE Goal
  BY <1>19, <1>c DEF Undo, locals
<1>20. ASSUME NEW c \in Calls, NEW r \in Requests, MutateInput(c, r)
       PROVE  Goal
  BY <1>20, <1>c DEF MutateInput
<1>21. CASE UNCHANGED vars
  BY <1>21, <1>c DEF vars, locals
<1> QED
  BY <1>1, <1>2, <1>3, <1>4, <1>5, <1>6, <1>7, <1>8, <1>9, <1>10, <1>11,
     <1>12, <1>13, <1>14, <1>15, <1>16, <1>17, <1>18, <1>19, <1>20, <1>21
  DEF Next, Progress, Environment

(* The guarded runner implements the atomic promise: decision, approval    *)
(* and entry behave as one step, and so do execution and recording.        *)
THEOREM RunnerIsAtomic == Spec => RefinesAtomicAuthority
<1>1. Init => Atomic!Init
  BY DEF Init, Atomic!Init, AbstractStatus, AbstractApproval
<1> QED
  BY <1>1, NextRefines, Invariance, PTL
  DEF Spec, RefinesAtomicAuthority, Atomic!Spec
=============================================================================
