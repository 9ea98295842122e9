------------------------- MODULE SealedRun_proofs -------------------------
(***************************************************************************)
(* The entry grant of iter begins one base run, in the task that entered,  *)
(* the tool managers of a run form one line, and a task's context follows  *)
(* from the blocks it is in: for every number of tasks, runs, nodes and    *)
(* managers, and any nesting.                                              *)
(***************************************************************************)
EXTENDS SealedRun, SequenceTheorems, TLAPS

---------------------------------------------------------------------------
(* One base run for each entry. *)

Grants == Runs \cup {None}
Drivers == (Runs \X (Tasks \cup {None})) \cup {None}
Blocks ==
  [kind : {"iter", "step", "close"}, run : Runs, old : Grants \cup Drivers]

Phases == {"none", "failed"} \cup Setup \cup Sealed

EntryTypes ==
  /\ alive \subseteq Tasks
  /\ entry \in [Tasks -> Grants]
  /\ active \in [Tasks -> Drivers]
  /\ blocks \in [Tasks -> Seq(Blocks)]
  /\ phase \in [Runs -> Phases]
  /\ owner \in [Runs -> Tasks \cup {None}]
  /\ begun \in [Runs -> Seq(Tasks)]

\* nothing has begun on a run nobody entered, and whoever entered one exists
RunOK(r) ==
  /\ phase[r] = "none" => begun[r] = <<>>
  /\ phase[r] # "none" => owner[r] \in alive
  /\ begun[r] = <<>> \/ begun[r] = <<owner[r]>>

\* the grant a task has in its context is its own only while the iter that
\* minted it waits for its base run, in its innermost block
GrantOK(t) ==
  entry[t] \in Runs =>
    /\ phase[entry[t]] # "none"
    /\ owner[entry[t]] = t =>
         /\ begun[entry[t]] = <<>>
         /\ phase[entry[t]] = "granted"
         /\ blocks[t] # <<>>
         /\ blocks[t][1].kind = "iter"
         /\ blocks[t][1].run = entry[t]

\* an iter block of t is in the run it entered, and what it will put back is
\* no grant of its own
BlockOK(b, t, own, ph) ==
  /\ b.kind = "iter" =>
       /\ own[b.run] = t
       /\ ph[b.run] # "none"
       /\ b.old \in Grants
       /\ b.old \in Runs => ph[b.old] # "none" /\ own[b.old] # t
  /\ b.kind # "iter" => b.old \in Drivers

\* and a close is directly inside the iter of its run
StackOK(s, t, own, ph) ==
  \A i \in 1..Len(s) :
    /\ BlockOK(s[i], t, own, ph)
    /\ s[i].kind = "close" =>
         /\ i + 1 \in 1..Len(s)
         /\ s[i + 1].kind = "iter"
         /\ s[i + 1].run = s[i].run

EntryInv ==
  /\ EntryTypes
  /\ \A r \in Runs : RunOK(r)
  /\ \A t \in Tasks : GrantOK(t)
  /\ \A t \in Tasks : StackOK(blocks[t], t, owner, phase)

(* What a task finds on entering a block.                                  *)
LEMMA PushBlock ==
  ASSUME NEW S, NEW s \in Seq(S), NEW b \in S
  PROVE  /\ <<b>> \o s \in Seq(S)
         /\ <<b>> \o s # <<>>
         /\ Len(<<b>> \o s) = Len(s) + 1
         /\ (<<b>> \o s)[1] = b
         /\ \A i \in 2..Len(s) + 1 : (<<b>> \o s)[i] = s[i - 1]
<1>1. <<b>> \in Seq(S) /\ Len(<<b>>) = 1 /\ <<b>>[1] = b
  OBVIOUS
<1>2. Len(s) \in Nat
  BY LenProperties
<1>3. /\ <<b>> \o s \in Seq(S)
      /\ Len(<<b>> \o s) = 1 + Len(s)
      /\ \A i \in 1..1 + Len(s) :
           (<<b>> \o s)[i] = IF i <= 1 THEN <<b>>[i] ELSE s[i - 1]
  BY <1>1, ConcatProperties
<1>4. Len(<<b>> \o s) # 0
  BY <1>2, <1>3
<1>5. <<b>> \o s # <<>>
  BY <1>4, EmptySeq
<1> QED BY <1>1, <1>2, <1>3, <1>5

(* And on leaving one.                                                     *)
LEMMA PopBlock ==
  ASSUME NEW S, NEW s \in Seq(S), s # <<>>
  PROVE  /\ Head(s) = s[1]
         /\ Head(s) \in S
         /\ Len(s) \in Nat \ {0}
         /\ Tail(s) \in Seq(S)
         /\ Len(Tail(s)) = Len(s) - 1
         /\ \A i \in 1..Len(Tail(s)) : Tail(s)[i] = s[i + 1]
<1>1. Len(s) \in Nat \ {0}
  BY EmptySeq
<1> QED BY <1>1, HeadTailProperties

(* Entering a block keeps the stack of the task in order.                  *)
LEMMA StackPush ==
  ASSUME NEW s \in Seq(Blocks), NEW b \in Blocks, NEW t, NEW own, NEW ph,
         StackOK(s, t, own, ph), BlockOK(b, t, own, ph),
         b.kind = "close" =>
           s # <<>> /\ s[1].kind = "iter" /\ s[1].run = b.run
  PROVE  StackOK(<<b>> \o s, t, own, ph)
<1> DEFINE new == <<b>> \o s
<1>1. /\ Len(new) = Len(s) + 1
      /\ new[1] = b
      /\ \A i \in 2..Len(s) + 1 : new[i] = s[i - 1]
      /\ Len(s) \in Nat
      /\ s # <<>> => Len(s) # 0
  BY PushBlock, LenProperties, EmptySeq
<1> HIDE DEF new
<1>2. ASSUME NEW i \in 1..Len(s) PROVE i + 1 \in 2..Len(new) /\ new[i + 1] = s[i]
  <2>1. i + 1 \in 2..Len(s) + 1 /\ (i + 1) - 1 = i
    BY <1>1
  <2>2. new[i + 1] = s[(i + 1) - 1]
    BY <2>1, <1>1
  <2> QED BY <2>1, <2>2, <1>1
<1>3. ASSUME NEW i \in 1..Len(new)
      PROVE  /\ BlockOK(new[i], t, own, ph)
             /\ new[i].kind = "close" =>
                  /\ i + 1 \in 1..Len(new)
                  /\ new[i + 1].kind = "iter"
                  /\ new[i + 1].run = new[i].run
  <2>1. CASE i = 1
    <3>1. b.kind = "close" => 1 \in 1..Len(s)
      BY <1>1
    <3>2. b.kind = "close" => 2 \in 1..Len(new) /\ new[2] = s[1]
      BY <3>1, <1>1
    <3> QED BY <2>1, <3>2, <1>1
  <2>2. CASE i # 1
    <3>1. PICK j \in 1..Len(s) : i = j + 1
      <4>1. i - 1 \in 1..Len(s) /\ i = (i - 1) + 1
        BY <2>2, <1>1
      <4> QED BY <4>1
    <3>2. new[i] = s[j]
      BY <3>1, <1>2
    <3>3. s[j].kind = "close" =>
            /\ i \in 1..Len(s)
            /\ s[i].kind = "iter"
            /\ s[i].run = s[j].run
      BY <3>1 DEF StackOK
    <3>4. i \in 1..Len(s) => i + 1 \in 1..Len(new) /\ new[i + 1] = s[i]
      BY <1>1, <1>2
    <3> QED BY <3>2, <3>3, <3>4 DEF StackOK
  <2> QED BY <2>1, <2>2
<1> QED BY <1>3 DEF StackOK, new

(* So does leaving one.                                                    *)
LEMMA StackPop ==
  ASSUME NEW s \in Seq(Blocks), s # <<>>, NEW t, NEW own, NEW ph,
         StackOK(s, t, own, ph)
  PROVE  StackOK(Tail(s), t, own, ph)
<1>1. /\ Len(Tail(s)) = Len(s) - 1
      /\ Len(s) \in Nat \ {0}
      /\ \A i \in 1..Len(Tail(s)) : Tail(s)[i] = s[i + 1]
  BY PopBlock
<1>2. ASSUME NEW i \in 1..Len(Tail(s))
      PROVE  /\ BlockOK(Tail(s)[i], t, own, ph)
             /\ Tail(s)[i].kind = "close" =>
                  /\ i + 1 \in 1..Len(Tail(s))
                  /\ Tail(s)[i + 1].kind = "iter"
                  /\ Tail(s)[i + 1].run = Tail(s)[i].run
  <2>1. i + 1 \in 1..Len(s) /\ Tail(s)[i] = s[i + 1]
    BY <1>1
  <2>2. i + 1 + 1 \in 1..Len(s) =>
          i + 1 \in 1..Len(Tail(s)) /\ Tail(s)[i + 1] = s[i + 1 + 1]
    BY <1>1
  <2> QED BY <2>1, <2>2 DEF StackOK
<1> QED BY <1>2 DEF StackOK

(* What entered once stays entered, by the same task.                      *)
LEMMA StackStays ==
  ASSUME NEW s \in Seq(Blocks), NEW t, NEW own, NEW ph, NEW own2, NEW ph2,
         StackOK(s, t, own, ph),
         \A q \in Runs : ph[q] # "none" => ph2[q] # "none" /\ own2[q] = own[q]
  PROVE  StackOK(s, t, own2, ph2)
<1>1. ASSUME NEW i \in 1..Len(s) PROVE BlockOK(s[i], t, own2, ph2)
  <2>1. s[i] \in Blocks
    BY ElementOfSeq
  <2>2. s[i].run \in Runs
    BY <2>1 DEF Blocks
  <2> QED BY <2>2 DEF StackOK, BlockOK
<1> QED BY <1>1 DEF StackOK

(* Nobody has entered anything at the start.                               *)
LEMMA EntryInit ==
  ASSUME Init, SealedRunAssumption
  PROVE  EntryInv
<1>1. EntryTypes
  <2>1. <<>> \in Seq(Blocks) /\ <<>> \in Seq(Tasks)
    BY EmptySeq
  <2> QED BY <2>1 DEF Init, SealedRunAssumption, EntryTypes, Grants, Drivers,
                Phases
<1>2. \A r \in Runs : RunOK(r)
  BY DEF Init, RunOK
<1>3. \A t \in Tasks : GrantOK(t)
  BY DEF Init, SealedRunAssumption, GrantOK
<1>4. \A t \in Tasks : Len(blocks[t]) = 0
  BY EmptySeq DEF Init
<1>5. \A t \in Tasks : StackOK(blocks[t], t, owner, phase)
  BY <1>4 DEF StackOK
<1> QED BY <1>1, <1>2, <1>3, <1>5 DEF EntryInv

(* The invariant reads the grants, the blocks, and who entered what.       *)
LEMMA EntryFrame ==
  ASSUME EntryInv,
         UNCHANGED <<alive, entry, active, blocks, phase, owner, begun>>
  PROVE  EntryInv'
  BY DEF EntryInv, EntryTypes, RunOK, GrantOK

(* A created task enters nothing, and no run is its own.                   *)
LEMMA EntrySpawn ==
  ASSUME EntryInv, SealedRunAssumption,
         NEW t \in Tasks, NEW c \in Tasks, Spawn(t, c)
  PROVE  EntryInv'
<1>1. /\ alive' = alive \cup {c}
      /\ c \notin alive
      /\ entry' = [entry EXCEPT ![c] = entry[t]]
      /\ active' = [active EXCEPT ![c] = active[t]]
      /\ UNCHANGED <<blocks, phase, owner, begun>>
  BY DEF Spawn
<1>2. EntryTypes'
  BY <1>1 DEF EntryInv, EntryTypes
<1>3. ASSUME NEW r \in Runs PROVE RunOK(r)'
  BY <1>1 DEF EntryInv, RunOK
<1>4. ASSUME NEW u \in Tasks PROVE GrantOK(u)'
  <2>1. CASE u = c
    <3>1. entry'[c] = entry[t]
      BY <1>1 DEF EntryInv, EntryTypes
    <3>2. entry[t] \in Runs => phase[entry[t]] # "none" /\ owner[entry[t]] # c
      BY <1>1 DEF EntryInv, GrantOK, RunOK
    <3> QED BY <2>1, <3>1, <3>2, <1>1 DEF GrantOK
  <2>2. CASE u # c
    <3>1. entry'[u] = entry[u]
      BY <1>1, <2>2 DEF EntryInv, EntryTypes
    <3> QED BY <3>1, <1>1 DEF EntryInv, GrantOK
  <2> QED BY <2>1, <2>2
<1>5. \A u \in Tasks : StackOK(blocks'[u], u, owner', phase')
  BY <1>1 DEF EntryInv
<1> QED BY <1>2, <1>3, <1>4, <1>5 DEF EntryInv

(* A task that is free waits for no base run, so a grant it is given takes *)
(* the place of none of its own.                                           *)
LEMMA FreeHoldsNoGrant ==
  ASSUME EntryInv, NEW t \in Tasks,
         Free(t) \/ (IsIn(t, "iter") /\ phase[Top(t).run] # "granted")
           \/ IsIn(t, "step") \/ IsIn(t, "close")
  PROVE  entry[t] \in Runs => owner[entry[t]] # t
<1>1. blocks[t] # <<>> => Top(t) = blocks[t][1]
  BY PopBlock DEF EntryInv, EntryTypes, Top
<1> QED BY <1>1 DEF EntryInv, GrantOK, Free, IsIn

LEMMA EntryEnterIter ==
  ASSUME EntryInv, SealedRunAssumption,
         NEW t \in Tasks, NEW r \in Runs, EnterIter(t, r)
  PROVE  EntryInv'
<1> DEFINE b == Block("iter", r, entry[t])
           old == blocks[t]
           new == <<b>> \o old
<1>1. /\ t \in alive
      /\ phase[r] = "none"
      /\ phase' = [phase EXCEPT ![r] = "granted"]
      /\ owner' = [owner EXCEPT ![r] = t]
      /\ blocks' = [blocks EXCEPT ![t] = new]
      /\ entry' = [entry EXCEPT ![t] = r]
      /\ UNCHANGED <<alive, active, begun>>
  BY DEF EnterIter, Enter, Free
<1>2. entry[t] \in Runs => phase[entry[t]] # "none" /\ owner[entry[t]] # t
  BY FreeHoldsNoGrant DEF EnterIter, EntryInv, GrantOK
<1>3. /\ b.kind = "iter" /\ b.run = r /\ b.old = entry[t]
      /\ b \in Blocks
      /\ entry[t] \in Grants
      /\ old \in Seq(Blocks)
  BY DEF Block, Blocks, EntryInv, EntryTypes
<1>4. /\ new \in Seq(Blocks)
      /\ new # <<>>
      /\ Len(new) = Len(old) + 1
      /\ new[1] = b
      /\ \A i \in 2..Len(old) + 1 : new[i] = old[i - 1]
      /\ Len(old) \in Nat
  BY <1>3, PushBlock, LenProperties
<1> HIDE DEF b, new
<1>5. EntryTypes'
  <2>1. blocks' \in [Tasks -> Seq(Blocks)]
    BY <1>1, <1>4 DEF EntryInv, EntryTypes
  <2>2. entry' \in [Tasks -> Grants] /\ owner' \in [Runs -> Tasks \cup {None}]
    BY <1>1 DEF EntryInv, EntryTypes, Grants
  <2>3. phase' \in [Runs -> Phases]
    BY <1>1 DEF EntryInv, EntryTypes, Phases, Setup
  <2> QED BY <2>1, <2>2, <2>3, <1>1 DEF EntryInv, EntryTypes
<1>6. ASSUME NEW q \in Runs
      PROVE  /\ phase[q] # "none" => phase'[q] # "none"
             /\ q # r => phase'[q] = phase[q] /\ owner'[q] = owner[q]
             /\ phase'[r] = "granted" /\ owner'[r] = t
  BY <1>1 DEF EntryInv, EntryTypes
<1>7. ASSUME NEW q \in Runs PROVE RunOK(q)'
  BY <1>1, <1>6 DEF EntryInv, RunOK
<1>8. ASSUME NEW u \in Tasks PROVE GrantOK(u)'
  <2>1. CASE u = t
    <3>1. entry'[t] = r /\ blocks'[t] = new
      BY <1>1 DEF EntryInv, EntryTypes
    <3> QED BY <2>1, <3>1, <1>1, <1>3, <1>4, <1>6
            DEF EntryInv, RunOK, GrantOK
  <2>2. CASE u # t
    <3>1. entry'[u] = entry[u] /\ blocks'[u] = blocks[u]
      BY <1>1, <2>2 DEF EntryInv, EntryTypes
    <3>2. entry[u] \in Runs => entry[u] # r
      BY <1>1 DEF EntryInv, GrantOK
    <3> QED BY <3>1, <3>2, <1>1, <1>6 DEF EntryInv, GrantOK
  <2> QED BY <2>1, <2>2
<1>9. ASSUME NEW u \in Tasks PROVE StackOK(blocks'[u], u, owner', phase')
  <2>1. StackOK(blocks[u], u, owner', phase')
    <3>1. blocks[u] \in Seq(Blocks) /\ StackOK(blocks[u], u, owner, phase)
      BY DEF EntryInv, EntryTypes
    <3>2. \A q \in Runs :
            phase[q] # "none" => phase'[q] # "none" /\ owner'[q] = owner[q]
      BY <1>1, <1>6
    <3> QED BY <3>1, <3>2, StackStays
  <2>2. CASE u = t
    <3>1. entry[t] \in Runs => phase'[entry[t]] # "none" /\ owner'[entry[t]] # t
      BY <1>1, <1>2, <1>6
    <3>2. BlockOK(b, t, owner', phase')
      BY <3>1, <1>3, <1>6 DEF BlockOK
    <3>3. StackOK(new, t, owner', phase')
      BY <2>1, <2>2, <3>2, <1>3, StackPush DEF new
    <3>4. blocks'[t] = new
      BY <1>1 DEF EntryInv, EntryTypes
    <3> QED BY <2>2, <3>3, <3>4
  <2>3. CASE u # t
    BY <2>1, <2>3, <1>1 DEF EntryInv, EntryTypes
  <2> QED BY <2>2, <2>3
<1> QED BY <1>5, <1>7, <1>8, <1>9 DEF EntryInv

(* The base run uses the grant up, so that it cannot begin another.        *)
LEMMA EntryBaseRun ==
  ASSUME EntryInv, SealedRunAssumption, NEW t \in Tasks, BaseRun(t)
  PROVE  EntryInv'
<1>1. PICK r \in Runs :
        /\ entry[t] = r
        /\ owner[r] = t
        /\ entry' = [entry EXCEPT ![t] = None]
        /\ begun' = [begun EXCEPT ![r] = Append(@, t)]
        /\ Continues(t, r)
        /\ UNCHANGED <<alive, active, blocks, owner>>
  BY DEF BaseRun
<1>2. phase' = [phase EXCEPT ![r] = "begun"]
  <2>1. blocks[t] # <<>> => Top(t) = blocks[t][1]
    BY PopBlock DEF EntryInv, EntryTypes, Top
  <2> QED BY <1>1, <2>1 DEF Continues, IsIn, EntryInv, GrantOK
<1>3. /\ begun[r] = <<>>
      /\ phase[r] # "none"
  BY <1>1 DEF EntryInv, GrantOK
<1>4. begun' = [begun EXCEPT ![r] = <<t>>] /\ <<t>> \in Seq(Tasks)
  <2>1. Append(<<>>, t) = <<t>>
    OBVIOUS
  <2> QED BY <2>1, <1>1, <1>3
<1>5. EntryTypes'
  <2>1. entry' \in [Tasks -> Grants] /\ begun' \in [Runs -> Seq(Tasks)]
    BY <1>1, <1>4 DEF EntryInv, EntryTypes, Grants
  <2>2. phase' \in [Runs -> Phases]
    BY <1>2 DEF EntryInv, EntryTypes, Phases, Setup
  <2> QED BY <2>1, <2>2, <1>1 DEF EntryInv, EntryTypes
<1>6. ASSUME NEW q \in Runs
      PROVE  /\ phase[q] # "none" => phase'[q] # "none"
             /\ q # r => phase'[q] = phase[q] /\ begun'[q] = begun[q]
             /\ phase'[r] # "none" /\ begun'[r] = <<t>>
  BY <1>2, <1>4 DEF EntryInv, EntryTypes
<1>7. ASSUME NEW q \in Runs PROVE RunOK(q)'
  BY <1>1, <1>3, <1>6 DEF EntryInv, RunOK
<1>8. ASSUME NEW u \in Tasks PROVE GrantOK(u)'
  <2>1. CASE u = t
    BY <2>1, <1>1 DEF EntryInv, EntryTypes, GrantOK, SealedRunAssumption
  <2>2. CASE u # t
    <3>1. entry'[u] = entry[u]
      BY <1>1, <2>2 DEF EntryInv, EntryTypes
    <3> QED BY <2>2, <3>1, <1>1, <1>6 DEF EntryInv, GrantOK
  <2> QED BY <2>1, <2>2
<1>9. ASSUME NEW u \in Tasks PROVE StackOK(blocks'[u], u, owner', phase')
  BY <1>1, <1>6, StackStays DEF EntryInv, EntryTypes
<1> QED BY <1>5, <1>7, <1>8, <1>9 DEF EntryInv

(* Later stages are those of a run whose grant is used up.                 *)
LEMMA EntryStage ==
  ASSUME EntryInv, NEW t \in Tasks, NEW to \in Sealed \cup Setup,
         NEW from \in {"begun", "resolved", "equipped"}, Stage(t, from, to)
  PROVE  EntryInv'
<1> DEFINE r == Top(t).run
<1>1. /\ phase[r] = from
      /\ phase' = [phase EXCEPT ![r] = to]
      /\ UNCHANGED <<alive, entry, active, blocks, owner, begun>>
  BY DEF Stage, contexts
<1>2. r \in Runs
  <2>1. Top(t) \in Blocks
    BY PopBlock DEF Stage, IsIn, EntryInv, EntryTypes, Top
  <2> QED BY <2>1 DEF Blocks
<1> HIDE DEF r
<1>3. EntryTypes'
  <2>1. phase' \in [Runs -> Phases]
    BY <1>1 DEF EntryInv, EntryTypes, Phases
  <2> QED BY <2>1, <1>1 DEF EntryInv, EntryTypes
<1>4. ASSUME NEW q \in Runs
      PROVE  /\ phase[q] # "none" <=> phase'[q] # "none"
             /\ phase[q] = "granted" => phase'[q] = "granted"
  BY <1>1, <1>2 DEF EntryInv, EntryTypes, Sealed, Setup
<1>5. ASSUME NEW q \in Runs PROVE RunOK(q)'
  BY <1>1, <1>4 DEF EntryInv, RunOK
<1>6. ASSUME NEW u \in Tasks PROVE GrantOK(u)'
  BY <1>1, <1>4 DEF EntryInv, GrantOK
<1>7. ASSUME NEW u \in Tasks PROVE StackOK(blocks'[u], u, owner', phase')
  BY <1>1, <1>4, StackStays DEF EntryInv, EntryTypes
<1> QED BY <1>3, <1>5, <1>6, <1>7 DEF EntryInv

(* Leaving an iter, whether in its own block or in that of its close: what *)
(* it puts back is no grant of this task, and no other task has one for    *)
(* the run that is left.                                                   *)
LEMMA EntryLeave ==
  ASSUME EntryInv, NEW t \in Tasks, NEW b \in Blocks, b.kind = "iter",
         BlockOK(b, t, owner, phase),
         NEW s \in Seq(Blocks), StackOK(s, t, owner, phase),
         NEW to \in {"failed", "closed"},
         NEW d \in Drivers,
         phase' = [phase EXCEPT ![b.run] = to],
         entry' = [entry EXCEPT ![t] = b.old],
         active' = [active EXCEPT ![t] = d],
         blocks' = [blocks EXCEPT ![t] = s],
         UNCHANGED <<alive, owner, begun>>
  PROVE  EntryInv'
<1>1. /\ b.run \in Runs
      /\ owner[b.run] = t
      /\ phase[b.run] # "none"
      /\ b.old \in Grants
      /\ b.old \in Runs => phase[b.old] # "none" /\ owner[b.old] # t
  BY DEF Blocks, BlockOK
<1>2. EntryTypes'
  <2>1. phase' \in [Runs -> Phases]
    BY DEF EntryInv, EntryTypes, Phases, Sealed
  <2>2. entry' \in [Tasks -> Grants] /\ active' \in [Tasks -> Drivers]
    BY <1>1 DEF EntryInv, EntryTypes
  <2>3. blocks' \in [Tasks -> Seq(Blocks)]
    BY DEF EntryInv, EntryTypes
  <2> QED BY <2>1, <2>2, <2>3 DEF EntryInv, EntryTypes
<1>3. ASSUME NEW q \in Runs
      PROVE  /\ phase[q] # "none" <=> phase'[q] # "none"
             /\ q # b.run => phase'[q] = phase[q]
  BY <1>1 DEF EntryInv, EntryTypes
<1>4. ASSUME NEW q \in Runs PROVE RunOK(q)'
  BY <1>3 DEF EntryInv, RunOK
<1>5. ASSUME NEW u \in Tasks PROVE GrantOK(u)'
  <2>1. CASE u = t
    <3>1. entry'[t] = b.old
      BY DEF EntryInv, EntryTypes
    <3> QED BY <2>1, <3>1, <1>1, <1>3 DEF GrantOK
  <2>2. CASE u # t
    <3>1. entry'[u] = entry[u] /\ blocks'[u] = blocks[u]
      BY <2>2 DEF EntryInv, EntryTypes
    <3> QED BY <2>2, <3>1, <1>1, <1>3 DEF EntryInv, GrantOK
  <2> QED BY <2>1, <2>2
<1>6. ASSUME NEW u \in Tasks, NEW a \in Seq(Blocks),
             StackOK(a, u, owner, phase)
      PROVE  StackOK(a, u, owner', phase')
  BY <1>3, <1>6, StackStays
<1>7. ASSUME NEW u \in Tasks PROVE StackOK(blocks'[u], u, owner', phase')
  <2>1. CASE u = t
    <3>1. blocks'[t] = s
      BY DEF EntryInv, EntryTypes
    <3> QED BY <2>1, <3>1, <1>6
  <2>2. CASE u # t
    <3>1. /\ blocks'[u] = blocks[u]
          /\ blocks[u] \in Seq(Blocks)
          /\ StackOK(blocks[u], u, owner, phase)
      BY <2>2 DEF EntryInv, EntryTypes
    <3> QED BY <3>1, <1>6
  <2> QED BY <2>1, <2>2
<1> QED BY <1>2, <1>4, <1>5, <1>7 DEF EntryInv

(* A set-up that fails leaves its own iter.                                *)
LEMMA EntrySetupFails ==
  ASSUME EntryInv, NEW t \in Tasks, SetupFails(t)
  PROVE  EntryInv'
<1> DEFINE b == Top(t)
<1>1. /\ blocks[t] # <<>>
      /\ b.kind = "iter"
      /\ phase' = [phase EXCEPT ![b.run] = "failed"]
      /\ entry' = [entry EXCEPT ![t] = b.old]
      /\ blocks' = [blocks EXCEPT ![t] = Tail(blocks[t])]
      /\ UNCHANGED <<alive, active, owner, begun>>
  BY DEF SetupFails, IsIn
<1>2. /\ blocks[t] \in Seq(Blocks)
      /\ StackOK(blocks[t], t, owner, phase)
  BY DEF EntryInv, EntryTypes
<1>3. b \in Blocks /\ BlockOK(b, t, owner, phase)
  <2>1. b = blocks[t][1] /\ b \in Blocks /\ 1 \in 1..Len(blocks[t])
    BY <1>1, <1>2, PopBlock DEF Top
  <2> QED BY <2>1, <1>2 DEF StackOK
<1>4. Tail(blocks[t]) \in Seq(Blocks) /\ StackOK(Tail(blocks[t]), t, owner, phase)
  BY <1>1, <1>2, PopBlock, StackPop
<1>5. active[t] \in Drivers /\ active' = [active EXCEPT ![t] = active[t]]
  BY <1>1 DEF EntryInv, EntryTypes
<1> HIDE DEF b
<1> QED BY <1>1, <1>3, <1>4, <1>5, EntryLeave

(* A close leaves its block and that of its iter.                          *)
LEMMA EntryCloseEnd ==
  ASSUME EntryInv, NEW t \in Tasks, CloseEnd(t)
  PROVE  EntryInv'
<1> DEFINE c == Top(t)
           rest == Tail(blocks[t])
           b == blocks[t][2]
<1>1. /\ blocks[t] # <<>>
      /\ c.kind = "close"
      /\ phase' = [phase EXCEPT ![c.run] = "closed"]
      /\ active' = [active EXCEPT ![t] = c.old]
      /\ entry' = [entry EXCEPT ![t] = b.old]
      /\ blocks' = [blocks EXCEPT ![t] = Tail(rest)]
      /\ UNCHANGED <<alive, owner, begun>>
  BY DEF CloseEnd, IsIn
<1>2. /\ blocks[t] \in Seq(Blocks)
      /\ StackOK(blocks[t], t, owner, phase)
  BY DEF EntryInv, EntryTypes
<1>3. /\ c = blocks[t][1]
      /\ c \in Blocks
      /\ 1 \in 1..Len(blocks[t])
      /\ rest \in Seq(Blocks)
      /\ Len(rest) = Len(blocks[t]) - 1
  BY <1>1, <1>2, PopBlock DEF Top
<1>4. /\ 2 \in 1..Len(blocks[t])
      /\ b.kind = "iter"
      /\ b.run = c.run
      /\ BlockOK(b, t, owner, phase)
      /\ c.old \in Drivers
  <2>1. /\ 1 + 1 \in 1..Len(blocks[t])
        /\ blocks[t][1 + 1].kind = "iter"
        /\ blocks[t][1 + 1].run = c.run
    BY <1>1, <1>2, <1>3 DEF StackOK
  <2>2. c.old \in Drivers
    BY <1>1, <1>2, <1>3 DEF StackOK, BlockOK
  <2>3. 2 \in 1..Len(blocks[t]) /\ b.kind = "iter" /\ b.run = c.run
    BY <2>1
  <2> QED BY <2>2, <2>3, <1>2 DEF StackOK
<1>5. b \in Blocks
  BY <1>2, <1>4, ElementOfSeq
<1>6. StackOK(rest, t, owner, phase)
  BY <1>1, <1>2, StackPop
<1>7. rest # <<>>
  <2>1. Len(blocks[t]) \in Nat
    BY <1>2, LenProperties
  <2>2. Len(rest) # 0
    BY <2>1, <1>3, <1>4
  <2> QED BY <2>2, EmptySeq
<1>8. Tail(rest) \in Seq(Blocks) /\ StackOK(Tail(rest), t, owner, phase)
  BY <1>3, <1>6, <1>7, PopBlock, StackPop
<1> HIDE DEF b, c, rest
<1> QED BY <1>1, <1>4, <1>5, <1>8, EntryLeave

(* Entering a step or a close.                                             *)
LEMMA EntryPush ==
  ASSUME EntryInv, NEW t \in Tasks, NEW b \in Blocks,
         b.kind \in {"step", "close"}, b.old \in Drivers,
         b.kind = "close" =>
           /\ blocks[t] # <<>>
           /\ blocks[t][1].kind = "iter"
           /\ blocks[t][1].run = b.run,
         entry[t] \in Runs => owner[entry[t]] # t,
         NEW d \in Drivers,
         active' = [active EXCEPT ![t] = d],
         blocks' = [blocks EXCEPT ![t] = <<b>> \o blocks[t]],
         phase' \in [Runs -> Phases],
         \A q \in Runs : /\ phase[q] # "none" <=> phase'[q] # "none"
                         /\ phase[q] = "granted" => phase'[q] = "granted",
         UNCHANGED <<alive, entry, owner, begun>>
  PROVE  EntryInv'
<1> DEFINE new == <<b>> \o blocks[t]
<1>1. blocks[t] \in Seq(Blocks) /\ StackOK(blocks[t], t, owner, phase)
  BY DEF EntryInv, EntryTypes
<1>2. new \in Seq(Blocks)
  BY <1>1, PushBlock
<1>3. BlockOK(b, t, owner, phase)
  BY DEF BlockOK
<1>4. StackOK(new, t, owner, phase)
  BY <1>1, <1>3, StackPush
<1>5. blocks' = [blocks EXCEPT ![t] = new]
  OBVIOUS
<1> HIDE DEF new
<1>6. EntryTypes'
  BY <1>2, <1>5 DEF EntryInv, EntryTypes
<1>7. ASSUME NEW q \in Runs PROVE RunOK(q)'
  BY DEF EntryInv, RunOK
<1>8. ASSUME NEW u \in Tasks PROVE GrantOK(u)'
  <2>1. CASE u = t
    BY <2>1 DEF EntryInv, GrantOK
  <2>2. CASE u # t
    <3>1. blocks'[u] = blocks[u]
      BY <2>2 DEF EntryInv, EntryTypes
    <3> QED BY <3>1 DEF EntryInv, GrantOK
  <2> QED BY <2>1, <2>2
<1>9. ASSUME NEW u \in Tasks, NEW a \in Seq(Blocks),
             StackOK(a, u, owner, phase)
      PROVE  StackOK(a, u, owner', phase')
  BY <1>9, StackStays
<1>10. ASSUME NEW u \in Tasks PROVE StackOK(blocks'[u], u, owner', phase')
  <2>1. CASE u = t
    <3>1. blocks'[t] = new
      BY <1>5 DEF EntryInv, EntryTypes
    <3> QED BY <2>1, <3>1, <1>2, <1>4, <1>9
  <2>2. CASE u # t
    <3>1. /\ blocks'[u] = blocks[u]
          /\ blocks[u] \in Seq(Blocks)
          /\ StackOK(blocks[u], u, owner, phase)
      BY <2>2 DEF EntryInv, EntryTypes
    <3> QED BY <3>1, <1>9
  <2> QED BY <2>1, <2>2
<1> QED BY <1>6, <1>7, <1>8, <1>10 DEF EntryInv

(* A step is begun by a task that holds no grant of its own.               *)
LEMMA EntryBeginStep ==
  ASSUME EntryInv, NEW t \in Tasks, NEW r \in Runs, BeginStep(t, r)
  PROVE  EntryInv'
<1> DEFINE b == Block("step", r, active[t])
           d == <<r, t>>
<1>1. /\ blocks' = [blocks EXCEPT ![t] = <<b>> \o blocks[t]]
      /\ active' = [active EXCEPT ![t] = d]
      /\ UNCHANGED <<alive, entry, phase, owner, begun>>
  BY DEF BeginStep, Enter
<1>2. /\ b \in Blocks
      /\ b.kind = "step"
      /\ b.old \in Drivers
  BY DEF Block, Blocks, EntryInv, EntryTypes
<1>3. d \in Drivers
  BY DEF Drivers
<1>4. entry[t] \in Runs => owner[entry[t]] # t
  BY FreeHoldsNoGrant DEF BeginStep
<1>5. phase' \in [Runs -> Phases]
  BY <1>1 DEF EntryInv, EntryTypes
<1> HIDE DEF b, d
<1> QED BY <1>1, <1>2, <1>3, <1>4, <1>5, EntryPush

(* So is a close.                                                          *)
LEMMA EntryCloseBegin ==
  ASSUME EntryInv, NEW t \in Tasks, CloseBegin(t)
  PROVE  EntryInv'
<1> DEFINE r == Top(t).run
           b == Block("close", r, active[t])
           d == <<r, owner[r]>>
<1>1. /\ blocks[t] # <<>>
      /\ Top(t).kind = "iter"
      /\ phase[r] = "open"
      /\ phase' = [phase EXCEPT ![r] = "closing"]
      /\ blocks' = [blocks EXCEPT ![t] = <<b>> \o blocks[t]]
      /\ active' = [active EXCEPT ![t] = d]
      /\ UNCHANGED <<alive, entry, owner, begun>>
  BY DEF CloseBegin, IsIn, Enter
<1>2. Top(t) = blocks[t][1] /\ Top(t) \in Blocks
  BY <1>1, PopBlock DEF Top, EntryInv, EntryTypes
<1>3. r \in Runs
  BY <1>2 DEF Blocks
<1>4. /\ b \in Blocks
      /\ b.kind = "close"
      /\ b.old \in Drivers
      /\ b.run = r
  BY <1>3 DEF Block, Blocks, EntryInv, EntryTypes
<1>5. d \in Drivers
  BY <1>3 DEF Drivers, EntryInv, EntryTypes
<1>6. entry[t] \in Runs => owner[entry[t]] # t
  BY <1>1, FreeHoldsNoGrant DEF IsIn
<1>7. /\ blocks[t][1].kind = "iter"
      /\ blocks[t][1].run = b.run
  BY <1>1, <1>2, <1>4
<1> HIDE DEF b, d, r
<1>8. phase' \in [Runs -> Phases]
  BY <1>1 DEF EntryInv, EntryTypes, Phases, Sealed
<1>9. \A q \in Runs : /\ phase[q] # "none" <=> phase'[q] # "none"
                      /\ phase[q] = "granted" => phase'[q] = "granted"
  BY <1>1, <1>3 DEF EntryInv, EntryTypes
<1> QED BY <1>1, <1>4, <1>5, <1>6, <1>7, <1>8, <1>9, EntryPush

(* Ending a step gives no grant back.                                      *)
LEMMA EntryEndStep ==
  ASSUME EntryInv, NEW t \in Tasks, EndStep(t)
  PROVE  EntryInv'
<1> DEFINE s == Tail(blocks[t])
<1>1. /\ blocks[t] # <<>>
      /\ Top(t).kind = "step"
      /\ active' = [active EXCEPT ![t] = Top(t).old]
      /\ blocks' = [blocks EXCEPT ![t] = s]
      /\ UNCHANGED <<alive, entry, phase, owner, begun>>
  BY DEF EndStep, IsIn
<1>2. blocks[t] \in Seq(Blocks) /\ StackOK(blocks[t], t, owner, phase)
  BY DEF EntryInv, EntryTypes
<1>3. /\ Top(t) = blocks[t][1]
      /\ 1 \in 1..Len(blocks[t])
      /\ s \in Seq(Blocks)
      /\ StackOK(s, t, owner, phase)
  BY <1>1, <1>2, PopBlock, StackPop DEF Top
<1>4. Top(t).old \in Drivers
  BY <1>1, <1>2, <1>3 DEF StackOK, BlockOK
<1>5. entry[t] \in Runs => owner[entry[t]] # t
  BY <1>1, FreeHoldsNoGrant DEF IsIn
<1> HIDE DEF s
<1>6. EntryTypes'
  BY <1>1, <1>3, <1>4 DEF EntryInv, EntryTypes
<1>7. ASSUME NEW q \in Runs PROVE RunOK(q)'
  BY <1>1 DEF EntryInv, RunOK
<1>8. ASSUME NEW u \in Tasks
      PROVE  GrantOK(u)' /\ StackOK(blocks'[u], u, owner', phase')
  <2>1. CASE u = t
    <3>1. blocks'[t] = s
      BY <1>1 DEF EntryInv, EntryTypes
    <3> QED BY <2>1, <3>1, <1>1, <1>3, <1>5 DEF EntryInv, GrantOK
  <2>2. CASE u # t
    <3>1. blocks'[u] = blocks[u]
      BY <1>1, <2>2 DEF EntryInv, EntryTypes
    <3> QED BY <3>1, <1>1 DEF EntryInv, GrantOK
  <2> QED BY <2>1, <2>2
<1> QED BY <1>6, <1>7, <1>8 DEF EntryInv

(* Every step keeps the invariant.                                         *)
LEMMA EntryNext ==
  ASSUME EntryInv, SealedRunAssumption, [Next]_vars
  PROVE  EntryInv'
<1>1. CASE \E t, c \in Tasks : Spawn(t, c)
  BY <1>1, EntrySpawn
<1>2. CASE \E t \in Tasks, r \in Runs : EnterIter(t, r) \/ BeginStep(t, r)
  BY <1>2, EntryEnterIter, EntryBeginStep
<1>3. CASE \E t \in Tasks : BaseRun(t) \/ SetupFails(t) \/ EndStep(t)
                            \/ CloseBegin(t) \/ CloseEnd(t)
  BY <1>3, EntryBaseRun, EntrySetupFails, EntryEndStep, EntryCloseBegin,
     EntryCloseEnd
<1>4. ASSUME NEW t \in Tasks, Resolve(t) \/ GetToolset(t) \/ Pin(t)
      PROVE  EntryInv'
  <2>1. CASE Stage(t, "begun", "resolved")
    BY <2>1, EntryStage DEF Setup
  <2>2. CASE Stage(t, "resolved", "equipped")
    BY <2>2, EntryStage DEF Setup
  <2>3. CASE Stage(t, "equipped", "open")
    BY <2>3, EntryStage DEF Sealed
  <2> QED BY <1>4, <2>1, <2>2, <2>3 DEF Resolve, GetToolset, Pin
<1>5. CASE \E t \in Tasks, r \in Runs : StartNode(t, r) \/ Advance(t, r)
  BY <1>5, EntryFrame DEF StartNode, Advance, contexts
<1>6. CASE ChangeAgent \/ \E r \in Runs : ChangeRun(r) \/ ChangeNext(r)
  BY <1>6, EntryFrame DEF ChangeAgent, ChangeRun, ChangeNext, contexts
<1>7. CASE \E r \in Runs : \E m \in Managers[r] :
             NextManager(r, m) \/ AssignManager(r, m)
  BY <1>7, EntryFrame DEF NextManager, AssignManager, contexts
<1>8. CASE UNCHANGED vars
  BY <1>8, EntryFrame DEF vars, contexts
<1> QED
  BY <1>1, <1>2, <1>3, <1>4, <1>5, <1>6, <1>7, <1>8 DEF Next

(* OneRunPerEntry, however many tasks copy the grant, nest in it or call   *)
(* Agent.iter again.                                                       *)
THEOREM GrantBeginsOneRun ==
  Spec => []OneRunPerEntry
<1>1. EntryInv => OneRunPerEntry
  BY DEF EntryInv, RunOK, OneRunPerEntry
<1>2. EntryInv /\ [Next]_vars => EntryInv'
  BY EntryNext, SealedRunAssumption
<1>3. Init => EntryInv
  BY EntryInit, SealedRunAssumption
<1> QED BY <1>1, <1>2, <1>3, PTL DEF Spec

---------------------------------------------------------------------------
(* One line of managers. *)

ManagerTypes ==
  /\ manager \in [Runs -> AllManagers \cup {FirstManager, None}]
  /\ origin \in [AllManagers -> AllManagers \cup {FirstManager, None}]
  /\ line \in [Runs -> Seq(AllManagers \cup {FirstManager})]

\* the graph has the last manager of its line, and each of the others is the
\* origin of the one after it
LineOK(r) ==
  /\ line[r] = <<>> => manager[r] = None
  /\ line[r] # <<>> => /\ line[r][1] = FirstManager
                       /\ manager[r] = line[r][Len(line[r])]
  /\ \A i \in 2..Len(line[r]) :
       /\ line[r][i] \in Managers[r]
       /\ origin[line[r][i]] = line[r][i - 1]
       /\ origin[line[r][i]] # None
  /\ \A i, j \in 1..Len(line[r]) : line[r][i] = line[r][j] => i = j

LineInv == ManagerTypes /\ \A r \in Runs : LineOK(r)

(* No graph has a manager at the start.                                    *)
LEMMA LineInit == Init => LineInv
  BY EmptySeq DEF Init, LineInv, ManagerTypes, LineOK

(* Pinning a run starts its line.                                          *)
LEMMA LinePin ==
  ASSUME LineInv, NEW t \in Tasks, Pin(t)
  PROVE  LineInv'
<1> DEFINE q == Top(t).run
           M == AllManagers \cup {FirstManager}
<1>1. /\ manager' = [manager EXCEPT ![q] = FirstManager]
      /\ line' = [line EXCEPT ![q] = <<FirstManager>>]
      /\ origin' = origin
  BY DEF Pin, PinGraph
<1>2. <<FirstManager>> \in Seq(M) /\ Len(<<FirstManager>>) = 1
  OBVIOUS
<1>3. ManagerTypes'
  BY <1>1, <1>2 DEF LineInv, ManagerTypes
<1>4. ASSUME NEW r \in Runs PROVE LineOK(r)'
  <2>1. CASE r = q
    <3>1. line'[r] = <<FirstManager>> /\ manager'[r] = FirstManager
      BY <1>1, <2>1 DEF LineInv, ManagerTypes
    <3> QED BY <3>1, <1>2 DEF LineOK
  <2>2. CASE r # q
    <3>1. line'[r] = line[r] /\ manager'[r] = manager[r]
      BY <1>1, <2>2 DEF LineInv, ManagerTypes
    <3> QED BY <3>1, <1>1 DEF LineInv, LineOK
  <2> QED BY <2>1, <2>2
<1> QED BY <1>3, <1>4 DEF LineInv

(* A new manager is in no line yet: those in a line have an origin.        *)
LEMMA LineNextManager ==
  ASSUME LineInv, NEW q \in Runs, NEW m \in Managers[q], NextManager(q, m)
  PROVE  LineInv'
<1>1. PICK asked \in Managers[q] \cup {FirstManager} :
        origin' = [origin EXCEPT ![m] = asked]
  BY DEF NextManager, Register
<1>2. UNCHANGED <<manager, line>> /\ origin[m] = None
  BY DEF NextManager
<1>3. ManagerTypes'
  <2>1. asked \in AllManagers \cup {FirstManager}
    BY DEF AllManagers
  <2> QED BY <1>1, <1>2, <2>1 DEF LineInv, ManagerTypes
<1>4. ASSUME NEW r \in Runs PROVE LineOK(r)'
  <2>1. ASSUME NEW i \in 2..Len(line[r])
        PROVE  origin'[line[r][i]] = origin[line[r][i]]
    BY <1>1, <1>2 DEF LineInv, ManagerTypes, LineOK
  <2> QED BY <1>2, <2>1 DEF LineInv, LineOK
<1> QED BY <1>3, <1>4 DEF LineInv

(* The manager a graph takes was made from its last one, and so from none  *)
(* of those before, which are different.                                   *)
LEMMA LineAssignManager ==
  ASSUME LineInv, SealedRunAssumption,
         NEW q \in Runs, NEW m \in Managers[q], AssignManager(q, m)
  PROVE  LineInv'
<1> DEFINE M == AllManagers \cup {FirstManager}
           old == line[q]
           new == Append(old, m)
<1>1. /\ manager' = [manager EXCEPT ![q] = m]
      /\ line' = [line EXCEPT ![q] = new]
      /\ origin' = origin
      /\ origin[m] = manager[q]
  BY DEF AssignManager, Succeeds
<1>2. m # FirstManager /\ origin[m] # None
  BY DEF AssignManager, Succeeds, ManagerOf, SealedRunAssumption
<1>3. old \in Seq(M) /\ m \in M
  BY DEF LineInv, ManagerTypes, AllManagers
<1>4. /\ new \in Seq(M)
      /\ Len(new) = Len(old) + 1
      /\ \A i \in 1..Len(old) : new[i] = old[i]
      /\ new[Len(old) + 1] = m
  BY <1>3, AppendProperties
<1>5. Len(old) \in Nat \ {0} /\ old # <<>> /\ manager[q] = old[Len(old)]
  BY <1>1, <1>2, <1>3, EmptySeq DEF LineInv, LineOK
<1>6. /\ old[1] = FirstManager
      /\ \A i \in 2..Len(old) : /\ old[i] \in Managers[q]
                                /\ origin[old[i]] = old[i - 1]
                                /\ origin[old[i]] # None
      /\ \A i, j \in 1..Len(old) : old[i] = old[j] => i = j
  BY <1>5 DEF LineInv, LineOK
<1> HIDE DEF old, new
<1>7. ManagerTypes'
  BY <1>1, <1>3, <1>4 DEF LineInv, ManagerTypes
<1>8. ASSUME NEW r \in Runs PROVE LineOK(r)'
  <2>1. CASE r = q
    <3>1. line'[r] = new /\ manager'[r] = m
      BY <1>1, <2>1 DEF LineInv, ManagerTypes
    <3>2. new # <<>> /\ new[1] = FirstManager /\ m = new[Len(new)]
      BY <1>4, <1>5, <1>6
    <3>3. ASSUME NEW i \in 2..Len(new)
          PROVE  /\ new[i] \in Managers[q]
                 /\ origin[new[i]] = new[i - 1]
                 /\ origin[new[i]] # None
      <4>1. CASE i \in 2..Len(old)
        BY <4>1, <1>4, <1>5, <1>6
      <4>2. CASE i = Len(old) + 1
        <5>1. new[i] = m /\ new[i - 1] = old[Len(old)]
          BY <4>2, <1>4, <1>5
        <5>2. origin[m] = old[Len(old)]
          BY <1>1, <1>5
        <5> QED BY <5>1, <5>2, <1>2
      <4> QED BY <3>3, <4>1, <4>2, <1>4, <1>5
    <3>4. ASSUME NEW j \in 1..Len(old) PROVE old[j] # m
      <4>1. CASE j = 1
        BY <4>1, <1>2, <1>6
      <4>2. CASE j \in 2..Len(old)
        <5>1. origin[old[j]] = old[j - 1]
          BY <4>2, <1>6
        <5>2. j - 1 \in 1..Len(old) /\ Len(old) \in 1..Len(old)
          BY <4>2, <1>5
        <5>3. old[j - 1] # old[Len(old)]
          <6>1. old[j - 1] = old[Len(old)] => j - 1 = Len(old)
            BY <5>2, <1>6
          <6> QED BY <6>1, <4>2, <1>5
        <5>4. origin[m] = old[Len(old)]
          BY <1>1, <1>5
        <5> QED BY <5>1, <5>3, <5>4
      <4> QED BY <4>1, <4>2, <1>5
    <3>5. ASSUME NEW i \in 1..Len(new), NEW j \in 1..Len(new),
                 new[i] = new[j]
          PROVE  i = j
      <4>1. CASE i \in 1..Len(old) /\ j \in 1..Len(old)
        BY <4>1, <3>5, <1>4, <1>6
      <4>2. CASE i = Len(old) + 1 \/ j = Len(old) + 1
        BY <4>2, <3>4, <3>5, <1>4, <1>5
      <4> QED BY <4>1, <4>2, <1>4, <1>5
    <3> QED BY <2>1, <3>1, <3>2, <3>3, <3>5, <1>1 DEF LineOK
  <2>2. CASE r # q
    <3>1. line'[r] = line[r] /\ manager'[r] = manager[r]
      BY <1>1, <2>2 DEF LineInv, ManagerTypes
    <3> QED BY <3>1, <1>1 DEF LineInv, LineOK
  <2> QED BY <2>1, <2>2
<1> QED BY <1>7, <1>8 DEF LineInv

(* Nothing else touches managers.                                          *)
LEMMA LineNext ==
  ASSUME LineInv, SealedRunAssumption, [Next]_vars
  PROVE  LineInv'
<1>1. CASE UNCHANGED managers
  BY <1>1 DEF managers, LineInv, ManagerTypes, LineOK
<1>2. CASE \E t \in Tasks : Pin(t)
  BY <1>2, LinePin
<1>3. CASE \E r \in Runs : \E m \in Managers[r] :
             NextManager(r, m) \/ AssignManager(r, m)
  BY <1>3, LineNextManager, LineAssignManager
<1>4. CASE ChangeAgent
  BY <1>1, <1>4 DEF ChangeAgent
<1>5. CASE \E r \in Runs : ChangeRun(r) \/ ChangeNext(r)
  BY <1>1, <1>5 DEF ChangeRun, ChangeNext
<1>6. ASSUME NEW t \in Tasks,
             BaseRun(t) \/ Resolve(t) \/ GetToolset(t) \/ SetupFails(t)
               \/ EndStep(t) \/ CloseBegin(t) \/ CloseEnd(t)
      PROVE  LineInv'
  BY <1>1, <1>6 DEF BaseRun, Resolve, GetToolset, SetupFails, EndStep,
                    CloseBegin, CloseEnd
<1>7. CASE \E t \in Tasks, c \in Tasks : Spawn(t, c)
  BY <1>1, <1>7 DEF Spawn
<1>8. CASE \E t \in Tasks, r \in Runs :
             EnterIter(t, r) \/ BeginStep(t, r) \/ StartNode(t, r)
               \/ Advance(t, r)
  BY <1>1, <1>8 DEF EnterIter, BeginStep, StartNode, Advance
<1>9. CASE UNCHANGED vars
  BY <1>1, <1>9 DEF vars
<1> QED
  BY <1>2, <1>3, <1>4, <1>5, <1>6, <1>7, <1>8, <1>9 DEF Next

(* ManagersSucceed, for every run with any number of managers, whatever    *)
(* the order in which they are made, kept back and assigned.               *)
THEOREM ManagersFormOneLine ==
  Spec => []ManagersSucceed
<1>1. LineInv => ManagersSucceed
  <2>1. LineInv => \A r \in Runs : DOMAIN line[r] = 1..Len(line[r])
    BY LenProperties DEF LineInv, ManagerTypes
  <2> QED BY <2>1 DEF LineInv, LineOK, ManagersSucceed
<1>2. LineInv /\ [Next]_vars => LineInv'
  BY LineNext, SealedRunAssumption
<1> QED BY <1>1, <1>2, LineInit, PTL DEF Spec

---------------------------------------------------------------------------
(* What a task's context says follows from the blocks it is in, and nodes  *)
(* are started on the sealed path alone: for every number of tasks, runs   *)
(* and nodes, any nesting, and any changes by the application.             *)
(*                                                                         *)
(* A block puts back the value it found.  That is the value of the next    *)
(* block of its kind outwards, or what the task was created with, and it   *)
(* is so for every block at once.                                          *)

---------------------------------------------------------------------------
(* Reading a context from the blocks. *)

\* the first block of the kinds K from position i on
First(s, K, i, j) ==
  /\ j \in 1..Len(s)
  /\ i <= j
  /\ s[j].kind \in K
  /\ \A k \in 1..Len(s) : i <= k /\ s[k].kind \in K => j <= k

\* v is what that block sets, or what was inherited if there is none
Says(s, K, i, v, inh, val) ==
  \/ /\ \A j \in 1..Len(s) : i <= j => s[j].kind \notin K
     /\ v = inh
  \/ \E j \in 1..Len(s) : First(s, K, i, j) /\ v = val[s[j]]

\* so is the value now, and so is the one each block puts back
Linked(s, K, now, inh, val) ==
  /\ Says(s, K, 1, now, inh, val)
  /\ \A i \in 1..Len(s) :
       s[i].kind \in K => Says(s, K, i + 1, s[i].old, inh, val)

(* One block more shifts the positions.                                    *)
LEMMA SaysShift ==
  ASSUME NEW s, NEW s2, Len(s) \in Nat, Len(s2) = Len(s) + 1,
         \A j \in 1..Len(s) : s2[j + 1] = s[j],
         NEW K, NEW i \in Nat \ {0}, NEW v, NEW inh, NEW val
  PROVE  Says(s2, K, i + 1, v, inh, val) <=> Says(s, K, i, v, inh, val)
<1>1. ASSUME NEW j \in 1..Len(s)
      PROVE  j + 1 \in 1..Len(s2) /\ s2[j + 1] = s[j]
  OBVIOUS
<1>2. ASSUME NEW k \in 1..Len(s2), i + 1 <= k
      PROVE  k - 1 \in 1..Len(s) /\ s2[k] = s[k - 1]
  <2>1. k - 1 \in 1..Len(s) /\ (k - 1) + 1 = k
    BY <1>2
  <2> QED BY <1>1, <2>1
<1>3. ASSUME NEW j \in 1..Len(s)
      PROVE  First(s2, K, i + 1, j + 1) <=> First(s, K, i, j)
  <2>1. ASSUME First(s2, K, i + 1, j + 1) PROVE First(s, K, i, j)
    <3>1. i <= j /\ s[j].kind \in K
      BY <1>1, <2>1 DEF First
    <3>2. ASSUME NEW k \in 1..Len(s), i <= k, s[k].kind \in K PROVE j <= k
      <4>1. k + 1 \in 1..Len(s2) /\ s2[k + 1].kind \in K /\ i + 1 <= k + 1
        BY <1>1, <3>2
      <4>2. j + 1 <= k + 1
        BY <2>1, <4>1 DEF First
      <4> QED BY <4>2
    <3> QED BY <3>1, <3>2 DEF First
  <2>2. ASSUME First(s, K, i, j) PROVE First(s2, K, i + 1, j + 1)
    <3>1. /\ j + 1 \in 1..Len(s2)
          /\ i + 1 <= j + 1
          /\ s2[j + 1].kind \in K
      BY <1>1, <2>2 DEF First
    <3>2. ASSUME NEW k \in 1..Len(s2), i + 1 <= k, s2[k].kind \in K
          PROVE  j + 1 <= k
      <4>1. k - 1 \in 1..Len(s) /\ i <= k - 1 /\ s[k - 1].kind \in K
        BY <1>2, <3>2
      <4>2. j <= k - 1
        BY <2>2, <4>1 DEF First
      <4> QED BY <4>2
    <3> QED BY <3>1, <3>2 DEF First
  <2> QED BY <2>1, <2>2
<1>4. (\A j \in 1..Len(s2) : i + 1 <= j => s2[j].kind \notin K)
        <=> (\A j \in 1..Len(s) : i <= j => s[j].kind \notin K)
  <2>1. ASSUME \A j \in 1..Len(s2) : i + 1 <= j => s2[j].kind \notin K,
               NEW j \in 1..Len(s), i <= j
        PROVE  s[j].kind \notin K
    <3>1. j + 1 \in 1..Len(s2) /\ s2[j + 1] = s[j] /\ i + 1 <= j + 1
      BY <1>1, <2>1
    <3> QED BY <2>1, <3>1
  <2>2. ASSUME \A j \in 1..Len(s) : i <= j => s[j].kind \notin K,
               NEW j \in 1..Len(s2), i + 1 <= j
        PROVE  s2[j].kind \notin K
    <3>1. j - 1 \in 1..Len(s) /\ s2[j] = s[j - 1] /\ i <= j - 1
      BY <1>2, <2>2
    <3> QED BY <2>2, <3>1
  <2> QED BY <2>1, <2>2
<1>5. (\E j \in 1..Len(s2) : First(s2, K, i + 1, j) /\ v = val[s2[j]])
        <=> (\E j \in 1..Len(s) : First(s, K, i, j) /\ v = val[s[j]])
  <2>1. ASSUME NEW j \in 1..Len(s), First(s, K, i, j), v = val[s[j]]
        PROVE  \E k \in 1..Len(s2) : First(s2, K, i + 1, k) /\ v = val[s2[k]]
    BY <1>1, <1>3, <2>1
  <2>2. ASSUME NEW j \in 1..Len(s2), First(s2, K, i + 1, j), v = val[s2[j]]
        PROVE  \E k \in 1..Len(s) : First(s, K, i, k) /\ v = val[s[k]]
    <3>1. i + 1 <= j
      BY <2>2 DEF First
    <3>2. j - 1 \in 1..Len(s) /\ s2[j] = s[j - 1] /\ (j - 1) + 1 = j
      BY <1>2, <3>1
    <3>3. First(s, K, i, j - 1)
      BY <1>3, <2>2, <3>2
    <3> QED BY <2>2, <3>2, <3>3
  <2> QED BY <2>1, <2>2
<1> QED BY <1>4, <1>5 DEF Says

(* A block of these kinds at the top decides; another one is passed over.  *)
LEMMA SaysTop ==
  ASSUME NEW s, Len(s) \in Nat \ {0}, NEW K, NEW v, NEW inh, NEW val
  PROVE  /\ s[1].kind \in K => (Says(s, K, 1, v, inh, val) <=> v = val[s[1]])
         /\ s[1].kind \notin K =>
              (Says(s, K, 1, v, inh, val) <=> Says(s, K, 2, v, inh, val))
<1>1. ASSUME s[1].kind \in K
      PROVE  Says(s, K, 1, v, inh, val) <=> v = val[s[1]]
  <2>1. 1 \in 1..Len(s) /\ 1 <= 1
    OBVIOUS
  <2>2. First(s, K, 1, 1)
    BY <1>1, <2>1 DEF First
  <2>3. \A j \in 1..Len(s) : First(s, K, 1, j) => j = 1
    BY <1>1, <2>1 DEF First
  <2> QED BY <1>1, <2>1, <2>2, <2>3 DEF Says
<1>2. ASSUME s[1].kind \notin K
      PROVE  Says(s, K, 1, v, inh, val) <=> Says(s, K, 2, v, inh, val)
  <2>1. \A j \in 1..Len(s) : s[j].kind \in K => (1 <= j <=> 2 <= j)
    BY <1>2
  <2>2. \A j \in 1..Len(s) : First(s, K, 1, j) <=> First(s, K, 2, j)
    BY <2>1 DEF First
  <2> QED BY <2>1, <2>2 DEF Says
<1> QED BY <1>1, <1>2

(* Entering a block of these kinds, which puts back what it finds.         *)
LEMMA LinkedPush ==
  ASSUME NEW s \in Seq(Blocks), NEW b \in Blocks, NEW K, NEW now, NEW inh,
         NEW val, Linked(s, K, now, inh, val)
  PROVE  /\ b.kind \in K /\ b.old = now =>
              Linked(<<b>> \o s, K, val[b], inh, val)
         /\ b.kind \notin K => Linked(<<b>> \o s, K, now, inh, val)
<1> DEFINE new == <<b>> \o s
<1>1. /\ Len(s) \in Nat
      /\ Len(new) = Len(s) + 1
      /\ new[1] = b
      /\ \A i \in 2..Len(s) + 1 : new[i] = s[i - 1]
  BY PushBlock, LenProperties
<1> HIDE DEF new
<1>2. \A j \in 1..Len(s) : new[j + 1] = s[j]
  <2> SUFFICES ASSUME NEW j \in 1..Len(s) PROVE new[j + 1] = s[j]
    OBVIOUS
  <2>1. j + 1 \in 2..Len(s) + 1 /\ (j + 1) - 1 = j
    BY <1>1
  <2> QED BY <1>1, <2>1
<1>3. ASSUME NEW i \in Nat \ {0}, NEW v
      PROVE  Says(new, K, i + 1, v, inh, val) <=> Says(s, K, i, v, inh, val)
  BY <1>1, <1>2, SaysShift
<1>4. ASSUME NEW i \in 2..Len(new), new[i].kind \in K
      PROVE  Says(new, K, i + 1, new[i].old, inh, val)
  <2>1. i - 1 \in 1..Len(s) /\ new[i] = s[i - 1] /\ (i - 1) + 1 = i
    BY <1>1
  <2>2. Says(s, K, i, new[i].old, inh, val)
    BY <1>4, <2>1 DEF Linked
  <2> QED BY <1>3, <2>2
<1>5. Says(new, K, 2, now, inh, val)
  <2>1. Says(s, K, 1, now, inh, val)
    BY DEF Linked
  <2>2. Says(new, K, 1 + 1, now, inh, val)
    BY <1>3, <2>1
  <2> QED BY <2>2
<1>6. \A i \in 1..Len(new) : i = 1 \/ i \in 2..Len(new)
  BY <1>1
<1>7. Len(new) \in Nat \ {0}
  BY <1>1
<1>8. ASSUME b.kind \in K, b.old = now PROVE Linked(new, K, val[b], inh, val)
  <2>1. Says(new, K, 1, val[b], inh, val)
    BY <1>1, <1>7, <1>8, SaysTop
  <2>2. Says(new, K, 1 + 1, new[1].old, inh, val)
    BY <1>1, <1>5, <1>8
  <2> QED BY <1>4, <1>6, <2>1, <2>2 DEF Linked
<1>9. ASSUME b.kind \notin K PROVE Linked(new, K, now, inh, val)
  <2>1. Says(new, K, 1, now, inh, val)
    BY <1>1, <1>5, <1>7, <1>9, SaysTop
  <2> QED BY <1>1, <1>4, <1>6, <1>9, <2>1 DEF Linked
<1> QED BY <1>8, <1>9 DEF new

(* And leaving one.                                                        *)
LEMMA LinkedPop ==
  ASSUME NEW s \in Seq(Blocks), s # <<>>, NEW K, NEW now, NEW inh, NEW val,
         Linked(s, K, now, inh, val)
  PROVE  /\ s[1].kind \in K => Linked(Tail(s), K, s[1].old, inh, val)
         /\ s[1].kind \notin K => Linked(Tail(s), K, now, inh, val)
<1> DEFINE new == Tail(s)
<1>1. /\ Len(s) \in Nat \ {0}
      /\ Len(new) = Len(s) - 1
      /\ \A i \in 1..Len(new) : new[i] = s[i + 1]
  BY PopBlock
<1> HIDE DEF new
<1>2. Len(new) \in Nat /\ Len(s) = Len(new) + 1
  BY <1>1
<1>3. ASSUME NEW i \in Nat \ {0}, NEW v
      PROVE  Says(s, K, i + 1, v, inh, val) <=> Says(new, K, i, v, inh, val)
  BY <1>1, <1>2, SaysShift
<1>4. ASSUME NEW i \in 1..Len(new), new[i].kind \in K
      PROVE  Says(new, K, i + 1, new[i].old, inh, val)
  <2>1. i + 1 \in 1..Len(s) /\ i + 1 \in Nat \ {0} /\ s[i + 1] = new[i]
    BY <1>1, <1>2
  <2>2. Says(s, K, (i + 1) + 1, new[i].old, inh, val)
    BY <1>4, <2>1 DEF Linked
  <2> QED BY <1>3, <2>1, <2>2
<1>5. ASSUME s[1].kind \in K PROVE Says(new, K, 1, s[1].old, inh, val)
  <2>1. 1 \in 1..Len(s)
    BY <1>1
  <2>2. Says(s, K, 1 + 1, s[1].old, inh, val)
    BY <1>5, <2>1 DEF Linked
  <2> QED BY <1>3, <2>2
<1>6. ASSUME s[1].kind \notin K PROVE Says(new, K, 1, now, inh, val)
  <2>1. Says(s, K, 1, now, inh, val)
    BY DEF Linked
  <2>2. Says(s, K, 1 + 1, now, inh, val)
    BY <1>1, <1>6, <2>1, SaysTop
  <2> QED BY <1>3, <2>2
<1> QED BY <1>4, <1>5, <1>6 DEF Linked, new

(* What the blocks below the top set, other blocks' values do not change;  *)
(* the top one may set another value with it.                              *)
LEMMA LinkedValues ==
  ASSUME NEW s \in Seq(Blocks), NEW K, NEW now, NEW inh, NEW val, NEW val2,
         Linked(s, K, now, inh, val),
         \A i \in 2..Len(s) : s[i].kind \in K => val2[s[i]] = val[s[i]]
  PROVE  /\ s # <<>> /\ s[1].kind \in K => Linked(s, K, val2[s[1]], inh, val2)
         /\ (s # <<>> /\ s[1].kind \in K => val2[s[1]] = val[s[1]]) =>
              Linked(s, K, now, inh, val2)
<1>1. Len(s) \in Nat /\ (s # <<>> <=> Len(s) # 0)
  BY LenProperties, EmptySeq
<1>2. ASSUME NEW i \in 2..Len(s) + 1, NEW v, Says(s, K, i, v, inh, val)
      PROVE  Says(s, K, i, v, inh, val2)
  <2>1. ASSUME NEW j \in 1..Len(s), First(s, K, i, j)
        PROVE  val2[s[j]] = val[s[j]]
    <3>1. j \in 2..Len(s) /\ s[j].kind \in K
      BY <1>1, <2>1 DEF First
    <3> QED BY <3>1
  <2> QED BY <1>2, <2>1 DEF Says
<1>3. ASSUME NEW i \in 1..Len(s), s[i].kind \in K
      PROVE  Says(s, K, i + 1, s[i].old, inh, val2)
  <2>1. i + 1 \in 2..Len(s) + 1
    BY <1>1
  <2> QED BY <1>2, <1>3, <2>1 DEF Linked
<1>4. ASSUME s # <<>>, s[1].kind \in K PROVE Linked(s, K, val2[s[1]], inh, val2)
  <2>1. Says(s, K, 1, val2[s[1]], inh, val2)
    BY <1>1, <1>4, SaysTop
  <2> QED BY <1>3, <2>1 DEF Linked
<1>5. ASSUME s # <<>> /\ s[1].kind \in K => val2[s[1]] = val[s[1]]
      PROVE  Linked(s, K, now, inh, val2)
  <2>1. \A j \in 1..Len(s) : s[j].kind \in K => val2[s[j]] = val[s[j]]
    <3> SUFFICES ASSUME NEW j \in 1..Len(s), s[j].kind \in K
                 PROVE  val2[s[j]] = val[s[j]]
      OBVIOUS
    <3>1. j = 1 \/ j \in 2..Len(s)
      BY <1>1
    <3> QED BY <1>1, <1>5, <3>1
  <2>2. Says(s, K, 1, now, inh, val)
    BY DEF Linked
  <2>3. \A j \in 1..Len(s) : First(s, K, 1, j) => val2[s[j]] = val[s[j]]
    BY <2>1 DEF First
  <2>4. Says(s, K, 1, now, inh, val2)
    BY <2>2, <2>3 DEF Says
  <2> QED BY <1>3, <2>4 DEF Linked
<1> QED BY <1>4, <1>5

---------------------------------------------------------------------------
(* What a context says. *)

Moves == {"step", "close"}
Over == {"closing", "closed"}

\* what the blocks of t set the context variables to
Drives(t) == [b \in Blocks |-> <<b.run, t>>]
Waits(ph) == [b \in Blocks |-> IF ph[b.run] = "granted" THEN b.run ELSE None]

\* Only the innermost block can be an iter that waits for its base run, and
\* a close is of a run that is not driven any more.
ContextOK(s, t, a, e, inh, ph) ==
  /\ Linked(s, Moves, a, inh.active, Drives(t))
  /\ Linked(s, {"iter"}, e, inh.entry, Waits(ph))
  /\ \A i \in 2..Len(s) : s[i].kind = "iter" => ph[s[i].run] # "granted"
  /\ \A i \in 1..Len(s) : s[i].kind = "close" => ph[s[i].run] \in Over

Follows(t) ==
  ContextOK(blocks[t], t, active[t], entry[t], inherited[t], phase)

ContextInv ==
  /\ inherited \in [Tasks -> [entry : Grants, active : Drivers]]
  /\ \A t \in Tasks : t \notin alive => blocks[t] = <<>>
  /\ \A t \in Tasks : Follows(t)

(* A block is entered from one that is not an iter waiting for its run.    *)
LEMMA ContextPush ==
  ASSUME NEW s \in Seq(Blocks), NEW b \in Blocks, NEW t, NEW a, NEW e,
         NEW inh, NEW ph, ContextOK(s, t, a, e, inh, ph),
         s # <<>> /\ s[1].kind = "iter" => ph[s[1].run] # "granted",
         b.kind = "close" => ph[b.run] \in Over
  PROVE  /\ b.kind \in Moves /\ b.old = a =>
              ContextOK(<<b>> \o s, t, <<b.run, t>>, e, inh, ph)
         /\ b.kind = "iter" /\ b.old = e =>
              ContextOK(<<b>> \o s, t, a, Waits(ph)[b], inh, ph)
<1> DEFINE new == <<b>> \o s
<1>1. /\ Len(s) \in Nat
      /\ s # <<>> <=> Len(s) # 0
      /\ Len(new) = Len(s) + 1
      /\ new[1] = b
      /\ \A i \in 2..Len(s) + 1 : new[i] = s[i - 1]
  BY PushBlock, LenProperties, EmptySeq
<1>2. /\ b.kind \in Moves /\ b.old = a =>
           Linked(new, Moves, <<b.run, t>>, inh.active, Drives(t))
      /\ b.kind \notin Moves => Linked(new, Moves, a, inh.active, Drives(t))
  <2>1. Linked(s, Moves, a, inh.active, Drives(t)) /\ Drives(t)[b] = <<b.run, t>>
    BY DEF ContextOK, Drives
  <2> HIDE DEF new
  <2> QED BY <2>1, LinkedPush DEF new
<1>3. /\ b.kind = "iter" /\ b.old = e =>
           Linked(new, {"iter"}, Waits(ph)[b], inh.entry, Waits(ph))
      /\ b.kind # "iter" => Linked(new, {"iter"}, e, inh.entry, Waits(ph))
  <2>1. Linked(s, {"iter"}, e, inh.entry, Waits(ph))
    BY DEF ContextOK
  <2>2. /\ b.kind \in {"iter"} /\ b.old = e =>
             Linked(new, {"iter"}, Waits(ph)[b], inh.entry, Waits(ph))
        /\ b.kind \notin {"iter"} =>
             Linked(new, {"iter"}, e, inh.entry, Waits(ph))
    BY <2>1, LinkedPush
  <2> QED BY <2>2
<1> HIDE DEF new
<1>4. ASSUME NEW i \in 2..Len(new), new[i].kind = "iter"
      PROVE  ph[new[i].run] # "granted"
  <2>1. i - 1 \in 1..Len(s) /\ new[i] = s[i - 1]
    BY <1>1
  <2>2. CASE i - 1 = 1
    BY <1>1, <1>4, <2>1, <2>2
  <2>3. CASE i - 1 # 1
    <3>1. i - 1 \in 2..Len(s)
      BY <2>1, <2>3, <1>1
    <3> QED BY <1>4, <2>1, <3>1 DEF ContextOK
  <2> QED BY <2>2, <2>3
<1>5. ASSUME NEW i \in 1..Len(new), new[i].kind = "close"
      PROVE  ph[new[i].run] \in Over
  <2>1. CASE i = 1
    BY <1>1, <1>5, <2>1
  <2>2. CASE i # 1
    <3>1. i - 1 \in 1..Len(s) /\ new[i] = s[i - 1]
      BY <1>1, <2>2
    <3> QED BY <1>5, <3>1 DEF ContextOK
  <2> QED BY <2>1, <2>2
<1>6. "iter" \notin Moves
  BY DEF Moves
<1>7. b.kind \in Moves => b.kind # "iter"
  BY <1>6
<1>8. b.kind = "iter" => b.kind \notin Moves
  BY <1>6
<1> HIDE DEF Moves
<1>9. b.kind \in Moves /\ b.old = a => ContextOK(new, t, <<b.run, t>>, e, inh, ph)
  BY <1>2, <1>3, <1>4, <1>5, <1>7 DEF ContextOK
<1>10. b.kind = "iter" /\ b.old = e => ContextOK(new, t, a, Waits(ph)[b], inh, ph)
  BY <1>2, <1>3, <1>4, <1>5, <1>8 DEF ContextOK
<1> QED BY <1>9, <1>10 DEF new

(* A block that is left puts its variable back, and the other one stays.   *)
LEMMA ContextPop ==
  ASSUME NEW s \in Seq(Blocks), s # <<>>, NEW t, NEW a, NEW e, NEW inh,
         NEW ph, ContextOK(s, t, a, e, inh, ph)
  PROVE  /\ s[1].kind \in Moves => ContextOK(Tail(s), t, s[1].old, e, inh, ph)
         /\ s[1].kind = "iter" => ContextOK(Tail(s), t, a, s[1].old, inh, ph)
<1> DEFINE new == Tail(s)
<1>1. /\ Len(s) \in Nat \ {0}
      /\ Len(new) = Len(s) - 1
      /\ \A i \in 1..Len(new) : new[i] = s[i + 1]
  BY PopBlock
<1>2. /\ s[1].kind \in Moves => Linked(new, Moves, s[1].old, inh.active, Drives(t))
      /\ s[1].kind \notin Moves => Linked(new, Moves, a, inh.active, Drives(t))
  <2>1. Linked(s, Moves, a, inh.active, Drives(t))
    BY DEF ContextOK
  <2> QED BY <2>1, LinkedPop
<1>3. /\ s[1].kind \in {"iter"} =>
           Linked(new, {"iter"}, s[1].old, inh.entry, Waits(ph))
      /\ s[1].kind \notin {"iter"} =>
           Linked(new, {"iter"}, e, inh.entry, Waits(ph))
  <2>1. Linked(s, {"iter"}, e, inh.entry, Waits(ph))
    BY DEF ContextOK
  <2> QED BY <2>1, LinkedPop
<1> HIDE DEF new
<1>4. ASSUME NEW i \in 2..Len(new), new[i].kind = "iter"
      PROVE  ph[new[i].run] # "granted"
  <2>1. i + 1 \in 2..Len(s) /\ new[i] = s[i + 1]
    BY <1>1
  <2> QED BY <1>4, <2>1 DEF ContextOK
<1>5. ASSUME NEW i \in 1..Len(new), new[i].kind = "close"
      PROVE  ph[new[i].run] \in Over
  <2>1. i + 1 \in 1..Len(s) /\ new[i] = s[i + 1]
    BY <1>1
  <2> QED BY <1>5, <2>1 DEF ContextOK
<1>6. s[1].kind \in Moves => s[1].kind \notin {"iter"}
  BY DEF Moves
<1>7. s[1].kind = "iter" => s[1].kind \in {"iter"} /\ s[1].kind \notin Moves
  BY DEF Moves
<1>8. s[1].kind \in Moves => ContextOK(new, t, s[1].old, e, inh, ph)
  BY <1>2, <1>3, <1>4, <1>5, <1>6 DEF ContextOK
<1>9. s[1].kind = "iter" => ContextOK(new, t, a, s[1].old, inh, ph)
  BY <1>2, <1>3, <1>4, <1>5, <1>7 DEF ContextOK
<1> QED BY <1>8, <1>9 DEF new

(* Runs go on.  A task sees it in its context if its own grant is used up. *)
LEMMA ContextPhase ==
  ASSUME NEW s \in Seq(Blocks), NEW t, NEW a, NEW e, NEW inh, NEW ph, NEW ph2,
         ContextOK(s, t, a, e, inh, ph),
         \A i \in 1..Len(s) :
           /\ s[i].kind = "iter" /\ ph[s[i].run] # "granted" =>
                ph2[s[i].run] # "granted"
           /\ s[i].kind = "close" => ph2[s[i].run] \in Over
  PROVE  /\ (s # <<>> /\ s[1].kind = "iter" =>
               (ph2[s[1].run] = "granted" <=> ph[s[1].run] = "granted"))
              => ContextOK(s, t, a, e, inh, ph2)
         /\ s # <<>> /\ s[1].kind = "iter" /\ ph2[s[1].run] # "granted"
              => ContextOK(s, t, a, None, inh, ph2)
<1>1. Len(s) \in Nat /\ (s # <<>> <=> Len(s) # 0)
  BY LenProperties, EmptySeq
<1>2. ASSUME NEW i \in 1..Len(s) PROVE s[i] \in Blocks
  BY ElementOfSeq
<1>3. \A i \in 2..Len(s) :
        s[i].kind = "iter" =>
          ph[s[i].run] # "granted" /\ ph2[s[i].run] # "granted"
  <2> SUFFICES ASSUME NEW i \in 2..Len(s), s[i].kind = "iter"
               PROVE  ph[s[i].run] # "granted" /\ ph2[s[i].run] # "granted"
    OBVIOUS
  <2>1. i \in 1..Len(s) /\ ph[s[i].run] # "granted"
    BY <1>1 DEF ContextOK
  <2> QED BY <2>1
<1>4. \A i \in 2..Len(s) :
        s[i].kind \in {"iter"} => Waits(ph2)[s[i]] = Waits(ph)[s[i]]
  <2> SUFFICES ASSUME NEW i \in 2..Len(s), s[i].kind = "iter"
               PROVE  Waits(ph2)[s[i]] = Waits(ph)[s[i]]
    OBVIOUS
  <2>1. i \in 1..Len(s)
    BY <1>1
  <2>2. s[i] \in Blocks
    BY <1>2, <2>1
  <2> QED BY <1>3, <2>2 DEF Waits
<1>5. Linked(s, {"iter"}, e, inh.entry, Waits(ph))
  BY DEF ContextOK
<1>6. /\ s # <<>> /\ s[1].kind \in {"iter"} =>
           Linked(s, {"iter"}, Waits(ph2)[s[1]], inh.entry, Waits(ph2))
      /\ (s # <<>> /\ s[1].kind \in {"iter"} =>
            Waits(ph2)[s[1]] = Waits(ph)[s[1]])
           => Linked(s, {"iter"}, e, inh.entry, Waits(ph2))
  BY <1>4, <1>5, LinkedValues
<1>7. s # <<>> => s[1] \in Blocks
  BY <1>1, <1>2
<1>8. ASSUME NEW v, Linked(s, {"iter"}, v, inh.entry, Waits(ph2))
      PROVE  ContextOK(s, t, a, v, inh, ph2)
  <2>1. Linked(s, Moves, a, inh.active, Drives(t))
    BY DEF ContextOK
  <2>2. \A i \in 1..Len(s) : s[i].kind = "close" => ph2[s[i].run] \in Over
    OBVIOUS
  <2> QED BY <1>3, <1>8, <2>1, <2>2 DEF ContextOK
<1>9. ASSUME s # <<>> /\ s[1].kind = "iter" =>
               (ph2[s[1].run] = "granted" <=> ph[s[1].run] = "granted")
      PROVE  ContextOK(s, t, a, e, inh, ph2)
  <2>1. s # <<>> /\ s[1].kind \in {"iter"} =>
          Waits(ph2)[s[1]] = Waits(ph)[s[1]]
    BY <1>7, <1>9 DEF Waits
  <2> QED BY <1>6, <1>8, <2>1
<1>10. ASSUME s # <<>>, s[1].kind = "iter", ph2[s[1].run] # "granted"
       PROVE  ContextOK(s, t, a, None, inh, ph2)
  <2>1. Waits(ph2)[s[1]] = None
    BY <1>7, <1>10 DEF Waits
  <2>2. Linked(s, {"iter"}, None, inh.entry, Waits(ph2))
    BY <1>6, <1>10, <2>1
  <2> QED BY <1>8, <2>2
<1> QED BY <1>9, <1>10

(* The innermost block of a task, if it is in one.                         *)
LEMMA Innermost ==
  ASSUME EntryInv, ContextInv, NEW t \in Tasks
  PROVE  /\ blocks[t] \in Seq(Blocks)
         /\ StackOK(blocks[t], t, owner, phase)
         /\ Follows(t)
         /\ blocks[t] # <<>> =>
              /\ t \in alive
              /\ Top(t) = blocks[t][1]
              /\ Top(t) \in Blocks
              /\ Top(t).run \in Runs
              /\ 1 \in 1..Len(blocks[t])
              /\ Top(t).kind = "iter" => owner[Top(t).run] = t
<1>1. /\ blocks[t] \in Seq(Blocks)
      /\ StackOK(blocks[t], t, owner, phase)
      /\ Follows(t)
      /\ blocks[t] # <<>> => t \in alive
  BY DEF EntryInv, EntryTypes, ContextInv
<1>2. ASSUME blocks[t] # <<>>
      PROVE  /\ Top(t) = blocks[t][1]
             /\ Top(t) \in Blocks
             /\ 1 \in 1..Len(blocks[t])
  BY <1>1, <1>2, PopBlock DEF Top
<1>3. ASSUME blocks[t] # <<>>
      PROVE  /\ Top(t).run \in Runs
             /\ Top(t).kind = "iter" => owner[Top(t).run] = t
  BY <1>1, <1>2, <1>3 DEF Blocks, StackOK, BlockOK
<1> QED BY <1>1, <1>2, <1>3

(* Runs go on, and nothing else changes.                                   *)
LEMMA StackPhase ==
  ASSUME EntryInv, ContextInv, NEW t \in Tasks, NEW ph2,
         \A i \in 1..Len(blocks[t]) :
           /\ blocks[t][i].kind = "iter"
                /\ phase[blocks[t][i].run] # "granted" =>
                  ph2[blocks[t][i].run] # "granted"
           /\ blocks[t][i].kind = "close" => ph2[blocks[t][i].run] \in Over
  PROVE  /\ (blocks[t] # <<>> /\ blocks[t][1].kind = "iter" =>
               (ph2[blocks[t][1].run] = "granted"
                  <=> phase[blocks[t][1].run] = "granted"))
              => ContextOK(blocks[t], t, active[t], entry[t], inherited[t], ph2)
         /\ blocks[t] # <<>> /\ blocks[t][1].kind = "iter"
              /\ ph2[blocks[t][1].run] # "granted"
              => ContextOK(blocks[t], t, active[t], None, inherited[t], ph2)
<1>1. /\ blocks[t] \in Seq(Blocks)
      /\ ContextOK(blocks[t], t, active[t], entry[t], inherited[t], phase)
  BY Innermost DEF Follows
<1> QED BY <1>1, ContextPhase

(* The other tasks' contexts go on saying the same while one task changes  *)
(* how far a run is that it entered itself.                                *)
LEMMA OthersFollow ==
  ASSUME EntryInv, ContextInv, NEW t \in Tasks, NEW u \in Tasks \ {t},
         NEW r \in Runs, phase[r] = "none" \/ owner[r] = t, NEW to,
         phase' = [phase EXCEPT ![r] = to], phase[r] \in Over => to \in Over,
         blocks'[u] = blocks[u], active'[u] = active[u],
         entry'[u] = entry[u], inherited' = inherited
  PROVE  Follows(u)'
<1>1. /\ blocks[u] \in Seq(Blocks)
      /\ StackOK(blocks[u], u, owner, phase)
      /\ Follows(u)
  BY DEF EntryInv, EntryTypes, ContextInv
<1>2. ASSUME NEW q \in Runs
      PROVE  phase'[q] = IF q = r THEN to ELSE phase[q]
  BY DEF EntryInv, EntryTypes
<1>3. ASSUME NEW i \in 1..Len(blocks[u])
      PROVE  /\ blocks[u][i].kind = "iter" =>
                  phase'[blocks[u][i].run] = phase[blocks[u][i].run]
             /\ blocks[u][i].kind = "close" => phase'[blocks[u][i].run] \in Over
  <2>0. blocks[u][i] \in Blocks
    BY <1>1, ElementOfSeq
  <2>1. blocks[u][i].run \in Runs
    BY <2>0 DEF Blocks
  <2>2. BlockOK(blocks[u][i], u, owner, phase)
    BY <1>1 DEF StackOK
  <2>3. blocks[u][i].kind = "iter" => blocks[u][i].run # r
    BY <2>2 DEF BlockOK
  <2>4. blocks[u][i].kind = "close" => phase[blocks[u][i].run] \in Over
    BY <1>1 DEF Follows, ContextOK
  <2> QED BY <1>2, <2>1, <2>3, <2>4
<1>4. blocks[u] # <<>> => 1 \in 1..Len(blocks[u])
  BY <1>1, PopBlock
<1>5. blocks[u] # <<>> /\ blocks[u][1].kind = "iter" =>
        (phase'[blocks[u][1].run] = "granted"
           <=> phase[blocks[u][1].run] = "granted")
  BY <1>3, <1>4
<1>6. ContextOK(blocks[u], u, active[u], entry[u], inherited[u], phase')
  <2>1. \A i \in 1..Len(blocks[u]) :
          /\ blocks[u][i].kind = "iter"
               /\ phase[blocks[u][i].run] # "granted" =>
                 phase'[blocks[u][i].run] # "granted"
          /\ blocks[u][i].kind = "close" => phase'[blocks[u][i].run] \in Over
    BY <1>3
  <2> QED BY <1>5, <2>1, StackPhase, Zenon
<1> QED BY <1>6 DEF Follows

(* One task changes its blocks, its context and perhaps a run it entered.  *)
LEMMA ContextStep ==
  ASSUME EntryInv, ContextInv, NEW t \in Tasks, t \in alive,
         Follows(t)',
         \A u \in Tasks \ {t} :
           /\ blocks'[u] = blocks[u]
           /\ active'[u] = active[u]
           /\ entry'[u] = entry[u],
         UNCHANGED <<alive, inherited>>,
         \/ phase' = phase
         \/ \E r \in Runs, to \in Phases :
              /\ phase[r] = "none" \/ owner[r] = t
              /\ phase' = [phase EXCEPT ![r] = to]
              /\ phase[r] \in Over => to \in Over
  PROVE  ContextInv'
<1>1. ASSUME NEW u \in Tasks \ {t} PROVE Follows(u)'
  <2>1. CASE phase' = phase
    BY <2>1 DEF ContextInv, Follows
  <2>2. CASE \E r \in Runs, to \in Phases :
               /\ phase[r] = "none" \/ owner[r] = t
               /\ phase' = [phase EXCEPT ![r] = to]
               /\ phase[r] \in Over => to \in Over
    BY <2>2, OthersFollow
  <2> QED BY <2>1, <2>2
<1> QED BY <1>1 DEF ContextInv

LEMMA ContextInit ==
  ASSUME Init, SealedRunAssumption
  PROVE  ContextInv
<1>1. inherited \in [Tasks -> [entry : Grants, active : Drivers]]
  BY DEF Init, Grants, Drivers
<1>2. ASSUME NEW t \in Tasks
      PROVE  /\ blocks[t] = <<>>
             /\ active[t] = inherited[t].active
             /\ entry[t] = inherited[t].entry
             /\ Len(blocks[t]) = 0
  BY EmptySeq DEF Init
<1>3. ASSUME NEW t \in Tasks PROVE Follows(t)
  <2>1. Linked(blocks[t], Moves, active[t], inherited[t].active, Drives(t))
    BY <1>2 DEF Linked, Says, First
  <2>2. Linked(blocks[t], {"iter"}, entry[t], inherited[t].entry, Waits(phase))
    BY <1>2 DEF Linked, Says, First
  <2> QED BY <1>2, <2>1, <2>2 DEF Follows, ContextOK
<1> QED BY <1>1, <1>2, <1>3 DEF ContextInv

LEMMA ContextFrame ==
  ASSUME ContextInv,
         UNCHANGED <<alive, entry, active, blocks, phase, inherited>>
  PROVE  ContextInv'
  BY DEF ContextInv, Follows

(* A new task is in no block, and its context is what it inherits.         *)
LEMMA ContextSpawn ==
  ASSUME EntryInv, ContextInv, NEW t \in Tasks, NEW c \in Tasks, Spawn(t, c)
  PROVE  ContextInv'
<1>1. /\ alive' = alive \cup {c}
      /\ c \notin alive
      /\ entry' = [entry EXCEPT ![c] = entry[t]]
      /\ active' = [active EXCEPT ![c] = active[t]]
      /\ inherited' =
           [inherited EXCEPT ![c] = [entry |-> entry[t], active |-> active[t]]]
      /\ UNCHANGED <<blocks, phase>>
  BY DEF Spawn
<1>2. entry[t] \in Grants /\ active[t] \in Drivers
  BY DEF EntryInv, EntryTypes
<1>3. inherited' \in [Tasks -> [entry : Grants, active : Drivers]]
  BY <1>1, <1>2 DEF ContextInv
<1>4. ASSUME NEW u \in Tasks PROVE Follows(u)'
  <2>1. CASE u = c
    <3>1. /\ blocks'[c] = <<>>
          /\ Len(<<>>) = 0
          /\ entry'[c] = entry[t] /\ inherited'[c].entry = entry[t]
          /\ active'[c] = active[t] /\ inherited'[c].active = active[t]
      BY <1>1, EmptySeq DEF ContextInv, EntryInv, EntryTypes
    <3>2. ASSUME NEW K, NEW v, NEW val PROVE Linked(<<>>, K, v, v, val)
      BY <3>1 DEF Linked, Says, First
    <3>3. ContextOK(<<>>, c, active[t], entry[t], inherited'[c], phase')
      BY <3>1, <3>2 DEF ContextOK
    <3> QED BY <2>1, <3>1, <3>3 DEF Follows
  <2>2. CASE u # c
    <3>1. /\ entry'[u] = entry[u]
          /\ active'[u] = active[u]
          /\ inherited'[u] = inherited[u]
      BY <1>1, <2>2 DEF ContextInv, EntryInv, EntryTypes
    <3> QED BY <1>1, <3>1 DEF ContextInv, Follows
  <2> QED BY <2>1, <2>2
<1>5. \A u \in Tasks : u \notin alive' => blocks'[u] = <<>>
  BY <1>1 DEF ContextInv
<1> QED BY <1>3, <1>4, <1>5 DEF ContextInv

LEMMA ContextEnterIter ==
  ASSUME EntryInv, ContextInv, NEW t \in Tasks, NEW r \in Runs,
         EnterIter(t, r)
  PROVE  ContextInv'
<1> DEFINE b == Block("iter", r, entry[t])
           new == <<b>> \o blocks[t]
<1>1. /\ t \in alive
      /\ phase[r] = "none"
      /\ phase' = [phase EXCEPT ![r] = "granted"]
      /\ blocks' = [blocks EXCEPT ![t] = new]
      /\ entry' = [entry EXCEPT ![t] = r]
      /\ UNCHANGED <<alive, active, inherited>>
  BY DEF EnterIter, Enter, Free
<1>2. /\ b.kind = "iter" /\ b.run = r /\ b.old = entry[t]
      /\ b \in Blocks
  BY DEF Block, Blocks, EntryInv, EntryTypes
<1> HIDE DEF b, new
<1>3. ASSUME NEW q \in Runs
      PROVE  phase'[q] = IF q = r THEN "granted" ELSE phase[q]
  BY <1>1 DEF EntryInv, EntryTypes
<1>4. ASSUME NEW i \in 1..Len(blocks[t])
      PROVE  /\ blocks[t][i].kind = "iter" =>
                  phase'[blocks[t][i].run] = phase[blocks[t][i].run]
             /\ blocks[t][i].kind = "close" => phase'[blocks[t][i].run] \in Over
  <2>0. blocks[t][i] \in Blocks
    BY Innermost, ElementOfSeq
  <2>1. blocks[t][i].run \in Runs
    BY <2>0 DEF Blocks
  <2>2. blocks[t][i].kind = "iter" => blocks[t][i].run # r
    BY <1>1, Innermost DEF StackOK, BlockOK
  <2>3. blocks[t][i].kind = "close" => phase[blocks[t][i].run] \in Over
    BY Innermost DEF Follows, ContextOK
  <2>4. blocks[t][i].kind = "close" => blocks[t][i].run # r
    BY <1>1, <2>3 DEF Over
  <2> QED BY <1>3, <2>1, <2>2, <2>3, <2>4
<1>5. ContextOK(blocks[t], t, active[t], entry[t], inherited[t], phase')
  <2>1. blocks[t] # <<>> /\ blocks[t][1].kind = "iter" =>
          (phase'[blocks[t][1].run] = "granted"
             <=> phase[blocks[t][1].run] = "granted")
    BY <1>4, Innermost
  <2> QED BY <1>4, <2>1, Innermost, ContextPhase DEF Follows
<1>6. blocks[t] # <<>> /\ blocks[t][1].kind = "iter" =>
        phase'[blocks[t][1].run] # "granted"
  <2>1. blocks[t] # <<>> /\ blocks[t][1].kind = "iter" =>
          phase[blocks[t][1].run] = "open"
    BY Innermost DEF EnterIter, Free, IsIn
  <2> QED BY <1>4, <2>1, Innermost
<1>7. Waits(phase')[b] = r
  BY <1>2, <1>3 DEF Waits
<1>8. ContextOK(new, t, active[t], r, inherited[t], phase')
  BY <1>2, <1>5, <1>6, <1>7, Innermost, ContextPush DEF new
<1>9. Follows(t)'
  <2>1. blocks'[t] = new /\ entry'[t] = r
    BY <1>1 DEF EntryInv, EntryTypes
  <2> QED BY <1>1, <1>8, <2>1 DEF Follows
<1>10. \A u \in Tasks \ {t} : /\ blocks'[u] = blocks[u]
                              /\ active'[u] = active[u]
                              /\ entry'[u] = entry[u]
  BY <1>1 DEF EntryInv, EntryTypes
<1>11. /\ "granted" \in Phases
       /\ phase[r] \in Over => "granted" \in Over
  BY <1>1 DEF Phases, Setup, Over
<1> QED BY <1>1, <1>9, <1>10, <1>11, ContextStep

(* What a task's own context says once one of its runs is further on.      *)
LEMMA OwnPhase ==
  ASSUME EntryInv, ContextInv, NEW t \in Tasks, NEW r \in Runs, NEW to,
         to # "granted", phase[r] \in Over => to \in Over,
         NEW ph2, ph2 = [phase EXCEPT ![r] = to]
  PROVE  /\ phase[r] # "granted" =>
              ContextOK(blocks[t], t, active[t], entry[t], inherited[t], ph2)
         /\ blocks[t] # <<>> /\ Top(t).kind = "iter" /\ Top(t).run = r =>
              ContextOK(blocks[t], t, active[t], None, inherited[t], ph2)
<1>1. ASSUME NEW q \in Runs PROVE ph2[q] = IF q = r THEN to ELSE phase[q]
  BY DEF EntryInv, EntryTypes
<1>2. ASSUME NEW i \in 1..Len(blocks[t])
      PROVE  /\ blocks[t][i].run \in Runs
             /\ blocks[t][i].kind = "iter"
                  /\ phase[blocks[t][i].run] # "granted" =>
                    ph2[blocks[t][i].run] # "granted"
             /\ blocks[t][i].kind = "close" => ph2[blocks[t][i].run] \in Over
  <2>1. blocks[t][i] \in Blocks
    BY Innermost, ElementOfSeq
  <2>2. blocks[t][i].run \in Runs
    BY <2>1 DEF Blocks
  <2>3. blocks[t][i].kind = "close" => phase[blocks[t][i].run] \in Over
    BY Innermost DEF Follows, ContextOK
  <2> QED BY <1>1, <2>2, <2>3
<1>3. /\ blocks[t] \in Seq(Blocks)
      /\ ContextOK(blocks[t], t, active[t], entry[t], inherited[t], phase)
  BY Innermost DEF Follows
<1>4. \A i \in 1..Len(blocks[t]) :
        /\ blocks[t][i].kind = "iter"
             /\ phase[blocks[t][i].run] # "granted" =>
               ph2[blocks[t][i].run] # "granted"
        /\ blocks[t][i].kind = "close" => ph2[blocks[t][i].run] \in Over
  BY <1>2
<1>5. /\ (blocks[t] # <<>> /\ blocks[t][1].kind = "iter" =>
            (ph2[blocks[t][1].run] = "granted"
               <=> phase[blocks[t][1].run] = "granted"))
           => ContextOK(blocks[t], t, active[t], entry[t], inherited[t], ph2)
      /\ blocks[t] # <<>> /\ blocks[t][1].kind = "iter"
           /\ ph2[blocks[t][1].run] # "granted"
           => ContextOK(blocks[t], t, active[t], None, inherited[t], ph2)
  BY <1>4, StackPhase, Zenon
<1>6. blocks[t] # <<>> => blocks[t][1].run \in Runs /\ Top(t) = blocks[t][1]
  BY Innermost
<1>7. ASSUME phase[r] # "granted"
      PROVE  ContextOK(blocks[t], t, active[t], entry[t], inherited[t], ph2)
  <2>1. blocks[t] # <<>> =>
          (ph2[blocks[t][1].run] = "granted"
             <=> phase[blocks[t][1].run] = "granted")
    BY <1>1, <1>6, <1>7
  <2> QED BY <1>5, <2>1
<1>8. ASSUME blocks[t] # <<>>, Top(t).kind = "iter", Top(t).run = r
      PROVE  ContextOK(blocks[t], t, active[t], None, inherited[t], ph2)
  BY <1>1, <1>5, <1>6, <1>8
<1> QED BY <1>7, <1>8

LEMMA ContextBaseRun ==
  ASSUME EntryInv, ContextInv, NEW t \in Tasks, BaseRun(t)
  PROVE  ContextInv'
<1>1. PICK r \in Runs :
        /\ entry[t] = r
        /\ owner[r] = t
        /\ entry' = [entry EXCEPT ![t] = None]
        /\ Continues(t, r)
        /\ UNCHANGED <<alive, active, blocks, inherited>>
  BY DEF BaseRun
<1>2. /\ blocks[t] # <<>>
      /\ blocks[t][1].kind = "iter"
      /\ blocks[t][1].run = r
      /\ phase[r] = "granted"
  BY <1>1 DEF EntryInv, GrantOK
<1>3. t \in alive /\ Top(t) = blocks[t][1]
  BY <1>2, Innermost
<1>4. phase' = [phase EXCEPT ![r] = "begun"]
  BY <1>1, <1>2, <1>3 DEF Continues, IsIn
<1>5. /\ "begun" # "granted"
      /\ "begun" \in Phases
      /\ phase[r] \notin Over
  BY <1>2 DEF Phases, Setup, Over
<1>6. ContextOK(blocks[t], t, active[t], None, inherited[t], phase')
  BY <1>2, <1>3, <1>4, <1>5, OwnPhase
<1>7. Follows(t)'
  <2>1. entry'[t] = None
    BY <1>1 DEF EntryInv, EntryTypes
  <2> QED BY <1>1, <1>6, <2>1 DEF Follows
<1>8. \A u \in Tasks \ {t} : entry'[u] = entry[u]
  BY <1>1 DEF EntryInv, EntryTypes
<1> QED BY <1>1, <1>3, <1>4, <1>5, <1>7, <1>8, ContextStep

LEMMA ContextStage ==
  ASSUME EntryInv, ContextInv, NEW t \in Tasks,
         NEW to \in {"resolved", "equipped", "open"},
         NEW from \in {"begun", "resolved", "equipped"}, Stage(t, from, to)
  PROVE  ContextInv'
<1> DEFINE r == Top(t).run
<1>1. /\ blocks[t] # <<>>
      /\ Top(t).kind = "iter"
      /\ phase[r] = from
      /\ phase' = [phase EXCEPT ![r] = to]
      /\ UNCHANGED <<alive, entry, active, blocks, inherited>>
  BY DEF Stage, contexts, IsIn
<1>2. t \in alive /\ r \in Runs /\ owner[r] = t
  BY <1>1, Innermost
<1> HIDE DEF r
<1>3. /\ to # "granted"
      /\ to \in Phases
      /\ phase[r] \notin Over
      /\ phase[r] # "granted"
  BY <1>1 DEF Phases, Setup, Sealed, Over
<1>4. ContextOK(blocks[t], t, active[t], entry[t], inherited[t], phase')
  BY <1>1, <1>2, <1>3, OwnPhase
<1>5. Follows(t)'
  BY <1>1, <1>4 DEF Follows
<1> QED BY <1>1, <1>2, <1>3, <1>5, ContextStep

LEMMA ContextSetupFails ==
  ASSUME EntryInv, ContextInv, NEW t \in Tasks, SetupFails(t)
  PROVE  ContextInv'
<1> DEFINE r == Top(t).run
<1>1. /\ blocks[t] # <<>>
      /\ Top(t).kind = "iter"
      /\ phase[r] \in Setup
      /\ phase' = [phase EXCEPT ![r] = "failed"]
      /\ entry' = [entry EXCEPT ![t] = Top(t).old]
      /\ blocks' = [blocks EXCEPT ![t] = Tail(blocks[t])]
      /\ UNCHANGED <<alive, active, inherited>>
  BY DEF SetupFails, IsIn
<1>2. t \in alive /\ r \in Runs /\ owner[r] = t /\ Top(t) = blocks[t][1]
  BY <1>1, Innermost
<1>3. /\ "failed" # "granted"
      /\ "failed" \in Phases
      /\ phase[r] \notin Over
  BY <1>1 DEF Phases, Setup, Over
<1>4. ContextOK(blocks[t], t, active[t], None, inherited[t], phase')
  BY <1>1, <1>2, <1>3, OwnPhase
<1>5. ContextOK(Tail(blocks[t]), t, active[t], Top(t).old, inherited[t], phase')
  BY <1>1, <1>2, <1>4, Innermost, ContextPop
<1>6. Follows(t)'
  <2>1. entry'[t] = Top(t).old /\ blocks'[t] = Tail(blocks[t])
    BY <1>1 DEF EntryInv, EntryTypes
  <2> QED BY <1>1, <1>5, <2>1 DEF Follows
<1>7. \A u \in Tasks \ {t} : entry'[u] = entry[u] /\ blocks'[u] = blocks[u]
  BY <1>1 DEF EntryInv, EntryTypes
<1> HIDE DEF r
<1> QED BY <1>1, <1>2, <1>3, <1>6, <1>7, ContextStep

LEMMA ContextBeginStep ==
  ASSUME EntryInv, ContextInv, NEW t \in Tasks, NEW r \in Runs,
         BeginStep(t, r)
  PROVE  ContextInv'
<1> DEFINE b == Block("step", r, active[t])
           new == <<b>> \o blocks[t]
<1>1. /\ t \in alive
      /\ blocks' = [blocks EXCEPT ![t] = new]
      /\ active' = [active EXCEPT ![t] = <<r, t>>]
      /\ UNCHANGED <<alive, entry, phase, inherited>>
  BY DEF BeginStep, Enter, Free
<1>2. /\ b.kind = "step" /\ b.run = r /\ b.old = active[t]
      /\ b \in Blocks
      /\ b.kind \in Moves
  BY DEF Block, Blocks, EntryInv, EntryTypes, Moves
<1> HIDE DEF b, new
<1>3. blocks[t] # <<>> /\ blocks[t][1].kind = "iter" =>
        phase[blocks[t][1].run] # "granted"
  BY Innermost DEF BeginStep, Free, IsIn
<1>4. ContextOK(blocks[t], t, active[t], entry[t], inherited[t], phase)
  BY Innermost DEF Follows
<1>5. ContextOK(new, t, <<r, t>>, entry[t], inherited[t], phase)
  BY <1>2, <1>3, <1>4, Innermost, ContextPush DEF new
<1>6. Follows(t)'
  <2>1. blocks'[t] = new /\ active'[t] = <<r, t>>
    BY <1>1 DEF EntryInv, EntryTypes
  <2> QED BY <1>1, <1>5, <2>1 DEF Follows
<1>7. \A u \in Tasks \ {t} : active'[u] = active[u] /\ blocks'[u] = blocks[u]
  BY <1>1 DEF EntryInv, EntryTypes
<1> QED BY <1>1, <1>6, <1>7, ContextStep

LEMMA ContextEndStep ==
  ASSUME EntryInv, ContextInv, NEW t \in Tasks, EndStep(t)
  PROVE  ContextInv'
<1>1. /\ blocks[t] # <<>>
      /\ Top(t).kind = "step"
      /\ active' = [active EXCEPT ![t] = Top(t).old]
      /\ blocks' = [blocks EXCEPT ![t] = Tail(blocks[t])]
      /\ UNCHANGED <<alive, entry, phase, inherited>>
  BY DEF EndStep, IsIn
<1>2. t \in alive /\ Top(t) = blocks[t][1]
  BY <1>1, Innermost
<1>3. ContextOK(blocks[t], t, active[t], entry[t], inherited[t], phase)
  BY Innermost DEF Follows
<1>4. ContextOK(Tail(blocks[t]), t, Top(t).old, entry[t], inherited[t], phase)
  <2>1. blocks[t][1].kind \in Moves
    BY <1>1, <1>2 DEF Moves
  <2> QED BY <1>1, <1>2, <1>3, <2>1, Innermost, ContextPop
<1>5. Follows(t)'
  <2>1. active'[t] = Top(t).old /\ blocks'[t] = Tail(blocks[t])
    BY <1>1 DEF EntryInv, EntryTypes
  <2> QED BY <1>1, <1>4, <2>1 DEF Follows
<1>6. \A u \in Tasks \ {t} : active'[u] = active[u] /\ blocks'[u] = blocks[u]
  BY <1>1 DEF EntryInv, EntryTypes
<1> QED BY <1>1, <1>2, <1>5, <1>6, ContextStep

LEMMA ContextCloseBegin ==
  ASSUME EntryInv, ContextInv, NEW t \in Tasks, CloseBegin(t)
  PROVE  ContextInv'
<1> DEFINE r == Top(t).run
           b == Block("close", r, active[t])
           new == <<b>> \o blocks[t]
<1>1. /\ blocks[t] # <<>>
      /\ Top(t).kind = "iter"
      /\ phase[r] = "open"
      /\ phase' = [phase EXCEPT ![r] = "closing"]
      /\ blocks' = [blocks EXCEPT ![t] = new]
      /\ active' = [active EXCEPT ![t] = <<r, owner[r]>>]
      /\ UNCHANGED <<alive, entry, inherited>>
  BY DEF CloseBegin, IsIn, Enter
<1>2. t \in alive /\ r \in Runs /\ owner[r] = t /\ Top(t) = blocks[t][1]
  BY <1>1, Innermost
<1>3. /\ b.kind = "close" /\ b.run = r /\ b.old = active[t]
      /\ b \in Blocks
      /\ b.kind \in Moves
  BY <1>2 DEF Block, Blocks, EntryInv, EntryTypes, Moves
<1>4. /\ "closing" # "granted"
      /\ "closing" \in Phases
      /\ "closing" \in Over
      /\ phase[r] # "granted"
  BY <1>1 DEF Phases, Sealed, Over
<1>5. blocks[t][1].run = r
  BY <1>2
<1> HIDE DEF b, new, r
<1>6. phase'[r] = "closing"
  BY <1>1, <1>2 DEF EntryInv, EntryTypes
<1>7. ContextOK(blocks[t], t, active[t], entry[t], inherited[t], phase')
  BY <1>1, <1>2, <1>4, OwnPhase
<1>8. ContextOK(new, t, <<r, t>>, entry[t], inherited[t], phase')
  BY <1>3, <1>4, <1>5, <1>6, <1>7, Innermost, ContextPush DEF new
<1>9. Follows(t)'
  <2>1. blocks'[t] = new /\ active'[t] = <<r, t>>
    BY <1>1, <1>2 DEF EntryInv, EntryTypes
  <2> QED BY <1>1, <1>8, <2>1 DEF Follows
<1>10. \A u \in Tasks \ {t} : active'[u] = active[u] /\ blocks'[u] = blocks[u]
  BY <1>1 DEF EntryInv, EntryTypes
<1> QED BY <1>1, <1>2, <1>4, <1>9, <1>10, ContextStep

LEMMA ContextCloseEnd ==
  ASSUME EntryInv, ContextInv, NEW t \in Tasks, CloseEnd(t)
  PROVE  ContextInv'
<1> DEFINE r == Top(t).run
           rest == Tail(blocks[t])
           b == blocks[t][2]
<1>1. /\ blocks[t] # <<>>
      /\ Top(t).kind = "close"
      /\ phase' = [phase EXCEPT ![r] = "closed"]
      /\ active' = [active EXCEPT ![t] = Top(t).old]
      /\ entry' = [entry EXCEPT ![t] = b.old]
      /\ blocks' = [blocks EXCEPT ![t] = Tail(rest)]
      /\ UNCHANGED <<alive, inherited>>
  BY DEF CloseEnd, IsIn
<1>2. /\ t \in alive /\ r \in Runs /\ Top(t) = blocks[t][1]
      /\ 1 \in 1..Len(blocks[t])
      /\ blocks[t][1].kind = "close"
      /\ blocks[t][1].run = r
  BY <1>1, Innermost
<1>3. /\ 1 + 1 \in 1..Len(blocks[t])
      /\ blocks[t][1 + 1].kind = "iter"
      /\ blocks[t][1 + 1].run = r
      /\ BlockOK(blocks[t][1 + 1], t, owner, phase)
  BY <1>2, Innermost DEF StackOK
<1>4. /\ 2 \in 1..Len(blocks[t])
      /\ b.kind = "iter"
      /\ owner[r] = t
  BY <1>3 DEF BlockOK
<1>5. /\ Len(blocks[t]) \in Nat
      /\ Len(rest) = Len(blocks[t]) - 1
      /\ rest \in Seq(Blocks)
      /\ \A i \in 1..Len(rest) : rest[i] = blocks[t][i + 1]
  BY <1>1, Innermost, PopBlock
<1>6. rest # <<>> /\ rest[1] = b
  <2>1. 1 \in 1..Len(rest) /\ Len(rest) # 0
    BY <1>4, <1>5
  <2>2. rest # <<>>
    <3> HIDE DEF rest
    <3> QED BY <1>5, <2>1, EmptySeq
  <2>3. rest[1] = blocks[t][1 + 1]
    BY <1>5, <2>1
  <2> QED BY <2>2, <2>3
<1>7. phase[r] \in Over
  BY <1>2, Innermost DEF Follows, ContextOK
<1>8. /\ "closed" # "granted"
      /\ "closed" \in Phases
      /\ "closed" \in Over
      /\ phase[r] # "granted"
      /\ blocks[t][1].kind \in Moves
  BY <1>2, <1>7 DEF Phases, Sealed, Over, Moves
<1>9. ContextOK(blocks[t], t, active[t], entry[t], inherited[t], phase')
  BY <1>1, <1>2, <1>8, OwnPhase
<1>10. ContextOK(rest, t, Top(t).old, entry[t], inherited[t], phase')
  BY <1>1, <1>2, <1>8, <1>9, Innermost, ContextPop
<1> HIDE DEF b, rest, r
<1>11. ContextOK(Tail(rest), t, Top(t).old, b.old, inherited[t], phase')
  <2>1. rest[1].kind = "iter" /\ rest[1].old = b.old
    BY <1>4, <1>6
  <2> QED BY <1>5, <1>6, <1>10, <2>1, ContextPop
<1>12. Follows(t)'
  <2>1. /\ active'[t] = Top(t).old
        /\ entry'[t] = b.old
        /\ blocks'[t] = Tail(rest)
    BY <1>1 DEF EntryInv, EntryTypes
  <2> QED BY <1>1, <1>11, <2>1 DEF Follows
<1>13. \A u \in Tasks \ {t} : /\ active'[u] = active[u]
                              /\ entry'[u] = entry[u]
                              /\ blocks'[u] = blocks[u]
  BY <1>1 DEF EntryInv, EntryTypes
<1> QED BY <1>1, <1>2, <1>4, <1>8, <1>12, <1>13, ContextStep

(* Every step keeps the invariant.                                         *)
LEMMA ContextNext ==
  ASSUME EntryInv, ContextInv, [Next]_vars
  PROVE  ContextInv'
<1>1. CASE \E t, c \in Tasks : Spawn(t, c)
  BY <1>1, ContextSpawn
<1>2. CASE \E t \in Tasks, r \in Runs : EnterIter(t, r) \/ BeginStep(t, r)
  BY <1>2, ContextEnterIter, ContextBeginStep
<1>3. CASE \E t \in Tasks : BaseRun(t) \/ SetupFails(t) \/ EndStep(t)
                            \/ CloseBegin(t) \/ CloseEnd(t)
  BY <1>3, ContextBaseRun, ContextSetupFails, ContextEndStep,
     ContextCloseBegin, ContextCloseEnd
<1>4. ASSUME NEW t \in Tasks, Resolve(t) \/ GetToolset(t) \/ Pin(t)
      PROVE  ContextInv'
  BY <1>4, ContextStage DEF Resolve, GetToolset, Pin
<1>5. CASE \E t \in Tasks, r \in Runs : StartNode(t, r) \/ Advance(t, r)
  BY <1>5, ContextFrame DEF StartNode, Advance, contexts
<1>6. CASE ChangeAgent \/ \E r \in Runs : ChangeRun(r) \/ ChangeNext(r)
  BY <1>6, ContextFrame DEF ChangeAgent, ChangeRun, ChangeNext, contexts
<1>7. CASE \E r \in Runs : \E m \in Managers[r] :
             NextManager(r, m) \/ AssignManager(r, m)
  BY <1>7, ContextFrame DEF NextManager, AssignManager, contexts
<1>8. CASE UNCHANGED vars
  BY <1>8, ContextFrame DEF vars, contexts
<1> QED
  BY <1>1, <1>2, <1>3, <1>4, <1>5, <1>6, <1>7, <1>8 DEF Next

(* The invariant says it of each variable by itself.                       *)
LEMMA ContextFollows ==
  ASSUME EntryInv, ContextInv, NEW t \in Tasks
  PROVE  FollowsBlocks(t)
<1>1. /\ blocks[t] \in Seq(Blocks)
      /\ Linked(blocks[t], Moves, active[t], inherited[t].active, Drives(t))
      /\ Linked(blocks[t], {"iter"}, entry[t], inherited[t].entry, Waits(phase))
  BY DEF ContextInv, EntryInv, EntryTypes, Follows, ContextOK
<1>2. DOMAIN blocks[t] = 1..Len(blocks[t]) /\ Len(blocks[t]) \in Nat
  BY <1>1, LenProperties
<1>3. ASSUME NEW i \in 1..Len(blocks[t])
      PROVE  /\ blocks[t][i] \in Blocks
             /\ blocks[t][i].kind # "iter" <=> blocks[t][i].kind \in Moves
             /\ 1 <= i
  <2>1. blocks[t][i] \in Blocks
    BY <1>1, ElementOfSeq
  <2> QED BY <2>1 DEF Blocks, Moves
<1>4. ASSUME NEW K, NEW v, NEW inh, NEW val, Says(blocks[t], K, 1, v, inh, val)
      PROVE  /\ (\A i \in 1..Len(blocks[t]) : blocks[t][i].kind \notin K) =>
                  v = inh
             /\ \A i \in 1..Len(blocks[t]) :
                  First(blocks[t], K, 1, i) => v = val[blocks[t][i]]
  <2>1. CASE v = inh /\ \A j \in 1..Len(blocks[t]) :
                           1 <= j => blocks[t][j].kind \notin K
    BY <2>1 DEF First
  <2>2. ASSUME NEW j \in 1..Len(blocks[t]), First(blocks[t], K, 1, j),
               v = val[blocks[t][j]]
        PROVE  /\ blocks[t][j].kind \in K
               /\ \A i \in 1..Len(blocks[t]) :
                    First(blocks[t], K, 1, i) => v = val[blocks[t][i]]
    <3>1. blocks[t][j].kind \in K
      BY <2>2 DEF First
    <3>2. ASSUME NEW i \in 1..Len(blocks[t]), First(blocks[t], K, 1, i)
          PROVE  i = j
      <4>1. i <= j /\ j <= i
        BY <2>2, <3>2 DEF First
      <4> QED BY <1>2, <4>1
    <3> QED BY <2>2, <3>1, <3>2
  <2> QED BY <1>4, <2>1, <2>2 DEF Says
<1>5. /\ Says(blocks[t], Moves, 1, active[t], inherited[t].active, Drives(t))
      /\ Says(blocks[t], {"iter"}, 1, entry[t], inherited[t].entry, Waits(phase))
  BY <1>1 DEF Linked
<1>6. /\ (\A i \in 1..Len(blocks[t]) : blocks[t][i].kind \notin Moves) =>
           active[t] = inherited[t].active
      /\ \A i \in 1..Len(blocks[t]) :
           First(blocks[t], Moves, 1, i) => active[t] = <<blocks[t][i].run, t>>
  BY <1>3, <1>4, <1>5 DEF Drives
<1>7. /\ (\A i \in 1..Len(blocks[t]) : blocks[t][i].kind # "iter") =>
           entry[t] = inherited[t].entry
      /\ \A i \in 1..Len(blocks[t]) :
           First(blocks[t], {"iter"}, 1, i) =>
             entry[t] = IF phase[blocks[t][i].run] = "granted"
                        THEN blocks[t][i].run ELSE None
  BY <1>3, <1>4, <1>5 DEF Waits
<1>8. ASSUME NEW K, NEW i \in 1..Len(blocks[t]), blocks[t][i].kind \in K,
             \A j \in 1..Len(blocks[t]) : blocks[t][j].kind \in K => i <= j
      PROVE  First(blocks[t], K, 1, i)
  BY <1>3, <1>8 DEF First
<1> DEFINE runs == {i \in DOMAIN blocks[t] : blocks[t][i].kind # "iter"}
           iters == {i \in DOMAIN blocks[t] : blocks[t][i].kind = "iter"}
<1>9. runs = {} => active[t] = inherited[t].active
  BY <1>2, <1>3, <1>6
<1>10. ASSUME NEW i \in runs, \A j \in runs : i <= j
       PROVE  active[t] = <<blocks[t][i].run, t>>
  <2>1. First(blocks[t], Moves, 1, i)
    BY <1>2, <1>3, <1>8, <1>10
  <2> QED BY <1>2, <1>6, <2>1
<1>11. iters = {} => entry[t] = inherited[t].entry
  BY <1>2, <1>7
<1>12. ASSUME NEW i \in iters, \A j \in iters : i <= j
       PROVE  entry[t] = IF phase[blocks[t][i].run] = "granted"
                         THEN blocks[t][i].run ELSE None
  <2>1. First(blocks[t], {"iter"}, 1, i)
    BY <1>2, <1>8, <1>12
  <2> QED BY <1>2, <1>7, <2>1
<1> QED BY <1>9, <1>10, <1>11, <1>12 DEF FollowsBlocks

(* The two invariants hold together.                                       *)
LEMMA ContextsHold ==
  Spec => [](EntryInv /\ ContextInv)
<1>1. Init => EntryInv /\ ContextInv
  BY EntryInit, ContextInit, SealedRunAssumption
<1>2. EntryInv /\ ContextInv /\ [Next]_vars => (EntryInv /\ ContextInv)'
  BY EntryNext, ContextNext, SealedRunAssumption
<1> QED BY <1>1, <1>2, PTL DEF Spec

(* ContextsFollowTheStack, however deep the blocks of a task are nested    *)
(* and whatever fails on the way out of them.                              *)
THEOREM ContextsAreRestored ==
  Spec => []ContextsFollowTheStack
<1>1. EntryInv /\ ContextInv => ContextsFollowTheStack
  BY ContextFollows DEF ContextsFollowTheStack, EntryInv, EntryTypes
<1> QED BY <1>1, ContextsHold, PTL

---------------------------------------------------------------------------
(* Where nodes are started, and which. *)

AllNodes == {None} \cup UNION {Nodes[r] : r \in Runs}

NodeTypes ==
  /\ next \in [Runs -> AllNodes]
  /\ stamp \in [Runs -> AllNodes]
  /\ started \in [Runs -> AllNodes]
  /\ starter \in [Runs -> Tasks \cup {None}]
  /\ placed \in [Runs -> SUBSET AllNodes]

\* no task inherits a transition that it drives itself
InheritedOK(t) ==
  inherited[t].active # None =>
    inherited[t].active[2] \in alive /\ inherited[t].active[2] # t

\* the stamp of an open run is of a node that was put there, and so is the
\* next node as long as a transition lasts
PlacedOK(r) ==
  phase[r] = "open" =>
    /\ stamp[r] \in placed[r]
    /\ InTransition(r) => next[r] \in placed[r]

NodeInv ==
  /\ NodeTypes
  /\ \A t \in Tasks : InheritedOK(t)
  /\ \A r \in Runs : PlacedOK(r)

(* A task that has a transition in its context, and is in none, has one    *)
(* that another task drives.                                               *)
LEMMA WhoDrives ==
  ASSUME EntryInv, ContextInv, NodeInv, NEW t \in Tasks, active[t] # None
  PROVE  \/ /\ active[t] = inherited[t].active
            /\ active[t][2] \in alive
            /\ active[t][2] # t
         \/ \E i \in 1..Len(blocks[t]) :
              /\ blocks[t][i].kind \in Moves
              /\ active[t] = <<blocks[t][i].run, t>>
              /\ t \in alive
<1>2. /\ blocks[t] \in Seq(Blocks)
      /\ Says(blocks[t], Moves, 1, active[t], inherited[t].active, Drives(t))
  BY DEF ContextInv, EntryInv, EntryTypes, Follows, ContextOK, Linked
<1>3. Len(blocks[t]) \in Nat
  BY <1>2, LenProperties
<1>4. CASE active[t] = inherited[t].active
  BY <1>4 DEF NodeInv, InheritedOK
<1>5. \/ active[t] = inherited[t].active
      \/ \E i \in 1..Len(blocks[t]) :
           /\ First(blocks[t], Moves, 1, i)
           /\ active[t] = Drives(t)[blocks[t][i]]
  BY <1>2 DEF Says
<1>6. ASSUME NEW i \in 1..Len(blocks[t]), First(blocks[t], Moves, 1, i),
             active[t] = Drives(t)[blocks[t][i]]
      PROVE  /\ blocks[t][i].kind \in Moves
             /\ active[t] = <<blocks[t][i].run, t>>
             /\ t \in alive
  <2>1. blocks[t][i] \in Blocks
    BY <1>2, ElementOfSeq
  <2>2. blocks[t] # <<>>
    BY <1>3, <1>6, EmptySeq
  <2> QED BY <2>1, <2>2, <1>6, Innermost DEF First, Drives
<1> QED BY <1>4, <1>5, <1>6

LEMMA NodeInit ==
  ASSUME Init
  PROVE  NodeInv
<1>1. NodeTypes
  <2>1. None \in AllNodes
    BY DEF AllNodes
  <2> QED BY <2>1 DEF Init, NodeTypes
<1>2. \A t \in Tasks : InheritedOK(t)
  BY DEF Init, InheritedOK
<1>3. \A r \in Runs : PlacedOK(r)
  BY DEF Init, PlacedOK
<1> QED BY <1>1, <1>2, <1>3 DEF NodeInv

(* A transition is somewhere if a task is in a block of it.                *)
LEMMA BlocksMove ==
  ASSUME EntryInv, ContextInv, NEW r \in Runs
  PROVE  InTransition(r) <=>
           \E t \in Tasks : \E i \in 1..Len(blocks[t]) :
             blocks[t][i].kind \in Moves /\ blocks[t][i].run = r
<1>1. ASSUME NEW t \in Tasks
      PROVE  /\ DOMAIN blocks[t] = 1..Len(blocks[t])
             /\ \A i \in 1..Len(blocks[t]) : t \in alive
  <2>1. blocks[t] \in Seq(Blocks) /\ Len(blocks[t]) \in Nat
    BY LenProperties DEF EntryInv, EntryTypes
  <2>2. t \notin alive => Len(blocks[t]) = 0
    BY EmptySeq DEF ContextInv
  <2> QED BY <2>1, <2>2
<1>2. alive \subseteq Tasks
  BY DEF EntryInv, EntryTypes
<1> QED BY <1>1, <1>2 DEF InTransition, Moves

(* What no step but those of the graph touches.                            *)
LEMMA NodeFrame ==
  ASSUME EntryInv, ContextInv, EntryInv', ContextInv', NodeInv,
         UNCHANGED <<graph, inherited, alive>>,
         \A r \in Runs : phase'[r] = "open" => phase[r] = "open",
         \A r \in Runs :
           phase[r] = "open" /\ InTransition(r)' => InTransition(r)
  PROVE  NodeInv'
<1>1. UNCHANGED <<next, stamp, started, starter, placed>>
  BY DEF graph
<1> QED BY <1>1 DEF NodeInv, NodeTypes, InheritedOK, PlacedOK

(* A task that enters or leaves blocks is in no transition it was not in,  *)
(* but the one it begins.                                                  *)
LEMMA StillMoves ==
  ASSUME EntryInv, ContextInv, EntryInv', ContextInv', NEW t \in Tasks,
         NEW r \in Runs, \A u \in Tasks \ {t} : blocks'[u] = blocks[u],
         \A i \in 1..Len(blocks'[t]) :
           blocks'[t][i].kind \in Moves /\ blocks'[t][i].run = r =>
             \E j \in 1..Len(blocks[t]) : blocks'[t][i] = blocks[t][j],
         InTransition(r)'
  PROVE  InTransition(r)
<1>1. \E u \in Tasks : \E i \in 1..Len(blocks'[u]) :
        blocks'[u][i].kind \in Moves /\ blocks'[u][i].run = r
  <2>1. \A u \in Tasks : DOMAIN blocks'[u] = 1..Len(blocks'[u])
    <3> SUFFICES ASSUME NEW u \in Tasks
                 PROVE  DOMAIN blocks'[u] = 1..Len(blocks'[u])
      OBVIOUS
    <3>1. blocks'[u] \in Seq(Blocks)
      BY DEF EntryInv, EntryTypes
    <3> QED BY <3>1, LenProperties
  <2>2. alive' \subseteq Tasks
    BY DEF EntryInv, EntryTypes
  <2> QED BY <2>1, <2>2 DEF InTransition, Moves
<1>2. PICK u \in Tasks :
        \E i \in 1..Len(blocks'[u]) :
          blocks'[u][i].kind \in Moves /\ blocks'[u][i].run = r
  BY <1>1
<1>3. PICK i \in 1..Len(blocks'[u]) :
        blocks'[u][i].kind \in Moves /\ blocks'[u][i].run = r
  BY <1>2
<1>4. PICK j \in 1..Len(blocks[u]) : blocks'[u][i] = blocks[u][j]
  BY <1>3
<1> QED BY <1>3, <1>4, BlocksMove

(* The blocks that are left when some are.                                 *)
LEMMA TailBlocks ==
  ASSUME NEW s \in Seq(Blocks), s # <<>>
  PROVE  /\ \A i \in 1..Len(Tail(s)) : \E j \in 1..Len(s) : Tail(s)[i] = s[j]
         /\ Tail(s) # <<>> =>
              \A i \in 1..Len(Tail(Tail(s))) :
                \E j \in 1..Len(s) : Tail(Tail(s))[i] = s[j]
<1>1. /\ Tail(s) \in Seq(Blocks)
      /\ \A i \in 1..Len(Tail(s)) : i + 1 \in 1..Len(s) /\ Tail(s)[i] = s[i + 1]
  <2>1. /\ Len(s) \in Nat \ {0}
        /\ Tail(s) \in Seq(Blocks)
        /\ Len(Tail(s)) = Len(s) - 1
        /\ \A i \in 1..Len(Tail(s)) : Tail(s)[i] = s[i + 1]
    BY PopBlock
  <2> QED BY <2>1
<1>2. ASSUME NEW i \in 1..Len(Tail(s))
      PROVE  \E j \in 1..Len(s) : Tail(s)[i] = s[j]
  BY <1>1
<1>3. ASSUME Tail(s) # <<>>, NEW i \in 1..Len(Tail(Tail(s)))
      PROVE  \E j \in 1..Len(s) : Tail(Tail(s))[i] = s[j]
  <2> DEFINE u == Tail(s)
  <2>1. u \in Seq(Blocks) /\ u # <<>>
    BY <1>1, <1>3
  <2>2. i + 1 \in 1..Len(u) /\ Tail(u)[i] = u[i + 1]
    <3>1. i \in 1..Len(Tail(u))
      OBVIOUS
    <3> HIDE DEF u
    <3>2. /\ Len(u) \in Nat \ {0}
          /\ Len(Tail(u)) = Len(u) - 1
          /\ \A k \in 1..Len(Tail(u)) : Tail(u)[k] = u[k + 1]
      BY <2>1, PopBlock
    <3> QED BY <3>1, <3>2
  <2>3. PICK j \in 1..Len(s) : u[i + 1] = s[j]
    BY <1>2, <2>2
  <2> QED BY <2>2, <2>3
<1> QED BY <1>2, <1>3

(* A graph's next node changes: whatever comes while a transition lasts is *)
(* put there by it.                                                        *)
LEMMA NodeSetNext ==
  ASSUME EntryInv, ContextInv, EntryInv', ContextInv', NodeInv,
         NEW r \in Runs, NEW n \in Nodes[r], SetNext(r, n),
         UNCHANGED <<contexts, phase, stamp, started, starter>>
  PROVE  NodeInv'
<1>1. /\ next' = [next EXCEPT ![r] = n]
      /\ placed' = [placed EXCEPT
           ![r] = placed[r] \cup {m \in {n} : InTransition(r)}]
      /\ UNCHANGED <<alive, blocks, inherited>>
      /\ n \in AllNodes
  BY DEF SetNext, contexts, AllNodes
<1>2. NodeTypes'
  <2>1. next' \in [Runs -> AllNodes]
    BY <1>1 DEF NodeInv, NodeTypes
  <2>2. placed[r] \cup {m \in {n} : InTransition(r)} \subseteq AllNodes
    BY <1>1 DEF NodeInv, NodeTypes
  <2>3. placed' \in [Runs -> SUBSET AllNodes]
    BY <1>1, <2>2 DEF NodeInv, NodeTypes
  <2> QED BY <2>1, <2>3 DEF NodeInv, NodeTypes
<1>3. \A t \in Tasks : InheritedOK(t)'
  BY <1>1 DEF NodeInv, InheritedOK
<1>4. ASSUME NEW q \in Runs PROVE PlacedOK(q)'
  <2>1. InTransition(q)' <=> InTransition(q)
    BY <1>1 DEF InTransition
  <2>2. PlacedOK(q) /\ stamp'[q] = stamp[q] /\ phase'[q] = phase[q]
    BY DEF NodeInv
  <2>3. CASE q = r
    <3>1. next'[r] = n
      BY <1>1 DEF NodeInv, NodeTypes
    <3>2. placed'[r] = placed[r] \cup {m \in {n} : InTransition(r)}
      BY <1>1 DEF NodeInv, NodeTypes
    <3> QED BY <2>1, <2>2, <2>3, <3>1, <3>2 DEF PlacedOK
  <2>4. CASE q # r
    <3>1. next'[q] = next[q] /\ placed'[q] = placed[q]
      BY <1>1, <2>4 DEF NodeInv, NodeTypes
    <3> QED BY <2>1, <2>2, <3>1 DEF PlacedOK
  <2> QED BY <2>3, <2>4
<1> QED BY <1>2, <1>3, <1>4 DEF NodeInv

(* A refresh finds the next node and takes it as it is.                    *)
LEMMA NodeRefresh ==
  ASSUME EntryInv, ContextInv, EntryInv', ContextInv', NodeInv,
         NEW r \in Runs, Refresh(r),
         \A q \in Runs : phase'[q] = "open" => phase[q] = "open",
         \A q \in Runs : InTransition(q)' => InTransition(q),
         UNCHANGED <<alive, inherited, next, started, starter>>
  PROVE  NodeInv'
<1> DEFINE s == IF RunVerified(r) THEN next[r] ELSE stamp[r]
           p == IF RunVerified(r) THEN {next[r]} ELSE placed[r]
<1>1. stamp' = [stamp EXCEPT ![r] = s] /\ placed' = [placed EXCEPT ![r] = p]
  BY DEF Refresh, Stamp
<1>2. s \in AllNodes /\ p \subseteq AllNodes
  BY DEF NodeInv, NodeTypes
<1>3. s \in p \/ (s = stamp[r] /\ p = placed[r])
  OBVIOUS
<1>4. next[r] \in p \/ p = placed[r]
  OBVIOUS
<1> HIDE DEF s, p
<1>5. NodeTypes'
  BY <1>1, <1>2 DEF NodeInv, NodeTypes
<1>6. \A t \in Tasks : InheritedOK(t)'
  BY DEF NodeInv, InheritedOK
<1>7. ASSUME NEW q \in Runs PROVE PlacedOK(q)'
  <2>1. PlacedOK(q)
    BY DEF NodeInv
  <2>2. /\ stamp'[q] = IF q = r THEN s ELSE stamp[q]
        /\ placed'[q] = IF q = r THEN p ELSE placed[q]
    BY <1>1 DEF NodeInv, NodeTypes
  <2> QED BY <1>3, <1>4, <2>1, <2>2 DEF PlacedOK
<1> QED BY <1>5, <1>6, <1>7 DEF NodeInv

LEMMA NodeSpawn ==
  ASSUME EntryInv, ContextInv, EntryInv', ContextInv', NodeInv,
         NEW t \in Tasks, NEW c \in Tasks, Spawn(t, c)
  PROVE  NodeInv'
<1>1. /\ alive' = alive \cup {c}
      /\ t \in alive
      /\ c \notin alive
      /\ inherited' =
           [inherited EXCEPT ![c] = [entry |-> entry[t], active |-> active[t]]]
      /\ UNCHANGED <<blocks, phase, next, stamp, started, starter, placed>>
  BY DEF Spawn, graph
<1>2. NodeTypes'
  BY <1>1 DEF NodeInv, NodeTypes
<1>3. ASSUME NEW u \in Tasks PROVE InheritedOK(u)'
  <2>1. CASE u = c
    <3>1. inherited'[c].active = active[t]
      BY <1>1 DEF ContextInv
    <3>2. active[t] # None => active[t][2] \in alive
      BY WhoDrives
    <3> QED BY <1>1, <2>1, <3>1, <3>2 DEF InheritedOK
  <2>2. CASE u # c
    <3>1. inherited'[u] = inherited[u]
      BY <1>1, <2>2 DEF ContextInv
    <3> QED BY <1>1, <3>1 DEF NodeInv, InheritedOK
  <2> QED BY <2>1, <2>2
<1>4. ASSUME NEW r \in Runs PROVE PlacedOK(r)'
  <2>1. blocks[c] = <<>>
    BY <1>1 DEF ContextInv
  <2>2. InTransition(r)' => InTransition(r)
    <3>1. DOMAIN blocks[c] = {}
      BY <2>1
    <3> QED BY <1>1, <3>1 DEF InTransition
  <2> QED BY <1>1, <2>2 DEF NodeInv, PlacedOK
<1> QED BY <1>2, <1>3, <1>4 DEF NodeInv

LEMMA NodeEnterIter ==
  ASSUME EntryInv, ContextInv, EntryInv', ContextInv', NodeInv,
         NEW t \in Tasks, NEW r \in Runs, EnterIter(t, r)
  PROVE  NodeInv'
<1> DEFINE b == Block("iter", r, entry[t])
           new == <<b>> \o blocks[t]
<1>1. /\ phase' = [phase EXCEPT ![r] = "granted"]
      /\ blocks' = [blocks EXCEPT ![t] = new]
      /\ UNCHANGED <<alive, inherited, graph>>
  BY DEF EnterIter, Enter
<1>2. b.kind = "iter" /\ b \in Blocks
  BY DEF Block, Blocks, EntryInv, EntryTypes
<1>3. /\ Len(new) = Len(blocks[t]) + 1
      /\ new[1] = b
      /\ \A i \in 2..Len(blocks[t]) + 1 : new[i] = blocks[t][i - 1]
      /\ Len(blocks[t]) \in Nat
  BY <1>2, PushBlock, LenProperties DEF EntryInv, EntryTypes
<1> HIDE DEF b, new
<1>4. blocks'[t] = new
  BY <1>1 DEF EntryInv, EntryTypes
<1>5. \A i \in 1..Len(new) :
        new[i].kind \in Moves => \E j \in 1..Len(blocks[t]) : new[i] = blocks[t][j]
  <2> SUFFICES ASSUME NEW i \in 1..Len(new), new[i].kind \in Moves
               PROVE  \E j \in 1..Len(blocks[t]) : new[i] = blocks[t][j]
    OBVIOUS
  <2>1. i # 1
    BY <1>2, <1>3 DEF Moves
  <2>2. i - 1 \in 1..Len(blocks[t]) /\ new[i] = blocks[t][i - 1]
    BY <1>3, <2>1
  <2> QED BY <2>2
<1>6. \A u \in Tasks \ {t} : blocks'[u] = blocks[u]
  BY <1>1 DEF EntryInv, EntryTypes
<1>7. ASSUME NEW q \in Runs, InTransition(q)' PROVE InTransition(q)
  BY <1>4, <1>5, <1>6, <1>7, StillMoves
<1>8. \A q \in Runs : phase'[q] = "open" => phase[q] = "open"
  BY <1>1 DEF EntryInv, EntryTypes
<1> QED BY <1>1, <1>7, <1>8, NodeFrame

(* A step begins from the node that the seal was stamped with.             *)
LEMMA NodeBeginStep ==
  ASSUME EntryInv, ContextInv, EntryInv', ContextInv', NodeInv,
         NEW t \in Tasks, NEW r \in Runs, BeginStep(t, r)
  PROVE  NodeInv'
<1> DEFINE b == Block("step", r, active[t])
           new == <<b>> \o blocks[t]
<1>1. /\ stamp[r] = next[r]
      /\ phase[r] = "open"
      /\ blocks' = [blocks EXCEPT ![t] = new]
      /\ UNCHANGED <<alive, inherited, phase>>
      /\ UNCHANGED <<next, stamp, started, starter, placed>>
  BY DEF BeginStep, Transits, Verified, Stamp, Enter, graph
<1>2. b.run = r /\ b \in Blocks
  BY DEF Block, Blocks, EntryInv, EntryTypes
<1>3. /\ Len(new) = Len(blocks[t]) + 1
      /\ new[1] = b
      /\ \A i \in 2..Len(blocks[t]) + 1 : new[i] = blocks[t][i - 1]
      /\ Len(blocks[t]) \in Nat
  BY <1>2, PushBlock, LenProperties DEF EntryInv, EntryTypes
<1> HIDE DEF b, new
<1>4. blocks'[t] = new
  BY <1>1 DEF EntryInv, EntryTypes
<1>5. ASSUME NEW q \in Runs, q # r, InTransition(q)' PROVE InTransition(q)
  <2>1. \A i \in 1..Len(new) :
          new[i].run = q => \E j \in 1..Len(blocks[t]) : new[i] = blocks[t][j]
    <3> SUFFICES ASSUME NEW i \in 1..Len(new), new[i].run = q
                 PROVE  \E j \in 1..Len(blocks[t]) : new[i] = blocks[t][j]
      OBVIOUS
    <3>1. i # 1
      BY <1>2, <1>3, <1>5
    <3>2. i - 1 \in 1..Len(blocks[t]) /\ new[i] = blocks[t][i - 1]
      BY <1>3, <3>1
    <3> QED BY <3>2
  <2>2. \A u \in Tasks \ {t} : blocks'[u] = blocks[u]
    BY <1>1 DEF EntryInv, EntryTypes
  <2> QED BY <1>4, <1>5, <2>1, <2>2, StillMoves
<1>6. ASSUME NEW q \in Runs PROVE PlacedOK(q)'
  <2>1. CASE q = r
    BY <1>1, <2>1 DEF NodeInv, PlacedOK
  <2>2. CASE q # r
    BY <1>1, <1>5, <2>2 DEF NodeInv, PlacedOK
  <2> QED BY <2>1, <2>2
<1>7. NodeTypes' /\ \A u \in Tasks : InheritedOK(u)'
  BY <1>1 DEF NodeInv, NodeTypes, InheritedOK
<1> QED BY <1>6, <1>7 DEF NodeInv

(* A close is of a run that no node is started in any more.                *)
LEMMA NodeCloseBegin ==
  ASSUME EntryInv, ContextInv, EntryInv', ContextInv', NodeInv,
         NEW t \in Tasks, CloseBegin(t)
  PROVE  NodeInv'
<1> DEFINE r == Top(t).run
           b == Block("close", r, active[t])
           new == <<b>> \o blocks[t]
<1>1. /\ blocks[t] # <<>>
      /\ phase' = [phase EXCEPT ![r] = "closing"]
      /\ blocks' = [blocks EXCEPT ![t] = new]
      /\ UNCHANGED <<alive, inherited>>
      /\ UNCHANGED <<next, stamp, started, starter, placed>>
  BY DEF CloseBegin, IsIn, Enter, graph
<1>2. r \in Runs
  BY <1>1, Innermost
<1>3. b.run = r /\ b \in Blocks
  BY <1>2 DEF Block, Blocks, EntryInv, EntryTypes
<1>4. /\ Len(new) = Len(blocks[t]) + 1
      /\ new[1] = b
      /\ \A i \in 2..Len(blocks[t]) + 1 : new[i] = blocks[t][i - 1]
      /\ Len(blocks[t]) \in Nat
  BY <1>3, PushBlock, LenProperties DEF EntryInv, EntryTypes
<1> HIDE DEF b, new, r
<1>5. blocks'[t] = new
  BY <1>1 DEF EntryInv, EntryTypes
<1>6. ASSUME NEW q \in Runs, q # r, InTransition(q)' PROVE InTransition(q)
  <2>1. \A i \in 1..Len(new) :
          new[i].run = q => \E j \in 1..Len(blocks[t]) : new[i] = blocks[t][j]
    <3> SUFFICES ASSUME NEW i \in 1..Len(new), new[i].run = q
                 PROVE  \E j \in 1..Len(blocks[t]) : new[i] = blocks[t][j]
      OBVIOUS
    <3>1. i # 1
      BY <1>3, <1>4, <1>6
    <3>2. i - 1 \in 1..Len(blocks[t]) /\ new[i] = blocks[t][i - 1]
      BY <1>4, <3>1
    <3> QED BY <3>2
  <2>2. \A u \in Tasks \ {t} : blocks'[u] = blocks[u]
    BY <1>1 DEF EntryInv, EntryTypes
  <2> QED BY <1>5, <1>6, <2>1, <2>2, StillMoves
<1>7. ASSUME NEW q \in Runs PROVE PlacedOK(q)'
  <2>1. phase'[q] = IF q = r THEN "closing" ELSE phase[q]
    BY <1>1 DEF EntryInv, EntryTypes
  <2> QED BY <1>1, <1>6, <2>1 DEF NodeInv, PlacedOK
<1>8. NodeTypes' /\ \A u \in Tasks : InheritedOK(u)'
  BY <1>1 DEF NodeInv, NodeTypes, InheritedOK
<1> QED BY <1>7, <1>8 DEF NodeInv

(* Leaving a block begins no transition.                                   *)
LEMMA NodeLeave ==
  ASSUME EntryInv, ContextInv, EntryInv', ContextInv', NodeInv,
         NEW t \in Tasks, blocks[t] # <<>>,
         \/ blocks' = [blocks EXCEPT ![t] = Tail(blocks[t])]
         \/ /\ Tail(blocks[t]) # <<>>
            /\ blocks' = [blocks EXCEPT ![t] = Tail(Tail(blocks[t]))],
         NEW q \in Runs, InTransition(q)'
  PROVE  InTransition(q)
<1>1. blocks[t] \in Seq(Blocks)
  BY DEF EntryInv, EntryTypes
<1>2. \/ blocks'[t] = Tail(blocks[t])
      \/ /\ Tail(blocks[t]) # <<>>
         /\ blocks'[t] = Tail(Tail(blocks[t]))
  BY DEF EntryInv, EntryTypes
<1>3. \A i \in 1..Len(blocks'[t]) :
        \E j \in 1..Len(blocks[t]) : blocks'[t][i] = blocks[t][j]
  <2> DEFINE s == blocks[t]
  <2>1. /\ \A i \in 1..Len(Tail(s)) : \E j \in 1..Len(s) : Tail(s)[i] = s[j]
        /\ Tail(s) # <<>> =>
             \A i \in 1..Len(Tail(Tail(s))) :
               \E j \in 1..Len(s) : Tail(Tail(s))[i] = s[j]
    BY <1>1, TailBlocks
  <2>2. CASE blocks'[t] = Tail(s)
    BY <2>1, <2>2
  <2>3. CASE Tail(s) # <<>> /\ blocks'[t] = Tail(Tail(s))
    BY <2>1, <2>3
  <2> QED BY <1>2, <2>2, <2>3
<1>4. \A u \in Tasks \ {t} : blocks'[u] = blocks[u]
  BY DEF EntryInv, EntryTypes
<1> QED BY <1>3, <1>4, StillMoves

LEMMA NodeSetupFails ==
  ASSUME EntryInv, ContextInv, EntryInv', ContextInv', NodeInv,
         NEW t \in Tasks, SetupFails(t)
  PROVE  NodeInv'
<1>1. /\ blocks[t] # <<>>
      /\ blocks' = [blocks EXCEPT ![t] = Tail(blocks[t])]
      /\ phase' = [phase EXCEPT ![Top(t).run] = "failed"]
      /\ UNCHANGED <<alive, inherited, graph>>
  BY DEF SetupFails, IsIn
<1>2. \A q \in Runs : InTransition(q)' => InTransition(q)
  BY <1>1, NodeLeave
<1>3. \A q \in Runs : phase'[q] = "open" => phase[q] = "open"
  BY <1>1 DEF EntryInv, EntryTypes
<1> QED BY <1>1, <1>2, <1>3, NodeFrame

LEMMA NodeEndStep ==
  ASSUME EntryInv, ContextInv, EntryInv', ContextInv', NodeInv,
         NEW t \in Tasks, EndStep(t)
  PROVE  NodeInv'
<1>1. /\ blocks[t] # <<>>
      /\ blocks' = [blocks EXCEPT ![t] = Tail(blocks[t])]
      /\ Refresh(Top(t).run)
      /\ UNCHANGED <<alive, phase, inherited, next, started, starter>>
  BY DEF EndStep, IsIn
<1>2. \A q \in Runs : InTransition(q)' => InTransition(q)
  BY <1>1, NodeLeave
<1>3. Top(t).run \in Runs
  BY <1>1, Innermost
<1> QED BY <1>1, <1>2, <1>3, NodeRefresh

LEMMA NodeCloseEnd ==
  ASSUME EntryInv, ContextInv, EntryInv', ContextInv', NodeInv,
         NEW t \in Tasks, CloseEnd(t)
  PROVE  NodeInv'
<1>1. /\ blocks[t] # <<>>
      /\ Top(t).kind = "close"
      /\ blocks' = [blocks EXCEPT ![t] = Tail(Tail(blocks[t]))]
      /\ phase' = [phase EXCEPT ![Top(t).run] = "closed"]
      /\ Refresh(Top(t).run)
      /\ UNCHANGED <<alive, inherited, next, started, starter>>
  BY DEF CloseEnd, IsIn
<1>2. /\ Top(t).run \in Runs
      /\ 1 \in 1..Len(blocks[t])
      /\ blocks[t][1].kind = "close"
      /\ blocks[t] \in Seq(Blocks)
  BY <1>1, Innermost
<1>3. 1 + 1 \in 1..Len(blocks[t])
  BY <1>2, Innermost DEF StackOK
<1>4. Tail(blocks[t]) # <<>>
  <2>1. Len(Tail(blocks[t])) = Len(blocks[t]) - 1 /\ Len(blocks[t]) \in Nat
    BY <1>1, <1>2, PopBlock
  <2>2. Len(Tail(blocks[t])) # 0
    BY <1>3, <2>1
  <2> QED BY <2>2, EmptySeq
<1>5. \A q \in Runs : InTransition(q)' => InTransition(q)
  BY <1>1, <1>4, NodeLeave
<1>6. \A q \in Runs : phase'[q] = "open" => phase[q] = "open"
  BY <1>1 DEF EntryInv, EntryTypes
<1> QED BY <1>1, <1>2, <1>5, <1>6, NodeRefresh

(* A run is opened with the stamp of its first node.                       *)
LEMMA NodePin ==
  ASSUME EntryInv, ContextInv, EntryInv', ContextInv', NodeInv,
         NEW t \in Tasks, Pin(t)
  PROVE  NodeInv'
<1> DEFINE r == Top(t).run
<1>1. /\ blocks[t] # <<>>
      /\ phase' = [phase EXCEPT ![r] = "open"]
      /\ UNCHANGED <<alive, blocks, inherited, started, starter>>
  BY DEF Pin, Stage, IsIn, contexts
<1>2. r \in Runs
  BY <1>1, Innermost
<1>3. PICK n \in Nodes[r] :
        /\ next' = [next EXCEPT ![r] = n]
        /\ stamp' = [stamp EXCEPT ![r] = n]
        /\ placed' = [placed EXCEPT ![r] = {n}]
  BY DEF Pin, PinRun
<1> HIDE DEF r
<1>4. n \in AllNodes
  BY <1>2 DEF AllNodes
<1>5. NodeTypes'
  BY <1>1, <1>3, <1>4 DEF NodeInv, NodeTypes
<1>6. \A u \in Tasks : InheritedOK(u)'
  BY <1>1 DEF NodeInv, InheritedOK
<1>7. ASSUME NEW q \in Runs PROVE PlacedOK(q)'
  <2>1. InTransition(q)' <=> InTransition(q)
    BY <1>1 DEF InTransition
  <2>2. CASE q = r
    <3>1. next'[r] = n /\ stamp'[r] = n /\ placed'[r] = {n}
      BY <1>2, <1>3 DEF NodeInv, NodeTypes
    <3> QED BY <2>2, <3>1 DEF PlacedOK
  <2>3. CASE q # r
    <3>1. /\ next'[q] = next[q] /\ stamp'[q] = stamp[q]
          /\ placed'[q] = placed[q]
          /\ phase'[q] = phase[q]
      BY <1>1, <1>3, <2>3 DEF NodeInv, NodeTypes, EntryInv, EntryTypes
    <3> QED BY <2>1, <3>1 DEF NodeInv, PlacedOK
  <2> QED BY <2>2, <2>3
<1> QED BY <1>5, <1>6, <1>7 DEF NodeInv

LEMMA NodeStartNode ==
  ASSUME NodeInv, NEW t \in Tasks, NEW r \in Runs, StartNode(t, r)
  PROVE  NodeInv'
<1>1. /\ started' = [started EXCEPT ![r] = next[r]]
      /\ starter' = [starter EXCEPT ![r] = t]
      /\ UNCHANGED <<alive, blocks, inherited, phase, next, stamp, placed>>
  BY DEF StartNode, contexts
<1>2. NodeTypes'
  BY <1>1 DEF NodeInv, NodeTypes
<1>3. ASSUME NEW q \in Runs PROVE PlacedOK(q)'
  BY <1>1 DEF NodeInv, PlacedOK, InTransition
<1> QED BY <1>1, <1>2, <1>3 DEF NodeInv, InheritedOK

(* The rest leaves blocks and graphs alone.                                *)
LEMMA NodeElsewhere ==
  ASSUME NodeInv, UNCHANGED <<alive, blocks, inherited, graph>>,
         \A r \in Runs : phase'[r] = "open" => phase[r] = "open"
  PROVE  NodeInv'
<1>1. \A r \in Runs : InTransition(r)' <=> InTransition(r)
  BY DEF InTransition
<1>2. UNCHANGED <<next, stamp, started, starter, placed>>
  BY DEF graph
<1> QED BY <1>1, <1>2 DEF NodeInv, NodeTypes, InheritedOK, PlacedOK

LEMMA NodeNext ==
  ASSUME EntryInv, ContextInv, EntryInv', ContextInv', NodeInv, [Next]_vars
  PROVE  NodeInv'
<1>1. CASE \E t, c \in Tasks : Spawn(t, c)
  BY <1>1, NodeSpawn
<1>2. CASE \E t \in Tasks, r \in Runs : EnterIter(t, r) \/ BeginStep(t, r)
  BY <1>2, NodeEnterIter, NodeBeginStep
<1>3. CASE \E t \in Tasks : SetupFails(t) \/ EndStep(t)
                            \/ CloseBegin(t) \/ CloseEnd(t)
  BY <1>3, NodeSetupFails, NodeEndStep, NodeCloseBegin, NodeCloseEnd
<1>4. CASE \E t \in Tasks : Pin(t)
  BY <1>4, NodePin
<1>5. ASSUME NEW t \in Tasks, BaseRun(t) PROVE NodeInv'
  <2>1. PICK r \in Runs : /\ Continues(t, r)
                          /\ UNCHANGED <<alive, blocks, inherited, graph>>
    BY <1>5 DEF BaseRun
  <2>2. \A q \in Runs : phase'[q] = "open" => phase[q] = "open"
    BY <2>1 DEF Continues, EntryInv, EntryTypes
  <2> QED BY <2>1, <2>2, NodeElsewhere
<1>6. ASSUME NEW t \in Tasks, Resolve(t) \/ GetToolset(t) PROVE NodeInv'
  <2>1. /\ \E to \in {"resolved", "equipped"} :
             phase' = [phase EXCEPT ![Top(t).run] = to]
        /\ UNCHANGED <<alive, blocks, inherited, graph>>
    BY <1>6 DEF Resolve, GetToolset, Stage, contexts
  <2>2. \A q \in Runs : phase'[q] = "open" => phase[q] = "open"
    BY <2>1 DEF EntryInv, EntryTypes
  <2> QED BY <2>1, <2>2, NodeElsewhere
<1>7. CASE \E t \in Tasks, r \in Runs : StartNode(t, r)
  BY <1>7, NodeStartNode
<1>8. CASE \E t \in Tasks, r \in Runs : Advance(t, r)
  BY <1>8, NodeSetNext DEF Advance
<1>9. CASE \E r \in Runs : ChangeNext(r)
  BY <1>9, NodeSetNext DEF ChangeNext
<1>10. CASE ChangeAgent \/ \E r \in Runs : ChangeRun(r)
  BY <1>10, NodeElsewhere DEF ChangeAgent, ChangeRun, contexts
<1>11. CASE \E r \in Runs : \E m \in Managers[r] :
              NextManager(r, m) \/ AssignManager(r, m)
  BY <1>11, NodeElsewhere DEF NextManager, AssignManager, contexts
<1>12. CASE UNCHANGED vars
  BY <1>12, NodeElsewhere DEF vars, contexts
<1> QED
  BY <1>1, <1>2, <1>3, <1>4, <1>5, <1>6, <1>7, <1>8, <1>9, <1>10, <1>11,
     <1>12 DEF Next

(* The node that is started is that of a transition the task began.        *)
LEMMA StartsOnThePath ==
  ASSUME EntryInv, ContextInv, NodeInv, SealedRunAssumption,
         NEW t \in Tasks, NEW r \in Runs, StartNode(t, r)
  PROVE  /\ \E i \in DOMAIN blocks[t] :
              blocks[t][i].kind = "step" /\ blocks[t][i].run = r
         /\ next[r] \in placed[r]
<1>1. active[t] = <<r, t>> /\ phase[r] = "open"
  BY DEF StartNode
<1>2. active[t] # None /\ active[t][2] = t
  <2>1. <<r, t>> \in Runs \X Tasks
    OBVIOUS
  <2> QED BY <1>1, <2>1 DEF SealedRunAssumption
<1>3. PICK i \in 1..Len(blocks[t]) :
        blocks[t][i].kind \in Moves /\ active[t] = <<blocks[t][i].run, t>>
  BY <1>2, WhoDrives
<1>4. blocks[t][i].run = r
  BY <1>1, <1>3
<1>5. blocks[t][i].kind # "close"
  <2>1. Follows(t)
    BY DEF ContextInv
  <2> QED BY <1>1, <1>4, <2>1 DEF Follows, ContextOK, Over
<1>6. i \in DOMAIN blocks[t]
  <2>1. blocks[t] \in Seq(Blocks)
    BY DEF EntryInv, EntryTypes
  <2> QED BY <2>1, LenProperties
<1>7. InTransition(r)
  BY <1>3, <1>4, BlocksMove
<1>8. next[r] \in placed[r]
  BY <1>1, <1>7 DEF NodeInv, PlacedOK
<1> QED BY <1>3, <1>4, <1>5, <1>6, <1>8 DEF Moves

(* Nodes are started by StartNode alone.                                   *)
LEMMA NodesStart ==
  ASSUME EntryInv, ContextInv, NodeInv, SealedRunAssumption, [Next]_vars,
         NEW r \in Runs, started'[r] # started[r]
  PROVE  /\ \E i \in DOMAIN blocks[starter'[r]] :
              /\ blocks[starter'[r]][i].kind = "step"
              /\ blocks[starter'[r]][i].run = r
         /\ started'[r] \in placed[r]
<1>1. started' # started
  OBVIOUS
<1>2. PICK t \in Tasks, q \in Runs : StartNode(t, q)
  <2>1. \A t, c \in Tasks : Spawn(t, c) => started' = started
    BY DEF Spawn, graph
  <2>2. \A t \in Tasks, q \in Runs :
          EnterIter(t, q) \/ BeginStep(t, q) \/ Advance(t, q) =>
            started' = started
    BY DEF EnterIter, BeginStep, Advance, graph
  <2>3. \A t \in Tasks :
          BaseRun(t) \/ Resolve(t) \/ GetToolset(t) \/ Pin(t) =>
            started' = started
    BY DEF BaseRun, Resolve, GetToolset, Pin, graph
  <2>4. \A t \in Tasks :
          SetupFails(t) \/ EndStep(t) \/ CloseBegin(t) \/ CloseEnd(t) =>
            started' = started
    BY DEF SetupFails, EndStep, CloseBegin, CloseEnd, graph
  <2>5. ChangeAgent \/ (\E q \in Runs : ChangeRun(q) \/ ChangeNext(q)) =>
          started' = started
    BY DEF ChangeAgent, ChangeRun, ChangeNext, graph
  <2>6. (\E q \in Runs : \E m \in Managers[q] :
           NextManager(q, m) \/ AssignManager(q, m)) => started' = started
    BY DEF NextManager, AssignManager, graph
  <2>7. UNCHANGED vars => started' = started
    BY DEF vars, graph
  <2> QED BY <1>1, <2>1, <2>2, <2>3, <2>4, <2>5, <2>6, <2>7 DEF Next
<1>3. /\ started' = [started EXCEPT ![q] = next[q]]
      /\ starter' = [starter EXCEPT ![q] = t]
  BY <1>2 DEF StartNode
<1>4. q = r /\ started'[r] = next[r] /\ starter'[r] = t
  BY <1>3 DEF NodeInv, NodeTypes
<1> QED BY <1>2, <1>4, StartsOnThePath

(* NodesStartOnTheSealedPath, however many tasks copy the transition and   *)
(* whatever the application writes between steps.                          *)
THEOREM NodesAreStartedByDrivers ==
  Spec => NodesStartOnTheSealedPath
<1>1. Init => EntryInv /\ ContextInv /\ NodeInv
  BY EntryInit, ContextInit, NodeInit, SealedRunAssumption
<1>2. EntryInv /\ ContextInv /\ NodeInv /\ [Next]_vars
        => (EntryInv /\ ContextInv /\ NodeInv)'
  BY EntryNext, ContextNext, NodeNext, SealedRunAssumption
<1>3. EntryInv /\ ContextInv /\ NodeInv /\ [Next]_vars =>
        [\A r \in Runs : started'[r] # started[r] =>
           /\ \E i \in DOMAIN blocks[starter'[r]] :
                blocks[starter'[r]][i].kind = "step"
                  /\ blocks[starter'[r]][i].run = r
           /\ started'[r] \in placed[r]]_vars
  BY NodesStart, SealedRunAssumption
<1> QED BY <1>1, <1>2, <1>3, PTL DEF Spec, NodesStartOnTheSealedPath
=============================================================================
