------------------------- MODULE LockManagerProofs --------------------------
(***************************************************************************)
(* Proofs about LockManager for any sets of transactions and rows.         *)
(*                                                                         *)
(* The safety properties are not inductive one by one: that a marked       *)
(* victim is asleep rests on edges existing only for sleepers, that an     *)
(* edge to a live transaction is current rests on the two ownership maps   *)
(* agreeing.  Inv is their conjunction, with CallArgs, which ties a call's *)
(* argument, and its pending result, to the thread being inside the call.  *)
(***************************************************************************)
EXTENDS LockManager, WellFoundedInduction, FiniteSetTheorems, TLAPS

CallArgs ==
  \A t \in Txns :
    /\ want[t] \in Rids <=> pc[t] \in {"entering", "waiting"}
    /\ pc[t] \in {"entering", "waiting"} => result[t] = "none"

Inv ==
  /\ TypeOK
  /\ CallArgs
  /\ LocksAgree
  /\ LiveEdgesAreCurrent
  /\ VictimsAreAsleep
  /\ NoMissedWakeup

USE TxnsAssumption, RidsAssumption DEF NoTxn

-----------------------------------------------------------------------------
(* The holder a cycle is found through is itself asleep: a transaction with *)
(* no edge reaches nobody but itself.                                       *)
LEMMA CycleThroughSleeper ==
  ASSUME Inv, NEW t \in Txns, HeldByOther(t), wouldCycleLocked(t, holder_of[want[t]])
  PROVE  holder_of[want[t]] \in Waiting /\ holder_of[want[t]] # t
<1> DEFINE h == holder_of[want[t]]
<1>1. want[t] \in Rids /\ h \in Txns /\ h # t
  BY DEF Inv, TypeOK, CallArgs, HeldByOther
<1>2. ASSUME h \notin Waiting PROVE FALSE
  <2>1. waits_for[h] = NoTxn
    BY <1>1, <1>2 DEF Inv, LiveEdgesAreCurrent, Waiting
  <2>2. ClosedUnderWaits({h})
    BY <2>1, <1>1 DEF ClosedUnderWaits
  <2> QED BY <1>1, <2>2 DEF wouldCycleLocked
<1> QED BY <1>1, <1>2

(* One lemma per action: the step preserves Inv. *)
LEMMA CallInv ==
  ASSUME Inv, NEW t \in Txns, NEW r \in Rids, Call(t, r) PROVE Inv'
<1> USE DEF Inv, Call
<1>1. TypeOK' BY DEF TypeOK
<1>2. CallArgs' BY DEF TypeOK, CallArgs
<1>3. LocksAgree' BY DEF TypeOK, LocksAgree, Ended
<1>4. LiveEdgesAreCurrent' BY DEF TypeOK, LiveEdgesAreCurrent, Ended
<1>5. VictimsAreAsleep' BY DEF TypeOK, VictimsAreAsleep, Waiting
<1>6. NoMissedWakeup' BY DEF TypeOK, NoMissedWakeup, Waiting, MayWake
<1> QED BY <1>1, <1>2, <1>3, <1>4, <1>5, <1>6

LEMMA ThrowAsVictimInv ==
  ASSUME Inv, NEW t \in Txns, ThrowAsVictim(t) PROVE Inv'
<1> USE DEF Inv, ThrowAsVictim, Return
<1>1. TypeOK' BY DEF TypeOK
<1>2. CallArgs' BY DEF TypeOK, CallArgs
<1>3. LocksAgree' BY DEF TypeOK, LocksAgree, Ended
<1>4. LiveEdgesAreCurrent' BY DEF TypeOK, LiveEdgesAreCurrent, Ended, InLoop
<1>5. VictimsAreAsleep' BY DEF TypeOK, VictimsAreAsleep, Waiting
<1>6. NoMissedWakeup' BY DEF TypeOK, NoMissedWakeup, Waiting, MayWake
<1> QED BY <1>1, <1>2, <1>3, <1>4, <1>5, <1>6

LEMMA ClaimInv ==
  ASSUME Inv, NEW t \in Txns, Claim(t) PROVE Inv'
<1> USE DEF Inv, Claim, Return
<1>0. want[t] \in Rids BY DEF CallArgs, InLoop
<1>1. TypeOK' BY <1>0 DEF TypeOK
<1>2. CallArgs' BY DEF TypeOK, CallArgs
<1>3. LocksAgree' BY <1>0 DEF TypeOK, LocksAgree, Ended, InLoop
<1>4. LiveEdgesAreCurrent' BY <1>0 DEF TypeOK, LiveEdgesAreCurrent, Ended, InLoop
<1>5. VictimsAreAsleep' BY DEF TypeOK, VictimsAreAsleep, Waiting
<1>6. NoMissedWakeup' BY <1>0 DEF TypeOK, NoMissedWakeup, Waiting, MayWake, CallArgs
<1> QED BY <1>1, <1>2, <1>3, <1>4, <1>5, <1>6

LEMMA ReEnterInv ==
  ASSUME Inv, NEW t \in Txns, ReEnter(t) PROVE Inv'
<1> USE DEF Inv, ReEnter, Return
<1>1. TypeOK' BY DEF TypeOK
<1>2. CallArgs' BY DEF TypeOK, CallArgs
<1>3. LocksAgree' BY DEF TypeOK, LocksAgree, Ended
<1>4. LiveEdgesAreCurrent' BY DEF TypeOK, LiveEdgesAreCurrent, Ended, InLoop
<1>5. VictimsAreAsleep' BY DEF TypeOK, VictimsAreAsleep, Waiting
<1>6. NoMissedWakeup' BY DEF TypeOK, NoMissedWakeup, Waiting, MayWake
<1> QED BY <1>1, <1>2, <1>3, <1>4, <1>5, <1>6

LEMMA BlockInv ==
  ASSUME Inv, NEW t \in Txns, Block(t) PROVE Inv'
<1> USE DEF Inv, Block, Sleep, HeldByOther
<1>0. want[t] \in Rids /\ holder_of[want[t]] \in Txns BY DEF CallArgs, TypeOK
<1>1. TypeOK' BY <1>0 DEF TypeOK
<1>2. CallArgs' BY DEF TypeOK, CallArgs
<1>3. LocksAgree' BY DEF TypeOK, LocksAgree, Ended
<1>4. LiveEdgesAreCurrent' BY <1>0 DEF TypeOK, LiveEdgesAreCurrent, Ended
<1>5. VictimsAreAsleep' BY DEF TypeOK, VictimsAreAsleep, Waiting
<1>6. NoMissedWakeup' BY DEF TypeOK, NoMissedWakeup, Waiting, MayWake
<1> QED BY <1>1, <1>2, <1>3, <1>4, <1>5, <1>6

LEMMA ThrowOnCycleInv ==
  ASSUME Inv, NEW t \in Txns, ThrowOnCycle(t) PROVE Inv'
<1> USE DEF Inv, ThrowOnCycle, Return, HeldByOther
<1>1. TypeOK' BY DEF TypeOK
<1>2. CallArgs' BY DEF TypeOK, CallArgs
<1>3. LocksAgree' BY DEF TypeOK, LocksAgree, Ended
<1>4. LiveEdgesAreCurrent' BY DEF TypeOK, LiveEdgesAreCurrent, Ended
<1>5. VictimsAreAsleep' BY DEF TypeOK, VictimsAreAsleep, Waiting
<1>6. NoMissedWakeup' BY DEF TypeOK, NoMissedWakeup, Waiting, MayWake
<1> QED BY <1>1, <1>2, <1>3, <1>4, <1>5, <1>6

LEMMA BlockAfterMarkingInv ==
  ASSUME Inv, NEW t \in Txns, BlockAfterMarking(t) PROVE Inv'
<1>0. /\ want[t] \in Rids
      /\ holder_of[want[t]] \in Waiting
      /\ holder_of[want[t]] # t
  BY CycleThroughSleeper DEF Inv, CallArgs, BlockAfterMarking, HeldByOther
<1> USE DEF Inv, BlockAfterMarking, Sleep, HeldByOther
<1>1. TypeOK' BY <1>0 DEF TypeOK, Waiting
<1>2. CallArgs' BY DEF TypeOK, CallArgs
<1>3. LocksAgree' BY DEF TypeOK, LocksAgree, Ended
<1>4. LiveEdgesAreCurrent' BY <1>0 DEF TypeOK, LiveEdgesAreCurrent, Ended, Waiting
<1>5. VictimsAreAsleep'
  <2> SUFFICES ASSUME NEW v \in deadlock_victims' PROVE v \in Waiting'
    BY DEF VictimsAreAsleep
  <2>1. v \in Waiting /\ v # t BY <1>0 DEF VictimsAreAsleep, Waiting
  <2> QED BY <2>1 DEF TypeOK, Waiting
<1>6. NoMissedWakeup' BY <1>0 DEF TypeOK, NoMissedWakeup, Waiting, MayWake
<1> QED BY <1>1, <1>2, <1>3, <1>4, <1>5, <1>6

LEMMA SleepOnInv ==
  ASSUME Inv, NEW t \in Txns, SleepOn(t) PROVE Inv'
<1> USE DEF Inv, SleepOn
<1>1. TypeOK' BY DEF TypeOK
<1>2. CallArgs' BY DEF CallArgs
<1>3. LocksAgree' BY DEF LocksAgree, Ended
<1>4. LiveEdgesAreCurrent' BY DEF LiveEdgesAreCurrent, Ended
<1>5. VictimsAreAsleep' BY DEF VictimsAreAsleep, Waiting
<1>6. NoMissedWakeup' BY DEF NoMissedWakeup, Waiting, MayWake
<1> QED BY <1>1, <1>2, <1>3, <1>4, <1>5, <1>6

LEMMA TimeoutInv ==
  ASSUME Inv, NEW t \in Txns, Timeout(t) PROVE Inv'
<1> USE DEF Inv, Timeout, Return
<1>1. TypeOK' BY DEF TypeOK
<1>2. CallArgs' BY DEF TypeOK, CallArgs
<1>3. LocksAgree' BY DEF TypeOK, LocksAgree, Ended
<1>4. LiveEdgesAreCurrent' BY DEF TypeOK, LiveEdgesAreCurrent, Ended
<1>5. VictimsAreAsleep' BY DEF TypeOK, VictimsAreAsleep, Waiting, MayWake
<1>6. NoMissedWakeup' BY DEF TypeOK, NoMissedWakeup, Waiting, MayWake
<1> QED BY <1>1, <1>2, <1>3, <1>4, <1>5, <1>6

LEMMA ReleaseAllInv ==
  ASSUME Inv, NEW t \in Txns, releaseAll(t) PROVE Inv'
<1> USE DEF Inv, releaseAll
<1>1. TypeOK' BY DEF TypeOK, Waiting
<1>2. CallArgs' BY DEF TypeOK, CallArgs
<1>3. LocksAgree' BY DEF TypeOK, LocksAgree, Ended
<1>4. LiveEdgesAreCurrent' BY DEF TypeOK, LiveEdgesAreCurrent, Ended, LocksAgree, CallArgs
<1>5. VictimsAreAsleep' BY DEF TypeOK, VictimsAreAsleep, Waiting
<1>6. NoMissedWakeup' BY DEF TypeOK, NoMissedWakeup, Waiting
<1> QED BY <1>1, <1>2, <1>3, <1>4, <1>5, <1>6

-----------------------------------------------------------------------------
LEMMA InitInv == Init => Inv
BY DEF Init, Inv, TypeOK, CallArgs, LocksAgree, LiveEdgesAreCurrent, VictimsAreAsleep,
       NoMissedWakeup, Ended, Waiting

LEMMA NextInv == Inv /\ [Next]_vars => Inv'
<1> SUFFICES ASSUME Inv, [Next]_vars PROVE Inv'
  OBVIOUS
<1>1. ASSUME NEW t \in Txns, NEW r \in Rids, Call(t, r) PROVE Inv'
  BY <1>1, CallInv
<1>2. ASSUME NEW t \in Txns, acquireExclusive(t) PROVE Inv'
  BY <1>2, ThrowAsVictimInv, ClaimInv, ReEnterInv, BlockInv, ThrowOnCycleInv,
     BlockAfterMarkingInv DEF acquireExclusive
<1>3. ASSUME NEW t \in Txns, SleepOn(t) \/ Timeout(t) \/ releaseAll(t) PROVE Inv'
  BY <1>3, SleepOnInv, TimeoutInv, ReleaseAllInv
<1>4. CASE UNCHANGED vars
  BY <1>4 DEF vars, Inv, TypeOK, CallArgs, LocksAgree, LiveEdgesAreCurrent,
     VictimsAreAsleep, NoMissedWakeup, Ended, Waiting, MayWake
<1> QED BY <1>1, <1>2, <1>3, <1>4 DEF Next

THEOREM LockManagerInvariant == Spec => []Inv
BY InitInv, NextInv, PTL DEF Spec

(* acquireExclusive and releaseAll keep every map within its type. *)
THEOREM TypeCorrect == Spec => []TypeOK
<1>1. Inv => TypeOK BY DEF Inv
<1> QED BY <1>1, LockManagerInvariant, PTL

(* holder_of and held_by always describe the same ownership, so releaseAll  *)
(* leaves no row behind.                                                    *)
THEOREM LocksAlwaysAgree == Spec => []LocksAgree
<1>1. Inv => LocksAgree BY DEF Inv
<1> QED BY <1>1, LockManagerInvariant, PTL

(* A victim mark always finds its transaction asleep in the wait it is     *)
(* meant to end.                                                           *)
THEOREM VictimsAlwaysAsleep == Spec => []VictimsAreAsleep
<1>1. Inv => VictimsAreAsleep BY DEF Inv
<1> QED BY <1>1, LockManagerInvariant, PTL

(* The notify_all calls of releaseAll and of victim marking suffice: no    *)
(* sleeper whose predicate holds is left to its deadline.                  *)
THEOREM NoWakeupIsMissed == Spec => []NoMissedWakeup
<1>1. Inv => NoMissedWakeup BY DEF Inv
<1> QED BY <1>1, LockManagerInvariant, PTL

(* Edges of the waits-for graph go stale only towards ended transactions. *)
THEOREM LiveEdgesStayCurrent == Spec => []LiveEdgesAreCurrent
<1>1. Inv => LiveEdgesAreCurrent BY DEF Inv
<1> QED BY <1>1, LockManagerInvariant, PTL

-----------------------------------------------------------------------------
(* A step that only takes t's edge and t's mark away breaks no promise: a   *)
(* cycle that is left after it was there before and does not contain t.     *)
LEMMA DroppingAnEdge ==
  ASSUME TypeOK, RecordedCyclesAreBroken, NEW t \in Txns,
         waits_for' = [waits_for EXCEPT ![t] = NoTxn],
         deadlock_victims \ {t} \subseteq deadlock_victims'
  PROVE  RecordedCyclesAreBroken'
<1> SUFFICES ASSUME NEW S \in SUBSET Txns, S # {}, \A x \in S : waits_for'[x] \in S
             PROVE  S \cap deadlock_victims' # {}
  BY DEF RecordedCyclesAreBroken
<1>1. t \notin S BY DEF TypeOK
<1>2. \A x \in S : waits_for[x] \in S BY <1>1 DEF TypeOK
<1>3. S \cap deadlock_victims # {} BY <1>2 DEF RecordedCyclesAreBroken
<1> QED BY <1>1, <1>3

(* The edge Block adds closes no cycle: a closed set that witnesses the      *)
(* failed walk, cut down to the supposed new cycle, is an older cycle.       *)
LEMMA BlockKeepsCyclesBroken ==
  ASSUME Inv, RecordedCyclesAreBroken, NEW t \in Txns, Block(t)
  PROVE  RecordedCyclesAreBroken'
<1> DEFINE h == holder_of[want[t]]
<1> SUFFICES ASSUME NEW C \in SUBSET Txns, C # {}, \A x \in C : waits_for'[x] \in C
             PROVE  C \cap deadlock_victims' # {}
  BY DEF RecordedCyclesAreBroken
<1>1. /\ waits_for' = [waits_for EXCEPT ![t] = h]
      /\ deadlock_victims' = deadlock_victims
      /\ waits_for \in [Txns -> Txns \cup {NoTxn}]
  BY DEF Block, Sleep, Inv, TypeOK
<1>2. CASE t \notin C
  <2>1. \A x \in C : waits_for[x] \in C BY <1>1, <1>2
  <2> QED BY <1>1, <2>1 DEF RecordedCyclesAreBroken
<1>3. CASE t \in C
  <2>1. h \in C BY <1>1, <1>3
  <2>2. PICK S \in SUBSET Txns : h \in S /\ ClosedUnderWaits(S) /\ t \notin S
    BY DEF Block, wouldCycleLocked
  <2>3. \A x \in C \cap S : waits_for[x] \in C \cap S
    <3> SUFFICES ASSUME NEW x \in C \cap S PROVE waits_for[x] \in C \cap S
      OBVIOUS
    <3>1. x \in Txns /\ x # t BY <2>2
    <3>2. waits_for[x] \in C BY <1>1, <3>1
    <3>3. waits_for[x] # NoTxn BY <3>2
    <3> QED BY <2>2, <3>1, <3>2, <3>3 DEF ClosedUnderWaits
  <2>4. (C \cap S) \cap deadlock_victims # {}
    BY <2>1, <2>2, <2>3 DEF RecordedCyclesAreBroken
  <2> QED BY <1>1, <2>4
<1> QED BY <1>2, <1>3

(* The edge BlockAfterMarking adds leads to the victim it has just marked. *)
LEMMA MarkingKeepsCyclesBroken ==
  ASSUME Inv, RecordedCyclesAreBroken, NEW t \in Txns, BlockAfterMarking(t)
  PROVE  RecordedCyclesAreBroken'
<1> DEFINE h == holder_of[want[t]]
<1> SUFFICES ASSUME NEW C \in SUBSET Txns, C # {}, \A x \in C : waits_for'[x] \in C
             PROVE  C \cap deadlock_victims' # {}
  BY DEF RecordedCyclesAreBroken
<1>1. /\ waits_for' = [waits_for EXCEPT ![t] = h]
      /\ deadlock_victims' = deadlock_victims \cup {h}
      /\ waits_for \in [Txns -> Txns \cup {NoTxn}]
  BY DEF BlockAfterMarking, Sleep, Inv, TypeOK
<1>2. CASE t \notin C
  <2>1. \A x \in C : waits_for[x] \in C BY <1>1, <1>2
  <2>2. C \cap deadlock_victims # {} BY <2>1 DEF RecordedCyclesAreBroken
  <2> QED BY <1>1, <2>2
<1>3. CASE t \in C
  BY <1>1, <1>3
<1> QED BY <1>2, <1>3

(* Every cycle the waits-for graph records holds a transaction that is     *)
(* already marked and will throw: acquireExclusive never records one it    *)
(* has not acted on.                                                       *)
THEOREM CyclesAlwaysBroken == Spec => []RecordedCyclesAreBroken
<1>1. Init => RecordedCyclesAreBroken
  <2> SUFFICES ASSUME Init, NEW S \in SUBSET Txns, S # {}, \A x \in S : waits_for[x] \in S
               PROVE  FALSE
    BY DEF RecordedCyclesAreBroken
  <2>1. PICK x \in S : waits_for[x] \in S OBVIOUS
  <2>2. waits_for[x] = NoTxn BY <2>1 DEF Init
  <2> QED BY <2>1, <2>2
<1>2. Inv /\ RecordedCyclesAreBroken /\ [Next]_vars => RecordedCyclesAreBroken'
  <2> SUFFICES ASSUME Inv, RecordedCyclesAreBroken, [Next]_vars
               PROVE  RecordedCyclesAreBroken'
    OBVIOUS
  <2>0. TypeOK BY DEF Inv
  <2>1. ASSUME NEW t \in Txns, Block(t) PROVE RecordedCyclesAreBroken'
    BY <2>1, BlockKeepsCyclesBroken
  <2>2. ASSUME NEW t \in Txns, BlockAfterMarking(t) PROVE RecordedCyclesAreBroken'
    BY <2>2, MarkingKeepsCyclesBroken
  <2>3. ASSUME NEW t \in Txns,
               \/ ThrowAsVictim(t) \/ Claim(t) \/ ReEnter(t) \/ ThrowOnCycle(t)
               \/ Timeout(t) \/ releaseAll(t)
        PROVE RecordedCyclesAreBroken'
    <3>1. /\ waits_for' = [waits_for EXCEPT ![t] = NoTxn]
          /\ deadlock_victims \ {t} \subseteq deadlock_victims'
      BY <2>3 DEF ThrowAsVictim, Claim, ReEnter, ThrowOnCycle, Timeout, releaseAll, Return
    <3> QED BY <2>0, <3>1, DroppingAnEdge
  <2>4. CASE UNCHANGED <<waits_for, deadlock_victims>>
    BY <2>4 DEF RecordedCyclesAreBroken
  <2> QED BY <2>1, <2>2, <2>3, <2>4 DEF Next, acquireExclusive, vars, Call, SleepOn
<1> QED BY <1>1, <1>2, LockManagerInvariant, PTL DEF Spec

-----------------------------------------------------------------------------
(* A cycle the walk finds is a cycle of real waits: adding the ended        *)
(* transactions to a set closed under real blocking closes it under the     *)
(* recorded edges, and the caller is not one of those added.                *)
LEMMA WalkFindsRealCycles ==
  ASSUME Inv, NEW t \in Txns, HeldByOther(t), wouldCycleLocked(t, holder_of[want[t]])
  PROVE  OnRealCycle(t)
<1> DEFINE h == holder_of[want[t]]
<1> SUFFICES ASSUME NEW S \in SUBSET Txns, h \in S, ClosedUnderBlocking(S)
             PROVE  t \in S
  BY DEF OnRealCycle
<1>1. ClosedUnderWaits(S \cup Ended)
  <2> SUFFICES ASSUME NEW x \in (S \cup Ended) \cap Txns, waits_for[x] # NoTxn,
                      waits_for[x] \notin Ended
               PROVE  waits_for[x] \in S
    BY DEF ClosedUnderWaits
  <2>1. x \in Waiting /\ x \in S
    BY DEF Inv, LiveEdgesAreCurrent, Waiting, Ended
  <2>2. waits_for[x] \in Txns \ Ended BY DEF Inv, TypeOK
  <2>3. holder_of[want[x]] = waits_for[x]
    BY <2>2 DEF Inv, LiveEdgesAreCurrent
  <2> QED BY <2>1, <2>3 DEF ClosedUnderBlocking
<1>2. S \cup Ended \in SUBSET Txns BY DEF Ended
<1>3. t \in S \cup Ended BY <1>1, <1>2 DEF wouldCycleLocked
<1>4. t \notin Ended BY DEF HeldByOther, Ended
<1> QED BY <1>3, <1>4

(* acquireExclusive never reports, or marks a victim for, a deadlock that  *)
(* is not there.                                                           *)
THEOREM DetectionSound == Spec => DetectionIsSound
<1> DEFINE Alarm(t) ==
      /\ pc[t] = "entering"
      /\ \/ result'[t] = "DeadlockError"
         \/ pc'[t] = "waiting" /\ deadlock_victims' # deadlock_victims
<1>1. Inv /\ [Next]_vars => [\A t \in Txns : Alarm(t) => OnRealCycle(t)]_vars
  <2> SUFFICES ASSUME Inv, Next, NEW t \in Txns, Alarm(t) PROVE OnRealCycle(t)
    OBVIOUS
  <2>1. PICK u \in Txns :
          \/ \E r \in Rids : Call(u, r)
          \/ acquireExclusive(u) \/ SleepOn(u) \/ Timeout(u) \/ releaseAll(u)
    BY DEF Next
  <2>2. t \notin deadlock_victims
    BY DEF Inv, VictimsAreAsleep, Waiting
  <2>3. ASSUME ThrowOnCycle(u) \/ BlockAfterMarking(u) PROVE OnRealCycle(t)
    <3>1. OnRealCycle(u)
      BY <2>3, WalkFindsRealCycles DEF ThrowOnCycle, BlockAfterMarking
    <3>2. u = t
      BY <2>3 DEF ThrowOnCycle, BlockAfterMarking, Return, Sleep, Inv, TypeOK, CallArgs
    <3> QED BY <3>1, <3>2
  <2> QED
    BY <2>1, <2>2, <2>3
    DEF acquireExclusive, Call, ThrowAsVictim, Claim, ReEnter, Block, SleepOn, Timeout,
        releaseAll, Return, Sleep, Inv, TypeOK, CallArgs
<1> QED BY <1>1, LockManagerInvariant, PTL DEF Spec, DetectionIsSound

(* max(txn, holder) is never the oldest transaction there is. *)
THEOREM OldestAlwaysSurvives == Spec => []OldestSurvives
<1>1. Init => OldestSurvives
  BY DEF Init, OldestSurvives
<1>2. Inv /\ OldestSurvives /\ [Next]_vars => OldestSurvives'
  <2> SUFFICES ASSUME Inv, OldestSurvives, [Next]_vars, NEW t \in Txns,
                      t \in deadlock_victims' \/ result'[t] = "DeadlockError"
               PROVE  \E u \in Txns : u < t
    BY DEF OldestSurvives
  <2>1. CASE t \in deadlock_victims \/ result[t] = "DeadlockError"
    BY <2>1 DEF OldestSurvives
  <2>2. CASE t \notin deadlock_victims /\ result[t] # "DeadlockError"
    <3>1. ~UNCHANGED vars BY <2>2 DEF vars
    <3>2. PICK u \in Txns :
            \/ \E r \in Rids : Call(u, r)
            \/ acquireExclusive(u) \/ SleepOn(u) \/ Timeout(u) \/ releaseAll(u)
      BY <3>1 DEF Next
    <3>3. ~\E r \in Rids : Call(u, r)
      BY <2>2 DEF Call, Inv, TypeOK
    <3>4. ~SleepOn(u) /\ ~Timeout(u) /\ ~releaseAll(u)
      BY <2>2 DEF SleepOn, Timeout, releaseAll, Return, Inv, TypeOK
    <3>5. ~ThrowAsVictim(u) /\ ~Claim(u) /\ ~ReEnter(u) /\ ~Block(u)
      BY <2>2 DEF ThrowAsVictim, Claim, ReEnter, Block, Return, Sleep, Inv, TypeOK
    <3>6. \/ t = u /\ ThrowOnCycle(u)
          \/ t = holder_of[want[u]] /\ BlockAfterMarking(u)
      <4>1. ThrowOnCycle(u) \/ BlockAfterMarking(u)
        BY <3>2, <3>3, <3>4, <3>5 DEF acquireExclusive
      <4> QED BY <2>2, <4>1 DEF ThrowOnCycle, BlockAfterMarking, Return, Sleep, Inv, TypeOK
    <3>7. want[u] \in Rids /\ holder_of[want[u]] \in Txns
      BY <3>6 DEF ThrowOnCycle, BlockAfterMarking, HeldByOther, Inv, CallArgs, TypeOK
    <3> QED BY <3>6, <3>7 DEF ThrowOnCycle, BlockAfterMarking
  <2> QED BY <2>1, <2>2
<1> QED BY <1>1, <1>2, LockManagerInvariant, PTL DEF Spec

-----------------------------------------------------------------------------
(* LockManager implements LockTable: Claim is Acquire, releaseAll is        *)
(* ReleaseAll, and sleeping, waking, marking and throwing change nothing    *)
(* a caller of the lock table could see.                                    *)
THEOREM ImplementsLockTable == Spec => LockTableSpec
<1>1. Init => Locks!Init
  BY DEF Init, Locks!Init, Locks!NoTxn, Ended
<1>2. Inv /\ [Next]_vars => [Locks!Next]_(Locks!vars)
  <2> SUFFICES ASSUME Inv, [Next]_vars PROVE [Locks!Next]_(Locks!vars)
    OBVIOUS
  <2>1. ASSUME NEW t \in Txns, Claim(t) PROVE Locks!Next
    <3>1. want[t] \in Rids /\ t \notin Ended /\ Ended' = Ended
      BY <2>1 DEF Claim, InLoop, Return, Inv, CallArgs, TypeOK, Ended
    <3>2. Locks!Acquire(t, want[t])
      BY <2>1, <3>1 DEF Claim, Locks!Acquire, Locks!NoTxn
    <3> QED BY <3>1, <3>2 DEF Locks!Next
  <2>2. ASSUME NEW t \in Txns, releaseAll(t) PROVE Locks!Next
    <3>1. t \notin Ended /\ Ended' = Ended \cup {t}
      BY <2>2 DEF releaseAll, Inv, TypeOK, Ended
    <3>2. holder_of' = [r \in Rids |-> IF holder_of[r] = t THEN NoTxn ELSE holder_of[r]]
      BY <2>2 DEF releaseAll, Inv, LocksAgree
    <3> QED BY <3>1, <3>2 DEF Locks!ReleaseAll, Locks!Next, Locks!NoTxn
  <2>3. ASSUME NEW t \in Txns,
               \/ \E r \in Rids : Call(t, r)
               \/ ThrowAsVictim(t) \/ ReEnter(t) \/ Block(t) \/ ThrowOnCycle(t)
               \/ BlockAfterMarking(t) \/ SleepOn(t) \/ Timeout(t)
        PROVE UNCHANGED <<holder_of, Ended>>
    <3>1. pc \in [Txns -> {"running", "entering", "waiting", "ended"}] BY DEF Inv, TypeOK
    <3>2. holder_of' = holder_of
      BY <2>3 DEF Call, ThrowAsVictim, ReEnter, Block, ThrowOnCycle, BlockAfterMarking, SleepOn,
         Timeout, Sleep
    <3>3. /\ pc[t] \in {"running", "entering", "waiting"}
          /\ \/ pc' = pc
             \/ pc' = [pc EXCEPT ![t] = "entering"]
             \/ pc' = [pc EXCEPT ![t] = "waiting"]
             \/ pc' = [pc EXCEPT ![t] = "running"]
      BY <2>3 DEF Call, ThrowAsVictim, ReEnter, Block, ThrowOnCycle, BlockAfterMarking, SleepOn,
         Timeout, Return, Sleep, InLoop, HeldByOther
    <3>4. \A u \in Txns : pc'[u] = "ended" <=> pc[u] = "ended" BY <3>1, <3>3
    <3> QED BY <3>2, <3>4 DEF Ended
  <2>4. CASE UNCHANGED vars
    BY <2>4 DEF vars, Locks!vars, Ended
  <2> QED BY <2>1, <2>2, <2>3, <2>4 DEF Next, acquireExclusive, Locks!vars
<1> QED BY <1>1, <1>2, LockManagerInvariant, PTL DEF Spec, LockTableSpec, Locks!Spec
-----------------------------------------------------------------------------
(* The loop of wouldCycleLocked.  It is a recursive function, defined by the *)
(* equation it satisfies; Chain is what it computes.  Chain satisfies the    *)
(* equation, so there is a solution, and a solution that differs from it     *)
(* would differ at a smallest number of transactions not yet visited.        *)

(* A non-empty set of naturals has a least element. *)
LEMMA LeastNat ==
  ASSUME NEW T, T \subseteq Nat, T # {}
  PROVE  \E x \in T : \A y \in T : x <= y
<1> DEFINE R == OpToRel(<, Nat)
<1>1. \E x \in T : \A y \in T : ~(<<y, x>> \in R)
  <2> HIDE DEF R
  <2> QED BY WFMin, NatLessThanWellFounded DEF R
<1>2. PICK x \in T : \A y \in T : ~(<<y, x>> \in R) BY <1>1
<1>3. \A y \in T : ~(y < x) BY <1>2, Zenon DEF OpToRel
<1> QED BY <1>3

(* One round of the loop, with f for the rest of it. *)
Walk(f, a) ==
  [visited \in SUBSET Txns |->
     [cur \in Txns |->
        CASE cur = a -> TRUE
          [] cur # a /\ (cur \in visited \/ waits_for[cur] = NoTxn) -> FALSE
          [] OTHER -> f[visited \cup {cur}][waits_for[cur]]]]

(* S holds the chain from each member on, as far as the walk follows it: up  *)
(* to a, to a transaction visited before, or to one that does not wait.      *)
HoldsChains(S, a, visited) ==
  \A x \in S : x # a /\ x \notin visited /\ waits_for[x] # NoTxn => waits_for[x] \in S

OnChain(a, visited, b) ==
  \A S \in SUBSET Txns : b \in S /\ HoldsChains(S, a, visited) => a \in S

Chain(a) == [visited \in SUBSET Txns |-> [b \in Txns |-> OnChain(a, visited, b)]]

(* OnChain, one round of the loop at a time. *)
LEMMA ChainStep ==
  ASSUME TypeOK, NEW a \in Txns, NEW v \in SUBSET Txns, NEW b \in Txns
  PROVE  /\ b = a => OnChain(a, v, b)
         /\ b # a /\ (b \in v \/ waits_for[b] = NoTxn) => ~OnChain(a, v, b)
         /\ b # a /\ b \notin v /\ waits_for[b] # NoTxn =>
              (OnChain(a, v, b) <=> OnChain(a, v \cup {b}, waits_for[b]))
<1>1. b = a => OnChain(a, v, b) BY DEF OnChain
<1>2. ASSUME b # a, b \in v \/ waits_for[b] = NoTxn, OnChain(a, v, b) PROVE FALSE
  <2>1. HoldsChains({b}, a, v) BY <1>2 DEF HoldsChains
  <2> QED BY <1>2, <2>1 DEF OnChain
<1>3. ASSUME b # a, b \notin v, waits_for[b] # NoTxn
      PROVE  OnChain(a, v, b) <=> OnChain(a, v \cup {b}, waits_for[b])
  <2>0. waits_for[b] \in Txns BY <1>3 DEF TypeOK
  <2>1. ASSUME OnChain(a, v, b) PROVE OnChain(a, v \cup {b}, waits_for[b])
    <3> SUFFICES ASSUME NEW S \in SUBSET Txns, waits_for[b] \in S, HoldsChains(S, a, v \cup {b})
                 PROVE  a \in S
      BY DEF OnChain
    <3>1. HoldsChains(S \cup {b}, a, v) BY DEF HoldsChains
    <3>2. a \in S \cup {b} BY <3>1, <2>1 DEF OnChain
    <3> QED BY <3>2, <1>3
  <2>2. ASSUME OnChain(a, v \cup {b}, waits_for[b]) PROVE OnChain(a, v, b)
    <3> SUFFICES ASSUME NEW S \in SUBSET Txns, b \in S, HoldsChains(S, a, v)
                 PROVE  a \in S
      BY DEF OnChain
    <3>1. waits_for[b] \in S /\ HoldsChains(S, a, v \cup {b}) BY <1>3 DEF HoldsChains
    <3> QED BY <3>1, <2>2 DEF OnChain
  <2> QED BY <2>1, <2>2
<1> QED BY <1>1, <1>2, <1>3

(* Chain solves the equation of the loop. *)
LEMMA WalkExists ==
  ASSUME TypeOK, NEW a \in Txns
  PROVE  Chain(a) = Walk(Chain(a), a)
<1> DEFINE W(v) == [cur \in Txns |->
                      CASE cur = a -> TRUE
                        [] cur # a /\ (cur \in v \/ waits_for[cur] = NoTxn) -> FALSE
                        [] OTHER -> Chain(a)[v \cup {cur}][waits_for[cur]]]
           C(v) == [b \in Txns |-> OnChain(a, v, b)]
<1>1. ASSUME NEW v \in SUBSET Txns, NEW b \in Txns PROVE C(v)[b] = W(v)[b]
  <2>1. C(v)[b] = OnChain(a, v, b) BY DEF C
  <2>2. CASE b = a
    <3>1. W(v)[b] = TRUE BY <2>2
    <3>2. OnChain(a, v, b) = TRUE BY <2>2 DEF OnChain
    <3> QED BY <2>1, <3>1, <3>2
  <2>3. CASE b # a /\ (b \in v \/ waits_for[b] = NoTxn)
    <3>1. W(v)[b] = FALSE BY <2>3
    <3>2. ~OnChain(a, v, b) BY <2>3, ChainStep
    <3>3. OnChain(a, v, b) = FALSE BY <3>2 DEF OnChain
    <3> QED BY <2>1, <3>1, <3>3
  <2>4. CASE b # a /\ b \notin v /\ waits_for[b] # NoTxn
    <3>1. waits_for[b] \in Txns /\ v \cup {b} \in SUBSET Txns BY <2>4 DEF TypeOK
    <3>2. W(v)[b] = Chain(a)[v \cup {b}][waits_for[b]] BY <2>4
    <3>3. Chain(a)[v \cup {b}][waits_for[b]] = OnChain(a, v \cup {b}, waits_for[b])
      BY <3>1 DEF Chain
    <3>4. OnChain(a, v, b) <=> OnChain(a, v \cup {b}, waits_for[b]) BY <2>4, ChainStep
    <3>5. OnChain(a, v, b) = OnChain(a, v \cup {b}, waits_for[b]) BY <3>4, Zenon DEF OnChain
    <3> QED BY <2>1, <3>2, <3>3, <3>5
  <2> QED BY <2>2, <2>3, <2>4
<1>2. ASSUME NEW v \in SUBSET Txns PROVE C(v) = W(v)
  <2> HIDE DEF OnChain
  <2>1. \A b \in Txns : C(v)[b] = W(v)[b] BY <1>1
  <2> QED BY <2>1, Zenon
<1>3. [v \in SUBSET Txns |-> C(v)] = [v \in SUBSET Txns |-> W(v)]
  <2> HIDE DEF C, W
  <2> QED BY <1>2, Zenon
<1> QED BY <1>3, Zenon DEF Chain, Walk

(* Nothing else does. *)
LEMMA WalkUnique ==
  ASSUME TypeOK, IsFiniteSet(Txns), NEW a \in Txns, NEW f, f = Walk(f, a)
  PROVE  f = Chain(a)
<1> DEFINE Left(v) == Cardinality(Txns \ v)
           Wrong == {n \in Nat : \E v \in SUBSET Txns :
                       n = Left(v) /\ \E b \in Txns : f[v][b] # Chain(a)[v][b]}
<1>1. \A v \in SUBSET Txns : Left(v) \in Nat
  BY FS_Subset, FS_CardinalityType
<1>2. ASSUME Wrong # {} PROVE FALSE
  <2>1. PICK n \in Wrong : \A m \in Wrong : n <= m BY <1>2, LeastNat
  <2>2. PICK v \in SUBSET Txns : n = Left(v) /\ \E b \in Txns : f[v][b] # Chain(a)[v][b] BY <2>1
  <2>3. PICK b \in Txns : f[v][b] # Chain(a)[v][b] BY <2>2
  <2>4. f[v][b] = Walk(f, a)[v][b] /\ Chain(a)[v][b] = Walk(Chain(a), a)[v][b]
    BY WalkExists
  <2>5. b # a /\ b \notin v /\ waits_for[b] # NoTxn
        /\ f[v \cup {b}][waits_for[b]] # Chain(a)[v \cup {b}][waits_for[b]]
    BY <2>3, <2>4 DEF Walk
  <2>6. v \cup {b} \in SUBSET Txns /\ waits_for[b] \in Txns BY <2>5 DEF TypeOK
  <2>7. Left(v \cup {b}) = Left(v) - 1
    <3>1. IsFiniteSet(Txns \ v) BY FS_Subset
    <3>2. Txns \ (v \cup {b}) = (Txns \ v) \ {b} /\ b \in Txns \ v BY <2>5
    <3>3. Cardinality((Txns \ v) \ {b}) = Cardinality(Txns \ v) - 1 BY <3>1, <3>2, FS_RemoveElement
    <3> QED BY <3>2, <3>3
  <2>8. Left(v \cup {b}) \in Wrong BY <1>1, <2>5, <2>6
  <2>9. n <= Left(v \cup {b}) BY <2>1, <2>8
  <2>10. Left(v) \in Nat BY <1>1
  <2> HIDE DEF Left
  <2> QED BY <2>2, <2>7, <2>9, <2>10
<1>3. \A v \in SUBSET Txns, b \in Txns : f[v][b] = Chain(a)[v][b]
  BY <1>1, <1>2
<1> QED BY <1>3 DEF Walk, Chain

(* The chain walk of wouldCycleLocked, whatever the graph it is run on, says *)
(* yes exactly when the caller is reachable, and its visited set never cuts  *)
(* a search short.                                                           *)
THEOREM WalkComputesReachability ==
  ASSUME IsFiniteSet(Txns) PROVE Spec => []WalkIsReachability
<1>1. ASSUME TypeOK PROVE WalkIsReachability
  <2> USE <1>1
  <2> SUFFICES ASSUME NEW t \in Txns, NEW u \in Txns
               PROVE  chainWalk(t, u) = wouldCycleLocked(t, u)
    BY DEF WalkIsReachability
  <2> DEFINE w == CHOOSE f : f = Walk(f, t)
  <2>1. chainWalk(t, u) = w[{}][u] BY DEF chainWalk, Walk
  <2>2. w = Walk(w, t)
    <3>1. \E f : f = Walk(f, t) BY WalkExists
    <3> QED BY <3>1
  <2>3. w = Chain(t)
    <3> HIDE DEF w
    <3> QED BY <2>2, WalkUnique
  <2>4. w[{}][u] = OnChain(t, {}, u)
    <3>1. Chain(t)[{}][u] = OnChain(t, {}, u) BY DEF Chain
    <3> QED BY <2>3, <3>1
  <2>5. OnChain(t, {}, u) <=> wouldCycleLocked(t, u)
    <3>1. ASSUME NEW S \in SUBSET Txns, t \notin S
          PROVE  HoldsChains(S, t, {}) <=> ClosedUnderWaits(S)
      BY <3>1 DEF HoldsChains, ClosedUnderWaits
    <3> QED BY <3>1 DEF OnChain, wouldCycleLocked
  <2>6. OnChain(t, {}, u) \in BOOLEAN /\ wouldCycleLocked(t, u) \in BOOLEAN
    BY DEF OnChain, wouldCycleLocked
  <2> QED BY <2>1, <2>4, <2>5, <2>6
<1> QED BY <1>1, TypeCorrect, PTL

-----------------------------------------------------------------------------
(* What detection misses.                                                    *)

(* A circle of transactions that really wait for one another and hold no    *)
(* marked victim.                                                            *)
Undetected(S) ==
  /\ S \in SUBSET Waiting /\ S # {}
  /\ \A t \in S : holder_of[want[t]] \in S
  /\ S \cap deadlock_victims = {}

(* A deadlock goes undetected only behind an edge that was not refreshed     *)
(* when the transaction it names ended and another took the row.             *)
MissedOnlyBehindStaleEdge ==
  \A S \in SUBSET Txns : Undetected(S) => \E t \in S : waits_for[t] \in Ended

(* The wait loop of acquireExclusive misses a deadlock in one way only: a    *)
(* sleeper keeps the edge to a holder that has ended.                        *)
THEOREM OnlyStaleEdgesHideDeadlocks == Spec => []MissedOnlyBehindStaleEdge
<1>1. Inv /\ RecordedCyclesAreBroken => MissedOnlyBehindStaleEdge
  <2> SUFFICES ASSUME Inv, RecordedCyclesAreBroken, NEW S \in SUBSET Txns, Undetected(S),
                      \A t \in S : waits_for[t] \notin Ended
               PROVE  FALSE
    BY DEF MissedOnlyBehindStaleEdge
  <2>1. ASSUME NEW t \in S PROVE waits_for[t] \in S
    <3>1. waits_for[t] \in Txns \ Ended
      BY DEF Undetected, Waiting, Inv, TypeOK, LiveEdgesAreCurrent
    <3> QED BY <3>1 DEF Undetected, Inv, LiveEdgesAreCurrent
  <2> QED BY <2>1 DEF Undetected, RecordedCyclesAreBroken
<1> QED BY <1>1, LockManagerInvariant, CyclesAlwaysBroken, PTL

(* A sleeper never holds the row it sleeps for. *)
BlockedByAnother == \A t \in Waiting : holder_of[want[t]] # t

LEMMA AlwaysBlockedByAnother == Spec => []BlockedByAnother
<1>1. Init => BlockedByAnother BY DEF Init, BlockedByAnother, Waiting
<1>2. Inv /\ BlockedByAnother /\ [Next]_vars => BlockedByAnother'
  <2> SUFFICES ASSUME Inv, BlockedByAnother, [Next]_vars, NEW t \in Waiting'
               PROVE  holder_of'[want'[t]] # t
    BY DEF BlockedByAnother
  <2> USE DEF Inv, TypeOK, CallArgs, BlockedByAnother, Waiting
  <2>1. ASSUME NEW u \in Txns, \/ \E r \in Rids : Call(u, r)
                               \/ ThrowAsVictim(u) \/ ReEnter(u) \/ ThrowOnCycle(u)
                               \/ Timeout(u) \/ SleepOn(u)
        PROVE  holder_of'[want'[t]] # t
    BY <2>1 DEF Call, ThrowAsVictim, ReEnter, ThrowOnCycle, Timeout, SleepOn, Return
  <2>2. ASSUME NEW u \in Txns, Block(u) \/ BlockAfterMarking(u)
        PROVE  holder_of'[want'[t]] # t
    BY <2>2 DEF Block, BlockAfterMarking, HeldByOther, Sleep
  <2>3. ASSUME NEW u \in Txns, Claim(u)
        PROVE  holder_of'[want'[t]] # t
    BY <2>3 DEF Claim, Return, InLoop
  <2>4. ASSUME NEW u \in Txns, releaseAll(u)
        PROVE  holder_of'[want'[t]] # t
    BY <2>4 DEF releaseAll
  <2>5. CASE UNCHANGED vars BY <2>5 DEF vars
  <2> QED BY <2>1, <2>2, <2>3, <2>4, <2>5 DEF Next, acquireExclusive
<1> QED BY <1>1, <1>2, LockManagerInvariant, PTL DEF Spec

(* Between two transactions every deadlock is detected: the third one whose *)
(* end leaves the stale edge is missing.                                     *)
THEOREM TwoAreAlwaysDetected ==
  ASSUME NEW a, NEW b, Txns \subseteq {a, b}
  PROVE  Spec => []NoUndetectedDeadlock
<1>1. Inv /\ BlockedByAnother /\ MissedOnlyBehindStaleEdge => NoUndetectedDeadlock
  <2> SUFFICES ASSUME Inv, BlockedByAnother, MissedOnlyBehindStaleEdge,
                      NEW S \in SUBSET Waiting, Undetected(S)
               PROVE  FALSE
    BY DEF NoUndetectedDeadlock, Undetected
  <2>1. PICK t \in S : waits_for[t] \in Ended
    BY DEF MissedOnlyBehindStaleEdge, Waiting
  <2>2. holder_of[want[t]] \in S /\ holder_of[want[t]] # t
    BY DEF Undetected, BlockedByAnother
  <2>3. waits_for[t] \notin Waiting BY <2>1 DEF Ended, Waiting
  <2>4. t \in Txns /\ holder_of[want[t]] \in Txns /\ waits_for[t] \in Txns
    BY <2>1, <2>2 DEF Waiting, Ended
  <2> QED BY <2>2, <2>3, <2>4
<1> QED BY <1>1, LockManagerInvariant, AlwaysBlockedByAnother, OnlyStaleEdgesHideDeadlocks, PTL

=============================================================================
