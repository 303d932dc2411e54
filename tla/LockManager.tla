---------------------------- MODULE LockManager -----------------------------
(***************************************************************************)
(* LockManager (include/db_engine/lockmanager.hpp, src/lockmanager.cpp):   *)
(* exclusive row locks with a waits-for graph, deadlock victims and a      *)
(* timeout.  Every stretch of code that runs under the mutex mu is one     *)
(* action; the cv.wait_for inside acquireExclusive is where other          *)
(* transactions' calls interleave.  A transaction is driven by one thread. *)
(***************************************************************************)
EXTENDS Naturals, FiniteSets

CONSTANTS Txns,   \* transaction ids; allocated in increasing order, never 0
          Rids    \* row ids

ASSUME TxnsAssumption == Txns \subseteq Nat \ {0}

NoTxn == 0
NoRid == "no rid"

ASSUME RidsAssumption == NoRid \notin Rids

VARIABLES holder_of,         \* rid -> holding transaction, or NoTxn
          held_by,           \* transaction -> the rids it holds
          waits_for,         \* transaction -> the one it waits on, or NoTxn
          deadlock_victims,  \* transactions woken to throw DeadlockError
          pc,                \* where each transaction's thread is
          want,              \* the rid argument of its acquireExclusive call
          notified,          \* sleepers a notify_all has reached
          result             \* how its latest acquireExclusive call ended

vars == <<holder_of, held_by, waits_for, deadlock_victims, pc, want, notified, result>>

-----------------------------------------------------------------------------
TypeOK ==
  /\ holder_of \in [Rids -> Txns \cup {NoTxn}]
  /\ held_by \in [Txns -> SUBSET Rids]
  /\ waits_for \in [Txns -> Txns \cup {NoTxn}]
  /\ deadlock_victims \subseteq Txns
  /\ pc \in [Txns -> {"running", "entering", "waiting", "ended"}]
  /\ want \in [Txns -> Rids \cup {NoRid}]
  /\ notified \subseteq Txns
  /\ result \in [Txns -> {"none", "granted", "DeadlockError", "LockTimeoutError"}]

Init ==
  /\ holder_of = [r \in Rids |-> NoTxn]
  /\ held_by = [t \in Txns |-> {}]
  /\ waits_for = [t \in Txns |-> NoTxn]
  /\ deadlock_victims = {}
  /\ pc = [t \in Txns |-> "running"]
  /\ want = [t \in Txns |-> NoRid]
  /\ notified = {}
  /\ result = [t \in Txns |-> "none"]

Waiting == {t \in Txns : pc[t] = "waiting"}
Ended == {t \in Txns : pc[t] = "ended"}

(* A set of transactions that following waits_for never leaves. *)
ClosedUnderWaits(S) == \A x \in S \cap Txns : waits_for[x] # NoTxn => waits_for[x] \in S

(* Mutants: only a direct edge back counts as a cycle; the edge is looked *)
(* up in the wrong direction.                                             *)
DirectCycleOnly(from_txn, to_txn) == to_txn = from_txn \/ waits_for[to_txn] = from_txn
WalkFromTheCaller(from_txn, to_txn) == waits_for[from_txn] = to_txn

(* The chain walk of wouldCycleLocked says yes exactly when from_txn is on  *)
(* the chain that starts at to_txn, that is, in every set that holds to_txn *)
(* and is closed under waits_for.  WalkIsReachability compares the two.     *)
wouldCycleLocked(from_txn, to_txn) ==
  \A S \in SUBSET Txns : to_txn \in S /\ ClosedUnderWaits(S) => from_txn \in S

(* Mutant: the walk gives up after one hop. *)
OneHopWalk(from_txn, to_txn) == from_txn \in {to_txn, waits_for[to_txn]}

(* The same function as the loop of the code runs it. *)
chainWalk(from_txn, to_txn) ==
  LET walk[visited \in SUBSET Txns] ==
        [cur \in Txns |->
           CASE cur = from_txn -> TRUE
             [] cur # from_txn /\ (cur \in visited \/ waits_for[cur] = NoTxn) -> FALSE
             [] OTHER -> walk[visited \cup {cur}][waits_for[cur]]]
  IN walk[{}][to_txn]

(* The wait's predicate. *)
MayWake(t) == t \in deadlock_victims \/ holder_of[want[t]] \in {NoTxn, t}

(* Mutant: leaving the wait keeps the waits_for edge. *)
ReturnKeepingEdge(t, how) ==
  /\ pc' = [pc EXCEPT ![t] = "running"]
  /\ want' = [want EXCEPT ![t] = NoRid]
  /\ notified' = notified \ {t}
  /\ result' = [result EXCEPT ![t] = how]
  /\ UNCHANGED waits_for

Return(t, how) ==
  /\ pc' = [pc EXCEPT ![t] = "running"]
  /\ want' = [want EXCEPT ![t] = NoRid]
  /\ waits_for' = [waits_for EXCEPT ![t] = NoTxn]
  /\ notified' = notified \ {t}
  /\ result' = [result EXCEPT ![t] = how]

Sleep(t) ==
  /\ pc' = [pc EXCEPT ![t] = "waiting"]
  /\ waits_for' = [waits_for EXCEPT ![t] = holder_of[want[t]]]
  /\ UNCHANGED <<holder_of, held_by, want, result>>

-----------------------------------------------------------------------------
(* A transaction's thread calls acquireExclusive(r, t) and queues for mu. *)
Call(t, r) ==
  /\ pc[t] = "running"
  /\ pc' = [pc EXCEPT ![t] = "entering"]
  /\ want' = [want EXCEPT ![t] = r]
  /\ result' = [result EXCEPT ![t] = "none"]
  /\ UNCHANGED <<holder_of, held_by, waits_for, deadlock_victims, notified>>

InLoop(t) == pc[t] = "entering" \/ (pc[t] = "waiting" /\ MayWake(t))

(* Mutant: the victim throws without clearing its mark. *)
ThrowKeepingMark(t) ==
  /\ InLoop(t)
  /\ t \in deadlock_victims
  /\ Return(t, "DeadlockError")
  /\ UNCHANGED <<holder_of, held_by, deadlock_victims>>

(* Top of the loop: this transaction was chosen as a victim. *)
ThrowAsVictim(t) ==
  /\ InLoop(t)
  /\ t \in deadlock_victims
  /\ deadlock_victims' = deadlock_victims \ {t}
  /\ Return(t, "DeadlockError")
  /\ UNCHANGED <<holder_of, held_by>>

(* Mutants: held_by is not told; whoever wakes first takes the row. *)
ClaimUnrecorded(t) ==
  /\ InLoop(t)
  /\ t \notin deadlock_victims
  /\ holder_of[want[t]] = NoTxn
  /\ holder_of' = [holder_of EXCEPT ![want[t]] = t]
  /\ Return(t, "granted")
  /\ UNCHANGED <<held_by, deadlock_victims>>
ClaimAnyway(t) ==
  /\ InLoop(t)
  /\ t \notin deadlock_victims
  /\ holder_of' = [holder_of EXCEPT ![want[t]] = t]
  /\ held_by' = [held_by EXCEPT ![t] = @ \cup {want[t]}]
  /\ Return(t, "granted")
  /\ UNCHANGED deadlock_victims

(* The row is free: take it. *)
Claim(t) ==
  /\ InLoop(t)
  /\ t \notin deadlock_victims
  /\ holder_of[want[t]] = NoTxn
  /\ holder_of' = [holder_of EXCEPT ![want[t]] = t]
  /\ held_by' = [held_by EXCEPT ![t] = @ \cup {want[t]}]
  /\ Return(t, "granted")
  /\ UNCHANGED deadlock_victims

(* The row is already this transaction's. *)
ReEnter(t) ==
  /\ InLoop(t)
  /\ t \notin deadlock_victims
  /\ holder_of[want[t]] = t
  /\ Return(t, "granted")
  /\ UNCHANGED <<holder_of, held_by, deadlock_victims>>

HeldByOther(t) ==
  /\ pc[t] = "entering"
  /\ t \notin deadlock_victims
  /\ holder_of[want[t]] \notin {NoTxn, t}

(* No cycle: record the edge and sleep. *)
Block(t) ==
  /\ HeldByOther(t)
  /\ ~wouldCycleLocked(t, holder_of[want[t]])
  /\ Sleep(t)
  /\ notified' = notified \ {t}
  /\ UNCHANGED deadlock_victims

(* A cycle, and this transaction is the younger end: throw at once. *)
ThrowOnCycle(t) ==
  /\ HeldByOther(t)
  /\ wouldCycleLocked(t, holder_of[want[t]])
  /\ holder_of[want[t]] < t
  /\ Return(t, "DeadlockError")
  /\ UNCHANGED <<holder_of, held_by, deadlock_victims>>

(* A cycle, and the holder is the younger end: mark it, wake everyone, *)
(* and sleep behind it.                                                *)
BlockAfterMarking(t) ==
  /\ HeldByOther(t)
  /\ wouldCycleLocked(t, holder_of[want[t]])
  /\ t < holder_of[want[t]]
  /\ deadlock_victims' = deadlock_victims \cup {holder_of[want[t]]}
  /\ notified' = Waiting
  /\ Sleep(t)

(* A notified sleeper finds its predicate false and sleeps on.  The edge *)
(* it recorded when it went to sleep stays as it was.                    *)
SleepOn(t) ==
  /\ pc[t] = "waiting"
  /\ t \in notified
  /\ ~MayWake(t)
  /\ notified' = notified \ {t}
  /\ UNCHANGED <<holder_of, held_by, waits_for, deadlock_victims, pc, want, result>>

(* The deadline passes with the predicate still false. *)
Timeout(t) ==
  /\ pc[t] = "waiting"
  /\ ~MayWake(t)
  /\ Return(t, "LockTimeoutError")
  /\ UNCHANGED <<holder_of, held_by, deadlock_victims>>

(* Mutant: the rows are released and nobody is told. *)
releaseAllSilently(t) ==
  /\ pc[t] = "running"
  /\ holder_of' = [r \in Rids |-> IF r \in held_by[t] THEN NoTxn ELSE holder_of[r]]
  /\ held_by' = [held_by EXCEPT ![t] = {}]
  /\ waits_for' = [waits_for EXCEPT ![t] = NoTxn]
  /\ deadlock_victims' = deadlock_victims \ {t}
  /\ pc' = [pc EXCEPT ![t] = "ended"]
  /\ UNCHANGED <<want, result, notified>>

(* Commit or abort: everything the transaction holds is released. *)
releaseAll(t) ==
  /\ pc[t] = "running"
  /\ holder_of' = [r \in Rids |-> IF r \in held_by[t] THEN NoTxn ELSE holder_of[r]]
  /\ held_by' = [held_by EXCEPT ![t] = {}]
  /\ waits_for' = [waits_for EXCEPT ![t] = NoTxn]
  /\ deadlock_victims' = deadlock_victims \ {t}
  /\ notified' = Waiting
  /\ pc' = [pc EXCEPT ![t] = "ended"]
  /\ UNCHANGED <<want, result>>

acquireExclusive(t) ==
  \/ ThrowAsVictim(t)
  \/ Claim(t)
  \/ ReEnter(t)
  \/ Block(t)
  \/ ThrowOnCycle(t)
  \/ BlockAfterMarking(t)

Next ==
  \E t \in Txns :
    \/ \E r \in Rids : Call(t, r)
    \/ acquireExclusive(t)
    \/ SleepOn(t)
    \/ Timeout(t)
    \/ releaseAll(t)

Spec == Init /\ [][Next]_vars

(* Deadlines never pass, so only a notification is sure to wake a sleeper, *)
(* and every caller that has its answer ends its transaction, which is     *)
(* what AutoCommitGuard and a client that commits or rolls back do.        *)
Awake(t) == (pc[t] = "entering" \/ t \in notified) /\ acquireExclusive(t)

PatientNext ==
  \E t \in Txns :
    \/ \E r \in Rids : result[t] \in {"none", "granted"} /\ Call(t, r)
    \/ acquireExclusive(t)
    \/ SleepOn(t)
    \/ releaseAll(t)

PatientSpec ==
  /\ Init
  /\ [][PatientNext]_vars
  /\ \A t \in Txns : WF_vars(Awake(t)) /\ SF_vars(releaseAll(t))

-----------------------------------------------------------------------------
(* The two maps describe the same ownership, and a transaction that ended  *)
(* owns nothing: releaseAll, which only looks at held_by, frees every row. *)
LocksAgree ==
  /\ \A r \in Rids, t \in Txns : holder_of[r] = t <=> r \in held_by[t]
  /\ \A t \in Ended : held_by[t] = {}

(* A marked victim is asleep inside its own wait, as the comment in        *)
(* acquireExclusive claims, so no mark outlives the call it is meant for   *)
(* and no later, innocent call can pick it up.                             *)
VictimsAreAsleep == deadlock_victims \subseteq Waiting

(* No lost wakeup: a sleeper whose predicate has become true has been      *)
(* reached by a notify_all since it last evaluated it.                     *)
NoMissedWakeup == \A t \in Waiting : MayWake(t) => t \in notified

(* A recorded edge that points at a transaction still alive names the      *)
(* holder of the row the sleeper wants: edges only go stale by pointing at *)
(* transactions that have ended.                                           *)
LiveEdgesAreCurrent ==
  \A t \in Txns :
    /\ waits_for[t] # NoTxn <=> pc[t] = "waiting"
    /\ waits_for[t] \in Txns \ Ended => holder_of[want[t]] = waits_for[t]

(* Every cycle of the recorded graph is being broken: one of its members   *)
(* has been marked and will throw.                                         *)
RecordedCyclesAreBroken ==
  \A S \in SUBSET Txns :
    S # {} /\ (\A x \in S : waits_for[x] \in S) => S \cap deadlock_victims # {}

(* The oldest transaction is never the one sacrificed, so some transaction *)
(* always gets through.                                                    *)
OldestSurvives ==
  \A t \in Txns :
    t \in deadlock_victims \/ result[t] = "DeadlockError" => \E u \in Txns : u < t

(* The loop of wouldCycleLocked computes reachability in the graph. *)
WalkIsReachability ==
  \A t, u \in Txns : chainWalk(t, u) = wouldCycleLocked(t, u)

(* Who really blocks whom, whatever waits_for says. *)
ClosedUnderBlocking(S) ==
  \A x \in S \cap Waiting : holder_of[want[x]] # NoTxn => holder_of[want[x]] \in S

OnRealCycle(t) ==
  \A S \in SUBSET Txns : holder_of[want[t]] \in S /\ ClosedUnderBlocking(S) => t \in S

(* No false alarm: a call that throws DeadlockError or marks a victim has  *)
(* found a cycle of transactions each really waiting for the next one's    *)
(* row, however old the edges the walk followed.                           *)
DetectionIsSound ==
  [][\A t \in Txns :
       /\ pc[t] = "entering"
       /\ \/ result'[t] = "DeadlockError"
          \/ pc'[t] = "waiting" /\ deadlock_victims' # deadlock_victims
       => OnRealCycle(t)]_vars

(* Every deadlock is detected: transactions that wait for one another in a *)
(* circle always include a marked victim.  The class comment says the      *)
(* graph, not the timeout, is what detects deadlocks.                      *)
NoUndetectedDeadlock ==
  \A S \in SUBSET Waiting :
    S # {} /\ (\A t \in S : holder_of[want[t]] \in S) => S \cap deadlock_victims # {}

(* acquireExclusive always comes back: with the lock, or with an error. *)
CallsReturn == \A t \in Txns : pc[t] \in {"entering", "waiting"} ~> pc[t] = "running"

(* The row-lock layer keeps the promise of LockTable. *)
Locks == INSTANCE LockTable WITH owner <- holder_of, ended <- Ended
LockTableSpec == Locks!Spec
=============================================================================
