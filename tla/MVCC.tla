-------------------------------- MODULE MVCC --------------------------------
(***************************************************************************)
(* MVCCManager (include/db_engine/mvcc.hpp, src/mvcc.cpp): which           *)
(* transactions are in flight, the snapshot each one took when it began,   *)
(* and the rule that says which row versions a snapshot sees.  Every       *)
(* method runs under the mutex mu and is one action.                       *)
(***************************************************************************)
EXTENDS Naturals

CONSTANTS FirstTxn,   \* the first id this process hands out: the ids below
                      \* it are in the log of earlier processes
          LastTxn     \* bound: the last id handed out

ASSUME TxnIdsAssumption == FirstTxn \in Nat \ {0} /\ LastTxn \in Nat /\ FirstTxn <= LastTxn

NoTxn == 0
Txns == FirstTxn .. LastTxn
Ids == 0 .. LastTxn

VARIABLES next_txn_id,    \* TransactionManager's counter
          transactions,   \* id -> its state, "untracked" when the map has no entry
          snapshot        \* id -> the snapshot taken by begin

mvcc == <<next_txn_id, transactions, snapshot>>

Snapshots == [xmax : 0 .. LastTxn + 1, active_at_start : SUBSET Txns]
NoSnapshot == [xmax |-> 0, active_at_start |-> {}]

MVCCTypeOK ==
  /\ next_txn_id \in FirstTxn .. LastTxn + 1
  /\ transactions \in [Txns -> {"untracked", "ACTIVE", "ABORTED"}]
  /\ snapshot \in [Txns -> Snapshots]

MVCCInit ==
  /\ next_txn_id = FirstTxn
  /\ transactions = [t \in Txns |-> "untracked"]
  /\ snapshot = [t \in Txns |-> NoSnapshot]

Active == {t \in Txns : transactions[t] = "ACTIVE"}

(* An id without an entry counts as committed: it committed here, or in an *)
(* earlier process.                                                        *)
stateOfLocked(t) ==
  IF t \notin Txns \/ transactions[t] = "untracked" THEN "COMMITTED" ELSE transactions[t]

snapshotLocked == [xmax |-> next_txn_id, active_at_start |-> Active]

getSnapshot(t) == IF t = NoTxn THEN snapshotLocked ELSE snapshot[t]

(* Mutant: only xmax decides, transactions in flight are forgotten. *)
HappenedBeforeXmax(t, snap) == stateOfLocked(t) = "COMMITTED" /\ t < snap.xmax

(* The state of a transaction counts for a snapshot when it had committed *)
(* before the snapshot was taken.                                         *)
HappenedBefore(t, snap) ==
  /\ stateOfLocked(t) = "COMMITTED"
  /\ t < snap.xmax
  /\ t \notin snap.active_at_start

isVisible(create_txn_id, delete_txn_id, reader_txn_id, snap) ==
  /\ \/ reader_txn_id # NoTxn /\ create_txn_id = reader_txn_id
     \/ HappenedBefore(create_txn_id, snap)
  /\ \/ delete_txn_id = NoTxn
     \/ /\ ~(reader_txn_id # NoTxn /\ delete_txn_id = reader_txn_id)
        /\ ~HappenedBefore(delete_txn_id, snap)

(* Mutant: the snapshot does not record who is in flight. *)
beginForgettingActive ==
  /\ next_txn_id \in Txns
  /\ next_txn_id' = next_txn_id + 1
  /\ transactions' = [transactions EXCEPT ![next_txn_id] = "ACTIVE"]
  /\ snapshot' = [snapshot EXCEPT ![next_txn_id] = [xmax |-> next_txn_id + 1, active_at_start |-> {}]]

begin ==
  /\ next_txn_id \in Txns
  /\ next_txn_id' = next_txn_id + 1
  /\ transactions' = [transactions EXCEPT ![next_txn_id] = "ACTIVE"]
  /\ snapshot' = [snapshot EXCEPT ![next_txn_id] =
                    [xmax |-> next_txn_id + 1, active_at_start |-> Active]]

commit(t) ==
  /\ t \in Active
  /\ transactions' = [transactions EXCEPT ![t] = "untracked"]
  /\ UNCHANGED <<next_txn_id, snapshot>>

abort(t) ==
  /\ t \in Active
  /\ transactions' = [transactions EXCEPT ![t] = "ABORTED"]
  /\ UNCHANGED <<next_txn_id, snapshot>>

MVCCNext == begin \/ \E t \in Txns : commit(t) \/ abort(t)

MVCCSpec == MVCCInit /\ [][MVCCNext]_mvcc

-----------------------------------------------------------------------------
(* A snapshot that could have been taken by now: whoever is in flight was  *)
(* in flight then too, or has begun since.                                 *)
Taken(snap) ==
  /\ snap.xmax <= next_txn_id
  /\ \A t \in Active : t \in snap.active_at_start \/ snap.xmax <= t

(* Every snapshot the manager holds or would hand out accounts for every   *)
(* transaction in flight, the owner's own included as one it will never    *)
(* count as having happened before it.                                     *)
SnapshotsAccountForActive ==
  /\ Taken(snapshotLocked)
  /\ \A t \in Active :
       /\ \A u \in Active \ {t} : u \in snapshot[t].active_at_start \/ snapshot[t].xmax <= u
       /\ snapshot[t].xmax <= next_txn_id

(* A snapshot does not move (transaction.hpp: "it does not move as other   *)
(* transactions commit around it"): whatever any transaction does, every   *)
(* version, whoever stamped it, stays as visible or as invisible as it was *)
(* to the snapshot's owner, which is repeatable read, and what happened    *)
(* before an ad-hoc snapshot taken by now is settled.                      *)
VisibilityIsStable ==
  [][mvcc' # mvcc =>
       /\ \A t \in Active \cap Active' : \A c, d \in Ids :
            isVisible(c, d, t, snapshot[t])' = isVisible(c, d, t, snapshot[t])
       /\ \A snap \in {s \in Snapshots : Taken(s)} : \A c \in Ids :
            HappenedBefore(c, snap)' = HappenedBefore(c, snap)]_mvcc
=============================================================================
