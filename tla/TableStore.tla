----------------------------- MODULE TableStore -----------------------------
(***************************************************************************)
(* What the clients of Table get: the promise of SnapshotStore, and what   *)
(* its readers and writers see of each other.                              *)
(***************************************************************************)
EXTENDS Table

(* The database as a transaction's snapshot has it, and what it wrote. *)
Base(t, k) == IF t \in Active THEN findVisibleVersion(search(k), NoTxn, snapshot[t]) ELSE NoRid
OwnVersions(t, k) == {r \in DOMAIN heap : heap[r].key = k /\ heap[r].create = t /\ heap[r].delete # t}
Buffer(t, k) ==
  IF t \notin Active \/ OwnVersions(t, k) = {} THEN NoRid
  ELSE CHOOSE r \in OwnVersions(t, k) : \A q \in OwnVersions(t, k) : q <= r

(* Clients that keep primary keys unique themselves.                       *)
Disciplined == client.inserts # "any"

(* The table gives disciplined clients what SnapshotStore promises: what a *)
(* fresh reader finds is the committed database, and what a snapshot sees  *)
(* stays what it was, whatever the interleaving of the calls below.  This  *)
(* is Disciplined => Store!Spec, as Disciplined never changes.             *)
Store == INSTANCE SnapshotStore WITH
  Values <- Rids, NoValue <- NoRid, active <- Active,
  db <- [k \in Keys |-> VisibleNow(k, NoTxn)],
  base <- [t \in Txns |-> [k \in Keys |-> Base(t, k)]],
  written <- [t \in Txns |-> {k \in Keys : t \in Writers(k)}],
  buffer <- [t \in Txns |-> [k \in Keys |-> Buffer(t, k)]]
ImplementsSnapshotStore ==
  /\ Disciplined => Store!Init
  /\ [][Disciplined => (UNCHANGED Store!vars \/ Store!Next)]_vars

(* Row locks keep disciplined writers apart: two transactions in flight    *)
(* never both have changes to the same key.                                *)
WritersExclude == Disciplined => \A k \in Keys : Cardinality(Writers(k)) <= 1

(* A SELECT inside a transaction returns the transaction's own last write  *)
(* if it has one and its snapshot's row if not, although the index is read *)
(* before the chain.                                                       *)
SelectsReadOwnWrites ==
  \A s \in Sessions :
    op[s].pc = "idle" /\ op[s].kind = "SELECT" /\ txn[s] # NoTxn =>
      op[s].seen = IF txn[s] \in Writers(op[s].key) THEN Buffer(txn[s], op[s].key)
                                                    ELSE Base(txn[s], op[s].key)

(* A scan is of one moment: the rows it has collected are what its         *)
(* snapshot sees now, however the index moved since.                       *)
ScansAreConsistent ==
  \A s \in Sessions : \A k \in DOMAIN op[s].rows :
    op[s].rows[k] = findVisibleVersion(search(k), txn[s], op[s].snap)

-----------------------------------------------------------------------------
(* What the repository says of the table and the code does not keep.       *)

(* A DELETE that reports a row has removed it: its own transaction does    *)
(* not see the row any more.                                               *)
DeletesTakeEffect ==
  \A s \in Sessions :
    op[s].pc = "idle" /\ op[s].kind = "DELETE" /\ op[s].result = "ok" /\ txn[s] # NoTxn
      => VisibleNow(op[s].key, txn[s]) = NoRid

=============================================================================
