-------------------------------- MODULE WAL ---------------------------------
(***************************************************************************)
(* The write-ahead log (WALWriter) and the transactions it knows           *)
(* (TransactionManager), both in src/wal.cpp.  A record's bytes, length    *)
(* prefix and CRC are left out: a torn record at the tail is discarded by  *)
(* scan, so a crash leaves a prefix of the log.                            *)
(*                                                                         *)
(* A page image is its LSN field and its rows.  A change to a page is      *)
(* named by the LSN of the record that logs it, so rows is a set of LSNs:  *)
(* the changes the image contains.                                         *)
(***************************************************************************)
EXTENDS Naturals, Sequences

CONSTANTS Tables, HeapIds, NodeIds,
          LastTxn,    \* bound: transaction ids run from 1 to LastTxn
          MaxLog      \* bound: a running process stops logging at this LSN

ASSUME WALAssumption ==
  /\ Tables \subseteq Nat /\ 0 \in Tables
  /\ HeapIds \subseteq Nat /\ NodeIds \subseteq Nat
  /\ LastTxn \in Nat /\ MaxLog \in Nat

Txns == 1 .. LastTxn
NoTxn == 0
NoLSN == 0

Pages == [table : Tables, store : {"HEAP"}, id : HeapIds]
           \cup [table : Tables, store : {"INDEX"}, id : NodeIds]
NoPage == [table |-> 0, store |-> "none", id |-> 0]

(* "absent": past the end of the file; "zero": zero-filled by ensureFileSize *)
Images == [state : {"absent", "zero", "page"}, lsn : Nat, rows : SUBSET Nat]
Absent == [state |-> "absent", lsn |-> NoLSN, rows |-> {}]
Zero   == [state |-> "zero", lsn |-> NoLSN, rows |-> {}]
Empty  == [state |-> "page", lsn |-> NoLSN, rows |-> {}]

Records == [lsn : Nat, prev_lsn : Nat, txn_id : Txns,
            type : {"BEGIN", "UPDATE", "COMMIT", "ABORT", "CLR"},
            page : Pages \cup {NoPage}, old_data : Images, new_data : Images]

VARIABLES log,              \* the records appended, flushed or not
          durable,          \* how many of them a crash cannot take away
          next_lsn,
          next_txn_id,
          last_lsn_per_txn  \* NoLSN: no entry

wal == <<log, durable, next_lsn, next_txn_id, last_lsn_per_txn>>

Active == {t \in Txns : last_lsn_per_txn[t] # NoLSN}

WALTypeOK ==
  /\ log \in Seq(Records)
  /\ durable \in 0 .. Len(log)
  /\ next_lsn \in Nat \ {0}
  /\ next_txn_id \in Nat \ {0}
  /\ last_lsn_per_txn \in [Txns -> Nat]

WALInit ==
  /\ log = <<>> /\ durable = 0
  /\ next_lsn = 1 /\ next_txn_id = 1
  /\ last_lsn_per_txn = [t \in Txns |-> NoLSN]

-----------------------------------------------------------------------------
Record(t, type) ==
  [lsn |-> NoLSN, prev_lsn |-> NoLSN, txn_id |-> t, type |-> type, page |-> NoPage,
   old_data |-> Absent, new_data |-> Absent]

append(r) ==
  /\ log' = Append(log, [r EXCEPT !.lsn = next_lsn])
  /\ next_lsn' = next_lsn + 1

(* Everything appended by the end of this step is flushed: flush, flushUpTo. *)
flushAll == durable' = Len(log')

(* appendRecord threads prev_lsn through the transaction's records. *)
Threaded(r) == [r EXCEPT !.prev_lsn = last_lsn_per_txn[r.txn_id]]

appendRecord(r) ==
  /\ append(Threaded(r))
  /\ last_lsn_per_txn' = [last_lsn_per_txn EXCEPT ![r.txn_id] = next_lsn]
  /\ UNCHANGED next_txn_id

HasRoom == Len(log) < MaxLog

begin ==
  /\ HasRoom
  /\ next_txn_id \in Txns
  /\ append(Record(next_txn_id, "BEGIN"))
  /\ last_lsn_per_txn' = [last_lsn_per_txn EXCEPT ![next_txn_id] = next_lsn]
  /\ next_txn_id' = next_txn_id + 1
  /\ UNCHANGED durable

(* Mutant: the COMMIT record is left in the stream's buffer. *)
EndUnflushed(t, type) ==
  /\ t \in Active
  /\ append(Threaded(Record(t, type)))
  /\ last_lsn_per_txn' = [last_lsn_per_txn EXCEPT ![t] = NoLSN]
  /\ UNCHANGED <<durable, next_txn_id>>

(* commit and abort append, flush and forget the transaction. *)
End(t, type) ==
  /\ t \in Active
  /\ append(Threaded(Record(t, type)))
  /\ flushAll
  /\ last_lsn_per_txn' = [last_lsn_per_txn EXCEPT ![t] = NoLSN]
  /\ UNCHANGED next_txn_id

Above(n) == \A i \in DOMAIN log' : log'[i].txn_id < n

(* Mutant: transaction ids start over at every restart. *)
reopenFromOne ==
  /\ next_lsn' = IF log' = <<>> THEN 1 ELSE log'[Len(log')].lsn + 1
  /\ next_txn_id' = 1
  /\ last_lsn_per_txn' = [t \in Txns |-> NoLSN]
  /\ durable' = Len(log')

(* Opening the log that survived: LSNs go on after its last record, and    *)
(* transaction ids after the highest one in it.                            *)
reopen ==
  /\ next_lsn' = IF log' = <<>> THEN 1 ELSE log'[Len(log')].lsn + 1
  /\ next_txn_id' = CHOOSE n \in 1 .. LastTxn + 1 : Above(n) /\ \A m \in 1 .. n - 1 : ~Above(m)
  /\ last_lsn_per_txn' = [t \in Txns |-> NoLSN]
  /\ durable' = Len(log')

-----------------------------------------------------------------------------
IsPageRecord(r) == r.type \in {"UPDATE", "CLR"}
Committed == {log[i].txn_id : i \in {j \in DOMAIN log : log[j].type = "COMMIT"}}

(* The records that change a page, and what the log says the page is. *)
RecordsOf(p) == {i \in DOMAIN log : IsPageRecord(log[i]) /\ log[i].page = p}
After(r) == IF r.type = "UPDATE" THEN r.new_data ELSE r.old_data
=============================================================================
