------------------------------- MODULE Table --------------------------------
(***************************************************************************)
(* Table (src/table.cpp) with the statements the executor runs on it       *)
(* (src/executor.cpp), the row versions of RecordManager                   *)
(* (src/recordmanager.cpp), MVCCManager, and the row locks as LockTable    *)
(* promises them.  A session is a connection's thread; it runs one         *)
(* statement at a time, for one key (WHERE on the primary key) or, to      *)
(* scan, for all.  A statement's calls into the index, the heap, the lock  *)
(* manager and MVCCManager are each atomic and are the steps that          *)
(* interleave.  A version is named by its rid, its position in the heap.   *)
(***************************************************************************)
EXTENDS MVCC, Sequences, FiniteSets

CONSTANTS Sessions, Keys,
          MaxVersions,   \* bound on the heap
          Clients        \* the kinds of clients: see ClientsAssumption

NoRid == 0
Rids == 1 .. MaxVersions

(* What clients do is chosen once, in Init:                                *)
(*   preloaded   the keys an earlier process inserted and committed        *)
(*   statements  the kinds of statement they use                           *)
(*   rollbacks   whether they roll back                                    *)
(*   inserts     "any", "distinct" (no live or contended key) or "again"   *)
(*               (distinct, and the key has an index entry)                *)
(*   ids, versions   bounds: the last transaction id, the size of the heap *)
ASSUME ClientsAssumption ==
  /\ FirstTxn > 1 /\ MaxVersions \in Nat
  /\ \A c \in Clients :
       /\ c.preloaded \subseteq Keys /\ Cardinality(c.preloaded) \in 0 .. c.versions
       /\ c.versions \in Nat
       /\ c.versions <= MaxVersions /\ c.ids <= LastTxn

VARIABLES client,    \* what the clients do
          heap,      \* the versions: [key, create, delete, prev]
          index,     \* key -> its entries in the B+tree, the one search finds first
          owner,     \* rid -> the transaction that holds its row lock
          txn,       \* session -> session_txn_id
          op,        \* session -> the statement it is in, or the latest one
          outcome    \* transaction -> "none", or how its client was told it ended

vars == <<next_txn_id, transactions, snapshot, client, heap, index, owner, txn, op, outcome>>

Idle == [pc |-> "idle", kind |-> "none", key |-> "none", act |-> NoTxn, rid |-> NoRid,
         new |-> NoRid, seen |-> NoRid, result |-> "none",
         snap |-> NoSnapshot, rows |-> <<>>]

Init ==
  /\ MVCCInit
  /\ client \in Clients
  /\ heap \in [1 .. Cardinality(client.preloaded) ->
                 {[key |-> k, create |-> 1, delete |-> NoTxn, prev |-> NoRid] : k \in client.preloaded}]
  /\ {heap[r].key : r \in DOMAIN heap} = client.preloaded
  /\ index = [k \in Keys |-> IF k \in client.preloaded
                               THEN <<CHOOSE r \in DOMAIN heap : heap[r].key = k>> ELSE <<>>]
  /\ owner = [r \in Rids |-> NoTxn]
  /\ txn = [s \in Sessions |-> NoTxn]
  /\ op = [s \in Sessions |-> Idle]
  /\ outcome = [t \in Txns |-> "none"]

-----------------------------------------------------------------------------
(* The index finds the first entry of a key. *)
search(k) == IF index[k] = <<>> THEN NoRid ELSE Head(index[k])

(* Mutant: the walk stops at the head. *)
HeadOnly(start_rid, reader, snap) ==
  IF start_rid # NoRid /\ isVisible(heap[start_rid].create, heap[start_rid].delete, reader, snap)
  THEN start_rid ELSE NoRid

(* Walk the chain of versions to the first one the snapshot sees. *)
findVisibleVersion(start_rid, reader, snap) ==
  LET walk[r \in 0 .. Len(heap)] ==
        IF r = NoRid \/ isVisible(heap[r].create, heap[r].delete, reader, snap)
        THEN r ELSE walk[heap[r].prev]
  IN walk[start_rid]

(* What a reader would find with the index and the heap as they are. *)
VisibleNow(k, reader) == findVisibleVersion(search(k), reader, getSnapshot(reader))

Writers(k) ==
  {t \in Active : \E r \in DOMAIN heap : heap[r].key = k /\ t \in {heap[r].create, heap[r].delete}}

(* Clients that respect the key: primary-key uniqueness is theirs to keep. *)
MayInsert(s, k) ==
  \/ client.inserts = "any"
  \/ /\ \A reader \in {NoTxn, txn[s]} : VisibleNow(k, reader) = NoRid
     /\ Writers(k) \subseteq {txn[s]}
     /\ \A u \in Sessions \ {s} : ~(op[u].pc # "idle" /\ op[u].kind = "INSERT" /\ op[u].key = k)
     /\ client.inserts = "again" => index[k] # <<>>

(* Mutant: the locks stay with the transaction that ended. *)
ReleaseNothing(t) == UNCHANGED owner

Release(t) == owner' = [r \in Rids |-> IF owner[r] = t THEN NoTxn ELSE owner[r]]

Goto(s, pc) == op' = [op EXCEPT ![s].pc = pc]
Return(s, how) ==
  op' = [op EXCEPT ![s] = [Idle EXCEPT !.kind = op[s].kind, !.key = op[s].key, !.act = op[s].act,
                                       !.seen = op[s].seen, !.result = how]]

AutoCommit(s) == txn[s] = NoTxn

(* AutoCommitGuard: leaving without a commit aborts a transaction that the *)
(* statement began for itself, and leaves the caller's own one alone.      *)
Fail(s, how) ==
  /\ IF AutoCommit(s) THEN /\ abort(op[s].act)
                           /\ Release(op[s].act)
                           /\ outcome' = [outcome EXCEPT ![op[s].act] = "aborted"]
                      ELSE UNCHANGED <<mvcc, owner, outcome>>
  /\ Return(s, how)
  /\ UNCHANGED <<client, heap, index, txn>>

Succeed(s) == IF AutoCommit(s) THEN Goto(s, "commit") ELSE Return(s, "ok")

(* Bound: there are ids left. *)
beginTxn == next_txn_id <= client.ids /\ begin

-----------------------------------------------------------------------------
(* BEGIN, COMMIT and ROLLBACK. *)
execBegin(s) ==
  /\ op[s].pc = "idle" /\ txn[s] = NoTxn
  /\ beginTxn
  /\ txn' = [txn EXCEPT ![s] = next_txn_id]
  /\ op' = [op EXCEPT ![s] = Idle]
  /\ UNCHANGED <<client, heap, index, owner, outcome>>

execCommit(s) ==
  /\ op[s].pc = "idle" /\ txn[s] # NoTxn
  /\ commit(txn[s])
  /\ Release(txn[s])
  /\ outcome' = [outcome EXCEPT ![txn[s]] = "committed"]
  /\ txn' = [txn EXCEPT ![s] = NoTxn]
  /\ op' = [op EXCEPT ![s] = Idle]
  /\ UNCHANGED <<client, heap, index>>

execRollback(s) ==
  /\ client.rollbacks
  /\ op[s].pc = "idle" /\ txn[s] # NoTxn
  /\ abort(txn[s])
  /\ Release(txn[s])
  /\ outcome' = [outcome EXCEPT ![txn[s]] = "aborted"]
  /\ txn' = [txn EXCEPT ![s] = NoTxn]
  /\ op' = [op EXCEPT ![s] = Idle]
  /\ UNCHANGED <<client, heap, index>>

-----------------------------------------------------------------------------
Enter(s, kind, k, pc) ==
  /\ op[s].pc = "idle"
  /\ kind \in client.statements
  /\ op' = [op EXCEPT ![s] = [Idle EXCEPT !.pc = pc, !.kind = kind, !.key = k, !.act = txn[s]]]
  /\ UNCHANGED <<client, heap, index, owner, txn, outcome>>

(* Bound: the heap has room for the versions the statements under way may add. *)
Room ==
  Len(heap) + Cardinality({s \in Sessions : op[s].pc # "idle" /\ op[s].kind \in {"INSERT", "UPDATE"}})
    < client.versions

execSelect(s, k) == Enter(s, "SELECT", k, "find") /\ UNCHANGED mvcc

(* UPDATE reads the row with getByKey first; DELETE goes straight to the *)
(* index.                                                                *)
execUpdate(s, k) == Room /\ Enter(s, "UPDATE", k, "find") /\ UNCHANGED mvcc
execDelete(s, k) == Enter(s, "DELETE", k, "search") /\ UNCHANGED mvcc

(* insert begins its own transaction, if it needs one, before it searches. *)
execInsert(s, k) ==
  /\ Room
  /\ MayInsert(s, k)
  /\ op[s].pc = "idle"
  /\ "INSERT" \in client.statements
  /\ IF AutoCommit(s) THEN beginTxn ELSE UNCHANGED mvcc
  /\ op' = [op EXCEPT ![s] = [Idle EXCEPT !.pc = "search", !.kind = "INSERT", !.key = k,
                                !.act = IF AutoCommit(s) THEN next_txn_id ELSE txn[s]]]
  /\ UNCHANGED <<client, heap, index, owner, txn, outcome>>

(* getByKey, first call: the index. *)
getByKeySearch(s) ==
  /\ op[s].pc = "find"
  /\ IF search(op[s].key) = NoRid
     THEN Return(s, "no row")
     ELSE op' = [op EXCEPT ![s].pc = "read", ![s].rid = search(op[s].key)]
  /\ UNCHANGED <<mvcc, client, heap, index, owner, txn, outcome>>

(* getByKey, the rest: take the snapshot and walk the chain.  The walk's   *)
(* own reads can be one step because visibility under a fixed snapshot     *)
(* does not change (VisibilityIsStable).                                   *)
getByKeyRead(s) ==
  LET found == findVisibleVersion(op[s].rid, txn[s], getSnapshot(txn[s])) IN
  /\ op[s].pc = "read"
  /\ op' = [op EXCEPT ![s] =
              IF op[s].kind = "UPDATE" /\ found # NoRid
              THEN [op[s] EXCEPT !.pc = "search", !.seen = found]
              ELSE [Idle EXCEPT !.kind = op[s].kind, !.key = op[s].key, !.act = op[s].act,
                      !.seen = found, !.result = IF found = NoRid THEN "no row" ELSE "ok"]]
  /\ UNCHANGED <<mvcc, client, heap, index, owner, txn, outcome>>

(* scanAll takes its snapshot first ... *)
scanAllSnapshot(s) ==
  /\ op[s].pc = "idle"
  /\ "SCAN" \in client.statements
  /\ op' = [op EXCEPT ![s] = [Idle EXCEPT !.pc = "scan", !.kind = "SCAN", !.act = txn[s],
                                          !.snap = getSnapshot(txn[s])]]
  /\ UNCHANGED <<mvcc, client, heap, index, owner, txn, outcome>>

(* Mutant: every row is looked up under a snapshot of its own. *)
scanAllRowAfresh(s, k) ==
  /\ op[s].pc = "scan"
  /\ k \notin DOMAIN op[s].rows
  /\ op' = [op EXCEPT ![s].rows = [x \in DOMAIN @ \cup {k} |->
              IF x = k THEN findVisibleVersion(search(k), txn[s], getSnapshot(txn[s])) ELSE @[x]]]
  /\ UNCHANGED <<mvcc, client, heap, index, owner, txn, outcome>>

(* ... and then reads the index leaf by leaf: a key's entry may be from    *)
(* any time after the snapshot.                                            *)
scanAllRow(s, k) ==
  /\ op[s].pc = "scan"
  /\ k \notin DOMAIN op[s].rows
  /\ op' = [op EXCEPT ![s].rows = [x \in DOMAIN @ \cup {k} |->
              IF x = k THEN findVisibleVersion(search(k), txn[s], op[s].snap) ELSE @[x]]]
  /\ UNCHANGED <<mvcc, client, heap, index, owner, txn, outcome>>

scanAllReturn(s) ==
  /\ op[s].pc = "scan"
  /\ DOMAIN op[s].rows = Keys
  /\ Return(s, "ok")
  /\ UNCHANGED <<mvcc, client, heap, index, owner, txn, outcome>>

-----------------------------------------------------------------------------
(* The writers' search.  UPDATE and DELETE begin their own transaction, if *)
(* they need one, only after it; INSERT of a key with no entry has no row  *)
(* to lock.                                                                *)
writerSearch(s) ==
  /\ op[s].pc = "search"
  /\ LET r == search(op[s].key) IN
       IF op[s].kind # "INSERT" /\ r = NoRid
       THEN Return(s, "no row")
       ELSE op' = [op EXCEPT ![s].rid = r,
                     ![s].pc = CASE op[s].kind = "INSERT" /\ r = NoRid -> "write"
                                 [] op[s].kind # "INSERT" /\ AutoCommit(s) -> "begin"
                                 [] OTHER -> "lock"]
  /\ UNCHANGED <<mvcc, client, heap, index, owner, txn, outcome>>

writerBegin(s) ==
  /\ op[s].pc = "begin"
  /\ beginTxn
  /\ op' = [op EXCEPT ![s].pc = "lock", ![s].act = next_txn_id]
  /\ UNCHANGED <<client, heap, index, owner, txn, outcome>>

LockedByOther(s) == owner[op[s].rid] \notin {NoTxn, op[s].act}

(* Mutant: the row is written without its lock. *)
lockNothing(s) ==
  /\ op[s].pc = "lock"
  /\ Goto(s, "write")
  /\ UNCHANGED <<mvcc, client, heap, index, owner, txn, outcome>>

acquireExclusive(s) ==
  /\ op[s].pc = "lock"
  /\ ~LockedByOther(s)
  /\ owner' = [owner EXCEPT ![op[s].rid] = op[s].act]
  /\ Goto(s, "write")
  /\ UNCHANGED <<mvcc, client, heap, index, txn, outcome>>

(* DeadlockError or LockTimeoutError ends a wait; while it lasts nothing changes. *)
lockError(s) ==
  /\ op[s].pc = "lock"
  /\ LockedByOther(s)
  /\ Fail(s, "error")

Stamped(h, r, t) == [h EXCEPT ![r].delete = t]

Version(s, prev) == [key |-> op[s].key, create |-> op[s].act, delete |-> NoTxn, prev |-> prev]

(* insertRecord puts a new version where nothing was before. *)
NewRid == Len(heap) + 1

(* A version is added and its rid kept, to be put into the index.  Bound:  *)
(* the heap has room for it (Room leaves some).                            *)
insertRecord(s, h, prev) ==
  /\ Len(heap) < client.versions
  /\ heap' = Append(h, Version(s, prev))
  /\ op' = [op EXCEPT ![s].pc = "index", ![s].new = NewRid]

(* Mutant: a new version never points back. *)
insertUnchained(s) ==
  /\ op[s].pc = "write" /\ op[s].kind = "INSERT"
  /\ insertRecord(s, heap, NoRid)
  /\ owner' = IF op[s].rid = NoRid THEN owner ELSE [owner EXCEPT ![NewRid] = op[s].act]
  /\ UNCHANGED <<mvcc, client, index, txn, outcome>>

(* insert's heap write.  It chains back only to a tombstone, and takes the *)
(* new version's lock only if the key had an entry.                        *)
insertVersion(s) ==
  LET existing == op[s].rid
      prev == IF existing # NoRid /\ heap[existing].delete # NoTxn THEN existing ELSE NoRid
  IN
  /\ op[s].pc = "write" /\ op[s].kind = "INSERT"
  /\ insertRecord(s, heap, prev)
  /\ owner' = IF existing = NoRid THEN owner ELSE [owner EXCEPT ![NewRid] = op[s].act]
  /\ UNCHANGED <<mvcc, client, index, txn, outcome>>

(* Mutant: a tombstone is not looked at. *)
updateAnyway(s) ==
  /\ op[s].pc = "write" /\ op[s].kind = "UPDATE"
  /\ insertRecord(s, Stamped(heap, op[s].rid, op[s].act), op[s].rid)
  /\ owner' = [owner EXCEPT ![NewRid] = op[s].act]
  /\ UNCHANGED <<mvcc, client, index, txn, outcome>>

(* updateRecord, and the lock on the version it made. *)
updateRecord(s) ==
  /\ op[s].pc = "write" /\ op[s].kind = "UPDATE"
  /\ heap[op[s].rid].delete = NoTxn
  /\ insertRecord(s, Stamped(heap, op[s].rid, op[s].act), op[s].rid)
  /\ owner' = [owner EXCEPT ![NewRid] = op[s].act]
  /\ UNCHANGED <<mvcc, client, index, txn, outcome>>

markDeleted(s) ==
  /\ op[s].pc = "write" /\ op[s].kind = "DELETE"
  /\ heap[op[s].rid].delete = NoTxn
  /\ heap' = Stamped(heap, op[s].rid, op[s].act)
  /\ Succeed(s)
  /\ UNCHANGED <<mvcc, client, index, owner, txn, outcome>>

alreadyDeleted(s) ==
  /\ op[s].pc = "write" /\ op[s].kind \in {"UPDATE", "DELETE"}
  /\ heap[op[s].rid].delete # NoTxn
  /\ Fail(s, "no row")

(* index.insert puts the new entry before the key's others (lower_bound); *)
(* index.update repoints the first one.                                   *)
indexNewVersion(s) ==
  /\ op[s].pc = "index"
  /\ index' = [index EXCEPT ![op[s].key] =
                 IF op[s].kind = "INSERT" /\ op[s].rid = NoRid
                 THEN <<op[s].new>> \o @
                 ELSE [@ EXCEPT ![1] = op[s].new]]
  /\ Succeed(s)
  /\ UNCHANGED <<mvcc, client, heap, owner, txn, outcome>>

autoCommit(s) ==
  /\ op[s].pc = "commit"
  /\ commit(op[s].act)
  /\ Release(op[s].act)
  /\ outcome' = [outcome EXCEPT ![op[s].act] = "committed"]
  /\ Return(s, "ok")
  /\ UNCHANGED <<client, heap, index, txn>>

Next ==
  \E s \in Sessions :
    \/ execBegin(s) \/ execCommit(s) \/ execRollback(s)
    \/ \E k \in Keys :
         \/ execSelect(s, k) \/ execUpdate(s, k) \/ execDelete(s, k) \/ execInsert(s, k)
         \/ scanAllRow(s, k)
    \/ getByKeySearch(s) \/ getByKeyRead(s)
    \/ scanAllSnapshot(s) \/ scanAllReturn(s)
    \/ writerSearch(s) \/ writerBegin(s)
    \/ acquireExclusive(s) \/ lockError(s)
    \/ insertVersion(s) \/ updateRecord(s) \/ markDeleted(s) \/ alreadyDeleted(s)
    \/ indexNewVersion(s) \/ autoCommit(s)

Spec == Init /\ [][Next]_vars

-----------------------------------------------------------------------------
(* The table uses the row locks as LockTable allows: it never takes a row  *)
(* that is not free, and gives everything back exactly once.               *)
Locks == INSTANCE LockTable WITH ended <- {t \in Txns : outcome[t] # "none"}
UsesLockTable == Locks!Spec

(* A version is superseded once: its tombstone is set by a transaction in  *)
(* flight that holds the row's lock, and is never overwritten.             *)
TombstonesAreFinal ==
  [][\A r \in DOMAIN heap :
       heap'[r] # heap[r] =>
         /\ heap[r].delete = NoTxn
         /\ owner[r] = heap'[r].delete /\ heap'[r].delete \in Active]_vars

=============================================================================
