----------------------------- MODULE TableProofs ----------------------------
(***************************************************************************)
(* Proofs about MVCC and Table, for every range of transaction ids, any    *)
(* sessions, keys and kinds of clients.                                    *)
(*                                                                         *)
(* The heart of the first part is that a snapshot names, or lies below,    *)
(* everyone in flight: then nothing they do can change what counts as      *)
(* having happened before it.  The second part follows the statements of   *)
(* the sessions: which transaction a step acts for, and what it has        *)
(* locked.                                                                 *)
(***************************************************************************)
EXTENDS Table, TLAPS

(* Ids are handed out in order: those still to come have no entry. *)
Fresh == \A t \in Txns : next_txn_id <= t => transactions[t] = "untracked"

(* The inductive invariant. *)
MVCCInv == MVCCTypeOK /\ Fresh /\ SnapshotsAccountForActive

(* What a snapshot needs, seen by its owner t (or by nobody, NoTxn). *)
Accounts(snap, t) ==
  /\ snap.xmax <= next_txn_id
  /\ \A u \in Active \ {t} : u \in snap.active_at_start \/ snap.xmax <= u

(* The initial state satisfies the invariant. *)
LEMMA InitInv == MVCCInit => MVCCInv
<1> SUFFICES ASSUME MVCCInit PROVE MVCCInv OBVIOUS
<1> USE TxnIdsAssumption DEF MVCCInit, Txns
<1>1. MVCCTypeOK BY DEF MVCCTypeOK, Snapshots, NoSnapshot
<1>2. Fresh BY DEF Fresh
<1>3. Active = {} BY DEF Active
<1>4. SnapshotsAccountForActive BY <1>3 DEF SnapshotsAccountForActive, Taken, snapshotLocked
<1> QED BY <1>1, <1>2, <1>4 DEF MVCCInv

(* begin: the new snapshot lists everyone in flight, and the new id lies   *)
(* at or above every other snapshot's xmax.                                *)
LEMMA BeginInv == MVCCInv /\ begin => MVCCInv'
<1> SUFFICES ASSUME MVCCInv, begin PROVE MVCCInv' OBVIOUS
<1> USE TxnIdsAssumption
<1> DEFINE n == next_txn_id
<1>1. /\ n \in Txns /\ n \in Nat /\ n' = n + 1
      /\ Active \subseteq Txns /\ Txns \subseteq Nat
  BY DEF MVCCInv, MVCCTypeOK, begin, Txns, Active
<1>2. Active' = Active \cup {n}
  BY <1>1 DEF MVCCInv, MVCCTypeOK, begin, Active
<1>3. \A t \in Active : t < n
  BY <1>1 DEF MVCCInv, Fresh, Active
<1>4. snapshot'[n] = [xmax |-> n + 1, active_at_start |-> Active]
  BY <1>1 DEF MVCCInv, MVCCTypeOK, begin
<1>5. \A t \in Active : snapshot'[t] = snapshot[t]
  BY <1>1, <1>3 DEF MVCCInv, MVCCTypeOK, begin
<1>6. MVCCTypeOK'
  <2>1. [xmax |-> n + 1, active_at_start |-> Active] \in Snapshots
    BY <1>1 DEF Snapshots, Txns
  <2>2. next_txn_id' \in FirstTxn .. LastTxn + 1 BY <1>1 DEF Txns
  <2> QED BY <1>1, <2>1, <2>2 DEF MVCCInv, MVCCTypeOK, begin
<1>7. Fresh' BY <1>1 DEF MVCCInv, MVCCTypeOK, Fresh, begin
<1>8. SnapshotsAccountForActive'
  <2>1. Taken(snapshotLocked)' BY <1>1 DEF Taken, snapshotLocked
  <2>2. ASSUME NEW t \in Active', NEW u \in Active' \ {t}
        PROVE u \in snapshot'[t].active_at_start \/ snapshot'[t].xmax <= u
    <3>1. CASE t = n BY <3>1, <1>2, <1>4
    <3>2. CASE t \in Active /\ u = n
      BY <3>2, <1>5 DEF MVCCInv, SnapshotsAccountForActive
    <3>3. CASE t \in Active /\ u \in Active
      BY <3>3, <1>5 DEF MVCCInv, SnapshotsAccountForActive
    <3> QED BY <1>2, <3>1, <3>2, <3>3
  <2>3. ASSUME NEW t \in Active' PROVE snapshot'[t].xmax <= next_txn_id'
    <3>1. CASE t = n BY <3>1, <1>1, <1>4
    <3>2. CASE t \in Active
      <4>1. snapshot[t].xmax <= n /\ snapshot[t].xmax \in Nat
        BY <3>2, <1>1 DEF MVCCInv, MVCCTypeOK, SnapshotsAccountForActive, Snapshots
      <4> QED BY <4>1, <3>2, <1>1, <1>5
    <3> QED BY <1>2, <3>1, <3>2
  <2> QED BY <2>1, <2>2, <2>3 DEF SnapshotsAccountForActive
<1> QED BY <1>6, <1>7, <1>8 DEF MVCCInv

(* commit and abort only take a transaction out of the set in flight. *)
LEMMA EndInv == ASSUME NEW t \in Txns, MVCCInv, commit(t) \/ abort(t) PROVE MVCCInv'
<1> USE TxnIdsAssumption
<1>1. Active' = Active \ {t} BY DEF MVCCInv, MVCCTypeOK, commit, abort, Active
<1>2. MVCCTypeOK' BY DEF MVCCInv, MVCCTypeOK, commit, abort
<1>3. Fresh' BY DEF MVCCInv, MVCCTypeOK, Fresh, commit, abort, Active
<1>4. next_txn_id' = next_txn_id /\ snapshot' = snapshot BY DEF commit, abort
<1>5. SnapshotsAccountForActive'
  BY <1>1, <1>4 DEF MVCCInv, MVCCTypeOK, SnapshotsAccountForActive, Taken, snapshotLocked
<1> QED BY <1>2, <1>3, <1>5 DEF MVCCInv

(* The invariant is preserved by every step. *)
LEMMA NextInv == MVCCInv /\ [MVCCNext]_mvcc => MVCCInv'
<1> SUFFICES ASSUME MVCCInv, [MVCCNext]_mvcc PROVE MVCCInv' OBVIOUS
<1>1. CASE begin BY <1>1, BeginInv
<1>2. ASSUME NEW t \in Txns, commit(t) \/ abort(t) PROVE MVCCInv' BY <1>2, EndInv
<1>3. CASE UNCHANGED mvcc
  BY <1>3 DEF mvcc, MVCCInv, MVCCTypeOK, Fresh, SnapshotsAccountForActive, Taken, snapshotLocked, Active
<1> QED BY <1>1, <1>2, <1>3 DEF MVCCNext

(* The bookkeeping of MVCCManager is always consistent: ids are handed out *)
(* in order and every snapshot accounts for everyone in flight.            *)
THEOREM MVCCInvariant == MVCCSpec => []MVCCInv
<1> QED BY InitInv, NextInv, PTL DEF MVCCSpec

(* begin, commit and abort keep the manager's state well typed. *)
THEOREM MVCCTypeCorrect == MVCCSpec => []MVCCTypeOK
<1>1. MVCCInv => MVCCTypeOK BY DEF MVCCInv
<1> QED BY <1>1, MVCCInvariant, PTL

(* Every snapshot handed out names, or lies below, every transaction in    *)
(* flight.                                                                 *)
THEOREM SnapshotsAlwaysAccount == MVCCSpec => []SnapshotsAccountForActive
<1>1. MVCCInv => SnapshotsAccountForActive BY DEF MVCCInv
<1> QED BY <1>1, MVCCInvariant, PTL

(* No step changes what happened before a snapshot that accounts for       *)
(* everyone in flight, except for its owner's own end.                     *)
LEMMA PastIsFixed ==
  ASSUME MVCCInv, [MVCCNext]_mvcc, NEW snap \in Snapshots, NEW t, Accounts(snap, t),
         NEW c \in Ids, c # t
  PROVE HappenedBefore(c, snap)' = HappenedBefore(c, snap)
<1> USE TxnIdsAssumption DEF HappenedBefore, stateOfLocked
<1>0. next_txn_id \in Nat /\ snap.xmax \in Nat /\ c \in Nat
  BY DEF MVCCInv, MVCCTypeOK, Snapshots, Ids
<1>1. CASE begin
  <2>1. CASE c = next_txn_id
    BY <2>1, <1>0 DEF Accounts
  <2>2. CASE c # next_txn_id
    BY <1>1, <2>2 DEF begin, MVCCInv, MVCCTypeOK
  <2> QED BY <2>1, <2>2
<1>2. ASSUME NEW u \in Txns, commit(u) \/ abort(u)
      PROVE HappenedBefore(c, snap)' = HappenedBefore(c, snap)
  <2>1. CASE c = u
    <3>1. c \in Active \ {t} BY <1>2, <2>1 DEF commit, abort
    <3>2. c \in snap.active_at_start \/ snap.xmax <= c BY <3>1 DEF Accounts
    <3> QED BY <3>2, <1>0
  <2>2. CASE c # u BY <1>2, <2>2 DEF commit, abort, MVCCInv, MVCCTypeOK
  <2> QED BY <2>1, <2>2
<1>3. CASE UNCHANGED mvcc BY <1>3 DEF mvcc
<1> QED BY <1>1, <1>2, <1>3 DEF MVCCNext

(* Snapshot isolation's core: no step of any transaction changes what a    *)
(* snapshot sees, for any version whatever its stamps.                     *)
THEOREM SnapshotsNeverMove == MVCCSpec => VisibilityIsStable
<1>1. ASSUME MVCCInv, [MVCCNext]_mvcc, NEW c \in Ids, NEW d \in Ids,
             NEW t \in Active, t \in Active'
      PROVE isVisible(c, d, t, snapshot[t])' = isVisible(c, d, t, snapshot[t])
  <2>1. t \in Txns /\ snapshot[t] \in Snapshots
    BY <1>1 DEF Active, MVCCInv, MVCCTypeOK
  <2>2. Accounts(snapshot[t], t)
    BY <1>1 DEF MVCCInv, SnapshotsAccountForActive, Accounts
  <2>3. snapshot'[t] = snapshot[t]
    <3>1. t # next_txn_id
      BY <1>1, TxnIdsAssumption DEF MVCCInv, MVCCTypeOK, Fresh, Active, Txns
    <3>2. CASE begin BY <2>1, <3>1, <3>2 DEF begin
    <3>3. CASE snapshot' = snapshot BY <3>3
    <3> QED BY <1>1, <3>2, <3>3 DEF MVCCNext, commit, abort, mvcc
  <2> DEFINE snap == snapshot[t]
  <2>4. c # t => HappenedBefore(c, snap)' = HappenedBefore(c, snap)
    <3>1. ASSUME NEW s \in Snapshots, Accounts(s, t), c # t
          PROVE HappenedBefore(c, s)' = HappenedBefore(c, s)
      BY <1>1, <3>1, PastIsFixed
    <3> QED BY <3>1, <2>1, <2>2, <2>3 DEF HappenedBefore
  <2>5. d # t => HappenedBefore(d, snap)' = HappenedBefore(d, snap)
    <3>1. ASSUME NEW s \in Snapshots, Accounts(s, t), d # t
          PROVE HappenedBefore(d, s)' = HappenedBefore(d, s)
      BY <1>1, <3>1, PastIsFixed
    <3> QED BY <3>1, <2>1, <2>2, <2>3 DEF HappenedBefore
  <2>6. t # NoTxn BY <2>1, TxnIdsAssumption DEF Txns, NoTxn
  <2> QED BY <2>4, <2>5, <2>6 DEF isVisible
<1>2. ASSUME MVCCInv, [MVCCNext]_mvcc, NEW c \in Ids, NEW snap \in Snapshots, Taken(snap)
      PROVE HappenedBefore(c, snap)' = HappenedBefore(c, snap)
  <2>1. Accounts(snap, LastTxn + 1)
    BY <1>2 DEF Taken, Accounts
  <2>2. \A x \in Ids : x # LastTxn + 1
    BY TxnIdsAssumption DEF Ids
  <2> QED BY <1>2, <2>1, <2>2, PastIsFixed
<1>3. MVCCInv /\ [MVCCNext]_mvcc =>
        [mvcc' # mvcc =>
           /\ \A t \in Active \cap Active' : \A c, d \in Ids :
                isVisible(c, d, t, snapshot[t])' = isVisible(c, d, t, snapshot[t])
           /\ \A snap \in {s \in Snapshots : Taken(s)} : \A c \in Ids :
                HappenedBefore(c, snap)' = HappenedBefore(c, snap)]_mvcc
  <2> SUFFICES ASSUME MVCCInv, [MVCCNext]_mvcc
               PROVE /\ \A t \in Active \cap Active' : \A c, d \in Ids :
                          isVisible(c, d, t, snapshot[t])' = isVisible(c, d, t, snapshot[t])
                     /\ \A snap \in {s \in Snapshots : Taken(s)} : \A c \in Ids :
                          HappenedBefore(c, snap)' = HappenedBefore(c, snap)
    OBVIOUS
  <2>1. ASSUME NEW t \in Active \cap Active', NEW c \in Ids, NEW d \in Ids
        PROVE isVisible(c, d, t, snapshot[t])' = isVisible(c, d, t, snapshot[t])
    BY <1>1
  <2>2. ASSUME NEW snap \in {s \in Snapshots : Taken(s)}, NEW c \in Ids
        PROVE HappenedBefore(c, snap)' = HappenedBefore(c, snap)
    <3>1. snap \in Snapshots /\ Taken(snap) OBVIOUS
    <3> QED BY <1>2, <3>1
  <2> QED BY <2>1, <2>2
<1> QED BY <1>3, MVCCInvariant, PTL DEF MVCCSpec, VisibilityIsStable

-----------------------------------------------------------------------------
(* The statements of the sessions.                                         *)

Versions == [key : Keys, create : Ids, delete : Ids, prev : Nat]
OpFields == {"pc", "kind", "key", "act", "rid", "new", "seen", "result", "snap", "rows"}

(* Where a statement runs in a transaction. *)
Acting(o) == o.pc \in {"lock", "write", "index", "commit"} \/ (o.pc = "search" /\ o.kind = "INSERT")

(* The transaction of a session: its own, or the statement's. *)
Mine(s) == IF txn[s] = NoTxn /\ Acting(op[s]) THEN op[s].act ELSE txn[s]

TableTypeOK ==
  /\ client \in Clients
  /\ heap \in Seq(Versions) /\ Len(heap) <= client.versions
  /\ index \in [Keys -> Seq(DOMAIN heap)]
  /\ owner \in [Rids -> Ids]
  /\ txn \in [Sessions -> Txns \cup {NoTxn}]
  /\ op = [s \in Sessions |-> op[s]]
  /\ outcome \in [Txns -> {"none", "committed", "aborted"}]

(* What a session knows in the middle of a statement. *)
Knows(s, o) ==
  /\ DOMAIN o = OpFields /\ o.act \in Txns \cup {NoTxn} /\ o.rid \in DOMAIN heap \cup {NoRid}
  /\ o.pc \in {"find", "read", "search", "begin", "lock", "write", "index"} => o.key \in Keys
  /\ o.pc \in {"begin", "commit"} => txn[s] = NoTxn
  /\ o.pc # "idle" /\ txn[s] # NoTxn => o.act = txn[s]
  /\ Acting(o) => o.act # NoTxn
  /\ o.pc \in {"begin", "lock"} => o.rid # NoRid
  /\ o.pc = "write" => o.kind = "INSERT" \/ o.rid # NoRid
  /\ o.pc = "write" /\ o.rid # NoRid => owner[o.rid] = o.act
  /\ o.pc = "index" => o.new \in DOMAIN heap /\ heap[o.new].create = o.act /\ heap[o.new].key = o.key
Statements == \A s \in Sessions : Knows(s, op[s])

(* A transaction in flight is one session's, and locks are held by         *)
(* transactions in flight, which have no outcome yet.                      *)
Owners ==
  /\ \A s \in Sessions : Mine(s) # NoTxn => Mine(s) \in Active
  /\ \A s, u \in Sessions : s # u /\ Mine(s) # NoTxn => Mine(s) # Mine(u)
  /\ \A r \in Rids : owner[r] # NoTxn => owner[r] \in Active /\ r \in DOMAIN heap
  /\ \A t \in Txns : t \in Active \/ next_txn_id <= t => outcome[t] = "none"

TableInv == MVCCInv /\ TableTypeOK /\ Statements /\ Owners

-----------------------------------------------------------------------------
(* The steps that a session takes for a statement, by what they change.    *)

Moves(s, o) == op' = [op EXCEPT ![s] = o]

OpStep(s) ==
  \/ \E k \in Keys : \/ execSelect(s, k) \/ execUpdate(s, k) \/ execDelete(s, k)
                     \/ (execInsert(s, k) /\ ~AutoCommit(s)) \/ scanAllRow(s, k)
  \/ getByKeySearch(s) \/ getByKeyRead(s) \/ scanAllSnapshot(s) \/ scanAllReturn(s) \/ writerSearch(s)
  \/ ((lockError(s) \/ alreadyDeleted(s)) /\ ~AutoCommit(s))

BeginStep(s) ==
  execBegin(s) \/ (\E k \in Keys : execInsert(s, k) /\ AutoCommit(s)) \/ writerBegin(s)

EndStep(s) ==
  execCommit(s) \/ execRollback(s) \/ autoCommit(s) \/ ((lockError(s) \/ alreadyDeleted(s)) /\ AutoCommit(s))

(* A session's steps change its own statement only. *)
LEMMA OneMoves ==
  ASSUME TableInv, Next
  PROVE  \E s \in Sessions :
           \/ OpStep(s) \/ BeginStep(s) \/ EndStep(s) \/ acquireExclusive(s)
           \/ insertVersion(s) \/ updateRecord(s) \/ markDeleted(s) \/ indexNewVersion(s)
BY DEF Next, OpStep, BeginStep, EndStep

(* The steps that only go on in a statement. *)
LEMMA OpStepMoves ==
  ASSUME TableInv, NEW s \in Sessions, OpStep(s)
  PROVE  /\ UNCHANGED <<next_txn_id, transactions, snapshot, client, heap, index, owner, txn, outcome>>
         /\ \E o : /\ Moves(s, o) /\ Knows(s, o)
                   /\ Acting(o) => (Acting(op[s]) /\ o.act = op[s].act) \/ txn[s] # NoTxn
<1> DEFINE Good(o) == /\ Knows(s, o)
                      /\ Acting(o) => (Acting(op[s]) /\ o.act = op[s].act) \/ txn[s] # NoTxn
<1>1. /\ Knows(s, op[s]) /\ txn[s] \in Txns \cup {NoTxn}
      /\ op = [u \in Sessions |-> op[u]]
  BY DEF TableInv, Statements, TableTypeOK
<1>2. UNCHANGED <<next_txn_id, transactions, snapshot, client, heap, index, owner, txn, outcome>>
  BY Zenon DEF OpStep, execSelect, execUpdate, execDelete, execInsert, scanAllRow, getByKeySearch,
            getByKeyRead, scanAllSnapshot, scanAllReturn, writerSearch, lockError, alreadyDeleted,
            Fail, Enter, mvcc
<1> SUFFICES \E o : Moves(s, o) /\ Good(o) BY <1>2
<1>3. ASSUME NEW how, Return(s, how) PROVE \E o : Moves(s, o) /\ Good(o)
  <2> DEFINE o == [Idle EXCEPT !.kind = op[s].kind, !.key = op[s].key, !.act = op[s].act,
                               !.seen = op[s].seen, !.result = how]
  <2>1. Moves(s, o) BY <1>3 DEF Return, Moves
  <2>2. o.pc = "idle" /\ DOMAIN o = OpFields /\ o.act = op[s].act /\ o.rid = NoRid
    BY DEF Idle, OpFields
  <2> HIDE DEF o
  <2>3. Good(o) BY <1>1, <2>2 DEF Knows, Acting
  <2> QED BY <2>1, <2>3
<1>4. ASSUME NEW kind, NEW k \in Keys, NEW pc, Enter(s, kind, k, pc),
             \/ kind = "SELECT" /\ pc = "find"
             \/ kind = "UPDATE" /\ pc = "find"
             \/ kind = "DELETE" /\ pc = "search"
      PROVE  \E o : Moves(s, o) /\ Good(o)
  <2> DEFINE o == [Idle EXCEPT !.pc = pc, !.kind = kind, !.key = k, !.act = txn[s]]
  <2>1. Moves(s, o) BY <1>4 DEF Enter, Moves
  <2>2. /\ o.pc = pc /\ o.kind = kind /\ o.key = k /\ DOMAIN o = OpFields
        /\ o.act = txn[s] /\ o.rid = NoRid
    BY DEF Idle, OpFields
  <2> HIDE DEF o
  <2>3. Good(o) BY <1>1, <1>4, <2>2 DEF Knows, Acting
  <2> QED BY <2>1, <2>3
<1>5. ASSUME NEW k \in Keys, execInsert(s, k), ~AutoCommit(s) PROVE \E o : Moves(s, o) /\ Good(o)
  <2> DEFINE o == [Idle EXCEPT !.pc = "search", !.kind = "INSERT", !.key = k,
                                !.act = IF AutoCommit(s) THEN next_txn_id ELSE txn[s]]
  <2>1. Moves(s, o) /\ txn[s] # NoTxn BY <1>5 DEF execInsert, Moves, AutoCommit
  <2>2. /\ o.pc = "search" /\ o.kind = "INSERT" /\ o.key = k /\ DOMAIN o = OpFields
        /\ o.act = txn[s] /\ o.rid = NoRid
    BY <1>5 DEF Idle, OpFields
  <2> HIDE DEF o
  <2>3. Good(o) BY <1>1, <2>1, <2>2 DEF Knows, Acting
  <2> QED BY <2>1, <2>3
<1>6. ASSUME op[s].pc = "scan" \/ op[s].pc = "idle", NEW o, Moves(s, o), DOMAIN o = OpFields,
             o.pc = "scan", o.act = txn[s] \/ (o.act = op[s].act /\ op[s].pc = "scan"),
             o.rid = NoRid \/ o.rid = op[s].rid
      PROVE  \E q : Moves(s, q) /\ Good(q)
  <2>1. Good(o) BY <1>1, <1>6 DEF Knows, Acting
  <2> QED BY <1>6, <2>1
<1>7. ASSUME NEW k \in Keys, scanAllRow(s, k) PROVE \E o : Moves(s, o) /\ Good(o)
  <2> DEFINE rows == [x \in DOMAIN op[s].rows \cup {k} |->
                        IF x = k THEN findVisibleVersion(search(k), txn[s], op[s].snap) ELSE op[s].rows[x]]
  <2>1. op[s].pc = "scan" /\ Moves(s, [op[s] EXCEPT !.rows = rows]) BY <1>7 DEF scanAllRow, Moves
  <2> HIDE DEF rows
  <2> DEFINE o == [op[s] EXCEPT !.rows = rows]
  <2>2. DOMAIN o = OpFields /\ o.pc = op[s].pc /\ o.act = op[s].act /\ o.rid = op[s].rid
    BY <1>1 DEF Knows, OpFields
  <2> HIDE DEF o
  <2> QED BY <1>6, <2>1, <2>2, Zenon DEF o
<1>8. CASE scanAllSnapshot(s)
  <2> DEFINE o == [Idle EXCEPT !.pc = "scan", !.kind = "SCAN", !.act = txn[s], !.snap = getSnapshot(txn[s])]
  <2>1. Moves(s, o) /\ op[s].pc = "idle" BY <1>8 DEF scanAllSnapshot, Moves
  <2>2. DOMAIN o = OpFields /\ o.pc = "scan" /\ o.act = txn[s] /\ o.rid = NoRid BY DEF Idle, OpFields
  <2> HIDE DEF o
  <2> QED BY <1>6, <2>1, <2>2
<1>9. CASE scanAllReturn(s) BY <1>3, <1>9 DEF scanAllReturn
<1>10. ASSUME NEW r \in DOMAIN heap \cup {NoRid}, NEW o, Moves(s, o), DOMAIN o = OpFields,
              o.kind = op[s].kind, o.key = op[s].key, o.act = op[s].act, o.rid = r,
              \/ op[s].pc = "find" /\ o.pc = "read"
              \/ op[s].pc = "read" /\ o.pc = "search" /\ o.kind # "INSERT"
              \/ op[s].pc = "search" /\ o.pc = "write" /\ o.kind = "INSERT" /\ r = NoRid
              \/ op[s].pc = "search" /\ o.pc = "begin" /\ r # NoRid /\ txn[s] = NoTxn
              \/ op[s].pc = "search" /\ o.pc = "lock" /\ r # NoRid /\ (o.kind = "INSERT" \/ txn[s] # NoTxn)
       PROVE  \E q : Moves(s, q) /\ Good(q)
  <2>1. Good(o) BY <1>1, <1>10 DEF Knows, Acting
  <2> QED BY <1>10, <2>1
<1>11. ASSUME NEW k \in Keys PROVE search(k) \in DOMAIN heap \cup {NoRid}
  BY DEF TableInv, TableTypeOK, search
<1>12. CASE getByKeySearch(s)
  <2> DEFINE r == search(op[s].key)
             o == [op[s] EXCEPT !.pc = "read", !.rid = r]
  <2>1. CASE r = NoRid BY <1>3, <1>12, <2>1, Zenon DEF getByKeySearch
  <2>2. CASE r # NoRid
    <3>1. Moves(s, o) /\ op[s].pc = "find" BY <1>12, <2>2, Zenon DEF getByKeySearch, Moves
    <3>2. r \in DOMAIN heap \cup {NoRid} BY <1>1, <1>11, <3>1 DEF Knows
    <3> HIDE DEF r
    <3>3. /\ DOMAIN o = OpFields /\ o.kind = op[s].kind /\ o.key = op[s].key
          /\ o.act = op[s].act /\ o.rid = r /\ o.pc = "read"
      BY <1>1 DEF Knows, OpFields
    <3> HIDE DEF o
    <3> QED BY <1>10, <3>1, <3>2, <3>3
  <2> QED BY <2>1, <2>2
<1>13. CASE getByKeyRead(s)
  <2> DEFINE found == findVisibleVersion(op[s].rid, txn[s], getSnapshot(txn[s]))
             o == [op[s] EXCEPT !.pc = "search", !.seen = found]
             i == [Idle EXCEPT !.kind = op[s].kind, !.key = op[s].key, !.act = op[s].act,
                      !.seen = found, !.result = IF found = NoRid THEN "no row" ELSE "ok"]
  <2>1. op[s].pc = "read" /\ ((Moves(s, o) /\ op[s].kind = "UPDATE") \/ Moves(s, i))
    BY <1>13, Zenon DEF getByKeyRead, Moves
  <2> HIDE DEF found
  <2>2. /\ DOMAIN o = OpFields /\ o.kind = op[s].kind /\ o.key = op[s].key
        /\ o.act = op[s].act /\ o.rid = op[s].rid /\ o.pc = "search"
    BY <1>1 DEF Knows, OpFields
  <2>3. i.pc = "idle" /\ DOMAIN i = OpFields /\ i.act = op[s].act /\ i.rid = NoRid
    BY DEF Idle, OpFields
  <2> HIDE DEF o, i
  <2>4. Good(i) BY <1>1, <2>3 DEF Knows, Acting
  <2>5. op[s].rid \in DOMAIN heap \cup {NoRid} BY <1>1 DEF Knows
  <2>6. Moves(s, o) /\ op[s].kind = "UPDATE" => \E q : Moves(s, q) /\ Good(q)
    BY <1>10, <2>1, <2>2, <2>5
  <2> QED BY <2>1, <2>4, <2>6
<1>14. CASE writerSearch(s)
  <2> DEFINE r == search(op[s].key)
             pc == CASE op[s].kind = "INSERT" /\ r = NoRid -> "write"
                     [] op[s].kind # "INSERT" /\ AutoCommit(s) -> "begin"
                     [] OTHER -> "lock"
             o == [op[s] EXCEPT !.rid = r, !.pc = pc]
  <2>1. op[s].pc = "search" BY <1>14, Zenon DEF writerSearch
  <2>2. CASE op[s].kind # "INSERT" /\ r = NoRid BY <1>3, <1>14, <2>2, Zenon DEF writerSearch
  <2>3. CASE ~(op[s].kind # "INSERT" /\ r = NoRid)
    <3>1. Moves(s, o) BY <1>14, <2>3, Zenon DEF writerSearch, Moves
    <3>2. r \in DOMAIN heap \cup {NoRid} BY <1>1, <1>11, <2>1 DEF Knows
    <3>3. \/ pc = "write" /\ op[s].kind = "INSERT" /\ r = NoRid
          \/ pc = "begin" /\ r # NoRid /\ txn[s] = NoTxn
          \/ pc = "lock" /\ r # NoRid /\ (op[s].kind = "INSERT" \/ txn[s] # NoTxn)
      BY <2>3 DEF AutoCommit
    <3> HIDE DEF r, pc
    <3>4. /\ DOMAIN o = OpFields /\ o.kind = op[s].kind /\ o.key = op[s].key
          /\ o.act = op[s].act /\ o.rid = r /\ o.pc = pc
      BY <1>1 DEF Knows, OpFields
    <3> HIDE DEF o
    <3> QED BY <1>10, <2>1, <3>1, <3>2, <3>3, <3>4
  <2> QED BY <2>2, <2>3
<1>15. CASE (lockError(s) \/ alreadyDeleted(s)) /\ ~AutoCommit(s)
  BY <1>3, <1>15, Zenon DEF lockError, alreadyDeleted, Fail
<1>16. CASE \E k \in Keys : execSelect(s, k) \/ execUpdate(s, k) \/ execDelete(s, k)
  BY <1>4, <1>16 DEF execSelect, execUpdate, execDelete
<1> QED BY <1>5, <1>7, <1>8, <1>9, <1>12, <1>13, <1>14, <1>15, <1>16 DEF OpStep

(* A step within a statement. *)
LEMMA OpStepInv == ASSUME TableInv, NEW s \in Sessions, OpStep(s) PROVE TableInv'
<1>1. UNCHANGED <<next_txn_id, transactions, snapshot, client, heap, index, owner, txn, outcome>>
  BY OpStepMoves
<1>2. PICK o : /\ Moves(s, o) /\ Knows(s, o)
               /\ Acting(o) => (Acting(op[s]) /\ o.act = op[s].act) \/ txn[s] # NoTxn
  BY OpStepMoves
<1>3. /\ op = [u \in Sessions |-> op[u]] /\ op'[s] = o /\ \A u \in Sessions \ {s} : op'[u] = op[u]
      /\ op' = [u \in Sessions |-> op'[u]]
  BY <1>2, Zenon DEF TableInv, TableTypeOK, Moves
<1>4. MVCCInv' BY <1>1, NextInv DEF TableInv, mvcc
<1>5. TableTypeOK'
  BY <1>1, <1>3 DEF TableInv, TableTypeOK
<1>6. Statements'
  <2>1. ASSUME NEW u \in Sessions PROVE Knows(u, op'[u])
    BY <1>2, <1>3 DEF TableInv, Statements
  <2> QED BY <1>1, <2>1 DEF Statements, Knows
<1>7. Owners'
  <2>1. ASSUME NEW u \in Sessions PROVE Mine(u)' \in {Mine(u), NoTxn}
    BY <1>1, <1>2, <1>3 DEF Mine
  <2>2. Active' = Active BY <1>1 DEF Active
  <2> QED BY <1>1, <2>1, <2>2 DEF TableInv, Owners
<1> QED BY <1>4, <1>5, <1>6, <1>7 DEF TableInv
(* What is known of a session whose step leaves the heap and the locks alone. *)
LEMMA KnowsStill ==
  ASSUME NEW u \in Sessions, Knows(u, op[u]), op'[u] = op[u], txn'[u] = txn[u],
         DOMAIN heap \subseteq DOMAIN heap',
         \A r \in DOMAIN heap : heap'[r].create = heap[r].create /\ heap'[r].key = heap[r].key,
         \A r \in DOMAIN heap : Acting(op[u]) /\ owner[r] = op[u].act => owner'[r] = op[u].act
  PROVE  Knows(u, op[u])'
BY DEF Knows, Acting

(* The steps that begin a transaction. *)
LEMMA BeginStepMoves ==
  ASSUME TableInv, NEW s \in Sessions, BeginStep(s)
  PROVE  /\ begin /\ UNCHANGED <<client, heap, index, owner, outcome>>
         /\ txn[s] = NoTxn /\ ~Acting(op[s])
         /\ Moves(s, op'[s]) /\ Knows(s, op[s])'
         /\ \/ txn' = txn /\ Acting(op'[s]) /\ op'[s].act = next_txn_id
            \/ txn' = [txn EXCEPT ![s] = next_txn_id] /\ ~Acting(op'[s])
<1> DEFINE n == next_txn_id
<1>1. /\ Knows(s, op[s]) /\ txn \in [Sessions -> Txns \cup {NoTxn}]
      /\ op = [u \in Sessions |-> op[u]]
  BY DEF TableInv, Statements, TableTypeOK
<1>2. begin /\ UNCHANGED <<client, heap, index, owner, outcome>>
  BY Zenon DEF BeginStep, execBegin, execInsert, writerBegin, beginTxn
<1>3. n \in Txns /\ n # NoTxn BY <1>2, TxnIdsAssumption DEF begin, Txns, NoTxn
<1>4. CASE execBegin(s)
  <2>1. Moves(s, Idle) /\ txn' = [txn EXCEPT ![s] = n] /\ op[s].pc = "idle" /\ txn[s] = NoTxn
    BY <1>4 DEF execBegin, Moves
  <2>2. op'[s] = Idle /\ txn'[s] = n BY <1>1, <2>1 DEF Moves
  <2>3. Idle.pc = "idle" /\ Idle.act = NoTxn /\ Idle.rid = NoRid /\ DOMAIN Idle = OpFields
    BY DEF Idle, OpFields
  <2>4. Knows(s, op[s])' BY <2>2, <2>3 DEF Knows, Acting
  <2> QED BY <1>2, <2>1, <2>2, <2>3, <2>4 DEF Acting
<1>5. ASSUME NEW k \in Keys, execInsert(s, k), AutoCommit(s)
      PROVE  /\ txn[s] = NoTxn /\ ~Acting(op[s]) /\ Moves(s, op'[s]) /\ Knows(s, op[s])'
             /\ txn' = txn /\ Acting(op'[s]) /\ op'[s].act = next_txn_id
  <2> DEFINE o == [Idle EXCEPT !.pc = "search", !.kind = "INSERT", !.key = k,
                                !.act = IF AutoCommit(s) THEN next_txn_id ELSE txn[s]]
  <2>1. Moves(s, o) /\ txn' = txn /\ op[s].pc = "idle" /\ txn[s] = NoTxn
    BY <1>5 DEF execInsert, Moves, AutoCommit
  <2>2. op'[s] = o BY <1>1, <2>1 DEF Moves
  <2>3. /\ o.pc = "search" /\ o.kind = "INSERT" /\ o.key = k /\ DOMAIN o = OpFields
        /\ o.act = n /\ o.rid = NoRid
    BY <1>5 DEF Idle, OpFields
  <2> HIDE DEF o
  <2>4. Knows(s, op[s])' BY <1>3, <2>1, <2>2, <2>3 DEF Knows, Acting
  <2> QED BY <2>1, <2>2, <2>3, <2>4 DEF Acting
<1>6. CASE writerBegin(s)
  <2> DEFINE o == [op[s] EXCEPT !.pc = "lock", !.act = n]
  <2>1. Moves(s, o) /\ txn' = txn /\ op[s].pc = "begin" BY <1>6, Zenon DEF writerBegin, Moves
  <2>2. op'[s] = o BY <1>1, <2>1 DEF Moves
  <2>3. /\ o.pc = "lock" /\ o.kind = op[s].kind /\ o.key = op[s].key /\ DOMAIN o = OpFields
        /\ o.act = n /\ o.rid = op[s].rid
    BY <1>1 DEF Knows, OpFields
  <2> HIDE DEF o
  <2>4. Knows(s, op[s])' BY <1>1, <1>2, <1>3, <2>1, <2>2, <2>3 DEF Knows, Acting
  <2> QED BY <1>1, <1>2, <2>1, <2>2, <2>3, <2>4 DEF Acting, Knows
<1> QED BY <1>2, <1>4, <1>5, <1>6 DEF BeginStep

(* A transaction that begins is new to everyone. *)
LEMMA BeginStepInv == ASSUME TableInv, NEW s \in Sessions, BeginStep(s) PROVE TableInv'
<1> DEFINE n == next_txn_id
<1>1. /\ begin /\ UNCHANGED <<client, heap, index, owner, outcome>>
      /\ txn[s] = NoTxn /\ ~Acting(op[s])
      /\ Moves(s, op'[s]) /\ Knows(s, op[s])'
      /\ \/ txn' = txn /\ Acting(op'[s]) /\ op'[s].act = next_txn_id
         \/ txn' = [txn EXCEPT ![s] = next_txn_id] /\ ~Acting(op'[s])
  BY BeginStepMoves
<1>2. /\ \A u \in Sessions \ {s} : op'[u] = op[u] /\ txn'[u] = txn[u]
      /\ op' = [u \in Sessions |-> op'[u]]
  BY <1>1 DEF TableInv, TableTypeOK, Moves
<1>3. /\ n \in Txns /\ n # NoTxn /\ n \in Nat /\ next_txn_id' = n + 1 /\ Txns \subseteq Nat
      /\ Active' = Active \cup {n} /\ n \notin Active
  <2>b. begin BY <1>1
  <2>1. n \in Txns /\ n # NoTxn /\ n \in Nat /\ next_txn_id' = n + 1 /\ Txns \subseteq Nat
    BY <2>b, TxnIdsAssumption DEF begin, Txns, NoTxn
  <2>2. Active' = Active \cup {n} BY <1>1, <2>1 DEF TableInv, MVCCInv, MVCCTypeOK, begin, Active
  <2>3. n \notin Active BY <2>1 DEF TableInv, MVCCInv, Fresh, Active
  <2> QED BY <2>1, <2>2, <2>3
<1>4. MVCCInv' BY <1>1, BeginInv DEF TableInv
<1>5. TableTypeOK'
  <2>1. txn' \in [Sessions -> Txns \cup {NoTxn}] BY <1>1, <1>3 DEF TableInv, TableTypeOK
  <2> QED BY <1>1, <1>2, <2>1 DEF TableInv, TableTypeOK
<1>6. Statements'
  <2>1. ASSUME NEW u \in Sessions \ {s} PROVE Knows(u, op[u])'
    <3>1. Knows(u, op[u]) BY DEF TableInv, Statements
    <3> QED BY <1>1, <1>2, <3>1, KnowsStill
  <2> QED BY <1>1, <2>1 DEF Statements
<1>7. Owners'
  <2>1. Mine(s)' = n BY <1>1, <1>3 DEF Mine, TableInv, TableTypeOK
  <2>2. \A u \in Sessions \ {s} : Mine(u)' = Mine(u) BY <1>2 DEF Mine
  <2>3. \A u \in Sessions : Mine(u) # NoTxn => Mine(u) \in Active BY DEF TableInv, Owners
  <2>4. \A t \in Txns : t \in Active' \/ next_txn_id' <= t => outcome'[t] = "none"
    BY <1>1, <1>3 DEF TableInv, Owners
  <2>5. \A r \in Rids : owner'[r] # NoTxn => owner'[r] \in Active' /\ r \in DOMAIN heap'
    BY <1>1, <1>3 DEF TableInv, Owners
  <2>6. \A u, v \in Sessions : u # v /\ Mine(u)' # NoTxn => Mine(u)' # Mine(v)'
    BY <1>3, <2>1, <2>2, <2>3 DEF TableInv, Owners
  <2>7. \A u \in Sessions : Mine(u)' # NoTxn => Mine(u)' \in Active'
    BY <1>3, <2>1, <2>2, <2>3
  <2> QED BY <2>4, <2>5, <2>6, <2>7 DEF Owners
<1> QED BY <1>4, <1>5, <1>6, <1>7 DEF TableInv

(* The steps that end a transaction: the session's, which goes idle. *)
LEMMA EndStepMoves ==
  ASSUME TableInv, NEW s \in Sessions, EndStep(s)
  PROVE  \E t \in Txns :
           /\ t = Mine(s) /\ (commit(t) \/ abort(t)) /\ Release(t)
           /\ UNCHANGED <<client, heap, index>>
           /\ \E how \in {"committed", "aborted"} : outcome' = [outcome EXCEPT ![t] = how]
           /\ txn' = [txn EXCEPT ![s] = NoTxn]
           /\ Moves(s, op'[s]) /\ Knows(s, op[s])' /\ op'[s].pc = "idle"
<1>1. /\ Knows(s, op[s]) /\ txn \in [Sessions -> Txns \cup {NoTxn}]
      /\ op = [u \in Sessions |-> op[u]]
  BY DEF TableInv, Statements, TableTypeOK
<1>2. ASSUME txn'[s] = NoTxn, op'[s].pc = "idle", DOMAIN op'[s] = OpFields,
             op'[s].act \in Txns \cup {NoTxn}, op'[s].rid = NoRid
      PROVE  Knows(s, op[s])'
  BY <1>2 DEF Knows, Acting
<1>3. CASE execCommit(s) \/ execRollback(s)
  <2> DEFINE t == txn[s]
  <2>1. /\ t # NoTxn /\ (commit(t) \/ abort(t)) /\ Release(t) /\ UNCHANGED <<client, heap, index>>
        /\ \E how \in {"committed", "aborted"} : outcome' = [outcome EXCEPT ![t] = how]
        /\ txn' = [txn EXCEPT ![s] = NoTxn] /\ Moves(s, Idle)
    BY <1>3 DEF execCommit, execRollback, Moves
  <2>2. op'[s] = Idle /\ txn'[s] = NoTxn BY <1>1, <2>1 DEF Moves
  <2>3. Idle.pc = "idle" /\ Idle.act = NoTxn /\ Idle.rid = NoRid /\ DOMAIN Idle = OpFields
    BY DEF Idle, OpFields
  <2>4. t = Mine(s) /\ t \in Txns BY <1>1, <2>1 DEF Mine
  <2>5. Knows(s, op[s])' BY <1>2, <2>2, <2>3
  <2> QED BY <2>1, <2>2, <2>3, <2>4, <2>5, Zenon
<1>4. ASSUME NEW how, Return(s, how), txn[s] = NoTxn, Acting(op[s]), txn' = txn
      PROVE  /\ op[s].act = Mine(s) /\ op[s].act \in Txns /\ txn' = [txn EXCEPT ![s] = NoTxn]
             /\ Moves(s, op'[s]) /\ Knows(s, op[s])' /\ op'[s].pc = "idle"
  <2> DEFINE o == [Idle EXCEPT !.kind = op[s].kind, !.key = op[s].key, !.act = op[s].act,
                               !.seen = op[s].seen, !.result = how]
  <2>1. Moves(s, o) BY <1>4 DEF Return, Moves
  <2>2. o.pc = "idle" /\ DOMAIN o = OpFields /\ o.act = op[s].act /\ o.rid = NoRid
    BY DEF Idle, OpFields
  <2> HIDE DEF o
  <2>3. op'[s] = o BY <1>1, <2>1 DEF Moves
  <2>4. op[s].act = Mine(s) /\ op[s].act \in Txns BY <1>1, <1>4 DEF Mine, Knows
  <2>5. Knows(s, op[s])' BY <1>2, <1>4, <2>2, <2>3, <2>4
  <2>6. txn' = [txn EXCEPT ![s] = NoTxn] BY <1>1, <1>4
  <2> QED BY <2>1, <2>2, <2>3, <2>4, <2>5, <2>6
<1>5. CASE autoCommit(s)
  <2>1. txn[s] = NoTxn /\ Acting(op[s]) BY <1>1, <1>5 DEF autoCommit, Knows, Acting
  <2> QED BY <1>4, <1>5, <2>1, Zenon DEF autoCommit
<1>6. CASE (lockError(s) \/ alreadyDeleted(s)) /\ AutoCommit(s)
  <2>1. txn[s] = NoTxn /\ Acting(op[s]) BY <1>6, Zenon DEF lockError, alreadyDeleted, Acting, AutoCommit
  <2> QED BY <1>4, <1>6, <2>1, Zenon DEF lockError, alreadyDeleted, Fail
<1> QED BY <1>3, <1>5, <1>6, Zenon DEF EndStep

(* The heap keeps within its bound, and so do the rids in use. *)
LEMMA HeapFits ==
  ASSUME TableInv
  PROVE  /\ DOMAIN heap = 1 .. Len(heap) /\ Len(heap) \in Nat /\ DOMAIN heap \subseteq Rids
         /\ Len(heap) < client.versions => NewRid \in Rids
<1>1. /\ Len(heap) <= client.versions /\ Len(heap) \in Nat /\ client.versions \in Nat
      /\ DOMAIN heap = 1 .. Len(heap) /\ MaxVersions \in Nat /\ client.versions <= MaxVersions
  BY ClientsAssumption DEF TableInv, TableTypeOK
<1> QED BY <1>1 DEF Rids, NewRid

(* Where a statement runs in a transaction, that is the session's. *)
LEMMA ActIsMine ==
  ASSUME TableInv, NEW s \in Sessions, Acting(op[s])
  PROVE  /\ op[s].act = Mine(s) /\ op[s].act \in Txns /\ op[s].act \in Active
         /\ op[s].act # NoTxn /\ op[s].act \in Ids /\ NoTxn \in Ids
<1>1. Knows(s, op[s]) BY DEF TableInv, Statements
<1>2. op[s].pc # "idle" BY DEF Acting
<1>3. op[s].act = Mine(s) /\ op[s].act # NoTxn /\ op[s].act \in Txns BY <1>1, <1>2 DEF Knows, Mine
<1>4. Txns \subseteq Ids /\ NoTxn \in Ids BY TxnIdsAssumption DEF Txns, Ids, NoTxn
<1>5. op[s].act \in Active BY <1>3, Zenon DEF TableInv, Owners
<1> QED BY <1>3, <1>4, <1>5

(* A transaction that ends takes its locks with it, and nobody else's. *)
LEMMA EndStepInv == ASSUME TableInv, NEW s \in Sessions, EndStep(s) PROVE TableInv'
<1>1. PICK t \in Txns :
           /\ t = Mine(s) /\ (commit(t) \/ abort(t)) /\ Release(t)
           /\ UNCHANGED <<client, heap, index>>
           /\ \E how \in {"committed", "aborted"} : outcome' = [outcome EXCEPT ![t] = how]
           /\ txn' = [txn EXCEPT ![s] = NoTxn]
           /\ Moves(s, op'[s]) /\ Knows(s, op[s])' /\ op'[s].pc = "idle"
  BY EndStepMoves
<1>2. /\ \A u \in Sessions \ {s} : op'[u] = op[u] /\ txn'[u] = txn[u]
      /\ op' = [u \in Sessions |-> op'[u]]
  BY <1>1, Zenon DEF TableInv, TableTypeOK, Moves
<1>3. /\ Active' = Active \ {t} /\ next_txn_id' = next_txn_id /\ t \in Active /\ t # NoTxn
  <2>1. t # NoTxn BY TxnIdsAssumption DEF Txns, NoTxn
  <2> QED BY <1>1, <2>1 DEF TableInv, MVCCInv, MVCCTypeOK, commit, abort, Active
<1>4. MVCCInv' BY <1>1, EndInv DEF TableInv
<1>5. \A r \in Rids : owner'[r] = IF owner[r] = t THEN NoTxn ELSE owner[r] BY <1>1 DEF Release
<1>6. TableTypeOK'
  <2>1. txn' \in [Sessions -> Txns \cup {NoTxn}] BY <1>1 DEF TableInv, TableTypeOK
  <2>4. owner' \in [Rids -> Ids]
    <3>1. NoTxn \in Ids BY TxnIdsAssumption DEF Ids, NoTxn
    <3> QED BY <1>1, <3>1 DEF Release, TableInv, TableTypeOK
  <2>5. outcome' \in [Txns -> {"none", "committed", "aborted"}] BY <1>1 DEF TableInv, TableTypeOK
  <2> QED BY <1>1, <1>2, <2>1, <2>4, <2>5 DEF TableInv, TableTypeOK
<1>7. \A u \in Sessions \ {s} : Mine(u)' = Mine(u) /\ Mine(u) # t
  <2>1. \A u \in Sessions \ {s} : Mine(u)' = Mine(u) BY <1>2 DEF Mine
  <2>2. \A u \in Sessions \ {s} : Mine(u) # t BY <1>1, <1>3 DEF TableInv, Owners
  <2> QED BY <2>1, <2>2
<1>8. Statements'
  <2>1. ASSUME NEW u \in Sessions \ {s} PROVE Knows(u, op[u])'
    <3>1. Knows(u, op[u]) BY DEF TableInv, Statements
    <3>2. Acting(op[u]) => op[u].act # t BY <1>7, ActIsMine
    <3>3. \A r \in DOMAIN heap : Acting(op[u]) /\ owner[r] = op[u].act => owner'[r] = op[u].act
      BY <1>5, <3>2, HeapFits
    <3> QED BY <1>1, <1>2, <3>1, <3>3, KnowsStill
  <2> QED BY <1>1, <2>1 DEF Statements
<1>9. Owners'
  <2>1. Mine(s)' = NoTxn BY <1>1 DEF Mine, Acting, TableInv, TableTypeOK
  <2>2. \A u \in Sessions : Mine(u) # NoTxn => Mine(u) \in Active BY DEF TableInv, Owners
  <2>3. \A x \in Txns : x \in Active' \/ next_txn_id' <= x => outcome'[x] = "none"
    <3>1. t < next_txn_id /\ \A x \in Txns : x \in Nat
      BY <1>1, <1>3, TxnIdsAssumption DEF TableInv, MVCCInv, MVCCTypeOK, Fresh, Active, Txns
    <3>2. \A x \in Txns : x \in Active' \/ next_txn_id' <= x => x # t /\ outcome[x] = "none"
      BY <1>3, <3>1 DEF TableInv, Owners, MVCCInv, MVCCTypeOK
    <3> QED BY <1>1, <3>2 DEF TableInv, TableTypeOK
  <2>4. \A r \in Rids : owner'[r] # NoTxn => owner'[r] \in Active' /\ r \in DOMAIN heap'
    BY <1>1, <1>3, <1>5 DEF TableInv, Owners
  <2>5. \A u, v \in Sessions : u # v /\ Mine(u)' # NoTxn => Mine(u)' # Mine(v)'
    BY <1>7, <2>1 DEF TableInv, Owners
  <2>6. \A u \in Sessions : Mine(u)' # NoTxn => Mine(u)' \in Active'
    BY <1>3, <1>7, <2>1, <2>2
  <2> QED BY <2>3, <2>4, <2>5, <2>6 DEF Owners
<1> QED BY <1>4, <1>6, <1>8, <1>9 DEF TableInv

(* A step that goes on in the statement, in the same transaction. *)
Proceeds(s, pc) ==
  /\ op'[s].pc = pc /\ DOMAIN op'[s] = OpFields
  /\ op'[s].kind = op[s].kind /\ op'[s].key = op[s].key /\ op'[s].act = op[s].act /\ op'[s].rid = op[s].rid

(* Goto only moves on. *)
LEMMA GotoProceeds ==
  ASSUME TableInv, NEW s \in Sessions, NEW pc, Goto(s, pc)
  PROVE  Moves(s, op'[s]) /\ Proceeds(s, pc)
<1> DEFINE o == [op[s] EXCEPT !.pc = pc]
<1>1. DOMAIN op[s] = OpFields /\ op = [u \in Sessions |-> op[u]]
  BY DEF TableInv, Statements, TableTypeOK, Knows
<1>2. op' = [op EXCEPT ![s] = o] BY DEF Goto
<1>3. /\ o.pc = pc /\ DOMAIN o = OpFields
      /\ o.kind = op[s].kind /\ o.key = op[s].key /\ o.act = op[s].act /\ o.rid = op[s].rid
  BY <1>1 DEF OpFields
<1> HIDE DEF o
<1>4. op'[s] = o BY <1>1, <1>2
<1> QED BY <1>2, <1>3, <1>4, Zenon DEF Moves, Proceeds

(* The end of a write: the transaction goes on, or is committed next. *)
LEMMA SucceedMoves ==
  ASSUME TableInv, NEW s \in Sessions, Succeed(s), op[s].pc \in {"write", "index"},
         txn' = txn, DOMAIN heap \subseteq DOMAIN heap'
  PROVE  Moves(s, op'[s]) /\ Knows(s, op[s])' /\ Mine(s)' = Mine(s)
<1>1. /\ Knows(s, op[s]) /\ op = [u \in Sessions |-> op[u]] /\ txn \in [Sessions -> Txns \cup {NoTxn}]
  BY DEF TableInv, Statements, TableTypeOK
<1>2. Acting(op[s]) BY DEF Acting
<1>3. op[s].act = Mine(s) /\ op[s].act \in Txns BY <1>2, ActIsMine
<1>4. op[s].act # NoTxn BY <1>1, <1>2 DEF Knows
<1>5. CASE AutoCommit(s)
  <2>1. Moves(s, op'[s]) /\ Proceeds(s, "commit") BY <1>5, GotoProceeds DEF Succeed
  <2> QED BY <1>1, <1>3, <1>4, <1>5, <2>1 DEF Proceeds, Knows, Acting, Mine, AutoCommit
<1>6. CASE ~AutoCommit(s)
  <2> DEFINE o == [Idle EXCEPT !.kind = op[s].kind, !.key = op[s].key, !.act = op[s].act,
                               !.seen = op[s].seen, !.result = "ok"]
  <2>1. Moves(s, o) BY <1>6 DEF Succeed, Return, Moves
  <2>2. o.pc = "idle" /\ DOMAIN o = OpFields /\ o.act = op[s].act /\ o.rid = NoRid
    BY DEF Idle, OpFields
  <2> HIDE DEF o
  <2>3. op'[s] = o BY <1>1, <2>1 DEF Moves
  <2> QED BY <1>3, <1>6, <2>1, <2>2, <2>3 DEF Knows, Acting, Mine, AutoCommit
<1> QED BY <1>5, <1>6

(* Steps of a statement in its transaction: rows are locked that were      *)
(* free, versions keep their creator and their key.                        *)
LEMMA WorkStep ==
  ASSUME TableInv, NEW s \in Sessions, UNCHANGED <<mvcc, client, txn, outcome>>, Acting(op[s]),
         Moves(s, op'[s]), Mine(s)' = Mine(s), Knows(s, op[s])', TableTypeOK',
         DOMAIN heap \subseteq DOMAIN heap',
         \A r \in DOMAIN heap : heap'[r].create = heap[r].create /\ heap'[r].key = heap[r].key,
         \A r \in Rids : \/ owner'[r] = owner[r]
                          \/ /\ owner[r] \in {NoTxn, op[s].act} /\ owner'[r] = op[s].act
                             /\ r \in DOMAIN heap'
  PROVE  TableInv'
<1>1. op[s].act = Mine(s) /\ op[s].act \in Active /\ op[s].act # NoTxn
  <2>1. op[s].act = Mine(s) /\ op[s].act \in Active BY ActIsMine
  <2>2. op[s].act # NoTxn BY Zenon DEF TableInv, Statements, Knows
  <2> QED BY <2>1, <2>2
<1>2. \A u \in Sessions \ {s} : op'[u] = op[u] /\ txn'[u] = txn[u]
  BY DEF TableInv, TableTypeOK, Moves
<1>3. \A u \in Sessions : Mine(u)' = Mine(u) BY <1>2, Zenon DEF Mine
<1>4. Active' = Active /\ next_txn_id' = next_txn_id BY DEF Active, mvcc
<1>5. MVCCInv' BY NextInv DEF TableInv
<1>6. Statements'
  <2>1. ASSUME NEW u \in Sessions \ {s} PROVE Knows(u, op[u])'
    <3>1. Knows(u, op[u]) BY DEF TableInv, Statements
    <3>2. Acting(op[u]) => op[u].act # op[s].act /\ op[u].act # NoTxn
      <4>1. Mine(u) # Mine(s) BY <1>1, ZenonT(30) DEF TableInv, Owners
      <4> QED BY <1>1, <3>1, <4>1, ActIsMine DEF Knows
    <3>3. \A r \in DOMAIN heap : Acting(op[u]) /\ owner[r] = op[u].act => owner'[r] = op[u].act
      BY <3>2, HeapFits
    <3> QED BY <1>2, <3>1, <3>3, KnowsStill
  <2> QED BY <2>1 DEF Statements
<1>7. Owners'
  <2>1. \A r \in Rids : owner'[r] # NoTxn => owner'[r] \in Active' /\ r \in DOMAIN heap'
    BY <1>1, <1>4, Zenon DEF TableInv, Owners
  <2> QED BY <1>3, <1>4, <2>1 DEF TableInv, Owners
<1> QED BY <1>5, <1>6, <1>7 DEF TableInv

(* The lock manager grants a free row. *)
LEMMA AcquireInv ==
  ASSUME TableInv, NEW s \in Sessions, acquireExclusive(s)
  PROVE  TableInv' /\ owner[op[s].rid] \in {NoTxn, op[s].act} /\ op[s].rid \in Rids /\ Acting(op[s])
<1>1. /\ op[s].pc = "lock" /\ ~LockedByOther(s) /\ Goto(s, "write")
      /\ owner' = [owner EXCEPT ![op[s].rid] = op[s].act]
      /\ UNCHANGED <<mvcc, client, heap, index, txn, outcome>>
  BY DEF acquireExclusive
<1>2. Moves(s, op'[s]) /\ Proceeds(s, "write") BY <1>1, GotoProceeds
<1>3. Knows(s, op[s]) BY DEF TableInv, Statements
<1>4. Acting(op[s]) BY <1>1 DEF Acting
<1>5. op[s].rid \in DOMAIN heap /\ op[s].rid \in Rids BY <1>1, <1>3, HeapFits DEF Knows
<1>6. op[s].act \in Txns /\ op[s].act # NoTxn /\ op[s].act \in Ids
  BY <1>4, ActIsMine, Zenon
<1>7. owner[op[s].rid] \in {NoTxn, op[s].act} BY <1>1 DEF LockedByOther
<1>8. /\ owner' \in [Rids -> Ids] /\ owner'[op[s].rid] = op[s].act
      /\ \A r \in Rids : owner'[r] = owner[r] \/ r = op[s].rid
  BY <1>1, <1>5, <1>6 DEF TableInv, TableTypeOK
<1>10. TableTypeOK'
  <2>1. op' = [u \in Sessions |-> op'[u]] BY <1>2 DEF Moves, TableInv, TableTypeOK
  <2> QED BY <1>1, <1>8, <2>1 DEF TableInv, TableTypeOK
<1>11. Knows(s, op[s])' BY <1>1, <1>2, <1>3, <1>6, <1>8, Zenon DEF Knows, Proceeds, Acting
<1>12. Mine(s)' = Mine(s) BY <1>1, <1>2, <1>4 DEF Mine, Proceeds, Acting
<1> QED BY <1>1, <1>2, <1>4, <1>5, <1>7, <1>8, <1>10, <1>11, <1>12, WorkStep

(* A sequence is also one over a larger set. *)
LEMMA SeqOfMore == ASSUME NEW S, NEW T, S \subseteq T, NEW q \in Seq(S) PROVE q \in Seq(T)
OBVIOUS

(* A statement adds a version of its key, in its transaction. *)
LEMMA AddInv ==
  ASSUME TableInv, NEW s \in Sessions, op[s].pc = "write",
         NEW h \in Seq(Versions), Len(h) = Len(heap),
         \A r \in DOMAIN heap : h[r].create = heap[r].create /\ h[r].key = heap[r].key,
         NEW prev \in Nat, insertRecord(s, h, prev), UNCHANGED <<mvcc, client, index, txn, outcome>>,
         owner' = owner \/ owner' = [owner EXCEPT ![NewRid] = op[s].act]
  PROVE  /\ TableInv' /\ Acting(op[s]) /\ NewRid \in Rids /\ owner[NewRid] = NoTxn
         /\ \A r \in DOMAIN heap : heap'[r] = h[r]
<1> DEFINE n == NewRid
           v == Version(s, prev)
           o == [op[s] EXCEPT !.pc = "index", !.new = n]
<1>1. Knows(s, op[s]) /\ Acting(op[s]) /\ op = [u \in Sessions |-> op[u]]
  BY DEF TableInv, Statements, TableTypeOK, Acting
<1>2. /\ Len(heap) < client.versions /\ heap' = Append(h, v) /\ Moves(s, o)
  BY Zenon DEF insertRecord, Moves
<1>3. /\ n \in Rids /\ n \notin DOMAIN heap /\ n \in Nat /\ n = Len(heap) + 1 /\ Len(heap) \in Nat
      /\ DOMAIN heap = 1 .. Len(heap)
  BY <1>2, HeapFits DEF NewRid
<1>4. owner[n] = NoTxn BY <1>3 DEF TableInv, Owners
<1>5. /\ op[s].act \in Txns /\ op[s].act # NoTxn /\ op[s].act \in Ids /\ op[s].key \in Keys
      /\ NoTxn \in Ids
  <2>1. op[s].key \in Keys BY <1>1, Zenon DEF Knows
  <2> QED BY <1>1, <2>1, ActIsMine, Zenon
<1>6. v \in Versions /\ v.create = op[s].act /\ v.key = op[s].key BY <1>5 DEF Version, Versions
<1> HIDE DEF n, v
<1>7. /\ op'[s].pc = "index" /\ op'[s].new = n /\ Moves(s, op'[s]) /\ DOMAIN op'[s] = OpFields
      /\ op'[s].kind = op[s].kind /\ op'[s].key = op[s].key /\ op'[s].act = op[s].act
      /\ op'[s].rid = op[s].rid
  <2>1. /\ o.pc = "index" /\ o.new = n /\ DOMAIN o = OpFields
        /\ o.kind = op[s].kind /\ o.key = op[s].key /\ o.act = op[s].act /\ o.rid = op[s].rid
    BY <1>1 DEF Knows, OpFields
  <2> HIDE DEF o
  <2> QED BY <1>1, <1>2, <2>1 DEF Moves
<1>8. /\ heap' \in Seq(Versions) /\ Len(heap') = n /\ DOMAIN heap \subseteq DOMAIN heap'
      /\ n \in DOMAIN heap' /\ heap'[n] = v /\ \A r \in DOMAIN heap : heap'[r] = h[r]
  BY <1>2, <1>3, <1>6
<1>9. owner' \in [Rids -> Ids] /\ \A r \in Rids : owner'[r] = owner[r] \/ (r = n /\ owner'[r] = op[s].act)
  BY <1>5 DEF TableInv, TableTypeOK, n
<1>10. TableTypeOK'
  <2>1. Len(heap') <= client'.versions
    BY <1>2, <1>3, <1>8, ClientsAssumption DEF TableInv, TableTypeOK
  <2>2. op' = [u \in Sessions |-> op'[u]] BY <1>7 DEF Moves, TableInv, TableTypeOK
  <2>3. index' \in [Keys -> Seq(DOMAIN heap')] BY <1>8, SeqOfMore, Zenon DEF TableInv, TableTypeOK
  <2> QED BY <1>8, <1>9, <2>1, <2>2, <2>3 DEF TableInv, TableTypeOK
<1>11. Knows(s, op[s])' BY <1>1, <1>5, <1>6, <1>7, <1>8 DEF Knows, Acting
<1>12. Mine(s)' = Mine(s) BY <1>1, <1>7 DEF Mine, Acting
<1>13. \A r \in DOMAIN heap : heap'[r].create = heap[r].create /\ heap'[r].key = heap[r].key
  BY <1>8, Zenon
<1>14. \A r \in Rids : \/ owner'[r] = owner[r]
                       \/ /\ owner[r] \in {NoTxn, op[s].act} /\ owner'[r] = op[s].act
                          /\ r \in DOMAIN heap'
  BY <1>4, <1>8, <1>9, Zenon
<1>15. TableInv' BY <1>1, <1>7, <1>8, <1>10, <1>11, <1>12, <1>13, <1>14, WorkStep, Zenon
<1> QED BY <1>1, <1>3, <1>4, <1>8, <1>15 DEF n

(* A tombstone changes nothing else. *)
LEMMA StampedHeap ==
  ASSUME NEW h \in Seq(Versions), NEW r \in DOMAIN h, NEW t \in Ids
  PROVE  /\ Stamped(h, r, t) \in Seq(Versions) /\ Len(Stamped(h, r, t)) = Len(h)
         /\ DOMAIN Stamped(h, r, t) = DOMAIN h /\ Stamped(h, r, t)[r].delete = t
         /\ \A q \in DOMAIN h : /\ Stamped(h, r, t)[q].create = h[q].create
                                /\ Stamped(h, r, t)[q].key = h[q].key
                                /\ q # r => Stamped(h, r, t)[q] = h[q]
<1> DEFINE w == [h[r] EXCEPT !.delete = t]
<1>1. h[r] \in Versions OBVIOUS
<1>2. w \in Versions /\ w.delete = t /\ w.create = h[r].create /\ w.key = h[r].key BY <1>1 DEF Versions
<1>3. Stamped(h, r, t) = [h EXCEPT ![r] = w] BY DEF Stamped
<1> HIDE DEF w
<1> QED BY <1>2, <1>3

(* What UPDATE and DELETE write over: a row they have locked. *)
LEMMA Superseding ==
  ASSUME TableInv, NEW s \in Sessions, op[s].pc = "write", op[s].kind # "INSERT",
         NEW h, h = Stamped(heap, op[s].rid, op[s].act)
  PROVE  /\ op[s].rid \in DOMAIN heap /\ op[s].rid \in Nat /\ owner[op[s].rid] = op[s].act
         /\ h \in Seq(Versions) /\ Len(h) = Len(heap) /\ DOMAIN h = DOMAIN heap
         /\ h[op[s].rid].delete = op[s].act
         /\ \A r \in DOMAIN heap : h[r].create = heap[r].create /\ h[r].key = heap[r].key
         /\ \A r \in DOMAIN heap : r # op[s].rid => h[r] = heap[r]
<1>1. Knows(s, op[s]) BY DEF TableInv, Statements
<1>2. heap \in Seq(Versions) BY DEF TableInv, TableTypeOK
<1>3. op[s].rid \in DOMAIN heap /\ owner[op[s].rid] = op[s].act BY <1>1 DEF Knows
<1>4. op[s].act \in Ids
  <2>1. Acting(op[s]) BY DEF Acting
  <2> QED BY <2>1, ActIsMine, Zenon
<1>5. op[s].rid \in Nat BY <1>2, <1>3
<1>6. /\ h \in Seq(Versions) /\ Len(h) = Len(heap) /\ DOMAIN h = DOMAIN heap
      /\ h[op[s].rid].delete = op[s].act
      /\ \A r \in DOMAIN heap : /\ h[r].create = heap[r].create /\ h[r].key = heap[r].key
                                /\ r # op[s].rid => h[r] = heap[r]
  <2>1. op[s].rid \in DOMAIN heap BY <1>3
  <2> QED BY <1>2, <1>4, <2>1, StampedHeap
<1> QED BY <1>3, <1>5, <1>6, Zenon

(* insert's heap write. *)
LEMMA InsertInv ==
  ASSUME TableInv, NEW s \in Sessions, insertVersion(s)
  PROVE  /\ TableInv' /\ Acting(op[s]) /\ UNCHANGED <<mvcc, txn, outcome>>
         /\ \A r \in DOMAIN heap : heap'[r] = heap[r]
         /\ \/ owner' = owner
            \/ /\ NewRid \in Rids /\ owner[NewRid] = NoTxn
               /\ owner' = [owner EXCEPT ![NewRid] = op[s].act]
<1> DEFINE existing == op[s].rid
           prev == IF existing # NoRid /\ heap[existing].delete # NoTxn THEN existing ELSE NoRid
<1>1. /\ op[s].pc = "write" /\ insertRecord(s, heap, prev)
      /\ owner' = owner \/ owner' = [owner EXCEPT ![NewRid] = op[s].act]
      /\ UNCHANGED <<mvcc, client, index, txn, outcome>>
  BY Zenon DEF insertVersion
<1>2. /\ Knows(s, op[s]) /\ heap \in Seq(Versions) BY DEF TableInv, Statements, TableTypeOK
<1>3. prev \in Nat
  <2>1. existing \in DOMAIN heap \cup {NoRid} BY <1>2, Zenon DEF Knows
  <2> QED BY <1>2, <2>1 DEF NoRid
<1> HIDE DEF prev
<1>4. /\ TableInv' /\ Acting(op[s]) /\ NewRid \in Rids /\ owner[NewRid] = NoTxn
      /\ \A r \in DOMAIN heap : heap'[r] = heap[r]
  BY <1>1, <1>2, <1>3, AddInv, ZenonT(30)
<1> QED BY <1>1, <1>4, Zenon

(* updateRecord's write: a tombstone on a row it has locked, and a new version. *)
LEMMA UpdateInv ==
  ASSUME TableInv, NEW s \in Sessions, updateRecord(s)
  PROVE  /\ TableInv' /\ Acting(op[s]) /\ UNCHANGED <<mvcc, txn, outcome>>
         /\ op[s].rid \in DOMAIN heap /\ owner[op[s].rid] = op[s].act /\ heap[op[s].rid].delete = NoTxn
         /\ \A r \in DOMAIN heap : heap'[r] = heap[r] \/ (r = op[s].rid /\ heap'[r].delete = op[s].act)
         /\ NewRid \in Rids /\ owner[NewRid] = NoTxn /\ owner' = [owner EXCEPT ![NewRid] = op[s].act]
<1> DEFINE r0 == op[s].rid
           h == Stamped(heap, r0, op[s].act)
<1>1. /\ op[s].pc = "write" /\ op[s].kind = "UPDATE" /\ heap[r0].delete = NoTxn
      /\ insertRecord(s, h, r0) /\ owner' = [owner EXCEPT ![NewRid] = op[s].act]
      /\ UNCHANGED <<mvcc, client, index, txn, outcome>>
  BY Zenon DEF updateRecord
<1>5. /\ r0 \in DOMAIN heap /\ r0 \in Nat /\ owner[r0] = op[s].act
      /\ h \in Seq(Versions) /\ Len(h) = Len(heap) /\ h[r0].delete = op[s].act
      /\ \A r \in DOMAIN heap : h[r].create = heap[r].create /\ h[r].key = heap[r].key
      /\ \A r \in DOMAIN heap : r # r0 => h[r] = heap[r]
  BY <1>1, Superseding, Zenon
<1> HIDE DEF h
<1>6. /\ TableInv' /\ Acting(op[s]) /\ NewRid \in Rids /\ owner[NewRid] = NoTxn
      /\ \A r \in DOMAIN heap : heap'[r] = h[r]
  BY <1>1, <1>5, AddInv, Zenon
<1> QED BY <1>1, <1>5, <1>6, Zenon

(* markDeleted's write: a tombstone on a row it has locked. *)
LEMMA DeleteInv ==
  ASSUME TableInv, NEW s \in Sessions, markDeleted(s)
  PROVE  /\ TableInv' /\ Acting(op[s]) /\ UNCHANGED <<mvcc, owner, txn, outcome>>
         /\ op[s].rid \in DOMAIN heap /\ owner[op[s].rid] = op[s].act /\ heap[op[s].rid].delete = NoTxn
         /\ \A r \in DOMAIN heap : heap'[r] = heap[r] \/ (r = op[s].rid /\ heap'[r].delete = op[s].act)
<1> DEFINE r0 == op[s].rid
<1>1. /\ op[s].pc = "write" /\ op[s].kind = "DELETE" /\ heap[r0].delete = NoTxn
      /\ heap' = Stamped(heap, r0, op[s].act) /\ Succeed(s)
      /\ UNCHANGED <<mvcc, client, index, owner, txn, outcome>>
  BY Zenon DEF markDeleted
<1>5. /\ r0 \in DOMAIN heap /\ owner[r0] = op[s].act
      /\ heap' \in Seq(Versions) /\ Len(heap') = Len(heap) /\ DOMAIN heap' = DOMAIN heap
      /\ heap'[r0].delete = op[s].act
      /\ \A r \in DOMAIN heap : heap'[r].create = heap[r].create /\ heap'[r].key = heap[r].key
      /\ \A r \in DOMAIN heap : r # r0 => heap'[r] = heap[r]
  BY <1>1, Superseding, Zenon
<1>6. Acting(op[s]) BY <1>1 DEF Acting
<1>7. Moves(s, op'[s]) /\ Knows(s, op[s])' /\ Mine(s)' = Mine(s)
  BY <1>1, <1>5, SucceedMoves, Zenon
<1>8. TableTypeOK'
  <2>2. op' = [u \in Sessions |-> op'[u]] BY <1>7 DEF Moves, TableInv, TableTypeOK
  <2> QED BY <1>1, <1>5, <2>2 DEF TableInv, TableTypeOK
<1>9. TableInv' BY <1>1, <1>5, <1>6, <1>7, <1>8, WorkStep, Zenon
<1> QED BY <1>1, <1>5, <1>6, <1>9, Zenon

(* A sequence of rids whose first one is replaced. *)
LEMMA RepointedSeq ==
  ASSUME NEW T, NEW q \in Seq(T), NEW x \in T
  PROVE  [q EXCEPT ![1] = x] \in Seq(T)
<1> DEFINE p == [q EXCEPT ![1] = x]
<1>1. DOMAIN p = 1 .. Len(q) /\ Len(q) \in Nat /\ \A i \in 1 .. Len(q) : p[i] \in T OBVIOUS
<1>2. p \in [1 .. Len(q) -> T] BY <1>1, Zenon
<1> HIDE DEF p
<1>3. p \in Seq(T) BY <1>1, <1>2
<1> QED BY <1>3 DEF p

(* The index moves to the new version. *)
LEMMA IndexInv ==
  ASSUME TableInv, NEW s \in Sessions, indexNewVersion(s)
  PROVE  TableInv' /\ UNCHANGED <<mvcc, heap, owner, txn, outcome>>
<1> DEFINE k == op[s].key
           n == op[s].new
           ix == IF op[s].kind = "INSERT" /\ op[s].rid = NoRid
                 THEN <<n>> \o index[k] ELSE [index[k] EXCEPT ![1] = n]
<1>1. /\ op[s].pc = "index" /\ index' = [index EXCEPT ![k] = ix] /\ Succeed(s)
      /\ UNCHANGED <<mvcc, client, heap, owner, txn, outcome>>
  BY DEF indexNewVersion
<1>2. Knows(s, op[s]) /\ index \in [Keys -> Seq(DOMAIN heap)] BY DEF TableInv, Statements, TableTypeOK
<1>3. k \in Keys BY <1>1, <1>2 DEF Knows
<1>4. n \in DOMAIN heap BY <1>1, <1>2 DEF Knows
<1> HIDE DEF n
<1>5. ix \in Seq(DOMAIN heap)
  <2>1. index[k] \in Seq(DOMAIN heap) BY <1>2, <1>3
  <2>2. [index[k] EXCEPT ![1] = n] \in Seq(DOMAIN heap) BY <1>4, <2>1, RepointedSeq
  <2>3. <<n>> \in Seq(DOMAIN heap) BY <1>4
  <2>4. <<n>> \o index[k] \in Seq(DOMAIN heap) BY <2>1, <2>3
  <2> QED BY <2>2, <2>4, Zenon
<1> HIDE DEF ix
<1>6. Acting(op[s]) BY <1>1 DEF Acting
<1>7. Moves(s, op'[s]) /\ Knows(s, op[s])' /\ Mine(s)' = Mine(s)
  BY <1>1, SucceedMoves
<1>8. TableTypeOK'
  <2>2. op' = [u \in Sessions |-> op'[u]] BY <1>7 DEF Moves, TableInv, TableTypeOK
  <2>3. index' \in [Keys -> Seq(DOMAIN heap')] BY <1>1, <1>2, <1>5, Zenon
  <2> QED BY <1>1, <2>2, <2>3 DEF TableInv, TableTypeOK
<1>9. TableInv' BY <1>1, <1>6, <1>7, <1>8, WorkStep
<1> QED BY <1>1, <1>9

(* The table starts with the rows that an earlier process committed. *)
LEMMA InitTable == Init => TableInv
<1> SUFFICES ASSUME Init PROVE TableInv OBVIOUS
<1> DEFINE n == Cardinality(client.preloaded)
<1>1. /\ client \in Clients /\ client.preloaded \subseteq Keys /\ n \in 0 .. client.versions
      /\ client.versions \in Nat
  BY ClientsAssumption DEF Init
<1>2. n \in Nat /\ n <= client.versions BY <1>1
<1>3. /\ heap \in [1 .. n -> {[key |-> k, create |-> 1, delete |-> NoTxn, prev |-> NoRid] : k \in client.preloaded}]
      /\ {heap[r].key : r \in DOMAIN heap} = client.preloaded
  BY Zenon DEF Init
<1>4. \A k \in client.preloaded : [key |-> k, create |-> 1, delete |-> NoTxn, prev |-> NoRid] \in Versions
  BY <1>1, TxnIdsAssumption, ClientsAssumption DEF Versions, Ids, NoTxn, NoRid
<1> HIDE DEF n
<1>5. heap \in [1 .. n -> Versions] BY <1>3, <1>4
<1>6. heap \in Seq(Versions) /\ Len(heap) = n /\ DOMAIN heap = 1 .. n BY <1>2, <1>5
<1>7. index \in [Keys -> Seq(DOMAIN heap)]
  <2>1. ASSUME NEW k \in client.preloaded
        PROVE  <<CHOOSE r \in DOMAIN heap : heap[r].key = k>> \in Seq(DOMAIN heap)
    <3>1. \E r \in DOMAIN heap : heap[r].key = k BY <1>3
    <3>2. (CHOOSE r \in DOMAIN heap : heap[r].key = k) \in DOMAIN heap BY <3>1
    <3> QED BY <3>2
  <2>2. <<>> \in Seq(DOMAIN heap) OBVIOUS
  <2> DEFINE ix(k) == IF k \in client.preloaded
                      THEN <<CHOOSE r \in DOMAIN heap : heap[r].key = k>> ELSE <<>>
  <2>3. ASSUME NEW k \in Keys PROVE ix(k) \in Seq(DOMAIN heap) BY <2>1, <2>2, Zenon
  <2>4. index = [k \in Keys |-> ix(k)] BY DEF Init
  <2> HIDE DEF ix
  <2> QED BY <2>3, <2>4
<1>8. /\ Idle.pc = "idle" /\ Idle.act = NoTxn /\ Idle.rid = NoRid /\ DOMAIN Idle = OpFields
  BY DEF Idle, OpFields
<1>9. /\ owner = [r \in Rids |-> NoTxn] /\ txn = [s \in Sessions |-> NoTxn]
      /\ op = [s \in Sessions |-> Idle] /\ outcome = [t \in Txns |-> "none"] /\ MVCCInit
  BY DEF Init
<1>12. TableTypeOK
  <2>1. Len(heap) <= client.versions BY <1>2, <1>6
  <2>2. NoTxn \in Ids BY TxnIdsAssumption DEF Ids, NoTxn
  <2> QED BY <1>1, <1>6, <1>7, <1>9, <2>1, <2>2 DEF TableTypeOK
<1>13. Statements BY <1>8, <1>9 DEF Statements, Knows, Acting
<1>14. Owners BY <1>8, <1>9 DEF Owners, Mine, Acting
<1> QED BY <1>9, <1>12, <1>13, <1>14, InitInv DEF TableInv

(* Every step keeps the invariant. *)
LEMMA NextTable == TableInv /\ [Next]_vars => TableInv'
<1> SUFFICES ASSUME TableInv, [Next]_vars PROVE TableInv' OBVIOUS
<1>1. CASE Next
  BY <1>1, OneMoves, OpStepInv, BeginStepInv, EndStepInv, AcquireInv, InsertInv, UpdateInv,
     DeleteInv, IndexInv
<1>2. CASE UNCHANGED vars
  <2>1. MVCCInv' BY <1>2, NextInv DEF TableInv, vars, mvcc
  <2>2. TableTypeOK' BY <1>2 DEF TableInv, TableTypeOK, vars
  <2>3. Statements' BY <1>2 DEF TableInv, Statements, Knows, vars
  <2>4. Owners' BY <1>2, Zenon DEF TableInv, Owners, Mine, Active, vars
  <2> QED BY <2>1, <2>2, <2>3, <2>4 DEF TableInv
<1> QED BY <1>1, <1>2

(* In every reachable state, whatever the clients do, a transaction in     *)
(* flight belongs to one session, holds its locks alone, and a statement   *)
(* about to write has locked the row it found.                             *)
THEOREM TableInvariant == Spec => []TableInv
BY InitTable, NextTable, PTL DEF Spec

(* What a step does to MVCCManager and to the row locks. *)
LEMMA StepsBelow ==
  ASSUME TableInv, [Next]_vars
  PROVE  [MVCCNext]_mvcc /\ [Locks!Next]_(Locks!vars)
<1> DEFINE ended == {t \in Txns : outcome[t] # "none"}
<1>1. ASSUME UNCHANGED <<mvcc, owner, outcome>> PROVE [MVCCNext]_mvcc /\ [Locks!Next]_(Locks!vars)
  BY <1>1 DEF Locks!vars
<1>2. CASE UNCHANGED vars BY <1>1, <1>2 DEF vars, mvcc
<1>3. ASSUME NEW s \in Sessions, OpStep(s) PROVE UNCHANGED <<mvcc, owner, outcome>>
  BY <1>3, OpStepMoves DEF mvcc
<1>4. ASSUME NEW s \in Sessions, BeginStep(s) PROVE begin /\ UNCHANGED <<owner, outcome>>
  BY <1>4, BeginStepMoves, Zenon
<1>5. ASSUME NEW s \in Sessions, EndStep(s) PROVE MVCCNext /\ Locks!Next
  <2>1. PICK t \in Txns :
          /\ t = Mine(s) /\ (commit(t) \/ abort(t)) /\ Release(t)
          /\ \E how \in {"committed", "aborted"} : outcome' = [outcome EXCEPT ![t] = how]
    BY <1>5, EndStepMoves
  <2>2. t \in Active BY <2>1 DEF commit, abort
  <2>3. t \notin ended BY <2>2 DEF TableInv, Owners
  <2>4. ended' = ended \cup {t} BY <2>1 DEF TableInv, TableTypeOK
  <2>5. Locks!ReleaseAll(t) BY <2>1, <2>3, <2>4 DEF Locks!ReleaseAll, Locks!NoTxn, NoTxn, Release
  <2> QED BY <2>1, <2>5 DEF MVCCNext, Locks!Next
<1>6. ASSUME NEW s \in Sessions, Acting(op[s]), UNCHANGED <<mvcc, outcome>>, NEW r \in Rids,
             owner[r] \in {NoTxn, op[s].act}, owner' = [owner EXCEPT ![r] = op[s].act]
      PROVE  [MVCCNext]_mvcc /\ [Locks!Next]_(Locks!vars)
  <2>1. op[s].act \in Active /\ op[s].act \in Txns BY <1>6, ActIsMine
  <2>2. op[s].act \notin ended BY <2>1 DEF TableInv, Owners
  <2>3. CASE owner[r] = op[s].act
    <3>1. owner' = owner BY <1>6, <2>3 DEF TableInv, TableTypeOK
    <3> QED BY <1>1, <1>6, <3>1
  <2>4. CASE owner[r] = NoTxn
    <3>1. Locks!Acquire(op[s].act, r) BY <1>6, <2>2, <2>4 DEF Locks!Acquire, Locks!NoTxn, NoTxn
    <3> QED BY <1>6, <2>1, <3>1 DEF Locks!Next
  <2> QED BY <1>6, <2>3, <2>4
<1>7. ASSUME NEW s \in Sessions, acquireExclusive(s) PROVE [MVCCNext]_mvcc /\ [Locks!Next]_(Locks!vars)
  <2>1. UNCHANGED <<mvcc, outcome>> /\ owner' = [owner EXCEPT ![op[s].rid] = op[s].act]
    BY <1>7 DEF acquireExclusive
  <2> QED BY <1>6, <1>7, <2>1, AcquireInv, Zenon
<1>8. ASSUME NEW s \in Sessions, insertVersion(s) \/ updateRecord(s)
      PROVE  [MVCCNext]_mvcc /\ [Locks!Next]_(Locks!vars)
  BY <1>1, <1>6, <1>8, InsertInv, UpdateInv, Zenon
<1>9. ASSUME NEW s \in Sessions, markDeleted(s) \/ indexNewVersion(s)
      PROVE  UNCHANGED <<mvcc, owner, outcome>>
  BY <1>9, DeleteInv, IndexInv
<1>10. ASSUME Next PROVE [MVCCNext]_mvcc /\ [Locks!Next]_(Locks!vars)
  <2>1. PICK s \in Sessions :
          \/ OpStep(s) \/ BeginStep(s) \/ EndStep(s) \/ acquireExclusive(s)
          \/ insertVersion(s) \/ updateRecord(s) \/ markDeleted(s) \/ indexNewVersion(s)
    BY <1>10, OneMoves
  <2>2. CASE BeginStep(s) BY <1>4, <2>2 DEF MVCCNext, Locks!vars
  <2> QED BY <1>1, <1>3, <1>5, <1>7, <1>8, <1>9, <2>1, <2>2
<1> QED BY <1>2, <1>10

(* The statements drive MVCCManager as its specification allows, so that   *)
(* what is proved of it holds of the table.                                *)
THEOREM TableUsesMVCC == Spec => MVCCSpec
<1>1. Init => MVCCInit BY DEF Init
<1>2. TableInv /\ [Next]_vars => [MVCCNext]_mvcc BY StepsBelow
<1> QED BY <1>1, <1>2, TableInvariant, PTL DEF Spec, MVCCSpec

(* Whatever statements run, every snapshot handed out accounts for every   *)
(* transaction in flight.                                                  *)
THEOREM TableSnapshotsAccount == Spec => []SnapshotsAccountForActive
BY TableUsesMVCC, SnapshotsAlwaysAccount, PTL

(* Repeatable read: no statement of anyone changes what a snapshot sees.   *)
THEOREM TableSnapshotsNeverMove == Spec => VisibilityIsStable
BY TableUsesMVCC, SnapshotsNeverMove, PTL

(* Row locks are only taken when they are free, and given back exactly     *)
(* once, with everything the transaction holds, when it ends: the table    *)
(* implements LockTable.                                                   *)
THEOREM TableKeepsLockTable == Spec => UsesLockTable
<1>1. Init => Locks!Init
  <2> SUFFICES ASSUME Init PROVE Locks!Init OBVIOUS
  <2>1. owner = [r \in Rids |-> NoTxn] /\ outcome = [t \in Txns |-> "none"] BY DEF Init
  <2> QED BY <2>1 DEF Locks!Init, Locks!NoTxn, NoTxn
<1>2. TableInv /\ [Next]_vars => [Locks!Next]_(Locks!vars) BY StepsBelow
<1> QED BY <1>1, <1>2, TableInvariant, PTL DEF Spec, UsesLockTable, Locks!Spec

(* A version is superseded once, by a transaction in flight that has       *)
(* locked it, however stale the index entry through which it was found.    *)
THEOREM TombstonesStay == Spec => TombstonesAreFinal
<1> DEFINE Final == \A r \in DOMAIN heap :
                      heap'[r] # heap[r] =>
                        /\ heap[r].delete = NoTxn
                        /\ owner[r] = heap'[r].delete /\ heap'[r].delete \in Active
<1>1. ASSUME TableInv, [Next]_vars PROVE Final
  <2>1. CASE heap' = heap BY <2>1
  <2>2. ASSUME NEW s \in Sessions, insertVersion(s) PROVE Final BY <1>1, <2>2, InsertInv
  <2>3. ASSUME NEW s \in Sessions, updateRecord(s) \/ markDeleted(s) PROVE Final
    <3>1. /\ Acting(op[s]) /\ op[s].rid \in DOMAIN heap /\ owner[op[s].rid] = op[s].act
          /\ heap[op[s].rid].delete = NoTxn
          /\ \A r \in DOMAIN heap : heap'[r] = heap[r] \/ (r = op[s].rid /\ heap'[r].delete = op[s].act)
      BY <1>1, <2>3, UpdateInv, DeleteInv
    <3>2. op[s].act \in Active BY <1>1, <3>1, ActIsMine
    <3> QED BY <3>1, <3>2
  <2>4. ASSUME Next PROVE Final
    <3>1. PICK s \in Sessions :
            \/ OpStep(s) \/ BeginStep(s) \/ EndStep(s) \/ acquireExclusive(s)
            \/ insertVersion(s) \/ updateRecord(s) \/ markDeleted(s) \/ indexNewVersion(s)
      BY <1>1, <2>4, OneMoves
    <3>2. CASE OpStep(s) \/ BeginStep(s) \/ EndStep(s) \/ acquireExclusive(s) \/ indexNewVersion(s)
      <4>1. heap' = heap
        BY <1>1, <3>2, OpStepMoves, BeginStepMoves, EndStepMoves, IndexInv, Zenon DEF acquireExclusive
      <4> QED BY <2>1, <4>1
    <3> QED BY <2>2, <2>3, <3>1, <3>2
  <2> QED BY <1>1, <2>1, <2>4 DEF vars
<1>2. TableInv /\ [Next]_vars => [Final]_vars BY <1>1
<1> QED BY <1>2, TableInvariant, PTL DEF Spec, TombstonesAreFinal

=============================================================================
