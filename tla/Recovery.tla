------------------------------ MODULE Recovery ------------------------------
(***************************************************************************)
(* The storage engine from start to crash to start: Database's constructor *)
(* (src/database.cpp) opens the log and runs RecoveryManager::run          *)
(* (src/recoverymanager.cpp) on the raw files before anything else opens   *)
(* them.  A crash is the end of the process at any point, recovery         *)
(* included.  A page write is one step; one that a crash leaves in a        *)
(* stream's buffer is a crash before that step.                            *)
(***************************************************************************)
EXTENDS BufferPool

CONSTANTS Exclusive,     \* whether transactions keep others off the pages they wrote
          MaxRestarts    \* bound on crashes and shutdowns

ASSUME RecoveryAssumption == Exclusive \in BOOLEAN /\ MaxRestarts \in Nat

VARIABLES phase,      \* "up", "redo" or "undo"
          pos,        \* redo: the record to look at next
          todo,       \* undo: the losers not yet started
          cur, at,    \* undo: the loser being undone, and the LSN reached
          acked,      \* the transactions whose commit() has returned
          restarts

recovery == <<phase, pos, todo, cur, at>>
vars == <<wal, pool, recovery, acked, restarts>>

TypeOK ==
  /\ WALTypeOK
  /\ PoolTypeOK
  /\ phase \in {"up", "redo", "undo"}
  /\ pos \in Nat \ {0} /\ at \in Nat
  /\ todo \subseteq Txns /\ cur \in Txns \cup {NoTxn}
  /\ acked \subseteq Txns
  /\ restarts \in 0 .. MaxRestarts

Init ==
  /\ WALInit /\ PoolInit
  /\ phase = "up" /\ pos = 1 /\ todo = {} /\ cur = NoTxn /\ at = NoLSN
  /\ acked = {} /\ restarts = 0

-----------------------------------------------------------------------------
(* The running process. *)
Up == phase = "up" /\ UNCHANGED <<recovery, restarts>>

(* Nobody else has written p and neither committed nor been undone since. *)
MayWrite(t, p) ==
  Exclusive =>
    \A i \in RecordsOf(p) :
      log[i].type = "UPDATE" =>
        \/ log[i].txn_id \in Committed \cup {t}
        \/ \E j \in RecordsOf(p) : j > i /\ log[j].type = "CLR" /\ log[j].txn_id = log[i].txn_id

Begin == Up /\ begin /\ UNCHANGED <<pool, acked>>
Commit(t) == Up /\ End(t, "COMMIT") /\ acked' = acked \cup {t} /\ UNCHANGED pool
Abort(t) == Up /\ End(t, "ABORT") /\ UNCHANGED <<pool, acked>>
Read(p) == Up /\ readPage(p) /\ UNCHANGED acked
Rewrite(p) == Up /\ writeUnchanged(p) /\ UNCHANGED acked
Write(t, p) == Up /\ MayWrite(t, p) /\ writePage(t, p) /\ UNCHANGED acked
Allocate(t, p) == Up /\ MayWrite(t, p) /\ allocatePage(t, p) /\ UNCHANGED acked
SaveNode(t, p) == Up /\ MayWrite(t, p) /\ saveNode(t, p) /\ UNCHANGED acked

-----------------------------------------------------------------------------
(* The CLR for the UPDATE the undo pass has reached.  It names no table,   *)
(* so it is a record of table 0.                                           *)
clr(r) ==
  [Record(cur, "CLR") EXCEPT !.page = [r.page EXCEPT !.table = 0],
                             !.old_data = r.old_data, !.prev_lsn = r.prev_lsn]

(* A record that a handler has appended when the crash comes, before its   *)
(* flush or its page write.                                                *)
InFlight ==
  CASE phase = "up" ->
         {Threaded(Record(t, type)) : t \in Active, type \in {"COMMIT", "ABORT"}}
           \cup {Threaded(saveNodeRecord(w[1], w[2])) : w \in
                   {v \in Active \X Pages : v[2].store = "INDEX" /\ MayWrite(v[1], v[2])}}
    [] phase = "undo" /\ at # NoLSN /\ log[at].type = "UPDATE" -> {clr(log[at])}
    [] OTHER -> {}

Logs == {log} \cup {Append(log, [r EXCEPT !.lsn = next_lsn]) : r \in InFlight}

(* ensureFileSize comes before the log's flush and the page's write: a     *)
(* heap file may have been extended for a write-back that did not follow.  *)
WriteBacks == {NoPage} \cup {frames[f].page : f \in {g \in Frames : frames[g].dirty}}
Grown(p) == IF p = NoPage THEN file ELSE Extended(file, p)

(* The process ends with the log l and the files f; the next one opens the *)
(* log and enters recovery.                                                *)
Restart(l, f) ==
  /\ restarts < MaxRestarts /\ restarts' = restarts + 1
  /\ log' = l
  /\ reopen
  /\ file' = f
  /\ frames' = [i \in Frames |-> NoFrame]
  /\ next_page_id' = [tb \in Tables |-> 0]
  /\ phase' = "redo" /\ pos' = 1 /\ todo' = {} /\ cur' = NoTxn /\ at' = NoLSN
  /\ UNCHANGED acked

Crash ==
  \E l \in Logs, p \in WriteBacks : \E n \in durable .. Len(l) :
    Restart(SubSeq(l, 1, n), Grown(p))

(* ~Database: every pool and the log are flushed; open transactions stay open. *)
Shutdown == phase = "up" /\ Restart(log, Flushed)

-----------------------------------------------------------------------------
writePageBytes(p, image) == file' = Written(file, p, image)

(* Mutant: redo reads the log and writes nothing. *)
redoNever ==
  /\ phase = "redo" /\ pos <= Len(log)
  /\ pos' = pos + 1
  /\ UNCHANGED <<file, wal, frames, next_page_id, phase, todo, cur, at, acked, restarts>>

(* Redo, one record: its image goes to the page if the page is older. *)
redoRecord ==
  /\ phase = "redo" /\ pos <= Len(log)
  /\ LET r == log[pos] IN
       IF IsPageRecord(r) /\ file[r.page].lsn < r.lsn
       THEN writePageBytes(r.page, After(r))
       ELSE UNCHANGED file
  /\ pos' = pos + 1
  /\ UNCHANGED <<wal, frames, next_page_id, phase, todo, cur, at, acked, restarts>>

(* Mutant: the CLRs of an earlier recovery do not count. *)
WalkedUpdates(t) == {i \in DOMAIN log : log[i].txn_id = t /\ log[i].type \in {"BEGIN", "UPDATE"}}

(* The records that decide where the undo of t starts. *)
Walked(t) == {i \in DOMAIN log : log[i].txn_id = t /\ log[i].type \in {"BEGIN", "UPDATE", "CLR"}}
(* Mutant: an aborted transaction counts as finished. *)
LosersUnfinished ==
  {t \in Txns : Walked(t) # {}}
    \ {log[i].txn_id : i \in {j \in DOMAIN log : log[j].type \in {"COMMIT", "ABORT"}}}

(* The transactions without a COMMIT, explicitly aborted ones included. *)
Losers == {t \in Txns : Walked(t) # {}} \ Committed

redoDone ==
  /\ phase = "redo" /\ pos > Len(log)
  /\ phase' = "undo"
  /\ todo' = Losers
  /\ UNCHANGED <<wal, pool, pos, cur, at, acked, restarts>>

(* The latest BEGIN, UPDATE or CLR of a loser: where its undo starts. *)
last_lsn(t) == CHOOSE i \in Walked(t) : \A j \in Walked(t) : j <= i

undoTxn(t) ==
  /\ phase = "undo" /\ cur = NoTxn /\ t \in todo
  /\ cur' = t /\ at' = last_lsn(t)
  /\ todo' = todo \ {t}
  /\ UNCHANGED <<wal, pool, phase, pos, acked, restarts>>

(* Undo, one UPDATE: log a CLR, and put the before-image back with the     *)
(* CLR's LSN in it.                                                        *)
undoUpdate ==
  /\ phase = "undo" /\ cur # NoTxn /\ at # NoLSN /\ log[at].type = "UPDATE"
  /\ append(clr(log[at]))
  /\ writePageBytes(log[at].page, [log[at].old_data EXCEPT !.lsn = next_lsn])
  /\ at' = log[at].prev_lsn
  /\ UNCHANGED <<durable, next_txn_id, last_lsn_per_txn, frames, next_page_id, phase, pos, todo, cur,
                 acked, restarts>>

(* Undo, a CLR of an earlier recovery: step over what it has undone. *)
undoCLR ==
  /\ phase = "undo" /\ cur # NoTxn /\ at # NoLSN /\ log[at].type = "CLR"
  /\ at' = log[at].prev_lsn
  /\ UNCHANGED <<wal, pool, phase, pos, todo, cur, acked, restarts>>

undoTxnDone ==
  /\ phase = "undo" /\ cur # NoTxn
  /\ at = NoLSN \/ log[at].type = "BEGIN"
  /\ cur' = NoTxn /\ at' = NoLSN
  /\ UNCHANGED <<wal, pool, phase, pos, todo, acked, restarts>>

PagesInFile(tb) ==
  Cardinality({i \in HeapIds : file[[table |-> tb, store |-> "HEAP", id |-> i]].state # "absent"})

(* The log is flushed and the tables open: pages are counted by file size. *)
openTableStorage ==
  /\ phase = "undo" /\ cur = NoTxn /\ todo = {}
  /\ phase' = "up"
  /\ durable' = Len(log)
  /\ next_page_id' = [tb \in Tables |-> PagesInFile(tb)]
  /\ UNCHANGED <<log, next_lsn, next_txn_id, last_lsn_per_txn, frames, file,
                 pos, todo, cur, at, acked, restarts>>

Recover ==
  \/ redoRecord \/ redoDone
  \/ \E t \in Txns : undoTxn(t)
  \/ undoUpdate \/ undoCLR \/ undoTxnDone
  \/ openTableStorage

Next ==
  \/ Begin
  \/ \E t \in Txns : Commit(t) \/ Abort(t)
  \/ \E p \in Pages : Read(p) \/ Rewrite(p)
  \/ \E t \in Txns, p \in Pages : Write(t, p) \/ Allocate(t, p) \/ SaveNode(t, p)
  \/ Crash \/ Shutdown
  \/ Recover

Spec == Init /\ [][Next]_vars

-----------------------------------------------------------------------------
ThreadedLog(l) ==
  \A i \in DOMAIN l :
    /\ l[i].lsn = i
    /\ IF l[i].type = "BEGIN"
       THEN l[i].prev_lsn = NoLSN /\ \A j \in 1 .. i - 1 : l[j].txn_id # l[i].txn_id
       ELSE l[i].prev_lsn \in 1 .. i - 1 /\ l[l[i].prev_lsn].txn_id = l[i].txn_id

(* LSNs count the records, also after restarts have dropped a tail, every  *)
(* record leads back to the one its transaction logged before, and no      *)
(* transaction id is given out twice.                                      *)
LogIsThreaded == ThreadedLog(log) /\ next_lsn = Len(log) + 1

(* The WAL rule: every change that is in a file is in the part of the log  *)
(* that a crash cannot take away, recovery's own writes included.          *)
WALRule == \A p \in Pages : file[p].rows \subseteq 1 .. durable

(* A commit that returned survives: its record is never lost, whatever is  *)
(* lost with the process.                                                  *)
CommitsAreDurable ==
  \A t \in acked : \E i \in 1 .. durable : log[i].type = "COMMIT" /\ log[i].txn_id = t

(* What the log says of a page: the image of its last record. *)
LoggedRows(p) ==
  IF RecordsOf(p) = {} THEN {}
  ELSE LET last == CHOOSE i \in RecordsOf(p) : \A j \in RecordsOf(p) : j <= i
       IN After(log[last]).rows

(* The pool never loses or invents a change, however pages are evicted,    *)
(* written back and read again: a page is what its last record made it.    *)
PoolMatchesLog == phase = "up" => \A p \in Pages : Current(p).rows = LoggedRows(p)

(* A pending before-image is the page as it is: the next UPDATE record     *)
(* will undo to the right state.                                           *)
BeforeImagesAreCurrent ==
  \A f \in Frames : frames[f].before # Absent => frames[f].before = frames[f].image

(* Redo repeats history: whichever pages had reached the disk, after the   *)
(* pass every page is what the surviving log says, or it has what an       *)
(* interrupted undo had put back for a loser, under the LSN of a CLR that  *)
(* was lost (and that another record may have by now).                     *)
RedoRepeatsHistory ==
  phase = "undo" /\ cur = NoTxn /\ todo = Losers =>
    \A p \in Pages :
      \/ file[p].rows = LoggedRows(p)
      \/ \E i \in RecordsOf(p) :
           /\ log[i].type = "UPDATE" /\ log[i].txn_id \in Losers
           /\ i < file[p].lsn /\ file[p].rows = log[i].old_data.rows

(* No UPDATE is undone twice over the life of the log: recovery steps over *)
(* what the CLRs of an earlier run have undone.                            *)
CompensatedOnce ==
  LET CLRs == {i \in DOMAIN log : log[i].type = "CLR"} IN
  \A i, j \in CLRs :
    i # j => log[i].txn_id # log[j].txn_id \/ log[i].prev_lsn # log[j].prev_lsn

CommittedRows(p) == {i \in RecordsOf(p) : log[i].type = "UPDATE" /\ log[i].txn_id \in Committed}

(* When the engine is up again the pages hold the committed changes and    *)
(* nothing else, if transactions have kept off each other's pages, also    *)
(* when recovery itself was interrupted.  (Not however often: an undo that *)
(* is interrupted three times can leave a page under a lost CLR's LSN that *)
(* makes redo pass over the CLR which has it next.)                        *)
RecoveryIsExact ==
  [][phase = "undo" /\ phase' = "up" => \A p \in Pages : file[p].rows = CommittedRows(p)]_vars

(* No change of a transaction whose commit returned is lost: recovery      *)
(* reverts only what is uncommitted.                                       *)
CommittedChangesSurvive ==
  [][phase = "undo" /\ phase' = "up" =>
       \A p \in Pages : \A i \in CommittedRows(p) : log[i].txn_id \in acked => i \in file[p].rows]_vars

=============================================================================
