--------------------------- MODULE RecoveryLemmas ---------------------------
(***************************************************************************)
(* Proofs about Recovery for any tables, pages, pool size, number of       *)
(* transactions and number of restarts.                                    *)
(*                                                                         *)
(* The properties are not inductive one by one: that a page written by     *)
(* undo holds only durable changes rests on the records undo walks being   *)
(* durable (UndoIsDurable) and on a record's images holding only earlier   *)
(* changes (PastImages); that records are chained rests on the last LSN    *)
(* kept for every open transaction being one of its own (LastRecords) and  *)
(* on ids growing (IdsAreBelow).  IInv is their conjunction.               *)
(***************************************************************************)
EXTENDS Recovery, TLAPS

IdsAreBelow == \A i \in DOMAIN log : log[i].txn_id < next_txn_id

LastRecords ==
  \A t \in Active : last_lsn_per_txn[t] \in DOMAIN log /\ log[last_lsn_per_txn[t]].txn_id = t

PastImages(l) ==
  \A i \in DOMAIN l : l[i].old_data.rows \subseteq 1 .. i /\ l[i].new_data.rows \subseteq 1 .. i

PastFrames == \A f \in Frames : frames[f].image.rows \subseteq 1 .. Len(log)

UndoIsDurable ==
  /\ phase = "redo" => durable = Len(log)
  /\ phase # "undo" => todo = {} /\ cur = NoTxn
  /\ \A t \in todo : Walked(t) # {} /\ \A i \in Walked(t) : i <= durable
  /\ cur = NoTxn => at = NoLSN
  /\ at # NoLSN => at \in 1 .. durable /\ log[at].txn_id = cur
  /\ cur \notin todo

IInv == /\ TypeOK /\ LogIsThreaded /\ WALRule /\ CommitsAreDurable /\ BeforeImagesAreCurrent
        /\ IdsAreBelow /\ LastRecords /\ PastImages(log) /\ PastFrames /\ UndoIsDurable

-----------------------------------------------------------------------------
(* Lemmas about numbers, logs and files. *)

(* What the next record must be for the log to stay threaded. *)
SoundNext(l, r) ==
  /\ r \in Records /\ r.lsn = Len(l) + 1
  /\ IF r.type = "BEGIN"
     THEN r.prev_lsn = NoLSN /\ \A j \in DOMAIN l : l[j].txn_id # r.txn_id
     ELSE r.prev_lsn \in DOMAIN l /\ l[r.prev_lsn].txn_id = r.txn_id
  /\ r.old_data.rows \subseteq 1 .. Len(l) + 1
  /\ r.new_data.rows \subseteq 1 .. Len(l) + 1

(* WALWriter::append of a sound record keeps the log threaded. *)
LEMMA AppendSound ==
  ASSUME NEW l \in Seq(Records), ThreadedLog(l), PastImages(l), NEW r, SoundNext(l, r)
  PROVE  LET m == Append(l, r) IN
         /\ m \in Seq(Records) /\ Len(m) = Len(l) + 1
         /\ \A i \in DOMAIN l : m[i] = l[i]
         /\ m[Len(l) + 1] = r
         /\ ThreadedLog(m) /\ PastImages(m)
<1> DEFINE m == Append(l, r)
<1>1. m \in Seq(Records) /\ Len(m) = Len(l) + 1 /\ Len(l) \in Nat BY DEF SoundNext
<1>2. DOMAIN m = 1 .. Len(l) + 1 /\ DOMAIN l = 1 .. Len(l) BY <1>1
<1>3. \A i \in DOMAIN l : m[i] = l[i] BY <1>1, <1>2
<1>4. m[Len(l) + 1] = r BY <1>1, <1>2
<1> HIDE DEF m
<1>5. ThreadedLog(m)
  <2> SUFFICES ASSUME NEW i \in DOMAIN m
               PROVE  /\ m[i].lsn = i
                      /\ IF m[i].type = "BEGIN"
                         THEN m[i].prev_lsn = NoLSN /\ \A j \in 1 .. i - 1 : m[j].txn_id # m[i].txn_id
                         ELSE m[i].prev_lsn \in 1 .. i - 1 /\ m[m[i].prev_lsn].txn_id = m[i].txn_id
    BY DEF ThreadedLog
  <2>1. CASE i \in DOMAIN l BY <2>1, <1>1, <1>2, <1>3 DEF ThreadedLog
  <2>2. CASE i = Len(l) + 1 BY <2>2, <1>1, <1>2, <1>3, <1>4 DEF SoundNext
  <2> QED BY <2>1, <2>2, <1>1, <1>2
<1>6. PastImages(m)
  <2> SUFFICES ASSUME NEW i \in DOMAIN m
               PROVE  m[i].old_data.rows \subseteq 1 .. i /\ m[i].new_data.rows \subseteq 1 .. i
    BY DEF PastImages
  <2>1. CASE i \in DOMAIN l BY <2>1, <1>3 DEF PastImages
  <2>2. CASE i = Len(l) + 1 BY <2>2, <1>4 DEF SoundNext
  <2> QED BY <2>1, <2>2, <1>1, <1>2
<1> QED BY <1>1, <1>3, <1>4, <1>5, <1>6 DEF m

(* What a crash leaves of a threaded log is threaded. *)
LEMMA PrefixSound ==
  ASSUME NEW l \in Seq(Records), ThreadedLog(l), PastImages(l), NEW n \in 0 .. Len(l)
  PROVE  LET m == SubSeq(l, 1, n) IN
         /\ m \in Seq(Records) /\ Len(m) = n
         /\ \A i \in 1 .. n : m[i] = l[i]
         /\ ThreadedLog(m) /\ PastImages(m)
<1> DEFINE m == SubSeq(l, 1, n)
<1>1. m \in Seq(Records) /\ Len(m) = n /\ Len(l) \in Nat OBVIOUS
<1>2. DOMAIN m = 1 .. n /\ DOMAIN l = 1 .. Len(l) BY <1>1
<1>3. \A i \in 1 .. n : m[i] = l[i] BY <1>1, <1>2
<1> HIDE DEF m
<1>4. ThreadedLog(m)
  <2> SUFFICES ASSUME NEW i \in 1 .. n
               PROVE  /\ m[i].lsn = i
                      /\ IF m[i].type = "BEGIN"
                         THEN m[i].prev_lsn = NoLSN /\ \A j \in 1 .. i - 1 : m[j].txn_id # m[i].txn_id
                         ELSE m[i].prev_lsn \in 1 .. i - 1 /\ m[m[i].prev_lsn].txn_id = m[i].txn_id
    BY <1>2 DEF ThreadedLog
  <2>1. i \in DOMAIN l /\ m[i] = l[i] /\ \A j \in 1 .. i - 1 : m[j] = l[j]
    BY <1>1, <1>2, <1>3
  <2>2. /\ l[i].lsn = i
        /\ IF l[i].type = "BEGIN"
           THEN l[i].prev_lsn = NoLSN /\ \A j \in 1 .. i - 1 : l[j].txn_id # l[i].txn_id
           ELSE l[i].prev_lsn \in 1 .. i - 1 /\ l[l[i].prev_lsn].txn_id = l[i].txn_id
    BY <2>1 DEF ThreadedLog
  <2> QED BY <2>1, <2>2
<1>5. PastImages(m) BY <1>1, <1>2, <1>3 DEF PastImages
<1> QED BY <1>1, <1>3, <1>4, <1>5 DEF m

(* Writing a page puts only the written image's changes into the files. *)
LEMMA WrittenFile ==
  ASSUME NEW f \in [Pages -> Images], NEW p, NEW image \in Images
  PROVE  /\ Extended(f, p) \in [Pages -> Images]
         /\ Written(f, p, image) \in [Pages -> Images]
         /\ \A q \in Pages : Extended(f, p)[q].rows \subseteq f[q].rows
         /\ \A q \in Pages : Written(f, p, image)[q].rows \subseteq f[q].rows \cup image.rows
<1>1. Zero \in Images /\ Zero.rows = {} BY DEF Zero, Images, NoLSN
<1>2. Extended(f, p) \in [Pages -> Images] BY <1>1 DEF Extended
<1>3. \A q \in Pages : Extended(f, p)[q].rows \subseteq f[q].rows BY <1>1 DEF Extended
<1>4. Written(f, p, image) \in [Pages -> Images] BY <1>2, Zenon DEF Written
<1>5. \A q \in Pages : Written(f, p, image)[q] \in {Extended(f, p)[q], image} BY <1>2 DEF Written
<1> QED BY <1>2, <1>3, <1>4, <1>5

-----------------------------------------------------------------------------
(* Lemmas about the records the handlers append. *)

(* A step that appends a sound record keeps what the log promises. *)
LEMMA LogGrows ==
  ASSUME IInv, NEW r, SoundNext(log, r), log' = Append(log, r), next_lsn' = next_lsn + 1,
         durable' \in durable .. Len(log) + 1
  PROVE  /\ log' \in Seq(Records) /\ Len(log') = Len(log) + 1 /\ Len(log) \in Nat
         /\ \A i \in 1 .. Len(log) : log'[i] = log[i]
         /\ log'[Len(log) + 1] = r
         /\ DOMAIN log = 1 .. Len(log) /\ DOMAIN log' = 1 .. Len(log) + 1
         /\ LogIsThreaded' /\ PastImages(log)'
         /\ durable' \in 0 .. Len(log') /\ next_lsn' \in Nat \ {0}
         /\ acked' = acked => CommitsAreDurable'
<1>1. log \in Seq(Records) /\ durable \in 0 .. Len(log) /\ next_lsn = Len(log) + 1
  BY DEF IInv, TypeOK, WALTypeOK, LogIsThreaded
<1>2. ThreadedLog(log) /\ PastImages(log) BY DEF IInv, LogIsThreaded
<1>3. /\ log' \in Seq(Records) /\ Len(log') = Len(log) + 1
      /\ \A i \in DOMAIN log : log'[i] = log[i]
      /\ log'[Len(log) + 1] = r
      /\ ThreadedLog(log') /\ PastImages(log')
  BY <1>1, <1>2, AppendSound
<1>4. Len(log) \in Nat /\ DOMAIN log = 1 .. Len(log) /\ DOMAIN log' = 1 .. Len(log) + 1
  BY <1>1, <1>3
<1>5. LogIsThreaded' BY <1>1, <1>3, <1>4 DEF LogIsThreaded
<1>6. PastImages(log)' BY <1>3
<1>7. ASSUME acked' = acked PROVE CommitsAreDurable'
  BY <1>1, <1>3, <1>4, <1>7 DEF CommitsAreDurable, IInv
<1> QED BY <1>1, <1>3, <1>4, <1>5, <1>6, <1>7

(* An open transaction's UPDATE, COMMIT or ABORT is a sound record. *)
LEMMA ThreadedIsSound ==
  ASSUME IInv, NEW t \in Active, NEW type \in {"UPDATE", "COMMIT", "ABORT"},
         NEW p \in Pages \cup {NoPage}, NEW old \in Images, NEW new \in Images,
         old.rows \subseteq 1 .. Len(log) + 1, new.rows \subseteq 1 .. Len(log) + 1,
         NEW r, r = [lsn |-> NoLSN, prev_lsn |-> NoLSN, txn_id |-> t, type |-> type, page |-> p,
                     old_data |-> old, new_data |-> new]
  PROVE  SoundNext(log, [Threaded(r) EXCEPT !.lsn = next_lsn])
<1>1. t \in Txns /\ last_lsn_per_txn[t] \in DOMAIN log /\ log[last_lsn_per_txn[t]].txn_id = t
  BY DEF IInv, LastRecords, Active
<1>2. next_lsn \in Nat /\ last_lsn_per_txn[t] \in Nat /\ next_lsn = Len(log) + 1
  BY <1>1 DEF IInv, TypeOK, WALTypeOK, LogIsThreaded
<1>3. r \in Records BY <1>1, <1>2 DEF Records, NoLSN
<1> DEFINE u == Threaded(r)
           s == [u EXCEPT !.lsn = next_lsn]
<1>4. /\ u \in Records /\ u.prev_lsn = last_lsn_per_txn[t] /\ u.txn_id = t /\ u.type = type
      /\ u.old_data = old /\ u.new_data = new
  BY <1>2, <1>3 DEF Threaded, Records
<1> HIDE DEF u
<1>5. /\ s \in Records /\ s.lsn = next_lsn /\ s.prev_lsn = last_lsn_per_txn[t] /\ s.txn_id = t
      /\ s.type = type /\ s.old_data = old /\ s.new_data = new
  BY <1>2, <1>4 DEF Records
<1> HIDE DEF s
<1>6. SoundNext(log, s) BY <1>1, <1>2, <1>5 DEF SoundNext
<1> QED BY <1>6 DEF s, u

(* The CLR of the undo pass is a sound record. *)
LEMMA ClrIsSound ==
  ASSUME IInv, phase = "undo", at # NoLSN, log[at].type = "UPDATE"
  PROVE  SoundNext(log, [clr(log[at]) EXCEPT !.lsn = next_lsn])
<1> DEFINE r == log[at]
           u == clr(r)
           s == [u EXCEPT !.lsn = next_lsn]
           q == [r.page EXCEPT !.table = 0]
<1>1. at \in 1 .. durable /\ r.txn_id = cur /\ cur \in Txns
  BY DEF IInv, UndoIsDurable, TypeOK
<1>2. log \in Seq(Records) /\ durable \in 0 .. Len(log) /\ next_lsn = Len(log) + 1 /\ next_lsn \in Nat
  BY DEF IInv, TypeOK, WALTypeOK, LogIsThreaded
<1>3. at \in DOMAIN log /\ r \in Records /\ at <= Len(log) BY <1>1, <1>2
<1>4. r.prev_lsn \in 1 .. at - 1 /\ log[r.prev_lsn].txn_id = cur
  BY <1>1, <1>3 DEF IInv, LogIsThreaded, ThreadedLog
<1>5. r.old_data \in Images /\ r.old_data.rows \subseteq 1 .. at
  BY <1>3 DEF IInv, PastImages, Records
<1>6. Absent \in Images /\ Absent.rows = {} BY DEF Absent, Images, NoLSN
<1>7. q \in Pages \cup {NoPage}
  <2>1. CASE r.page \in Pages BY <2>1, WALAssumption DEF Pages
  <2>2. CASE r.page = NoPage
    <3>1. NoPage \in [table : {0}, store : {"none"}, id : {0}] BY DEF NoPage
    <3>2. q \in [table : {0}, store : {"none"}, id : {0}] BY <2>2, <3>1
    <3> QED BY <3>1, <3>2
  <2> QED BY <2>1, <2>2, <1>3 DEF Records
<1>8. r.prev_lsn \in DOMAIN log BY <1>1, <1>2, <1>3, <1>4
<1> HIDE DEF q, r
<1>9. /\ u \in Records /\ u.prev_lsn = r.prev_lsn /\ u.txn_id = cur /\ u.type = "CLR"
      /\ u.old_data = r.old_data /\ u.new_data = Absent
  <2> DEFINE b == Record(cur, "CLR")
  <2>1. b \in Records /\ b.txn_id = cur /\ b.type = "CLR" /\ b.new_data = Absent
    BY <1>1, <1>6 DEF Record, Records, NoLSN
  <2>2. u = [b EXCEPT !.page = q, !.old_data = r.old_data, !.prev_lsn = r.prev_lsn] BY DEF clr, q
  <2>3. r.prev_lsn \in Nat BY <1>1, <1>4
  <2> HIDE DEF b, u
  <2> QED BY <1>5, <1>7, <2>1, <2>2, <2>3, Zenon DEF Records
<1> HIDE DEF u
<1>10. /\ s \in Records /\ s.lsn = next_lsn /\ s.prev_lsn = r.prev_lsn /\ s.txn_id = cur
       /\ s.type = "CLR" /\ s.old_data = r.old_data /\ s.new_data = Absent
  BY <1>2, <1>9, Zenon DEF Records
<1> HIDE DEF s
<1>11. s.old_data.rows \subseteq 1 .. Len(log) + 1 /\ s.new_data.rows \subseteq 1 .. Len(log) + 1
  BY <1>1, <1>2, <1>3, <1>5, <1>6, <1>10
<1>12. SoundNext(log, s) BY <1>2, <1>4, <1>8, <1>10, <1>11 DEF SoundNext
<1> QED BY <1>12 DEF s, u, r

-----------------------------------------------------------------------------
(* Lemmas about the pool. *)

(* fetchPage returns a frame whose changes are all logged. *)
LEMMA Fetched ==
  ASSUME IInv, NEW f \in Frames, NEW p \in Pages
  PROVE  LET fr == fetchPage(f, p) IN
         /\ fr \in FrameRecords /\ fr.page = p
         /\ fr.image.rows \subseteq 1 .. Len(log)
         /\ fr.before.rows \subseteq 1 .. Len(log)
         /\ fr.before # Absent => fr.before = fr.image
<1>1. /\ frames[f] \in FrameRecords /\ file[p] \in Images /\ durable \in 0 .. Len(log)
      /\ log \in Seq(Records)
  BY DEF IInv, TypeOK, WALTypeOK, PoolTypeOK
<1>2. frames[f].image.rows \subseteq 1 .. Len(log) BY DEF IInv, PastFrames
<1>3. file[p].rows \subseteq 1 .. Len(log) BY <1>1 DEF IInv, WALRule
<1>4. frames[f].before # Absent => frames[f].before = frames[f].image
  BY DEF IInv, BeforeImagesAreCurrent
<1>5. Absent.rows = {} BY DEF Absent
<1>6. CASE frames[f].page # p BY <1>1, <1>3, <1>6 DEF fetchPage, FrameRecords
<1>7. CASE frames[f].page = p /\ frames[f].before = Absent
  BY <1>1, <1>2, <1>7 DEF fetchPage, FrameRecords
<1>8. CASE frames[f].page = p /\ frames[f].before # Absent
  BY <1>1, <1>2, <1>4, <1>8 DEF fetchPage, FrameRecords
<1> QED BY <1>6, <1>7, <1>8

(* evictFrame keeps the WAL rule. *)
LEMMA Evicted ==
  ASSUME IInv, NEW f \in Frames, NEW p, evictFrame(f, p)
  PROVE  /\ file' \in [Pages -> Images]
         /\ durable' \in durable .. Len(log)
         /\ \A q \in Pages : file'[q].rows \subseteq 1 .. durable'
<1>1. /\ frames[f] \in FrameRecords /\ file \in [Pages -> Images] /\ durable \in 0 .. Len(log)
      /\ Len(log) \in Nat
  BY DEF IInv, TypeOK, WALTypeOK, PoolTypeOK
<1>2. frames[f].image.rows \subseteq 1 .. Len(log) BY DEF IInv, PastFrames
<1>3. \A q \in Pages : file[q].rows \subseteq 1 .. durable BY DEF IInv, WALRule
<1>4. CASE WritesBack(f, p)
  <2>1. file' = Written(file, frames[f].page, frames[f].image) /\ durable' = Len(log)
    BY <1>4 DEF evictFrame
  <2>2. frames[f].image \in Images BY <1>1 DEF FrameRecords
  <2>3. /\ file' \in [Pages -> Images]
        /\ \A q \in Pages : file'[q].rows \subseteq file[q].rows \cup frames[f].image.rows
    BY <1>1, <2>1, <2>2, WrittenFile
  <2>4. \A q \in Pages : file[q].rows \subseteq 1 .. Len(log) BY <1>1, <1>3
  <2> QED BY <1>1, <1>2, <2>1, <2>3, <2>4
<1>5. CASE ~WritesBack(f, p) BY <1>1, <1>3, <1>5 DEF evictFrame
<1> QED BY <1>4, <1>5

(* A transaction's change to a fetched frame. *)
LEMMA ChangedImage ==
  ASSUME IInv, NEW image \in Images, image.rows \subseteq 1 .. Len(log)
  PROVE  /\ Changed(image) \in Images /\ Changed(image).rows \subseteq 1 .. Len(log) + 1
         /\ [Changed(image) EXCEPT !.lsn = next_lsn] \in Images
         /\ [Changed(image) EXCEPT !.lsn = next_lsn].rows \subseteq 1 .. Len(log) + 1
<1>1. next_lsn \in Nat /\ next_lsn = Len(log) + 1 /\ Len(log) \in Nat
  BY DEF IInv, TypeOK, WALTypeOK, LogIsThreaded
<1> DEFINE c == Changed(image)
<1>2. c \in Images /\ c.rows = image.rows \cup {next_lsn} BY <1>1, Zenon DEF Changed, Images
<1>3. c.rows \subseteq 1 .. Len(log) + 1 BY <1>1, <1>2
<1> HIDE DEF c
<1>4. [c EXCEPT !.lsn = next_lsn] \in Images /\ [c EXCEPT !.lsn = next_lsn].rows = c.rows
  BY <1>1, <1>2 DEF Images
<1> QED BY <1>2, <1>3, <1>4 DEF c

(* logUpdateIfChanged appends a sound record. *)
LEMMA UpdateIsSound ==
  ASSUME IInv, NEW t \in Active, NEW p \in Pages, NEW old \in Images, NEW new \in Images,
         old.rows \subseteq 1 .. Len(log) + 1, new.rows \subseteq 1 .. Len(log) + 1
  PROVE  SoundNext(log, [Threaded(UpdateRecord(t, p, old, new)) EXCEPT !.lsn = next_lsn])
         /\ UpdateRecord(t, p, old, new).txn_id = t
<1> DEFINE u == UpdateRecord(t, p, old, new)
           r == [lsn |-> NoLSN, prev_lsn |-> NoLSN, txn_id |-> t, type |-> "UPDATE", page |-> p,
                 old_data |-> old, new_data |-> new]
<1>1. u = r /\ u.txn_id = t
  <2> DEFINE S == [lsn : {NoLSN}, prev_lsn : {NoLSN}, txn_id : {t}, type : {"UPDATE"}, page : {p},
                   old_data : {old}, new_data : {new}]
             b == Record(t, "UPDATE")
  <2>1. b \in [lsn : {NoLSN}, prev_lsn : {NoLSN}, txn_id : {t}, type : {"UPDATE"}, page : {NoPage},
               old_data : {Absent}, new_data : {Absent}]
    BY DEF Record
  <2>2. u = [b EXCEPT !.page = p, !.old_data = old, !.new_data = new] BY DEF UpdateRecord
  <2> HIDE DEF b, u
  <2>3. u \in S BY <2>1, <2>2, Zenon
  <2>4. r \in S OBVIOUS
  <2> QED BY <2>3, <2>4
<1> HIDE DEF u, r
<1>2. SoundNext(log, [Threaded(r) EXCEPT !.lsn = next_lsn])
  BY ThreadedIsSound DEF r
<1> QED BY <1>1, <1>2 DEF u

-----------------------------------------------------------------------------
(* Undo goes back.  Recovery appends a CLR when it undoes an UPDATE, and   *)
(* the next recovery starts from the transaction's last CLR.               *)

(* The records an UPDATE or a CLR leads back to. *)
Origins == {"BEGIN", "UPDATE"}

(* The CLRs of t in the log l. *)
CLRsOf(l, t) == {i \in DOMAIN l : l[i].type = "CLR" /\ l[i].txn_id = t}

(* What the next record must be for the log to say that undo goes back. *)
GoesBack(l, r) ==
  /\ IsPageRecord(r) => l[r.prev_lsn].type \in Origins
  /\ r.type = "UPDATE" => CLRsOf(l, r.txn_id) = {}
  /\ r.type = "CLR" => \A j \in CLRsOf(l, r.txn_id) : r.prev_lsn < l[j].prev_lsn

(* Every record kept to that: a transaction has no UPDATE after a CLR, and  *)
(* each CLR of it leads further back than the one before.                   *)
UndoneLog(l) ==
  \A i \in DOMAIN l :
    /\ IsPageRecord(l[i]) => l[l[i].prev_lsn].type \in Origins
    /\ \A j \in 1 .. i - 1 :
         l[j].type = "CLR" /\ l[j].txn_id = l[i].txn_id =>
           l[i].type # "UPDATE" /\ (l[i].type = "CLR" => l[i].prev_lsn < l[j].prev_lsn)

(* Where the undo of cur goes on. *)
Reached == IF log[at].type = "CLR" THEN log[at].prev_lsn ELSE at

UndoGoesBack ==
  /\ UndoneLog(log)
  /\ phase # "up" => Active = {}
  /\ \A t \in Active : log[last_lsn_per_txn[t]].type \in Origins /\ CLRsOf(log, t) = {}
  /\ at # NoLSN => \A i \in CLRsOf(log, cur) : Reached <= log[i].prev_lsn

(* What append does to a log. *)
LEMMA Appended ==
  ASSUME NEW l \in Seq(Records), NEW r, NEW m \in Seq(Records), m = Append(l, r)
  PROVE  /\ Len(l) \in Nat /\ DOMAIN l = 1 .. Len(l) /\ DOMAIN m = 1 .. Len(l) + 1
         /\ \A i \in DOMAIN l : m[i] = l[i]
         /\ m[Len(l) + 1] = r
OBVIOUS

(* What the appended record keeps to, the log keeps to. *)
LEMMA AppendGoesBack ==
  ASSUME NEW l \in Seq(Records), NEW r, NEW m \in Seq(Records), m = Append(l, r), ThreadedLog(m),
         UndoneLog(l), GoesBack(l, r)
  PROVE  UndoneLog(m)
<1>1. /\ Len(l) \in Nat /\ DOMAIN l = 1 .. Len(l) /\ DOMAIN m = 1 .. Len(l) + 1
      /\ \A i \in DOMAIN l : m[i] = l[i]
      /\ m[Len(l) + 1] = r
  BY Appended
<1> SUFFICES ASSUME NEW i \in DOMAIN m
             PROVE  /\ IsPageRecord(m[i]) => m[m[i].prev_lsn].type \in Origins
                    /\ \A j \in 1 .. i - 1 :
                         m[j].type = "CLR" /\ m[j].txn_id = m[i].txn_id =>
                           m[i].type # "UPDATE" /\ (m[i].type = "CLR" => m[i].prev_lsn < m[j].prev_lsn)
  BY DEF UndoneLog
<1>2. IsPageRecord(m[i]) => m[i].prev_lsn \in 1 .. i - 1
  BY DEF ThreadedLog, IsPageRecord
<1>3. \A j \in 1 .. i - 1 : j \in DOMAIN l /\ m[j] = l[j] BY <1>1
<1>4. CASE i \in DOMAIN l
  BY <1>1, <1>2, <1>3, <1>4 DEF UndoneLog
<1>5. CASE i = Len(l) + 1
  BY <1>1, <1>2, <1>3, <1>5 DEF GoesBack, CLRsOf
<1>6. i \in DOMAIN l \/ i = Len(l) + 1 BY <1>1
<1> QED BY <1>4, <1>5, <1>6

(* What a crash leaves of such a log is one. *)
LEMMA PrefixGoesBack ==
  ASSUME NEW l \in Seq(Records), ThreadedLog(l), UndoneLog(l), NEW n \in 0 .. Len(l)
  PROVE  UndoneLog(SubSeq(l, 1, n))
<1> DEFINE m == SubSeq(l, 1, n)
<1>1. /\ Len(l) \in Nat /\ DOMAIN l = 1 .. Len(l) /\ DOMAIN m = 1 .. n
      /\ \A i \in 1 .. n : m[i] = l[i]
  OBVIOUS
<1> HIDE DEF m
<1>2. UndoneLog(m)
  <2> SUFFICES ASSUME NEW i \in 1 .. n
               PROVE  /\ IsPageRecord(m[i]) => m[m[i].prev_lsn].type \in Origins
                      /\ \A j \in 1 .. i - 1 :
                           m[j].type = "CLR" /\ m[j].txn_id = m[i].txn_id =>
                             m[i].type # "UPDATE"
                             /\ (m[i].type = "CLR" => m[i].prev_lsn < m[j].prev_lsn)
    BY <1>1 DEF UndoneLog
  <2>1. i \in DOMAIN l /\ m[i] = l[i] /\ \A j \in 1 .. i - 1 : m[j] = l[j] BY <1>1
  <2>2. IsPageRecord(l[i]) => l[i].prev_lsn \in 1 .. i - 1 BY <2>1 DEF ThreadedLog, IsPageRecord
  <2> QED BY <2>1, <2>2 DEF UndoneLog
<1> QED BY <1>2 DEF m

(* The record of a change by t. *)
LEMMA UpdateFields ==
  ASSUME NEW t, NEW p, NEW old, NEW new
  PROVE  LET s == [Threaded(UpdateRecord(t, p, old, new)) EXCEPT !.lsn = next_lsn] IN
         s.type = "UPDATE" /\ s.txn_id = t /\ s.prev_lsn = last_lsn_per_txn[t]
<1> DEFINE b == Record(t, "UPDATE")
           u == UpdateRecord(t, p, old, new)
           v == Threaded(u)
<1>1. /\ b.type = "UPDATE" /\ b.txn_id = t
      /\ b = [x \in {"lsn", "prev_lsn", "txn_id", "type", "page", "old_data", "new_data"} |-> b[x]]
  BY DEF Record
<1>2. u = [b EXCEPT !.page = p, !.old_data = old, !.new_data = new] BY DEF UpdateRecord
<1> HIDE DEF b, u
<1>3. /\ u.type = "UPDATE" /\ u.txn_id = t
      /\ DOMAIN u = {"lsn", "prev_lsn", "txn_id", "type", "page", "old_data", "new_data"}
  BY <1>1, <1>2
<1>4. v = [u EXCEPT !.prev_lsn = last_lsn_per_txn[t]] BY <1>3 DEF Threaded
<1> HIDE DEF v
<1>5. /\ v.type = "UPDATE" /\ v.txn_id = t /\ v.prev_lsn = last_lsn_per_txn[t]
      /\ DOMAIN v = DOMAIN u
  BY <1>3, <1>4
<1>6. [v EXCEPT !.lsn = next_lsn].type = "UPDATE" /\ [v EXCEPT !.lsn = next_lsn].txn_id = t
      /\ [v EXCEPT !.lsn = next_lsn].prev_lsn = last_lsn_per_txn[t]
  BY <1>3, <1>5
<1> QED BY <1>6 DEF u, v

(* The CLR that undo logs at an UPDATE goes back beyond those before it. *)
LEMMA ClrGoesBack ==
  ASSUME IInv, UndoGoesBack, phase = "undo", at # NoLSN, log[at].type = "UPDATE"
  PROVE  LET s == [clr(log[at]) EXCEPT !.lsn = next_lsn] IN
         /\ GoesBack(log, s)
         /\ s.type = "CLR" /\ s.txn_id = cur /\ s.prev_lsn = log[at].prev_lsn
<1> DEFINE r == log[at]
           u == clr(r)
           s == [u EXCEPT !.lsn = next_lsn]
<1>1. at \in DOMAIN log /\ r.prev_lsn \in 1 .. at - 1
  <2>1. at \in 1 .. durable /\ log \in Seq(Records) /\ durable \in 0 .. Len(log)
    BY DEF IInv, UndoIsDurable, TypeOK, WALTypeOK
  <2>2. at \in DOMAIN log BY <2>1
  <2> QED BY <2>2 DEF IInv, LogIsThreaded, ThreadedLog
<1>2. /\ u.type = "CLR" /\ u.txn_id = cur /\ u.prev_lsn = r.prev_lsn
      /\ DOMAIN u = {"lsn", "prev_lsn", "txn_id", "type", "page", "old_data", "new_data"}
  <2> DEFINE b == Record(cur, "CLR")
             q == [r.page EXCEPT !.table = 0]
  <2>1. /\ b.type = "CLR" /\ b.txn_id = cur
        /\ b = [x \in {"lsn", "prev_lsn", "txn_id", "type", "page", "old_data", "new_data"} |-> b[x]]
    BY DEF Record
  <2>2. u = [b EXCEPT !.page = q, !.old_data = r.old_data, !.prev_lsn = r.prev_lsn] BY DEF clr
  <2> HIDE DEF b, u, q, r
  <2> QED BY <2>1, <2>2
<1> HIDE DEF u
<1>3. s.type = "CLR" /\ s.txn_id = cur /\ s.prev_lsn = r.prev_lsn BY <1>2
<1> HIDE DEF s
<1>4. log[r.prev_lsn].type \in Origins
  BY <1>1 DEF UndoGoesBack, UndoneLog, IsPageRecord
<1>5. ASSUME NEW i \in CLRsOf(log, cur) PROVE r.prev_lsn < log[i].prev_lsn
  <2>1. at <= log[i].prev_lsn BY <1>5 DEF UndoGoesBack, Reached
  <2>2. i \in DOMAIN log /\ log[i].type = "CLR" BY DEF CLRsOf
  <2>3. i \in Nat /\ log[i].prev_lsn \in 1 .. i - 1
    <3>1. log \in Seq(Records) BY DEF IInv, TypeOK, WALTypeOK
    <3> QED BY <2>2, <3>1 DEF IInv, LogIsThreaded, ThreadedLog
  <2>4. at \in Nat BY DEF IInv, TypeOK
  <2> QED BY <1>1, <2>1, <2>3, <2>4
<1>6. GoesBack(log, s) BY <1>3, <1>4, <1>5 DEF GoesBack
<1> QED BY <1>3, <1>6 DEF s, u

(* An open transaction has not been undone, and its last record is a BEGIN *)
(* or an UPDATE: its next UPDATE goes back.                                *)
LEMMA UpdateGoesBack ==
  ASSUME UndoGoesBack, NEW t \in Active, NEW s, s.type = "UPDATE", s.txn_id = t,
         s.prev_lsn = last_lsn_per_txn[t]
  PROVE  GoesBack(log, s)
BY DEF UndoGoesBack, GoesBack

(* A step of the running process that logs r for the transaction t. *)
LEMMA RunningGoesBack ==
  ASSUME IInv, IInv', UndoGoesBack, phase = "up", phase' = "up", at' = at,
         NEW t \in Txns, NEW s, s.txn_id = t, s.type # "CLR", GoesBack(log, s),
         log' = Append(log, s), CLRsOf(log, t) = {},
         \/ last_lsn_per_txn' = [last_lsn_per_txn EXCEPT ![t] = next_lsn] /\ s.type \in Origins
         \/ last_lsn_per_txn' = [last_lsn_per_txn EXCEPT ![t] = NoLSN]
  PROVE  UndoGoesBack'
<1>1. /\ log \in Seq(Records) /\ log' \in Seq(Records) /\ ThreadedLog(log')
      /\ next_lsn = Len(log) + 1 /\ last_lsn_per_txn \in [Txns -> Nat] /\ UndoneLog(log)
  BY DEF IInv, TypeOK, WALTypeOK, LogIsThreaded, UndoGoesBack
<1>2. /\ Len(log) \in Nat /\ DOMAIN log = 1 .. Len(log) /\ DOMAIN log' = 1 .. Len(log) + 1
      /\ \A i \in DOMAIN log : log'[i] = log[i]
      /\ log'[Len(log) + 1] = s
  BY <1>1, Appended
<1>3. UndoneLog(log') BY <1>1, AppendGoesBack
<1>4. at' = NoLSN BY DEF IInv, UndoIsDurable
<1>5. ASSUME NEW u \in Txns PROVE CLRsOf(log', u) = CLRsOf(log, u)
  BY <1>2 DEF CLRsOf
<1>6. ASSUME NEW u \in Active'
      PROVE  log'[last_lsn_per_txn'[u]].type \in Origins /\ CLRsOf(log', u) = {}
  <2>1. u \in Txns /\ last_lsn_per_txn'[u] # NoLSN BY DEF Active
  <2>2. CASE u = t
    <3>1. last_lsn_per_txn'[u] = next_lsn /\ s.type \in Origins BY <1>1, <2>1, <2>2
    <3> QED BY <1>1, <1>2, <1>5, <2>1, <2>2, <3>1
  <2>3. CASE u # t
    <3>1. last_lsn_per_txn'[u] = last_lsn_per_txn[u] BY <1>1, <2>1, <2>3
    <3>2. u \in Active BY <2>1, <3>1 DEF Active
    <3>3. last_lsn_per_txn[u] \in DOMAIN log BY <3>2 DEF IInv, LastRecords
    <3> QED BY <1>2, <1>5, <2>1, <3>1, <3>2, <3>3 DEF UndoGoesBack
  <2> QED BY <2>2, <2>3
<1> QED BY <1>3, <1>4, <1>6 DEF UndoGoesBack

(* The record of begin, commit and abort. *)
LEMMA RecordFields ==
  ASSUME NEW t, NEW type
  PROVE  LET s == [Record(t, type) EXCEPT !.lsn = next_lsn]
             e == [Threaded(Record(t, type)) EXCEPT !.lsn = next_lsn]
         IN  s.type = type /\ s.txn_id = t /\ e.type = type /\ e.txn_id = t
<1> DEFINE b == Record(t, type)
           v == Threaded(b)
<1>1. /\ b.type = type /\ b.txn_id = t
      /\ b = [x \in {"lsn", "prev_lsn", "txn_id", "type", "page", "old_data", "new_data"} |-> b[x]]
  BY DEF Record
<1>2. v = [b EXCEPT !.prev_lsn = last_lsn_per_txn[t]] BY <1>1 DEF Threaded
<1> HIDE DEF b, v
<1>3. v.type = type /\ v.txn_id = t /\ DOMAIN v = DOMAIN b BY <1>1, <1>2
<1>4. [b EXCEPT !.lsn = next_lsn].type = type /\ [b EXCEPT !.lsn = next_lsn].txn_id = t BY <1>1
<1>5. [v EXCEPT !.lsn = next_lsn].type = type /\ [v EXCEPT !.lsn = next_lsn].txn_id = t
  BY <1>1, <1>3
<1> QED BY <1>4, <1>5 DEF b, v

(* The steps of the running process. *)
LEMMA UpGoesBack ==
  ASSUME IInv, IInv', UndoGoesBack,
         \/ Begin
         \/ \E t \in Txns : Commit(t) \/ Abort(t)
         \/ \E t \in Txns, p \in Pages : Write(t, p) \/ Allocate(t, p) \/ SaveNode(t, p)
  PROVE  UndoGoesBack'
<1>1. phase = "up" /\ phase' = "up" /\ at' = at
  BY DEF Begin, Commit, Abort, Write, Allocate, SaveNode, Up, recovery
<1>2. CASE Begin
  <2> DEFINE s == [Record(next_txn_id, "BEGIN") EXCEPT !.lsn = next_lsn]
  <2>1. /\ next_txn_id \in Txns /\ log' = Append(log, s)
        /\ last_lsn_per_txn' = [last_lsn_per_txn EXCEPT ![next_txn_id] = next_lsn]
    BY <1>2 DEF Begin, begin, append
  <2>2. s.type = "BEGIN" /\ s.txn_id = next_txn_id BY RecordFields
  <2> HIDE DEF s
  <2>3. CLRsOf(log, next_txn_id) = {}
    <3>1. next_txn_id \in Nat BY DEF IInv, TypeOK, WALTypeOK
    <3>2. \A i \in DOMAIN log : log[i].txn_id < next_txn_id BY DEF IInv, IdsAreBelow
    <3> QED BY <3>1, <3>2 DEF CLRsOf
  <2>4. GoesBack(log, s) BY <2>2 DEF GoesBack, IsPageRecord
  <2>5. s.type # "CLR" /\ s.type \in Origins BY <2>2 DEF Origins
  <2> QED BY <1>1, <2>1, <2>2, <2>3, <2>4, <2>5, RunningGoesBack
<1>3. ASSUME NEW t \in Txns, Commit(t) \/ Abort(t) PROVE UndoGoesBack'
  <2>0. PICK type \in {"COMMIT", "ABORT"} : End(t, type) BY <1>3 DEF Commit, Abort
  <2> DEFINE s == [Threaded(Record(t, type)) EXCEPT !.lsn = next_lsn]
  <2>1. /\ t \in Active /\ log' = Append(log, s)
        /\ last_lsn_per_txn' = [last_lsn_per_txn EXCEPT ![t] = NoLSN]
    BY <2>0 DEF End, append
  <2>2. s.type = type /\ s.txn_id = t BY RecordFields
  <2> HIDE DEF s
  <2>3. CLRsOf(log, t) = {} BY <2>1 DEF UndoGoesBack
  <2>4. GoesBack(log, s) BY <2>2 DEF GoesBack, IsPageRecord
  <2>5. s.type # "CLR" BY <2>2
  <2> QED BY <1>1, <2>1, <2>2, <2>3, <2>4, <2>5, RunningGoesBack
<1>4. ASSUME NEW t \in Txns, NEW p \in Pages, Write(t, p) \/ Allocate(t, p) \/ SaveNode(t, p)
      PROVE  UndoGoesBack'
  <2>1. t \in Active
    BY <1>4 DEF Write, Allocate, SaveNode, writePage, allocatePage, saveNode
  <2>2. \E q, old, new : appendRecord(UpdateRecord(t, q, old, new))
    BY <1>4 DEF Write, Allocate, SaveNode, writePage, allocatePage, saveNode, LogUpdate, saveNodeRecord
  <2>3. PICK q, old, new : appendRecord(UpdateRecord(t, q, old, new)) BY <2>2
  <2> DEFINE r == UpdateRecord(t, q, old, new)
             s == [Threaded(r) EXCEPT !.lsn = next_lsn]
  <2>4. r.txn_id = t BY Zenon DEF UpdateRecord, Record
  <2>5. s.type = "UPDATE" /\ s.txn_id = t /\ s.prev_lsn = last_lsn_per_txn[t] BY UpdateFields
  <2>6. log' = Append(log, s) /\ last_lsn_per_txn' = [last_lsn_per_txn EXCEPT ![t] = next_lsn]
    <3> HIDE DEF r
    <3> QED BY <2>3, <2>4 DEF appendRecord, append, r
  <2> HIDE DEF s
  <2>7. CLRsOf(log, t) = {} /\ GoesBack(log, s)
    BY <2>1, <2>5, UpdateGoesBack DEF UndoGoesBack
  <2>8. s.type # "CLR" /\ s.type \in Origins BY <2>5 DEF Origins
  <2> QED BY <1>1, <2>5, <2>6, <2>7, <2>8, RunningGoesBack
<1> QED BY <1>2, <1>3, <1>4

(* Undoing an UPDATE, and the undo pass's own steps. *)
LEMMA UndoUpdateGoesBack ==
  ASSUME IInv, IInv', UndoGoesBack, undoUpdate PROVE UndoGoesBack'
<1> DEFINE r == log[at]
           s == [clr(r) EXCEPT !.lsn = next_lsn]
<1>1. /\ phase = "undo" /\ at # NoLSN /\ r.type = "UPDATE" /\ log' = Append(log, s)
      /\ at' = r.prev_lsn /\ cur' = cur /\ phase' = phase /\ last_lsn_per_txn' = last_lsn_per_txn
  BY DEF undoUpdate, append
<1>2. /\ GoesBack(log, s) /\ s.type = "CLR" /\ s.txn_id = cur /\ s.prev_lsn = r.prev_lsn
  BY <1>1, ClrGoesBack
<1> HIDE DEF s
<1>3. /\ log \in Seq(Records) /\ log' \in Seq(Records) /\ ThreadedLog(log') /\ UndoneLog(log)
  BY DEF IInv, TypeOK, WALTypeOK, LogIsThreaded, UndoGoesBack
<1>4. /\ Len(log) \in Nat /\ DOMAIN log = 1 .. Len(log) /\ DOMAIN log' = 1 .. Len(log) + 1
      /\ \A i \in DOMAIN log : log'[i] = log[i]
      /\ log'[Len(log) + 1] = s
  BY <1>1, <1>3, Appended
<1>5. UndoneLog(log') BY <1>1, <1>2, <1>3, AppendGoesBack
<1>6. Active' = {} BY <1>1 DEF Active, UndoGoesBack
<1>7. at \in DOMAIN log /\ r.prev_lsn \in 1 .. at - 1 /\ log[r.prev_lsn].type \in Origins
  <2>1. at \in 1 .. durable /\ durable \in 0 .. Len(log)
    BY <1>1 DEF IInv, UndoIsDurable, TypeOK, WALTypeOK
  <2>2. at \in DOMAIN log BY <1>4, <2>1
  <2>3. r.prev_lsn \in 1 .. at - 1 BY <1>1, <2>2 DEF IInv, LogIsThreaded, ThreadedLog
  <2> QED BY <1>1, <1>3, <2>2, <2>3 DEF UndoneLog, IsPageRecord
<1>8. Reached' = at'
  <2>1. at' \in DOMAIN log BY <1>1, <1>4, <1>7
  <2>2. log'[at'].type # "CLR" BY <1>1, <1>4, <1>7, <2>1 DEF Origins
  <2> QED BY <2>2 DEF Reached
<1>9. ASSUME NEW i \in CLRsOf(log', cur) PROVE at' <= log'[i].prev_lsn
  <2>1. CASE i = Len(log) + 1 BY <1>1, <1>2, <1>4, <1>7, <2>1
  <2>2. CASE i \in DOMAIN log
    <3>1. i \in CLRsOf(log, cur) BY <1>4, <2>2 DEF CLRsOf
    <3>2. s.prev_lsn < log[i].prev_lsn BY <1>2, <3>1 DEF GoesBack
    <3>3. log[i].prev_lsn \in Nat
      <4>1. log[i] \in Records BY <1>3, <2>2
      <4> QED BY <4>1 DEF Records
    <3> QED BY <1>1, <1>2, <1>4, <1>7, <2>2, <3>2, <3>3
  <2>3. i \in DOMAIN log' BY DEF CLRsOf
  <2> QED BY <1>4, <2>1, <2>2, <2>3
<1> QED BY <1>1, <1>5, <1>6, <1>8, <1>9 DEF UndoGoesBack

(* Stepping over a CLR, and ending the undo of a loser. *)
LEMMA UndoStepGoesBack ==
  ASSUME IInv, UndoGoesBack, undoCLR \/ undoTxnDone PROVE UndoGoesBack'
<1>1. phase' = phase /\ log' = log /\ last_lsn_per_txn' = last_lsn_per_txn
  BY DEF undoCLR, undoTxnDone, wal
<1>2. CASE undoCLR
  <2>1. at # NoLSN /\ log[at].type = "CLR" /\ at' = log[at].prev_lsn /\ cur' = cur
    BY <1>2 DEF undoCLR
  <2>2. at \in DOMAIN log
    <3>1. at \in 1 .. durable /\ durable \in 0 .. Len(log) /\ log \in Seq(Records)
      BY <2>1 DEF IInv, UndoIsDurable, TypeOK, WALTypeOK
    <3> QED BY <3>1
  <2>3. log[at'].type \in Origins BY <2>1, <2>2 DEF UndoGoesBack, UndoneLog, IsPageRecord
  <2>4. Reached' = Reached BY <1>1, <2>1, <2>3 DEF Reached, Origins
  <2> QED BY <1>1, <2>1, <2>4 DEF UndoGoesBack, Active
<1>3. CASE undoTxnDone
  <2>1. at' = NoLSN BY <1>3 DEF undoTxnDone
  <2> QED BY <1>1, <2>1 DEF UndoGoesBack, Active
<1> QED BY <1>2, <1>3

=============================================================================
