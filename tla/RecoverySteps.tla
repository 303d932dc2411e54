--------------------------- MODULE RecoverySteps ----------------------------
(***************************************************************************)
(* The steps of the running process, of redo and of undo preserve IInv.    *)
(***************************************************************************)
EXTENDS RecoveryLemmas

(* What IInv says of the log. *)
LogInv == /\ WALTypeOK /\ LogIsThreaded /\ CommitsAreDurable
          /\ IdsAreBelow /\ LastRecords /\ PastImages(log)

(* The running process leaves the state of recovery alone. *)
LEMMA Quiet ==
  ASSUME IInv, Up, acked' \subseteq Txns
  PROVE  /\ phase' = "up" /\ todo' = {} /\ cur' = NoTxn /\ at' = NoLSN /\ UndoIsDurable'
         /\ pos' \in Nat \ {0} /\ restarts' \in 0 .. MaxRestarts
BY DEF IInv, TypeOK, Up, recovery, UndoIsDurable, NoTxn, NoLSN

(* appendRecord keeps LogInv. *)
LEMMA AppendKeepsLogInv ==
  ASSUME IInv, NEW t \in Active, NEW r, r.txn_id = t, appendRecord(r),
         SoundNext(log, [Threaded(r) EXCEPT !.lsn = next_lsn]),
         [Threaded(r) EXCEPT !.lsn = next_lsn].txn_id = t,
         durable' \in durable .. Len(log) + 1, acked' = acked
  PROVE  LogInv' /\ Len(log') = Len(log) + 1 /\ Len(log) \in Nat
<1> DEFINE s == [Threaded(r) EXCEPT !.lsn = next_lsn]
<1>1. /\ log' = Append(log, s) /\ next_lsn' = next_lsn + 1 /\ next_txn_id' = next_txn_id
      /\ last_lsn_per_txn' = [last_lsn_per_txn EXCEPT ![t] = next_lsn]
  BY DEF appendRecord, append
<1>2. SoundNext(log, s) /\ s.txn_id = t OBVIOUS
<1> HIDE DEF s
<1>3. /\ log' \in Seq(Records) /\ Len(log') = Len(log) + 1 /\ Len(log) \in Nat
      /\ \A i \in 1 .. Len(log) : log'[i] = log[i]
      /\ log'[Len(log) + 1] = s
      /\ DOMAIN log = 1 .. Len(log) /\ DOMAIN log' = 1 .. Len(log) + 1
      /\ LogIsThreaded' /\ PastImages(log)' /\ CommitsAreDurable'
      /\ durable' \in 0 .. Len(log') /\ next_lsn' \in Nat \ {0}
  BY <1>1, <1>2, LogGrows
<1>4. /\ next_txn_id \in Nat \ {0} /\ last_lsn_per_txn \in [Txns -> Nat]
      /\ next_lsn = Len(log) + 1 /\ t \in Txns
      /\ last_lsn_per_txn[t] \in DOMAIN log /\ log[last_lsn_per_txn[t]].txn_id = t
  BY DEF IInv, TypeOK, WALTypeOK, LogIsThreaded, LastRecords, Active
<1>5. WALTypeOK' BY <1>1, <1>3, <1>4 DEF WALTypeOK
<1>6. IdsAreBelow'
  <2>1. t < next_txn_id BY <1>4 DEF IInv, IdsAreBelow
  <2> QED BY <1>1, <1>2, <1>3, <2>1 DEF IInv, IdsAreBelow
<1>7. LastRecords'
  <2> SUFFICES ASSUME NEW x \in Txns, last_lsn_per_txn'[x] # NoLSN
               PROVE  last_lsn_per_txn'[x] \in DOMAIN log' /\ log'[last_lsn_per_txn'[x]].txn_id = x
    BY DEF LastRecords, Active
  <2>1. CASE x = t BY <2>1, <1>1, <1>2, <1>3, <1>4
  <2>2. CASE x # t
    <3>1. last_lsn_per_txn'[x] = last_lsn_per_txn[x] BY <2>2, <1>1, <1>4
    <3>2. last_lsn_per_txn[x] \in DOMAIN log /\ log[last_lsn_per_txn[x]].txn_id = x
      BY <3>1 DEF IInv, LastRecords, Active
    <3> QED BY <3>1, <3>2, <1>3
  <2> QED BY <2>1, <2>2
<1> QED BY <1>3, <1>5, <1>6, <1>7 DEF LogInv

(* Every record in a log has a transaction id. *)
LEMMA IdsAreNumbers ==
  ASSUME NEW l \in Seq(Records)
  PROVE  \A i \in DOMAIN l : l[i].txn_id \in Txns /\ l[i].txn_id \in Nat
<1> SUFFICES ASSUME NEW i \in DOMAIN l PROVE l[i].txn_id \in Txns /\ l[i].txn_id \in Nat OBVIOUS
<1>1. l[i] \in Records OBVIOUS
<1>2. l[i].txn_id \in Txns BY <1>1 DEF Records
<1> QED BY <1>2, WALAssumption DEF Txns

(* TransactionManager::begin preserves IInv. *)
LEMMA BeginInv ==
  ASSUME IInv, Begin PROVE IInv'
<1> DEFINE t == next_txn_id
           s == [Record(t, "BEGIN") EXCEPT !.lsn = next_lsn]
<1>1. /\ log' = Append(log, s) /\ next_lsn' = next_lsn + 1 /\ next_txn_id' = t + 1
      /\ last_lsn_per_txn' = [last_lsn_per_txn EXCEPT ![t] = next_lsn] /\ t \in Txns
      /\ durable' = durable /\ UNCHANGED <<frames, file, next_page_id, acked>>
  BY DEF Begin, begin, append, pool
<1>2. /\ t \in Nat /\ next_lsn \in Nat /\ last_lsn_per_txn \in [Txns -> Nat]
      /\ next_lsn = Len(log) + 1 /\ durable \in 0 .. Len(log) /\ log \in Seq(Records)
  BY DEF IInv, TypeOK, WALTypeOK, LogIsThreaded
<1>3. Absent \in Images /\ Absent.rows = {} BY DEF Absent, Images, NoLSN
<1>4. SoundNext(log, s) /\ s.txn_id = t
  <2> DEFINE b == Record(t, "BEGIN")
  <2>1. /\ b \in Records /\ b.txn_id = t /\ b.type = "BEGIN" /\ b.prev_lsn = NoLSN
        /\ b.old_data = Absent /\ b.new_data = Absent
    BY <1>1, <1>2, <1>3 DEF Record, Records, NoLSN
  <2> HIDE DEF b
  <2>2. s = [b EXCEPT !.lsn = next_lsn] BY DEF b
  <2> HIDE DEF s
  <2>3. /\ s \in Records /\ s.lsn = next_lsn /\ s.txn_id = t /\ s.type = "BEGIN"
        /\ s.prev_lsn = NoLSN /\ s.old_data = Absent /\ s.new_data = Absent
    BY <1>2, <2>1, <2>2, Zenon DEF Records
  <2>4. \A j \in DOMAIN log : log[j].txn_id # t
    <3> SUFFICES ASSUME NEW j \in DOMAIN log PROVE log[j].txn_id # t OBVIOUS
    <3>1. log[j].txn_id < t BY DEF IInv, IdsAreBelow
    <3>2. log[j].txn_id \in Nat BY <1>2, IdsAreNumbers
    <3> QED BY <3>1, <3>2, <1>2
  <2> QED BY <1>2, <1>3, <2>3, <2>4 DEF SoundNext
<1> HIDE DEF s
<1>5. /\ log' \in Seq(Records) /\ Len(log') = Len(log) + 1 /\ Len(log) \in Nat
      /\ \A i \in 1 .. Len(log) : log'[i] = log[i]
      /\ log'[Len(log) + 1] = s
      /\ DOMAIN log = 1 .. Len(log) /\ DOMAIN log' = 1 .. Len(log) + 1
      /\ LogIsThreaded' /\ PastImages(log)' /\ CommitsAreDurable'
      /\ durable' \in 0 .. Len(log') /\ next_lsn' \in Nat \ {0}
  BY <1>1, <1>2, <1>4, LogGrows
<1>6. /\ phase' = "up" /\ todo' = {} /\ cur' = NoTxn /\ at' = NoLSN /\ UndoIsDurable'
      /\ pos' \in Nat \ {0} /\ restarts' \in 0 .. MaxRestarts
  BY <1>1, Quiet DEF Begin, IInv, TypeOK
<1>7. TypeOK'
  <2>1. WALTypeOK' BY <1>1, <1>2, <1>5 DEF WALTypeOK
  <2>2. PoolTypeOK' BY <1>1 DEF IInv, TypeOK, PoolTypeOK
  <2> QED BY <1>1, <1>6, <2>1, <2>2 DEF IInv, TypeOK, NoLSN
<1>8. WALRule' BY <1>1 DEF IInv, WALRule
<1>9. BeforeImagesAreCurrent' BY <1>1 DEF IInv, BeforeImagesAreCurrent
<1>10. IdsAreBelow'
  <2>1. \A i \in DOMAIN log : log[i].txn_id \in Nat
    BY <1>2, IdsAreNumbers
  <2> QED BY <1>1, <1>2, <1>4, <1>5, <2>1 DEF IInv, IdsAreBelow
<1>11. LastRecords'
  <2> SUFFICES ASSUME NEW x \in Txns, last_lsn_per_txn'[x] # NoLSN
               PROVE  last_lsn_per_txn'[x] \in DOMAIN log' /\ log'[last_lsn_per_txn'[x]].txn_id = x
    BY DEF LastRecords, Active
  <2>1. CASE x = t BY <2>1, <1>1, <1>2, <1>4, <1>5
  <2>2. CASE x # t
    <3>1. last_lsn_per_txn'[x] = last_lsn_per_txn[x] BY <2>2, <1>1, <1>2
    <3>2. last_lsn_per_txn[x] \in DOMAIN log /\ log[last_lsn_per_txn[x]].txn_id = x
      BY <3>1 DEF IInv, LastRecords, Active
    <3> QED BY <3>1, <3>2, <1>5
  <2> QED BY <2>1, <2>2
<1>12. PastFrames' BY <1>1, <1>5 DEF IInv, PastFrames
<1> QED BY <1>5, <1>6, <1>7, <1>8, <1>9, <1>10, <1>11, <1>12 DEF IInv

(* TransactionManager::commit and abort preserve IInv. *)
LEMMA EndInv ==
  ASSUME IInv, NEW t \in Txns, NEW type \in {"COMMIT", "ABORT"}, Up, End(t, type), UNCHANGED pool,
         acked' = IF type = "COMMIT" THEN acked \cup {t} ELSE acked
  PROVE  IInv'
<1> DEFINE s == [Threaded(Record(t, type)) EXCEPT !.lsn = next_lsn]
<1>1. /\ log' = Append(log, s) /\ next_lsn' = next_lsn + 1 /\ next_txn_id' = next_txn_id
      /\ last_lsn_per_txn' = [last_lsn_per_txn EXCEPT ![t] = NoLSN] /\ t \in Active
      /\ durable' = Len(log') /\ UNCHANGED <<frames, file, next_page_id>>
  BY DEF End, append, flushAll, pool
<1>2. /\ next_txn_id \in Nat \ {0} /\ next_lsn \in Nat /\ last_lsn_per_txn \in [Txns -> Nat]
      /\ next_lsn = Len(log) + 1 /\ durable \in 0 .. Len(log) /\ log \in Seq(Records)
      /\ Len(log) \in Nat
  BY DEF IInv, TypeOK, WALTypeOK, LogIsThreaded
<1>3. Absent \in Images /\ Absent.rows = {} BY DEF Absent, Images, NoLSN
<1>4. SoundNext(log, s)
  BY <1>1, <1>3, ThreadedIsSound, Zenon DEF Record
<1>5. s.txn_id = t /\ s.type = type
  <2> DEFINE b == Threaded(Record(t, type))
  <2>1. b.txn_id = t /\ b.type = type BY DEF Threaded, Record
  <2> HIDE DEF b
  <2> QED BY <2>1 DEF b
<1> HIDE DEF s
<1>6. durable' \in durable .. Len(log) + 1 BY <1>1, <1>2
<1>7. /\ log' \in Seq(Records) /\ Len(log') = Len(log) + 1
      /\ \A i \in 1 .. Len(log) : log'[i] = log[i]
      /\ log'[Len(log) + 1] = s
      /\ DOMAIN log = 1 .. Len(log) /\ DOMAIN log' = 1 .. Len(log) + 1
      /\ LogIsThreaded' /\ PastImages(log)'
      /\ durable' \in 0 .. Len(log') /\ next_lsn' \in Nat \ {0}
  BY <1>1, <1>4, <1>6, LogGrows
<1>8. acked' \subseteq Txns BY DEF IInv, TypeOK
<1>9. /\ phase' = "up" /\ todo' = {} /\ cur' = NoTxn /\ at' = NoLSN /\ UndoIsDurable'
      /\ pos' \in Nat \ {0} /\ restarts' \in 0 .. MaxRestarts
  BY <1>8, Quiet
<1>10. TypeOK'
  <2>1. WALTypeOK' BY <1>1, <1>2, <1>7 DEF WALTypeOK, NoLSN
  <2>2. PoolTypeOK' BY <1>1 DEF IInv, TypeOK, PoolTypeOK
  <2> QED BY <1>8, <1>9, <2>1, <2>2 DEF TypeOK, NoLSN
<1>11. WALRule' BY <1>1, <1>2, <1>7 DEF IInv, WALRule
<1>12. BeforeImagesAreCurrent' BY <1>1 DEF IInv, BeforeImagesAreCurrent
<1>13. IdsAreBelow'
  <2>1. t < next_txn_id BY <1>1 DEF IInv, LastRecords, IdsAreBelow
  <2> QED BY <1>1, <1>5, <1>7, <2>1 DEF IInv, IdsAreBelow
<1>14. LastRecords'
  <2> SUFFICES ASSUME NEW x \in Txns, last_lsn_per_txn'[x] # NoLSN
               PROVE  last_lsn_per_txn'[x] \in DOMAIN log' /\ log'[last_lsn_per_txn'[x]].txn_id = x
    BY DEF LastRecords, Active
  <2>1. x # t /\ last_lsn_per_txn'[x] = last_lsn_per_txn[x] BY <1>1, <1>2
  <2>2. last_lsn_per_txn[x] \in DOMAIN log /\ log[last_lsn_per_txn[x]].txn_id = x
    BY <2>1 DEF IInv, LastRecords, Active
  <2> QED BY <2>1, <2>2, <1>7
<1>15. PastFrames' BY <1>1, <1>2, <1>7 DEF IInv, PastFrames
<1>16. CommitsAreDurable'
  <2> SUFFICES ASSUME NEW x \in acked'
               PROVE  \E i \in 1 .. durable' : log'[i].type = "COMMIT" /\ log'[i].txn_id = x
    BY DEF CommitsAreDurable
  <2>1. CASE x \in acked
    <3>1. PICK i \in 1 .. durable : log[i].type = "COMMIT" /\ log[i].txn_id = x
      BY <2>1 DEF IInv, CommitsAreDurable
    <3> QED BY <3>1, <1>1, <1>2, <1>7
  <2>2. CASE x \notin acked
    <3>1. x = t /\ type = "COMMIT" BY <2>2
    <3> QED BY <3>1, <1>1, <1>2, <1>5, <1>7
  <2> QED BY <2>1, <2>2
<1> QED BY <1>7, <1>9, <1>10, <1>11, <1>12, <1>13, <1>14, <1>15, <1>16 DEF IInv

(* Steps that only fetch a page into a frame: reads and unchanged writes. *)
LEMMA FetchInv ==
  ASSUME IInv, Up, NEW p \in Pages, NEW f \in Frames, evictFrame(f, p), NEW fr \in FrameRecords,
         fr.image.rows \subseteq 1 .. Len(log), fr.before # Absent => fr.before = fr.image,
         frames' = [frames EXCEPT ![f] = fr],
         UNCHANGED <<log, next_lsn, next_txn_id, last_lsn_per_txn, next_page_id, acked>>
  PROVE  IInv'
<1>1. /\ frames \in [Frames -> FrameRecords] /\ durable \in 0 .. Len(log) /\ Len(log) \in Nat
      /\ acked \subseteq Txns
  BY DEF IInv, TypeOK, WALTypeOK, PoolTypeOK
<1>2. /\ file' \in [Pages -> Images] /\ durable' \in durable .. Len(log)
      /\ \A q \in Pages : file'[q].rows \subseteq 1 .. durable'
  BY Evicted
<1>3. /\ phase' = "up" /\ todo' = {} /\ cur' = NoTxn /\ at' = NoLSN /\ UndoIsDurable'
      /\ pos' \in Nat \ {0} /\ restarts' \in 0 .. MaxRestarts
  BY <1>1, Quiet
<1>4. TypeOK'
  <2>1. WALTypeOK' BY <1>1, <1>2 DEF IInv, TypeOK, WALTypeOK
  <2>2. PoolTypeOK' BY <1>1, <1>2 DEF IInv, TypeOK, PoolTypeOK
  <2> QED BY <1>1, <1>3, <2>1, <2>2 DEF TypeOK, NoLSN
<1>5. LogIsThreaded' /\ IdsAreBelow' /\ LastRecords' /\ PastImages(log)'
  BY DEF IInv, LogIsThreaded, IdsAreBelow, LastRecords, Active
<1>6. WALRule' BY <1>2 DEF WALRule
<1>7. CommitsAreDurable'
  <2>1. CommitsAreDurable /\ acked' = acked /\ log' = log BY DEF IInv
  <2>2. \A i \in 1 .. durable : i \in 1 .. durable' BY <1>1, <1>2
  <2> QED BY <2>1, <2>2 DEF CommitsAreDurable
<1>8. BeforeImagesAreCurrent' BY <1>1 DEF IInv, BeforeImagesAreCurrent
<1>9. PastFrames' BY <1>1 DEF IInv, PastFrames
<1> QED BY <1>3, <1>4, <1>5, <1>6, <1>7, <1>8, <1>9 DEF IInv

(* findFrame and the policy pick a frame. *)
LEMMA SlotsAreFrames ==
  ASSUME NEW p PROVE Slots(p) \subseteq Frames
BY DEF Slots

(* Reads, and writes that change nothing, preserve IInv. *)
LEMMA ReadInv ==
  ASSUME IInv, NEW p \in Pages, Read(p) \/ Rewrite(p) PROVE IInv'
<1>1. CASE Read(p)
  <2>1. PICK f \in Slots(p) : evictFrame(f, p) /\ frames' = [frames EXCEPT ![f] = fetchPage(f, p)]
    BY <1>1, Zenon DEF Read, readPage
  <2>2. f \in Frames BY SlotsAreFrames
  <2> DEFINE fr == fetchPage(f, p)
  <2>3. /\ fr \in FrameRecords /\ fr.image.rows \subseteq 1 .. Len(log)
        /\ fr.before # Absent => fr.before = fr.image
    BY <2>2, Fetched
  <2> HIDE DEF fr
  <2>4. frames' = [frames EXCEPT ![f] = fr] BY <2>1 DEF fr
  <2>5. Up /\ UNCHANGED <<log, next_lsn, next_txn_id, last_lsn_per_txn, next_page_id, acked>>
    BY <1>1 DEF Read, readPage
  <2> QED BY <2>1, <2>2, <2>3, <2>4, <2>5, FetchInv, Zenon
<1>2. CASE Rewrite(p)
  <2>1. PICK f \in Slots(p) :
          /\ evictFrame(f, p)
          /\ frames' = [frames EXCEPT ![f] = [fetchPage(f, p) EXCEPT !.dirty = TRUE, !.before = Absent]]
    BY <1>2, Zenon DEF Rewrite, writeUnchanged
  <2>2. f \in Frames BY SlotsAreFrames
  <2> DEFINE b == fetchPage(f, p)
             fr == [b EXCEPT !.dirty = TRUE, !.before = Absent]
  <2>3. b \in FrameRecords /\ b.image.rows \subseteq 1 .. Len(log) BY <2>2, Fetched
  <2> HIDE DEF b
  <2>4. Absent \in Images BY DEF Absent, Images, NoLSN
  <2>5. fr \in FrameRecords /\ fr.image = b.image /\ fr.before = Absent
    BY <2>3, <2>4, Zenon DEF FrameRecords
  <2>6. frames' = [frames EXCEPT ![f] = fr] BY <2>1 DEF b
  <2> HIDE DEF fr
  <2>7. Up /\ UNCHANGED <<log, next_lsn, next_txn_id, last_lsn_per_txn, next_page_id, acked>>
    BY <1>2, Zenon DEF Rewrite, writeUnchanged
  <2> QED BY <2>1, <2>2, <2>3, <2>5, <2>6, <2>7, FetchInv, Zenon
<1> QED BY <1>1, <1>2

(* A logged change to a frame: writePage and allocatePage. *)
LEMMA LoggedChangeInv ==
  ASSUME IInv, Up, NEW t \in Active, NEW p \in Pages, NEW f \in Frames, evictFrame(f, p),
         NEW fr \in FrameRecords, fr.page = p,
         fr.image.rows \subseteq 1 .. Len(log), fr.before.rows \subseteq 1 .. Len(log),
         LogUpdate(f, fr, t), next_page_id' \in [Tables -> Nat], acked' = acked
  PROVE  IInv'
<1> DEFINE u == UpdateRecord(t, p, fr.before, Changed(fr.image))
           c == [Changed(fr.image) EXCEPT !.lsn = next_lsn]
           nf == [fr EXCEPT !.image = c, !.dirty = TRUE, !.before = Absent]
<1>1. /\ frames \in [Frames -> FrameRecords] /\ durable \in 0 .. Len(log) /\ Len(log) \in Nat
      /\ acked \subseteq Txns /\ fr.image \in Images /\ fr.before \in Images
  <2>1. WALTypeOK /\ PoolTypeOK /\ acked \subseteq Txns BY DEF IInv, TypeOK
  <2>2. log \in Seq(Records) /\ durable \in 0 .. Len(log) BY <2>1 DEF WALTypeOK
  <2>3. Len(log) \in Nat BY <2>2
  <2>4. frames \in [Frames -> FrameRecords] BY <2>1 DEF PoolTypeOK
  <2>5. fr.image \in Images /\ fr.before \in Images BY DEF FrameRecords
  <2> QED BY <2>1, <2>2, <2>3, <2>4, <2>5
<1>2. /\ file' \in [Pages -> Images] /\ durable' \in durable .. Len(log)
      /\ \A q \in Pages : file'[q].rows \subseteq 1 .. durable'
  BY Evicted
<1>3. /\ Changed(fr.image) \in Images /\ Changed(fr.image).rows \subseteq 1 .. Len(log) + 1
      /\ c \in Images /\ c.rows \subseteq 1 .. Len(log) + 1
  BY <1>1, ChangedImage
<1>4. fr.before.rows \subseteq 1 .. Len(log) + 1 BY <1>1
<1>5. SoundNext(log, [Threaded(u) EXCEPT !.lsn = next_lsn]) /\ u.txn_id = t
  BY <1>1, <1>3, <1>4, UpdateIsSound
<1>6. appendRecord(u) /\ frames' = [frames EXCEPT ![f] = nf] BY DEF LogUpdate
<1> HIDE DEF u, c
<1>7. [Threaded(u) EXCEPT !.lsn = next_lsn].txn_id = t
  <2>1. Threaded(u).txn_id = t BY <1>5 DEF Threaded
  <2> DEFINE w == Threaded(u)
  <2> HIDE DEF w
  <2>2. w.txn_id = t BY <2>1 DEF w
  <2>3. [w EXCEPT !.lsn = next_lsn].txn_id = t BY <2>2
  <2> QED BY <2>3 DEF w
<1>8. durable' \in durable .. Len(log) + 1 BY <1>1, <1>2
<1>9. LogInv' /\ Len(log') = Len(log) + 1 BY <1>5, <1>6, <1>7, <1>8, AppendKeepsLogInv
<1>10. nf \in FrameRecords /\ nf.image = c /\ nf.before = Absent
  <2>1. Absent \in Images BY DEF Absent, Images, NoLSN
  <2> QED BY <2>1, <1>3, Zenon DEF FrameRecords
<1> HIDE DEF nf
<1>11. /\ phase' = "up" /\ todo' = {} /\ cur' = NoTxn /\ at' = NoLSN /\ UndoIsDurable'
       /\ pos' \in Nat \ {0} /\ restarts' \in 0 .. MaxRestarts
  BY <1>1, Quiet
<1>12. TypeOK'
  <2>1. PoolTypeOK' BY <1>1, <1>2, <1>6, <1>10 DEF PoolTypeOK
  <2> QED BY <1>1, <1>9, <1>11, <2>1 DEF TypeOK, NoLSN, LogInv
<1>13. WALRule' BY <1>2 DEF WALRule
<1>14. BeforeImagesAreCurrent' BY <1>1, <1>6, <1>10 DEF IInv, BeforeImagesAreCurrent
<1>15. PastFrames'
  <2> SUFFICES ASSUME NEW g \in Frames PROVE frames'[g].image.rows \subseteq 1 .. Len(log')
    BY DEF PastFrames
  <2>1. CASE g = f BY <2>1, <1>1, <1>3, <1>6, <1>9, <1>10
  <2>2. CASE g # f
    <3>1. frames'[g] = frames[g] /\ frames[g].image.rows \subseteq 1 .. Len(log)
      BY <2>2, <1>1, <1>6 DEF IInv, PastFrames
    <3>2. Len(log) \in Nat /\ Len(log') = Len(log) + 1 BY <1>1, <1>9
    <3>3. 1 .. Len(log) \subseteq 1 .. Len(log') BY <3>2
    <3> QED BY <3>1, <3>3
  <2> QED BY <2>1, <2>2
<1> QED BY <1>9, <1>11, <1>12, <1>13, <1>14, <1>15 DEF IInv, LogInv

(* A write to an existing page preserves IInv. *)
LEMMA WriteInv ==
  ASSUME IInv, NEW t \in Txns, NEW p \in Pages, Write(t, p) PROVE IInv'
<1>1. Up /\ t \in Active /\ next_page_id' \in [Tables -> Nat] /\ acked' = acked
  BY DEF Write, writePage, IInv, TypeOK, PoolTypeOK
<1>2. PICK f \in Slots(p) : evictFrame(f, p) /\ LogUpdate(f, fetchPage(f, p), t)
  BY DEF Write, writePage
<1>3. f \in Frames BY SlotsAreFrames
<1> DEFINE fr == fetchPage(f, p)
<1>4. /\ fr \in FrameRecords /\ fr.page = p
      /\ fr.image.rows \subseteq 1 .. Len(log) /\ fr.before.rows \subseteq 1 .. Len(log)
  BY <1>3, Fetched
<1>5. LogUpdate(f, fr, t) BY <1>2
<1> HIDE DEF fr
<1> QED BY <1>1, <1>2, <1>3, <1>4, <1>5, LoggedChangeInv

(* A write to a new page preserves IInv. *)
LEMMA AllocateInv ==
  ASSUME IInv, NEW t \in Txns, NEW p \in Pages, Allocate(t, p) PROVE IInv'
<1> DEFINE fr == [page |-> p, image |-> Empty, dirty |-> TRUE, before |-> Empty]
<1>1. Up /\ t \in Active /\ acked' = acked BY DEF Allocate, allocatePage
<1>2. next_page_id' \in [Tables -> Nat]
  <2>1. next_page_id \in [Tables -> Nat] BY DEF IInv, TypeOK, PoolTypeOK
  <2>2. next_page_id' = [next_page_id EXCEPT ![p.table] = next_page_id[p.table] + 1]
    BY DEF Allocate, allocatePage
  <2>3. p.table \in Tables BY DEF Pages
  <2> QED BY <2>1, <2>2, <2>3
<1>3. PICK f \in Slots(p) : evictFrame(f, p) /\ LogUpdate(f, fr, t) BY DEF Allocate, allocatePage
<1>4. f \in Frames BY SlotsAreFrames
<1>5. Empty \in Images /\ Empty.rows = {} BY DEF Empty, Images, NoLSN
<1>6. fr \in FrameRecords /\ fr.page = p /\ fr.image.rows = {} /\ fr.before.rows = {}
  BY <1>5 DEF FrameRecords
<1> HIDE DEF fr
<1> QED BY <1>1, <1>2, <1>3, <1>4, <1>6, LoggedChangeInv

(* The record saveNode logs and the image it writes. *)
LEMMA SaveNodeIsSound ==
  ASSUME IInv, NEW t \in Active, NEW p \in Pages
  PROVE  /\ SoundNext(log, [Threaded(saveNodeRecord(t, p)) EXCEPT !.lsn = next_lsn])
         /\ saveNodeRecord(t, p).txn_id = t
         /\ [Changed(readExistingBytes(p)) EXCEPT !.lsn = next_lsn] \in Images
         /\ [Changed(readExistingBytes(p)) EXCEPT !.lsn = next_lsn].rows \subseteq 1 .. Len(log) + 1
<1> DEFINE b == readExistingBytes(p)
<1>1. /\ durable \in 0 .. Len(log) /\ Len(log) \in Nat
      /\ file[p] \in Images /\ file[p].rows \subseteq 1 .. durable
  BY DEF IInv, TypeOK, WALTypeOK, PoolTypeOK, WALRule
<1>2. Zero \in Images /\ Zero.rows = {} BY DEF Zero, Images, NoLSN
<1>3. b \in Images /\ b.rows \subseteq 1 .. Len(log) BY <1>1, <1>2 DEF readExistingBytes
<1>4. b.rows \subseteq 1 .. Len(log) + 1 BY <1>1, <1>3
<1> HIDE DEF b
<1>5. /\ Changed(b) \in Images /\ Changed(b).rows \subseteq 1 .. Len(log) + 1
      /\ [Changed(b) EXCEPT !.lsn = next_lsn] \in Images
      /\ [Changed(b) EXCEPT !.lsn = next_lsn].rows \subseteq 1 .. Len(log) + 1
  BY <1>3, ChangedImage
<1>6. /\ SoundNext(log, [Threaded(UpdateRecord(t, p, b, Changed(b))) EXCEPT !.lsn = next_lsn])
      /\ UpdateRecord(t, p, b, Changed(b)).txn_id = t
  BY <1>3, <1>4, <1>5, UpdateIsSound
<1> QED BY <1>5, <1>6 DEF saveNodeRecord, b

(* IndexManager::saveNode preserves IInv. *)
LEMMA SaveNodeInv ==
  ASSUME IInv, NEW t \in Txns, NEW p \in Pages, SaveNode(t, p) PROVE IInv'
<1> DEFINE u == saveNodeRecord(t, p)
           c == [Changed(readExistingBytes(p)) EXCEPT !.lsn = next_lsn]
<1>1. /\ Up /\ t \in Active /\ acked' = acked /\ appendRecord(u) /\ durable' = Len(log')
      /\ file' = Written(file, p, c) /\ UNCHANGED <<frames, next_page_id>>
  BY DEF SaveNode, saveNode, flushAll
<1>2. /\ SoundNext(log, [Threaded(u) EXCEPT !.lsn = next_lsn]) /\ u.txn_id = t
      /\ c \in Images /\ c.rows \subseteq 1 .. Len(log) + 1
  BY <1>1, SaveNodeIsSound
<1> HIDE DEF u, c
<1>3. [Threaded(u) EXCEPT !.lsn = next_lsn].txn_id = t
  <2>1. Threaded(u).txn_id = t BY <1>2 DEF Threaded
  <2> DEFINE w == Threaded(u)
  <2> HIDE DEF w
  <2>2. w.txn_id = t BY <2>1 DEF w
  <2>3. [w EXCEPT !.lsn = next_lsn].txn_id = t BY <2>2
  <2> QED BY <2>3 DEF w
<1>4. /\ durable \in 0 .. Len(log) /\ Len(log) \in Nat /\ file \in [Pages -> Images]
      /\ \A q \in Pages : file[q].rows \subseteq 1 .. durable
  BY DEF IInv, TypeOK, WALTypeOK, PoolTypeOK, WALRule
<1>5. durable' = Len(log) + 1
  <2>1. log' = Append(log, [Threaded(u) EXCEPT !.lsn = next_lsn]) BY <1>1 DEF appendRecord, append
  <2>2. log \in Seq(Records) /\ [Threaded(u) EXCEPT !.lsn = next_lsn] \in Records
    BY <1>2 DEF IInv, TypeOK, WALTypeOK, SoundNext
  <2> QED BY <1>1, <2>1, <2>2
<1>6. LogInv' /\ Len(log') = Len(log) + 1
  BY <1>1, <1>2, <1>3, <1>4, <1>5, AppendKeepsLogInv
<1>7. /\ phase' = "up" /\ todo' = {} /\ cur' = NoTxn /\ at' = NoLSN /\ UndoIsDurable'
      /\ pos' \in Nat \ {0} /\ restarts' \in 0 .. MaxRestarts
  BY <1>1, Quiet DEF IInv, TypeOK
<1>8. /\ file' \in [Pages -> Images]
      /\ \A q \in Pages : file'[q].rows \subseteq file[q].rows \cup c.rows
  BY <1>1, <1>2, <1>4, WrittenFile
<1>9. TypeOK'
  <2>1. PoolTypeOK' BY <1>1, <1>8 DEF IInv, TypeOK, PoolTypeOK
  <2> QED BY <1>1, <1>6, <1>7, <2>1 DEF IInv, TypeOK, NoLSN, LogInv
<1>10. WALRule'
  <2>1. \A q \in Pages : file[q].rows \subseteq 1 .. Len(log) + 1 BY <1>4
  <2> QED BY <1>2, <1>5, <1>8, <2>1 DEF WALRule
<1>11. BeforeImagesAreCurrent' BY <1>1 DEF IInv, BeforeImagesAreCurrent
<1>12. PastFrames' BY <1>1, <1>4, <1>6 DEF IInv, PastFrames
<1> QED BY <1>6, <1>7, <1>9, <1>10, <1>11, <1>12 DEF IInv, LogInv

-----------------------------------------------------------------------------
(* Redo and undo. *)

(* Steps that change nothing but recovery's own position. *)
LEMMA WalkInv ==
  ASSUME IInv, UNCHANGED <<wal, pool, acked, restarts>>,
         phase' \in {"redo", "undo"}, pos' \in Nat \ {0}, at' \in Nat, todo' \subseteq Txns,
         cur' \in Txns \cup {NoTxn}, UndoIsDurable'
  PROVE  IInv'
<1>1. UNCHANGED <<log, durable, next_lsn, next_txn_id, last_lsn_per_txn, frames, file, next_page_id,
                  acked, restarts>>
  BY DEF wal, pool
<1>2. TypeOK' BY <1>1 DEF IInv, TypeOK, WALTypeOK, PoolTypeOK
<1>3. LogIsThreaded' /\ IdsAreBelow' /\ LastRecords' /\ PastImages(log)'
  BY <1>1 DEF IInv, LogIsThreaded, IdsAreBelow, LastRecords, Active
<1>4. WALRule' /\ CommitsAreDurable' /\ BeforeImagesAreCurrent' /\ PastFrames'
  BY <1>1 DEF IInv, WALRule, CommitsAreDurable, BeforeImagesAreCurrent, PastFrames
<1> QED BY <1>2, <1>3, <1>4 DEF IInv

(* A step of redo preserves IInv. *)
LEMMA RedoRecordInv ==
  ASSUME IInv, redoRecord PROVE IInv'
<1> DEFINE r == log[pos]
<1>1. /\ phase = "redo" /\ pos <= Len(log) /\ pos' = pos + 1
      /\ UNCHANGED <<log, durable, next_lsn, next_txn_id, last_lsn_per_txn, frames, next_page_id, phase,
                     todo, cur, at, acked, restarts>>
  BY DEF redoRecord, wal
<1>2. /\ log \in Seq(Records) /\ durable = Len(log) /\ file \in [Pages -> Images] /\ pos \in Nat \ {0}
      /\ Len(log) \in Nat /\ \A q \in Pages : file[q].rows \subseteq 1 .. durable
  <2>1. TypeOK /\ WALRule /\ UndoIsDurable BY DEF IInv
  <2>2. log \in Seq(Records) /\ Len(log) \in Nat BY <2>1 DEF TypeOK, WALTypeOK
  <2>3. file \in [Pages -> Images] BY <2>1 DEF TypeOK, PoolTypeOK
  <2>4. pos \in Nat \ {0} BY <2>1 DEF TypeOK
  <2>5. durable = Len(log) BY <1>1, <2>1 DEF UndoIsDurable
  <2> QED BY <2>1, <2>2, <2>3, <2>4, <2>5 DEF WALRule
<1>3. file' \in [Pages -> Images] /\ \A q \in Pages : file'[q].rows \subseteq 1 .. durable
  <2>1. CASE file' = file BY <2>1, <1>2
  <2>2. CASE file' # file
    <3>1. IsPageRecord(r) /\ file' = Written(file, r.page, After(r))
      BY <2>2 DEF redoRecord, writePageBytes
    <3>2. pos \in DOMAIN log BY <1>1, <1>2
    <3>3. r \in Records BY <3>2, <1>2
    <3>4. /\ r.old_data \in Images /\ r.new_data \in Images
          /\ r.old_data.rows \subseteq 1 .. pos /\ r.new_data.rows \subseteq 1 .. pos
      BY <3>2, <3>3 DEF IInv, PastImages, Records
    <3>5. After(r) \in Images /\ After(r).rows \subseteq 1 .. durable
      BY <3>4, <1>1, <1>2, SMTT(60) DEF After
    <3>6. /\ file' \in [Pages -> Images]
          /\ \A q \in Pages : file'[q].rows \subseteq file[q].rows \cup After(r).rows
      BY <1>2, <3>1, <3>5, WrittenFile
    <3> QED BY <1>2, <3>5, <3>6
  <2> QED BY <2>1, <2>2
<1>4. TypeOK'
  <2>1. WALTypeOK' BY <1>1 DEF IInv, TypeOK, WALTypeOK
  <2>2. PoolTypeOK' BY <1>1, <1>3 DEF IInv, TypeOK, PoolTypeOK
  <2>3. pos' \in Nat \ {0} BY <1>1, <1>2
  <2> QED BY <1>1, <2>1, <2>2, <2>3 DEF IInv, TypeOK
<1>5. LogIsThreaded' /\ IdsAreBelow' /\ LastRecords' /\ PastImages(log)'
  BY <1>1 DEF IInv, LogIsThreaded, IdsAreBelow, LastRecords, Active
<1>6. CommitsAreDurable' /\ BeforeImagesAreCurrent' /\ PastFrames'
  BY <1>1 DEF IInv, CommitsAreDurable, BeforeImagesAreCurrent, PastFrames
<1>7. WALRule' BY <1>1, <1>3 DEF WALRule
<1>8. UndoIsDurable' BY <1>1 DEF IInv, UndoIsDurable, Walked
<1> QED BY <1>4, <1>5, <1>6, <1>7, <1>8 DEF IInv

(* The loser analysis preserves IInv. *)
LEMMA RedoDoneInv ==
  ASSUME IInv, redoDone PROVE IInv'
<1>1. /\ phase = "redo" /\ phase' = "undo" /\ todo' = Losers
      /\ UNCHANGED <<wal, pool, pos, cur, at, acked, restarts>> /\ log' = log /\ durable' = durable
  BY DEF redoDone, wal
<1>2. /\ log \in Seq(Records) /\ durable = Len(log) /\ cur = NoTxn /\ at = NoLSN /\ pos \in Nat \ {0}
      /\ Len(log) \in Nat
  BY <1>1 DEF IInv, TypeOK, WALTypeOK, UndoIsDurable
<1>3. \A t \in Losers : t \in Txns /\ Walked(t) # {} /\ \A i \in Walked(t) : i <= durable
  BY <1>2 DEF Losers, Walked
<1>4. UndoIsDurable'
  <2>1. NoTxn \notin Losers BY <1>3, WALAssumption DEF NoTxn, Txns
  <2>2. \A t \in Losers : (Walked(t))' = Walked(t) BY <1>1 DEF Walked
  <2> QED BY <1>1, <1>2, <1>3, <2>1, <2>2 DEF UndoIsDurable
<1> QED BY <1>1, <1>2, <1>3, <1>4, WalkInv DEF NoLSN

(* Undoing an UPDATE preserves IInv. *)
LEMMA UndoUpdateInv ==
  ASSUME IInv, undoUpdate PROVE IInv'
<1>2. /\ log \in Seq(Records) /\ durable \in 0 .. Len(log) /\ Len(log) \in Nat /\ next_lsn \in Nat
      /\ file \in [Pages -> Images] /\ \A q \in Pages : file[q].rows \subseteq 1 .. durable
  <2>1. WALTypeOK /\ PoolTypeOK /\ WALRule BY DEF IInv, TypeOK
  <2>2. log \in Seq(Records) /\ durable \in 0 .. Len(log) /\ next_lsn \in Nat BY <2>1 DEF WALTypeOK
  <2>3. Len(log) \in Nat BY <2>2
  <2>4. file \in [Pages -> Images] BY <2>1 DEF PoolTypeOK
  <2>5. \A q \in Pages : file[q].rows \subseteq 1 .. durable BY <2>1 DEF WALRule
  <2> QED BY <2>2, <2>3, <2>4, <2>5
<1> DEFINE r == log[at]
           s == [clr(r) EXCEPT !.lsn = next_lsn]
           c == [r.old_data EXCEPT !.lsn = next_lsn]
<1>0. UNCHANGED <<durable, next_txn_id, last_lsn_per_txn, frames, next_page_id, phase, pos, todo, cur,
                  acked, restarts>>
  BY DEF undoUpdate
<1>1. /\ phase = "undo" /\ cur # NoTxn /\ at # NoLSN /\ r.type = "UPDATE"
      /\ log' = Append(log, s) /\ next_lsn' = next_lsn + 1
      /\ file' = Written(file, r.page, c) /\ at' = r.prev_lsn
  BY DEF undoUpdate, append, writePageBytes
<1>3. at \in 1 .. durable /\ r.txn_id = cur /\ cur \in Txns /\ cur \notin todo
  BY <1>1 DEF IInv, TypeOK, UndoIsDurable
<1>4. at \in DOMAIN log /\ r \in Records BY <1>2, <1>3
<1>5. r.prev_lsn \in 1 .. at - 1 /\ log[r.prev_lsn].txn_id = cur
  BY <1>1, <1>3, <1>4 DEF IInv, LogIsThreaded, ThreadedLog
<1>6. c \in Images /\ c.rows \subseteq 1 .. durable
  <2> DEFINE o == r.old_data
  <2>1. o \in Images /\ o.rows \subseteq 1 .. at BY <1>4 DEF IInv, PastImages, Records
  <2> HIDE DEF o
  <2>2. [o EXCEPT !.lsn = next_lsn] \in Images /\ [o EXCEPT !.lsn = next_lsn].rows = o.rows
    BY <1>2, <2>1 DEF Images
  <2>3. o.rows \subseteq 1 .. durable BY <1>2, <1>3, <2>1
  <2> QED BY <2>2, <2>3 DEF o
<1>7. SoundNext(log, s) /\ s.txn_id = cur
  <2>1. SoundNext(log, s) BY <1>1, ClrIsSound
  <2> DEFINE u == clr(r)
  <2>2. u.txn_id = cur BY DEF clr, Record
  <2> HIDE DEF u
  <2>3. [u EXCEPT !.lsn = next_lsn].txn_id = cur BY <2>2
  <2> QED BY <2>1, <2>3 DEF u
<1> HIDE DEF s, c, r
<1>8. durable' \in durable .. Len(log) + 1
  <2>1. durable \in Nat /\ Len(log) \in Nat /\ durable <= Len(log) BY <1>2
  <2> QED BY <1>0, <2>1
<1>9. /\ log' \in Seq(Records) /\ Len(log') = Len(log) + 1
      /\ \A i \in 1 .. Len(log) : log'[i] = log[i]
      /\ log'[Len(log) + 1] = s
      /\ DOMAIN log = 1 .. Len(log) /\ DOMAIN log' = 1 .. Len(log) + 1
      /\ LogIsThreaded' /\ PastImages(log)' /\ CommitsAreDurable'
      /\ durable' \in 0 .. Len(log') /\ next_lsn' \in Nat \ {0}
  BY <1>0, <1>1, <1>7, <1>8, LogGrows
<1>10. /\ file' \in [Pages -> Images]
       /\ \A q \in Pages : file'[q].rows \subseteq file[q].rows \cup c.rows
  BY <1>1, <1>2, <1>6, WrittenFile
<1>11. TypeOK'
  <2>1. WALTypeOK' BY <1>0, <1>9 DEF IInv, TypeOK, WALTypeOK
  <2>2. PoolTypeOK' BY <1>0, <1>10 DEF IInv, TypeOK, PoolTypeOK
  <2>3. at' \in Nat
    <3>1. at' = r.prev_lsn BY <1>1
    <3> QED BY <3>1, <1>5
  <2> QED BY <1>0, <2>1, <2>2, <2>3 DEF IInv, TypeOK
<1>12. WALRule' BY <1>0, <1>2, <1>6, <1>10 DEF WALRule
<1>13. BeforeImagesAreCurrent' BY <1>0 DEF IInv, BeforeImagesAreCurrent
<1>14. IdsAreBelow'
  <2>1. cur < next_txn_id
    <3>1. log[at].txn_id < next_txn_id BY <1>4 DEF IInv, IdsAreBelow
    <3> QED BY <3>1, <1>3 DEF r
  <2>2. IdsAreBelow /\ next_txn_id' = next_txn_id BY <1>0 DEF IInv
  <2>3. \A i \in 1 .. Len(log) + 1 : log'[i].txn_id < next_txn_id'
    <3> SUFFICES ASSUME NEW i \in 1 .. Len(log) + 1 PROVE log'[i].txn_id < next_txn_id' OBVIOUS
    <3>1. CASE i \in 1 .. Len(log)
      <4>1. log'[i] = log[i] /\ i \in DOMAIN log BY <3>1, <1>9
      <4> QED BY <4>1, <2>2 DEF IdsAreBelow
    <3>2. CASE i = Len(log) + 1
      <4>1. log'[i].txn_id = cur BY <3>2, <1>7, <1>9
      <4> QED BY <4>1, <2>1, <2>2
    <3> QED BY <1>2, <3>1, <3>2
  <2>4. DOMAIN log' = 1 .. Len(log) + 1 BY <1>9
  <2> QED BY <2>3, <2>4 DEF IdsAreBelow
<1>15. LastRecords'
  <2>1. LastRecords /\ last_lsn_per_txn' = last_lsn_per_txn /\ Active' = Active BY <1>0 DEF IInv, Active
  <2>2. \A i \in DOMAIN log : i \in DOMAIN log' /\ log'[i] = log[i] BY <1>2, <1>9
  <2> QED BY <2>1, <2>2 DEF LastRecords
<1>16. PastFrames'
  <2>1. PastFrames /\ frames' = frames BY <1>0 DEF IInv
  <2>2. 1 .. Len(log) \subseteq 1 .. Len(log') BY <1>2, <1>9
  <2> QED BY <2>1, <2>2 DEF PastFrames
<1>17. UndoIsDurable'
  <2>1. at' \in 1 .. durable /\ log'[at'].txn_id = cur
    <3>1. at' \in 1 .. at - 1 /\ log[at'].txn_id = cur BY <1>1, <1>5
    <3>2. durable \in Nat /\ durable <= Len(log) /\ Len(log) \in Nat BY <1>2
    <3>3. at' \in 1 .. durable /\ at' \in 1 .. Len(log) BY <3>1, <3>2, <1>3
    <3>4. log'[at'] = log[at'] BY <3>3, <1>9
    <3> QED BY <3>1, <3>3, <3>4
  <2>2. ASSUME NEW t \in todo
        PROVE  (Walked(t))' = Walked(t) /\ Walked(t) # {} /\ \A i \in Walked(t) : i <= durable
    <3>1. t # cur BY <1>3
    <3>2. \A i \in 1 .. Len(log) + 1 :
             (i \in DOMAIN log' /\ log'[i].txn_id = t) <=> (i \in DOMAIN log /\ log[i].txn_id = t)
      <4> SUFFICES ASSUME NEW i \in 1 .. Len(log) + 1
                   PROVE (i \in DOMAIN log' /\ log'[i].txn_id = t) <=> (i \in DOMAIN log /\ log[i].txn_id = t)
        OBVIOUS
      <4>1. CASE i = Len(log) + 1
        <5>1. log'[i].txn_id = cur BY <4>1, <1>7, <1>9
        <5>2. i \notin DOMAIN log BY <4>1, <1>2, <1>9
        <5> QED BY <5>1, <5>2, <3>1
      <4>2. CASE i \in 1 .. Len(log)
        <5>1. i \in DOMAIN log /\ i \in DOMAIN log' /\ log'[i] = log[i] BY <4>2, <1>2, <1>9
        <5> QED BY <5>1
      <4> QED BY <4>1, <4>2, <1>2
    <3>3. DOMAIN log \subseteq 1 .. Len(log) + 1 /\ DOMAIN log' \subseteq 1 .. Len(log) + 1
      BY <1>2, <1>9
    <3>4. \A i \in DOMAIN log : log'[i] = log[i] BY <1>9
    <3>5. (Walked(t))' = Walked(t) BY <3>2, <3>3, <3>4 DEF Walked
    <3> QED BY <3>5 DEF IInv, UndoIsDurable
  <2>3. phase = "undo" /\ cur # NoTxn BY <1>1
  <2> QED BY <1>0, <1>3, <2>1, <2>2, <2>3 DEF UndoIsDurable
<1> QED BY <1>9, <1>11, <1>12, <1>13, <1>14, <1>15, <1>16, <1>17 DEF IInv

(* The undo pass's other steps preserve IInv. *)
LEMMA UndoStepInv ==
  ASSUME IInv, undoCLR \/ undoTxnDone PROVE IInv'
<1>1. /\ phase = "undo" /\ phase' = phase /\ cur # NoTxn /\ todo' = todo /\ pos' = pos
      /\ UNCHANGED <<wal, pool, acked, restarts>> /\ log' = log /\ durable' = durable
  BY DEF undoCLR, undoTxnDone, wal
<1>2. /\ pos \in Nat \ {0} /\ todo \subseteq Txns /\ cur \in Txns /\ log \in Seq(Records)
      /\ durable \in 0 .. Len(log) /\ Len(log) \in Nat
  BY <1>1 DEF IInv, TypeOK, WALTypeOK
<1>3. \A x \in Txns : (Walked(x))' = Walked(x) BY <1>1 DEF Walked
<1>4. CASE undoCLR
  <2>1. at # NoLSN /\ log[at].type = "CLR" /\ at' = log[at].prev_lsn /\ cur' = cur
    BY <1>4 DEF undoCLR
  <2>2. at \in 1 .. durable /\ log[at].txn_id = cur BY <2>1 DEF IInv, UndoIsDurable
  <2>3. at \in DOMAIN log BY <2>2, <1>2
  <2>4. at' \in 1 .. at - 1 /\ log[at'].txn_id = cur
    BY <2>1, <2>2, <2>3 DEF IInv, LogIsThreaded, ThreadedLog
  <2>5. at' \in Nat /\ at' \in 1 .. durable BY <2>2, <2>4, <1>2
  <2>6. UndoIsDurable' BY <1>1, <1>2, <1>3, <2>1, <2>4, <2>5, Zenon DEF IInv, UndoIsDurable
  <2> QED BY <1>1, <1>2, <2>1, <2>5, <2>6, WalkInv
<1>5. CASE undoTxnDone
  <2>1. cur' = NoTxn /\ at' = NoLSN BY <1>5 DEF undoTxnDone
  <2>2. NoTxn \notin todo BY <1>2, WALAssumption DEF NoTxn, Txns
  <2>3. UndoIsDurable' BY <1>1, <1>2, <1>3, <2>1, <2>2 DEF IInv, UndoIsDurable
  <2> QED BY <1>1, <1>2, <2>1, <2>3, WalkInv DEF NoLSN
<1> QED BY <1>4, <1>5

=============================================================================
