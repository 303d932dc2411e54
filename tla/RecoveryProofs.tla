--------------------------- MODULE RecoveryProofs ---------------------------
(***************************************************************************)
(* Crashes, shutdowns and the ends of recovery preserve IInv, and the      *)
(* theorems about Recovery that follow.                                    *)
(***************************************************************************)
EXTENDS RecoverySteps, WellFoundedInduction, FiniteSetTheorems

(* A nonempty set of numbers has a least element. *)
LEMMA LeastNat ==
  ASSUME NEW T, T \subseteq Nat, T # {}
  PROVE  \E x \in T : \A y \in T : x <= y
<1> DEFINE R == OpToRel(<, Nat)
<1>1. \E x \in T : \A y \in T : ~(<<y, x>> \in R)
  <2> HIDE DEF R
  <2> QED BY WFMin, NatLessThanWellFounded DEF R
<1>2. PICK x \in T : \A y \in T : ~(<<y, x>> \in R) BY <1>1
<1>3. \A y \in T : ~(y < x) BY <1>2, Zenon DEF OpToRel
<1> QED BY <1>3

(* A nonempty bounded set of positive numbers has a greatest element. *)
LEMMA GreatestBelow ==
  ASSUME NEW n \in Nat, NEW S, S \subseteq 1 .. n, S # {}
  PROVE  \E x \in S : \A y \in S : y <= x
<1> DEFINE T == {m \in 0 .. n : \A y \in S : y <= m}
<1>1. T \subseteq Nat /\ T # {}
  <2>1. \A y \in S : y <= n OBVIOUS
  <2>2. n \in T BY <2>1
  <2> QED BY <2>2
<1>2. PICK m \in T : \A k \in T : m <= k BY <1>1, LeastNat, Zenon
<1>3. ASSUME m \notin S PROVE FALSE
  <2>1. \A y \in S : y <= m - 1 BY <1>2, <1>3
  <2>2. PICK y \in S : TRUE BY Zenon
  <2>3. m - 1 \in 0 .. n BY <2>1, <2>2, <1>2
  <2>4. m - 1 \in T BY <2>1, <2>3
  <2> QED BY <1>2, <2>4
<1> QED BY <1>2, <1>3

-----------------------------------------------------------------------------
(* Opening what survived, if it is a threaded log, establishes IInv. *)
LEMMA RestartInv ==
  ASSUME IInv, NEW l \in Seq(Records), ThreadedLog(l), PastImages(l), durable <= Len(l),
         \A i \in 1 .. durable : l[i] = log[i],
         NEW fl \in [Pages -> Images], \A q \in Pages : fl[q].rows \subseteq 1 .. Len(l),
         Restart(l, fl)
  PROVE  IInv'
<1>1. /\ log' = l /\ durable' = Len(l) /\ file' = fl /\ frames' = [i \in Frames |-> NoFrame]
      /\ next_lsn' = IF l = <<>> THEN 1 ELSE l[Len(l)].lsn + 1
      /\ last_lsn_per_txn' = [t \in Txns |-> NoLSN]
      /\ phase' = "redo" /\ pos' = 1 /\ todo' = {} /\ cur' = NoTxn /\ at' = NoLSN
      /\ restarts < MaxRestarts /\ restarts' = restarts + 1 /\ acked' = acked
      /\ next_page_id' = [tb \in Tables |-> 0]
  BY DEF Restart, reopen
<1>2. Len(l) \in Nat /\ DOMAIN l = 1 .. Len(l) OBVIOUS
<1>3. \A i \in DOMAIN l : l[i].txn_id \in Txns /\ l[i].txn_id \in Nat BY IdsAreNumbers
<1>4. next_txn_id' \in 1 .. LastTxn + 1 /\ \A i \in DOMAIN l : l[i].txn_id < next_txn_id'
  <2> DEFINE Ok(n) == \A i \in DOMAIN l : l[i].txn_id < n
             T == {n \in 1 .. LastTxn + 1 : Ok(n)}
  <2>1. LastTxn + 1 \in T
    <3>1. \A i \in DOMAIN l : l[i].txn_id < LastTxn + 1 BY <1>3, WALAssumption DEF Txns
    <3> QED BY <3>1, WALAssumption
  <2>2. T \subseteq Nat BY WALAssumption
  <2>3. PICK n \in T : \A m \in T : n <= m BY <2>1, <2>2, LeastNat, Zenon
  <2>4. n \in 1 .. LastTxn + 1 /\ Ok(n) /\ \A m \in 1 .. n - 1 : ~Ok(m) BY <2>3, WALAssumption
  <2>5. next_txn_id' = CHOOSE x \in 1 .. LastTxn + 1 : Ok(x) /\ \A m \in 1 .. x - 1 : ~Ok(m)
    BY <1>1 DEF Restart, reopen, Above
  <2> HIDE DEF Ok
  <2>6. next_txn_id' \in 1 .. LastTxn + 1 /\ Ok(next_txn_id') BY <2>4, <2>5
  <2> QED BY <2>6 DEF Ok
<1>5. next_lsn' = Len(l) + 1
  <2>1. CASE l = <<>> BY <2>1, <1>1
  <2>2. CASE l # <<>>
    <3>1. Len(l) \in DOMAIN l BY <2>2, <1>2
    <3> QED BY <2>2, <3>1, <1>1, <1>2 DEF ThreadedLog
  <2> QED BY <2>1, <2>2
<1>6. NoFrame \in FrameRecords /\ NoFrame.before = Absent /\ NoFrame.image.rows = {}
  BY Zenon DEF NoFrame, FrameRecords, Absent, Images, NoLSN
<1>7. TypeOK'
  <2>1. WALTypeOK'
    <3>1. next_txn_id' \in Nat \ {0} BY <1>4, WALAssumption
    <3>2. log' = l /\ durable' = Len(l) /\ last_lsn_per_txn' = [t \in Txns |-> 0] BY <1>1 DEF NoLSN
    <3>3. durable' \in 0 .. Len(log') BY <1>2, <3>2
    <3>4. next_lsn' \in Nat \ {0} BY <1>2, <1>5
    <3> QED BY <3>1, <3>2, <3>3, <3>4 DEF WALTypeOK
  <2>2. PoolTypeOK' BY <1>1, <1>6 DEF PoolTypeOK
  <2>3. restarts' \in 0 .. MaxRestarts
    <3>1. restarts \in 0 .. MaxRestarts BY DEF IInv, TypeOK
    <3>2. restarts < MaxRestarts /\ restarts' = restarts + 1 BY <1>1
    <3> QED BY <3>1, <3>2, RecoveryAssumption
  <2>4. acked' \subseteq Txns BY <1>1 DEF IInv, TypeOK
  <2> QED BY <1>1, <2>1, <2>2, <2>3, <2>4, SMTT(60) DEF TypeOK, NoLSN
<1>8. LogIsThreaded' BY <1>1, <1>5 DEF LogIsThreaded
<1>9. WALRule' BY <1>1 DEF WALRule
<1>10. CommitsAreDurable'
  <2>1. durable \in Nat BY SMTT(60) DEF IInv, TypeOK, WALTypeOK
  <2> QED BY <2>1, <1>1, <1>2, SMTT(60) DEF IInv, CommitsAreDurable
<1>11. BeforeImagesAreCurrent' /\ PastFrames'
  BY <1>1, <1>6 DEF BeforeImagesAreCurrent, PastFrames
<1>12. IdsAreBelow' BY <1>1, <1>4 DEF IdsAreBelow
<1>13. LastRecords' BY <1>1 DEF LastRecords, Active
<1>14. PastImages(log)' BY <1>1
<1>15. UndoIsDurable' BY <1>1 DEF UndoIsDurable, NoTxn
<1> QED BY <1>7, <1>8, <1>9, <1>10, <1>11, <1>12, <1>13, <1>14, <1>15 DEF IInv

(* A record appended just before a crash is a sound record. *)
LEMMA InFlightIsSound ==
  ASSUME IInv, NEW r \in InFlight PROVE SoundNext(log, [r EXCEPT !.lsn = next_lsn])
<1>1. CASE phase = "up"
  <2>1. InFlight = {Threaded(Record(t, type)) : t \in Active, type \in {"COMMIT", "ABORT"}}
           \cup {Threaded(saveNodeRecord(w[1], w[2])) : w \in
                   {v \in Active \X Pages : v[2].store = "INDEX" /\ MayWrite(v[1], v[2])}}
    BY <1>1 DEF InFlight
  <2>2. ASSUME NEW t \in Active, NEW type \in {"COMMIT", "ABORT"}, r = Threaded(Record(t, type))
        PROVE  SoundNext(log, [r EXCEPT !.lsn = next_lsn])
    <3>1. Absent \in Images /\ Absent.rows = {} BY DEF Absent, Images, NoLSN
    <3>2. SoundNext(log, [Threaded(Record(t, type)) EXCEPT !.lsn = next_lsn])
      BY <3>1, ThreadedIsSound, Zenon DEF Record
    <3> QED BY <2>2, <3>2
  <2>3. ASSUME NEW w \in Active \X Pages, r = Threaded(saveNodeRecord(w[1], w[2]))
        PROVE  SoundNext(log, [r EXCEPT !.lsn = next_lsn])
    <3>1. w[1] \in Active /\ w[2] \in Pages OBVIOUS
    <3>2. SoundNext(log, [Threaded(saveNodeRecord(w[1], w[2])) EXCEPT !.lsn = next_lsn])
      BY <3>1, SaveNodeIsSound, Zenon
    <3> QED BY <2>3, <3>2
  <2> QED BY <2>1, <2>2, <2>3
<1>2. CASE phase = "undo" /\ at # NoLSN /\ log[at].type = "UPDATE"
  <2>1. r = clr(log[at]) BY <1>2 DEF InFlight
  <2> QED BY <1>2, <2>1, ClrIsSound
<1>3. CASE phase # "up" /\ ~(phase = "undo" /\ at # NoLSN /\ log[at].type = "UPDATE")
  BY <1>3 DEF InFlight
<1> QED BY <1>1, <1>2, <1>3

(* A crash at any point preserves IInv. *)
LEMMA CrashInv ==
  ASSUME IInv, Crash PROVE IInv'
<1>0. PICK l \in Logs, p \in WriteBacks : \E n \in durable .. Len(l) :
        Restart(SubSeq(l, 1, n), Grown(p))
  BY DEF Crash
<1>1. PICK n \in durable .. Len(l) : Restart(SubSeq(l, 1, n), Grown(p)) BY <1>0
<1>2. /\ log \in Seq(Records) /\ durable \in 0 .. Len(log) /\ ThreadedLog(log) /\ PastImages(log)
      /\ file \in [Pages -> Images] /\ \A q \in Pages : file[q].rows \subseteq 1 .. durable
  BY DEF IInv, TypeOK, WALTypeOK, PoolTypeOK, LogIsThreaded, WALRule
<1>3. /\ l \in Seq(Records) /\ ThreadedLog(l) /\ PastImages(l) /\ Len(log) <= Len(l)
      /\ \A i \in DOMAIN log : l[i] = log[i]
  <2>1. CASE l = log BY <2>1, <1>2, SMTT(60)
  <2>2. ASSUME NEW r \in InFlight, l = Append(log, [r EXCEPT !.lsn = next_lsn])
        PROVE  /\ l \in Seq(Records) /\ ThreadedLog(l) /\ PastImages(l) /\ Len(l) = Len(log) + 1
               /\ \A i \in DOMAIN log : l[i] = log[i]
    <3>1. SoundNext(log, [r EXCEPT !.lsn = next_lsn]) BY InFlightIsSound
    <3> QED BY <1>2, <2>2, <3>1, AppendSound
  <2>3. Len(log) \in Nat BY <1>2
  <2>4. CASE l # log
    <3>1. PICK r \in InFlight : l = Append(log, [r EXCEPT !.lsn = next_lsn]) BY <2>4 DEF Logs
    <3> QED BY <3>1, <2>2, <2>3, SMTT(60)
  <2> QED BY <2>1, <2>4
<1> DEFINE m == SubSeq(l, 1, n)
<1>4. n \in 0 .. Len(l) /\ durable <= n BY <1>1, <1>2, <1>3
<1>5. /\ m \in Seq(Records) /\ Len(m) = n /\ \A i \in 1 .. n : m[i] = l[i]
      /\ ThreadedLog(m) /\ PastImages(m)
  BY <1>3, <1>4, PrefixSound
<1> HIDE DEF m
<1>6. \A i \in 1 .. durable : m[i] = log[i]
  <2> SUFFICES ASSUME NEW i \in 1 .. durable PROVE m[i] = log[i] OBVIOUS
  <2>1. i \in 1 .. n /\ i \in DOMAIN log BY <1>2, <1>4, SMTT(60)
  <2> QED BY <2>1, <1>3, <1>5
<1>7. Grown(p) \in [Pages -> Images] /\ \A q \in Pages : Grown(p)[q].rows \subseteq file[q].rows
  <2>1. Absent \in Images BY DEF Absent, Images, NoLSN
  <2> QED BY <1>2, <2>1, WrittenFile, Zenon DEF Grown
<1>8. \A q \in Pages : Grown(p)[q].rows \subseteq 1 .. Len(m)
  BY <1>2, <1>4, <1>5, <1>7
<1>9. Restart(m, Grown(p)) BY <1>1 DEF m
<1>10. durable <= Len(m) BY <1>4, <1>5
<1> DEFINE fl == Grown(p)
<1> HIDE DEF fl
<1>11. fl \in [Pages -> Images] /\ (\A q \in Pages : fl[q].rows \subseteq 1 .. Len(m)) /\ Restart(m, fl)
  BY <1>7, <1>8, <1>9 DEF fl
<1> QED BY <1>5, <1>6, <1>10, <1>11, RestartInv

(* An orderly shutdown preserves IInv. *)
LEMMA ShutdownInv ==
  ASSUME IInv, Shutdown PROVE IInv'
<1>1. /\ log \in Seq(Records) /\ durable \in 0 .. Len(log) /\ ThreadedLog(log) /\ PastImages(log)
      /\ file \in [Pages -> Images] /\ frames \in [Frames -> FrameRecords]
      /\ \A q \in Pages : file[q].rows \subseteq 1 .. durable
      /\ \A f \in Frames : frames[f].image.rows \subseteq 1 .. Len(log)
  BY DEF IInv, TypeOK, WALTypeOK, PoolTypeOK, LogIsThreaded, WALRule, PastFrames
<1>2. \A f \in Frames : frames[f].image \in Images BY <1>1 DEF FrameRecords
<1>3. Zero \in Images /\ Zero.rows = {} BY DEF Zero, Images, NoLSN
<1>4. ASSUME NEW q \in Pages PROVE Flushed[q] \in Images /\ Flushed[q].rows \subseteq 1 .. Len(log)
  <2>1. CASE \E f \in Frames : frames[f].page = q /\ frames[f].dirty
    <3> DEFINE g == CHOOSE f \in Frames : frames[f].page = q
    <3>1. g \in Frames BY <2>1
    <3>2. Flushed[q] = frames[g].image BY <2>1 DEF Flushed
    <3> HIDE DEF g
    <3> QED BY <3>1, <3>2, <1>1, <1>2
  <2>2. CASE ~\E f \in Frames : frames[f].page = q /\ frames[f].dirty
    <3>1. Flushed[q] = Zero \/ Flushed[q] = file[q] BY <2>2 DEF Flushed
    <3>2. file[q].rows \subseteq 1 .. Len(log) BY <1>1
    <3> QED BY <3>1, <3>2, <1>1, <1>3
  <2> QED BY <2>1, <2>2
<1> DEFINE fl == Flushed
<1>5. fl = [q \in Pages |-> fl[q]] BY DEF Flushed
<1>6. Restart(log, fl) BY DEF Shutdown
<1>7. \A q \in Pages : fl[q] \in Images /\ fl[q].rows \subseteq 1 .. Len(log) BY <1>4
<1> HIDE DEF fl
<1>8. fl \in [Pages -> Images] BY <1>5, <1>7
<1>9. durable <= Len(log) BY <1>1
<1> QED BY <1>1, <1>6, <1>7, <1>8, <1>9, RestartInv

(* Starting the undo of a loser preserves IInv. *)
LEMMA UndoTxnInv ==
  ASSUME IInv, NEW t \in Txns, undoTxn(t) PROVE IInv'
<1>1. /\ phase = "undo" /\ phase' = phase /\ t \in todo /\ cur' = t /\ at' = last_lsn(t)
      /\ todo' = todo \ {t} /\ pos' = pos
      /\ UNCHANGED <<wal, pool, acked, restarts>> /\ log' = log /\ durable' = durable
  BY DEF undoTxn, wal
<1>2. /\ log \in Seq(Records) /\ Len(log) \in Nat /\ pos \in Nat \ {0} /\ todo \subseteq Txns
      /\ durable \in 0 .. Len(log)
      /\ \A x \in todo : Walked(x) # {} /\ \A i \in Walked(x) : i <= durable
  BY DEF IInv, TypeOK, WALTypeOK, UndoIsDurable
<1>3. Walked(t) \subseteq 1 .. Len(log) BY <1>2 DEF Walked
<1>4. \E i \in Walked(t) : \A j \in Walked(t) : j <= i BY <1>1, <1>2, <1>3, GreatestBelow
<1>5. last_lsn(t) \in Walked(t) BY <1>4 DEF last_lsn
<1>6. at' \in 1 .. durable /\ log[at'].txn_id = t
  BY <1>1, <1>2, <1>3, <1>5, SMTT(60) DEF Walked
<1>7. UndoIsDurable'
  <2>1. \A x \in Txns : (Walked(x))' = Walked(x) BY <1>1 DEF Walked
  <2>2. t # NoTxn BY WALAssumption DEF NoTxn, Txns
  <2> QED BY <1>1, <1>2, <1>6, <2>1, <2>2 DEF UndoIsDurable
<1> QED BY <1>1, <1>2, <1>6, <1>7, WalkInv

(* Opening the tables after recovery preserves IInv. *)
LEMMA OpenInv ==
  ASSUME IInv, openTableStorage PROVE IInv'
<1>1. /\ phase = "undo" /\ phase' = "up" /\ cur = NoTxn /\ todo = {} /\ durable' = Len(log)
      /\ next_page_id' = [tb \in Tables |-> PagesInFile(tb)]
      /\ UNCHANGED <<log, next_lsn, next_txn_id, last_lsn_per_txn, frames, file, pos, todo, cur, at,
                     acked, restarts>>
  BY DEF openTableStorage
<1>2. log \in Seq(Records) /\ durable \in 0 .. Len(log) /\ Len(log) \in Nat /\ at = NoLSN
  BY <1>1 DEF IInv, TypeOK, WALTypeOK, UndoIsDurable
<1>3. \A tb \in Tables : PagesInFile(tb) \in Nat
  BY PoolAssumption, FS_Subset, FS_CardinalityType, Zenon DEF PagesInFile
<1>4. TypeOK'
  <2>1. WALTypeOK' BY <1>1, <1>2 DEF IInv, TypeOK, WALTypeOK
  <2>2. PoolTypeOK' BY <1>1, <1>3 DEF IInv, TypeOK, PoolTypeOK
  <2> QED BY <1>1, <2>1, <2>2 DEF IInv, TypeOK
<1>5. LogIsThreaded' /\ IdsAreBelow' /\ LastRecords' /\ PastImages(log)'
  BY <1>1 DEF IInv, LogIsThreaded, IdsAreBelow, LastRecords, Active
<1>6. BeforeImagesAreCurrent' /\ PastFrames'
  BY <1>1 DEF IInv, BeforeImagesAreCurrent, PastFrames
<1>7. CommitsAreDurable'
  <2>1. CommitsAreDurable /\ acked' = acked /\ log' = log BY <1>1 DEF IInv
  <2>2. \A i \in 1 .. durable : i \in 1 .. durable' BY <1>1, <1>2
  <2> QED BY <2>1, <2>2 DEF CommitsAreDurable
<1>8. WALRule' BY <1>1, <1>2 DEF IInv, WALRule
<1>9. UndoIsDurable' BY <1>1, <1>2 DEF UndoIsDurable, NoTxn
<1> QED BY <1>4, <1>5, <1>6, <1>7, <1>8, <1>9 DEF IInv

-----------------------------------------------------------------------------
(* IInv holds initially. *)
LEMMA InitInv == Init => IInv
<1> SUFFICES ASSUME Init PROVE IInv OBVIOUS
<1>1. /\ log = <<>> /\ durable = 0 /\ next_lsn = 1 /\ next_txn_id = 1
      /\ last_lsn_per_txn = [t \in Txns |-> NoLSN]
      /\ frames = [f \in Frames |-> NoFrame] /\ file = [p \in Pages |-> Absent]
      /\ next_page_id = [tb \in Tables |-> 0]
      /\ phase = "up" /\ pos = 1 /\ todo = {} /\ cur = NoTxn /\ at = NoLSN
      /\ acked = {} /\ restarts = 0
  BY DEF Init, WALInit, PoolInit
<1>2. Absent \in Images /\ Absent.rows = {} BY DEF Absent, Images, NoLSN
<1>3. NoFrame \in FrameRecords /\ NoFrame.before = Absent /\ NoFrame.image.rows = {}
  BY <1>2 DEF NoFrame, FrameRecords
<1>4. TypeOK
  <2>1. WALTypeOK BY <1>1 DEF WALTypeOK, NoLSN
  <2>2. PoolTypeOK BY <1>1, <1>2, <1>3 DEF PoolTypeOK
  <2> QED BY <1>1, <2>1, <2>2, RecoveryAssumption DEF TypeOK, NoLSN
<1>5. LogIsThreaded /\ IdsAreBelow /\ LastRecords /\ PastImages(log)
  <2>1. LogIsThreaded BY <1>1 DEF LogIsThreaded, ThreadedLog
  <2>2. IdsAreBelow /\ PastImages(log) BY <1>1 DEF IdsAreBelow, PastImages
  <2>3. Active = {} BY <1>1 DEF Active
  <2>4. LastRecords BY <2>3 DEF LastRecords
  <2> QED BY <2>1, <2>2, <2>4
<1>6. WALRule /\ CommitsAreDurable /\ BeforeImagesAreCurrent /\ PastFrames
  BY <1>1, <1>2, <1>3 DEF WALRule, CommitsAreDurable, BeforeImagesAreCurrent, PastFrames
<1>7. UndoIsDurable BY <1>1 DEF UndoIsDurable, NoTxn
<1> QED BY <1>4, <1>5, <1>6, <1>7 DEF IInv

(* Every step preserves IInv. *)
LEMMA StepInv == IInv /\ [Next]_vars => IInv'
<1> SUFFICES ASSUME IInv, [Next]_vars PROVE IInv' OBVIOUS
<1>1. CASE Begin BY <1>1, BeginInv
<1>2. ASSUME NEW t \in Txns, Commit(t) PROVE IInv' BY <1>2, EndInv DEF Commit
<1>3. ASSUME NEW t \in Txns, Abort(t) PROVE IInv' BY <1>3, EndInv DEF Abort
<1>4. ASSUME NEW p \in Pages, Read(p) \/ Rewrite(p) PROVE IInv' BY <1>4, ReadInv
<1>5. ASSUME NEW t \in Txns, NEW p \in Pages, Write(t, p) \/ Allocate(t, p) \/ SaveNode(t, p)
      PROVE  IInv'
  BY <1>5, WriteInv, AllocateInv, SaveNodeInv
<1>6. CASE Crash \/ Shutdown BY <1>6, CrashInv, ShutdownInv
<1>7. CASE Recover
  BY <1>7, RedoRecordInv, RedoDoneInv, UndoTxnInv, UndoUpdateInv, UndoStepInv, OpenInv DEF Recover
<1>8. CASE UNCHANGED vars
  <2>1. UNCHANGED <<log, durable, next_lsn, next_txn_id, last_lsn_per_txn, frames, file, next_page_id,
                    phase, pos, todo, cur, at, acked, restarts>>
    BY <1>8 DEF vars, wal, pool, recovery
  <2>2. TypeOK' /\ LogIsThreaded' /\ IdsAreBelow' /\ LastRecords' /\ PastImages(log)'
    BY <2>1, Zenon DEF IInv, TypeOK, WALTypeOK, PoolTypeOK, LogIsThreaded, IdsAreBelow, LastRecords, Active
  <2>3. WALRule' /\ CommitsAreDurable' /\ BeforeImagesAreCurrent' /\ PastFrames'
    BY <2>1, Zenon DEF IInv, WALRule, CommitsAreDurable, BeforeImagesAreCurrent, PastFrames
  <2>4. UndoIsDurable' BY <2>1 DEF IInv, UndoIsDurable, Walked
  <2> QED BY <2>2, <2>3, <2>4 DEF IInv
<1> QED BY <1>1, <1>2, <1>3, <1>4, <1>5, <1>6, <1>7, <1>8 DEF Next

(* IInv is an invariant of the engine. *)
LEMMA Inductive == Spec => []IInv
BY InitInv, StepInv, PTL DEF Spec

(* Type correctness of the log, the pool and recovery. *)
THEOREM RecoveryTypeCorrect == Spec => []TypeOK
<1>1. IInv => TypeOK BY DEF IInv
<1> QED BY <1>1, Inductive, PTL

(* WALWriter::append, scan and TransactionManager: LSNs count the records, *)
(* chains lead back through a transaction's own records, and ids are never *)
(* reused, across any number of crashes.                                   *)
THEOREM LogAlwaysThreaded == Spec => []LogIsThreaded
<1>1. IInv => LogIsThreaded BY DEF IInv
<1> QED BY <1>1, Inductive, PTL

(* BufferPool::writePageToDisk, IndexManager::saveNode and recovery's own  *)
(* page writes: what is in a file is in the durable log.                   *)
THEOREM WALRuleHolds == Spec => []WALRule
<1>1. IInv => WALRule BY DEF IInv
<1> QED BY <1>1, Inductive, PTL

(* TransactionManager::commit: once it has returned, no crash, and no      *)
(* crash of a recovery, loses the COMMIT record.                           *)
THEOREM CommitsStayDurable == Spec => []CommitsAreDurable
<1>1. IInv => CommitsAreDurable BY DEF IInv
<1> QED BY <1>1, Inductive, PTL

(* BufferPool::captureBeforeImage: a pending before-image is the page. *)
THEOREM BeforeImagesStayCurrent == Spec => []BeforeImagesAreCurrent
<1>1. IInv => BeforeImagesAreCurrent BY DEF IInv
<1> QED BY <1>1, Inductive, PTL

-----------------------------------------------------------------------------
(* Starting the undo of a loser: after its last record come no CLRs. *)
LEMMA UndoTxnGoesBack ==
  ASSUME IInv, UndoGoesBack, NEW t \in Txns, undoTxn(t) PROVE UndoGoesBack'
<1>1. /\ phase = "undo" /\ t \in todo /\ cur' = t /\ at' = last_lsn(t) /\ log' = log
      /\ last_lsn_per_txn' = last_lsn_per_txn /\ phase' = phase
  BY DEF undoTxn, wal
<1>2. /\ log \in Seq(Records) /\ Len(log) \in Nat /\ DOMAIN log = 1 .. Len(log) /\ Walked(t) # {}
      /\ ThreadedLog(log) /\ UndoneLog(log)
  BY <1>1 DEF IInv, TypeOK, WALTypeOK, UndoIsDurable, LogIsThreaded, UndoGoesBack
<1>3. Walked(t) \subseteq 1 .. Len(log) BY <1>2 DEF Walked
<1>4. \E i \in Walked(t) : \A j \in Walked(t) : j <= i BY <1>2, <1>3, GreatestBelow
<1>5. at' \in Walked(t) /\ \A j \in Walked(t) : j <= at' BY <1>1, <1>4 DEF last_lsn
<1>6. ASSUME NEW i \in CLRsOf(log, t) PROVE Reached' <= log[i].prev_lsn
  <2>1. i \in Walked(t) /\ i \in DOMAIN log /\ log[i].type = "CLR" /\ log[i].txn_id = t
    BY DEF CLRsOf, Walked
  <2>2. at' \in DOMAIN log /\ log[at'].txn_id = t /\ log[at'].type \in {"BEGIN", "UPDATE", "CLR"}
    BY <1>5 DEF Walked
  <2>3. log[i].prev_lsn \in Nat
    <3>1. log[i] \in Records BY <1>2, <2>1
    <3> QED BY <3>1 DEF Records
  <2>4. CASE i = at' BY <1>1, <2>1, <2>3, <2>4 DEF Reached
  <2>5. CASE i # at'
    <3>1. i \in 1 .. at' - 1 BY <1>2, <1>5, <2>1, <2>2, <2>5
    <3>2. log[at'].type # "BEGIN" BY <1>2, <2>1, <2>2, <3>1 DEF ThreadedLog
    <3>3. log[at'].type = "CLR" /\ log[at'].prev_lsn < log[i].prev_lsn
      BY <1>2, <2>1, <2>2, <3>1, <3>2 DEF UndoneLog
    <3>4. log[at'].prev_lsn \in Nat
      <4>1. log[at'] \in Records BY <1>2, <2>2
      <4> QED BY <4>1 DEF Records
    <3> QED BY <1>1, <2>3, <3>3, <3>4 DEF Reached
  <2> QED BY <2>4, <2>5
<1> QED BY <1>1, <1>2, <1>6 DEF UndoGoesBack, Active

(* A crash at any point, with the record that was on its way. *)
LEMMA CrashGoesBack ==
  ASSUME IInv, UndoGoesBack, Crash PROVE UndoGoesBack'
<1>0. PICK l \in Logs, p \in WriteBacks : \E n \in durable .. Len(l) :
        Restart(SubSeq(l, 1, n), Grown(p))
  BY DEF Crash
<1>1. PICK n \in durable .. Len(l) : Restart(SubSeq(l, 1, n), Grown(p)) BY <1>0
<1>2. log \in Seq(Records) /\ durable \in 0 .. Len(log) /\ ThreadedLog(log) /\ PastImages(log)
      /\ UndoneLog(log)
  BY DEF IInv, TypeOK, WALTypeOK, LogIsThreaded, UndoGoesBack
<1>3. l \in Seq(Records) /\ ThreadedLog(l) /\ UndoneLog(l) /\ Len(log) <= Len(l)
  <2>1. CASE l = log BY <1>2, <2>1
  <2>2. CASE l # log
    <3>1. PICK r \in InFlight : l = Append(log, [r EXCEPT !.lsn = next_lsn]) BY <2>2 DEF Logs
    <3> DEFINE s == [r EXCEPT !.lsn = next_lsn]
    <3>2. GoesBack(log, s)
      <4>1. CASE phase = "up"
        <5>1. \/ \E t \in Active, type \in {"COMMIT", "ABORT"} : r = Threaded(Record(t, type))
              \/ \E w \in Active \X Pages : r = Threaded(saveNodeRecord(w[1], w[2]))
          BY <4>1 DEF InFlight
        <5>2. ASSUME NEW t \in Active, NEW type \in {"COMMIT", "ABORT"}, r = Threaded(Record(t, type))
              PROVE  GoesBack(log, s)
          <6>1. s.type = type BY <5>2, RecordFields
          <6> QED BY <6>1 DEF GoesBack, IsPageRecord
        <5>3. ASSUME NEW t \in Active, NEW q \in Pages, r = Threaded(saveNodeRecord(t, q))
              PROVE  GoesBack(log, s)
          <6>1. s.type = "UPDATE" /\ s.txn_id = t /\ s.prev_lsn = last_lsn_per_txn[t]
            BY <5>3, UpdateFields DEF saveNodeRecord
          <6> HIDE DEF s
          <6> QED BY <6>1, UpdateGoesBack
        <5> QED BY <5>1, <5>2, <5>3
      <4>2. CASE phase = "undo" /\ at # NoLSN /\ log[at].type = "UPDATE"
        <5>1. r = clr(log[at]) BY <4>2 DEF InFlight
        <5> QED BY <4>2, <5>1, ClrGoesBack
      <4>3. CASE phase # "up" /\ ~(phase = "undo" /\ at # NoLSN /\ log[at].type = "UPDATE")
        BY <4>3 DEF InFlight
      <4> QED BY <4>1, <4>2, <4>3
    <3>3. SoundNext(log, s) BY InFlightIsSound
    <3> HIDE DEF s
    <3>4. l = Append(log, s) BY <3>1 DEF s
    <3>5. l \in Seq(Records) /\ ThreadedLog(l) /\ Len(l) = Len(log) + 1
      BY <1>2, <3>3, <3>4, AppendSound
    <3>6. UndoneLog(l) BY <1>2, <3>2, <3>4, <3>5, AppendGoesBack
    <3> QED BY <1>2, <3>5, <3>6
  <2> QED BY <2>1, <2>2
<1>4. n \in 0 .. Len(l) BY <1>1, <1>2, <1>3
<1>5. UndoneLog(SubSeq(l, 1, n)) BY <1>3, <1>4, PrefixGoesBack
<1>6. /\ log' = SubSeq(l, 1, n) /\ at' = NoLSN
      /\ last_lsn_per_txn' = [t \in Txns |-> NoLSN]
  BY <1>1 DEF Restart, reopen
<1>7. Active' = {} BY <1>6 DEF Active
<1> QED BY <1>5, <1>6, <1>7 DEF UndoGoesBack

(* The undo pass never undoes an UPDATE twice, over any number of crashes,  *)
(* crashes of a recovery included: a CLR leads back beyond what it undid    *)
(* (RecoveryManager::undo), and no transaction writes again once recovery   *)
(* has begun to undo it.                                                    *)
THEOREM UndoneOnce == Spec => []CompensatedOnce
<1>1. Init => UndoGoesBack
  BY DEF Init, WALInit, UndoGoesBack, UndoneLog, Active
<1>2. IInv /\ IInv' /\ UndoGoesBack /\ [Next]_vars => UndoGoesBack'
  <2> SUFFICES ASSUME IInv, IInv', UndoGoesBack, [Next]_vars PROVE UndoGoesBack' OBVIOUS
  <2>1. ASSUME \/ Begin \/ \E t \in Txns : Commit(t) \/ Abort(t)
               \/ \E t \in Txns, p \in Pages : Write(t, p) \/ Allocate(t, p) \/ SaveNode(t, p)
        PROVE  UndoGoesBack'
    BY <2>1, UpGoesBack
  <2>2. CASE Crash BY <2>2, CrashGoesBack
  <2>3. CASE Shutdown
    <3>1. log' = log /\ at' = NoLSN /\ last_lsn_per_txn' = [t \in Txns |-> NoLSN]
      BY <2>3 DEF Shutdown, Restart, reopen
    <3>2. Active' = {} BY <3>1 DEF Active
    <3> QED BY <3>1, <3>2 DEF UndoGoesBack
  <2>4. CASE undoUpdate BY <2>4, UndoUpdateGoesBack
  <2>5. ASSUME NEW t \in Txns, undoTxn(t) PROVE UndoGoesBack' BY <2>5, UndoTxnGoesBack
  <2>6. CASE undoCLR \/ undoTxnDone BY <2>6, UndoStepGoesBack
  <2>7. ASSUME \/ \E p \in Pages : Read(p) \/ Rewrite(p)
               \/ redoRecord \/ redoDone \/ UNCHANGED vars
        PROVE  UndoGoesBack'
    <3>1. /\ UNCHANGED <<log, last_lsn_per_txn, at, cur>> /\ (phase = "up" <=> phase' = "up")
      BY <2>7 DEF Read, Rewrite, Up, readPage, writeUnchanged, redoRecord, redoDone, vars, wal, recovery
    <3> QED BY <3>1 DEF UndoGoesBack, Active, Reached
  <2>8. CASE openTableStorage
    <3>1. UNCHANGED <<log, last_lsn_per_txn, at, cur>> BY <2>8 DEF openTableStorage
    <3>2. Active = {} BY <2>8 DEF openTableStorage, UndoGoesBack
    <3> QED BY <3>1, <3>2 DEF UndoGoesBack, Active, Reached
  <2> QED BY <2>1, <2>2, <2>3, <2>4, <2>5, <2>6, <2>7, <2>8 DEF Next, Recover
<1>3. IInv /\ UndoGoesBack => CompensatedOnce
  <2> SUFFICES ASSUME IInv, UndoGoesBack, NEW i \in DOMAIN log, NEW j \in DOMAIN log,
                      log[i].type = "CLR", log[j].type = "CLR", i # j,
                      log[i].txn_id = log[j].txn_id, log[i].prev_lsn = log[j].prev_lsn
               PROVE  FALSE
    BY DEF CompensatedOnce
  <2>1. log \in Seq(Records) BY DEF IInv, TypeOK, WALTypeOK
  <2>2. log[i].prev_lsn \in Nat
    <3>1. log[i] \in Records BY <2>1
    <3> QED BY <3>1 DEF Records
  <2>3. i \in 1 .. j - 1 \/ j \in 1 .. i - 1 BY <2>1
  <2> QED BY <2>2, <2>3 DEF UndoGoesBack, UndoneLog
<1> QED BY <1>1, <1>2, <1>3, Inductive, PTL DEF Spec

=============================================================================
