----------------------------- MODULE BufferPool -----------------------------
(***************************************************************************)
(* The heap's buffer pool (src/bufferpool.cpp) as RecordManager drives it  *)
(* through PageManager, and the index's write-through IndexManager         *)
(* (src/indexmanager.cpp).  RecordManager's io_mutex makes each            *)
(* read-modify-write of a page one step; pages are pinned only inside it,  *)
(* so between steps every frame may be evicted, and the policy is any      *)
(* choice of a frame of the table.                                         *)
(***************************************************************************)
EXTENDS WAL, FiniteSets

CONSTANT NumFrames

ASSUME PoolAssumption == NumFrames \in Nat \ {0} /\ IsFiniteSet(HeapIds)

Frames == Tables \X (1 .. NumFrames)

VARIABLES frames,         \* [page, image, dirty, before]; before Absent: not valid
          file,           \* page -> its image in the heap or index file
          next_page_id    \* table -> the next heap page

pool == <<frames, file, next_page_id>>

NoFrame == [page |-> NoPage, image |-> Absent, dirty |-> FALSE, before |-> Absent]

FrameRecords == [page : Pages \cup {NoPage}, image : Images, dirty : BOOLEAN, before : Images]

PoolTypeOK ==
  /\ frames \in [Frames -> FrameRecords]
  /\ file \in [Pages -> Images]
  /\ next_page_id \in [Tables -> Nat]

PoolInit ==
  /\ frames = [f \in Frames |-> NoFrame]
  /\ file = [p \in Pages |-> Absent]
  /\ next_page_id = [tb \in Tables |-> 0]

-----------------------------------------------------------------------------
SameFile(p, q) == p.table = q.table /\ p.store = q.store

(* A file grows with zeros up to the page that is written. *)
Extended(f, p) ==
  [q \in Pages |-> IF SameFile(p, q) /\ q.id <= p.id /\ f[q].state = "absent" THEN Zero ELSE f[q]]
Written(f, p, image) == [Extended(f, p) EXCEPT ![p] = image]

(* The frame that holds p, or any frame of its table as the victim. *)
Slots(p) ==
  LET holding == {f \in Frames : frames[f].page = p} IN
  IF holding # {} THEN holding ELSE {f \in Frames : f[1] = p.table}

WritesBack(f, p) == frames[f].page # p /\ frames[f].page # NoPage /\ frames[f].dirty

(* Mutant: the page is written back before its log records. *)
evictUnlogged(f, p) ==
  IF WritesBack(f, p)
  THEN /\ file' = Written(file, frames[f].page, frames[f].image)
       /\ UNCHANGED durable
  ELSE UNCHANGED <<file, durable>>

(* Mutant: the victim is dropped, dirty or not. *)
evictDropping(f, p) == UNCHANGED <<file, durable>>

(* evictFrame: a dirty victim is written back, after its log records. *)
evictFrame(f, p) ==
  IF WritesBack(f, p)
  THEN /\ file' = Written(file, frames[f].page, frames[f].image)
       /\ durable' = Len(log)
  ELSE UNCHANGED <<file, durable>>

(* fetchPage: the frame afterwards, its before-image captured. *)
fetchPage(f, p) ==
  IF frames[f].page # p
  THEN [page |-> p, image |-> file[p], dirty |-> FALSE, before |-> file[p]]
  ELSE IF frames[f].before = Absent THEN [frames[f] EXCEPT !.before = frames[f].image]
  ELSE frames[f]

InPool(p) == p.store = "HEAP" /\ p.id < next_page_id[p.table]

readPage(p) ==
  /\ InPool(p)
  /\ \E f \in Slots(p) :
       /\ evictFrame(f, p)
       /\ frames' = [frames EXCEPT ![f] = fetchPage(f, p)]
  /\ UNCHANGED <<log, next_lsn, next_txn_id, last_lsn_per_txn, next_page_id>>

(* A write that changes nothing (deleteRecord of a deleted slot): the page *)
(* is dirty, nothing is logged.                                            *)
writeUnchanged(p) ==
  /\ InPool(p)
  /\ \E f \in Slots(p) :
       /\ evictFrame(f, p)
       /\ frames' = [frames EXCEPT ![f] = [fetchPage(f, p) EXCEPT !.dirty = TRUE, !.before = Absent]]
  /\ UNCHANGED <<log, next_lsn, next_txn_id, last_lsn_per_txn, next_page_id>>

(* The image with this step's change.  Its LSN field is set only after it  *)
(* has been logged, so the logged image carries the previous one.          *)
Changed(image) == [image EXCEPT !.state = "page", !.rows = @ \cup {next_lsn}]
UpdateRecord(t, p, before, after) ==
  [Record(t, "UPDATE") EXCEPT !.page = p, !.old_data = before, !.new_data = after]

(* Mutant: the before-image of the first change is kept for the next. *)
LogKeepingBefore(f, fr, t) ==
  /\ appendRecord(UpdateRecord(t, fr.page, fr.before, Changed(fr.image)))
  /\ frames' = [frames EXCEPT ![f] =
                  [fr EXCEPT !.image = [Changed(fr.image) EXCEPT !.lsn = next_lsn], !.dirty = TRUE]]

(* unpinPage(dirty) with logUpdateIfChanged, for a frame just fetched. *)
LogUpdate(f, fr, t) ==
  /\ appendRecord(UpdateRecord(t, fr.page, fr.before, Changed(fr.image)))
  /\ frames' = [frames EXCEPT ![f] =
                  [fr EXCEPT !.image = [Changed(fr.image) EXCEPT !.lsn = next_lsn],
                             !.dirty = TRUE, !.before = Absent]]

(* A transaction inserts a record into, or patches one in, an existing     *)
(* page.  A zero-filled page reads as one without room and is passed over. *)
writePage(t, p) ==
  /\ HasRoom /\ t \in Active /\ InPool(p)
  /\ \E f \in Slots(p) :
       /\ fetchPage(f, p).image.state = "page"
       /\ evictFrame(f, p)
       /\ LogUpdate(f, fetchPage(f, p), t)
  /\ UNCHANGED next_page_id

(* No page has room: allocatePage, and the record goes into the new page. *)
allocatePage(t, p) ==
  /\ HasRoom /\ t \in Active
  /\ p.store = "HEAP" /\ p.id = next_page_id[p.table]
  /\ next_page_id' = [next_page_id EXCEPT ![p.table] = @ + 1]
  /\ \E f \in Slots(p) :
       /\ evictFrame(f, p)
       /\ LogUpdate(f, [page |-> p, image |-> Empty, dirty |-> TRUE, before |-> Empty], t)

(* saveNode: log, flush the log, write the node. *)
readExistingBytes(p) == IF file[p].state = "absent" THEN Zero ELSE file[p]

saveNodeRecord(t, p) == UpdateRecord(t, p, readExistingBytes(p), Changed(readExistingBytes(p)))

saveNode(t, p) ==
  /\ HasRoom /\ t \in Active /\ p.store = "INDEX"
  /\ appendRecord(saveNodeRecord(t, p))
  /\ flushAll
  /\ file' = Written(file, p, [Changed(readExistingBytes(p)) EXCEPT !.lsn = next_lsn])
  /\ UNCHANGED <<frames, next_page_id>>

(* The files after flush() has written back every dirty frame. *)
Flushed ==
  [p \in Pages |->
     IF \E f \in Frames : frames[f].page = p /\ frames[f].dirty
     THEN frames[CHOOSE f \in Frames : frames[f].page = p].image
     ELSE IF \E f \in Frames : /\ frames[f].dirty /\ SameFile(frames[f].page, p)
                               /\ p.id < frames[f].page.id /\ file[p].state = "absent"
     THEN Zero ELSE file[p]]

(* What the process sees of a page. *)
Current(p) ==
  IF \E f \in Frames : frames[f].page = p
  THEN frames[CHOOSE f \in Frames : frames[f].page = p].image
  ELSE file[p]
=============================================================================
