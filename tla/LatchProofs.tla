---------------------------- MODULE LatchProofs ----------------------------
(***************************************************************************)
(* RWSpinLatch excludes and counts as its comments say, for any threads    *)
(* and latches and however their accesses interleave.                      *)
(***************************************************************************)
EXTENDS Latch, FiniteSetTheorems, TLAPS

(* Between its check and its compare-and-swap a reader does not hold the   *)
(* latch: nothing is taken inside a call.                                  *)
ReadersEnterOnce ==
    \A t \in Threads : call[t].at \in {"load", "add"} => <<t, call[t].latch, "S">> \notin held

(* The inductive invariant.                                                *)
LatchInv == LatchTypeOK /\ StateCountsHolders /\ WritersAreCounted /\ ReadersEnterOnce

-----------------------------------------------------------------------------
(* Who holds or awaits a latch is a finite set of threads.                 *)
LEMMA Finite ==
    ASSUME NEW l, NEW mode
    PROVE  /\ IsFiniteSet(Holders(l, mode)) /\ Cardinality(Holders(l, mode)) \in Nat
           /\ IsFiniteSet(Announced(l)) /\ Cardinality(Announced(l)) \in Nat
<1>1. Holders(l, mode) \subseteq Threads /\ Announced(l) \subseteq Threads
    BY DEF Holders, Announced
<1>2. IsFiniteSet(Holders(l, mode)) /\ IsFiniteSet(Announced(l))
    BY <1>1, LatchAssumption, FS_Subset DEF LatchAssumption
<1> QED BY <1>2, FS_CardinalityType

(* Latches and callers nobody touches keep what is said of them.           *)
LEMMA CountsKept ==
    ASSUME StateCountsHolders, UNCHANGED <<state, held>>
    PROVE  StateCountsHolders'
BY DEF StateCountsHolders, Holders

LEMMA WritersKept ==
    ASSUME WritersAreCounted, UNCHANGED waiting_writers,
           \A l \in Latches : Announced(l)' = Announced(l)
    PROVE  WritersAreCounted'
BY DEF WritersAreCounted

(* A step that counts the holders of one latch right and lets the others   *)
(* alone.                                                                  *)
LEMMA CountsAt ==
    ASSUME StateCountsHolders, NEW l \in Latches,
           \A k \in Latches \ {l} : state'[k] = state[k],
           \A k \in Latches \ {l} : Holders(k, "S")' = Holders(k, "S"),
           \A k \in Latches \ {l} : Holders(k, "X")' = Holders(k, "X"),
           \/ /\ state'[l] = -1
              /\ Holders(l, "S")' = {}
              /\ \E t \in Threads : Holders(l, "X")' = {t}
           \/ /\ state'[l] = Cardinality(Holders(l, "S")')
              /\ Holders(l, "X")' = {}
    PROVE  StateCountsHolders'
<1>1. ASSUME NEW k \in Latches \ {l}
      PROVE  \/ /\ state'[k] = -1
                /\ Holders(k, "S")' = {}
                /\ \E t \in Threads : Holders(k, "X")' = {t}
             \/ /\ state'[k] = Cardinality(Holders(k, "S")')
                /\ Holders(k, "X")' = {}
    <2>1. /\ state'[k] = state[k]
          /\ Holders(k, "S")' = Holders(k, "S")
          /\ Holders(k, "X")' = Holders(k, "X")
        OBVIOUS
    <2>2. \/ /\ state[k] = -1
             /\ Holders(k, "S") = {}
             /\ \E t \in Threads : Holders(k, "X") = {t}
          \/ /\ state[k] = Cardinality(Holders(k, "S"))
             /\ Holders(k, "X") = {}
        BY DEF StateCountsHolders
    <2> QED BY <2>1, <2>2
<1> QED BY <1>1 DEF StateCountsHolders

(* What taking and giving back one latch does to the sets of holders.      *)
LEMMA Taken ==
    ASSUME NEW t \in Threads, NEW l \in Latches, NEW mode \in {"S", "X"},
           held' = held \cup {<<t, l, mode>>}
    PROVE  /\ Holders(l, mode)' = Holders(l, mode) \cup {t}
           /\ \A k, m : k # l \/ m # mode => Holders(k, m)' = Holders(k, m)
BY DEF Holders

LEMMA Given ==
    ASSUME NEW t \in Threads, NEW l \in Latches, NEW mode \in {"S", "X"},
           held' = held \ {<<t, l, mode>>}
    PROVE  /\ Holders(l, mode)' = Holders(l, mode) \ {t}
           /\ \A k, m : k # l \/ m # mode => Holders(k, m)' = Holders(k, m)
BY DEF Holders

(* A thread outside lock() before and after a step leaves the writers as   *)
(* they are.                                                               *)
LEMMA NotAWriter ==
    ASSUME LatchTypeOK, WritersAreCounted, NEW t \in Threads,
           call[t].at \notin {"swap", "retract"}, call'[t].at \notin {"swap", "retract"},
           \A u \in Threads \ {t} : call'[u] = call[u],
           UNCHANGED waiting_writers
    PROVE  WritersAreCounted'
<1>1. \A k \in Latches : Announced(k)' = Announced(k)
    BY DEF Announced
<1> QED BY <1>1, WritersKept

-----------------------------------------------------------------------------
(* One lemma per action, or per actions that do the same.                  *)

LEMMA ReaderSteps ==
    ASSUME LatchInv, NEW t \in Threads, NEW l \in Latches,
           lockShared(t, l) \/ loadState(t)
    PROVE  LatchInv'
<1> USE DEF LatchInv
<1>1. LatchTypeOK'
    <2>1. CASE lockShared(t, l)
        BY <2>1 DEF LatchTypeOK, lockShared, Calls
    <2>2. CASE loadState(t)
        BY <2>2 DEF LatchTypeOK, loadState, Calls, NoCall, At
    <2> QED BY <2>1, <2>2
<1>2. UNCHANGED <<state, held, waiting_writers>>
    BY DEF lockShared, loadState
<1>3. StateCountsHolders'
    BY <1>2, CountsKept
<1>4. call[t].at \notin {"swap", "retract"} /\ call'[t].at \notin {"swap", "retract"}
    BY DEF lockShared, loadState, NoCall, At, LatchTypeOK
<1>5. \A u \in Threads \ {t} : call'[u] = call[u]
    BY DEF lockShared, loadState, LatchTypeOK
<1>7. WritersAreCounted'
    BY <1>2, <1>4, <1>5, NotAWriter
<1>8. ReadersEnterOnce'
    BY <1>2, <1>5 DEF ReadersEnterOnce, lockShared, loadState, NoCall, At, LatchTypeOK
<1> QED BY <1>1, <1>3, <1>7, <1>8

LEMMA AddReader ==
    ASSUME LatchInv, NEW t \in Threads, addReader(t)
    PROVE  LatchInv'
<1> USE DEF LatchInv
<1>0. PICK l \in Latches : l = call[t].latch
    BY DEF addReader, At
<1>1. call[t].expected \in Nat /\ call[t].at = "add" /\ call'[t] = NoCall
    BY DEF addReader, At, LatchTypeOK, Calls
<1>2. \A u \in Threads \ {t} : call'[u] = call[u]
    BY DEF addReader, LatchTypeOK
<1>3. LatchTypeOK'
    <2>1. call' \in [Threads -> Calls] /\ waiting_writers' = waiting_writers
        BY DEF addReader, LatchTypeOK, Calls, NoCall
    <2>2. state' \in [Latches -> Int]
        BY <1>0, <1>1 DEF addReader, LatchTypeOK
    <2>3. held' \subseteq Threads \X Latches \X {"S", "X"}
        BY <1>0 DEF addReader, LatchTypeOK
    <2> QED BY <2>1, <2>2, <2>3 DEF LatchTypeOK
<1>4. StateCountsHolders'
    <2>1. CASE state[l] = call[t].expected
        <3>1. held' = held \cup {<<t, l, "S">>}
            BY <2>1, <1>0 DEF addReader
        <3>2. state'[l] = state[l] + 1 /\ \A k \in Latches \ {l} : state'[k] = state[k]
            BY <2>1, <1>0 DEF addReader, LatchTypeOK
        <3>3. /\ Holders(l, "S")' = Holders(l, "S") \cup {t}
              /\ \A k, m : k # l \/ m # "S" => Holders(k, m)' = Holders(k, m)
            BY <3>1, Taken
        <3>4. t \notin Holders(l, "S")
            BY <1>0, <1>1 DEF Holders, ReadersEnterOnce
        <3>5. state[l] = Cardinality(Holders(l, "S")) /\ Holders(l, "X") = {}
            BY <2>1, <1>1 DEF StateCountsHolders
        <3>6. Cardinality(Holders(l, "S") \cup {t}) = Cardinality(Holders(l, "S")) + 1
            BY <3>4, Finite, FS_AddElement
        <3>7. state'[l] = Cardinality(Holders(l, "S")') /\ Holders(l, "X")' = {}
            BY <3>2, <3>3, <3>5, <3>6
        <3> QED BY <3>2, <3>3, <3>7, CountsAt
    <2>2. CASE state[l] # call[t].expected
        BY <2>2, <1>0, CountsKept DEF addReader
    <2> QED BY <2>1, <2>2
<1>5. WritersAreCounted'
    BY <1>1, <1>2, NotAWriter DEF addReader, NoCall
<1>6. ReadersEnterOnce'
    <2>1. ASSUME NEW u \in Threads \ {t}, NEW k
          PROVE  <<u, k, "S">> \in held' => <<u, k, "S">> \in held
        BY DEF addReader
    <2> QED BY <2>1, <1>1, <1>2 DEF ReadersEnterOnce, NoCall
<1> QED BY <1>3, <1>4, <1>5, <1>6

LEMMA UnlockShared ==
    ASSUME LatchInv, NEW t \in Threads, NEW l \in Latches, unlockShared(t, l)
    PROVE  LatchInv'
<1> USE DEF LatchInv
<1>1. LatchTypeOK'
    BY DEF unlockShared, LatchTypeOK
<1>2. StateCountsHolders'
    <2>1. state'[l] = state[l] - 1 /\ \A k \in Latches \ {l} : state'[k] = state[k]
        BY DEF unlockShared, LatchTypeOK
    <2>2. /\ Holders(l, "S")' = Holders(l, "S") \ {t}
          /\ \A k, m : k # l \/ m # "S" => Holders(k, m)' = Holders(k, m)
        BY Given DEF unlockShared
    <2>3. t \in Holders(l, "S")
        BY DEF unlockShared, Holders
    <2>4. state[l] = Cardinality(Holders(l, "S")) /\ Holders(l, "X") = {}
        BY <2>3 DEF StateCountsHolders
    <2>5. Cardinality(Holders(l, "S") \ {t}) = Cardinality(Holders(l, "S")) - 1
        BY <2>3, Finite, FS_RemoveElement
    <2>6. state'[l] = Cardinality(Holders(l, "S")') /\ Holders(l, "X")' = {}
        BY <2>1, <2>2, <2>4, <2>5
    <2> QED BY <2>1, <2>2, <2>6, CountsAt
<1>3. WritersAreCounted'
    BY WritersKept DEF unlockShared, Announced
<1>4. ReadersEnterOnce'
    BY DEF unlockShared, ReadersEnterOnce
<1> QED BY <1>1, <1>2, <1>3, <1>4

(* A latch whose state is 0 has no holder: its next one is alone.          *)
LEMMA TakenExclusively ==
    ASSUME LatchInv, NEW t \in Threads, NEW l \in Latches, state[l] = 0,
           state' = [state EXCEPT ![l] = -1], held' = held \cup {<<t, l, "X">>}
    PROVE  StateCountsHolders'
<1> USE DEF LatchInv
<1>1. state'[l] = -1 /\ \A k \in Latches \ {l} : state'[k] = state[k]
    BY DEF LatchTypeOK
<1>2. /\ Holders(l, "X")' = Holders(l, "X") \cup {t}
      /\ \A k, m : k # l \/ m # "X" => Holders(k, m)' = Holders(k, m)
    BY Taken
<1>3. Cardinality(Holders(l, "S")) = 0 /\ Holders(l, "X") = {}
    BY DEF StateCountsHolders
<1>4. Holders(l, "S") = {}
    BY <1>3, Finite, FS_EmptySet
<1>5. Holders(l, "X")' = {t} /\ Holders(l, "S")' = {}
    BY <1>2, <1>3, <1>4
<1> QED BY <1>1, <1>2, <1>5, CountsAt

LEMMA TryLock ==
    ASSUME LatchInv, NEW t \in Threads, NEW l \in Latches, tryLock(t, l)
    PROVE  LatchInv'
<1> USE DEF LatchInv
<1>1. LatchTypeOK'
    BY DEF tryLock, LatchTypeOK
<1>2. StateCountsHolders'
    BY TakenExclusively DEF tryLock
<1>3. WritersAreCounted'
    BY WritersKept DEF tryLock, Announced
<1>4. ReadersEnterOnce'
    BY DEF tryLock, ReadersEnterOnce
<1> QED BY <1>1, <1>2, <1>3, <1>4

LEMMA Unlock ==
    ASSUME LatchInv, NEW t \in Threads, NEW l \in Latches, unlock(t, l)
    PROVE  LatchInv'
<1> USE DEF LatchInv
<1>1. LatchTypeOK'
    BY DEF unlock, LatchTypeOK
<1>2. StateCountsHolders'
    <2>1. state'[l] = 0 /\ \A k \in Latches \ {l} : state'[k] = state[k]
        BY DEF unlock, LatchTypeOK
    <2>2. /\ Holders(l, "X")' = Holders(l, "X") \ {t}
          /\ \A k, m : k # l \/ m # "X" => Holders(k, m)' = Holders(k, m)
        BY Given DEF unlock
    <2>3. t \in Holders(l, "X")
        BY DEF unlock, Holders
    <2>4. Holders(l, "S") = {} /\ Holders(l, "X") = {t}
        BY <2>3 DEF StateCountsHolders
    <2>5. Holders(l, "S")' = {} /\ Holders(l, "X")' = {}
        BY <2>2, <2>4
    <2>6. state'[l] = Cardinality(Holders(l, "S")')
        BY <2>1, <2>5, FS_EmptySet
    <2> QED BY <2>1, <2>2, <2>5, <2>6, CountsAt
<1>3. WritersAreCounted'
    BY WritersKept DEF unlock, Announced
<1>4. ReadersEnterOnce'
    BY DEF unlock, ReadersEnterOnce
<1> QED BY <1>1, <1>2, <1>3, <1>4

LEMMA Lock ==
    ASSUME LatchInv, NEW t \in Threads, NEW l \in Latches, lock(t, l)
    PROVE  LatchInv'
<1> USE DEF LatchInv
<1>1. LatchTypeOK'
    BY DEF lock, LatchTypeOK, Calls
<1>2. StateCountsHolders'
    BY CountsKept DEF lock
<1>3. /\ call[t].at = "none" /\ call'[t].at = "swap" /\ call'[t].latch = l
      /\ \A u \in Threads \ {t} : call'[u] = call[u]
    BY DEF lock, LatchTypeOK, NoCall
<1>4. WritersAreCounted'
    <2>1. Announced(l)' = Announced(l) \cup {t} /\ t \notin Announced(l)
        BY <1>3 DEF Announced
    <2>2. \A k \in Latches \ {l} : Announced(k)' = Announced(k)
        BY <1>3 DEF Announced
    <2>3. Cardinality(Announced(l)') = Cardinality(Announced(l)) + 1
        BY <2>1, Finite, FS_AddElement
    <2>4. waiting_writers'[l] = waiting_writers[l] + 1
        BY DEF lock, LatchTypeOK
    <2>5. \A k \in Latches \ {l} : waiting_writers'[k] = waiting_writers[k]
        BY DEF lock, LatchTypeOK
    <2> QED BY <2>2, <2>3, <2>4, <2>5 DEF WritersAreCounted
<1>5. ReadersEnterOnce'
    BY <1>3 DEF lock, ReadersEnterOnce
<1> QED BY <1>1, <1>2, <1>4, <1>5

LEMMA SwapState ==
    ASSUME LatchInv, NEW t \in Threads, swapState(t)
    PROVE  LatchInv'
<1> USE DEF LatchInv
<1>0. PICK l \in Latches : l = call[t].latch
    BY DEF swapState, At
<1>1. LatchTypeOK'
    BY <1>0 DEF swapState, LatchTypeOK, Calls
<1>2. StateCountsHolders'
    BY <1>0, TakenExclusively DEF swapState
<1>3. /\ call[t].at = "swap" /\ call'[t].at = "retract" /\ call'[t].latch = l
      /\ \A u \in Threads \ {t} : call'[u] = call[u]
    BY <1>0 DEF swapState, LatchTypeOK, At
<1>4. \A k \in Latches : Announced(k)' = Announced(k)
    BY <1>0, <1>3 DEF Announced
<1>5. WritersAreCounted'
    BY <1>4, WritersKept DEF swapState
<1>6. ReadersEnterOnce'
    <2>1. \A u, k : <<u, k, "S">> \in held' => <<u, k, "S">> \in held
        BY DEF swapState
    <2> QED BY <2>1, <1>3 DEF ReadersEnterOnce
<1> QED BY <1>1, <1>2, <1>5, <1>6

LEMMA Retract ==
    ASSUME LatchInv, NEW t \in Threads, retract(t)
    PROVE  LatchInv'
<1> USE DEF LatchInv
<1>0. PICK l \in Latches : l = call[t].latch
    BY DEF retract, At
<1>1. LatchTypeOK'
    BY <1>0 DEF retract, LatchTypeOK, Calls, NoCall
<1>2. StateCountsHolders'
    BY CountsKept DEF retract
<1>3. /\ call[t].at = "retract" /\ call'[t] = NoCall
      /\ \A u \in Threads \ {t} : call'[u] = call[u]
    BY DEF retract, LatchTypeOK, At
<1>4. WritersAreCounted'
    <2>1. Announced(l)' = Announced(l) \ {t} /\ t \in Announced(l)
        BY <1>0, <1>3 DEF Announced, NoCall
    <2>2. \A k \in Latches \ {l} : Announced(k)' = Announced(k)
        BY <1>0, <1>3 DEF Announced, NoCall
    <2>3. Cardinality(Announced(l)') = Cardinality(Announced(l)) - 1
        BY <2>1, Finite, FS_RemoveElement
    <2>4. waiting_writers'[l] = waiting_writers[l] - 1
        BY <1>0 DEF retract, LatchTypeOK
    <2>5. \A k \in Latches \ {l} : waiting_writers'[k] = waiting_writers[k]
        BY <1>0 DEF retract, LatchTypeOK
    <2> QED BY <2>2, <2>3, <2>4, <2>5 DEF WritersAreCounted
<1>5. ReadersEnterOnce'
    BY <1>3 DEF retract, ReadersEnterOnce, NoCall
<1> QED BY <1>1, <1>2, <1>4, <1>5

-----------------------------------------------------------------------------
(* The invariant holds of RWSpinLatch from its construction on.            *)
THEOREM LatchInductive == LatchSpec => []LatchInv
<1>1. LatchInit => LatchInv
    <2> SUFFICES ASSUME LatchInit PROVE LatchInv
        OBVIOUS
    <2>1. LatchTypeOK
        BY DEF LatchInit, LatchTypeOK, Calls, NoCall
    <2>2. \A l, mode : Holders(l, mode) = {}
        BY DEF LatchInit, Holders
    <2>3. StateCountsHolders
        BY <2>2, FS_EmptySet DEF LatchInit, StateCountsHolders
    <2>4. \A l : Announced(l) = {}
        BY DEF LatchInit, Announced, NoCall
    <2>5. WritersAreCounted
        BY <2>4, FS_EmptySet DEF LatchInit, WritersAreCounted
    <2>6. ReadersEnterOnce
        BY DEF LatchInit, ReadersEnterOnce
    <2> QED BY <2>1, <2>3, <2>5, <2>6 DEF LatchInv
<1>2. LatchInv /\ [LatchNext]_latchVars => LatchInv'
    <2> SUFFICES ASSUME LatchInv, [LatchNext]_latchVars PROVE LatchInv'
        OBVIOUS
    <2>1. CASE UNCHANGED latchVars
        BY <2>1 DEF latchVars, LatchInv, LatchTypeOK, StateCountsHolders, Holders,
                    WritersAreCounted, Announced, ReadersEnterOnce
    <2>2. CASE LatchNext
        <3>1. PICK t \in Threads :
                 \/ \E l \in Latches :
                       \/ lockShared(t, l) \/ unlockShared(t, l)
                       \/ lock(t, l) \/ tryLock(t, l) \/ unlock(t, l)
                 \/ loadState(t) \/ addReader(t) \/ swapState(t) \/ retract(t)
            BY <2>2 DEF LatchNext
        <3>2. ASSUME NEW l \in Latches,
                     \/ lockShared(t, l) \/ unlockShared(t, l)
                     \/ lock(t, l) \/ tryLock(t, l) \/ unlock(t, l)
              PROVE  LatchInv'
            BY <3>2, ReaderSteps, UnlockShared, Lock, TryLock, Unlock
        <3>3. CASE loadState(t)
            <4>1. call[t].latch \in Latches
                BY <3>3 DEF loadState, At
            <4> QED BY <3>3, <4>1, ReaderSteps
        <3> QED BY <3>1, <3>2, <3>3, AddReader, SwapState, Retract
    <2> QED BY <2>1, <2>2
<1> QED BY <1>1, <1>2, PTL DEF LatchSpec

(* Mutual exclusion: `state' says who holds each latch, so one writer is   *)
(* alone and readers are only with readers.                                *)
THEOREM LatchExcludes == LatchSpec => []StateCountsHolders
<1>1. LatchInv => StateCountsHolders
    BY DEF LatchInv
<1> QED BY <1>1, LatchInductive, PTL

(* waiting_writers is the number of writers inside lock(), and so is zero  *)
(* again when they have gone: readers are not shut out for good.           *)
THEOREM LatchCountsWriters == LatchSpec => []WritersAreCounted
<1>1. LatchInv => WritersAreCounted
    BY DEF LatchInv
<1> QED BY <1>1, LatchInductive, PTL

=============================================================================
