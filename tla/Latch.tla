-------------------------------- MODULE Latch --------------------------------
(***************************************************************************)
(* RWSpinLatch (src/include/db_engine/latch.hpp): reader-writer spin       *)
(* latches that keep readers out while a writer waits, for any number of   *)
(* threads and latches.                                                    *)
(*                                                                         *)
(* An action is one atomic access to `state' or `waiting_writers'.  A      *)
(* check or compare-and-swap that fails changes nothing another thread can *)
(* see and leads back to the head of the loop: where lock() spins its next *)
(* access simply waits, and lockShared() starts again from its check.  A   *)
(* spurious failure of compare_exchange_weak is one more such retry.       *)
(***************************************************************************)
EXTENDS Integers, FiniteSets

CONSTANTS
    Threads,
    Latches,
    NoLatch           \* stands for no latch

ASSUME LatchAssumption == IsFiniteSet(Threads) /\ NoLatch \notin Latches

VARIABLES
    state,            \* [Latches -> -1, 0 or the number of readers]
    waiting_writers,  \* [Latches -> the writers announced]
    call,             \* where each thread is inside a call: [at, latch, expected]
    held              \* the latches held: <<thread, latch, "S" or "X">>

latchVars == <<state, waiting_writers, call, held>>

(* A thread is outside any call or at the head of lockShared()'s loop, or  *)
(* it comes to a later access of a call on a latch.                        *)
NoCall == [at |-> "none", latch |-> NoLatch, expected |-> 0]

Calls == [at : {"none", "load", "add", "swap", "retract"}, latch : Latches \cup {NoLatch},
          expected : Nat]

At(t, pos) == call[t].at = pos /\ call[t].latch \in Latches

Holders(l, mode) == {t \in Threads : <<t, l, mode>> \in held}

LatchInit ==
    /\ state = [l \in Latches |-> 0]
    /\ waiting_writers = [l \in Latches |-> 0]
    /\ call = [t \in Threads |-> NoCall]
    /\ held = {}

-----------------------------------------------------------------------------
(* lockShared(): no writer waits; read the state; add one to it, if it is  *)
(* still what was read.  A thread takes a latch shared only once.          *)

(* Mutant: waiting writers are ignored. *)
lockSharedUnchecked(t, l) ==
    /\ call[t] = NoCall
    /\ <<t, l, "S">> \notin held
    /\ call' = [call EXCEPT ![t] = [at |-> "load", latch |-> l, expected |-> 0]]
    /\ UNCHANGED <<state, waiting_writers, held>>

lockShared(t, l) ==
    /\ call[t] = NoCall
    /\ <<t, l, "S">> \notin held
    /\ ~(waiting_writers[l] > 0)
    /\ call' = [call EXCEPT ![t] = [at |-> "load", latch |-> l, expected |-> 0]]
    /\ UNCHANGED <<state, waiting_writers, held>>

loadState(t) ==
    LET l == call[t].latch
    IN /\ At(t, "load")
       /\ call' = [call EXCEPT ![t] =
             IF state[l] >= 0 THEN [at |-> "add", latch |-> l, expected |-> state[l]]
             ELSE NoCall]
       /\ UNCHANGED <<state, waiting_writers, held>>

(* Mutant: the sum is stored whatever happened since it was read. *)
addBlindly(t) ==
    LET l == call[t].latch
    IN /\ At(t, "add")
       /\ state' = [state EXCEPT ![l] = call[t].expected + 1]
       /\ held' = held \cup {<<t, l, "S">>}
       /\ call' = [call EXCEPT ![t] = NoCall]
       /\ UNCHANGED waiting_writers

addReader(t) ==
    LET l == call[t].latch
    IN /\ At(t, "add")
       /\ IF state[l] = call[t].expected
          THEN /\ state' = [state EXCEPT ![l] = call[t].expected + 1]
               /\ held' = held \cup {<<t, l, "S">>}
          ELSE UNCHANGED <<state, held>>
       /\ call' = [call EXCEPT ![t] = NoCall]
       /\ UNCHANGED waiting_writers

unlockShared(t, l) ==
    /\ call[t] = NoCall
    /\ <<t, l, "S">> \in held
    /\ state' = [state EXCEPT ![l] = @ - 1]
    /\ held' = held \ {<<t, l, "S">>}
    /\ UNCHANGED <<waiting_writers, call>>

-----------------------------------------------------------------------------
(* lock(): announce the writer, swap 0 for -1, withdraw.                   *)

lock(t, l) ==
    /\ call[t] = NoCall
    /\ waiting_writers' = [waiting_writers EXCEPT ![l] = @ + 1]
    /\ call' = [call EXCEPT ![t] = [at |-> "swap", latch |-> l, expected |-> 0]]
    /\ UNCHANGED <<state, held>>

swapState(t) ==
    LET l == call[t].latch
    IN /\ At(t, "swap")
       /\ state[l] = 0
       /\ state' = [state EXCEPT ![l] = -1]
       /\ held' = held \cup {<<t, l, "X">>}
       /\ call' = [call EXCEPT ![t] = [at |-> "retract", latch |-> l, expected |-> 0]]
       /\ UNCHANGED waiting_writers

retract(t) ==
    LET l == call[t].latch
    IN /\ At(t, "retract")
       /\ waiting_writers' = [waiting_writers EXCEPT ![l] = @ - 1]
       /\ call' = [call EXCEPT ![t] = NoCall]
       /\ UNCHANGED <<state, held>>

(* tryLock() where it succeeds; where it fails it changes nothing.         *)
tryLock(t, l) ==
    /\ call[t] = NoCall
    /\ state[l] = 0
    /\ state' = [state EXCEPT ![l] = -1]
    /\ held' = held \cup {<<t, l, "X">>}
    /\ UNCHANGED <<waiting_writers, call>>

unlock(t, l) ==
    /\ call[t] = NoCall
    /\ <<t, l, "X">> \in held
    /\ state' = [state EXCEPT ![l] = 0]
    /\ held' = held \ {<<t, l, "X">>}
    /\ UNCHANGED <<waiting_writers, call>>

(* Any thread calls any latch, and unlocks what it holds.                  *)
LatchNext ==
    \E t \in Threads :
        \/ \E l \in Latches :
              \/ lockShared(t, l) \/ unlockShared(t, l)
              \/ lock(t, l) \/ tryLock(t, l) \/ unlock(t, l)
        \/ loadState(t) \/ addReader(t) \/ swapState(t) \/ retract(t)

LatchSpec == LatchInit /\ [][LatchNext]_latchVars

-----------------------------------------------------------------------------
(* Properties.                                                             *)

(* Type invariant.                                                         *)
LatchTypeOK ==
    /\ state \in [Latches -> Int]
    /\ waiting_writers \in [Latches -> Int]
    /\ call \in [Threads -> Calls]
    /\ held \subseteq Threads \X Latches \X {"S", "X"}

(* The comment on `state': -1 says that one thread holds the latch         *)
(* exclusively and nobody shared, any other value how many hold it shared, *)
(* none of them exclusively, however loads and swaps of others interleave. *)
StateCountsHolders ==
    \A l \in Latches :
        \/ /\ state[l] = -1
           /\ Holders(l, "S") = {}
           /\ \E t \in Threads : Holders(l, "X") = {t}
        \/ /\ state[l] = Cardinality(Holders(l, "S"))
           /\ Holders(l, "X") = {}

(* The threads inside lock() of l, from announcing to withdrawing.         *)
Announced(l) == {t \in Threads : call[t].latch = l /\ call[t].at \in {"swap", "retract"}}

(* waiting_writers counts them, so that it returns to zero and lets the    *)
(* readers back in.                                                        *)
WritersAreCounted == \A l \in Latches : waiting_writers[l] = Cardinality(Announced(l))

=============================================================================
