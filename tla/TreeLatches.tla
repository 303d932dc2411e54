----------------------------- MODULE TreeLatches -----------------------------
(***************************************************************************)
(* Who holds and awaits which latch while operations of one BPlusTree run  *)
(* in several threads.                                                     *)
(*                                                                         *)
(* BPlusTree models what the operations do to the tree; here an operation  *)
(* is the sequence of latches it takes and gives back, in the order of the *)
(* code, on the trees of Plans.  The branches of the code that differ      *)
(* in their latches are different programs.  io_mutex is an exclusive      *)
(* latch with no queue.                                                    *)
(***************************************************************************)
EXTENDS Latch, Sequences, SequencesExt

(* What the threads may be set to do: [runs, forever] for each.            *)
CONSTANT Plans

VARIABLES
    program,     \* the steps each thread has still to take
    again        \* the operation it repeats for ever, or <<>>

vars == <<state, waiting_writers, call, held, program, again>>

-----------------------------------------------------------------------------
(* Steps.  A latch is taken shared ("S") or exclusively ("X"), or tried    *)
(* with another way to go on when it is not free; a mutex is locked.       *)

Step(do, l, orelse) == [do |-> do, on |-> l, orelse |-> orelse]
Take(mode, l) == Step(mode, l, <<>>)
Try(l, orelse) == Step("try", l, orelse)
Lock(l) == Step("mutex", l, <<>>)
Release(l) == Step("release", l, <<>>)

(* A latch held for a moment, as by setParent, snapshotRoot and the blocks *)
(* around a single read.                                                   *)
Brief(mode, l) == <<Take(mode, l), Release(l)>>
BriefEach(mode, ls) == FlattenSeq([i \in DOMAIN ls |-> Brief(mode, ls[i])])
ReleaseEach(ls) == [i \in DOMAIN ls |-> Release(ls[i])]

setParent(child) == Brief("X", child)
snapshotRoot == Brief("S", "root_guard")
swapRoot == Brief("X", "root_guard")

(* Hand over hand along a path, moves to the right included; the last node *)
(* stays latched.                                                          *)
Crab(mode, path) ==
    <<Take(mode, path[1])>>
    \o FlattenSeq([i \in 1 .. Len(path) - 1 |-> <<Take(mode, path[i + 1]), Release(path[i])>>])

saveDirty(dirty) ==
    <<Lock("io_mutex")>>
    \o BriefEach("X", dirty)
    \o BriefEach("S", dirty)
    \o snapshotRoot
    \o <<Release("io_mutex")>>

(* search(), rangeScan() and getAllKeyRIDPairs().                          *)
traverse(path) ==
    <<Take("S", "structure")>> \o snapshotRoot
    \o Crab("S", path) \o <<Release(Last(path)), Release("structure")>>

printTree(nodes) ==
    <<Take("S", "structure")>> \o snapshotRoot
    \o BriefEach("S", nodes) \o <<Release("structure")>>

(* update() keeps the structure latch while it saves.                      *)
update(path, found) ==
    <<Take("S", "structure")>> \o snapshotRoot
    \o Crab("X", path) \o <<Release(Last(path))>>
    \o (IF found THEN saveDirty(<<Last(path)>>) ELSE <<>>) \o <<Release("structure")>>

-----------------------------------------------------------------------------
(* insert() and propagateSplit().                                          *)

(* Mutant: insert keeps its shared structure latch into the second phase. *)
insertUpgrading(path, fixup, dirty) ==
    <<Take("S", "structure")>> \o Brief("X", "root_guard")
    \o Crab("X", path) \o <<Release(Last(path))>>
    \o fixup \o saveDirty(dirty) \o <<Release("structure")>>

insert(path, fixup, dirty) ==
    <<Take("S", "structure")>> \o Brief("X", "root_guard")
    \o Crab("X", path) \o <<Release(Last(path)), Release("structure")>>
    \o fixup \o saveDirty(dirty)

(* propagateSplit() is a sequence of rounds under the structure latch.  In *)
(* each the left child is read, its parent is found, and the parent takes  *)
(* the separator; a parent that splits in turn gives its moved children    *)
(* their new parent, and is the left child of the next round.              *)
propagateSplit(rounds) ==
    <<Take("X", "structure")>> \o FlattenSeq(rounds) \o <<Release("structure")>>

linkBelow(parent, left, right, moved) ==
    <<Take("X", parent)>>
    \o setParent(left) \o setParent(right)
    \o FlattenSeq([i \in DOMAIN moved |-> setParent(moved[i])])
    \o <<Release(parent)>>

(* The parent is a hint that is alive.                                     *)
byHint(hint, left, right, moved) ==
    Brief("S", left) \o Brief("S", hint) \o linkBelow(hint, left, right, moved)

(* No hint is left: the parent is the one the child names, if it is alive. *)
getParent(child, parent) == Brief("S", child) \o Brief("S", parent)

byPointer(parent, left, right, moved) ==
    Brief("S", left) \o getParent(left, parent) \o linkBelow(parent, left, right, moved)

(* The hint does not have the child: the recorded parent is taken instead. *)
redirected(hint, parent, left, right) ==
    Brief("S", left) \o Brief("S", hint)
    \o <<Take("X", hint)>> \o Brief("S", left) \o Brief("S", parent) \o <<Release(hint)>>
    \o linkBelow(parent, left, right, <<>>)

(* No parent, and the child is the root: a new root.                       *)
newRoot(left, right) ==
    Brief("S", left) \o Brief("S", left) \o swapRoot
    \o setParent(left) \o setParent(right)

(* No parent, and the root is a leaf further left: a root over the chain   *)
(* of leaves from there to the child, built under root_guard.  Nobody else *)
(* knows the new root yet.                                                 *)
bootstrapRoot(chain, right) ==
    LET left == Last(chain)
    IN Brief("S", left) \o Brief("S", left)
       \o <<Take("X", "root_guard")>>
       \o Brief("S", chain[1]) \o BriefEach("S", Front(chain))
       \o <<Release("root_guard")>>
       \o FlattenSeq([i \in DOMAIN chain |-> setParent(chain[i])])
       \o setParent(left) \o setParent(right)

(* No parent, and the root is internal: down its rightmost spine to the    *)
(* child's level.                                                          *)
findAncestorForRelink(left, spine) ==
    snapshotRoot \o Brief("S", left)
    \o FlattenSeq([i \in 1 .. Len(spine) - 1 |-> Brief("S", spine[i]) \o Brief("S", spine[i + 1])])

relinked(left, right, spine) ==
    Brief("S", left) \o Brief("S", left)
    \o <<Take("X", "root_guard")>> \o Brief("S", spine[1]) \o <<Release("root_guard")>>
    \o findAncestorForRelink(left, spine)
    \o linkBelow(spine[Len(spine) - 1], left, right, <<>>)

-----------------------------------------------------------------------------
(* remove(): the path stays latched while the tree is rebalanced; what is  *)
(* left of it is released, then the structure latch.  A missing key leaves *)
(* nothing to save.                                                        *)
remove(path, rebalance) ==
    <<Take("X", "structure")>> \o snapshotRoot
    \o [i \in DOMAIN path |-> Take("X", path[i])] \o rebalance

missing(path) == ReleaseEach(path) \o <<Release("structure")>>

finish(path, dirty) == ReleaseEach(path) \o <<Release("structure")>> \o saveDirty(dirty)

(* The first key of the leaf went: a separator changes, and with it the    *)
(* high key of the child to its left.  An emptied leaf looks at the next   *)
(* one first and keeps that latched.                                       *)
propagateSeparatorUpdate(left) == Brief("X", left)

separatorFromNext(next, left) ==
    <<Take("S", next)>> \o propagateSeparatorUpdate(left) \o <<Release(next)>>

(* handleLeafUnderflow() and handleInternalUnderflow() borrow from or      *)
(* merge with a sibling.  The left one is only tried, the right one is     *)
(* waited for.                                                             *)
borrowLeft(left, then, orelse) == <<Try(left, orelse), Release(left)>> \o then
mergeLeft(node, left, then, orelse) == <<Try(left, orelse), Release(node), Release(left)>> \o then
borrowRight(right, then) == Brief("X", right) \o then
mergeRight(node, right, then) == Brief("X", right) \o <<Release(node)>> \o then

-----------------------------------------------------------------------------
Init ==
    /\ LatchInit
    /\ \E plan \in Plans :
          /\ program = [t \in Threads |-> plan[t].runs]
          /\ again = [t \in Threads |-> IF plan[t].forever THEN plan[t].runs ELSE <<>>]

(* The step a thread takes next.                                           *)
todo(t) == Head(program[t])
Advance(t) == program' = [program EXCEPT ![t] = Tail(@)]

(* LatchHandle and SharedLatchGuard, shared.                               *)
TakeShared(t) ==
    /\ todo(t).do = "S"
    /\ \/ (lockShared(t, todo(t).on) \/ loadState(t)) /\ UNCHANGED program
       \/ /\ addReader(t)
          /\ IF <<t, todo(t).on, "S">> \in held' THEN Advance(t) ELSE UNCHANGED program

TakeExclusive(t) ==
    /\ todo(t).do = "X"
    /\ \/ (lock(t, todo(t).on) \/ swapState(t)) /\ UNCHANGED program
       \/ retract(t) /\ Advance(t)

(* tryAcquireSiblingExclusive() gives up after so many failures in a row.  *)
TrySibling(t) ==
    /\ todo(t).do = "try"
    /\ \/ tryLock(t, todo(t).on) /\ Advance(t)
       \/ /\ state[todo(t).on] # 0
          /\ program' = [program EXCEPT ![t] = todo(t).orelse]
          /\ UNCHANGED latchVars

LockMutex(t) == todo(t).do = "mutex" /\ tryLock(t, todo(t).on) /\ Advance(t)

ReleaseLatch(t) ==
    /\ todo(t).do = "release"
    /\ unlockShared(t, todo(t).on) \/ unlock(t, todo(t).on)
    /\ Advance(t)

(* A thread that repeats its operation starts over when it has returned.   *)
Again(t) ==
    /\ program[t] = <<>> /\ again[t] # <<>>
    /\ program' = [program EXCEPT ![t] = again[t]]
    /\ UNCHANGED latchVars

Run(t) ==
    /\ \/ program[t] # <<>> /\ (\/ TakeShared(t) \/ TakeExclusive(t) \/ TrySibling(t)
                                \/ LockMutex(t) \/ ReleaseLatch(t))
       \/ Again(t)
    /\ UNCHANGED again

Next == \E t \in Threads : Run(t)

(* A thread that can go on is scheduled at some point.                     *)
Spec == Init /\ [][Next]_vars /\ \A t \in Threads : WF_vars(Run(t))

-----------------------------------------------------------------------------
(* Properties.                                                             *)

(* The threads that keep t from what it wants next: for an exclusive latch *)
(* everyone holding it, for a shared one its exclusive holder and, at the  *)
(* head of the loop, the writers announced.  A thread that wants shared    *)
(* what it has shared waits for itself as soon as a writer comes between.  *)
Blockers(t) ==
    LET s == todo(t)
    IN IF program[t] = <<>> THEN {}
       ELSE CASE s.do = "S" -> Holders(s.on, "X")
                               \cup (IF call[t] = NoCall THEN Announced(s.on) ELSE {})
                               \cup (Holders(s.on, "S") \cap {t})
              [] s.do = "X" /\ call[t].at # "retract" -> Holders(s.on, "X") \cup Holders(s.on, "S")
              [] s.do = "mutex" -> Holders(s.on, "X")
              [] OTHER -> {}

(* No threads ever wait for each other in a circle, whatever operations    *)
(* run side by side: the latch order of the class comment of bplustree.hpp *)
(* and of the comments in insert(), remove() and saveDirty().              *)
NoWaitCycle ==
    ~ \E D \in SUBSET Threads \ {{}} : \A t \in D : Blockers(t) \cap D # {}

(* A writer that waits for a latch gets it, although readers keep coming:  *)
(* the writer priority of RWSpinLatch.                                     *)
WritersAreNotStarved ==
    \A t \in Threads : call[t].at = "swap" ~> call[t].at # "swap"

=============================================================================
