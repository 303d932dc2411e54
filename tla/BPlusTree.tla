------------------------------ MODULE BPlusTree ------------------------------
(***************************************************************************)
(* The B-link tree behind every primary-key index, in memory and in its    *)
(* file (src/src/bplustree.cpp, src/src/node.cpp).                         *)
(*                                                                         *)
(* insert() runs in two phases.  Phase A descends under the SHARED         *)
(* structure_latch, puts the key into its leaf and, when the leaf          *)
(* overflows, splits it and links the new leaf to the right; then it lets  *)
(* go of every latch.  Phase B, propagateSplit(), takes structure_latch    *)
(* EXCLUSIVELY and tells the ancestors about the new leaf.  Between the    *)
(* two, any other insert, fix-up or remove may run.  remove() holds        *)
(* structure_latch exclusively throughout.  Every operation ends with      *)
(* saveDirty(), which writes the nodes it has touched under io_mutex, one  *)
(* at a time and as they are by then; only update() still holds the        *)
(* structure_latch, shared.                                                *)
(*                                                                         *)
(* Only leaves change under the shared latch, each under its own exclusive *)
(* node latch, so a phase A is one atomic step; the exclusive sections are *)
(* atomic steps as they stand.                                             *)
(*                                                                         *)
(* The tree is a value, [node, root, ok, dirty]: the nodes ever allocated, *)
(* the root (0 for the null pointer), ok, which turns FALSE where the code *)
(* throws "tree structure corrupted" or follows a null pointer, and the    *)
(* nodes the running operation has marked dirty.  A node is named by its   *)
(* position in tree.node, in memory and in the file; 0 stands for a null   *)
(* pointer, for node_id -1 and for an absent high_key.                     *)
(***************************************************************************)
EXTENDS Naturals, Sequences, FiniteSets, SequencesExt

CONSTANTS
    Keys,           \* the keys clients insert and remove: positive numbers
    Workloads,      \* what may happen: the keys put in before the clients
                    \* start (preload), the ones clients insert (keys), bounds
                    \* on their calls (inserts, removes, updates, restarts),
                    \* whether a remove may come while a fix-up is outstanding
                    \* (racing), whether saves are followed (saved) and an
                    \* operation may start before they are made (overlap)
    MaxOps          \* bound on the operations under way at a time

VARIABLES
    tree,           \* the tree itself
    fixups,         \* outstanding phase Bs: [hints, left, right, sep]
    saves,          \* saveDirty() calls that wait for io_mutex: [dirty, shared]
    io,             \* the one that holds it, with what it has left to write
    numbered,       \* the nodes that have a node_id
    file,           \* the index file: [node, root]
    stored,         \* the RID of every key inserted and not removed
    todo            \* the workload that is left

vars == <<tree, fixups, saves, io, numbered, file, stored, todo>>

ORDER == 4

MIN_KEYS == (ORDER - 1) \div 2

MIN_CHILDREN == (ORDER + 1) \div 2

-----------------------------------------------------------------------------
(* Nodes (node.hpp, node.cpp).  right is next_leaf in a leaf and           *)
(* right_link in an internal node.                                         *)

NewNode(leaf) ==
    [leaf |-> leaf, keys |-> <<>>, rids |-> <<>>, kids |-> <<>>, right |-> 0,
     high |-> 0, parent |-> 0, merged |-> FALSE]

isFull(n) == Len(n.keys) > ORDER - 1

markDirty(t, n) == [t EXCEPT !.dirty = IF Contains(@, n) THEN @ ELSE Append(@, n)]

isUnderflow(n) == Len(n.keys) < MIN_KEYS

(* The first position whose key is not below k.                            *)
LowerBound(ks, k) ==
    CHOOSE i \in 1..Len(ks) + 1 :
        /\ \A j \in 1..i - 1 : ks[j] < k
        /\ i <= Len(ks) => ks[i] >= k

(* The child to descend into for k: the first one whose separator is above *)
(* k.                                                                      *)
ChildFor(n, k) ==
    n.kids[CHOOSE i \in 1..Len(n.keys) + 1 :
              /\ \A j \in 1..i - 1 : k >= n.keys[j]
              /\ i <= Len(n.keys) => k < n.keys[i]]

(* A split leaves the lower half in n and moves the upper half to the new  *)
(* node at position id.  A leaf keeps its separator in the right half; an  *)
(* internal node pushes it up.                                             *)
LeafSeparator(n) == n.keys[Len(n.keys) \div 2 + 1]

splitLeafNode(t, n, id) ==
    LET old == t.node[n]
        mid == Len(old.keys) \div 2
    IN markDirty([t EXCEPT !.node =
          Append([@ EXCEPT ![n] = [old EXCEPT !.keys = SubSeq(@, 1, mid),
                                              !.rids = SubSeq(@, 1, mid),
                                              !.high = LeafSeparator(old),
                                              !.right = id]],
                 [old EXCEPT !.keys = SubSeq(@, mid + 1, Len(@)),
                             !.rids = SubSeq(@, mid + 1, Len(@))])], id)

(* Hand the children in the set ks to the parent p.                        *)
setParent(t, ks, p) ==
    FoldSet(LAMBDA c, u : [u EXCEPT !.node[c].parent = p], t, ks)

splitInternalNode(t, n, id) ==
    LET old == t.node[n]
        mid == Len(old.keys) \div 2
        up  == [old EXCEPT !.keys = SubSeq(@, mid + 2, Len(@)),
                           !.kids = SubSeq(@, mid + 2, Len(@)),
                           !.parent = 0]
    IN markDirty(setParent([t EXCEPT !.node =
          Append([@ EXCEPT ![n] = [old EXCEPT !.keys = SubSeq(@, 1, mid),
                                              !.kids = SubSeq(@, 1, mid + 1),
                                              !.high = old.keys[mid + 1],
                                              !.right = id]], up)],
          ToSet(up.kids), id), id)

-----------------------------------------------------------------------------
(* Traversal.                                                              *)

(* Mutant: a key equal to the high key stays. *)
RECURSIVE moveRightPast(_, _, _)
moveRightPast(t, n, k) ==
    LET nd == t.node[n]
    IN IF nd.high # 0 /\ k > nd.high /\ nd.right # 0
       THEN moveRightPast(t, nd.right, k)
       ELSE n

(* Follow right links while k lies at or beyond the node's high key.       *)
RECURSIVE moveRight(_, _, _)
moveRight(t, n, k) ==
    LET nd == t.node[n]
    IN IF nd.high # 0 /\ k >= nd.high /\ nd.right # 0
       THEN moveRight(t, nd.right, k)
       ELSE n

(* The nodes a descent for k visits from n, one per level, leaf last.      *)
RECURSIVE Descent(_, _, _)
Descent(t, n, k) ==
    LET m == moveRight(t, n, k)
    IN IF t.node[m].leaf
       THEN <<m>>
       ELSE <<m>> \o Descent(t, ChildFor(t.node[m], k), k)

(* search(): the RID of k in the leaf the descent ends in, 0 if k is not   *)
(* there.                                                                  *)
search(t, k) ==
    IF t.root = 0 THEN 0
    ELSE LET leaf == t.node[Last(Descent(t, t.root, k))]
             i    == SelectInSeq(leaf.keys, LAMBDA x : x = k)
         IN IF i = 0 THEN 0 ELSE leaf.rids[i]

(* The <<key, RID>> pairs along the leaf chain from leaf n.                *)
RECURSIVE ChainPairs(_, _)
ChainPairs(t, n) ==
    IF n = 0 THEN <<>>
    ELSE LET nd == t.node[n]
         IN [i \in DOMAIN nd.keys |-> <<nd.keys[i], nd.rids[i]>>] \o ChainPairs(t, nd.right)

RECURSIVE LeftmostLeaf(_, _)
LeftmostLeaf(t, n) ==
    IF t.node[n].leaf THEN n ELSE LeftmostLeaf(t, Head(t.node[n].kids))

(* getAllKeyRIDPairs(): the whole leaf chain, from the leftmost leaf.      *)
getAllKeyRIDPairs(t) ==
    IF t.root = 0 THEN <<>> ELSE ChainPairs(t, LeftmostLeaf(t, t.root))

(* rangeScan(): from the leaf of low, the chain up to the first key above  *)
(* high.                                                                   *)
rangeScan(t, low, high) ==
    IF t.root = 0 THEN <<>>
    ELSE LET all  == ChainPairs(t, Last(Descent(t, t.root, low)))
             stop == SelectInSeq(all, LAMBDA e : e[1] > high)
             upto == IF stop = 0 THEN all ELSE SubSeq(all, 1, stop - 1)
         IN SelectSeq(upto, LAMBDA e : e[1] >= low)

-----------------------------------------------------------------------------
(* Phase B: propagateSplit().                                              *)

(* The nodes some shared_ptr keeps in memory: those reachable from the     *)
(* root and from the local variables of unfinished operations.             *)
RECURSIVE Held(_, _)
Held(t, S) ==
    LET more == S \cup (UNION {ToSet(t.node[n].kids) \cup {t.node[n].right} : n \in S} \ {0})
    IN IF more = S THEN S ELSE Held(t, more)

Pins(t, fs, ss) ==
    ({t.root} \cup UNION {ToSet(f.hints) \cup {f.left, f.right} : f \in fs}
              \cup UNION {ToSet(s.dirty) : s \in ss}) \ {0}

(* parent is a weak_ptr: null once the parent has been freed.              *)
lockParent(t, n, held) ==
    IF t.node[n].parent \in held THEN t.node[n].parent ELSE 0

(* getParent(): null also when the recorded parent was merged away.        *)
getParent(t, n, held) ==
    LET p == lockParent(t, n, held)
    IN IF p # 0 /\ t.node[p].merged THEN 0 ELSE p

(* findAncestorForRelink(): down the rightmost spine, the first node whose *)
(* last child is a leaf exactly when `left' is; 0 if there is none.        *)
RECURSIVE RelinkFrom(_, _, _)
RelinkFrom(t, n, left) ==
    CASE t.node[n].leaf \/ t.node[n].kids = <<>> -> 0
      [] OTHER ->
          LET last == Last(t.node[n].kids)
          IN IF t.node[last].leaf = t.node[left].leaf
             THEN n ELSE RelinkFrom(t, last, left)

findAncestorForRelink(t, left) ==
    IF t.root \in {0, left} THEN 0 ELSE RelinkFrom(t, t.root, left)

(* The leaves from n along the chain up to `left', or to where the chain   *)
(* ends.                                                                   *)
RECURSIVE ChainTo(_, _, _)
ChainTo(t, n, left) ==
    IF n = left \/ t.node[n].high = 0 \/ t.node[n].right = 0
    THEN <<n>>
    ELSE <<n>> \o ChainTo(t, t.node[n].right, left)

(* A new internal root over the nodes of cs, separated by ks.              *)
promote(t, ks, cs) ==
    LET id  == Len(t.node) + 1
        new == [NewNode(FALSE) EXCEPT !.keys = ks, !.kids = cs]
    IN markDirty(setParent([t EXCEPT !.node = Append(@, new), !.root = id],
                           ToSet(cs), id), id)

corrupted(t) == [t EXCEPT !.ok = FALSE]

(* Mutant: a root that is still a leaf gets no special treatment. *)
WithoutBootstrap(t, f) ==
    IF t.root = f.left
    THEN [t |-> promote(t, <<f.sep>>, <<f.left, f.right>>), parent |-> 0]
    ELSE LET p == findAncestorForRelink(t, f.left)
         IN [t |-> IF p = 0 THEN corrupted(t) ELSE t, parent |-> p]

(* What propagateSplit() does when neither a hint nor the recorded parent  *)
(* leads to an ancestor of left: [t, parent], with parent = 0 when the     *)
(* cascade ends here.                                                      *)
WithoutParent(t, f) ==
    IF t.root = f.left
    THEN [t |-> promote(t, <<f.sep>>, <<f.left, f.right>>), parent |-> 0]
    ELSE IF t.root = 0
    THEN [t |-> corrupted(t), parent |-> 0]
    ELSE IF t.node[t.root].leaf
    THEN LET chain == ChainTo(t, t.root, f.left)
             highs == [i \in 1..Len(chain) - 1 |-> t.node[chain[i]].high]
         IN IF Last(chain) = f.left
            THEN [t |-> promote(t, highs, chain), parent |-> Len(t.node) + 1]
            ELSE [t |-> corrupted(t), parent |-> 0]
    ELSE LET p == findAncestorForRelink(t, f.left)
         IN [t |-> IF p = 0 THEN corrupted(t) ELSE t, parent |-> p]

(* Put the child c under p, with separator k to its left.                  *)
adopt(t, p, k, c) ==
    LET i == LowerBound(t.node[p].keys, k)
    IN [t EXCEPT !.node[p].keys = InsertAt(@, i, k),
                 !.node[p].kids = InsertAt(@, i + 1, c)]

(* The node to the right of p that takes first nav and then sep.           *)
parentFor(t, p, nav, sep) == moveRight(t, moveRight(t, p, nav), sep)

(* Mutant: a left that had to be linked first leaves right unlinked. *)
linkLeftOrRight(t, f, nav, p, held) ==
    LET p1 == parentFor(t, p, nav, f.sep)
        t1 == IF ~Contains(t.node[p1].kids, f.left) THEN adopt(t, p1, nav, f.left)
              ELSE IF Contains(t.node[p1].kids, f.right) THEN t
              ELSE adopt(t, p1, f.sep, f.right)
    IN [t |-> markDirty(setParent(t1, {f.left, f.right}, p1), p1), parent |-> p1]

(* Link left and right below p or, when left is already linked below       *)
(* another live node, below that one: [t, parent].                         *)
linkChildren(t, f, nav, p, held) ==
    LET p1      == parentFor(t, p, nav, f.sep)
        known   == lockParent(t, f.left, held)
        linked  == Contains(t.node[p1].kids, f.left)
        astray  == ~linked /\ known \notin {0, p1} /\ ~t.node[known].merged
        p2      == IF astray THEN parentFor(t, known, nav, f.sep) ELSE p1
        t1      == IF linked \/ astray THEN t ELSE adopt(t, p2, nav, f.left)
        t2      == IF Contains(t1.node[p2].kids, f.right) THEN t1
                   ELSE adopt(t1, p2, f.sep, f.right)
    IN [t |-> markDirty(setParent(t2, {f.left, f.right}, p2), p2), parent |-> p2]

(* One round of propagateSplit()'s loop per level.  nav is the first key   *)
(* of left; pins are the nodes other unfinished operations hold.           *)
RECURSIVE propagateSplit(_, _, _, _)
propagateSplit(t, f, nav, pins) ==
    LET alive == SelectLastInSeq(f.hints, LAMBDA h : ~t.node[h].merged)
        held  == Held(t, pins \cup Pins(t, {f}, {}))
        known == IF alive # 0 THEN f.hints[alive] ELSE getParent(t, f.left, held)
        found == IF known # 0 THEN [t |-> t, parent |-> known] ELSE WithoutParent(t, f)
    IN IF found.parent = 0 THEN found.t
       ELSE LET done == linkChildren(found.t, f, nav, found.parent,
                                     held \cup {found.parent})
                p    == done.parent
                id   == Len(done.t.node) + 1
                next == splitInternalNode(done.t, p, id)
            IN IF ~isFull(done.t.node[p]) THEN done.t
               ELSE propagateSplit(next,
                        [hints |-> SubSeq(f.hints, 1, alive - 1), left |-> p,
                         right |-> id, sep |-> next.node[p].high],
                        Head(next.node[p].keys), pins)

-----------------------------------------------------------------------------
(* remove().                                                               *)

(* The innermost separator equal to old on the path becomes new, and so    *)
(* does the high key of the child to its left.                             *)
propagateSeparatorUpdate(t, path, old, new) ==
    LET level == SelectLastInSeq(Front(path), LAMBDA n : Contains(t.node[n].keys, old))
    IN IF level = 0 THEN t
       ELSE LET n == path[level]
                i == SelectInSeq(t.node[n].keys, LAMBDA k : k = old)
            IN markDirty([t EXCEPT !.node[n].keys[i] = new,
                                   !.node[t.node[n].kids[i]].high = new], n)

(* Mutant: the last of them, the parent, is forgotten. *)
touchSiblings(t, ns) == FoldLeft(markDirty, t, Front(ns))

(* Mark the nodes of ns, in this order.                                    *)
touch(t, ns) == FoldLeft(markDirty, t, ns)

(* Mutant: the survivor's right link stays. *)
mergeKeepingLink(t, p, i) ==
    LET l    == t.node[p].kids[i]
        r    == t.node[p].kids[i + 1]
        down == IF t.node[l].leaf THEN <<>> ELSE <<t.node[p].keys[i]>>
    IN setParent([touch(t, <<l, p>>) EXCEPT
                           !.node[l].keys = @ \o down \o t.node[r].keys,
                           !.node[l].rids = @ \o t.node[r].rids,
                           !.node[l].kids = @ \o t.node[r].kids,
                           !.node[l].high = t.node[r].high,
                           !.node[r].merged = TRUE,
                           !.node[p].keys = RemoveAt(@, i),
                           !.node[p].kids = RemoveAt(@, i + 1)],
                 ToSet(t.node[r].kids), l)

(* Child i + 1 of p is absorbed by child i; an internal node takes the     *)
(* separator down with it.                                                 *)
merge(t, p, i) ==
    LET l    == t.node[p].kids[i]
        r    == t.node[p].kids[i + 1]
        down == IF t.node[l].leaf THEN <<>> ELSE <<t.node[p].keys[i]>>
    IN setParent([touch(t, <<l, p>>) EXCEPT
                           !.node[l].keys = @ \o down \o t.node[r].keys,
                           !.node[l].rids = @ \o t.node[r].rids,
                           !.node[l].kids = @ \o t.node[r].kids,
                           !.node[l].right = t.node[r].right,
                           !.node[l].high = t.node[r].high,
                           !.node[r].merged = TRUE,
                           !.node[p].keys = RemoveAt(@, i),
                           !.node[p].kids = RemoveAt(@, i + 1)],
                 ToSet(t.node[r].kids), l)

(* The last two children of the root were merged into n: it is the root.   *)
collapse(t, n) == [t EXCEPT !.root = n, !.node[n].parent = 0]

(* May n give up a key or, if internal, a child?                           *)
canLend(n) ==
    IF n.leaf THEN Len(n.keys) > MIN_KEYS ELSE Len(n.kids) > MIN_CHILDREN

(* Child i of p takes the last key (or child) of child i - 1.  Either way  *)
(* the lender's last key is the new separator and the lender's high key;   *)
(* an internal borrower gets the old separator as its key.                 *)
borrowFromLeft(t, p, i) ==
    LET n     == t.node[p].kids[i]
        l     == t.node[p].kids[i - 1]
        sep   == Last(t.node[l].keys)
        moved == IF t.node[l].leaf THEN <<>> ELSE <<Last(t.node[l].kids)>>
        key   == IF t.node[l].leaf THEN sep ELSE t.node[p].keys[i - 1]
        rid   == IF t.node[l].leaf THEN <<Last(t.node[l].rids)>> ELSE <<>>
    IN setParent([touch(t, <<n, l, p>>) EXCEPT
                           !.node[n].keys = <<key>> \o @,
                           !.node[n].rids = rid \o @,
                           !.node[n].kids = moved \o @,
                           !.node[l].keys = Front(@),
                           !.node[l].rids = SubSeq(@, 1, Len(@) - Len(rid)),
                           !.node[l].kids = SubSeq(@, 1, Len(@) - Len(moved)),
                           !.node[l].high = sep,
                           !.node[p].keys[i - 1] = sep],
                 ToSet(moved), n)

(* Mutant: the borrower's high key stays. *)
borrowKeepingHigh(t, p, i) ==
    LET n     == t.node[p].kids[i]
        r     == t.node[p].kids[i + 1]
        ks    == t.node[r].keys
        sep   == IF t.node[r].leaf THEN ks[2] ELSE ks[1]
        moved == IF t.node[r].leaf THEN <<>> ELSE <<Head(t.node[r].kids)>>
        key   == IF t.node[r].leaf THEN ks[1] ELSE t.node[p].keys[i]
        rid   == IF t.node[r].leaf THEN <<Head(t.node[r].rids)>> ELSE <<>>
    IN setParent([touch(t, <<n, r, p>>) EXCEPT
                           !.node[n].keys = Append(@, key),
                           !.node[n].rids = @ \o rid,
                           !.node[n].kids = @ \o moved,
                           !.node[r].keys = Tail(@),
                           !.node[r].rids = SubSeq(@, Len(rid) + 1, Len(@)),
                           !.node[r].kids = SubSeq(@, Len(moved) + 1, Len(@)),
                           !.node[p].keys[i] = sep],
                 ToSet(moved), n)

(* Child i of p takes the first key (or child) of child i + 1.  A leaf's   *)
(* new separator is the first key the lender keeps, an internal node's the *)
(* one it gave up.                                                         *)
borrowFromRight(t, p, i) ==
    LET n     == t.node[p].kids[i]
        r     == t.node[p].kids[i + 1]
        ks    == t.node[r].keys
        sep   == IF t.node[r].leaf THEN ks[2] ELSE ks[1]
        moved == IF t.node[r].leaf THEN <<>> ELSE <<Head(t.node[r].kids)>>
        key   == IF t.node[r].leaf THEN ks[1] ELSE t.node[p].keys[i]
        rid   == IF t.node[r].leaf THEN <<Head(t.node[r].rids)>> ELSE <<>>
    IN setParent([touch(t, <<n, r, p>>) EXCEPT
                           !.node[n].keys = Append(@, key),
                           !.node[n].rids = @ \o rid,
                           !.node[n].kids = @ \o moved,
                           !.node[n].high = sep,
                           !.node[r].keys = Tail(@),
                           !.node[r].rids = SubSeq(@, Len(rid) + 1, Len(@)),
                           !.node[r].kids = SubSeq(@, Len(moved) + 1, Len(@)),
                           !.node[p].keys[i] = sep],
                 ToSet(moved), n)

(* handleLeafUnderflow() and handleInternalUnderflow(): path ends with an  *)
(* under-full node.  In this order: borrow from the left, borrow from the  *)
(* right, merge with the left, merge with the right.  The left sibling's   *)
(* latch is only tried, and another operation's saveDirty() may keep it:   *)
(* busy holds the attempts that fail, a "borrow" or "merge" at a leaf      *)
(* (TRUE) or above (FALSE).                                                *)
RECURSIVE handleUnderflow(_, _, _)
handleUnderflow(t, path, busy) ==
    LET n    == Last(path)
        up   == Front(path)
        p    == Last(up)
        kids == t.node[p].kids
        i    == SelectInSeq(kids, LAMBDA c : c = n)
        gets(attempt) == i > 1 /\ <<attempt, t.node[n].leaf>> \notin busy
        merged(l) ==
            LET m == merge(t, p, l)
            IN IF Len(up) = 1 /\ m.node[p].keys = <<>> THEN collapse(m, kids[l])
               ELSE IF isUnderflow(m.node[p]) THEN handleUnderflow(m, up, busy)
               ELSE m
    IN IF Len(path) < 2 THEN t
       ELSE IF i = 0 THEN t
       ELSE IF gets("borrow") /\ canLend(t.node[kids[i - 1]]) THEN borrowFromLeft(t, p, i)
       ELSE IF i < Len(kids) /\ canLend(t.node[kids[i + 1]]) THEN borrowFromRight(t, p, i)
       ELSE IF gets("merge") THEN merged(i - 1)
       ELSE IF i < Len(kids) THEN merged(i)
       ELSE t

(* remove() of a key k that its descent finds.                             *)
removeKey(t, k, busy) ==
    LET path == Descent(t, t.root, k)
        leaf == Last(path)
        i    == SelectInSeq(t.node[leaf].keys, LAMBDA x : x = k)
        rest == RemoveAt(t.node[leaf].keys, i)
        next == t.node[leaf].right
        new  == IF rest # <<>> THEN rest
                ELSE IF next # 0 THEN t.node[next].keys ELSE <<>>
        t1   == markDirty([t EXCEPT !.node[leaf].keys = rest,
                                    !.node[leaf].rids = RemoveAt(@, i)], leaf)
        t2   == IF i = 1 /\ new # <<>>
                THEN propagateSeparatorUpdate(t1, path, k, Head(new)) ELSE t1
    IN IF Len(path) = 1 /\ rest = <<>> /\ next = 0
       THEN [t2 EXCEPT !.root = 0]
       ELSE IF isUnderflow(t2.node[leaf]) THEN handleUnderflow(t2, path, busy)
       ELSE t2

-----------------------------------------------------------------------------
(* The index file: saveDirty() and load().                                 *)

(* What saveNode() writes of a node: a child without a node_id is a -1.    *)
Serialized(nd, ids) ==
    [leaf |-> nd.leaf, keys |-> nd.keys, rids |-> nd.rids,
     kids |-> [i \in DOMAIN nd.kids |-> IF nd.kids[i] \in ids THEN nd.kids[i] ELSE 0]]

(* The nodes reachable from S through children alone.                      *)
RECURSIVE Below(_, _)
Below(t, S) ==
    LET more == S \cup UNION {ToSet(t.node[n].kids) : n \in S}
    IN IF more = S THEN S ELSE Below(t, more)

(* loadRecursive(): the nodes of the file below those of row, level by     *)
(* level, each level from left to right.                                   *)
RECURSIVE Levels(_, _)
Levels(fnode, row) ==
    IF row = <<>> THEN <<>>
    ELSE <<row>> \o Levels(fnode, SelectSeq(FlattenSeq([i \in DOMAIN row |-> fnode[row[i]].kids]),
                                            LAMBDA c : c # 0))

(* The i-th node of a level as load() leaves it: the leaf chain and the    *)
(* links and high keys of rebuildLinks() come from its right neighbour.    *)
Rebuilt(fnode, row, i, parent) ==
    LET nd      == fnode[row[i]]
        next    == IF i < Len(row) THEN row[i + 1] ELSE 0
        bounded == next # 0 /\ fnode[next].keys # <<>>
    IN [NewNode(nd.leaf) EXCEPT
           !.keys = nd.keys, !.rids = nd.rids, !.kids = nd.kids, !.parent = parent,
           !.right = IF nd.leaf \/ bounded THEN next ELSE 0,
           !.high = IF bounded THEN Head(fnode[next].keys) ELSE 0]

(* load(), beside the nodes 1..n that memory has held before.              *)
load(f, n) ==
    LET blank == [node |-> [i \in 1..n |-> NewNode(TRUE)] \o <<>>, root |-> f.root,
                  ok |-> TRUE, dirty |-> <<>>]
        rows  == Levels(f.node, <<f.root>>)
        above(l, c) == IF l = 1 THEN 0
                       ELSE CHOOSE p \in ToSet(rows[l - 1]) : Contains(f.node[p].kids, c)
        put(t, e) == [t EXCEPT
            !.node[rows[e[1]][e[2]]] = Rebuilt(f.node, rows[e[1]], e[2], above(e[1], rows[e[1]][e[2]])),
            !.ok = @ /\ ~Contains(f.node[rows[e[1]][e[2]]].kids, 0)]
    IN IF f.root = 0
       THEN [blank EXCEPT !.node = Append(@, NewNode(TRUE)), !.root = n + 1]
       ELSE FoldSet(LAMBDA e, t : put(t, e), blank,
                    UNION {{l} \X DOMAIN rows[l] : l \in DOMAIN rows})

-----------------------------------------------------------------------------
(* The operations.                                                         *)

(* Phase A of insert(): the tree it leaves, and the fix-up it owes, if any.*)
insertLeaf(t, k, rid) ==
    LET t1   == IF t.root # 0 THEN t
                ELSE [t EXCEPT !.node = Append(@, NewNode(TRUE)), !.root = Len(t.node) + 1]
        path == Descent(t1, t1.root, k)
        leaf == Last(path)
        i    == LowerBound(t1.node[leaf].keys, k)
        t2   == markDirty([t1 EXCEPT !.node[leaf].keys = InsertAt(@, i, k),
                                     !.node[leaf].rids = InsertAt(@, i, rid)], leaf)
        id   == Len(t2.node) + 1
    IN IF ~isFull(t2.node[leaf]) THEN [t |-> t2, owed |-> {}]
       ELSE [t |-> splitLeafNode(t2, leaf, id),
             owed |-> {[hints |-> Front(path), left |-> leaf, right |-> id,
                        sep |-> LeafSeparator(t2.node[leaf])]}]

(* The RIDs the models tell apart: two for every key, first the even one.  *)
firstRID(k) == 2 * k

otherRID(rid) == IF rid % 2 = 0 THEN rid + 1 ELSE rid - 1

(* The tree between operations: no dirty set is installed.                 *)
Settled(t) == [t EXCEPT !.dirty = <<>>]

(* Both phases without interruption: what a lone client sees.              *)
insertAlone(t, k) ==
    LET a == insertLeaf(t, k, firstRID(k))
    IN IF ~t.ok THEN t
       ELSE IF a.owed = {} THEN Settled(a.t)
       ELSE LET f == CHOOSE f \in a.owed : TRUE
            IN Settled(propagateSplit(a.t, f, Head(a.t.node[f.left].keys), {}))

EmptyTree == [node |-> <<NewNode(TRUE)>>, root |-> 1, ok |-> TRUE, dirty |-> <<>>]

(* A new tree, or one that a lone client has filled and saved.             *)
Init ==
    /\ todo \in Workloads
    /\ tree = FoldLeft(insertAlone, EmptyTree, todo.preload)
    /\ numbered = IF todo.saved /\ todo.preload # <<>> THEN Below(tree, {tree.root}) ELSE {}
    /\ file = [node |-> [n \in numbered |-> Serialized(tree.node[n], numbered)],
               root |-> IF numbered = {} THEN 0 ELSE tree.root]
    /\ stored = [k \in ToSet(todo.preload) |-> firstRID(k)]
    /\ fixups = {}
    /\ saves = <<>>
    /\ io = <<>>

(* The calls of saveDirty() that have not returned.                        *)
Unsaved == ToSet(saves) \cup ToSet(io)

(* The operation comes to its saveDirty().  shared: it keeps structure_latch.*)
Saving(dirty, shared) ==
    IF todo.saved THEN Append(saves, [dirty |-> dirty, shared |-> shared]) ELSE saves

(* May another operation start?                                            *)
MayStart ==
    /\ Cardinality(fixups) + Len(saves) + Len(io) < MaxOps
    /\ todo.overlap \/ (fixups = {} /\ Unsaved = {})

(* structure_latch can be had exclusively: no update() is saving.          *)
StructureFree == \A s \in Unsaved : ~s.shared

(* insert(key) up to where it releases structure_latch.  The callers       *)
(* insert a key only after its search failed, holding its row lock.        *)
Insert(k) ==
    /\ todo.inserts > 0
    /\ MayStart
    /\ k \in todo.keys \ DOMAIN stored
    /\ LET a == insertLeaf(tree, k, firstRID(k))
       IN /\ tree' = Settled(a.t)
          /\ fixups' = fixups \cup a.owed
          /\ saves' = IF a.owed = {} THEN Saving(a.t.dirty, FALSE) ELSE saves
    /\ stored' = stored @@ (k :> firstRID(k))
    /\ todo' = [todo EXCEPT !.inserts = @ - 1]
    /\ UNCHANGED <<io, numbered, file>>

(* propagateSplit(), after which insert() saves.  A left node that removes *)
(* emptied in the meantime has no first key: keys.front() is then          *)
(* undefined and yields some key.                                          *)
FixUp(f) ==
    LET ks == tree.node[f.left].keys
        t  == touch(tree, <<f.left, f.right>>)
    IN /\ StructureFree
       /\ \E nav \in IF ks = <<>> THEN Keys ELSE {Head(ks)} :
              LET done == propagateSplit(t, f, nav, Pins(tree, fixups, Unsaved))
              IN /\ tree' = Settled(done)
                 /\ saves' = Saving(done.dirty, FALSE)
       /\ fixups' = fixups \ {f}
       /\ UNCHANGED <<io, numbered, file, stored, todo>>

leafOf(t, k) == t.node[Last(Descent(t, t.root, k))]

(* remove(key) for a key that is there.  Latches are only tried, and found *)
(* busy, when its leaf has too few keys left.                              *)
RemoveKey(k) ==
    /\ todo.removes > 0
    /\ todo.racing \/ fixups = {}
    /\ MayStart
    /\ StructureFree
    /\ k \in DOMAIN stored
    /\ search(tree, k) # 0
    /\ \E busy \in IF (todo.saved /\ io = <<>>) \/ Len(leafOf(tree, k).keys) > MIN_KEYS THEN {{}}
                   ELSE SUBSET ({"borrow", "merge"} \X BOOLEAN) :
           LET done == removeKey(tree, k, busy)
           IN /\ tree' = Settled(done)
              /\ saves' = Saving(done.dirty, FALSE)
    /\ stored' = [x \in DOMAIN stored \ {k} |-> stored[x]]
    /\ todo' = [todo EXCEPT !.removes = @ - 1]
    /\ UNCHANGED <<fixups, io, numbered, file>>

(* update(key, rid) for a key that is there, up to its saveDirty().        *)
Update(k) ==
    /\ todo.updates > 0
    /\ MayStart
    /\ k \in DOMAIN stored
    /\ search(tree, k) # 0
    /\ LET leaf == Last(Descent(tree, tree.root, k))
           i    == SelectInSeq(tree.node[leaf].keys, LAMBDA x : x = k)
       IN /\ tree' = [tree EXCEPT !.node[leaf].rids[i] = otherRID(stored[k])]
          /\ saves' = Saving(<<leaf>>, TRUE)
    /\ stored' = [stored EXCEPT ![k] = otherRID(@)]
    /\ todo' = [todo EXCEPT !.updates = @ - 1]
    /\ UNCHANGED <<fixups, io, numbered, file>>

(* saveDirty() gets io_mutex and numbers the new nodes among its dirty     *)
(* ones.                                                                   *)
SaveBegin(i) ==
    /\ io = <<>>
    /\ io' = <<saves[i]>>
    /\ saves' = RemoveAt(saves, i)
    /\ numbered' = numbered \cup ToSet(saves[i].dirty)
    /\ UNCHANGED <<tree, fixups, file, stored, todo>>

(* It writes one node, as it is now.                                       *)
SaveNode ==
    /\ io # <<>>
    /\ io[1].dirty # <<>>
    /\ LET n == Head(io[1].dirty)
       IN file' = [file EXCEPT !.node = (n :> Serialized(tree.node[n], numbered)) @@ @]
    /\ io' = [io EXCEPT ![1].dirty = Tail(@)]
    /\ UNCHANGED <<tree, fixups, saves, numbered, stored, todo>>

(* It writes the root's node_id and returns.                               *)
SaveRoot ==
    /\ io # <<>>
    /\ io[1].dirty = <<>>
    /\ file' = [file EXCEPT !.root = IF tree.root \in numbered THEN tree.root ELSE 0]
    /\ io' = <<>>
    /\ UNCHANGED <<tree, fixups, saves, numbered, stored, todo>>

(* No operation is under way.                                              *)
Quiescent == fixups = {} /\ Unsaved = {}

(* The program ends in good order and starts again.                        *)
Restart ==
    /\ todo.restarts > 0
    /\ Quiescent
    /\ tree' = load(file, Len(tree.node))
    /\ numbered' = DOMAIN file.node
    /\ todo' = [todo EXCEPT !.restarts = @ - 1]
    /\ UNCHANGED <<fixups, saves, io, file, stored>>

Next ==
    \/ \E k \in Keys : Insert(k) \/ RemoveKey(k) \/ Update(k)
    \/ \E f \in fixups : FixUp(f)
    \/ \E i \in DOMAIN saves : SaveBegin(i)
    \/ SaveNode
    \/ SaveRoot
    \/ Restart

Spec == Init /\ [][Next]_vars

-----------------------------------------------------------------------------
(* Properties.                                                             *)

(* The nodes of the tree: what the root reaches through children and right *)
(* links.                                                                  *)
Nodes == IF tree.root = 0 THEN {} ELSE Held(tree, {tree.root})

(* search() finds a key exactly when it has been inserted and not removed, *)
(* with the RID of the last insert or update, in every state another       *)
(* client can observe: also while fix-ups are outstanding, in whatever     *)
(* order they are then made, and after the tree has been loaded again.     *)
SearchFindsStored ==
    \A k \in Keys : search(tree, k) = IF k \in DOMAIN stored THEN stored[k] ELSE 0

LeastKey == Min(Keys)
GreatestKey == Max(Keys)

(* getAllKeyRIDPairs() and rangeScan() return exactly the stored keys they *)
(* are asked for (all, those up to a key, those from it on), each once,    *)
(* with its RID, in ascending order.                                       *)
ScansAreExact ==
    LET all == getAllKeyRIDPairs(tree)
    IN /\ \A i \in 1..Len(all) - 1 : all[i][1] < all[i + 1][1]
       /\ ToSet(all) = {<<k, stored[k]>> : k \in DOMAIN stored}
       /\ \A k \in Keys : \A r \in {<<LeastKey, k>>, <<k, GreatestKey>>} :
              rangeScan(tree, r[1], r[2]) =
                  SelectSeq(all, LAMBDA e : r[1] <= e[1] /\ e[1] <= r[2])

(* propagateSplit() never throws "tree structure corrupted", and nothing   *)
(* follows a null root or a child that was saved without a node_id.        *)
FixUpsSucceed == tree.ok

(* The B-link invariant moveRight() relies on: a leaf with a high key has  *)
(* a right neighbour; its own keys lie below the high key, and all keys    *)
(* further along the chain at or above it.                                 *)
HighKeysSeparate ==
    \A n \in Nodes :
        LET nd == tree.node[n]
        IN nd.leaf /\ nd.high # 0 =>
              /\ nd.right # 0
              /\ \A k \in ToSet(nd.keys) : k < nd.high
              /\ \A e \in ToSet(ChainPairs(tree, nd.right)) : e[1] >= nd.high

RECURSIVE Depth(_, _)
Depth(t, n) == IF t.node[n].leaf THEN 0 ELSE 1 + Depth(t, Head(t.node[n].kids))

(* Once no fix-up is outstanding every split has reached the ancestors:    *)
(* every leaf of the chain is some internal node's child (or the root),    *)
(* all leaves are equally deep, and no node of the tree was merged away or *)
(* overflows.                                                              *)
SplitsReachTheRoot ==
    fixups = {} /\ tree.root # 0 =>
        /\ \A n \in Nodes : tree.node[n].leaf => n \in Below(tree, {tree.root})
        /\ \A n \in Nodes :
               /\ ~tree.node[n].merged /\ ~isFull(tree.node[n])
               /\ \A c \in ToSet(tree.node[n].kids) : Depth(tree, c) + 1 = Depth(tree, n)

(* Once every operation has returned from its saveDirty(), load() would    *)
(* find a whole tree in the file, with exactly the stored keys and RIDs:   *)
(* between them the operations marked every node they changed, and saved   *)
(* no child before it had its node_id.                                     *)
FileHoldsTheTree ==
    todo.saved /\ Quiescent =>
        LET t == load(file, Len(tree.node))
        IN /\ t.ok
           /\ getAllKeyRIDPairs(t) = getAllKeyRIDPairs(tree)

=============================================================================
