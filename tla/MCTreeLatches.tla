--------------------------- MODULE MCTreeLatches ---------------------------
(* Three threads on small trees: a root R over the leaves A, B and C; a    *)
(* chain of leaves that has no root above it yet; a root R over the nodes  *)
(* M and N, the leaves A and B below N.                                    *)
EXTENDS TreeLatches

Three == {"t1", "t2", "t3"}
AllLatches == {"structure", "root_guard", "io_mutex", "R", "M", "N", "A", "B", "C"}

Once(p) == [runs |-> p, forever |-> FALSE]
Forever(p) == [runs |-> p, forever |-> TRUE]

Trio(a, b, c) == ("t1" :> a) @@ ("t2" :> b) @@ ("t3" :> c)
EachOnce(as, bs, cs) == {Trio(Once(a), Once(b), Once(c)) : a \in as, b \in bs, c \in cs}

giveUp == finish(<<"R", "B">>, <<"B">>)

Removes == {
    remove(<<"R", "B">>, missing(<<"R", "B">>)),
    remove(<<"R", "B">>, propagateSeparatorUpdate("A")
        \o borrowLeft("A", finish(<<"R", "B">>, <<"B", "A", "R">>),
              borrowRight("C", finish(<<"R", "B">>, <<"B", "R", "C">>)))),
    remove(<<"R", "B">>, separatorFromNext("C", "A")
        \o mergeLeft("B", "A", finish(<<"R">>, <<"A", "R">>), giveUp)),
    remove(<<"R", "B">>, mergeLeft("B", "A", swapRoot \o finish(<<"R">>, <<"A", "R">>), giveUp)),
    remove(<<"R", "A">>, Brief("S", "B") \o mergeRight("A", "B", swapRoot \o finish(<<"R">>, <<"A", "R">>))) }

Inserts == {
    insert(<<"R", "A">>, propagateSplit(<<byHint("R", "A", "B", <<>>)>>), <<"A", "R">>),
    insert(<<"R", "A">>, propagateSplit(<<byHint("R", "A", "B", <<"B", "C">>), newRoot("R", "N")>>), <<"A", "R">>) }

Relinks == {
    insert(<<"B">>, propagateSplit(<<byPointer("R", "B", "C", <<>>)>>), <<"B">>),
    insert(<<"B">>, propagateSplit(<<relinked("A", "B", <<"R", "C">>)>>), <<"A", "R">>),
    insert(<<"A">>, propagateSplit(<<redirected("M", "N", "A", "B")>>), <<"A", "N">>) }

(* R over M and N, the leaves A and B below N.                             *)
DeepRemove ==
    remove(<<"R", "N", "B">>,
        mergeLeft("B", "A",
            mergeLeft("N", "M", swapRoot \o finish(<<"R">>, <<"A", "M">>),
                finish(<<"R", "N">>, <<"A", "N">>)),
            finish(<<"R", "N", "B">>, <<"B">>)))

SearchLeaf == Forever(traverse(<<"R", "A">>))

MCPlans ==
    EachOnce({update(<<"R", "A", "B">>, TRUE)}, Removes, Inserts)
    \cup EachOnce({update(<<"R", "N", "A">>, FALSE)}, {DeepRemove}, Relinks)
    \cup EachOnce({insert(<<"A">>, propagateSplit(<<newRoot("A", "B")>>), <<"A", "B">>),
                   remove(<<"A">>, swapRoot \o finish(<<"A">>, <<"A">>))},
                  {insert(<<"A", "B">>, propagateSplit(<<bootstrapRoot(<<"A", "B">>, "C")>>), <<"B", "C">>)},
                  {traverse(<<"A", "B">>), printTree(<<"A">>), insert(<<"A", "B">>, <<>>, <<"B">>)})
    \cup {Trio(SearchLeaf, SearchLeaf, Once(p)) : p \in Removes}
=============================================================================
