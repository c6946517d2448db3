------------------------------ MODULE MCABtree ------------------------------
EXTENDS ABtree
CONSTANTS t1, t2, v1, v2

Threads == {t1, t2}
Value1 == {v1}
Value2 == {v1, v2}
Keys8 == 1 .. 8

Insert(k) == [op |-> "insertIfAbsent", key |-> k, val |-> v1]
Ascending(n) == [i \in 1 .. n |-> Insert(i)]

\* The calls of the operations ops with these keys and values.
CallsOf(ops, keys, vals) ==
    [op : ops \cap {"insert", "insertIfAbsent"}, key : keys, val : vals]
    \cup [op : ops \cap {"find", "erase"}, key : keys, val : {NO_VALUE}]

\* Two updates in a tree of two or of three levels, at its ends and in its middle.
Updates == {[fill |-> Ascending(6), left |-> 2,
             calls |-> CallsOf({"insertIfAbsent", "erase"}, {1, 4, 7, 8}, Value1)],
            [fill |-> Ascending(8), left |-> 2,
             calls |-> CallsOf({"insertIfAbsent", "erase"}, {1, 4, 8}, Value1)]}

\* Three erasures side by side in a tree of three levels.
Erasures == {[fill |-> Ascending(8), left |-> 3, calls |-> CallsOf({"erase"}, 1 .. 3, Value1)]}

\* Every operation on two keys of a tree with two leaves, and three on one key.
Everything == {[fill |-> Ascending(4), left |-> 2,
                calls |-> CallsOf({"find", "insert", "insertIfAbsent", "erase"}, {2, 4}, Value2)],
               [fill |-> Ascending(4), left |-> 3,
                calls |-> CallsOf({"find", "insert", "erase"}, {4}, Value2)]}

AllWorkloads == Updates \cup Erasures \cup Everything
=============================================================================
