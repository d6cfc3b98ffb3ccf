------------------------------ MODULE MCCapture ------------------------------
EXTENDS Capture, FiniteSets, TLC

CONSTANT p2  \* one of two paths

Interchangeable == Permutations(Content)

\* Of two interchangeable paths, others write to one.
Unwritten == past[p2] = [index |-> {index[p2]}, work |-> {work[p2]},
                         mask |-> {Flag(p2)}] /\ p2 \notin restored

Missing == base[p2] = Absent /\ index[p2] = Absent /\ work[p2] = Absent

\* All objects there have been.
Occurring == UNION {{base[p]} \cup past[p].index \cup past[p].work : p \in Path}

\* Bound: others write twice if there is one path.  If there are two they write
\* one of them once; these are regular files with two contents, the second is
\* not masked, and they are tested in a clean room.
Bounded ==
    /\ Unwritten
    /\ \/ Missing /\ seen[p2] = {} /\ made[p2] = {}
       \/ /\ edits <= 1 /\ head = 0 /\ mode = "clean" /\ p2 \notin mask
          /\ Occurring \cap Irregular = {} /\ Cardinality(Occurring \ {Absent}) <= 2

MCInit == Init /\ Bounded
MCNext == Next /\ Bounded'
MCSpec == MCInit /\ [][MCNext]_vars
=============================================================================
