---------------------------- MODULE MCHnswSearch ----------------------------
(* A model-checking instance of HnswSearch. *)
EXTENDS HnswSearch

\* An index with vectors of two components.
Index(ids, vectors, graph, deleted, entry, selection) ==
    [dimension |-> 2, m |-> 2, efConstruction |-> 3, efSearch |-> 1, seed |-> 1,
     selection |-> selection, ids |-> ids, vectors |-> vectors, graph |-> graph,
     deleted |-> [n \in 1..Len(ids) |-> IF n \in deleted THEN 1 ELSE 0],
     deletedCount |-> Cardinality(deleted), entry |-> entry,
     maxLevel |-> IF ids = <<>> THEN 0 ELSE Len(graph[entry]) - 1, random |-> Len(ids) + 1]

\* The files of these change: no node, one node (twice, with files of the same
\* size), two nodes of which one is on two levels, three nodes with two above.
MCDisturbed ==
    {Index(<<>>, <<>>, <<>>, {}, 0, 1),
     Index(<<2>>, <<0, 1>>, << <<<<>>>> >>, {1}, 1, 0),
     Index(<<3>>, <<-1, 0>>, << <<<<>>>> >>, {}, 1, 0),
     Index(<<3, 1>>, <<1, 0, 0, -1>>, << <<<<2>>>>, <<<<1>>, <<>>>> >>, {}, 2, 1),
     Index(<<0, 2, 1>>, <<1, 0, 0, 1, 0, 1>>,
           << <<<<2, 3>>, <<2>>>>, <<<<1, 3>>, <<1>>>>, <<<<1, 2>>>> >>, {3}, 2, 1)}

\* These are searched: four nodes, two of them with the same vector, any
\* undirected graph on the lowest level, tombstones among the first three nodes
\* or everywhere, and one of three shapes above it:
\* nothing, one link, or a ring.
Pairs == {<<1, 2>>, <<1, 3>>, <<1, 4>>, <<2, 3>>, <<2, 4>>, <<3, 4>>}
Ring == {<<1, 2>>, <<2, 3>>, <<3, 4>>, <<1, 4>>}
Lists(E) == [n \in 1..4 |-> SelectSeq(<<1, 2, 3, 4>>, LAMBDA m : {<<n, m>>, <<m, n>>} \cap E # {})]
Above(E, F, S) == [n \in 1..4 |-> IF n \in S THEN <<Lists(E)[n], Lists(F)[n]>> ELSE <<Lists(E)[n]>>]
FourNodes(graph, deleted, selection) ==
    Index(<<4, 2, 3, 1>>, <<1, 0, 0, 1, 1, 0, -1, 0>>, graph, deleted, 1, selection)

MCSnapshots ==
    MCDisturbed
    \union {FourNodes(Above(E, {}, {}), D, 1) :
                E \in SUBSET Pairs, D \in SUBSET (1..3) \union {1..4}}
    \union {FourNodes(Above(E, {<<1, 3>>}, {1, 3}), D, 1) :
                E \in SUBSET Pairs, D \in {{}, {1}, {3}, {1, 3}, {2, 4}}}
    \union {FourNodes(Above(E, Ring, 1..4), {}, s) : E \in SUBSET Pairs, s \in {0, 1}}

MCQueries == {<<1, 0>>, <<0, -1>>}
=============================================================================
