----------------------------- MODULE HnswSearch -----------------------------
(***************************************************************************)
(* Searching the HNSW index (src/src/hnsw_index.cpp) after it was loaded:  *)
(* the greedy descent, the best-first search of a layer, and the choice of *)
(* neighbours for a vector that is to be inserted.                         *)
(*                                                                         *)
(* Queries and vectors are unit vectors with whole components; similarity  *)
(* is their dot product.  A candidate is a node; its score against the     *)
(* query is looked up.  One step is one pass of the greedy loop, one       *)
(* iteration of the best-first loop, or one neighbour it visits: the       *)
(* context may stop the search between any two.  The heaps are sets with a *)
(* best or a worst member.                                                 *)
(***************************************************************************)
EXTENDS HnswIndexFile

CONSTANTS
    Queries,        \* the query vectors
    Widths,         \* the values of ef_search
    Counts          \* the values of k

ASSUME SearchesAssumption == Queries \subseteq Seq(Int) /\ Widths \subseteq Nat /\ Counts \subseteq Nat

VARIABLE search

searchVars == <<vars, search>>

NoSearch ==
    [phase |-> "idle", goal |-> "search", scores |-> <<>>, k |-> 0, ef |-> 0, floor |-> 0,
     level |-> 0, here |-> 0, start |-> 0, pending |-> {}, best |-> {}, visited |-> {},
     todo |-> <<>>, plan |-> <<>>, result |-> <<>>]

-----------------------------------------------------------------------------
(* Helpers *)

Count == Len(index.ids)
LiveCount == Count - index.deletedCount
IsLive(n) == index.deleted[n] = 0
Neighbors(n, l) == index.graph[n][l + 1]

Dot(u, v) ==
    LET sum[c \in 0..Len(u)] == IF c = 0 THEN 0 ELSE sum[c - 1] + u[c] * v[c]
    IN  sum[Len(u)]
VectorOf(n) == Row(index.vectors, n, index.dimension)
Similarity(query, n) == Dot(query, VectorOf(n))

\* The score that a candidate for this query has.
ScoresFor(query) == [n \in 1..Count |-> Similarity(query, n)]
Score(n) == search.scores[n]

\* is_better: the higher score, then the lower ID.
IsBetter(a, b) ==
    \/ Score(a) > Score(b)
    \/ Score(a) = Score(b) /\ index.ids[a] < index.ids[b]

BestOf(S) == CHOOSE n \in S : \A m \in S \ {n} : IsBetter(n, m)
WorstOf(S) == CHOOSE n \in S : \A m \in S \ {n} : IsBetter(m, n)

\* std::sort: in place r is the one that r - 1 others are better than.
Sorted(S) == [r \in 1..Cardinality(S) |-> CHOOSE n \in S : Cardinality({m \in S : IsBetter(m, n)}) = r - 1]

Smaller(a, b) == IF a <= b THEN a ELSE b
Larger(a, b) == IF a >= b THEN a ELSE b

-----------------------------------------------------------------------------
(* The descent *)

\* search(): nothing to do for k = 0 or an index without live vectors, and a
\* query of another dimension or an ef of zero is refused.
StartSearch(q, k, ef) ==
    /\ load.phase = "loaded"
    /\ search.phase = "idle"
    /\ \/ /\ k # 0
          /\ Len(q) # index.dimension \/ ef = 0
          /\ search' = [NoSearch EXCEPT !.phase = "refused"]
       \/ /\ k = 0 \/ (Len(q) = index.dimension /\ ef # 0 /\ LiveCount = 0)
          /\ search' = [NoSearch EXCEPT !.phase = "done"]
       \/ /\ k # 0 /\ Len(q) = index.dimension /\ ef # 0 /\ LiveCount # 0
          /\ search' = [NoSearch EXCEPT
                !.phase = "descend", !.scores = ScoresFor(q), !.k = Smaller(k, LiveCount),
                !.ef = Larger(Smaller(k, LiveCount), ef),
                !.level = index.maxLevel, !.here = index.entry]
    /\ UNCHANGED vars

\* The searches of insert_normalized for a vector of the given level, the
\* tombstones included.
StartInsert(q, level) ==
    /\ load.phase = "loaded"
    /\ search.phase = "idle"
    /\ Count > 0
    /\ Len(q) = index.dimension
    /\ search' = [NoSearch EXCEPT
          !.phase = "descend", !.goal = "insert", !.scores = ScoresFor(q), !.ef = index.efConstruction,
          !.floor = Smaller(level, index.maxLevel), !.level = index.maxLevel, !.here = index.entry]
    /\ UNCHANGED vars

\* Mutation: a neighbour that is as good is taken too.
GreedyPassOrEqual(here, l) ==
    LET list == Neighbors(here, l)
        best[e \in 0..Len(list)] ==
            IF e = 0 THEN here
            ELSE LET last == best[e - 1] IN IF Score(list[e]) >= Score(last) THEN list[e] ELSE last
    IN  best[Len(list)]

\* One pass of greedy_search_layer over the links of a node.
GreedyPass(here, l) ==
    LET list == Neighbors(here, l)
        best[e \in 0..Len(list)] ==
            IF e = 0 THEN here
            ELSE LET last == best[e - 1] IN IF IsBetter(list[e], last) THEN list[e] ELSE last
    IN  best[Len(list)]

\* A pass finds a better node, or the descent goes on one level lower.
Greedy ==
    LET next == GreedyPass(search.here, search.level) IN
    /\ search.phase = "descend"
    /\ search.level > search.floor
    /\ search' = IF next # search.here THEN [search EXCEPT !.here = next]
                                       ELSE [search EXCEPT !.level = @ - 1]
    /\ UNCHANGED vars

-----------------------------------------------------------------------------
(* search_layer *)

\* Mutation: a tombstone takes a place among the results.
AdmitsAll(n) == TRUE

\* Tombstones route a search and never answer it; an insertion links to them.
Admits(n) == search.goal = "insert" \/ IsLive(n)

\* The first candidate is the node where the descent has ended.
EnterLayer ==
    /\ search.phase = "descend"
    /\ search.level = search.floor
    /\ search' = [search EXCEPT
          !.phase = "layer", !.start = search.here, !.pending = {search.here},
          !.best = IF Admits(search.here) THEN {search.here} ELSE {},
          !.visited = {search.here}, !.todo = <<>>]
    /\ UNCHANGED vars

Full == Cardinality(search.best) >= search.ef

\* Nothing is pending, or the best of it is worse than every result.
Settled ==
    search.pending # {} => Full /\ IsBetter(WorstOf(search.best), BestOf(search.pending))

Pop ==
    /\ search.phase = "layer" /\ search.todo = <<>>
    /\ ~Settled
    /\ LET current == BestOf(search.pending) IN
       search' = [search EXCEPT !.pending = @ \ {current}, !.todo = Neighbors(current, search.level),
                                !.phase = IF Neighbors(current, search.level) = <<>> THEN @ ELSE "visit"]
    /\ UNCHANGED vars

Promising(n) == ~Full \/ IsBetter(n, WorstOf(search.best))

Trimmed(S) == IF Cardinality(S) > search.ef THEN S \ {WorstOf(S)} ELSE S

\* One neighbour of the node that was taken.
Visit ==
    LET n == Head(search.todo)
        fresh == n \notin search.visited /\ Promising(n)
    IN
    /\ search.phase = "visit"
    /\ search' = [search EXCEPT
          !.todo = Tail(@), !.visited = @ \union {n},
          !.phase = IF Tail(search.todo) = <<>> THEN "layer" ELSE @,
          !.pending = IF fresh THEN @ \union {n} ELSE @,
          !.best = IF fresh /\ Admits(n) THEN Trimmed(@ \union {n}) ELSE @]
    /\ UNCHANGED vars

\* The results, cut to the k that were asked for.
FinishSearch ==
    /\ search.phase = "layer" /\ search.todo = <<>> /\ Settled
    /\ search.goal = "search"
    /\ \E found \in {Sorted(search.best)} :
       search' = [search EXCEPT !.phase = "done", !.pending = {}, !.best = {}, !.visited = {},
                                !.result = SubSeq(found, 1, Smaller(search.k, Len(found)))]
    /\ UNCHANGED vars

-----------------------------------------------------------------------------
(* select_neighbors *)

\* Farther from every chosen node than from the vector itself.
Diverse(n, chosen) ==
    \A e \in DOMAIN chosen : Similarity(VectorOf(n), chosen[e]) < Score(n)

\* The first candidates, at most limit of them, that are far from each other.
ChosenDiverse(found, limit) ==
    LET chosen[e \in 0..Len(found)] ==
            IF e = 0 THEN <<>>
            ELSE LET last == chosen[e - 1] IN
                 IF Len(last) < limit /\ Diverse(found[e], last) THEN Append(last, found[e]) ELSE last
    IN  chosen[Len(found)]

\* Mutation: the rejected candidates do not fill the list.
SelectDiverse(found, limit) == ChosenDiverse(found, Smaller(limit, Len(found)))

\* The diverse ones, then the best of the others.
SelectNeighbors(found, limit) ==
    LET count == Smaller(limit, Len(found))
        diverse == ChosenDiverse(found, count)
        pruned == Sorted(ToSet(found) \ ToSet(diverse))
    IN  IF index.selection = 0 THEN SubSeq(found, 1, count)
                               ELSE SubSeq(diverse \o pruned, 1, count)

\* The links of the new node on this level; the search goes on below from the
\* best candidate.
FinishLayer ==
    /\ search.phase = "layer" /\ search.todo = <<>> /\ Settled
    /\ search.goal = "insert"
    /\ \E found \in {Sorted(search.best)} :
       search' = [search EXCEPT
          !.plan = Append(@, [level |-> search.level, start |-> search.start,
                              chosen |-> SelectNeighbors(found, Limit(index, search.level))]),
          !.here = found[1], !.best = {}, !.pending = {}, !.visited = {},
          !.phase = IF search.level = 0 THEN "done" ELSE "descend",
          !.level = IF search.level = 0 THEN 0 ELSE @ - 1,
          !.floor = IF search.level = 0 THEN 0 ELSE @ - 1]
    /\ UNCHANGED vars

\* The context stops the search at a checkpoint: SearchStopped.
Stop ==
    /\ search.phase \in {"descend", "layer", "visit"}
    /\ search.goal = "search"
    /\ search' = [NoSearch EXCEPT !.phase = "stopped"]
    /\ UNCHANGED vars

-----------------------------------------------------------------------------

SearchInit == Init /\ search = NoSearch

SearchStep == Greedy \/ EnterLayer \/ Pop \/ Visit \/ FinishSearch \/ FinishLayer

SearchNext ==
    \/ search.phase = "idle" /\ Next /\ UNCHANGED search
    \/ \E q \in Queries, k \in Counts, ef \in Widths : StartSearch(q, k, ef)
    \/ \E q \in Queries, l \in 0..MaxLevel : StartInsert(q, l)
    \/ SearchStep
    \/ Stop

\* A search runs on its own thread, which keeps running.
SearchSpec == SearchInit /\ [][SearchNext]_searchVars /\ WF_searchVars(SearchStep)

-----------------------------------------------------------------------------

\* The nodes that links of level l lead to from node n.
Reach(n, l) ==
    LET On == {m \in 1..Count : Len(index.graph[m]) > l}
        Closed == {S \in SUBSET On :
                     n \in S /\ \A m \in S : \A e \in DOMAIN Neighbors(m, l) : Neighbors(m, l)[e] \in S}
    IN  CHOOSE S \in Closed : \A T \in Closed : S \subseteq T

\* A search returns live vectors only, best first, and as many as were asked
\* for unless fewer can be reached from where the descent ended, however many
\* tombstones lie between.  If ef is no smaller than what can be reached, the
\* result is exact.
SearchIsComplete ==
    search.phase = "done" /\ search.goal = "search" /\ search.k > 0 =>
        LET live == {n \in Reach(search.start, 0) : IsLive(n)}
            result == search.result
        IN  /\ Len(result) = Smaller(search.k, Cardinality(live))
            /\ ToSet(result) \subseteq live
            /\ \A e \in 1..(Len(result) - 1) : IsBetter(result[e], result[e + 1])
            /\ search.ef >= Cardinality(live) =>
                  \A n \in live \ ToSet(result) : \A e \in DOMAIN result : IsBetter(result[e], n)

\* The links planned for a new node are distinct nodes of the level, never
\* none, and as many as the limit and the construction search allow ("keeps
\* graph degree predictable"): the choices that HnswGraph makes.
PlanIsSelectable ==
    search.phase = "done" => \A p \in DOMAIN search.plan :
        LET level == search.plan[p].level
            chosen == search.plan[p].chosen
            reach == Reach(search.plan[p].start, level)
        IN  /\ IsInjective(chosen)
            /\ ToSet(chosen) \subseteq reach
            /\ Len(chosen) = Smaller(Limit(index, level), Smaller(index.efConstruction, Cardinality(reach)))

\* A search that is not stopped returns: the greedy loop cannot go round in
\* circles among vectors with the same score.
SearchEnds == search.phase \in {"descend", "layer", "visit"} ~> search.phase \in {"done", "stopped"}
=============================================================================
