-------------------------- MODULE HnswGraphProofs --------------------------
(***************************************************************************)
(* Proofs about the mutation of the HNSW index, for any IDs and any limits *)
(* on nodes, levels and connections.                                       *)
(*                                                                         *)
(* The argument is about the index that a rollback would leave.  It is the *)
(* index from before the insertion in every step of it, and that index was *)
(* sound.  The lists in use are sound except for the links that are still  *)
(* to be made and those that are being cut.                                *)
(***************************************************************************)
EXTENDS HnswGraph, FiniteSetTheorems, TLAPS

\* The live IDs of a table, and the nodes of a graph on a level.
Live(is, D) == {is[n] : n \in (1..Len(is)) \ D}
Present(g, l) == {n \in 1..Len(g) : g[n] >= l}

\* The tables of an index describe the same nodes.
SoundTables(vs, is, g, map, D, count, e, top) ==
    /\ vs = is /\ is \in Seq(Ids) /\ g \in Seq(Levels) /\ Len(g) = Len(is) /\ Len(is) <= MaxNodes
    /\ \A i \in Ids : map[i] # 0 => map[i] \in 1..Len(is) /\ is[map[i]] = i
    /\ \A n \in 1..Len(is) : map[is[n]] = n
    /\ D \subseteq 1..Len(is) /\ count = Cardinality(D)
    /\ IsFiniteSet(Live(is, D)) /\ Cardinality(Live(is, D)) + count = Len(is)
    /\ g # <<>> => e \in 1..Len(g) /\ g[e] = top /\ \A n \in 1..Len(g) : g[n] <= top

\* The links of an index are mutual and within the limits.
SoundLinks(ls, g) ==
    \A l \in Levels : \A n \in Nodes :
        /\ Cardinality(ls[l][n]) <= Limit(l)
        /\ \A m \in ls[l][n] : m # n /\ n \in Present(g, l) /\ m \in Present(g, l) /\ n \in ls[l][m]

\* What ~InsertionTransaction would leave.
UndoneVectors == SubSeq(vectors, 1, saved.count)
UndoneIds == SubSeq(ids, 1, saved.count)
UndoneGraph == SubSeq(graph, 1, saved.count)
UndoneLinks == [l \in Levels |-> [n \in Nodes |->
                  IF n > saved.count THEN {}
                  ELSE IF <<l, n>> \in DOMAIN backups THEN backups[<<l, n>>]
                  ELSE links[l][n]]]
UndoneMap == IF inserted = None THEN idToNode ELSE [idToNode EXCEPT ![inserted] = 0]

\* A rebuild has inserted the live IDs of its source that are not left.
RebuildCounts ==
    rebuild.state = "running" =>
        /\ deleted = {} /\ deletedCount = 0
        /\ rebuild.left \subseteq rebuild.live
        /\ IsFiniteSet(rebuild.live) /\ Cardinality(rebuild.live) = rebuild.count

\* Between insertions the index is sound.
IdleIsSound ==
    phase = "idle" =>
        /\ SoundTables(vectors, ids, graph, idToNode, deleted, deletedCount, entry, maxLevel)
        /\ SoundLinks(links, graph)
        /\ DOMAIN backups = {} /\ inserted = None
        /\ rebuild.state = "running" => Live(ids, deleted) = rebuild.live \ rebuild.left

\* The undone index is the one from before the insertion, and is sound.
UndoneIsBefore ==
    phase # "idle" =>
        /\ before = <<UndoneVectors, UndoneIds, UndoneGraph, UndoneLinks, UndoneMap, deleted, deletedCount,
                      saved.entry, saved.maxLevel, saved.random>>
        /\ UndoneLinks \in [Levels -> [Nodes -> SUBSET Nodes]]
        /\ UndoneMap \in [Ids -> Nodes \union {0}]
        /\ SoundTables(UndoneVectors, UndoneIds, UndoneGraph, UndoneMap, deleted, deletedCount,
                       saved.entry, saved.maxLevel)
        /\ SoundLinks(UndoneLinks, UndoneGraph)
        /\ Len(UndoneIds) = saved.count /\ saved.count < MaxNodes
        /\ adding.id \in Ids /\ UndoneMap[adding.id] = 0
        /\ rebuild.state = "running" =>
              /\ Live(UndoneIds, deleted) = rebuild.live \ (rebuild.left \union {adding.id})
              /\ adding.id \in rebuild.live \ rebuild.left

\* How far the tables are.
TablesInProgress ==
    /\ phase # "idle" => entry = saved.entry /\ maxLevel = saved.maxLevel
    /\ phase = "drawn" =>
          /\ vectors = UndoneVectors /\ ids = UndoneIds /\ graph = UndoneGraph
          /\ links = UndoneLinks /\ idToNode = UndoneMap
          /\ DOMAIN backups = {} /\ inserted = None
    /\ phase = "stored" => ids \in {UndoneIds, Append(UndoneIds, adding.id)}
    /\ phase \in {"linking", "pruning"} =>
          /\ vectors = Append(UndoneVectors, adding.id) /\ ids = Append(UndoneIds, adding.id)
          /\ graph = Append(UndoneGraph, adding.level)
          /\ inserted = adding.id /\ idToNode[adding.id] = New

\* The list that is being pruned.
Pruned(l, n) == phase = "pruning" /\ l = pruning.level /\ n = pruning.node

\* A link is mutual, unless it goes from the new node to one that is still to
\* be linked back, or from the pruned node to one that has been dropped.
LinksInProgress ==
    phase \in {"linking", "pruning"} =>
        \A l \in Levels :
            /\ \A n \in Nodes :
                  /\ Pruned(l, n) \/ Cardinality(links[l][n]) <= Limit(l)
                  /\ \A m \in links[l][n] :
                        /\ m # n /\ n \in On(l) /\ m \in On(l)
                        /\ \/ n \in links[l][m]
                           \/ n = New /\ <<l, m>> \in todo
                           \/ Pruned(l, n) /\ m \notin pruning.keep \union pruning.drop
            /\ \A n \in Nodes : <<l, n>> \in todo =>
                  n <= saved.count /\ (Pruned(l, n) \/ n \in links[l][New])

\* The pruned node is linked from what it keeps and from what it has still to
\* drop, and its list has been copied.
PruningInProgress ==
    phase = "pruning" =>
        /\ pruning.node \in 1..saved.count
        /\ <<pruning.level, pruning.node>> \in DOMAIN backups
        /\ pruning.keep \intersect pruning.drop = {}
        /\ pruning.keep \union pruning.drop \subseteq links[pruning.level][pruning.node]
        /\ Cardinality(pruning.keep) <= Limit(pruning.level)
        /\ \A m \in Nodes :
              pruning.node \in links[pruning.level][m] <=> m \in pruning.keep \union pruning.drop

\* The inductive invariant.
IInv == /\ TypeOK
        /\ RebuildCounts
        /\ IdleIsSound
        /\ UndoneIsBefore
        /\ TablesInProgress
        /\ LinksInProgress
        /\ PruningInProgress

-----------------------------------------------------------------------------
(* Facts about the helpers *)

\* The numbers that the constants give.
LEMMA Sizes ==
  /\ MaxNodes \in Nat /\ MaxLevel \in Nat /\ IsFiniteSet(Nodes)
  /\ \A n \in Nodes : n \in Nat /\ n # 0
  /\ \A l \in Levels : l \in Nat /\ Limit(l) \in Nat
  /\ 0 \in Levels
BY ConfigAssumption, FS_Interval DEF Nodes, Levels, Limit

\* What is appended is taken back by cutting the sequence at its old length.
LEMMA CutAppended ==
  ASSUME NEW S, NEW s \in Seq(S), NEW x \in S
  PROVE  SubSeq(Append(s, x), 1, Len(s)) = s /\ SubSeq(s, 1, Len(s)) = s
OBVIOUS

\* A list of links is a finite set.
LEMMA FiniteLinks ==
  ASSUME NEW S \in SUBSET Nodes
  PROVE  IsFiniteSet(S) /\ Cardinality(S) \in Nat /\ \A R \in SUBSET S : Cardinality(R) <= Cardinality(S)
<1>1. IsFiniteSet(S)
  BY Sizes, FS_Subset
<1> QED BY <1>1, FS_Subset, FS_CardinalityType

\* The invariant has what a search, a file and a rebuild rely on.
LEMMA SoundIndex == IInv => IndexIsSound
<1> SUFFICES ASSUME IInv PROVE IndexIsSound
  OBVIOUS
<1>1. TablesAgree
  BY DEF IInv, IdleIsSound, SoundTables, TablesAgree
<1>2. LinksAreMutual
  BY DEF IInv, IdleIsSound, SoundLinks, LinksAreMutual, On, Present
<1>3. LiveIds = Live(ids, deleted)
  BY DEF LiveIds, Live
<1>4. ASSUME phase = "idle", rebuild.state = "running", rebuild.left = {} PROVE Verified
  <2>1. LiveIds = rebuild.live /\ deletedCount = 0 /\ Cardinality(rebuild.live) = rebuild.count
    BY <1>3, <1>4 DEF IInv, IdleIsSound, RebuildCounts
  <2>2. Cardinality(LiveIds) + deletedCount = Len(ids)
    BY <1>3, <1>4 DEF IInv, IdleIsSound, SoundTables
  <2> QED BY <2>1, <2>2 DEF Verified, IInv, TypeOK
<1>5. ASSUME rebuild.state = "running" PROVE LiveIds \subseteq rebuild.live \ rebuild.left
  <2>1. CASE phase = "idle"
    BY <1>3, <1>5, <2>1 DEF IInv, IdleIsSound
  <2>2. CASE phase # "idle"
    <3>1. ids \in {UndoneIds, Append(UndoneIds, adding.id)}
      BY <2>2 DEF IInv, TypeOK, TablesInProgress
    <3>2. UndoneIds \in Seq(Ids) /\ adding.id \in Ids
      BY <2>2 DEF IInv, UndoneIsBefore, SoundTables
    <3>3. Live(Append(UndoneIds, adding.id), deleted) \subseteq Live(UndoneIds, deleted) \union {adding.id}
      BY <3>2 DEF Live
    <3>4. /\ Live(UndoneIds, deleted) = rebuild.live \ (rebuild.left \union {adding.id})
          /\ adding.id \in rebuild.live \ rebuild.left
      BY <1>5, <2>2 DEF IInv, UndoneIsBefore
    <3>5. Live(ids, deleted) \subseteq Live(UndoneIds, deleted) \union {adding.id}
      <4>1. CASE ids = UndoneIds
        BY <4>1
      <4>2. CASE ids = Append(UndoneIds, adding.id)
        BY <3>3, <4>2
      <4> QED BY <3>1, <4>1, <4>2
    <3> HIDE DEF Live
    <3> QED BY <1>3, <3>4, <3>5
  <2> QED BY <2>1, <2>2
<1> QED BY <1>1, <1>2, <1>4, <1>5 DEF IndexIsSound, RebuildIsComplete

\* An empty index is sound.
LEMMA EmptyIsSound ==
  /\ SoundTables(<<>>, <<>>, <<>>, NoNodes, {}, 0, 0, 0)
  /\ SoundLinks(NoLinks, <<>>)
  /\ Live(<<>>, {}) = {}
<1>1. Live(<<>>, {}) = {}
  BY DEF Live
<1>2. SoundTables(<<>>, <<>>, <<>>, NoNodes, {}, 0, 0, 0)
  <2>1. <<>> \in Seq(Ids) /\ <<>> \in Seq(Levels) /\ Len(<<>>) = 0 /\ 1..0 = {}
    OBVIOUS
  <2>2. IsFiniteSet({}) /\ Cardinality({}) = 0
    BY FS_EmptySet
  <2>3. \A i \in Ids : NoNodes[i] = 0
    BY DEF NoNodes
  <2>4. IsFiniteSet(Live(<<>>, {})) /\ Cardinality(Live(<<>>, {})) + 0 = Len(<<>>)
    <3>1. IsFiniteSet(Live(<<>>, {})) /\ Cardinality(Live(<<>>, {})) = 0
      BY <1>1, <2>2, Zenon
    <3>2. \A c : c = 0 => c + 0 = Len(<<>>)
      BY <2>1
    <3> QED BY <3>1, <3>2
  <2>5. Len(<<>>) <= MaxNodes
    BY <2>1, Sizes
  <2>6. \A n \in 1..Len(<<>>) : NoNodes[<<>>[n]] = n
    BY <2>1
  <2> QED BY <2>1, <2>2, <2>3, <2>4, <2>5, <2>6 DEF SoundTables
<1>3. SoundLinks(NoLinks, <<>>)
  BY Sizes, FS_EmptySet DEF SoundLinks, NoLinks
<1> QED BY <1>1, <1>2, <1>3

\* The index starts in the invariant.
LEMMA InitIInv == Init => IInv
<1> SUFFICES ASSUME Init PROVE IInv
  OBVIOUS
<1>1. TypeOK
  BY Sizes DEF Init, TypeOK, NoLinks, NoNodes, NoInsertion, NoPruning, NothingSaved, NoRebuild
<1>2. RebuildCounts /\ UndoneIsBefore /\ TablesInProgress /\ LinksInProgress /\ PruningInProgress
  BY DEF Init, NoRebuild, RebuildCounts, UndoneIsBefore, TablesInProgress, LinksInProgress, PruningInProgress
<1>3. IdleIsSound
  BY EmptyIsSound DEF Init, NoRebuild, IdleIsSound
<1> QED BY <1>1, <1>2, <1>3 DEF IInv

\* Writes that the rollback takes back leave the undone index alone.
LEMMA UndoneFrame ==
  ASSUME UndoneIsBefore, phase # "idle",
         UndoneVectors' = UndoneVectors, UndoneIds' = UndoneIds, UndoneGraph' = UndoneGraph,
         UndoneLinks' = UndoneLinks, UndoneMap' = UndoneMap,
         UNCHANGED <<deleted, deletedCount, saved, before, rebuild>>, adding'.id = adding.id
  PROVE  UndoneIsBefore'
BY DEF UndoneIsBefore

-----------------------------------------------------------------------------
(* The steps of an insertion *)

\* add() begins: the undone index is the index.
LEMMA BeginStep ==
  ASSUME IInv, NEW id \in Ids, Begin(id)
  PROVE  IInv'
<1>0. /\ TypeOK /\ RebuildCounts /\ phase = "idle" /\ phase' = "drawn"
      /\ SoundTables(vectors, ids, graph, idToNode, deleted, deletedCount, entry, maxLevel)
      /\ SoundLinks(links, graph)
      /\ DOMAIN backups = {} /\ inserted = None
      /\ rebuild.state = "running" => Live(ids, deleted) = rebuild.live \ rebuild.left
  BY DEF IInv, IdleIsSound, Begin
<1>1. /\ UNCHANGED <<vectors, ids, graph, links, idToNode, deleted, deletedCount, entry, maxLevel,
                     todo, pruning, backups, inserted>>
      /\ saved' = [count |-> Len(ids), random |-> random, entry |-> entry, maxLevel |-> maxLevel]
      /\ before' = index /\ random' = random + 1
  BY DEF Begin
<1>2. PICK top \in Levels : adding' = [NoInsertion EXCEPT !.id = id, !.level = top]
  BY DEF Begin
<1>3. adding' \in [id : Ids \union {None}, level : Levels, plan : [Levels -> SUBSET Nodes]] /\ adding'.id = id
  BY <1>2 DEF NoInsertion
<1>r. \/ rebuild.state = "none" /\ idToNode[id] = 0 /\ Len(ids) < MaxNodes /\ rebuild' = rebuild
      \/ rebuild.state = "running" /\ id \in rebuild.left /\ rebuild' = [rebuild EXCEPT !.left = @ \ {id}]
  BY DEF Begin
<1>R. /\ rebuild' \in [state : {"none", "running", "failed"},
                      live : SUBSET Ids, left : SUBSET Ids, count : 0..MaxNodes]
      /\ rebuild'.state = rebuild.state /\ rebuild'.live = rebuild.live /\ rebuild'.count = rebuild.count
      /\ rebuild.state = "running" => id \in rebuild.left /\ rebuild'.left = rebuild.left \ {id}
  <2>1. rebuild \in [state : {"none", "running", "failed"},
                     live : SUBSET Ids, left : SUBSET Ids, count : 0..MaxNodes]
    BY <1>0 DEF TypeOK
  <2> QED BY <1>r, <2>1
<1>4. TypeOK'
  <2>1. saved' \in [count : Nat, random : Nat, entry : Nodes \union {0}, maxLevel : Levels]
    BY <1>0, <1>1 DEF TypeOK
  <2> QED BY <1>0, <1>1, <1>3, <1>R, <2>1 DEF TypeOK
<1>5. RebuildCounts'
  BY <1>0, <1>1, <1>R DEF RebuildCounts
<1>6. idToNode[id] = 0 /\ Len(ids) < MaxNodes
  <2>1. CASE rebuild.state = "running" /\ id \in rebuild.left
    <3>1. /\ deleted = {} /\ deletedCount = 0 /\ rebuild.left \subseteq rebuild.live /\ IsFiniteSet(rebuild.live)
          /\ Cardinality(rebuild.live) = rebuild.count /\ rebuild.count <= MaxNodes
          /\ Live(ids, deleted) = rebuild.live \ rebuild.left
      BY <1>0, <2>1 DEF RebuildCounts, TypeOK
    <3>2. idToNode[id] = 0
      BY <1>0, <2>1, <3>1 DEF SoundTables, Live
    <3>3. Live(ids, deleted) \subseteq rebuild.live \ {id} /\ id \in rebuild.live
      BY <2>1, <3>1
    <3>4. IsFiniteSet(rebuild.live \ {id}) /\ Cardinality(rebuild.live \ {id}) = Cardinality(rebuild.live) - 1
      BY <3>1, <3>3, FS_RemoveElement
    <3>5. Cardinality(Live(ids, deleted)) <= Cardinality(rebuild.live \ {id})
      BY <3>3, <3>4, FS_Subset
    <3>6. Cardinality(Live(ids, deleted)) + deletedCount = Len(ids) /\ IsFiniteSet(Live(ids, deleted))
      BY <1>0 DEF SoundTables
    <3>7. Cardinality(Live(ids, deleted)) \in Nat /\ Cardinality(rebuild.live) \in Nat /\ MaxNodes \in Nat
      BY <3>1, <3>6, FS_CardinalityType, Sizes
    <3> QED BY <3>1, <3>2, <3>4, <3>5, <3>6, <3>7
  <2> QED BY <1>r, <2>1
<1>7. /\ UndoneVectors' = vectors /\ UndoneIds' = ids /\ UndoneGraph' = graph /\ UndoneMap' = idToNode
      /\ saved'.count = Len(ids)
  <2>1. Len(vectors) = Len(ids) /\ Len(graph) = Len(ids) /\ saved'.count = Len(ids)
    BY <1>0, <1>1 DEF SoundTables
  <2>2. /\ SubSeq(vectors, 1, Len(vectors)) = vectors /\ SubSeq(ids, 1, Len(ids)) = ids
        /\ SubSeq(graph, 1, Len(graph)) = graph
    BY <1>0 DEF TypeOK
  <2> QED BY <1>0, <1>1, <2>1, <2>2 DEF UndoneVectors, UndoneIds, UndoneGraph, UndoneMap
<1>8. UndoneLinks' = links
  <2>1. \A l \in Levels, n \in Nodes : n > Len(ids) => links[l][n] = {}
    <3> SUFFICES ASSUME NEW l \in Levels, NEW n \in Nodes, n > Len(ids), NEW m \in links[l][n] PROVE FALSE
      OBVIOUS
    <3>1. n \in 1..Len(graph) /\ Len(graph) = Len(ids) /\ Len(ids) \in Nat
      BY <1>0 DEF SoundTables, SoundLinks, Present
    <3> QED BY <3>1
  <2>2. UndoneLinks' = [l \in Levels |-> [n \in Nodes |-> links[l][n]]]
    BY <1>0, <1>1, <1>7, <2>1 DEF UndoneLinks
  <2> QED BY <1>0, <2>2 DEF TypeOK
<1>9. UndoneIsBefore'
  <2>1. saved'.entry = entry /\ saved'.maxLevel = maxLevel /\ saved'.random = random
    BY <1>1
  <2>2. before' = <<vectors, ids, graph, links, idToNode, deleted, deletedCount, entry, maxLevel, random>>
    BY <1>1 DEF index
  <2>3. rebuild'.state = "running" => /\ Live(ids, deleted) = rebuild'.live \ (rebuild'.left \union {id})
                                      /\ id \in rebuild'.live \ rebuild'.left
    BY <1>0, <1>R DEF RebuildCounts
  <2>4. links \in [Levels -> [Nodes -> SUBSET Nodes]] /\ idToNode \in [Ids -> Nodes \union {0}]
    BY <1>0 DEF TypeOK
  <2> QED BY <1>0, <1>1, <1>3, <1>6, <1>7, <1>8, <2>1, <2>2, <2>3, <2>4 DEF UndoneIsBefore
<1>10. TablesInProgress'
  BY <1>0, <1>1, <1>7, <1>8 DEF TablesInProgress
<1>11. IdleIsSound' /\ LinksInProgress' /\ PruningInProgress'
  BY <1>0 DEF IdleIsSound, LinksInProgress, PruningInProgress
<1> QED BY <1>4, <1>5, <1>9, <1>10, <1>11 DEF IInv

\* Store(k) appends up to four tables, all of it undone by cutting them.
LEMMA StoreStep ==
  ASSUME IInv, NEW k \in 0..4, Store(k)
  PROVE  IInv'
<1>0. /\ TypeOK /\ RebuildCounts /\ UndoneIsBefore /\ phase = "drawn" /\ adding.id \in Ids
      /\ saved.count \in Nat /\ saved.count < MaxNodes /\ New \in Nodes /\ New > saved.count
      /\ vectors = UndoneVectors /\ ids = UndoneIds /\ graph = UndoneGraph
      /\ links = UndoneLinks /\ idToNode = UndoneMap
      /\ DOMAIN backups = {} /\ inserted = None /\ entry = saved.entry /\ maxLevel = saved.maxLevel
      /\ SoundTables(vectors, ids, graph, idToNode, deleted, deletedCount, entry, maxLevel)
      /\ SoundLinks(links, graph)
      /\ Len(ids) = saved.count /\ idToNode[adding.id] = 0
  <2>1. phase = "drawn" /\ TypeOK /\ RebuildCounts /\ UndoneIsBefore /\ TablesInProgress
    BY DEF IInv, Store
  <2>2. saved.count \in Nat /\ saved.count < MaxNodes /\ adding.id \in Ids
    BY <2>1 DEF UndoneIsBefore, TypeOK
  <2>3. New \in Nodes /\ New > saved.count
    BY <2>2, Sizes DEF New, Nodes
  <2>4. /\ vectors = UndoneVectors /\ ids = UndoneIds /\ graph = UndoneGraph
        /\ links = UndoneLinks /\ idToNode = UndoneMap
        /\ DOMAIN backups = {} /\ inserted = None /\ entry = saved.entry /\ maxLevel = saved.maxLevel
    BY <2>1 DEF TablesInProgress
  <2>5. /\ SoundTables(UndoneVectors, UndoneIds, UndoneGraph, UndoneMap, deleted, deletedCount,
                       saved.entry, saved.maxLevel)
        /\ SoundLinks(UndoneLinks, UndoneGraph)
        /\ Len(UndoneIds) = saved.count /\ UndoneMap[adding.id] = 0
    BY <2>1 DEF UndoneIsBefore
  <2> QED BY <2>1, <2>2, <2>3, <2>4, <2>5
<1>1. /\ UNCHANGED <<deleted, deletedCount, entry, maxLevel, random, pruning, saved, backups, before, rebuild>>
      /\ vectors' = IF k >= 1 THEN Append(vectors, adding.id) ELSE vectors
      /\ ids' = IF k >= 2 THEN Append(ids, adding.id) ELSE ids
      /\ graph' = IF k >= 3 THEN Append(graph, adding.level) ELSE graph
      /\ idToNode' = IF k >= 4 THEN [idToNode EXCEPT ![adding.id] = New] ELSE idToNode
      /\ inserted' = IF k >= 4 THEN adding.id ELSE None
      /\ phase' = IF k >= 4 THEN "linking" ELSE "stored"
  BY DEF Store
<1>2. PICK plan \in [Levels -> SUBSET Nodes] :
         /\ \A l \in Levels : IF graph # <<>> /\ l <= Smaller(adding.level, maxLevel)
                              THEN plan[l] \in Selections(l)
                              ELSE plan[l] = {}
         /\ adding' = [adding EXCEPT !.plan = plan]
         /\ links' = IF k >= 3 THEN [l \in Levels |-> [links[l] EXCEPT ![New] = plan[l]]] ELSE links
         /\ todo' = {x \in Levels \X Nodes : x[2] \in plan[x[1]]}
  BY DEF Store
<1>3. /\ adding' \in [id : Ids \union {None}, level : Levels, plan : [Levels -> SUBSET Nodes]]
      /\ adding'.id = adding.id /\ adding'.level = adding.level /\ adding.level \in Levels
  BY <1>0, <1>2 DEF TypeOK
<1>4. TypeOK'
  <2>1. vectors' \in Seq(Ids) /\ ids' \in Seq(Ids) /\ graph' \in Seq(Levels)
    BY <1>0, <1>1, <1>3 DEF TypeOK
  <2>2. links' \in [Levels -> [Nodes -> SUBSET Nodes]]
    BY <1>0, <1>2 DEF TypeOK
  <2>3. idToNode' \in [Ids -> Nodes \union {0}] /\ inserted' \in Ids \union {None}
    BY <1>0, <1>1 DEF TypeOK
  <2>4. todo' \subseteq Levels \X Nodes
    BY <1>2
  <2>5. phase' \in {"idle", "drawn", "stored", "linking", "pruning"}
    BY <1>1
  <2> QED BY <1>0, <1>1, <1>3, <2>1, <2>2, <2>3, <2>4, <2>5 DEF TypeOK
<1>5. UndoneVectors' = UndoneVectors /\ UndoneIds' = UndoneIds /\ UndoneGraph' = UndoneGraph
  <2>1. /\ vectors \in Seq(Ids) /\ Len(vectors) = saved.count /\ ids \in Seq(Ids) /\ Len(ids) = saved.count
        /\ graph \in Seq(Levels) /\ Len(graph) = saved.count
    BY <1>0 DEF SoundTables
  <2>2. UndoneVectors' = vectors
    BY <1>0, <1>1, <2>1, CutAppended DEF UndoneVectors
  <2>3. UndoneIds' = ids
    BY <1>0, <1>1, <2>1, CutAppended DEF UndoneIds
  <2>4. UndoneGraph' = graph
    BY <1>0, <1>1, <1>3, <2>1, CutAppended DEF UndoneGraph
  <2> QED BY <1>0, <2>2, <2>3, <2>4
<1>6. UndoneLinks' = UndoneLinks
  <2>1. \A l \in Levels, n \in Nodes : n <= saved.count => links'[l][n] = links[l][n]
    <3> SUFFICES ASSUME NEW l \in Levels, NEW n \in Nodes, n <= saved.count PROVE links'[l][n] = links[l][n]
      OBVIOUS
    <3>1. n # New
      BY <1>0, Sizes
    <3>2. links \in [Levels -> [Nodes -> SUBSET Nodes]]
      BY <1>0 DEF TypeOK
    <3> QED BY <1>2, <3>1, <3>2
  <2>2. \A n \in Nodes : n > saved.count \/ n <= saved.count
    BY <1>0, Sizes
  <2> QED BY <1>0, <1>1, <2>1, <2>2 DEF UndoneLinks
<1>7. UndoneMap' = UndoneMap
  <2>1. CASE k >= 4
    <3>1. UndoneMap' = [[idToNode EXCEPT ![adding.id] = New] EXCEPT ![adding.id] = 0]
      BY <1>0, <1>1, <2>1, IdsAssumption DEF UndoneMap
    <3> QED BY <1>0, <3>1 DEF TypeOK
  <2>2. CASE ~(k >= 4)
    BY <1>0, <1>1, <2>2 DEF UndoneMap
  <2> QED BY <2>1, <2>2
<1>8. UndoneIsBefore'
  BY <1>0, <1>1, <1>3, <1>5, <1>6, <1>7, UndoneFrame
<1>9. RebuildCounts' /\ IdleIsSound' /\ PruningInProgress'
  BY <1>0, <1>1 DEF RebuildCounts, IdleIsSound, PruningInProgress
<1>10. TablesInProgress'
  <2>1. CASE k >= 4
    <3>1. idToNode'[adding.id] = New /\ New' = New
      BY <1>0, <1>1, <2>1 DEF New, TypeOK
    <3>2. phase' = "linking" /\ inserted' = adding.id
      BY <1>1, <2>1
    <3>3. /\ vectors' = Append(UndoneVectors, adding.id) /\ ids' = Append(UndoneIds, adding.id)
          /\ graph' = Append(UndoneGraph, adding.level)
      BY <1>0, <1>1, <2>1
    <3> QED BY <1>0, <1>1, <1>3, <1>5, <3>1, <3>2, <3>3 DEF TablesInProgress
  <2>2. CASE ~(k >= 4)
    BY <1>0, <1>1, <1>3, <1>5, <2>2 DEF TablesInProgress
  <2> QED BY <2>1, <2>2
<1>11. LinksInProgress'
  <2> SUFFICES ASSUME k = 4 PROVE LinksInProgress'
    BY <1>1 DEF LinksInProgress
  <2>1. New' = New /\ saved' = saved /\ phase' = "linking"
    BY <1>1 DEF New
  <2>2. /\ graph \in Seq(Levels) /\ Len(graph) = saved.count /\ graph' = Append(graph, adding.level)
    BY <1>0, <1>1 DEF SoundTables
  <2>3. /\ Len(graph') = New /\ graph'[New] = adding.level
        /\ \A n \in 1..saved.count : graph'[n] = graph[n]
    BY <1>3, <2>2 DEF New
  <2>4. ASSUME NEW l \in Levels, NEW m \in plan[l]
        PROVE  m \in On(l) /\ m \in On(l)' /\ New \in On(l)' /\ m <= saved.count /\ m # New /\ m \in Nodes
    <3>1. l <= Smaller(adding.level, maxLevel) /\ plan[l] \in Selections(l) /\ m \in Nodes
      BY <1>2, <2>4
    <3>2. m \in 1..saved.count /\ graph[m] >= l
      BY <2>2, <2>4, <3>1 DEF Selections, On
    <3>3. adding.level >= l
      <4>1. adding.level \in Nat /\ maxLevel \in Nat /\ l \in Nat
        BY <1>0, <1>3, Sizes DEF TypeOK
      <4> QED BY <3>1, <4>1 DEF Smaller
    <3> QED BY <1>0, <2>2, <2>3, <3>1, <3>2, <3>3 DEF On, New
  <2>5. \A l \in Levels : plan[l] \subseteq Nodes /\ Cardinality(plan[l]) <= Limit(l)
    <3> SUFFICES ASSUME NEW l \in Levels PROVE plan[l] \subseteq Nodes /\ Cardinality(plan[l]) <= Limit(l)
      OBVIOUS
    <3>1. CASE plan[l] \in Selections(l)
      BY <3>1 DEF Selections
    <3>2. CASE plan[l] = {}
      BY <3>2, Sizes, FS_EmptySet
    <3> QED BY <1>2, <3>1, <3>2
  <2>6. \A l \in Levels, n \in Nodes : links'[l][n] = IF n = New THEN plan[l] ELSE links[l][n]
    BY <1>0, <1>2 DEF TypeOK
  <2>7. \A l \in Levels, n \in Nodes : <<l, n>> \in todo' <=> n \in plan[l]
    BY <1>2
  <2>8. ASSUME NEW l \in Levels, NEW n \in Nodes, n # New, NEW m \in links[l][n]
        PROVE  m # n /\ n \in On(l)' /\ m \in On(l)' /\ n \in links[l][m] /\ m # New /\ m \in Nodes
    <3>1. m # n /\ n \in Present(graph, l) /\ m \in Present(graph, l) /\ n \in links[l][m] /\ m \in Nodes
      BY <1>0, <2>8 DEF SoundLinks, TypeOK
    <3> QED BY <1>0, <2>2, <2>3, <3>1 DEF Present, On, New
  <2>9. \A l \in Levels, n \in Nodes : Cardinality(links'[l][n]) <= Limit(l)
    BY <1>0, <2>5, <2>6 DEF SoundLinks
  <2>10. ASSUME NEW l \in Levels, NEW n \in Nodes, NEW m \in links'[l][n]
         PROVE  /\ m # n /\ n \in On(l)' /\ m \in On(l)'
                /\ n \in links'[l][m] \/ (n = New /\ <<l, m>> \in todo')
    <3>1. CASE n = New
      BY <2>4, <2>6, <2>7, <2>10, <3>1
    <3>2. CASE n # New
      BY <2>6, <2>8, <2>10, <3>2
    <3> QED BY <3>1, <3>2
  <2>11. ASSUME NEW l \in Levels, NEW n \in Nodes, <<l, n>> \in todo'
         PROVE  n <= saved.count /\ n \in links'[l][New]
    BY <1>0, <2>4, <2>6, <2>7, <2>11
  <2> QED BY <2>1, <2>9, <2>10, <2>11 DEF LinksInProgress, Pruned
<1> QED BY <1>4, <1>8, <1>9, <1>10, <1>11 DEF IInv

\* A write to a list that is remembered first changes nothing for the rollback.
LEMMA Remembered ==
  ASSUME TypeOK, NEW l \in Levels, NEW n \in Nodes, NEW S,
         backups' = Remember(n, l), links' = [links EXCEPT ![l][n] = S], saved' = saved
  PROVE  /\ UndoneLinks' = UndoneLinks
         /\ DOMAIN backups \subseteq DOMAIN backups' /\ DOMAIN backups' \subseteq Levels \X Nodes
         /\ n <= saved.count => <<l, n>> \in DOMAIN backups'
<1>1. saved.count \in Nat /\ n \in Nat /\ DOMAIN backups \subseteq Levels \X Nodes
  BY Sizes DEF TypeOK
<1>2. \A k \in Levels, m \in Nodes : <<k, m>> # <<l, n>> => links'[k][m] = links[k][m]
  BY DEF TypeOK
<1>3. CASE n > saved.count \/ <<l, n>> \in DOMAIN backups
  <2>1. backups' = backups
    BY <1>3 DEF Remember
  <2>2. ASSUME NEW k \in Levels, NEW m \in Nodes
        PROVE  m > saved.count \/ <<k, m>> \in DOMAIN backups \/ links'[k][m] = links[k][m]
    BY <1>2, <1>3
  <2>3. UndoneLinks' = UndoneLinks
    BY <2>1, <2>2 DEF UndoneLinks
  <2> QED BY <1>1, <1>3, <2>1, <2>3
<1>4. CASE ~(n > saved.count \/ <<l, n>> \in DOMAIN backups)
  <2>1. backups' = [x \in DOMAIN backups \union {<<l, n>>} |-> IF x = <<l, n>> THEN links[l][n] ELSE backups[x]]
    BY <1>4 DEF Remember
  <2>2. /\ DOMAIN backups' = DOMAIN backups \union {<<l, n>>} /\ backups'[<<l, n>>] = links[l][n]
        /\ \A x \in DOMAIN backups : backups'[x] = backups[x]
    BY <1>4, <2>1
  <2>3. ASSUME NEW k \in Levels, NEW m \in Nodes
        PROVE  (IF m > saved.count THEN {}
                ELSE IF <<k, m>> \in DOMAIN backups' THEN backups'[<<k, m>>] ELSE links'[k][m])
               = (IF m > saved.count THEN {}
                  ELSE IF <<k, m>> \in DOMAIN backups THEN backups[<<k, m>>] ELSE links[k][m])
    <3>1. CASE <<k, m>> = <<l, n>>
      BY <1>4, <2>2, <3>1
    <3>2. CASE <<k, m>> # <<l, n>>
      BY <1>2, <2>2, <3>2
    <3> QED BY <3>1, <3>2
  <2>4. UndoneLinks' = UndoneLinks
    BY <2>3 DEF UndoneLinks
  <2> QED BY <1>1, <2>2, <2>4
<1> QED BY <1>3, <1>4

\* The steps that change lists only.
LEMMA ListStep ==
  ASSUME IInv, phase \in {"linking", "pruning"}, phase' \in {"linking", "pruning"},
         UNCHANGED <<vectors, ids, graph, idToNode, deleted, deletedCount, entry, maxLevel, random,
                     adding, saved, inserted, before, rebuild>>,
         UndoneLinks' = UndoneLinks
  PROVE  RebuildCounts' /\ IdleIsSound' /\ UndoneIsBefore' /\ TablesInProgress'
<1>1. /\ UndoneVectors' = UndoneVectors /\ UndoneIds' = UndoneIds /\ UndoneGraph' = UndoneGraph
      /\ UndoneMap' = UndoneMap /\ New' = New
  BY DEF UndoneVectors, UndoneIds, UndoneGraph, UndoneMap, New
<1>2. UndoneIsBefore'
  BY <1>1, UndoneFrame DEF IInv
<1> QED BY <1>1, <1>2 DEF IInv, RebuildCounts, IdleIsSound, TablesInProgress

\* What is known while the lists change.
LEMMA Linking ==
  ASSUME IInv, phase \in {"linking", "pruning"}
  PROVE  /\ saved.count \in Nat /\ New \in Nodes /\ New = saved.count + 1
         /\ \A l \in Levels, n \in Nodes :
               links[l][n] \in SUBSET Nodes /\ IsFiniteSet(links[l][n]) /\ Cardinality(links[l][n]) \in Nat
         /\ \A l \in Levels, n \in Nodes : <<l, n>> \in todo => n <= saved.count /\ n # New
<1>1. saved.count \in Nat /\ saved.count < MaxNodes
  BY DEF IInv, TypeOK, UndoneIsBefore
<1>2. New \in Nodes /\ New = saved.count + 1
  BY <1>1, Sizes DEF New, Nodes
<1>3. \A l \in Levels, n \in Nodes : links[l][n] \in SUBSET Nodes
  BY DEF IInv, TypeOK
<1>4. \A l \in Levels, n \in Nodes : <<l, n>> \in todo => n <= saved.count /\ n # New
  BY <1>1, <1>2, Sizes DEF IInv, LinksInProgress
<1> QED BY <1>1, <1>2, <1>3, <1>4, FiniteLinks

\* A neighbour is linked back; a list that is too long is to be pruned.
LEMMA LinkBackStep ==
  ASSUME IInv, NEW l \in Levels, NEW n \in Nodes, LinkBack(l, n)
  PROVE  IInv'
<1> DEFINE longer == links[l][n] \union {New}
<1>0. /\ TypeOK /\ phase = "linking" /\ <<l, n>> \in todo /\ backups' = Remember(n, l)
      /\ links' = [links EXCEPT ![l][n] = longer]
      /\ UNCHANGED <<vectors, ids, graph, idToNode, deleted, deletedCount, entry, maxLevel, random,
                     adding, saved, inserted, before, rebuild>>
  BY DEF IInv, LinkBack
<1>1. \/ /\ WithinLimit(longer, l) /\ todo' = todo \ {<<l, n>>}
         /\ phase' = "linking" /\ pruning' = pruning
      \/ /\ ~WithinLimit(longer, l) /\ phase' = "pruning" /\ todo' = todo
         /\ \E keep \in SUBSET longer :
               /\ Cardinality(keep) = Limit(l)
               /\ pruning' = [level |-> l, node |-> n, keep |-> keep, drop |-> longer \ keep]
  BY <1>0 DEF LinkBack
<1>2. /\ saved.count \in Nat /\ New \in Nodes /\ New = saved.count + 1 /\ n <= saved.count /\ n # New
      /\ links[l][n] \in SUBSET Nodes /\ longer \in SUBSET Nodes
  BY <1>0, Linking
<1>3. \A k \in Levels, m \in Nodes : links'[k][m] = IF k = l /\ m = n THEN longer ELSE links[k][m]
  BY <1>0 DEF TypeOK
<1>4. links' \in [Levels -> [Nodes -> SUBSET Nodes]]
  BY <1>0, <1>2 DEF TypeOK
<1>5. /\ UndoneLinks' = UndoneLinks /\ DOMAIN backups' \subseteq Levels \X Nodes
      /\ <<l, n>> \in DOMAIN backups'
  BY <1>0, <1>2, Remembered
<1>6. RebuildCounts' /\ IdleIsSound' /\ UndoneIsBefore' /\ TablesInProgress'
  BY <1>0, <1>1, <1>5, ListStep
<1>7. TypeOK'
  <2>1. pruning' \in [level : Levels, node : Nodes \union {0}, keep : SUBSET Nodes, drop : SUBSET Nodes]
    <3>1. CASE pruning' = pruning
      BY <1>0, <3>1 DEF TypeOK
    <3>2. ASSUME NEW keep \in SUBSET longer,
                 pruning' = [level |-> l, node |-> n, keep |-> keep, drop |-> longer \ keep]
          PROVE  pruning' \in [level : Levels, node : Nodes \union {0}, keep : SUBSET Nodes, drop : SUBSET Nodes]
      <4>1. keep \in SUBSET Nodes /\ longer \ keep \in SUBSET Nodes
        BY <1>2
      <4> QED BY <3>2, <4>1
    <3> QED BY <1>1, <3>1, <3>2
  <2>2. todo' \subseteq Levels \X Nodes /\ phase' \in {"idle", "drawn", "stored", "linking", "pruning"}
    BY <1>0, <1>1 DEF TypeOK
  <2> QED BY <1>0, <1>4, <1>5, <2>1, <2>2 DEF TypeOK
<1> HIDE DEF longer
<1>8. New' = New /\ (\A k \in Levels : On(k)' = On(k)) /\ saved' = saved
  BY <1>0 DEF New, On
<1>9. ASSUME NEW k \in Levels, NEW a \in Nodes, NEW b \in links[k][a]
      PROVE  /\ b # a /\ a \in On(k) /\ b \in On(k) /\ b \in Nodes
             /\ a \in links[k][b] \/ (a = New /\ <<k, b>> \in todo)
  BY <1>0, <1>9 DEF IInv, LinksInProgress, Pruned, TypeOK
<1>10. n \in links[l][New] /\ New \in On(l) /\ n \in On(l)
  <2>1. n \in links[l][New]
    BY <1>0 DEF IInv, LinksInProgress, Pruned
  <2> QED BY <1>2, <1>9, <2>1
<1>11. ASSUME NEW k \in Levels, NEW a \in Nodes, NEW b \in links'[k][a]
       PROVE  /\ b # a /\ a \in On(k) /\ b \in On(k) /\ b \in Nodes
              /\ a \in links'[k][b] \/ (a = New /\ <<k, b>> \in todo /\ <<k, b>> # <<l, n>>)
  <2>1. CASE k = l /\ a = n
    <3>1. b \in links[l][n] \/ b = New
      BY <1>3, <1>11, <2>1 DEF longer
    <3>2. CASE b = New
      BY <1>2, <1>3, <1>10, <2>1, <3>2
    <3>3. CASE b \in links[l][n]
      <4>1. b # n /\ n \in On(l) /\ b \in On(l) /\ b \in Nodes /\ n \in links[l][b]
        BY <1>2, <1>9, <3>3
      <4> QED BY <1>3, <2>1, <4>1
    <3> QED BY <3>1, <3>2, <3>3
  <2>2. CASE ~(k = l /\ a = n)
    <3>1. b \in links[k][a]
      BY <1>3, <1>11, <2>2
    <3>2. /\ b # a /\ a \in On(k) /\ b \in On(k) /\ b \in Nodes
          /\ a \in links[k][b] \/ (a = New /\ <<k, b>> \in todo)
      BY <1>9, <3>1
    <3>3. CASE k = l /\ b = n
      <4>1. a \in longer
        BY <1>2, <3>2, <3>3 DEF longer
      <4> QED BY <1>3, <3>2, <3>3, <4>1
    <3>4. CASE ~(k = l /\ b = n)
      <4>1. links'[k][b] = links[k][b]
        BY <1>3, <3>2, <3>4
      <4> QED BY <3>2, <3>4, <4>1
    <3> QED BY <3>3, <3>4
  <2> QED BY <2>1, <2>2
<1>12. \A k \in Levels, a \in Nodes : ~(k = l /\ a = n) => Cardinality(links'[k][a]) <= Limit(k)
  BY <1>0, <1>3 DEF IInv, LinksInProgress, Pruned
<1>13. ASSUME NEW k \in Levels, NEW a \in Nodes, <<k, a>> \in todo
       PROVE  a <= saved.count /\ a \in links'[k][New]
  <2>1. a <= saved.count /\ a \in links[k][New]
    BY <1>0, <1>13 DEF IInv, LinksInProgress, Pruned
  <2> QED BY <1>2, <1>3, <2>1
<1>14. CASE WithinLimit(longer, l)
  <2>1. todo' = todo \ {<<l, n>>} /\ phase' = "linking"
    BY <1>1, <1>14
  <2>2. \A k \in Levels, a \in Nodes : Cardinality(links'[k][a]) <= Limit(k)
    BY <1>3, <1>12, <1>14 DEF WithinLimit
  <2>3. LinksInProgress'
    BY <1>8, <1>11, <1>13, <2>1, <2>2 DEF LinksInProgress
  <2>4. PruningInProgress'
    BY <2>1 DEF PruningInProgress
  <2> QED BY <1>6, <1>7, <2>3, <2>4 DEF IInv
<1>15. CASE ~WithinLimit(longer, l)
  <2>1. PICK keep \in SUBSET longer :
           /\ Cardinality(keep) = Limit(l)
           /\ pruning' = [level |-> l, node |-> n, keep |-> keep, drop |-> longer \ keep]
    BY <1>1, <1>15
  <2>2. todo' = todo /\ phase' = "pruning"
    BY <1>1, <1>15
  <2>3. /\ pruning'.level = l /\ pruning'.node = n /\ pruning'.keep = keep
        /\ pruning'.keep \union pruning'.drop = longer /\ pruning'.keep \intersect pruning'.drop = {}
    BY <2>1
  <2>4. \A k \in Levels, a \in Nodes : Pruned(k, a)' <=> k = l /\ a = n
    BY <2>2, <2>3 DEF Pruned
  <2>5. LinksInProgress'
    BY <1>8, <1>11, <1>12, <1>13, <2>2, <2>4 DEF LinksInProgress
  <2>6. \A m \in Nodes : n \in links'[l][m] <=> m \in longer
    <3> SUFFICES ASSUME NEW m \in Nodes PROVE n \in links'[l][m] <=> m \in longer
      OBVIOUS
    <3>1. links'[l][n] = longer
      BY <1>3
    <3>2. ASSUME n \in links'[l][m] PROVE m \in longer
      <4>1. m \in links'[l][n]
        BY <1>11, <3>2
      <4> QED BY <3>1, <4>1
    <3>3. ASSUME m \in longer PROVE n \in links'[l][m]
      BY <1>2, <1>11, <3>1, <3>3
    <3> QED BY <3>2, <3>3
  <2>7. PruningInProgress'
    <3>1. n \in 1..saved'.count
      BY <1>2, <1>8, Sizes
    <3>2. links'[l][n] = longer
      BY <1>3
    <3>3. Limit(l) <= Limit(l)
      BY Sizes
    <3> QED BY <1>5, <2>1, <2>2, <2>3, <2>6, <3>1, <3>2, <3>3 DEF PruningInProgress
  <2> QED BY <1>6, <1>7, <2>5, <2>7 DEF IInv
<1> QED BY <1>14, <1>15

\* A dropped neighbour loses its link back.
LEMMA UnlinkStep ==
  ASSUME IInv, NEW d \in Nodes, Unlink(d)
  PROVE  IInv'
<1> DEFINE l == pruning.level
           p == pruning.node
           keep == pruning.keep
           drop == pruning.drop
<1>0. /\ TypeOK /\ phase = "pruning" /\ d \in drop /\ backups' = Remember(d, l)
      /\ pruning' = [pruning EXCEPT !.drop = @ \ {d}]
      /\ UNCHANGED <<vectors, ids, graph, idToNode, deleted, deletedCount, entry, maxLevel, random,
                     phase, adding, todo, saved, inserted, before, rebuild>>
  BY DEF IInv, Unlink
<1>1. links' = [links EXCEPT ![l][d] = links[l][d] \ {p}]
  BY DEF Unlink, DropReverse
<1>2. /\ saved.count \in Nat /\ New \in Nodes /\ New = saved.count + 1
      /\ l \in Levels /\ p \in Nodes /\ p <= saved.count /\ p # New /\ links[l][d] \in SUBSET Nodes
  <2>1. p \in 1..saved.count
    BY <1>0 DEF IInv, PruningInProgress
  <2>2. l \in Levels /\ p \in Nodes \union {0}
    BY <1>0 DEF TypeOK
  <2> QED BY <1>0, <2>1, <2>2, Linking
<1>3. \A k \in Levels, m \in Nodes : links'[k][m] = IF k = l /\ m = d THEN links[l][d] \ {p} ELSE links[k][m]
  BY <1>0, <1>1, <1>2 DEF TypeOK
<1>4. links' \in [Levels -> [Nodes -> SUBSET Nodes]]
  BY <1>0, <1>1, <1>2 DEF TypeOK
<1>5. /\ UndoneLinks' = UndoneLinks /\ DOMAIN backups' \subseteq Levels \X Nodes
      /\ DOMAIN backups \subseteq DOMAIN backups'
  BY <1>0, <1>1, <1>2, Remembered
<1>6. RebuildCounts' /\ IdleIsSound' /\ UndoneIsBefore' /\ TablesInProgress'
  BY <1>0, <1>5, ListStep
<1>7. /\ pruning' \in [level : Levels, node : Nodes \union {0}, keep : SUBSET Nodes, drop : SUBSET Nodes]
      /\ pruning'.level = l /\ pruning'.node = p /\ pruning'.keep = keep /\ pruning'.drop = drop \ {d}
  BY <1>0 DEF TypeOK
<1>8. TypeOK'
  BY <1>0, <1>4, <1>5, <1>7 DEF TypeOK
<1>9. New' = New /\ (\A k \in Levels : On(k)' = On(k)) /\ \A k, a : Pruned(k, a)' <=> Pruned(k, a)
  BY <1>0, <1>7 DEF New, On, Pruned
<1>10. /\ <<l, p>> \in DOMAIN backups /\ keep \intersect drop = {} /\ keep \union drop \subseteq links[l][p]
       /\ Cardinality(keep) <= Limit(l)
       /\ \A m \in Nodes : p \in links[l][m] <=> m \in keep \union drop
  BY <1>0 DEF IInv, PruningInProgress
<1>p. \A k, a : Pruned(k, a) <=> k = l /\ a = p
  BY <1>0 DEF Pruned
<1>11. ASSUME NEW k \in Levels, NEW a \in Nodes, NEW b \in links[k][a]
       PROVE  /\ b # a /\ a \in On(k) /\ b \in On(k) /\ b \in Nodes
              /\ \/ a \in links[k][b]
                 \/ a = New /\ <<k, b>> \in todo
                 \/ k = l /\ a = p /\ b \notin keep \union drop
  BY <1>0, <1>p, <1>11 DEF IInv, LinksInProgress, TypeOK
<1> HIDE DEF l, p, keep, drop
<1>12. d # p
  BY <1>0, <1>2, <1>10, <1>11
<1>13. ASSUME NEW k \in Levels, NEW a \in Nodes, NEW b \in links'[k][a]
       PROVE  /\ b # a /\ a \in On(k) /\ b \in On(k)
              /\ \/ a \in links'[k][b]
                 \/ a = New /\ <<k, b>> \in todo
                 \/ k = l /\ a = p /\ b \notin keep \union (drop \ {d})
  <2>1. b \in links[k][a]
    BY <1>3, <1>13
  <2>2. /\ b # a /\ a \in On(k) /\ b \in On(k) /\ b \in Nodes
        /\ \/ a \in links[k][b]
           \/ a = New /\ <<k, b>> \in todo
           \/ k = l /\ a = p /\ b \notin keep \union drop
    BY <1>11, <2>1
  <2>3. CASE k = l /\ b = d /\ a = p
    BY <1>0, <1>10, <2>2, <2>3
  <2>4. CASE ~(k = l /\ b = d /\ a = p)
    <3>1. a \in links[k][b] => a \in links'[k][b]
      BY <1>3, <2>2, <2>4
    <3> QED BY <2>2, <3>1
  <2> QED BY <2>3, <2>4
<1>14. ASSUME NEW k \in Levels, NEW a \in Nodes, ~(k = l /\ a = p) PROVE Cardinality(links'[k][a]) <= Limit(k)
  <2>1. Cardinality(links[k][a]) <= Limit(k)
    BY <1>0, <1>p, <1>14 DEF IInv, LinksInProgress
  <2>2. links'[k][a] \in SUBSET links[k][a] /\ links[k][a] \in SUBSET Nodes
    <3>1. links'[k][a] \subseteq links[k][a]
      BY <1>3
    <3>2. links \in [Levels -> [Nodes -> SUBSET Nodes]]
      BY <1>0 DEF TypeOK
    <3> QED BY <3>1, <3>2
  <2>3. /\ Cardinality(links'[k][a]) <= Cardinality(links[k][a])
        /\ Cardinality(links'[k][a]) \in Nat /\ Cardinality(links[k][a]) \in Nat /\ Limit(k) \in Nat
    <3>1. links'[k][a] \in SUBSET Nodes
      BY <2>2
    <3> QED BY <2>2, <3>1, FiniteLinks, Sizes
  <2> QED BY <2>1, <2>3
<1>15. ASSUME NEW k \in Levels, NEW a \in Nodes, <<k, a>> \in todo
       PROVE  a <= saved.count /\ ((k = l /\ a = p) \/ a \in links'[k][New])
  <2>1. a <= saved.count /\ ((k = l /\ a = p) \/ a \in links[k][New])
    BY <1>0, <1>p, <1>15 DEF IInv, LinksInProgress
  <2> QED BY <1>2, <1>3, <2>1
<1>16. LinksInProgress'
  <2>1. saved' = saved /\ todo' = todo /\ phase' = "pruning" /\ pruning'.keep = keep /\ pruning'.drop = drop \ {d}
    BY <1>0, <1>7 DEF l, p, keep, drop
  <2> QED BY <1>9, <1>p, <1>13, <1>14, <1>15, <2>1 DEF LinksInProgress
<1>17. PruningInProgress'
  <2>1. /\ pruning'.level = l /\ pruning'.node = p /\ pruning'.keep = keep /\ pruning'.drop = drop \ {d}
        /\ saved' = saved
    BY <1>0, <1>7 DEF l, p, keep, drop
  <2>2. links'[l][p] = links[l][p]
    BY <1>2, <1>3, <1>12
  <2>3. \A m \in Nodes : p \in links'[l][m] <=> m \in keep \union (drop \ {d})
    BY <1>0, <1>2, <1>3, <1>10 DEF drop
  <2>4. p \in 1..saved.count
    BY <1>0 DEF IInv, PruningInProgress, p
  <2> QED BY <1>5, <1>10, <2>1, <2>2, <2>3, <2>4 DEF PruningInProgress
<1> QED BY <1>6, <1>8, <1>16, <1>17 DEF IInv

\* The pruned list becomes what was kept.
LEMMA EndPruningStep ==
  ASSUME IInv, EndPruning
  PROVE  IInv'
<1> DEFINE l == pruning.level
           p == pruning.node
           keep == pruning.keep
<1>0. /\ TypeOK /\ phase = "pruning" /\ phase' = "linking" /\ pruning.drop = {}
      /\ links' = [links EXCEPT ![l][p] = keep]
      /\ todo' = todo \ {<<l, p>>} /\ pruning' = NoPruning
      /\ UNCHANGED <<vectors, ids, graph, idToNode, deleted, deletedCount, entry, maxLevel, random,
                     adding, saved, backups, inserted, before, rebuild>>
  BY DEF IInv, EndPruning
<1>1. /\ <<l, p>> \in DOMAIN backups /\ keep \subseteq links[l][p] /\ Cardinality(keep) <= Limit(l)
      /\ \A m \in Nodes : p \in links[l][m] <=> m \in keep
      /\ p \in 1..saved.count
  BY <1>0 DEF IInv, PruningInProgress
<1>2. /\ saved.count \in Nat /\ New \in Nodes /\ New = saved.count + 1
      /\ l \in Levels /\ p \in Nodes /\ p # New /\ keep \in SUBSET Nodes
  <2>1. l \in Levels /\ p \in Nodes \union {0} /\ keep \in SUBSET Nodes
    BY <1>0 DEF TypeOK
  <2> QED BY <1>0, <1>1, <2>1, Linking
<1>3. \A k \in Levels, m \in Nodes : links'[k][m] = IF k = l /\ m = p THEN keep ELSE links[k][m]
  BY <1>0, <1>2 DEF TypeOK
<1>4. links' \in [Levels -> [Nodes -> SUBSET Nodes]]
  BY <1>0, <1>2 DEF TypeOK
<1>5. UndoneLinks' = UndoneLinks
  BY <1>0, <1>1, <1>3 DEF UndoneLinks
<1>6. RebuildCounts' /\ IdleIsSound' /\ UndoneIsBefore' /\ TablesInProgress'
  BY <1>0, <1>5, ListStep
<1>7. TypeOK'
  <2>1. pruning' \in [level : Levels, node : Nodes \union {0}, keep : SUBSET Nodes, drop : SUBSET Nodes]
    BY <1>0, Sizes DEF NoPruning
  <2> QED BY <1>0, <1>4, <2>1 DEF TypeOK
<1>8. New' = New /\ (\A k \in Levels : On(k)' = On(k)) /\ \A k, a : ~Pruned(k, a)'
  BY <1>0 DEF New, On, Pruned
<1>p. \A k, a : Pruned(k, a) <=> k = l /\ a = p
  BY <1>0 DEF Pruned
<1>9. ASSUME NEW k \in Levels, NEW a \in Nodes, NEW b \in links[k][a]
      PROVE  /\ b # a /\ a \in On(k) /\ b \in On(k) /\ b \in Nodes
             /\ a \in links[k][b] \/ (a = New /\ <<k, b>> \in todo) \/ (k = l /\ a = p)
  BY <1>0, <1>p, <1>9 DEF IInv, LinksInProgress, TypeOK
<1> HIDE DEF l, p, keep
<1>10. ASSUME NEW k \in Levels, NEW a \in Nodes, NEW b \in links'[k][a]
       PROVE  /\ b # a /\ a \in On(k) /\ b \in On(k)
              /\ a \in links'[k][b] \/ (a = New /\ <<k, b>> \in todo \ {<<l, p>>})
  <2>1. CASE k = l /\ a = p
    <3>1. b \in keep /\ b \in links[l][p] /\ b \in Nodes /\ p \in links[l][b]
      BY <1>1, <1>2, <1>3, <1>10, <2>1
    <3> QED BY <1>3, <1>9, <2>1, <3>1
  <2>2. CASE ~(k = l /\ a = p)
    <3>1. /\ b \in links[k][a] /\ b # a /\ a \in On(k) /\ b \in On(k) /\ b \in Nodes
          /\ a \in links[k][b] \/ (a = New /\ <<k, b>> \in todo)
      BY <1>3, <1>9, <1>10, <2>2
    <3>2. CASE k = l /\ b = p
      <4>1. a \in keep
        BY <1>1, <3>1, <3>2
      <4> QED BY <1>3, <3>1, <3>2, <4>1
    <3>3. CASE ~(k = l /\ b = p)
      BY <1>3, <3>1, <3>3
    <3> QED BY <3>2, <3>3
  <2> QED BY <2>1, <2>2
<1>11. \A k \in Levels, a \in Nodes : Cardinality(links'[k][a]) <= Limit(k)
  BY <1>0, <1>1, <1>3, <1>p DEF IInv, LinksInProgress
<1>12. ASSUME NEW k \in Levels, NEW a \in Nodes, <<k, a>> \in todo \ {<<l, p>>}
       PROVE  a <= saved.count /\ a \in links'[k][New]
  <2>1. a <= saved.count /\ a \in links[k][New]
    BY <1>0, <1>p, <1>12 DEF IInv, LinksInProgress
  <2> QED BY <1>2, <1>3, <2>1
<1>13. LinksInProgress'
  <2>1. saved' = saved /\ todo' = todo \ {<<l, p>>} /\ phase' = "linking"
    BY <1>0 DEF l, p
  <2> QED BY <1>8, <1>10, <1>11, <1>12, <2>1 DEF LinksInProgress
<1>14. PruningInProgress'
  BY <1>0 DEF PruningInProgress
<1> QED BY <1>6, <1>7, <1>13, <1>14 DEF IInv

\* The insertion returns: one more node, and the links are mutual.
LEMMA CommitStep ==
  ASSUME IInv, Commit
  PROVE  IInv'
<1>0. /\ TypeOK /\ phase = "linking" /\ phase' = "idle" /\ todo = {}
      /\ entry' = (IF saved.count = 0 \/ adding.level > maxLevel THEN New ELSE entry)
      /\ maxLevel' = (IF saved.count = 0 \/ adding.level > maxLevel THEN adding.level ELSE maxLevel)
      /\ adding' = NoInsertion /\ todo' = {} /\ pruning' = NoPruning /\ backups' = [x \in {} |-> {}]
      /\ inserted' = None /\ saved' = NothingSaved /\ before' = <<>>
      /\ UNCHANGED <<vectors, ids, graph, links, idToNode, deleted, deletedCount, random, rebuild>>
  BY DEF IInv, Commit, Top, Close
<1>1. /\ SoundTables(UndoneVectors, UndoneIds, UndoneGraph, UndoneMap, deleted, deletedCount, entry, maxLevel)
      /\ Len(UndoneIds) = saved.count /\ saved.count < MaxNodes /\ saved.count \in Nat
      /\ adding.id \in Ids /\ UndoneMap[adding.id] = 0 /\ adding.level \in Levels
      /\ vectors = Append(UndoneVectors, adding.id) /\ ids = Append(UndoneIds, adding.id)
      /\ graph = Append(UndoneGraph, adding.level)
      /\ inserted = adding.id /\ idToNode[adding.id] = New
  BY <1>0 DEF IInv, UndoneIsBefore, TablesInProgress, TypeOK
<1>2. New \in Nodes /\ New = saved.count + 1
  BY <1>0, Linking
<1>3. TypeOK'
  <2>1. /\ adding' \in [id : Ids \union {None}, level : Levels, plan : [Levels -> SUBSET Nodes]]
        /\ pruning' \in [level : Levels, node : Nodes \union {0}, keep : SUBSET Nodes, drop : SUBSET Nodes]
        /\ saved' \in [count : Nat, random : Nat, entry : Nodes \union {0}, maxLevel : Levels]
        /\ DOMAIN backups' \subseteq Levels \X Nodes
    BY <1>0, Sizes DEF NoInsertion, NoPruning, NothingSaved
  <2>2. entry' \in Nodes \union {0} /\ maxLevel' \in Levels
    BY <1>0, <1>1, <1>2 DEF TypeOK
  <2> QED BY <1>0, <2>1, <2>2 DEF TypeOK
<1>4. RebuildCounts'
  BY <1>0 DEF IInv, RebuildCounts
<1>5. /\ UndoneIds \in Seq(Ids) /\ UndoneVectors = UndoneIds /\ UndoneGraph \in Seq(Levels)
      /\ Len(UndoneGraph) = saved.count /\ deleted \subseteq 1..saved.count /\ deletedCount = Cardinality(deleted)
      /\ IsFiniteSet(Live(UndoneIds, deleted))
      /\ Cardinality(Live(UndoneIds, deleted)) + deletedCount = saved.count
      /\ \A i \in Ids : UndoneMap[i] # 0 => UndoneMap[i] \in 1..saved.count /\ UndoneIds[UndoneMap[i]] = i
      /\ \A n \in 1..saved.count : UndoneMap[UndoneIds[n]] = n
  BY <1>1 DEF SoundTables
<1>6. /\ ids \in Seq(Ids) /\ Len(ids) = saved.count + 1 /\ ids[New] = adding.id
      /\ \A n \in 1..saved.count : ids[n] = UndoneIds[n]
  BY <1>1, <1>2, <1>5
<1>7. /\ graph \in Seq(Levels) /\ Len(graph) = saved.count + 1 /\ graph[New] = adding.level
      /\ \A n \in 1..saved.count : graph[n] = UndoneGraph[n]
  BY <1>1, <1>2, <1>5
<1>8. \A i \in Ids : i # adding.id => idToNode[i] = UndoneMap[i]
  BY <1>0, <1>1, IdsAssumption DEF UndoneMap, TypeOK
<1>9. Live(ids, deleted) = Live(UndoneIds, deleted) \union {adding.id} /\ adding.id \notin Live(UndoneIds, deleted)
  <2>1. \A n \in 1..saved.count : UndoneIds[n] # adding.id
    BY <1>1, <1>5
  <2>2. \A n : n \in 1..Len(ids) <=> n \in 1..saved.count \/ n = New
    BY <1>1, <1>2, <1>6
  <2>3. New \notin deleted
    BY <1>1, <1>2, <1>5
  <2>4. Live(UndoneIds, deleted) = {UndoneIds[n] : n \in (1..saved.count) \ deleted}
    BY <1>1 DEF Live
  <2>5. Live(ids, deleted) = {UndoneIds[n] : n \in (1..saved.count) \ deleted} \union {adding.id}
    BY <1>6, <2>2, <2>3 DEF Live
  <2> QED BY <2>1, <2>4, <2>5
<1>10. SoundTables(vectors, ids, graph, idToNode, deleted, deletedCount, entry', maxLevel')
  <2>1. /\ vectors = ids /\ ids \in Seq(Ids) /\ graph \in Seq(Levels) /\ Len(graph) = Len(ids)
        /\ Len(ids) <= MaxNodes
    BY <1>1, <1>5, <1>6, <1>7, Sizes
  <2>2. \A i \in Ids : idToNode[i] # 0 => idToNode[i] \in 1..Len(ids) /\ ids[idToNode[i]] = i
    <3> SUFFICES ASSUME NEW i \in Ids, idToNode[i] # 0 PROVE idToNode[i] \in 1..Len(ids) /\ ids[idToNode[i]] = i
      OBVIOUS
    <3>1. CASE i = adding.id
      BY <1>1, <1>2, <1>6, <3>1
    <3>2. CASE i # adding.id
      <4>1. idToNode[i] \in 1..saved.count /\ UndoneIds[idToNode[i]] = i
        BY <1>5, <1>8, <3>2
      <4> QED BY <1>1, <1>6, <4>1
    <3> QED BY <3>1, <3>2
  <2>3. \A n \in 1..Len(ids) : idToNode[ids[n]] = n
    <3> SUFFICES ASSUME NEW n \in 1..Len(ids) PROVE idToNode[ids[n]] = n
      OBVIOUS
    <3>1. CASE n = New
      BY <1>1, <1>6, <3>1
    <3>2. CASE n # New
      <4>1. n \in 1..saved.count
        BY <1>1, <1>2, <1>6, <3>2
      <4>2. UndoneIds[n] \in Ids /\ UndoneMap[UndoneIds[n]] = n /\ n # 0
        BY <1>1, <1>5, <4>1
      <4>3. UndoneIds[n] # adding.id
        BY <1>1, <4>2
      <4> QED BY <1>6, <1>8, <4>1, <4>2, <4>3
    <3> QED BY <3>1, <3>2
  <2>4. deleted \subseteq 1..Len(ids) /\ deletedCount = Cardinality(deleted)
    BY <1>1, <1>5, <1>6
  <2>5. IsFiniteSet(Live(ids, deleted)) /\ Cardinality(Live(ids, deleted)) + deletedCount = Len(ids)
    <3>1. /\ IsFiniteSet(Live(ids, deleted))
          /\ Cardinality(Live(ids, deleted)) = Cardinality(Live(UndoneIds, deleted)) + 1
      <4>1. IsFiniteSet(Live(UndoneIds, deleted)) /\ adding.id \notin Live(UndoneIds, deleted)
        BY <1>5, <1>9
      <4>2. /\ IsFiniteSet(Live(UndoneIds, deleted) \union {adding.id})
            /\ Cardinality(Live(UndoneIds, deleted) \union {adding.id})
                  = Cardinality(Live(UndoneIds, deleted)) + 1
        BY <4>1, FS_AddElement
      <4> QED BY <1>9, <4>2
    <3>2. Cardinality(Live(UndoneIds, deleted)) \in Nat /\ deletedCount \in Nat
      BY <1>0, <1>5, FS_CardinalityType DEF TypeOK
    <3> QED BY <1>1, <1>5, <1>6, <3>1, <3>2
  <2>6. entry' \in 1..Len(graph) /\ graph[entry'] = maxLevel' /\ \A n \in 1..Len(graph) : graph[n] <= maxLevel'
    <3>1. UndoneGraph # <<>> => /\ entry \in 1..saved.count /\ UndoneGraph[entry] = maxLevel
                                /\ \A n \in 1..saved.count : UndoneGraph[n] <= maxLevel
      BY <1>1, <1>5 DEF SoundTables
    <3>2. \A n \in 1..Len(graph) : n \in 1..saved.count \/ n = New
      BY <1>1, <1>2, <1>7
    <3>n. adding.level \in Nat /\ maxLevel \in Nat /\ \A n \in 1..saved.count : UndoneGraph[n] \in Nat
      <4>1. maxLevel \in Levels
        BY <1>0 DEF TypeOK
      <4>2. \A n \in 1..saved.count : UndoneGraph[n] \in Levels
        BY <1>5
      <4>3. \A l \in Levels : l \in Nat
        BY Sizes
      <4> QED BY <1>1, <4>1, <4>2, <4>3
    <3>3. CASE saved.count = 0
      <4>1. entry' = New /\ maxLevel' = adding.level /\ Len(graph) = 1 /\ New = 1
        BY <1>0, <1>2, <1>7, <3>3
      <4> QED BY <1>7, <3>n, <4>1
    <3>4. CASE saved.count # 0
      <4>1. /\ entry \in 1..saved.count /\ UndoneGraph[entry] = maxLevel
            /\ \A n \in 1..saved.count : UndoneGraph[n] <= maxLevel
        BY <1>1, <1>5, <3>1, <3>4
      <4>2. CASE adding.level > maxLevel
        <5>1. entry' = New /\ maxLevel' = adding.level
          BY <1>0, <4>2
        <5>2. New \in 1..Len(graph)
          BY <1>1, <1>2, <1>7
        <5> QED BY <1>7, <3>2, <3>n, <4>1, <4>2, <5>1, <5>2
      <4>3. CASE ~(adding.level > maxLevel)
        <5>1. entry' = entry /\ maxLevel' = maxLevel
          BY <1>0, <3>4, <4>3
        <5>2. entry \in 1..Len(graph)
          BY <1>1, <1>7, <4>1
        <5> QED BY <1>7, <3>2, <3>n, <4>1, <4>3, <5>1, <5>2
      <4> QED BY <4>2, <4>3
    <3> QED BY <3>3, <3>4
  <2> QED BY <2>1, <2>2, <2>3, <2>4, <2>5, <2>6 DEF SoundTables
<1>11. SoundLinks(links, graph)
  BY <1>0 DEF IInv, LinksInProgress, SoundLinks, Pruned, On, Present
<1>12. IdleIsSound'
  <2>1. rebuild.state = "running" => Live(ids, deleted) = rebuild.live \ rebuild.left
    <3> SUFFICES ASSUME rebuild.state = "running" PROVE Live(ids, deleted) = rebuild.live \ rebuild.left
      OBVIOUS
    <3>1. /\ Live(UndoneIds, deleted) = rebuild.live \ (rebuild.left \union {adding.id})
          /\ adding.id \in rebuild.live \ rebuild.left
      BY <1>0 DEF IInv, UndoneIsBefore
    <3> QED BY <1>9, <3>1
  <2> QED BY <1>0, <1>10, <1>11, <2>1 DEF IdleIsSound
<1>13. UndoneIsBefore' /\ TablesInProgress' /\ LinksInProgress' /\ PruningInProgress'
  BY <1>0 DEF UndoneIsBefore, TablesInProgress, LinksInProgress, PruningInProgress
<1> QED BY <1>3, <1>4, <1>12, <1>13 DEF IInv

\* An exception: the index becomes the undone one.
LEMMA RollbackStep ==
  ASSUME IInv, Rollback
  PROVE  IInv' /\ index' = before
<1>0. /\ TypeOK /\ phase # "idle" /\ phase' = "idle"
      /\ links' = UndoneLinks /\ idToNode' = UndoneMap
      /\ graph' = UndoneGraph /\ ids' = UndoneIds /\ vectors' = UndoneVectors
      /\ random' = saved.random /\ entry' = saved.entry /\ maxLevel' = saved.maxLevel
      /\ adding' = NoInsertion /\ todo' = {} /\ pruning' = NoPruning /\ backups' = [x \in {} |-> {}]
      /\ inserted' = None /\ saved' = NothingSaved /\ before' = <<>>
      /\ UNCHANGED <<deleted, deletedCount>>
      /\ rebuild' = IF rebuild.state = "none" THEN rebuild ELSE [rebuild EXCEPT !.state = "failed"]
  BY DEF IInv, Rollback, Close, UndoneLinks, UndoneMap, UndoneGraph, UndoneIds, UndoneVectors, RandomRestored
<1>1. /\ before = <<UndoneVectors, UndoneIds, UndoneGraph, UndoneLinks, UndoneMap, deleted, deletedCount,
                    saved.entry, saved.maxLevel, saved.random>>
      /\ UndoneLinks \in [Levels -> [Nodes -> SUBSET Nodes]] /\ UndoneMap \in [Ids -> Nodes \union {0}]
      /\ SoundTables(UndoneVectors, UndoneIds, UndoneGraph, UndoneMap, deleted, deletedCount,
                     saved.entry, saved.maxLevel)
      /\ SoundLinks(UndoneLinks, UndoneGraph)
  BY <1>0 DEF IInv, UndoneIsBefore
<1>2. index' = before
  BY <1>0, <1>1 DEF index
<1>3. /\ rebuild' \in [state : {"none", "running", "failed"},
                       live : SUBSET Ids, left : SUBSET Ids, count : 0..MaxNodes]
      /\ rebuild'.state # "running"
  <2>1. rebuild \in [state : {"none", "running", "failed"},
                     live : SUBSET Ids, left : SUBSET Ids, count : 0..MaxNodes]
    BY <1>0 DEF TypeOK
  <2> QED BY <1>0, <2>1
<1>4. TypeOK'
  <2>1. /\ adding' \in [id : Ids \union {None}, level : Levels, plan : [Levels -> SUBSET Nodes]]
        /\ pruning' \in [level : Levels, node : Nodes \union {0}, keep : SUBSET Nodes, drop : SUBSET Nodes]
        /\ saved' \in [count : Nat, random : Nat, entry : Nodes \union {0}, maxLevel : Levels]
        /\ DOMAIN backups' \subseteq Levels \X Nodes
    BY <1>0, Sizes DEF NoInsertion, NoPruning, NothingSaved
  <2>2. vectors' \in Seq(Ids) /\ ids' \in Seq(Ids) /\ graph' \in Seq(Levels)
    BY <1>0, <1>1 DEF SoundTables
  <2>3. random' \in Nat /\ entry' \in Nodes \union {0} /\ maxLevel' \in Levels
    BY <1>0 DEF TypeOK
  <2> QED BY <1>0, <1>1, <1>3, <2>1, <2>2, <2>3 DEF TypeOK
<1>5. IdleIsSound'
  BY <1>0, <1>1, <1>3 DEF IdleIsSound
<1>6. RebuildCounts' /\ UndoneIsBefore' /\ TablesInProgress' /\ LinksInProgress' /\ PruningInProgress'
  BY <1>0, <1>3 DEF RebuildCounts, UndoneIsBefore, TablesInProgress, LinksInProgress, PruningInProgress
<1> QED BY <1>2, <1>4, <1>5, <1>6 DEF IInv

-----------------------------------------------------------------------------
(* Deletion and rebuilding *)

\* erase() of a live ID takes it, and nothing else, from the live ones.
LEMMA EraseStep ==
  ASSUME IInv, NEW id \in Ids, Erase(id)
  PROVE  IInv'
<1> DEFINE n == idToNode[id]
           after == deleted \union {n}
<1>0. /\ TypeOK /\ phase = "idle" /\ rebuild.state = "none" /\ n # 0 /\ n \notin deleted
      /\ deleted' = after /\ deletedCount' = deletedCount + 1
      /\ UNCHANGED <<vectors, ids, graph, links, idToNode, entry, maxLevel, random, transaction, rebuild>>
  BY DEF IInv, Erase, Erasable
<1>1. /\ SoundTables(vectors, ids, graph, idToNode, deleted, deletedCount, entry, maxLevel)
      /\ SoundLinks(links, graph) /\ DOMAIN backups = {} /\ inserted = None
  BY <1>0 DEF IInv, IdleIsSound
<1>2. /\ ids \in Seq(Ids) /\ Len(ids) \in Nat /\ n \in 1..Len(ids) /\ ids[n] = id
      /\ \A m \in 1..Len(ids) : idToNode[ids[m]] = m
      /\ deleted \subseteq 1..Len(ids) /\ deletedCount = Cardinality(deleted)
      /\ IsFiniteSet(Live(ids, deleted)) /\ Cardinality(Live(ids, deleted)) + deletedCount = Len(ids)
  BY <1>0, <1>1 DEF SoundTables
<1>3. n \in Nodes
  BY <1>0 DEF TypeOK
<1> HIDE DEF n
<1>4. deletedCount' \in Nat /\ Cardinality(after) = deletedCount + 1 /\ after \subseteq 1..Len(ids) /\ after \subseteq Nodes
  <2>1. IsFiniteSet(deleted)
    <3>1. IsFiniteSet(1..Len(ids))
      BY <1>2, FS_Interval
    <3> QED BY <1>2, <3>1, FS_Subset
  <2>2. Cardinality(deleted \union {n}) = Cardinality(deleted) + 1
    BY <1>0, <2>1, FS_AddElement
  <2> QED BY <1>0, <1>2, <1>3, <2>2 DEF TypeOK
<1>5. Live(ids, after) = Live(ids, deleted) \ {id} /\ id \in Live(ids, deleted)
  <2>1. \A m \in 1..Len(ids) : ids[m] = id => m = n
    BY <1>2 DEF n
  <2>2. n \in (1..Len(ids)) \ deleted /\ ids[n] = id
    BY <1>0, <1>2
  <2>3. (1..Len(ids)) \ after = ((1..Len(ids)) \ deleted) \ {n}
    OBVIOUS
  <2>4. id \in Live(ids, deleted)
    BY <2>2 DEF Live
  <2>5. ASSUME NEW x PROVE x \in Live(ids, after) <=> x \in Live(ids, deleted) /\ x # id
    <3>1. x \in Live(ids, after) <=> \E m \in ((1..Len(ids)) \ deleted) \ {n} : x = ids[m]
      BY <2>3 DEF Live
    <3>2. x \in Live(ids, deleted) <=> \E m \in (1..Len(ids)) \ deleted : x = ids[m]
      BY DEF Live
    <3> QED BY <2>1, <2>2, <3>1, <3>2
  <2> QED BY <2>4, <2>5
<1>6. IsFiniteSet(Live(ids, after)) /\ Cardinality(Live(ids, after)) + deletedCount' = Len(ids)
  <2>1. /\ IsFiniteSet(Live(ids, deleted) \ {id})
        /\ Cardinality(Live(ids, deleted) \ {id}) = Cardinality(Live(ids, deleted)) - 1
    BY <1>2, <1>5, FS_RemoveElement
  <2>2. Cardinality(Live(ids, deleted)) \in Nat /\ deletedCount \in Nat
    BY <1>0, <1>2, FS_CardinalityType DEF TypeOK
  <2>3. Cardinality(Live(ids, after)) = Cardinality(Live(ids, deleted)) - 1 /\ IsFiniteSet(Live(ids, after))
    BY <1>5, <2>1
  <2>4. \A c, d, e \in Nat : c + d = e => (c - 1) + (d + 1) = e
    OBVIOUS
  <2> QED BY <1>0, <1>2, <2>2, <2>3, <2>4
<1>7. SoundTables(vectors, ids, graph, idToNode, after, deletedCount', entry, maxLevel)
  BY <1>0, <1>1, <1>4, <1>6 DEF SoundTables
<1> HIDE DEF after
<1>8. TypeOK'
  BY <1>0, <1>4 DEF TypeOK, transaction
<1>9. IdleIsSound'
  BY <1>0, <1>1, <1>7 DEF IdleIsSound, transaction
<1>10. RebuildCounts' /\ UndoneIsBefore' /\ TablesInProgress' /\ LinksInProgress' /\ PruningInProgress'
  BY <1>0 DEF RebuildCounts, UndoneIsBefore, TablesInProgress, LinksInProgress, PruningInProgress, transaction
<1> QED BY <1>8, <1>9, <1>10 DEF IInv

\* rebuild() begins with an empty index and the live IDs, as many as stats()
\* reports.
LEMMA StartRebuildStep ==
  ASSUME IInv, StartRebuild
  PROVE  IInv'
<1>0. /\ TypeOK /\ phase = "idle"
      /\ rebuild' = [state |-> "running", live |-> Live(ids, deleted), left |-> Live(ids, deleted),
                     count |-> Len(ids) - deletedCount]
      /\ vectors' = <<>> /\ ids' = <<>> /\ graph' = <<>> /\ links' = NoLinks /\ idToNode' = NoNodes
      /\ deleted' = {} /\ deletedCount' = 0 /\ entry' = 0 /\ maxLevel' = 0 /\ random' = 0
      /\ UNCHANGED transaction
  BY DEF IInv, StartRebuild, LiveIds, Live
<1>1. /\ ids \in Seq(Ids) /\ Len(ids) \in Nat /\ Len(ids) <= MaxNodes /\ IsFiniteSet(Live(ids, deleted))
      /\ Cardinality(Live(ids, deleted)) + deletedCount = Len(ids) /\ DOMAIN backups = {} /\ inserted = None
  BY <1>0 DEF IInv, IdleIsSound, SoundTables
<1>2. Cardinality(Live(ids, deleted)) \in Nat /\ deletedCount \in Nat
  BY <1>0, <1>1, FS_CardinalityType DEF TypeOK
<1>3. Live(ids, deleted) \subseteq Ids
  <2>1. \A n \in 1..Len(ids) : ids[n] \in Ids
    BY <1>1
  <2> QED BY <2>1 DEF Live
<1>4. /\ rebuild'.state = "running" /\ rebuild'.live = Live(ids, deleted) /\ rebuild'.left = Live(ids, deleted)
      /\ rebuild'.count = Cardinality(Live(ids, deleted))
  BY <1>0, <1>1, <1>2
<1>5. TypeOK'
  <2>1. rebuild' \in [state : {"none", "running", "failed"},
                      live : SUBSET Ids, left : SUBSET Ids, count : 0..MaxNodes]
    <3>1. Len(ids) - deletedCount \in 0..MaxNodes
      BY <1>1, <1>2, Sizes
    <3> QED BY <1>0, <1>3, <3>1
  <2>2. /\ links' \in [Levels -> [Nodes -> SUBSET Nodes]] /\ idToNode' \in [Ids -> Nodes \union {0}]
        /\ maxLevel' \in Levels
    BY <1>0, Sizes DEF NoLinks, NoNodes
  <2>3. vectors' \in Seq(Ids) /\ ids' \in Seq(Ids) /\ graph' \in Seq(Levels)
    BY <1>0
  <2> QED BY <1>0, <2>1, <2>2, <2>3 DEF TypeOK, transaction
<1>6. RebuildCounts'
  BY <1>0, <1>1, <1>4 DEF RebuildCounts
<1>7. IdleIsSound'
  BY <1>0, <1>1, <1>4, EmptyIsSound DEF IdleIsSound, transaction
<1>8. UndoneIsBefore' /\ TablesInProgress' /\ LinksInProgress' /\ PruningInProgress'
  BY <1>0 DEF UndoneIsBefore, TablesInProgress, LinksInProgress, PruningInProgress, transaction
<1> QED BY <1>5, <1>6, <1>7, <1>8 DEF IInv

\* The tool publishes the rebuilt index or refuses it.
LEMMA EndRebuildStep ==
  ASSUME IInv, EndRebuild
  PROVE  IInv'
<1>0. /\ TypeOK /\ phase = "idle" /\ UNCHANGED <<index, transaction>>
      /\ rebuild' = IF Verified THEN NoRebuild ELSE [rebuild EXCEPT !.state = "failed"]
  BY DEF IInv, EndRebuild
<1>1. /\ rebuild' \in [state : {"none", "running", "failed"},
                       live : SUBSET Ids, left : SUBSET Ids, count : 0..MaxNodes]
      /\ rebuild'.state # "running"
  <2>1. rebuild \in [state : {"none", "running", "failed"},
                     live : SUBSET Ids, left : SUBSET Ids, count : 0..MaxNodes]
    BY <1>0 DEF TypeOK
  <2>2. 0 \in 0..MaxNodes
    BY Sizes
  <2> QED BY <1>0, <2>1, <2>2 DEF NoRebuild
<1>2. TypeOK'
  BY <1>0, <1>1 DEF TypeOK, index, transaction
<1>3. IdleIsSound'
  BY <1>0, <1>1 DEF IInv, IdleIsSound, index, transaction
<1>4. RebuildCounts' /\ UndoneIsBefore' /\ TablesInProgress' /\ LinksInProgress' /\ PruningInProgress'
  BY <1>0, <1>1 DEF RebuildCounts, UndoneIsBefore, TablesInProgress, LinksInProgress, PruningInProgress, transaction
<1> QED BY <1>2, <1>3, <1>4 DEF IInv

-----------------------------------------------------------------------------

\* Every step keeps the invariant.
LEMMA StepIInv ==
  ASSUME IInv, [Next]_vars
  PROVE  IInv'
<1>1. ASSUME UNCHANGED vars PROVE IInv'
  <2>1. /\ UndoneVectors' = UndoneVectors /\ UndoneIds' = UndoneIds /\ UndoneGraph' = UndoneGraph
        /\ UndoneLinks' = UndoneLinks /\ UndoneMap' = UndoneMap /\ New' = New
        /\ \A l : On(l)' = On(l)
        /\ \A l, n : Pruned(l, n)' <=> Pruned(l, n)
    BY <1>1 DEF vars, index, transaction, UndoneVectors, UndoneIds, UndoneGraph, UndoneLinks, UndoneMap, New, On, Pruned
  <2>2. UNCHANGED <<vectors, ids, graph, links, idToNode, deleted, deletedCount, entry, maxLevel, random,
                    phase, adding, todo, pruning, saved, backups, inserted, before, rebuild>>
    BY <1>1 DEF vars, index, transaction
  <2>3. TypeOK' /\ RebuildCounts' /\ IdleIsSound'
    BY <2>2 DEF IInv, TypeOK, RebuildCounts, IdleIsSound
  <2>4. UndoneIsBefore' /\ TablesInProgress'
    BY <2>1, <2>2 DEF IInv, UndoneIsBefore, TablesInProgress
  <2>5. LinksInProgress' /\ PruningInProgress'
    BY <2>1, <2>2 DEF IInv, LinksInProgress, PruningInProgress
  <2> QED BY <2>3, <2>4, <2>5 DEF IInv
<1> QED BY <1>1, BeginStep, StoreStep, LinkBackStep, UnlinkStep, EndPruningStep, CommitStep, RollbackStep,
           EraseStep, StartRebuildStep, EndRebuildStep DEF Next

\* The invariant holds throughout.
THEOREM Invariance == Spec => []IInv
BY InitIInv, StepIInv, PTL DEF Spec

\* Between insertions of hnsw_index.cpp the tables describe the same nodes, the
\* links are mutual, on levels both ends have and within the limits the loader
\* checks; and the rebuild tool never refuses a rebuild that ran to its end.
THEOREM IndexStaysSound == Spec => []IndexIsSound
BY Invariance, SoundIndex, PTL

\* An insertion that throws anywhere, between any two writes, leaves the index
\* as it was; one that returns has added one node.
THEOREM InsertionIsAtomic == Spec => AllOrNothing
<1> DEFINE Ends == phase # "idle" /\ phase' = "idle" =>
                      \/ index' = before
                      \/ Len(ids') = saved.count + 1 /\ SubSeq(ids', 1, saved.count) = before[2]
                                                     /\ deleted' = before[6]
<1>1. ASSUME IInv, [Next]_vars PROVE [Ends]_vars
  <2> SUFFICES ASSUME Next, phase # "idle", phase' = "idle" PROVE Ends
    BY <1>1
  <2>1. CASE Rollback
    BY <1>1, <2>1, RollbackStep
  <2>2. CASE Commit
    <3>1. /\ ids' = Append(UndoneIds, adding.id) /\ deleted' = deleted
          /\ UndoneIds \in Seq(Ids) /\ adding.id \in Ids /\ Len(UndoneIds) = saved.count
      BY <1>1, <2>2 DEF Commit, IInv, TablesInProgress, UndoneIsBefore, SoundTables
    <3>2. before[2] = UndoneIds /\ before[6] = deleted
      BY <1>1, <2>2 DEF Commit, IInv, UndoneIsBefore
    <3>3. Len(ids') = saved.count + 1 /\ SubSeq(ids', 1, saved.count) = UndoneIds
      BY <3>1, CutAppended
    <3> QED BY <3>1, <3>2, <3>3
  <2>3. \A id \in Ids : ~Begin(id) /\ ~Erase(id)
    BY DEF Begin, Erase
  <2>4. \A k \in 0..4 : ~Store(k)
    BY DEF Store
  <2>5. \A l \in Levels, n \in Nodes : ~LinkBack(l, n)
    BY DEF LinkBack
  <2>6. (\A d \in Nodes : ~Unlink(d)) /\ ~EndPruning /\ ~StartRebuild /\ ~EndRebuild
    BY DEF Unlink, EndPruning, StartRebuild, EndRebuild
  <2> QED BY <2>1, <2>2, <2>3, <2>4, <2>5, <2>6 DEF Next
<1> QED BY <1>1, Invariance, PTL DEF Spec, AllOrNothing
=============================================================================
