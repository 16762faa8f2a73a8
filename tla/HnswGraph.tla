----------------------------- MODULE HnswGraph -----------------------------
(***************************************************************************)
(* Mutation of the HNSW index (src/src/hnsw_index.cpp): insertion with its *)
(* rollback journal, tombstone deletion, and the rebuild without           *)
(* tombstones with the tool that verifies it                               *)
(* (src/tools/rebuild_hnsw_index.cpp).                                     *)
(*                                                                         *)
(* One writer at a time changes the index (its callers hold an exclusive   *)
(* lock), and each write may throw; the steps below are the writes between *)
(* which an exception can come.  Which neighbours a layer search finds and *)
(* which ones select_neighbors prefers depends on the vectors; here they   *)
(* are any that the search and the selection can return.  A vector is      *)
(* named by its ID.  An adjacency list is a set: its order does not matter *)
(* here.  HnswSearch has the searches and the selection.                   *)
(***************************************************************************)
EXTENDS Naturals, Sequences, FiniteSets

CONSTANTS
    Ids,            \* external vector IDs
    None,           \* no ID
    MaxNodes,       \* the largest number of nodes (2^32 - 1 in the code)
    MaxLevel,       \* kMaximumGeneratedLevel
    MaxConnections  \* config.max_connections

ASSUME IdsAssumption == None \notin Ids
ASSUME ConfigAssumption == MaxNodes \in Nat /\ MaxLevel \in Nat /\ MaxConnections \in Nat \ {0, 1}

Nodes == 1..MaxNodes
Levels == 0..MaxLevel

VARIABLES
    vectors,    \* vectors_, one row per node
    ids,        \* ids_
    graph,      \* graph_: the level of each node
    links,      \* graph_[n].levels[l], as links[l][n]
    idToNode,   \* id_to_node_, 0 for an absent ID
    deleted,    \* the nodes with the deleted flag
    deletedCount, \* deleted_count_
    entry,      \* entry_point_, 0 while there is none
    maxLevel,   \* max_level_
    random,     \* random_, as the number of draws
    \* The insertion in progress
    phase,      \* how far it is
    adding,     \* its ID and level, and the selected neighbours per level
    todo,       \* the <<level, neighbour>> pairs still to be linked back
    pruning,    \* the list being pruned, what it keeps and what is still to be dropped
    saved,      \* what InsertionTransaction copied at its start
    backups,    \* its journal of adjacency lists
    inserted,   \* its inserted_id_
    before,     \* history: the index when the insertion began
    rebuild     \* the rebuild in progress, if there is one

index == <<vectors, ids, graph, links, idToNode, deleted, deletedCount, entry, maxLevel, random>>
transaction == <<phase, adding, todo, pruning, saved, backups, inserted, before>>
vars == <<index, transaction, rebuild>>

NoInsertion == [id |-> None, level |-> 0, plan |-> [l \in Levels |-> {}]]
NothingSaved == [count |-> 0, random |-> 0, entry |-> 0, maxLevel |-> 0]
NoRebuild == [state |-> "none", live |-> {}, left |-> {}, count |-> 0]
NoPruning == [level |-> 0, node |-> 0, keep |-> {}, drop |-> {}]

\* Type invariant.
TypeOK ==
    /\ vectors \in Seq(Ids) /\ ids \in Seq(Ids) /\ graph \in Seq(Levels)
    /\ links \in [Levels -> [Nodes -> SUBSET Nodes]]
    /\ idToNode \in [Ids -> Nodes \union {0}]
    /\ deleted \subseteq Nodes
    /\ deletedCount \in Nat
    /\ entry \in Nodes \union {0}
    /\ maxLevel \in Levels
    /\ random \in Nat
    /\ phase \in {"idle", "drawn", "stored", "linking", "pruning"}
    /\ adding \in [id : Ids \union {None}, level : Levels, plan : [Levels -> SUBSET Nodes]]
    /\ todo \subseteq Levels \X Nodes
    /\ pruning \in [level : Levels, node : Nodes \union {0}, keep : SUBSET Nodes, drop : SUBSET Nodes]
    /\ saved \in [count : Nat, random : Nat, entry : Nodes \union {0}, maxLevel : Levels]
    /\ inserted \in Ids \union {None}
    /\ DOMAIN backups \subseteq Levels \X Nodes
    /\ rebuild \in [state : {"none", "running", "failed"},
                    live : SUBSET Ids, left : SUBSET Ids, count : 0..MaxNodes]

NoLinks == [l \in Levels |-> [n \in Nodes |-> {}]]
NoNodes == [i \in Ids |-> 0]

Init ==
    /\ vectors = <<>> /\ ids = <<>> /\ graph = <<>>
    /\ links = NoLinks /\ idToNode = NoNodes
    /\ deleted = {} /\ deletedCount = 0
    /\ entry = 0 /\ maxLevel = 0 /\ random = 0
    /\ rebuild = NoRebuild
    /\ phase = "idle"
    /\ adding = NoInsertion
    /\ todo = {}
    /\ pruning = NoPruning
    /\ saved = NothingSaved
    /\ backups = [x \in {} |-> {}]
    /\ inserted = None
    /\ before = <<>>

-----------------------------------------------------------------------------
(* Helpers *)

\* maximum_connections(level)
Limit(l) == IF l = 0 THEN 2 * MaxConnections ELSE MaxConnections

Smaller(a, b) == IF a <= b THEN a ELSE b

\* The nodes that are present on level l.
On(l) == {n \in 1..Len(graph) : graph[n] >= l}

New == saved.count + 1

\* Mutation: a list that is touched again is copied again.
RememberLatest(n, l) ==
    IF n > saved.count THEN backups
    ELSE [x \in DOMAIN backups \union {<<l, n>>} |-> IF x = <<l, n>> THEN links[l][n] ELSE backups[x]]

\* remember(node, level): only an old node, and only the first time.
Remember(n, l) ==
    IF n > saved.count \/ <<l, n>> \in DOMAIN backups THEN backups
    ELSE [x \in DOMAIN backups \union {<<l, n>>} |-> IF x = <<l, n>> THEN links[l][n] ELSE backups[x]]

-----------------------------------------------------------------------------
(* Insertion *)

\* add() rejects a known ID, deleted or not, and a full index.  A rebuild
\* inserts the IDs that are left, sorted ones, which here is any order.
Begin(id) ==
    /\ phase = "idle"
    /\ \/ /\ rebuild.state = "none"
          /\ idToNode[id] = 0
          /\ Len(ids) < MaxNodes
          /\ UNCHANGED rebuild
       \/ /\ rebuild.state = "running" /\ id \in rebuild.left
          /\ rebuild' = [rebuild EXCEPT !.left = @ \ {id}]
    /\ saved' = [count |-> Len(ids), random |-> random, entry |-> entry, maxLevel |-> maxLevel]
    /\ before' = index
    /\ random' = random + 1
    /\ \E l \in Levels : adding' = [NoInsertion EXCEPT !.id = id, !.level = l]
    /\ phase' = "drawn"
    /\ UNCHANGED <<vectors, ids, graph, links, idToNode, deleted, deletedCount, entry, maxLevel,
                   todo, pruning, backups, inserted>>

\* select_neighbors on the result of a layer search: at least the entry point
\* of the search, at most the limit.
Selections(l) ==
    {S \in SUBSET On(l) : S # {} /\ Cardinality(S) <= Limit(l)}

\* The searches, then the row, the ID, the node with its planned lists and the
\* map entry are appended in this order.  k of the four writes happen.
Store(k) ==
    /\ phase = "drawn"
    /\ \E plan \in [Levels -> SUBSET Nodes] :
          /\ \A l \in Levels : IF graph # <<>> /\ l <= Smaller(adding.level, maxLevel)
                               THEN plan[l] \in Selections(l)
                               ELSE plan[l] = {}
          /\ adding' = [adding EXCEPT !.plan = plan]
          /\ graph' = IF k >= 3 THEN Append(graph, adding.level) ELSE graph
          /\ links' = IF k >= 3 THEN [l \in Levels |-> [links[l] EXCEPT ![New] = plan[l]]] ELSE links
          /\ todo' = {x \in Levels \X Nodes : x[2] \in plan[x[1]]}
    /\ vectors' = IF k >= 1 THEN Append(vectors, adding.id) ELSE vectors
    /\ ids' = IF k >= 2 THEN Append(ids, adding.id) ELSE ids
    /\ idToNode' = IF k >= 4 THEN [idToNode EXCEPT ![adding.id] = New] ELSE idToNode
    /\ inserted' = IF k >= 4 THEN adding.id ELSE None
    /\ phase' = IF k >= 4 THEN "linking" ELSE "stored"
    /\ UNCHANGED <<deleted, deletedCount, entry, maxLevel, random, pruning, saved, backups, before, rebuild>>

WithinLimit(S, l) == Cardinality(S) <= Limit(l)

\* The new node is appended to a neighbour's list; if that is too long now,
\* prune_neighbors selects what it keeps.
LinkBack(l, n) ==
    LET longer == links[l][n] \union {New} IN
    /\ phase = "linking"
    /\ <<l, n>> \in todo
    /\ \A x \in todo : l <= x[1]
    /\ backups' = Remember(n, l)
    /\ links' = [links EXCEPT ![l][n] = longer]
    /\ \/ /\ WithinLimit(longer, l)
          /\ todo' = todo \ {<<l, n>>}
          /\ UNCHANGED <<phase, pruning>>
       \/ /\ ~WithinLimit(longer, l)
          /\ phase' = "pruning"
          /\ \E keep \in SUBSET longer :
                /\ Cardinality(keep) = Limit(l)
                /\ pruning' = [level |-> l, node |-> n, keep |-> keep, drop |-> longer \ keep]
          /\ UNCHANGED todo
    /\ UNCHANGED <<vectors, ids, graph, idToNode, deleted, deletedCount, entry, maxLevel, random,
                   adding, saved, inserted, before, rebuild>>

\* Mutation: the reverse link stays.
KeepReverse(S, n) == S

\* std::erase(reverse, node)
DropReverse(S, n) == S \ {n}

\* A dropped neighbour loses its link back to the pruned node.
Unlink(d) ==
    /\ phase = "pruning"
    /\ d \in pruning.drop
    /\ backups' = Remember(d, pruning.level)
    /\ links' = [links EXCEPT ![pruning.level][d] = DropReverse(@, pruning.node)]
    /\ pruning' = [pruning EXCEPT !.drop = @ \ {d}]
    /\ UNCHANGED <<vectors, ids, graph, idToNode, deleted, deletedCount, entry, maxLevel, random,
                   phase, adding, todo, saved, inserted, before, rebuild>>

\* neighbors = selected
EndPruning ==
    /\ phase = "pruning"
    /\ pruning.drop = {}
    /\ links' = [links EXCEPT ![pruning.level][pruning.node] = pruning.keep]
    /\ todo' = todo \ {<<pruning.level, pruning.node>>}
    /\ pruning' = NoPruning
    /\ phase' = "linking"
    /\ UNCHANGED <<vectors, ids, graph, idToNode, deleted, deletedCount, entry, maxLevel, random,
                   adding, saved, backups, inserted, before, rebuild>>

\* What the end of an insertion leaves of it.
Close ==
    /\ phase' = "idle"
    /\ adding' = NoInsertion
    /\ todo' = {}
    /\ pruning' = NoPruning
    /\ backups' = [x \in {} |-> {}]
    /\ inserted' = None
    /\ saved' = NothingSaved
    /\ before' = <<>>

\* max_level_ after the insertion.
Top == IF saved.count = 0 \/ adding.level > maxLevel THEN adding.level ELSE maxLevel

\* The first node, or a taller one, becomes the entry point.
Commit ==
    /\ phase = "linking"
    /\ todo = {}
    /\ entry' = IF saved.count = 0 \/ adding.level > maxLevel THEN New ELSE entry
    /\ maxLevel' = Top
    /\ Close
    /\ UNCHANGED <<vectors, ids, graph, links, idToNode, deleted, deletedCount, random, rebuild>>

RandomRestored == saved.random

\* An exception at any point: ~InsertionTransaction.  It ends a rebuild.
Rollback ==
    /\ phase # "idle"
    /\ links' = [l \in Levels |-> [n \in Nodes |->
                    IF n > saved.count THEN {}
                    ELSE IF <<l, n>> \in DOMAIN backups THEN backups[<<l, n>>]
                    ELSE links[l][n]]]
    /\ idToNode' = IF inserted = None THEN idToNode ELSE [idToNode EXCEPT ![inserted] = 0]
    /\ graph' = SubSeq(graph, 1, saved.count)
    /\ ids' = SubSeq(ids, 1, saved.count)
    /\ vectors' = SubSeq(vectors, 1, saved.count)
    /\ random' = RandomRestored
    /\ entry' = saved.entry
    /\ maxLevel' = saved.maxLevel
    /\ Close
    /\ rebuild' = IF rebuild.state = "none" THEN rebuild ELSE [rebuild EXCEPT !.state = "failed"]
    /\ UNCHANGED <<deleted, deletedCount>>

-----------------------------------------------------------------------------
(* Deletion *)

Erasable(id) == idToNode[id] # 0 /\ idToNode[id] \notin deleted

\* erase(): nothing but the flag and the counter.
Erase(id) ==
    /\ phase = "idle" /\ rebuild.state = "none"
    /\ Erasable(id)
    /\ deleted' = deleted \union {idToNode[id]}
    /\ deletedCount' = deletedCount + 1
    /\ UNCHANGED <<vectors, ids, graph, links, idToNode, entry, maxLevel, random, transaction, rebuild>>

-----------------------------------------------------------------------------
(* Rebuilding *)

\* live_ids()
LiveIds == {ids[n] : n \in (1..Len(ids)) \ deleted}

\* rebuild(): the index is a new one from here on.  Of the source, which is
\* only read, the IDs and stats().live_count matter.
StartRebuild ==
    /\ phase = "idle" /\ rebuild.state = "none"
    /\ rebuild' = [state |-> "running", live |-> LiveIds, left |-> LiveIds, count |-> Len(ids) - deletedCount]
    /\ vectors' = <<>> /\ ids' = <<>> /\ graph' = <<>>
    /\ links' = NoLinks /\ idToNode' = NoNodes
    /\ deleted' = {} /\ deletedCount' = 0
    /\ entry' = 0 /\ maxLevel' = 0 /\ random' = 0
    /\ UNCHANGED transaction

\* The live IDs, deleted_count and node_count of the result.
Verified == LiveIds = rebuild.live /\ deletedCount = 0 /\ Len(ids) = rebuild.count

\* The tool publishes the result, which takes the place of the source.
EndRebuild ==
    /\ phase = "idle"
    /\ rebuild.state = "running" /\ rebuild.left = {}
    /\ rebuild' = IF Verified THEN NoRebuild ELSE [rebuild EXCEPT !.state = "failed"]
    /\ UNCHANGED <<index, transaction>>

-----------------------------------------------------------------------------

Next ==
    \/ \E id \in Ids : Begin(id) \/ Erase(id)
    \/ \E k \in 0..4 : Store(k)
    \/ \E l \in Levels, n \in Nodes : LinkBack(l, n)
    \/ \E d \in Nodes : Unlink(d)
    \/ EndPruning \/ Commit \/ Rollback
    \/ StartRebuild \/ EndRebuild

Spec == Init /\ [][Next]_vars

-----------------------------------------------------------------------------

\* Between insertions every link has its reverse ("bidirectional linking"), no
\* node links to itself, and both ends are present on the level: a search
\* never indexes a level that a node does not have.  No list is longer than
\* its limit, which the loader requires of a saved file.
LinksAreMutual ==
    phase = "idle" =>
        \A l \in Levels : \A n \in Nodes :
            /\ Cardinality(links[l][n]) <= Limit(l)
            /\ \A m \in links[l][n] :
                  m # n /\ n \in On(l) /\ m \in On(l) /\ n \in links[l][m]

\* The state is well typed.  Between insertions the tables describe the same
\* nodes, the ID map inverts the ID table, live and deleted nodes add up, and
\* the entry point is on the highest level, where a search starts.
TablesAgree ==
    /\ TypeOK
    /\ phase = "idle" =>
        /\ vectors = ids /\ Len(graph) = Len(ids)
        /\ \A i \in Ids : idToNode[i] # 0 => idToNode[i] <= Len(ids) /\ ids[idToNode[i]] = i
        /\ \A n \in 1..Len(ids) : idToNode[ids[n]] = n
        /\ deleted \subseteq 1..Len(ids)
        /\ deletedCount = Cardinality(deleted)
        /\ graph # <<>> => /\ entry \in 1..Len(graph)
                           /\ graph[entry] = maxLevel
                           /\ \A n \in 1..Len(graph) : graph[n] <= maxLevel

\* A rebuild in which no insertion threw has every live ID exactly once and no
\* tombstone: the tool's verification never refuses its result.
RebuildIsComplete ==
    /\ phase = "idle" /\ rebuild.state = "running" /\ rebuild.left = {} => Verified
    /\ rebuild.state = "running" => LiveIds \subseteq rebuild.live \ rebuild.left

\* Between insertions the tables and the links are what the loader requires of
\* a file and a search relies on, and a rebuild loses no live vector.
IndexIsSound == TablesAgree /\ LinksAreMutual /\ RebuildIsComplete

\* An insertion that throws leaves IDs, vectors, links, tombstones, entry point
\* and random state as they were; one that returns adds exactly one node.
AllOrNothing ==
    [][phase # "idle" /\ phase' = "idle" =>
          \/ index' = before
          \/ Len(ids') = saved.count + 1 /\ SubSeq(ids', 1, saved.count) = before[2]
                                         /\ deleted' = before[6]]_vars
=============================================================================
