--------------------------- MODULE HnswIndexFile ---------------------------
(***************************************************************************)
(* HNSW snapshots (src/src/hnsw_index_io.cpp): the writer, and the loader  *)
(* with its checks, against a file that changes while it is read.          *)
(*                                                                         *)
(* A file is a header and a sequence of cells, one for each integer the    *)
(* code writes; the widths of the integers are left out, so sizes count    *)
(* cells.  The FNV checksum is ideal: it names the content that it was     *)
(* computed over.  The loader takes one step for each part of the file, so *)
(* that other processes can rename or rewrite the path in between.  Nodes  *)
(* are numbered from 1.                                                    *)
(***************************************************************************)
EXTENDS Integers, Sequences, FiniteSets, SequencesExt

CONSTANTS
    Snapshots,      \* the indexes that are saved
    Disturbed,      \* those whose files other processes change (a bound)
    Cells,          \* what a changed cell can hold
    MaxLevel,       \* kMaximumLevel
    MaxNodes,       \* the largest 32-bit integer
    MaxWord,        \* the largest 64-bit integer
    MaxRandom,      \* kMaximumRngStateBytes
    MaxChanges      \* how often files change (a bound)

ASSUME WordsAssumption ==
    /\ MaxLevel \in Nat /\ MaxNodes \in Nat /\ MaxWord \in Nat /\ MaxRandom \in Nat \ {0}
    /\ MaxNodes <= MaxWord
    /\ Cells \subseteq 0..MaxWord /\ MaxChanges \in Nat

\* The members of HnswIndex that a file holds; a node has a list for each of
\* its levels, one at least.  The 2 in a file stands for the component -1.
Components == (Nat \ {2}) \union {-1}
Nodes == Seq(Seq(Nat)) \ {<<>>}
Indexes ==
    [dimension : Nat, m : Nat, efConstruction : Nat, efSearch : Nat, seed : Nat, selection : Nat,
     ids : Seq(Nat), vectors : Seq(Components), graph : Seq(Nodes), deleted : Seq(Nat),
     deletedCount : Nat, entry : Nat, maxLevel : Nat, random : Nat]

Limit(x, l) == IF l = 0 THEN 2 * x.m ELSE x.m
Row(vectors, n, d) == SubSeq(vectors, (n - 1) * d + 1, n * d)
SquaredNorm(v) == FoldLeft(LAMBDA sum, c : sum + c * c, 0, v)

\* What holds of an index that can be searched and extended without a reference
\* that goes nowhere, and what HnswIndex keeps: the tables have one entry for
\* each node, links lead to other nodes that exist on the layer and stay within
\* the limits, the entry point is on the highest level, and the live count is
\* that of the flags.
Sound(x) ==
    LET nodes == 1..Len(x.ids) IN
    /\ x.dimension # 0 /\ x.m >= 2 /\ x.efConstruction >= x.m /\ x.efSearch # 0 /\ x.selection <= 1
    /\ IsInjective(x.ids)
    /\ Len(x.vectors) = Len(x.ids) * x.dimension
    /\ Len(x.graph) = Len(x.ids) /\ Len(x.deleted) = Len(x.ids)
    /\ \A n \in nodes : x.deleted[n] <= 1
    /\ x.deletedCount = Cardinality({n \in nodes : x.deleted[n] = 1})
    /\ \A n \in nodes : SquaredNorm(Row(x.vectors, n, x.dimension)) = 1
    /\ x.maxLevel <= MaxLevel /\ \A n \in nodes : Len(x.graph[n]) \in 1..(x.maxLevel + 1)
    /\ IF nodes = {} THEN x.entry = 0 /\ x.maxLevel = 0
       ELSE x.entry \in nodes /\ Len(x.graph[x.entry]) = x.maxLevel + 1
    /\ \A n \in nodes : \A l \in DOMAIN x.graph[n] :
          LET list == x.graph[n][l] IN
          /\ IsInjective(list) /\ Len(list) <= Limit(x, l - 1)
          /\ \A e \in DOMAIN list : list[e] \in nodes \ {n} /\ l \in DOMAIN x.graph[list[e]]

ASSUME SnapshotsAssumption ==
    /\ Disturbed \subseteq Snapshots
    /\ Snapshots \subseteq Indexes
    /\ \A x \in Snapshots : Sound(x)

VARIABLES
    files,      \* the files by inode
    path,       \* the inode that the path names
    writing,    \* the index that a save in place still has to write, or NoIndex
    load,       \* the loader
    index,      \* the index it builds
    saved,      \* history: the indexes saved so far
    foreign,    \* history: some file comes from another program
    changes     \* how often files have changed

fileVars == <<files, path, writing, saved, foreign, changes>>
vars == <<fileVars, load, index>>

Inodes == 1..(MaxChanges + 1)
Versions == 1..3
Format == 0         \* magic, header size, byte order, flags and reserved field
HeaderCells == 13   \* kHeaderSize
EmptyEntry == MaxWord

NoIndex == [ids |-> <<>>, entry |-> 0]
NoHeader == [format |-> MaxWord]

-----------------------------------------------------------------------------
(* save() *)

\* The bits of a component: the numbers that the unit vectors here need.
Bits(v) == IF v = -1 THEN 2 ELSE v
Float(c) == IF c = 2 THEN -1 ELSE c

\* payload_bytes, which is computed before anything is written.
Total(s) ==
    LET total[n \in 0..Len(s)] == IF n = 0 THEN 0 ELSE total[n - 1] + s[n] IN total[Len(s)]
Edges(node) == Total([l \in 1..Len(node) |-> 1 + Len(node[l])])
PayloadSize(x) ==
    Len(x.ids) + Len(x.vectors) + Total([n \in 1..Len(x.graph) |-> 1 + Edges(x.graph[n])]) + 2 + 1 + Len(x.ids)

\* The numbers of node n: its level, then each list after its length.
NodeCells(node) ==
    <<Len(node) - 1>> \o FlattenSeq([l \in 1..Len(node) |-> <<Len(node[l])>> \o node[l]])

\* What version v holds after the graph: live count, tombstones, random state.
Trailer(x, v) ==
    (IF v = 3 THEN <<Len(x.ids) - x.deletedCount>> \o x.deleted ELSE <<>>)
    \o (IF v >= 2 THEN <<1, x.random>> ELSE <<>>)

Payload(x, v) ==
    x.ids \o [c \in 1..Len(x.vectors) |-> Bits(x.vectors[c])]
    \o FlattenSeq([n \in 1..Len(x.graph) |-> NodeCells(x.graph[n])]) \o Trailer(x, v)

Header(x, v, payload) ==
    [format |-> Format, version |-> v, dimension |-> x.dimension, count |-> Len(x.ids),
     m |-> x.m, efConstruction |-> x.efConstruction, efSearch |-> x.efSearch,
     seed |-> x.seed, selection |-> x.selection,
     maxLevel |-> IF x.ids = <<>> THEN 0 ELSE x.maxLevel,
     entry |-> IF x.ids = <<>> THEN EmptyEntry ELSE x.entry,
     payload |-> payload]

File(header, payload) ==
    [header |-> header, sum |-> <<header, payload>>, payload |-> payload]

\* What save() writes, and what older releases wrote.
Written(x) == File(Header(x, 3, PayloadSize(x)), Payload(x, 3))
WrittenBefore(x, v) == File(Header(x, v, Len(Payload(x, v))), Payload(x, v))

\* The checks before a file is opened.
Savable(x) ==
    /\ Len(x.ids) <= MaxNodes
    /\ Len(x.vectors) = Len(x.ids) * x.dimension
    /\ Len(x.graph) = Len(x.ids)
    /\ x.m <= MaxNodes \div 2
    /\ Cardinality({n \in 1..Len(x.graph) : x.deleted[n] = 1}) = x.deletedCount

\* The index that a file of version v stands for: the first version has no
\* random state, the first two no tombstones.
Recalled(x, v) == IF v = 1 THEN [x EXCEPT !.random = x.seed] ELSE x

-----------------------------------------------------------------------------
(* The sizes that a header allows *)

\* Mutation: the product wraps.
WrappingMultiply(a, b) == (a * b) % (MaxWord + 1)

\* checked_multiply: a product that does not fit is refused below.
CheckedMultiply(a, b) == a * b

MinimumPayload(h) ==
    h.count + CheckedMultiply(h.count, h.dimension) + 2 * h.count
    + (IF h.version >= 2 THEN 2 ELSE 0) + (IF h.version = 3 THEN 1 + h.count ELSE 0)

MaximumPayload(h) ==
    h.count + CheckedMultiply(h.count, h.dimension) + h.count * (1 + (MaxLevel + 1) * (1 + 2 * h.m))
    + (IF h.version >= 2 THEN 1 + MaxRandom ELSE 0) + (IF h.version = 3 THEN 1 + h.count ELSE 0)

\* An index with a file whose largest size, by its header, is a word: save() does
\* not ask for this, load() does.
Loadable(x) == MaximumPayload(Header(x, 3, 0)) <= MaxWord

-----------------------------------------------------------------------------
(* The file while it is read *)

\* The first n cells of a file; the checksum is the last cell of the header.
Prefix(f, n) ==
    IF n < HeaderCells THEN [header |-> NoHeader, sum |-> <<>>, payload |-> <<>>]
    ELSE [f EXCEPT !.payload = SubSeq(@, 1, n - HeaderCells)]

\* file_size
Size(f) == IF f.header = NoHeader THEN 0 ELSE HeaderCells + Len(f.payload)

\* The files that differ from f in one cell, or in length.
Altered(f) ==
    {[f EXCEPT !.header[h] = c] : h \in DOMAIN f.header, c \in Cells}
    \union {[f EXCEPT !.payload[p] = c] : p \in DOMAIN f.payload, c \in Cells}
    \union {[f EXCEPT !.sum = <<>>]}
    \union {[f EXCEPT !.payload = Append(@, c)] : c \in Cells}
    \union {Prefix(f, n) : n \in 0..Size(f)}

\* A whole file that load() is to accept.
Undisturbed(f) ==
    \E x \in saved : Loadable(x) /\ f \in {Written(x)} \union {WrittenBefore(x, v) : v \in Versions}

NoLoad == [phase |-> "closed", inode |-> 0, header |-> NoHeader, sum |-> <<>>, read |-> <<>>,
           layers |-> <<>>, level |-> 0, links |-> 0, clean |-> FALSE]

Init ==
    /\ path = 1
    /\ \E x \in Snapshots, v \in Versions :
          /\ Savable(x)
          /\ v < 3 => x.deletedCount = 0 /\ x \in Disturbed
          /\ files = [i \in Inodes |-> IF v = 3 THEN Written(x) ELSE WrittenBefore(x, v)]
          /\ saved = {x}
    /\ writing = NoIndex
    /\ load = NoLoad
    /\ index = NoIndex
    /\ foreign = FALSE
    /\ changes = 0

\* Bound: one file changes at a time, and only so often.
MayChange == writing = NoIndex /\ changes < MaxChanges /\ saved \subseteq Disturbed

\* f becomes the content of inode i.
Change(i, f) ==
    /\ changes' = changes + 1
    /\ files' = [files EXCEPT ![i] = f]
    /\ load' = [load EXCEPT !.clean = FALSE]

\* publish_hnsw_index: a complete file under a new inode.
Replace(x) ==
    /\ MayChange
    /\ Savable(x)
    /\ Change(path + 1, Written(x))
    /\ path' = path + 1
    /\ saved' = saved \union {x}
    /\ UNCHANGED <<writing, index, foreign>>

\* save_hnsw_index on the path itself: it truncates the file and writes.
Save(x) ==
    /\ MayChange
    /\ Savable(x)
    /\ \E n \in 0..Size(Written(x)) : Change(path, Prefix(Written(x), n))
    /\ writing' = x
    /\ saved' = saved \union {x}
    /\ UNCHANGED <<path, index, foreign>>

\* The rest of that save.
Flush ==
    /\ writing # NoIndex
    /\ files' = [files EXCEPT ![path] = Written(writing)]
    /\ writing' = NoIndex
    /\ UNCHANGED <<path, load, index, saved, foreign, changes>>

\* Accidental damage, which leaves the checksum as it is.
Damage ==
    /\ MayChange
    /\ files[path].header # NoHeader
    /\ \E f \in Altered(files[path]) \ {files[path]} : Change(path, f)
    /\ UNCHANGED <<path, writing, index, saved, foreign>>

\* A file that another program wrote, with a matching checksum.
OtherWriter ==
    /\ MayChange
    /\ load.phase = "closed"
    /\ files[path].header # NoHeader
    /\ \E f \in Altered(files[path]) : Change(path, [f EXCEPT !.sum = <<f.header, f.payload>>])
    /\ foreign' = TRUE
    /\ UNCHANGED <<path, writing, index, saved>>

-----------------------------------------------------------------------------
(* load() *)

Declared == load.header
Ahead(n) == SubSeq(files[load.inode].payload, Len(load.read) + 1, Len(load.read) + n)

\* read_integer finds n more integers.
Available(n) == Len(load.read) + n <= Len(files[load.inode].payload)

\* The payload that the header leaves after n more cells.
Remaining(n) == Declared.payload - Len(load.read) - n

Reject ==
    /\ load' = [NoLoad EXCEPT !.phase = "rejected", !.clean = load.clean]
    /\ index' = NoIndex

\* The cells of one part are read and belong to the checksum.
Accept(cells, next, x) ==
    /\ load' = [load EXCEPT !.read = @ \o cells, !.phase = next]
    /\ index' = x

\* A load opens the file; a second one only when something has changed.
Open ==
    /\ \/ load.phase = "closed"
       \/ load.phase \in {"loaded", "rejected"} /\ changes > 0 /\ ~load.clean
    /\ load' = [NoLoad EXCEPT !.phase = "header", !.inode = path,
                              !.clean = writing = NoIndex /\ Undisturbed(files[path])]
    /\ index' = NoIndex
    /\ UNCHANGED fileVars

ReadableHeader(h) == h # NoHeader /\ h.format = Format /\ h.version \in Versions

\* read_header
ReadHeader ==
    /\ load.phase = "header"
    /\ LET f == files[load.inode] IN
       IF ReadableHeader(f.header)
       THEN load' = [load EXCEPT !.header = f.header, !.sum = f.sum, !.phase = "size"] /\ UNCHANGED index
       ELSE Reject
    /\ UNCHANGED fileVars

\* validate_header; a sum that does not fit is refused.
ValidHeader(h, size) ==
    /\ h.dimension # 0
    /\ h.m >= 2 /\ h.m <= MaxNodes \div 2
    /\ h.efConstruction >= h.m
    /\ h.efSearch # 0
    /\ h.selection <= 1
    /\ h.count <= MaxNodes
    /\ h.maxLevel <= MaxLevel
    /\ MaximumPayload(h) <= MaxWord
    /\ h.payload \in MinimumPayload(h)..MaximumPayload(h)
    /\ HeaderCells + h.payload = size
    /\ IF h.count = 0 THEN h.entry = EmptyEntry /\ h.maxLevel = 0 ELSE h.entry \in 1..h.count

\* The new index before its nodes are read; an older file has no tombstones.
Constructed(h) ==
    [dimension |-> h.dimension, m |-> h.m, efConstruction |-> h.efConstruction,
     efSearch |-> h.efSearch, seed |-> h.seed, selection |-> h.selection,
     ids |-> <<>>, vectors |-> <<>>, graph |-> <<>>, deleted |-> [n \in 1..h.count |-> 0],
     deletedCount |-> 0, entry |-> 0, maxLevel |-> 0, random |-> h.seed]

\* The size is that of the file which the path names by now.
CheckSize ==
    /\ load.phase = "size"
    /\ IF ValidHeader(Declared, Size(files[path])) THEN Accept(<<>>, "ids", Constructed(Declared)) ELSE Reject
    /\ UNCHANGED fileVars

ReadIds ==
    /\ load.phase = "ids"
    /\ LET cells == Ahead(Declared.count) IN
       IF Available(Declared.count) /\ IsInjective(cells)
       THEN Accept(cells, "vectors", [index EXCEPT !.ids = cells])
       ELSE Reject
    /\ UNCHANGED fileVars

ReadVectors ==
    LET size == Declared.count * Declared.dimension IN
    /\ load.phase = "vectors"
    /\ IF Available(size)
       THEN LET values == [c \in 1..size |-> Float(Ahead(size)[c])] IN
            IF \A n \in 1..Declared.count : SquaredNorm(Row(values, n, Declared.dimension)) = 1
            THEN Accept(Ahead(size), "node", [index EXCEPT !.vectors = values])
            ELSE Reject
       ELSE Reject
    /\ UNCHANGED fileVars

\* The level of the next node.
ReadLevel ==
    /\ load.phase = "node"
    /\ Len(index.graph) < Declared.count
    /\ IF Available(1) /\ Ahead(1)[1] <= MaxLevel /\ Ahead(1)[1] <= Declared.maxLevel
       THEN /\ load' = [load EXCEPT !.read = @ \o Ahead(1), !.phase = "layer",
                                    !.level = Ahead(1)[1], !.layers = <<>>]
            /\ UNCHANGED index
       ELSE Reject
    /\ UNCHANGED fileVars

DegreeAllowed(degree, l) == degree <= (IF l = 0 THEN 2 ELSE 1) * Declared.m /\ degree < Declared.count

NeighborsAllowed(list, n) ==
    IsInjective(list) /\ \A e \in DOMAIN list : list[e] \in 1..Declared.count /\ list[e] # n

\* One adjacency list; the last one completes the node.
ReadLayer ==
    LET node == Len(index.graph) + 1
        degree == Ahead(1)[1]
        list == Tail(Ahead(1 + degree))
        layers == Append(load.layers, list)
    IN
    /\ load.phase = "layer"
    /\ IF /\ Available(1)
          /\ DegreeAllowed(degree, Len(load.layers))
          /\ degree <= Remaining(1)
          /\ Available(1 + degree)
          /\ NeighborsAllowed(list, node)
       THEN /\ load' = [load EXCEPT !.read = @ \o Ahead(1 + degree), !.links = @ + degree, !.layers = layers,
                                    !.phase = IF Len(layers) <= load.level THEN @ ELSE "node"]
            /\ index' = IF Len(layers) <= load.level THEN index ELSE [index EXCEPT !.graph = Append(@, layers)]
       ELSE Reject
    /\ UNCHANGED fileVars

\* Every neighbour is present on the layer that refers to it.
LayersAgree ==
    \A n \in DOMAIN index.graph : \A l \in DOMAIN index.graph[n] :
        \A e \in DOMAIN index.graph[n][l] : Len(index.graph[index.graph[n][l][e]]) >= l

\* The checks of the whole graph.
CheckGraph ==
    /\ load.phase = "node"
    /\ Len(index.graph) = Declared.count
    /\ IF /\ \/ Declared.count = 0
             \/ /\ \E n \in DOMAIN index.graph : Len(index.graph[n]) - 1 = Declared.maxLevel
                /\ Len(index.graph[Declared.entry]) - 1 = Declared.maxLevel
          /\ LayersAgree
       THEN Accept(<<>>, IF Declared.version = 3 THEN "tombstones" ELSE "random", index)
       ELSE Reject
    /\ UNCHANGED fileVars

\* The live count and one flag for each node.
ReadTombstones ==
    LET flags == Tail(Ahead(1 + Declared.count))
        deleted == Cardinality({n \in 1..Declared.count : flags[n] = 1})
    IN
    /\ load.phase = "tombstones"
    /\ IF /\ Available(1 + Declared.count)
          /\ Ahead(1)[1] <= Declared.count
          /\ \A n \in 1..Declared.count : flags[n] <= 1
          /\ Declared.count - deleted = Ahead(1)[1]
       THEN Accept(Ahead(1 + Declared.count), "random",
                   [index EXCEPT !.deleted = flags, !.deletedCount = deleted])
       ELSE Reject
    /\ UNCHANGED fileVars

\* The text of a random state: one number and nothing else.
Parses(text) == Len(text) = 1

\* The random state fills the rest of the payload; the first version has none.
ReadRandom ==
    /\ load.phase = "random"
    /\ IF Declared.version = 1 THEN Accept(<<>>, "sum", index)
       ELSE IF /\ Available(1)
               /\ Ahead(1)[1] \in 1..MaxRandom
               /\ Ahead(1)[1] = Remaining(1)
               /\ Available(1 + Ahead(1)[1])
               /\ Parses(Tail(Ahead(1 + Ahead(1)[1])))
       THEN Accept(Ahead(1 + Ahead(1)[1]), "sum", [index EXCEPT !.random = Ahead(2)[2]])
       ELSE Reject
    /\ UNCHANGED fileVars

\* Mutation: the tombstones and the random state are not summed up.
ChecksumOfGraph(h, cells) ==
    load.sum # <<>> /\ load.sum[1] = h
    /\ LET tail == IF h.version = 3 THEN h.count + 3 ELSE IF h.version = 2 THEN 2 ELSE 0
       IN  SubSeq(load.sum[2], 1, Len(load.sum[2]) - tail) = SubSeq(cells, 1, Len(cells) - tail)

\* The checksum of everything that was read is the stored one.
ChecksumMatches(h, cells) == load.sum = <<h, cells>>

\* The end of load(): the entry point and the maximum level.
CheckSum ==
    /\ load.phase = "sum"
    /\ IF ChecksumMatches(Declared, load.read)
       THEN /\ load' = [NoLoad EXCEPT !.phase = "loaded", !.header = Declared, !.clean = load.clean]
            /\ index' = [index EXCEPT !.entry = IF Declared.count = 0 THEN 0 ELSE Declared.entry,
                                      !.maxLevel = Declared.maxLevel]
       ELSE Reject
    /\ UNCHANGED fileVars

Load ==
    \/ Open \/ ReadHeader \/ CheckSize \/ ReadIds \/ ReadVectors \/ ReadLevel \/ ReadLayer
    \/ CheckGraph \/ ReadTombstones \/ ReadRandom \/ CheckSum

Others ==
    \/ \E x \in Disturbed : Replace(x) \/ Save(x)
    \/ load.phase = "loaded" /\ Save(index)
    \/ Flush \/ Damage \/ OtherWriter

Next == Load \/ Others

Spec == Init /\ [][Next]_vars

-----------------------------------------------------------------------------

\* Whoever wrote the file, an index that load() returns is sound.
LoadedIsSound == load.phase = "loaded" => Sound(index)

\* As long as every file comes from this program, load() returns an index that
\* was saved, with its tombstones and its random state, or nothing: whatever
\* cell was damaged, and whoever renamed or rewrote the path while it was
\* read.  Undisturbed, it does return it, unless the size that the header allows
\* exceeds a word.
LoadedIsSaved ==
    /\ load.phase = "loaded" /\ ~foreign => \E x \in saved : index = Recalled(x, load.header.version)
    /\ load.phase = "rejected" => ~load.clean

\* "validates bounded sizes before allocation": the tables that load() reserves
\* before it has read a node are no larger than the payload that the header
\* declares and the file system confirms, and neither are the IDs, the vectors
\* and all links together, although each list is reserved before it is read
\* and the file may change.
AllocationIsBounded ==
    load.phase \in {"ids", "vectors", "node", "layer", "tombstones", "random", "sum"} =>
        /\ Declared.count + Declared.count * Declared.dimension + Declared.count <= Declared.payload
        /\ Declared.count + Declared.count * Declared.dimension + load.links <= Declared.payload

\* A load reserves no more than the file can fill, and what it returns can be
\* searched and extended, whoever wrote the file.
LoadIsSafe == AllocationIsBounded /\ LoadedIsSound
=============================================================================
