-------------------------- MODULE HnswSearchProofs --------------------------
(***************************************************************************)
(* Proofs about loading and searching the HNSW index, for any snapshots,   *)
(* files and queries.                                                      *)
(*                                                                         *)
(* Facts about data that need induction are proved from a least            *)
(* counterexample, which LeastNumber provides.                             *)
(***************************************************************************)
EXTENDS HnswSearch, FiniteSetTheorems, WellFoundedInduction, TLAPS

(* Induction over data *)

\* A set of numbers that is not empty has a least member.
LEMMA LeastNumber ==
  ASSUME NEW S, S \subseteq Nat, S # {}
  PROVE  \E n \in S : \A k \in S : n <= k
<1> DEFINE Less == {p \in Nat \X Nat : p[1] < p[2]}
<1>1. IsWellFoundedOn(Less, Nat)
  BY NatLessThanWellFounded DEF OpToRel
<1>2. \E n \in S : \A k \in S : ~(<<k, n>> \in Less)
  BY <1>1, WFMin
<1>3. \A k, n \in Nat : <<k, n>> \in Less <=> k < n
  OBVIOUS
<1> HIDE DEF Less
<1>4. PICK n \in S : \A k \in S : ~(<<k, n>> \in Less)
  BY <1>2
<1>5. ASSUME NEW k \in S PROVE n <= k
  <2>1. k \in Nat /\ n \in Nat
    OBVIOUS
  <2>2. ~(k < n)
    BY <1>3, <1>4, <2>1, Zenon
  <2> QED BY <2>1, <2>2
<1> QED BY <1>5

\* What holds of 0 and is passed on holds up to n: S collects the numbers that
\* it holds of.
LEMMA UpTo ==
  ASSUME NEW n \in Nat, NEW S, 0 \in S, \A k \in 0..(n - 1) : k \in S => k + 1 \in S
  PROVE  0..n \subseteq S
<1> SUFFICES ASSUME ~(0..n \subseteq S) PROVE FALSE
  OBVIOUS
<1> DEFINE Bad == {k \in 0..n : k \notin S}
<1>1. Bad \subseteq Nat /\ Bad # {}
  OBVIOUS
<1>2. PICK k \in Bad : \A l \in Bad : k <= l
  BY <1>1, LeastNumber
<1>3. k # 0 /\ k \in 1..n
  BY <1>2
<1>4. k - 1 \in 0..(n - 1) /\ k - 1 \notin Bad
  BY <1>2, <1>3
<1>5. k - 1 \in S /\ (k - 1) + 1 = k
  BY <1>3, <1>4
<1> QED BY <1>2, <1>4, <1>5

\* The largest of some of the numbers up to n.
LEMMA LargestNumber ==
  ASSUME NEW n \in Nat, NEW T, T \subseteq 1..n, T # {}
  PROVE  Max(T) \in T /\ \A k \in T : Max(T) >= k
<1> DEFINE Bounds == {u \in 0..n : \A k \in T : k <= u}
<1>1. Bounds \subseteq Nat /\ n \in Bounds
  OBVIOUS
<1>2. PICK u \in Bounds : \A b \in Bounds : u <= b
  BY <1>1, LeastNumber
<1>3. u \in T
  <2> SUFFICES ASSUME u \notin T PROVE FALSE
    OBVIOUS
  <2>1. PICK k \in T : TRUE
    OBVIOUS
  <2>3. k <= u /\ k \in 1..n /\ u \in 0..n
    BY <1>2
  <2>2. u - 1 \in Bounds
    BY <1>2, <2>3
  <2> QED BY <1>2, <2>2
<1>4. \E x \in T : \A y \in T : x >= y
  BY <1>2, <1>3
<1> QED BY <1>4 DEF Max

\* A function on 1..n whose value at i is computed from the one at i - 1: the
\* partial results of FlattenSeq.
Flattens(f, ss, n) ==
    \A i \in 1..n : f[i] = IF i = 1 THEN ss[i] ELSE f[i - 1] \o ss[i]

LEMMA FlattenExists ==
  ASSUME NEW S, NEW ss \in Seq(Seq(S))
  PROVE  \E f \in [1..Len(ss) -> Seq(S)] : Flattens(f, ss, Len(ss))
<1> DEFINE n == Len(ss)
           Good == {k \in 0..n : \E f \in [1..k -> Seq(S)] : Flattens(f, ss, k)}
<1>1. n \in Nat /\ \A i \in 1..n : ss[i] \in Seq(S)
  OBVIOUS
<1>2. 0 \in Good
  <2> DEFINE none == [i \in 1..0 |-> <<>>]
  <2>1. none \in [1..0 -> Seq(S)]
    OBVIOUS
  <2>2. Flattens(none, ss, 0)
    BY DEF Flattens
  <2>3. \E f \in [1..0 -> Seq(S)] : Flattens(f, ss, 0)
    BY <2>1, <2>2, Zenon
  <2>4. 0 \in 0..n
    BY <1>1
  <2> QED BY <2>3, <2>4, Zenon
<1>3. ASSUME NEW k \in 0..(n - 1), k \in Good PROVE k + 1 \in Good
  <2>1. PICK f \in [1..k -> Seq(S)] : Flattens(f, ss, k)
    BY <1>3
  <2> DEFINE new == IF k = 0 THEN ss[1] ELSE f[k] \o ss[k + 1]
             g == [i \in 1..(k + 1) |-> IF i = k + 1 THEN new ELSE f[i]]
  <2>2. new \in Seq(S)
    <3>1. CASE k = 0
      BY <1>1, <3>1
    <3>2. CASE k # 0
      <4>1. f[k] \in Seq(S) /\ ss[k + 1] \in Seq(S)
        BY <1>1, <3>2
      <4> QED BY <3>2, <4>1
    <3> QED BY <3>1, <3>2
  <2>3. g \in [1..(k + 1) -> Seq(S)]
    BY <2>2
  <2>4. ASSUME NEW i \in 1..(k + 1) PROVE g[i] = IF i = 1 THEN ss[i] ELSE g[i - 1] \o ss[i]
    <3> HIDE DEF new
    <3>1. CASE i = k + 1
      <4>1. g[k + 1] = new /\ (k # 0 => g[k] = f[k])
        OBVIOUS
      <4> QED BY <3>1, <4>1 DEF new
    <3>2. CASE i # k + 1
      <4>1. i \in 1..k /\ (i # 1 => i - 1 \in 1..k) /\ k + 1 \notin 1..k
        BY <3>2
      <4>3. \A j \in 1..k : j \in 1..(k + 1) /\ g[j] = f[j]
        BY <4>1
      <4>2. g[i] = f[i] /\ (i # 1 => g[i - 1] = f[i - 1])
        BY <4>1, <4>3
      <4> QED BY <2>1, <4>1, <4>2 DEF Flattens
    <3> QED BY <3>1, <3>2
  <2>5. Flattens(g, ss, k + 1)
    BY <2>4 DEF Flattens
  <2> HIDE DEF g
  <2> QED BY <2>3, <2>5
<1>4. 0..n \subseteq Good
  BY <1>1, <1>2, <1>3, UpTo
<1> QED BY <1>1, <1>4

\* The partial results of FlattenSeq, the last of which it returns.
LEMMA FlattenSteps ==
  ASSUME NEW S, NEW ss \in Seq(Seq(S)), ss # <<>>
  PROVE  \E f \in [1..Len(ss) -> Seq(S)] : Flattens(f, ss, Len(ss)) /\ FlattenSeq(ss) = f[Len(ss)]
<1> DEFINE n == Len(ss)
           Whole(f) == f = [i \in 1..n |-> IF i = 1 THEN ss[i] ELSE f[i - 1] \o ss[i]]
<1>1. n \in Nat \ {0} /\ \A i \in 1..n : ss[i] \in Seq(S)
  OBVIOUS
<1>2. PICK f \in [1..n -> Seq(S)] : Flattens(f, ss, n)
  BY FlattenExists
<1>3. Whole(f)
  BY <1>2 DEF Flattens
<1>4. FlattenSeq(ss) = (CHOOSE g : Whole(g))[n]
  BY <1>1 DEF FlattenSeq
<1> DEFINE g == CHOOSE h : Whole(h)
<1>5. Whole(g)
  BY <1>3
<1> HIDE DEF g
<1>6. g = [i \in 1..n |-> g[i]] /\ Flattens(g, ss, n)
  BY <1>5 DEF Flattens
<1> DEFINE Good == {k \in 0..n : k = 0 \/ g[k] = f[k]}
<1>7. 0 \in Good
  BY <1>1
<1>8. ASSUME NEW k \in 0..(n - 1), k \in Good PROVE k + 1 \in Good
  <2>1. k + 1 \in 1..n /\ (k + 1 = 1 <=> k = 0) /\ (k + 1) - 1 = k
    BY <1>1
  <2>2. g[k + 1] = f[k + 1]
    <3>1. f[k + 1] = IF k = 0 THEN ss[k + 1] ELSE f[k] \o ss[k + 1]
      BY <1>2, <2>1 DEF Flattens
    <3>2. g[k + 1] = IF k = 0 THEN ss[k + 1] ELSE g[k] \o ss[k + 1]
      BY <1>6, <2>1 DEF Flattens
    <3> QED BY <1>8, <3>1, <3>2
  <2> QED BY <2>1, <2>2
<1>9. 0..n \subseteq Good
  BY <1>1, <1>7, <1>8, UpTo
<1>10. g[n] = f[n]
  BY <1>1, <1>9
<1> QED BY <1>2, <1>4, <1>10 DEF g

LEMMA FlattenType ==
  ASSUME NEW S, NEW ss \in Seq(Seq(S))
  PROVE  FlattenSeq(ss) \in Seq(S)
<1>1. CASE ss = <<>>
  BY <1>1 DEF FlattenSeq
<1>2. CASE ss # <<>>
  <2>1. PICK f \in [1..Len(ss) -> Seq(S)] : FlattenSeq(ss) = f[Len(ss)]
    BY <1>2, FlattenSteps
  <2>2. Len(ss) \in 1..Len(ss)
    BY <1>2
  <2> QED BY <2>1, <2>2
<1> QED BY <1>1, <1>2

-----------------------------------------------------------------------------
(* Types of the files and of the loader *)

\* A header with numbers in its fields; payload_bytes is whatever was computed.
Headers(p) ==
    [format : Nat, version : Nat, dimension : Nat, count : Nat, m : Nat, efConstruction : Nat,
     efSearch : Nat, seed : Nat, selection : Nat, maxLevel : Nat, entry : Nat, payload : {p}]
IsHeader(h) == h \in Headers(h.payload)

\* A file of numbers, whole or not.
IsFile(f) ==
    /\ f \in [header : {f.header}, sum : {f.sum}, payload : Seq(Nat)]
    /\ f.header = NoHeader \/ IsHeader(f.header)

\* An index that can be saved.
IsIndex(x) == x \in Indexes /\ Savable(x)

FilesAreTyped ==
    /\ changes \in 0..MaxChanges /\ path \in 1..(changes + 1)
    /\ files = [i \in Inodes |-> files[i]]
    /\ \A i \in Inodes : IsFile(files[i])
    /\ writing # NoIndex => IsIndex(writing)

Sized == {"ids", "vectors", "node", "layer", "tombstones", "random", "sum", "loaded"}
Phases == {"closed", "rejected", "header", "size"} \union Sized

\* The state of a load.
IsLoad(l) ==
    /\ l = [phase |-> l.phase, inode |-> l.inode, header |-> l.header, sum |-> l.sum, read |-> l.read,
            layers |-> l.layers, level |-> l.level, links |-> l.links, clean |-> l.clean]
    /\ l.phase \in Phases /\ l.inode \in 0..(MaxChanges + 1)
    /\ l.read \in Seq(Nat) /\ l.layers \in Seq(Seq(Nat)) /\ l.level \in Nat /\ l.links \in Nat
    /\ l.clean \in BOOLEAN

LoadIsTyped ==
    /\ IsLoad(load)
    /\ load.phase \notin {"closed", "rejected", "loaded"} => load.inode \in Inodes
    /\ load.phase \in Sized \union {"size"} => IsHeader(load.header)
    /\ load.phase \in Sized => index \in Indexes

LEMMA HeaderType ==
  ASSUME NEW h, IsHeader(h)
  PROVE  /\ h.version \in Nat /\ h.dimension \in Nat /\ h.count \in Nat /\ h.m \in Nat
         /\ h.efConstruction \in Nat /\ h.efSearch \in Nat /\ h.seed \in Nat /\ h.selection \in Nat
         /\ h.maxLevel \in Nat /\ h.entry \in Nat
         /\ h.count * h.dimension \in Nat
BY DEF IsHeader, Headers

LEMMA FileType ==
  ASSUME NEW f, IsFile(f)
  PROVE  /\ f = [header |-> f.header, sum |-> f.sum, payload |-> f.payload]
         /\ f.payload \in Seq(Nat) /\ (f.header = NoHeader \/ IsHeader(f.header))
BY DEF IsFile

LEMMA MakeFile ==
  ASSUME NEW h, NEW s, NEW p \in Seq(Nat), h = NoHeader \/ IsHeader(h)
  PROVE  IsFile([header |-> h, sum |-> s, payload |-> p])
BY DEF IsFile

\* The cells that a save writes are numbers.
LEMMA PayloadType ==
  ASSUME NEW x, IsIndex(x), NEW v \in Versions
  PROVE  Payload(x, v) \in Seq(Nat)
<1>1. x \in Indexes /\ Savable(x)
  BY DEF IsIndex
<1>2. x.ids \in Seq(Nat) /\ x.graph \in Seq(Nodes) /\ x.vectors \in Seq(Components)
      /\ x.deleted \in Seq(Nat) /\ x.deletedCount \in Nat /\ x.random \in Nat
  BY <1>1 DEF Indexes
<1>3. [c \in 1..Len(x.vectors) |-> Bits(x.vectors[c])] \in Seq(Nat)
  <2>1. \A c \in 1..Len(x.vectors) : x.vectors[c] \in Components
    BY <1>2
  <2>2. \A c \in 1..Len(x.vectors) : Bits(x.vectors[c]) \in Nat
    BY <2>1 DEF Bits, Components
  <2>3. Len(x.vectors) \in Nat
    BY <1>2
  <2> QED BY <2>2, <2>3
<1>4. ASSUME NEW n \in 1..Len(x.graph) PROVE NodeCells(x.graph[n]) \in Seq(Nat)
  <2> DEFINE node == x.graph[n]
             lists == [l \in 1..Len(node) |-> <<Len(node[l])>> \o node[l]]
  <2>1. node \in Seq(Seq(Nat)) /\ node # <<>>
    BY <1>2 DEF Nodes
  <2>2. Len(node) \in Nat /\ \A l \in 1..Len(node) : node[l] \in Seq(Nat) /\ Len(node[l]) \in Nat
    BY <2>1
  <2> HIDE DEF node
  <2>3. \A l \in 1..Len(node) : <<Len(node[l])>> \o node[l] \in Seq(Nat)
    BY <2>2
  <2>4. lists \in Seq(Seq(Nat))
    BY <2>2, <2>3
  <2> HIDE DEF lists
  <2>5. FlattenSeq(lists) \in Seq(Nat)
    BY <2>4, FlattenType
  <2>6. Len(node) - 1 \in Nat /\ <<Len(node) - 1>> \in Seq(Nat)
    BY <2>1
  <2> QED BY <2>5, <2>6 DEF NodeCells, node, lists
<1>5. FlattenSeq([n \in 1..Len(x.graph) |-> NodeCells(x.graph[n])]) \in Seq(Nat)
  <2> DEFINE cells == [n \in 1..Len(x.graph) |-> NodeCells(x.graph[n])]
  <2>1. Len(x.graph) \in Nat
    BY <1>2
  <2>2. cells \in Seq(Seq(Nat))
    BY <1>4, <2>1
  <2> HIDE DEF cells
  <2>3. FlattenSeq(cells) \in Seq(Nat)
    BY <2>2, FlattenType
  <2> QED BY <2>3 DEF cells
<1>6. Trailer(x, v) \in Seq(Nat)
  <2> DEFINE flagged == {n \in 1..Len(x.graph) : x.deleted[n] = 1}
  <2>1. Len(x.graph) \in Nat /\ Len(x.graph) = Len(x.ids) /\ Cardinality(flagged) = x.deletedCount
    BY <1>1, <1>2 DEF Savable
  <2>8. IsFiniteSet(1..Len(x.graph)) /\ flagged \subseteq 1..Len(x.graph)
    BY <2>1, FS_Interval
  <2>2. Cardinality(flagged) <= Cardinality(1..Len(x.graph))
    BY <2>8, FS_Subset
  <2>3. Cardinality(1..Len(x.graph)) = Len(x.graph)
    BY <2>1, FS_Interval
  <2>4. Len(x.ids) - x.deletedCount \in Nat
    BY <1>2, <2>1, <2>2, <2>3
  <2>5. <<Len(x.ids) - x.deletedCount>> \o x.deleted \in Seq(Nat) /\ <<1, x.random>> \in Seq(Nat)
        /\ <<>> \in Seq(Nat)
    BY <1>2, <2>4
  <2> DEFINE a == IF v = 3 THEN <<Len(x.ids) - x.deletedCount>> \o x.deleted ELSE <<>>
             b == IF v >= 2 THEN <<1, x.random>> ELSE <<>>
  <2>6. a \in Seq(Nat) /\ b \in Seq(Nat)
    BY <2>5
  <2>7. Trailer(x, v) = a \o b
    BY DEF Trailer
  <2> HIDE DEF a, b
  <2> QED BY <2>6, <2>7
<1> DEFINE a == x.ids
           b == [c \in 1..Len(x.vectors) |-> Bits(x.vectors[c])]
           c == FlattenSeq([n \in 1..Len(x.graph) |-> NodeCells(x.graph[n])])
           d == Trailer(x, v)
<1>7. a \in Seq(Nat) /\ b \in Seq(Nat) /\ c \in Seq(Nat) /\ d \in Seq(Nat)
  BY <1>2, <1>3, <1>5, <1>6
<1>8. Payload(x, v) = a \o b \o c \o d
  BY DEF Payload
<1> HIDE DEF a, b, c, d
<1> QED BY <1>7, <1>8

\* save() writes a file of numbers, and so did older releases.
LEMMA WrittenType ==
  ASSUME NEW x, IsIndex(x)
  PROVE  IsFile(Written(x)) /\ \A v \in Versions : IsFile(WrittenBefore(x, v))
<1>1. x \in Indexes /\ MaxWord \in Nat /\ Len(x.ids) \in Nat
  BY WordsAssumption DEF IsIndex, Indexes
<1>2. ASSUME NEW v \in Versions, NEW p PROVE IsHeader(Header(x, v, p))
  <2> DEFINE h == Header(x, v, p)
  <2>1. h \in Headers(p) /\ h.payload = p
    BY <1>1 DEF Header, Headers, Indexes, Versions, Format, EmptyEntry
  <2> QED BY <2>1 DEF IsHeader
<1>3. 3 \in Versions
  BY DEF Versions
<1>4. ASSUME NEW v \in Versions, NEW p PROVE IsFile(File(Header(x, v, p), Payload(x, v)))
  BY <1>2, PayloadType, MakeFile DEF File
<1> QED BY <1>3, <1>4 DEF Written, WrittenBefore

\* A part of a file is a file.
LEMMA PrefixType ==
  ASSUME NEW f, IsFile(f), NEW n \in 0..Size(f)
  PROVE  IsFile(Prefix(f, n))
<1>1. f = [header |-> f.header, sum |-> f.sum, payload |-> f.payload]
      /\ f.payload \in Seq(Nat) /\ (f.header = NoHeader \/ IsHeader(f.header))
  BY FileType
<1>2. CASE n < HeaderCells
  <2>1. <<>> \in Seq(Nat)
    OBVIOUS
  <2> QED BY <1>2, <2>1, MakeFile DEF Prefix
<1>3. CASE ~(n < HeaderCells)
  <2> DEFINE part == SubSeq(f.payload, 1, n - HeaderCells)
  <2>1. n - HeaderCells \in Nat /\ n - HeaderCells <= Len(f.payload)
    BY <1>1, <1>3 DEF Size, HeaderCells
  <2>2. part \in Seq(Nat)
    BY <1>1, <2>1
  <2>3. Prefix(f, n) = [header |-> f.header, sum |-> f.sum, payload |-> part]
    BY <1>1, <1>3 DEF Prefix
  <2> HIDE DEF part
  <2> QED BY <1>1, <2>2, <2>3, MakeFile
<1> QED BY <1>2, <1>3

\* Damage and other programs leave numbers in the cells.
LEMMA AlteredType ==
  ASSUME NEW f, IsFile(f), f.header # NoHeader, NEW g \in Altered(f)
  PROVE  IsFile(g) /\ IsFile([g EXCEPT !.sum = <<g.header, g.payload>>])
<1>1. f = [header |-> f.header, sum |-> f.sum, payload |-> f.payload]
      /\ f.payload \in Seq(Nat) /\ IsHeader(f.header)
  BY FileType
<1>2. Cells \subseteq Nat
  BY WordsAssumption
<1>3. IsFile(g)
  <2>1. ASSUME NEW h \in DOMAIN f.header, NEW c \in Cells, g = [f EXCEPT !.header[h] = c] PROVE IsFile(g)
    <3> DEFINE new == [f.header EXCEPT ![h] = c]
    <3>3. IsHeader(new)
      BY <1>1, <1>2 DEF IsHeader, Headers
    <3>4. g = [header |-> new, sum |-> f.sum, payload |-> f.payload]
      BY <1>1, <2>1
    <3> HIDE DEF new
    <3> QED BY <1>1, <3>3, <3>4, MakeFile
  <2>2. ASSUME NEW p \in DOMAIN f.payload, NEW c \in Cells, g = [f EXCEPT !.payload[p] = c] PROVE IsFile(g)
    <3> DEFINE new == [f.payload EXCEPT ![p] = c]
    <3>1. new \in Seq(Nat)
      BY <1>1, <1>2
    <3>2. g = [header |-> f.header, sum |-> f.sum, payload |-> new]
      BY <1>1, <2>2
    <3> HIDE DEF new
    <3> QED BY <1>1, <3>1, <3>2, MakeFile
  <2>3. ASSUME g = [f EXCEPT !.sum = <<>>] PROVE IsFile(g)
    <3>1. g = [header |-> f.header, sum |-> <<>>, payload |-> f.payload]
      BY <1>1, <2>3
    <3> QED BY <1>1, <3>1, MakeFile
  <2>4. ASSUME NEW c \in Cells, g = [f EXCEPT !.payload = Append(@, c)] PROVE IsFile(g)
    <3> DEFINE new == Append(f.payload, c)
    <3>1. new \in Seq(Nat)
      BY <1>1, <1>2
    <3>2. g = [header |-> f.header, sum |-> f.sum, payload |-> new]
      BY <1>1, <2>4
    <3> HIDE DEF new
    <3> QED BY <1>1, <3>1, <3>2, MakeFile
  <2>5. ASSUME NEW n \in 0..Size(f), g = Prefix(f, n) PROVE IsFile(g)
    BY <2>5, PrefixType
  <2>6. \/ \E h \in DOMAIN f.header, c \in Cells : g = [f EXCEPT !.header[h] = c]
        \/ \E p \in DOMAIN f.payload, c \in Cells : g = [f EXCEPT !.payload[p] = c]
        \/ g = [f EXCEPT !.sum = <<>>]
        \/ \E c \in Cells : g = [f EXCEPT !.payload = Append(@, c)]
        \/ \E n \in 0..Size(f) : g = Prefix(f, n)
    BY DEF Altered
  <2> QED BY <2>1, <2>2, <2>3, <2>4, <2>5, <2>6, Zenon
<1>4. IsFile([g EXCEPT !.sum = <<g.header, g.payload>>])
  <2> DEFINE sum == <<g.header, g.payload>>
  <2>1. g = [header |-> g.header, sum |-> g.sum, payload |-> g.payload]
        /\ g.payload \in Seq(Nat) /\ (g.header = NoHeader \/ IsHeader(g.header))
    BY <1>3, FileType
  <2> HIDE DEF sum
  <2>2. [g EXCEPT !.sum = sum] = [header |-> g.header, sum |-> sum, payload |-> g.payload]
    BY <2>1
  <2>3. IsFile([header |-> g.header, sum |-> sum, payload |-> g.payload])
    BY <2>1, MakeFile
  <2>4. IsFile([g EXCEPT !.sum = sum])
    BY <2>2, <2>3, Zenon
  <2> QED BY <2>4 DEF sum
<1> QED BY <1>3, <1>4

-----------------------------------------------------------------------------
(* The invariant of the loader *)

\* What validate_header leaves of a header.
HeaderIsSound(h) ==
    /\ h.dimension # 0 /\ h.m >= 2 /\ h.efConstruction >= h.m /\ h.efSearch # 0 /\ h.selection <= 1
    /\ h.maxLevel <= MaxLevel /\ (h.count = 0 => h.maxLevel = 0)
    /\ h.payload \in Nat /\ h.count + h.count * h.dimension + 2 * h.count <= h.payload
    /\ h.count # 0 => h.entry \in 1..h.count

\* An adjacency list of level l - 1 of node n, and a node.
ListIsSound(h, list, l, n) ==
    /\ IsInjective(list) /\ Len(list) <= (IF l = 1 THEN 2 * h.m ELSE h.m)
    /\ \A e \in DOMAIN list : list[e] \in (1..h.count) \ {n}
NodeIsSound(h, node, n) ==
    /\ Len(node) \in 1..(h.maxLevel + 1)
    /\ \A l \in DOMAIN node : ListIsSound(h, node[l], l, n)

\* The index has the parameters of the header.
HeaderIsKept ==
    load.phase \in Sized =>
        /\ HeaderIsSound(load.header)
        /\ index.dimension = load.header.dimension /\ index.m = load.header.m
        /\ index.efConstruction = load.header.efConstruction
        /\ index.efSearch = load.header.efSearch /\ index.selection = load.header.selection

\* The tables that were read have one entry for each node.
TablesAreSound ==
    load.phase \in Sized =>
        LET h == load.header IN
        /\ Len(index.deleted) = h.count /\ \A n \in 1..h.count : index.deleted[n] <= 1
        /\ index.deletedCount = Cardinality({n \in 1..h.count : index.deleted[n] = 1})
        /\ load.phase # "ids" => Len(index.ids) = h.count /\ IsInjective(index.ids)
        /\ load.phase \notin {"ids", "vectors"} =>
              /\ Len(index.vectors) = h.count * h.dimension
              /\ \A n \in 1..h.count : SquaredNorm(Row(index.vectors, n, h.dimension)) = 1

\* The nodes that were read are sound, and so are the lists of the next one.
GraphIsSound ==
    load.phase \in Sized =>
        LET h == load.header IN
        /\ Len(index.graph) <= h.count
        /\ \A n \in 1..Len(index.graph) : NodeIsSound(h, index.graph[n], n)
        /\ load.phase = "layer" =>
              /\ Len(index.graph) < h.count
              /\ load.level <= h.maxLevel /\ Len(load.layers) <= load.level
              /\ \A l \in 1..Len(load.layers) : ListIsSound(h, load.layers[l], l, Len(index.graph) + 1)

\* The checks of the whole graph hold from then on.
GraphIsChecked ==
    load.phase \in {"tombstones", "random", "sum", "loaded"} =>
        LET h == load.header IN
        /\ Len(index.graph) = h.count /\ LayersAgree
        /\ h.count # 0 => Len(index.graph[h.entry]) = h.maxLevel + 1
        /\ load.phase = "loaded" =>
              index.maxLevel = h.maxLevel /\ index.entry = IF h.count = 0 THEN 0 ELSE h.entry

\* Every link that was reserved is among the cells that were read, after the
\* IDs and the vectors.
LinksAreRead ==
    LET h == load.header IN
    /\ load.phase \in {"header", "size", "ids", "vectors"} => load.links = 0
    /\ load.phase = "vectors" => h.count <= Len(load.read)
    /\ load.phase \in {"node", "layer"} => h.count + h.count * h.dimension + load.links <= Len(load.read)
    /\ load.phase \in Sized \ {"loaded"} => h.count + h.count * h.dimension + load.links <= h.payload

LoadIInv ==
    /\ FilesAreTyped /\ LoadIsTyped
    /\ HeaderIsKept /\ TablesAreSound /\ GraphIsSound /\ GraphIsChecked /\ LinksAreRead

\* The parts of the invariant about the loader, as opposed to the files.
LoaderIInv == LoadIsTyped /\ HeaderIsKept /\ TablesAreSound /\ GraphIsSound /\ GraphIsChecked /\ LinksAreRead

\* The cells that are read next.
LEMMA AheadType ==
  ASSUME FilesAreTyped, LoadIsTyped, load.inode \in Inodes, NEW n \in Nat, Available(n)
  PROVE  /\ Ahead(n) \in Seq(Nat) /\ Len(Ahead(n)) = n
         /\ \A i \in 1..n : Ahead(n)[i] \in Nat
         /\ n >= 1 => Tail(Ahead(n)) \in Seq(Nat) /\ Len(Tail(Ahead(n))) = n - 1
<1> DEFINE p == files[load.inode].payload
           r == Len(load.read)
<1>1. p \in Seq(Nat)
  BY FileType DEF FilesAreTyped
<1>2. r \in Nat
  BY DEF LoadIsTyped
<1>3. r + n <= Len(p)
  BY DEF Available
<1> HIDE DEF p, r
<1>4. SubSeq(p, r + 1, r + n) \in Seq(Nat) /\ Len(SubSeq(p, r + 1, r + n)) = n
  BY <1>1, <1>2, <1>3
<1>5. Ahead(n) \in Seq(Nat) /\ Len(Ahead(n)) = n
  BY <1>4 DEF Ahead, p, r
<1> HIDE DEF Ahead
<1> QED BY <1>5

\* Cells that are read after others.
LEMMA Appended ==
  ASSUME NEW a \in Seq(Nat), NEW b \in Seq(Nat)
  PROVE  a \o b \in Seq(Nat) /\ Len(a \o b) = Len(a) + Len(b)
OBVIOUS

\* The state of a load from its fields.
LEMMA MakeLoad ==
  ASSUME NEW phase \in Phases, NEW inode \in 0..(MaxChanges + 1), NEW header, NEW sum,
         NEW read \in Seq(Nat), NEW layers \in Seq(Seq(Nat)), NEW level \in Nat, NEW links \in Nat,
         NEW clean \in BOOLEAN
  PROVE  IsLoad([phase |-> phase, inode |-> inode, header |-> header, sum |-> sum, read |-> read,
                 layers |-> layers, level |-> level, links |-> links, clean |-> clean])
BY DEF IsLoad

\* The loader before it has read anything.
LEMMA NoLoadType ==
  ASSUME NEW phase \in Phases, NEW inode \in 0..(MaxChanges + 1), NEW header, NEW clean \in BOOLEAN
  PROVE  IsLoad([phase |-> phase, inode |-> inode, header |-> header, sum |-> <<>>, read |-> <<>>,
                 layers |-> <<>>, level |-> 0, links |-> 0, clean |-> clean])
<1>1. <<>> \in Seq(Nat) /\ <<>> \in Seq(Seq(Nat)) /\ 0 \in Nat
  OBVIOUS
<1> DEFINE none == <<>>
<1>2. none \in Seq(Nat) /\ none \in Seq(Seq(Nat))
  BY <1>1 DEF none
<1> HIDE DEF none
<1>3. IsLoad([phase |-> phase, inode |-> inode, header |-> header, sum |-> none, read |-> none,
              layers |-> none, level |-> 0, links |-> 0, clean |-> clean])
  BY <1>1, <1>2, MakeLoad
<1> QED BY <1>3 DEF none

\* A load that is given up.
LEMMA RejectStep ==
  ASSUME LoadIsTyped, Reject
  PROVE  LoaderIInv'
<1>1. load' = [NoLoad EXCEPT !.phase = "rejected", !.clean = load.clean] /\ load.clean \in BOOLEAN
  BY DEF Reject, LoadIsTyped, IsLoad
<1>2. load' = [phase |-> "rejected", inode |-> 0, header |-> NoHeader, sum |-> <<>>, read |-> <<>>,
               layers |-> <<>>, level |-> 0, links |-> 0, clean |-> load.clean]
  BY <1>1 DEF NoLoad
<1>3. 0 \in 0..(MaxChanges + 1) /\ "rejected" \in Phases /\ "rejected" \notin Sized
  BY WordsAssumption DEF Phases, Sized
<1>5. load'.phase = "rejected"
  BY <1>2
<1>7. IsLoad([phase |-> "rejected", inode |-> 0, header |-> NoHeader, sum |-> <<>>, read |-> <<>>,
              layers |-> <<>>, level |-> 0, links |-> 0, clean |-> load.clean])
  BY <1>1, <1>3, NoLoadType
<1>6. IsLoad(load')
  BY <1>2, <1>7, Zenon
<1>4. IsLoad(load') /\ load'.phase = "rejected"
  BY <1>5, <1>6
<1> QED
  BY <1>4 DEF LoaderIInv, LoadIsTyped, HeaderIsKept, TablesAreSound, GraphIsSound, GraphIsChecked, LinksAreRead, Sized

\* load() opens the file.
LEMMA OpenStep ==
  ASSUME FilesAreTyped, Open
  PROVE  LoaderIInv'
<1> DEFINE c == writing = NoIndex /\ Undisturbed(files[path])
<1>1. load' = [NoLoad EXCEPT !.phase = "header", !.inode = path, !.clean = c] /\ c \in BOOLEAN
  BY DEF Open
<1> HIDE DEF c
<1>2. load' = [phase |-> "header", inode |-> path, header |-> NoHeader, sum |-> <<>>, read |-> <<>>,
               layers |-> <<>>, level |-> 0, links |-> 0, clean |-> c]
  BY <1>1 DEF NoLoad
<1>3. path \in Inodes /\ path \in 0..(MaxChanges + 1) /\ "header" \in Phases /\ "header" \notin Sized
  BY WordsAssumption DEF FilesAreTyped, Inodes, Phases, Sized
<1>6. load'.phase = "header" /\ load'.inode = path /\ load'.links = 0
  BY <1>2
<1>8. IsLoad([phase |-> "header", inode |-> path, header |-> NoHeader, sum |-> <<>>, read |-> <<>>,
              layers |-> <<>>, level |-> 0, links |-> 0, clean |-> c])
  BY <1>1, <1>3, NoLoadType
<1>7. IsLoad(load')
  BY <1>2, <1>8, Zenon
<1>4. IsLoad(load') /\ load'.phase = "header" /\ load'.inode = path /\ load'.links = 0
  BY <1>6, <1>7
<1>5. LoadIsTyped'
  BY <1>3, <1>4 DEF LoadIsTyped, Inodes, Sized
<1> QED
  BY <1>4, <1>5 DEF LoaderIInv, HeaderIsKept, TablesAreSound, GraphIsSound, GraphIsChecked, LinksAreRead, Sized

\* A load as a record of its fields, so that one with other fields can be.
LEMMA LoadType ==
  ASSUME IsLoad(load)
  PROVE  /\ load = [phase |-> load.phase, inode |-> load.inode, header |-> load.header, sum |-> load.sum,
                    read |-> load.read, layers |-> load.layers, level |-> load.level, links |-> load.links,
                    clean |-> load.clean]
         /\ load.inode \in 0..(MaxChanges + 1) /\ load.clean \in BOOLEAN
         /\ load.read \in Seq(Nat) /\ load.layers \in Seq(Seq(Nat)) /\ load.level \in Nat /\ load.links \in Nat
BY DEF IsLoad

LEMMA ReadHeaderStep ==
  ASSUME FilesAreTyped, LoadIsTyped, LinksAreRead, ReadHeader
  PROVE  LoaderIInv'
<1> DEFINE f == files[load.inode]
           new == [phase |-> "size", inode |-> load.inode, header |-> f.header, sum |-> f.sum, read |-> load.read,
                   layers |-> load.layers, level |-> load.level, links |-> load.links, clean |-> load.clean]
<1>1. load.phase = "header" /\ load.inode \in Inodes /\ IsLoad(load) /\ load.links = 0
  BY DEF ReadHeader, LoadIsTyped, Sized, LinksAreRead
<1>2. CASE ~ReadableHeader(f.header)
  BY <1>2, RejectStep DEF ReadHeader
<1>3. CASE ReadableHeader(f.header)
  <2>1. IsHeader(f.header)
    BY <1>1, <1>3, FileType DEF FilesAreTyped, ReadableHeader
  <2>2. load' = [load EXCEPT !.header = f.header, !.sum = f.sum, !.phase = "size"]
    BY <1>3 DEF ReadHeader
  <2> HIDE DEF f
  <2>3. load' = new
    BY <1>1, <2>2, LoadType
  <2>4. "size" \in Phases /\ "size" \notin Sized
    BY DEF Phases, Sized
  <2>7. /\ load.inode \in 0..(MaxChanges + 1) /\ load.clean \in BOOLEAN
        /\ load.read \in Seq(Nat) /\ load.layers \in Seq(Seq(Nat)) /\ load.level \in Nat /\ load.links \in Nat
    BY <1>1, LoadType
  <2>5. IsLoad(new)
    BY <2>4, <2>7, MakeLoad
  <2>6. load'.phase = "size" /\ load'.header = f.header /\ load'.inode = load.inode /\ load'.links = 0
    BY <1>1, <2>3
  <2>9. IsLoad(load')
    BY <2>3, <2>5, Zenon
  <2>8. LoadIsTyped'
    BY <1>1, <2>1, <2>4, <2>6, <2>9 DEF LoadIsTyped, Inodes
  <2> QED
    BY <2>6, <2>8 DEF LoaderIInv, HeaderIsKept, TablesAreSound, GraphIsSound, GraphIsChecked, LinksAreRead, Sized
<1> QED BY <1>2, <1>3

\* One part of the file is accepted.
LEMMA AcceptType ==
  ASSUME LoadIsTyped, load.phase \in Sized \union {"size"}, load.phase # "loaded",
         NEW cells \in Seq(Nat), NEW next \in Sized, next # "loaded", NEW x \in Indexes,
         Accept(cells, next, x)
  PROVE  /\ LoadIsTyped' /\ load'.phase = next /\ load'.header = load.header /\ load'.links = load.links
         /\ Len(load'.read) = Len(load.read) + Len(cells) /\ index' = x
<1>1. IsLoad(load) /\ load.inode \in Inodes /\ IsHeader(load.header)
  BY DEF LoadIsTyped, Sized
<1>2. load.read \in Seq(Nat) /\ load.layers \in Seq(Seq(Nat)) /\ load.level \in Nat /\ load.links \in Nat
  BY <1>1 DEF IsLoad
<1> DEFINE read == load.read \o cells
           new == [phase |-> next, inode |-> load.inode, header |-> load.header, sum |-> load.sum, read |-> read,
                   layers |-> load.layers, level |-> load.level, links |-> load.links, clean |-> load.clean]
<1>3. read \in Seq(Nat) /\ Len(read) = Len(load.read) + Len(cells)
  BY <1>2
<1>4. load' = [load EXCEPT !.read = read, !.phase = next]
  BY DEF Accept
<1> HIDE DEF read
<1>5. load' = new
  BY <1>1, <1>4, LoadType
<1>6. next \in Phases
  BY DEF Phases
<1>10. IsLoad(new)
  BY <1>1, <1>3, <1>6, LoadType, MakeLoad
<1>11. load'.phase = next /\ load'.header = load.header /\ load'.links = load.links
       /\ load'.inode = load.inode /\ load'.read = read
  BY <1>5
<1>7. IsLoad(load') /\ load'.phase = next /\ load'.header = load.header /\ load'.links = load.links
      /\ load'.inode = load.inode /\ load'.read = read
  BY <1>5, <1>10, <1>11, Zenon
<1>8. index' = x
  BY DEF Accept
<1>9. LoadIsTyped'
  BY <1>1, <1>7, <1>8 DEF LoadIsTyped, Inodes
<1> QED BY <1>3, <1>7, <1>8, <1>9

LEMMA CheckSizeStep ==
  ASSUME LoadIsTyped, LinksAreRead, CheckSize
  PROVE  LoaderIInv'
<1> DEFINE h == load.header
           x == Constructed(h)
<1>1. load.phase = "size" /\ IsHeader(h) /\ load.links \in Nat /\ load.read \in Seq(Nat)
  BY DEF CheckSize, LoadIsTyped, IsLoad
<1>2. CASE ~ValidHeader(h, Size(files[path]))
  BY <1>2, RejectStep DEF CheckSize, Declared
<1>3. CASE ValidHeader(h, Size(files[path]))
  <2>1. /\ h.dimension \in Nat /\ h.count \in Nat /\ h.m \in Nat
        /\ h.efConstruction \in Nat /\ h.efSearch \in Nat /\ h.seed \in Nat /\ h.selection \in Nat
        /\ h.maxLevel \in Nat /\ h.entry \in Nat /\ h.count * h.dimension \in Nat
    BY <1>1, HeaderType
  <2>2. HeaderIsSound(h)
    <3> DEFINE product == h.count * h.dimension
               more == (IF h.version >= 2 THEN 2 ELSE 0) + (IF h.version = 3 THEN 1 + h.count ELSE 0)
               lists == h.count * (1 + (MaxLevel + 1) * (1 + 2 * h.m))
               most == (IF h.version >= 2 THEN 1 + MaxRandom ELSE 0) + (IF h.version = 3 THEN 1 + h.count ELSE 0)
    <3>1. product \in Nat /\ more \in Nat /\ most \in Nat
      BY <2>1, WordsAssumption
    <3>4. (MaxLevel + 1) * (1 + 2 * h.m) \in Nat
      BY <2>1, WordsAssumption
    <3>5. lists \in Nat
      <4> DEFINE one == (MaxLevel + 1) * (1 + 2 * h.m)
      <4> HIDE DEF one
      <4>1. one \in Nat
        BY <3>4 DEF one
      <4>2. h.count * (1 + one) \in Nat
        BY <2>1, <4>1
      <4> QED BY <4>2 DEF one
    <3>6. MinimumPayload(h) = h.count + product + 2 * h.count + (IF h.version >= 2 THEN 2 ELSE 0)
                              + (IF h.version = 3 THEN 1 + h.count ELSE 0)
      BY DEF MinimumPayload, CheckedMultiply
    <3>7. MaximumPayload(h) = h.count + product + lists + (IF h.version >= 2 THEN 1 + MaxRandom ELSE 0)
                              + (IF h.version = 3 THEN 1 + h.count ELSE 0)
      BY DEF MaximumPayload, CheckedMultiply
    <3> HIDE DEF product, lists
    <3>8. MinimumPayload(h) = h.count + product + 2 * h.count + more
      BY <2>1, <3>1, <3>6
    <3>9. MaximumPayload(h) = h.count + product + lists + most
      BY <2>1, <3>1, <3>5, <3>7, WordsAssumption
    <3> HIDE DEF more, most
    <3>10. MinimumPayload(h) \in Nat /\ MaximumPayload(h) \in Nat
      BY <2>1, <3>1, <3>5, <3>8, <3>9
    <3>11. h.payload \in MinimumPayload(h)..MaximumPayload(h)
      BY <1>3 DEF ValidHeader
    <3>12. h.payload \in Nat /\ h.count + product + 2 * h.count <= h.payload
      BY <2>1, <3>1, <3>8, <3>10, <3>11
    <3>13. /\ h.dimension # 0 /\ h.m >= 2 /\ h.efConstruction >= h.m /\ h.efSearch # 0 /\ h.selection <= 1
           /\ h.maxLevel <= MaxLevel /\ (h.count = 0 => h.maxLevel = 0)
           /\ h.count # 0 => h.entry \in 1..h.count
      BY <1>3 DEF ValidHeader
    <3> QED BY <3>12, <3>13 DEF HeaderIsSound, product
  <2>3. x \in Indexes
    BY <2>1 DEF Constructed, Indexes
  <2>4. Accept(<<>>, "ids", x)
    BY <1>3 DEF CheckSize, Declared
  <2>5. <<>> \in Seq(Nat) /\ "ids" \in Sized /\ load.phase \in Sized \union {"size"}
    BY <1>1 DEF Sized
  <2>9. /\ LoadIsTyped' /\ load'.phase = "ids" /\ load'.header = h /\ load'.links = load.links /\ index' = x
    BY <1>1, <2>3, <2>4, <2>5, AcceptType
  <2>6. load'.phase \in Sized
    BY <2>5, <2>9
  <2>7. HeaderIsKept'
    BY <2>2, <2>9 DEF HeaderIsKept, Constructed
  <2>8. TablesAreSound'
    <3> DEFINE none == {n \in 1..h.count : x.deleted[n] = 1}
    <3>1. Len(x.deleted) = h.count /\ x.deletedCount = 0
      BY <2>1 DEF Constructed
    <3>2. none = {}
      BY <2>1 DEF Constructed
    <3>3. Cardinality(none) = 0
      BY <3>2, FS_EmptySet
    <3>5. \A n \in 1..h.count : x.deleted[n] <= 1
      BY <2>1 DEF Constructed
    <3> HIDE DEF x, none
    <3>4. /\ Len(index'.deleted) = h.count
          /\ \A n \in 1..h.count : index'.deleted[n] <= 1
          /\ index'.deletedCount = Cardinality({n \in 1..h.count : index'.deleted[n] = 1})
      BY <2>9, <3>1, <3>3, <3>5 DEF none
    <3> QED BY <2>9, <3>4 DEF TablesAreSound
  <2>10. GraphIsSound'
    <3>1. x.graph = <<>>
      BY DEF Constructed
    <3>2. Len(index'.graph) = 0 /\ index'.graph = <<>>
      BY <2>9, <3>1
    <3> QED BY <2>1, <2>9, <3>2 DEF GraphIsSound
  <2>11. GraphIsChecked'
    BY <2>9 DEF GraphIsChecked
  <2>12. LinksAreRead'
    <3>1. load'.links = 0
      BY <1>1, <2>9 DEF LinksAreRead
    <3>2. h.count + h.count * h.dimension + 0 <= h.payload
      <4> DEFINE product == h.count * h.dimension
      <4> HIDE DEF product
      <4>1. product \in Nat /\ h.payload \in Nat /\ h.count + product + 2 * h.count <= h.payload
        BY <2>1, <2>2 DEF HeaderIsSound, product
      <4>2. h.count + product + 0 <= h.payload
        BY <2>1, <4>1
      <4> QED BY <4>2 DEF product
    <3> QED BY <2>9, <3>1, <3>2 DEF LinksAreRead
  <2> QED BY <2>7, <2>8, <2>9, <2>10, <2>11, <2>12 DEF LoaderIInv
<1> QED BY <1>2, <1>3

\* What the invariant says of a load that has checked the header.
LEMMA SizedLoad ==
  ASSUME LoadIsTyped, HeaderIsKept, load.phase \in Sized
  PROVE  /\ IsHeader(load.header) /\ HeaderIsSound(load.header) /\ index \in Indexes
         /\ load.header.count \in Nat /\ load.header.dimension \in Nat /\ load.header.m \in Nat
         /\ load.header.maxLevel \in Nat /\ load.header.payload \in Nat
         /\ load.header.count * load.header.dimension \in Nat
         /\ load.read \in Seq(Nat) /\ Len(load.read) \in Nat /\ load.links \in Nat
         /\ load.phase # "loaded" => load.inode \in Inodes
<1>1. IsHeader(load.header) /\ index \in Indexes /\ IsLoad(load) /\ (load.phase # "loaded" => load.inode \in Inodes)
  BY DEF LoadIsTyped, Sized
<1>2. HeaderIsSound(load.header)
  BY DEF HeaderIsKept
<1>3. load.header.payload \in Nat
  BY <1>2 DEF HeaderIsSound
<1> QED BY <1>1, <1>2, <1>3, HeaderType, LoadType

LEMMA ReadIdsStep ==
  ASSUME FilesAreTyped, LoaderIInv, ReadIds
  PROVE  LoaderIInv'
<1> DEFINE h == load.header
           cells == Ahead(h.count)
           x == [index EXCEPT !.ids = cells]
<1>1. load.phase = "ids" /\ load.phase \in Sized
  BY DEF ReadIds, Sized
<1>2. LoadIsTyped /\ HeaderIsKept /\ TablesAreSound /\ GraphIsSound /\ LinksAreRead
  BY DEF LoaderIInv
<1>3. /\ HeaderIsSound(h) /\ index \in Indexes /\ h.count \in Nat /\ h.dimension \in Nat /\ load.links \in Nat
      /\ h.count * h.dimension \in Nat /\ Len(load.read) \in Nat /\ load.inode \in Inodes
  BY <1>1, <1>2, SizedLoad
<1>4. CASE ~(Available(h.count) /\ IsInjective(cells))
  BY <1>2, <1>4, RejectStep DEF ReadIds, Declared
<1>5. CASE Available(h.count) /\ IsInjective(cells)
  <2>1. cells \in Seq(Nat) /\ Len(cells) = h.count
    BY <1>2, <1>3, <1>5, AheadType
  <2>2. Accept(cells, "vectors", x)
    BY <1>5 DEF ReadIds, Declared
  <2> HIDE DEF cells
  <2>3. x \in Indexes /\ x.ids = cells
    BY <1>3, <2>1 DEF Indexes
  <2>4. /\ x.dimension = index.dimension /\ x.m = index.m /\ x.efConstruction = index.efConstruction
        /\ x.efSearch = index.efSearch /\ x.selection = index.selection
        /\ x.deleted = index.deleted /\ x.deletedCount = index.deletedCount /\ x.graph = index.graph
    BY <1>3 DEF Indexes
  <2> HIDE DEF x
  <2>5. "vectors" \in Sized /\ load.phase \in Sized \union {"size"}
    BY <1>1 DEF Sized
  <2>6. /\ LoadIsTyped' /\ load'.phase = "vectors" /\ load'.header = h /\ load'.links = load.links
        /\ Len(load'.read) = Len(load.read) + h.count /\ index' = x
    BY <1>1, <1>2, <2>1, <2>2, <2>3, <2>5, AcceptType
  <2>7. HeaderIsKept'
    BY <1>1, <1>2, <2>4, <2>6 DEF HeaderIsKept
  <2>8. TablesAreSound'
    BY <1>1, <1>2, <1>5, <2>1, <2>3, <2>4, <2>6 DEF TablesAreSound, cells
  <2>9. GraphIsSound'
    BY <1>1, <1>2, <2>4, <2>6 DEF GraphIsSound
  <2>10. GraphIsChecked'
    BY <2>6 DEF GraphIsChecked
  <2>11. LinksAreRead'
    <3>1. load.links = 0 /\ h.count + h.count * h.dimension + load.links <= h.payload
      BY <1>1, <1>2 DEF LinksAreRead
    <3>2. h.count <= Len(load'.read)
      BY <1>3, <2>6
    <3> QED BY <2>6, <3>1, <3>2 DEF LinksAreRead
  <2> QED BY <2>6, <2>7, <2>8, <2>9, <2>10, <2>11 DEF LoaderIInv
<1> QED BY <1>4, <1>5

LEMMA ReadVectorsStep ==
  ASSUME FilesAreTyped, LoaderIInv, ReadVectors
  PROVE  LoaderIInv'
<1> DEFINE h == load.header
           size == h.count * h.dimension
           cells == Ahead(size)
           values == [c \in 1..size |-> Float(cells[c])]
           Unit == \A n \in 1..h.count : SquaredNorm(Row(values, n, h.dimension)) = 1
           x == [index EXCEPT !.vectors = values]
<1>1. load.phase = "vectors" /\ load.phase \in Sized
  BY DEF ReadVectors, Sized
<1>2. LoadIsTyped /\ HeaderIsKept /\ TablesAreSound /\ GraphIsSound /\ LinksAreRead
  BY DEF LoaderIInv
<1>3. /\ HeaderIsSound(h) /\ index \in Indexes /\ h.count \in Nat /\ h.dimension \in Nat /\ load.links \in Nat
      /\ size \in Nat /\ Len(load.read) \in Nat /\ load.inode \in Inodes
  BY <1>1, <1>2, SizedLoad
<1>4. CASE ~Available(size)
  BY <1>2, <1>4, RejectStep DEF ReadVectors, Declared
<1>5. CASE Available(size) /\ ~Unit
  BY <1>2, <1>5, RejectStep DEF ReadVectors, Declared
<1>6. CASE Available(size) /\ Unit
  <2>2. Accept(cells, "node", x)
    BY <1>6 DEF ReadVectors, Declared
  <2>12. Unit
    BY <1>6
  <2> HIDE DEF Unit, size
  <2>1. cells \in Seq(Nat) /\ Len(cells) = size /\ \A c \in 1..size : cells[c] \in Nat
    BY <1>2, <1>3, <1>6, AheadType
  <2> HIDE DEF cells
  <2>13. \A c \in 1..size : Float(cells[c]) \in Components
    BY <2>1 DEF Float, Components
  <2>14. values \in Seq(Components) /\ Len(values) = size
    BY <1>3, <2>13
  <2> HIDE DEF values
  <2>3. x \in Indexes /\ x.vectors = values
    BY <1>3, <2>14 DEF Indexes
  <2>4. /\ x.dimension = index.dimension /\ x.m = index.m /\ x.efConstruction = index.efConstruction
        /\ x.efSearch = index.efSearch /\ x.selection = index.selection
        /\ x.deleted = index.deleted /\ x.deletedCount = index.deletedCount /\ x.graph = index.graph
        /\ x.ids = index.ids
    BY <1>3 DEF Indexes
  <2> HIDE DEF x
  <2>5. "node" \in Sized /\ load.phase \in Sized \union {"size"}
    BY <1>1 DEF Sized
  <2>6. /\ LoadIsTyped' /\ load'.phase = "node" /\ load'.header = h /\ load'.links = load.links
        /\ Len(load'.read) = Len(load.read) + size /\ index' = x
    BY <1>1, <1>2, <2>1, <2>2, <2>3, <2>5, AcceptType
  <2>7. HeaderIsKept'
    BY <1>1, <1>2, <2>4, <2>6 DEF HeaderIsKept
  <2>8. TablesAreSound'
    <3>1. Len(x.vectors) = h.count * h.dimension
          /\ \A n \in 1..h.count : SquaredNorm(Row(x.vectors, n, h.dimension)) = 1
      BY <2>3, <2>12, <2>14 DEF Unit, size
    <3> QED BY <1>1, <1>2, <2>4, <2>6, <3>1 DEF TablesAreSound
  <2>9. GraphIsSound'
    BY <1>1, <1>2, <2>4, <2>6 DEF GraphIsSound
  <2>10. GraphIsChecked'
    BY <2>6 DEF GraphIsChecked
  <2>11. LinksAreRead'
    <3>1. load.links = 0 /\ h.count + size + load.links <= h.payload /\ h.count <= Len(load.read)
      BY <1>1, <1>2 DEF LinksAreRead, size
    <3>2. h.count + size + load.links <= Len(load'.read)
      BY <1>3, <2>6, <3>1
    <3> QED BY <2>6, <3>1, <3>2 DEF LinksAreRead, size
  <2> QED BY <2>6, <2>7, <2>8, <2>9, <2>10, <2>11 DEF LoaderIInv
<1> QED BY <1>4, <1>5, <1>6

LEMMA ReadLevelStep ==
  ASSUME FilesAreTyped, LoaderIInv, ReadLevel
  PROVE  LoaderIInv'
<1> DEFINE h == load.header
           cells == Ahead(1)
           read == load.read \o cells
           new == [phase |-> "layer", inode |-> load.inode, header |-> h, sum |-> load.sum, read |-> read,
                   layers |-> <<>>, level |-> cells[1], links |-> load.links, clean |-> load.clean]
<1>1. load.phase = "node" /\ load.phase \in Sized /\ Len(index.graph) < h.count
  BY DEF ReadLevel, Sized, Declared
<1>2. LoadIsTyped /\ HeaderIsKept /\ TablesAreSound /\ GraphIsSound /\ LinksAreRead /\ IsLoad(load)
  BY DEF LoaderIInv, LoadIsTyped
<1>3. /\ HeaderIsSound(h) /\ IsHeader(h) /\ index \in Indexes /\ h.count \in Nat /\ h.maxLevel \in Nat /\ load.links \in Nat
      /\ h.count * h.dimension \in Nat /\ Len(load.read) \in Nat /\ load.inode \in Inodes /\ load.read \in Seq(Nat)
  BY <1>1, <1>2, SizedLoad
<1>4. CASE ~(Available(1) /\ cells[1] <= MaxLevel /\ cells[1] <= h.maxLevel)
  BY <1>2, <1>4, RejectStep DEF ReadLevel, Declared
<1>5. CASE Available(1) /\ cells[1] <= MaxLevel /\ cells[1] <= h.maxLevel
  <2>1. cells \in Seq(Nat) /\ Len(cells) = 1 /\ cells[1] \in Nat
    <3>1. 1 \in Nat
      OBVIOUS
    <3>2. Ahead(1) \in Seq(Nat) /\ Len(Ahead(1)) = 1 /\ \A i \in 1..1 : Ahead(1)[i] \in Nat
      BY <1>2, <1>3, <1>5, <3>1, AheadType
    <3> HIDE DEF Ahead
    <3> QED BY <3>2
  <2>2. load' = [load EXCEPT !.read = read, !.phase = "layer", !.level = cells[1], !.layers = <<>>]
    BY <1>5 DEF ReadLevel, Declared
  <2>3. index' = index
    BY <1>5 DEF ReadLevel, Declared
  <2>4. read \in Seq(Nat) /\ Len(read) = Len(load.read) + 1
    <3>1. load.read \in Seq(Nat) /\ cells \in Seq(Nat) /\ Len(cells) = 1
      BY <1>3, <2>1
    <3> HIDE DEF cells
    <3>2. read \in Seq(Nat) /\ Len(read) = Len(load.read) + Len(cells)
      BY <3>1, Appended
    <3> QED BY <3>1, <3>2
  <2> HIDE DEF cells, read
  <2>5. load' = new
    BY <1>2, <2>2, LoadType
  <2>6. "layer" \in Phases /\ "layer" \in Sized /\ <<>> \in Seq(Seq(Nat))
    BY DEF Phases, Sized
  <2>7. IsLoad(new)
    <3> DEFINE none == <<>>
    <3>1. none \in Seq(Seq(Nat))
      BY <2>6
    <3> HIDE DEF none
    <3>2. IsLoad([phase |-> "layer", inode |-> load.inode, header |-> h, sum |-> load.sum, read |-> read,
                  layers |-> none, level |-> cells[1], links |-> load.links, clean |-> load.clean])
      BY <1>2, <2>1, <2>4, <2>6, <3>1, LoadType, MakeLoad
    <3> QED BY <3>2 DEF none
  <2>8. /\ load'.phase = "layer" /\ load'.header = h /\ load'.inode = load.inode /\ load'.links = load.links
        /\ load'.read = read /\ load'.layers = <<>> /\ load'.level = cells[1]
    BY <2>5
  <2>9. IsLoad(load')
    BY <2>5, <2>7, Zenon
  <2>10. LoadIsTyped'
    BY <1>3, <2>3, <2>8, <2>9 DEF LoadIsTyped, Inodes
  <2>11. HeaderIsKept'
    BY <1>1, <1>2, <2>3, <2>8 DEF HeaderIsKept
  <2>12. TablesAreSound'
    BY <1>1, <1>2, <2>3, <2>8 DEF TablesAreSound
  <2>13. GraphIsSound'
    <3>1. Len(load'.layers) = 0
      BY <2>8
    <3> QED BY <1>1, <1>2, <1>5, <2>1, <2>3, <2>8, <3>1 DEF GraphIsSound, cells
  <2>14. GraphIsChecked'
    BY <2>8 DEF GraphIsChecked
  <2>15. LinksAreRead'
    <3> DEFINE product == h.count * h.dimension
    <3>1. h.count + product + load.links <= h.payload /\ h.count + product + load.links <= Len(load.read)
      BY <1>1, <1>2 DEF LinksAreRead
    <3> HIDE DEF product
    <3>2. product \in Nat /\ h.count \in Nat /\ load.links \in Nat /\ Len(load.read) \in Nat
      BY <1>3 DEF product
    <3>4. Len(load'.read) = Len(load.read) + 1
      BY <2>4, <2>8
    <3>3. h.count + product + load.links <= Len(load'.read)
      BY <3>1, <3>2, <3>4
    <3> QED BY <2>8, <3>1, <3>3 DEF LinksAreRead, product
  <2> QED BY <2>10, <2>11, <2>12, <2>13, <2>14, <2>15 DEF LoaderIInv
<1> QED BY <1>4, <1>5

LEMMA CheckGraphStep ==
  ASSUME FilesAreTyped, LoaderIInv, CheckGraph
  PROVE  LoaderIInv'
<1> DEFINE h == load.header
           next == IF h.version = 3 THEN "tombstones" ELSE "random"
           Right == /\ \/ h.count = 0
                       \/ /\ \E n \in DOMAIN index.graph : Len(index.graph[n]) - 1 = h.maxLevel
                          /\ Len(index.graph[h.entry]) - 1 = h.maxLevel
                    /\ LayersAgree
<1>1. load.phase = "node" /\ load.phase \in Sized /\ Len(index.graph) = h.count
  BY DEF CheckGraph, Sized, Declared
<1>2. LoadIsTyped /\ HeaderIsKept /\ TablesAreSound /\ GraphIsSound /\ LinksAreRead
  BY DEF LoaderIInv
<1>3. /\ HeaderIsSound(h) /\ index \in Indexes /\ h.count \in Nat /\ h.maxLevel \in Nat /\ load.links \in Nat
      /\ h.count * h.dimension \in Nat /\ Len(load.read) \in Nat /\ load.read \in Seq(Nat)
  BY <1>1, <1>2, SizedLoad
<1>4. CASE ~Right
  BY <1>2, <1>4, RejectStep DEF CheckGraph, Declared
<1>5. CASE Right
  <2>1. Accept(<<>>, next, index)
    BY <1>5 DEF CheckGraph, Declared
  <2>2. next \in {"tombstones", "random"}
    BY Zenon
  <2>3. next \in Sized /\ next # "loaded" /\ <<>> \in Seq(Nat) /\ load.phase \in Sized \union {"size"}
    BY <1>1, <2>2 DEF Sized
  <2> HIDE DEF next
  <2>4. /\ LoadIsTyped' /\ load'.phase = next /\ load'.header = h /\ load'.links = load.links /\ index' = index
    BY <1>1, <1>2, <1>3, <2>1, <2>3, AcceptType
  <2>5. HeaderIsKept'
    BY <1>1, <1>2, <2>4 DEF HeaderIsKept
  <2>6. TablesAreSound'
    BY <1>1, <1>2, <2>4 DEF TablesAreSound
  <2>7. GraphIsSound'
    BY <1>1, <1>2, <2>2, <2>4 DEF GraphIsSound
  <2>8. GraphIsChecked'
    <3>1. LayersAgree'
      BY <1>5, <2>4 DEF LayersAgree
    <3>2. h.count # 0 => Len(index.graph[h.entry]) = h.maxLevel + 1
      <4> SUFFICES ASSUME h.count # 0 PROVE Len(index.graph[h.entry]) = h.maxLevel + 1
        OBVIOUS
      <4>1. h.entry \in 1..h.count /\ Len(index.graph[h.entry]) - 1 = h.maxLevel
        BY <1>3, <1>5 DEF HeaderIsSound
      <4>2. index.graph \in Seq(Nodes)
        BY <1>3 DEF Indexes
      <4>3. index.graph[h.entry] \in Nodes
        BY <1>1, <4>1, <4>2
      <4>4. Len(index.graph[h.entry]) \in Nat
        BY <4>3 DEF Nodes
      <4> QED BY <1>3, <4>1, <4>4
    <3> QED BY <1>1, <2>2, <2>4, <3>1, <3>2 DEF GraphIsChecked
  <2>9. LinksAreRead'
    BY <1>1, <1>2, <2>2, <2>3, <2>4 DEF LinksAreRead
  <2> QED BY <2>4, <2>5, <2>6, <2>7, <2>8, <2>9 DEF LoaderIInv
<1> QED BY <1>4, <1>5

\* d more links are reserved when the payload s, of which r cells were read,
\* leaves room for them.
LEMMA LinksFit ==
  ASSUME NEW c \in Nat, NEW p \in Nat, NEW k \in Nat, NEW d \in Nat, NEW r \in Nat, NEW s \in Nat,
         c + p + k <= r, d <= s - r - 1
  PROVE  c + p + (k + d) <= r + (1 + d) /\ c + p + (k + d) <= s
OBVIOUS

LEMMA ReadLayerStep ==
  ASSUME FilesAreTyped, LoaderIInv, ReadLayer
  PROVE  LoaderIInv'
<1> DEFINE h == load.header
           node == Len(index.graph) + 1
           degree == Ahead(1)[1]
           cells == Ahead(1 + degree)
           list == Tail(cells)
           layers == Append(load.layers, list)
           read == load.read \o cells
           next == IF Len(layers) <= load.level THEN load.phase ELSE "node"
           new == [phase |-> next, inode |-> load.inode, header |-> h, sum |-> load.sum, read |-> read,
                   layers |-> layers, level |-> load.level, links |-> load.links + degree, clean |-> load.clean]
           Right == /\ Available(1) /\ DegreeAllowed(degree, Len(load.layers)) /\ degree <= Remaining(1)
                    /\ Available(1 + degree) /\ NeighborsAllowed(list, node)
<1>1. load.phase = "layer" /\ load.phase \in Sized
  BY DEF ReadLayer, Sized, Declared
<1>2. LoadIsTyped /\ HeaderIsKept /\ TablesAreSound /\ GraphIsSound /\ LinksAreRead /\ IsLoad(load)
  BY DEF LoaderIInv, LoadIsTyped
<1>3. /\ HeaderIsSound(h) /\ IsHeader(h) /\ index \in Indexes /\ h.count \in Nat /\ h.maxLevel \in Nat
      /\ load.links \in Nat /\ h.m \in Nat /\ h.payload \in Nat
      /\ Len(load.read) \in Nat /\ load.inode \in Inodes /\ load.read \in Seq(Nat)
      /\ load.layers \in Seq(Seq(Nat)) /\ Len(load.layers) \in Nat /\ load.level \in Nat
  BY <1>1, <1>2, SizedLoad, LoadType
<1>4. CASE ~Right
  <2>1. Reject
    BY <1>4 DEF ReadLayer
  <2> QED BY <1>2, <2>1, RejectStep
<1>5. CASE Right
  <2>1. degree \in Nat
    <3>1. 1 \in Nat
      OBVIOUS
    <3>2. \A i \in 1..1 : Ahead(1)[i] \in Nat
      BY <1>2, <1>3, <1>5, <3>1, AheadType
    <3> QED BY <3>2
  <2>2. load' = [load EXCEPT !.read = read, !.links = load.links + degree, !.layers = layers, !.phase = next]
    BY <1>5 DEF ReadLayer
  <2>3. index' = IF Len(layers) <= load.level THEN index ELSE [index EXCEPT !.graph = Append(index.graph, layers)]
    BY <1>5 DEF ReadLayer
  <2>4. degree <= (IF Len(load.layers) = 0 THEN 2 ELSE 1) * h.m /\ degree <= h.payload - Len(load.read) - 1
    BY <1>5 DEF DegreeAllowed, Remaining, Declared
  <2>5. IsInjective(list) /\ \A e \in DOMAIN list : list[e] \in 1..h.count /\ list[e] # node
    BY <1>5 DEF NeighborsAllowed, Declared
  <2>6. cells \in Seq(Nat) /\ Len(cells) = 1 + degree /\ list \in Seq(Nat) /\ Len(list) = degree
    <3> HIDE DEF degree
    <3>1. 1 + degree \in Nat /\ 1 + degree >= 1 /\ (1 + degree) - 1 = degree
      BY <2>1
    <3> QED BY <1>2, <1>3, <1>5, <3>1, AheadType
  <2> HIDE DEF degree, cells, list
  <2>7. read \in Seq(Nat) /\ Len(read) = Len(load.read) + Len(cells)
    BY <1>3, <2>6, Appended
  <2>8. layers \in Seq(Seq(Nat)) /\ Len(layers) = Len(load.layers) + 1 /\ layers[Len(layers)] = list
        /\ \A l \in 1..Len(load.layers) : layers[l] = load.layers[l]
    BY <1>3, <2>6
  <2> HIDE DEF layers, read, Right
  <2>9. next \in {"layer", "node"} /\ (next = "layer" <=> Len(layers) <= load.level)
    <3>1. CASE Len(layers) <= load.level
      BY <1>1, <3>1
    <3>2. CASE ~(Len(layers) <= load.level)
      BY <3>2
    <3> QED BY <3>1, <3>2
  <2> HIDE DEF next
  <2>10. next \in Phases /\ next \in Sized /\ load.links + degree \in Nat
    BY <1>3, <2>1, <2>9 DEF Phases, Sized
  <2>11. load' = new
    BY <1>2, <2>2, LoadType
  <2>12. IsLoad(new)
    BY <1>2, <1>3, <2>7, <2>8, <2>10, LoadType, MakeLoad
  <2>13. /\ load'.phase = next /\ load'.header = h /\ load'.inode = load.inode /\ load'.links = load.links + degree
         /\ load'.read = read /\ load'.layers = layers /\ load'.level = load.level
    BY <2>11
  <2>14. IsLoad(load')
    BY <2>11, <2>12, Zenon
  <2>15. index.graph \in Seq(Nodes) /\ Len(index.graph) \in Nat
    BY <1>3 DEF Indexes
  <2>16. /\ Len(index.graph) < h.count /\ load.level <= h.maxLevel /\ Len(load.layers) <= load.level
         /\ \A l \in 1..Len(load.layers) : ListIsSound(h, load.layers[l], l, node)
         /\ \A n \in 1..Len(index.graph) : NodeIsSound(h, index.graph[n], n)
    BY <1>1, <1>2 DEF GraphIsSound
  <2>17. ListIsSound(h, list, Len(layers), node)
    <3>1. Len(list) <= (IF Len(layers) = 1 THEN 2 * h.m ELSE h.m)
      <4> DEFINE m == h.m
                 k == Len(load.layers)
      <4>1. m \in Nat /\ k \in Nat /\ degree \in Nat /\ degree <= (IF k = 0 THEN 2 ELSE 1) * m
        BY <1>3, <2>1, <2>4
      <4> HIDE DEF m, k
      <4>2. degree <= (IF k + 1 = 1 THEN 2 * m ELSE m)
        <5>1. CASE k = 0
          BY <4>1, <5>1
        <5>2. CASE k # 0
          BY <4>1, <5>2
        <5> QED BY <5>1, <5>2
      <4>3. Len(list) = degree /\ Len(layers) = k + 1
        BY <2>6, <2>8 DEF k
      <4> QED BY <4>2, <4>3, Zenon DEF m
    <3> QED BY <2>5, <3>1 DEF ListIsSound
  <2>18. \A l \in 1..Len(layers) : ListIsSound(h, layers[l], l, node)
    <3> TAKE l \in 1..Len(layers)
    <3>1. Len(load.layers) \in Nat /\ Len(layers) = Len(load.layers) + 1
      BY <1>3, <2>8
    <3>2. CASE l = Len(layers)
      BY <2>8, <2>17, <3>2
    <3>3. CASE l # Len(layers)
      <4>1. l \in 1..Len(load.layers)
        BY <3>1, <3>3
      <4> QED BY <2>8, <2>16, <4>1
    <3> QED BY <3>2, <3>3
  <2>19. LinksAreRead'
    <3> DEFINE product == h.count * h.dimension
    <3>1. h.count + product + load.links <= Len(load.read)
      BY <1>1, <1>2 DEF LinksAreRead
    <3>4. product \in Nat
      BY <1>1, <1>2, SizedLoad
    <3> HIDE DEF product
    <3>2. Len(load'.read) = Len(load.read) + (1 + degree)
      BY <2>6, <2>7, <2>13
    <3>3. /\ h.count + product + (load.links + degree) <= Len(load'.read)
          /\ h.count + product + (load.links + degree) <= h.payload
      <4>1. /\ h.count \in Nat /\ load.links \in Nat /\ h.payload \in Nat /\ Len(load.read) \in Nat
            /\ degree <= h.payload - Len(load.read) - 1
        BY <1>3, <2>4
      <4>2. /\ h.count + product + (load.links + degree) <= Len(load.read) + (1 + degree)
            /\ h.count + product + (load.links + degree) <= h.payload
        <5> DEFINE c == h.count
                   k == load.links
                   s == h.payload
                   r == Len(load.read)
        <5>1. c \in Nat /\ k \in Nat /\ s \in Nat /\ r \in Nat /\ degree <= s - r - 1 /\ c + product + k <= r
          BY <3>1, <4>1
        <5> HIDE DEF c, k, s, r
        <5>2. c + product + (k + degree) <= r + (1 + degree) /\ c + product + (k + degree) <= s
          BY <2>1, <3>4, <5>1, LinksFit
        <5> QED BY <5>2 DEF c, k, s, r
      <4> QED BY <3>2, <4>2
    <3> QED BY <2>9, <2>13, <3>3 DEF LinksAreRead, product
  <2>20. GraphIsChecked'
    BY <2>9, <2>13 DEF GraphIsChecked
  <2>21. CASE Len(layers) <= load.level
    <3>1. index' = index /\ next = "layer"
      BY <2>3, <2>9, <2>21
    <3>2. LoadIsTyped'
      BY <1>3, <2>10, <2>13, <2>14, <3>1 DEF LoadIsTyped, Inodes
    <3>3. HeaderIsKept'
      BY <1>1, <1>2, <2>13, <3>1 DEF HeaderIsKept
    <3>4. TablesAreSound'
      BY <1>1, <1>2, <2>13, <3>1 DEF TablesAreSound
    <3>5. GraphIsSound'
      <4>1. Len(index.graph) <= h.count
        BY <1>3, <2>15, <2>16
      <4> QED BY <2>13, <2>16, <2>18, <2>21, <3>1, <4>1 DEF GraphIsSound
    <3> QED BY <2>19, <2>20, <3>2, <3>3, <3>4, <3>5 DEF LoaderIInv
  <2>22. CASE ~(Len(layers) <= load.level)
    <3> DEFINE graph == Append(index.graph, layers)
               x == [index EXCEPT !.graph = graph]
    <3>1. index' = x
      BY <2>3, <2>22
    <3>12. next = "node"
      BY <2>9, <2>22
    <3>2. layers \in Nodes
      <4>1. layers # <<>>
        BY <1>3, <2>8
      <4> QED BY <2>8, <4>1 DEF Nodes
    <3>3. graph \in Seq(Nodes) /\ Len(graph) = node /\ graph[node] = layers
          /\ \A n \in 1..Len(index.graph) : graph[n] = index.graph[n]
      BY <2>15, <3>2
    <3> HIDE DEF graph
    <3>4. x \in Indexes /\ x.graph = graph
      BY <1>3, <3>3 DEF Indexes
    <3>5. /\ x.dimension = index.dimension /\ x.m = index.m /\ x.efConstruction = index.efConstruction
        /\ x.efSearch = index.efSearch /\ x.selection = index.selection
          /\ x.deleted = index.deleted /\ x.deletedCount = index.deletedCount /\ x.vectors = index.vectors
          /\ x.ids = index.ids
      BY <1>3 DEF Indexes
    <3> HIDE DEF x
    <3>6. LoadIsTyped'
      BY <1>3, <2>10, <2>13, <2>14, <3>1, <3>4, <3>12 DEF LoadIsTyped, Inodes
    <3>7. HeaderIsKept'
      BY <1>1, <1>2, <2>13, <3>1, <3>5 DEF HeaderIsKept
    <3>8. TablesAreSound'
      BY <1>1, <1>2, <2>13, <3>1, <3>5, <3>12 DEF TablesAreSound
    <3>9. NodeIsSound(h, layers, node)
      <4>1. Len(layers) \in 1..(h.maxLevel + 1) /\ DOMAIN layers = 1..Len(layers)
        <5>1. /\ load.level \in Nat /\ h.maxLevel \in Nat /\ load.level <= h.maxLevel /\ Len(load.layers) \in Nat
              /\ Len(load.layers) <= load.level /\ Len(layers) = Len(load.layers) + 1 /\ layers \in Seq(Seq(Nat))
          BY <1>3, <2>8, <2>16
        <5> QED BY <5>1
      <4> QED BY <2>18, <4>1 DEF NodeIsSound
    <3>10. \A n \in 1..node : NodeIsSound(h, graph[n], n)
      BY <2>15, <2>16, <3>3, <3>9
    <3>11. GraphIsSound'
      <4>1. node <= h.count
        BY <1>3, <2>15, <2>16
      <4> QED BY <2>13, <3>1, <3>3, <3>4, <3>10, <3>12, <4>1 DEF GraphIsSound
    <3> QED BY <2>19, <2>20, <3>6, <3>7, <3>8, <3>11 DEF LoaderIInv
  <2> QED BY <2>21, <2>22
<1> QED BY <1>4, <1>5

LEMMA ReadTombstonesStep ==
  ASSUME FilesAreTyped, LoaderIInv, ReadTombstones
  PROVE  LoaderIInv'
<1> DEFINE h == load.header
           cells == Ahead(1 + h.count)
           flags == Tail(cells)
           deleted == Cardinality({n \in 1..h.count : flags[n] = 1})
           x == [index EXCEPT !.deleted = flags, !.deletedCount = deleted]
           Right == /\ Available(1 + h.count) /\ Ahead(1)[1] <= h.count
                    /\ \A n \in 1..h.count : flags[n] <= 1
                    /\ h.count - deleted = Ahead(1)[1]
<1>1. load.phase = "tombstones" /\ load.phase \in Sized
  BY DEF ReadTombstones, Sized
<1>2. LoadIsTyped /\ HeaderIsKept /\ TablesAreSound /\ GraphIsSound /\ GraphIsChecked /\ LinksAreRead
  BY DEF LoaderIInv
<1>3. /\ HeaderIsSound(h) /\ index \in Indexes /\ h.count \in Nat /\ load.inode \in Inodes
  BY <1>1, <1>2, SizedLoad
<1>4. CASE ~Right
  <2>1. Reject
    BY <1>4 DEF ReadTombstones, Declared
  <2> QED BY <1>2, <2>1, RejectStep
<1>5. CASE Right
  <2>1. Accept(cells, "random", x)
    BY <1>5 DEF ReadTombstones, Declared
  <2>2. cells \in Seq(Nat) /\ flags \in Seq(Nat) /\ Len(flags) = h.count
    <3>1. 1 + h.count \in Nat /\ 1 + h.count >= 1 /\ (1 + h.count) - 1 = h.count
      BY <1>3
    <3> QED BY <1>2, <1>3, <1>5, <3>1, AheadType
  <2> HIDE DEF cells, flags, Right
  <2>3. deleted \in Nat
    <3>1. IsFiniteSet(1..h.count) /\ {n \in 1..h.count : flags[n] = 1} \subseteq 1..h.count
      BY <1>3, FS_Interval
    <3>2. IsFiniteSet({n \in 1..h.count : flags[n] = 1})
      BY <3>1, FS_Subset
    <3> QED BY <3>2, FS_CardinalityType
  <2>15. \A n \in 1..h.count : flags[n] <= 1
    BY <1>5 DEF Right
  <2>4. x.deleted = flags /\ x.deletedCount = deleted
    BY <1>3 DEF Indexes
  <2>5. deleted = Cardinality({n \in 1..h.count : x.deleted[n] = 1})
    BY <2>4
  <2> HIDE DEF deleted
  <2>6. x \in Indexes
    BY <1>3, <2>2, <2>3 DEF Indexes
  <2>7. /\ x.dimension = index.dimension /\ x.m = index.m /\ x.efConstruction = index.efConstruction
        /\ x.efSearch = index.efSearch /\ x.selection = index.selection
        /\ x.vectors = index.vectors /\ x.graph = index.graph /\ x.ids = index.ids
    BY <1>3 DEF Indexes
  <2> HIDE DEF x
  <2>8. "random" \in Sized /\ load.phase \in Sized \union {"size"}
    BY <1>1 DEF Sized
  <2>9. /\ LoadIsTyped' /\ load'.phase = "random" /\ load'.header = h /\ load'.links = load.links /\ index' = x
    BY <1>1, <1>2, <2>1, <2>2, <2>6, <2>8, AcceptType
  <2>10. HeaderIsKept'
    BY <1>1, <1>2, <2>7, <2>9 DEF HeaderIsKept
  <2>11. TablesAreSound'
    <3>1. /\ Len(x.deleted) = h.count /\ \A n \in 1..h.count : x.deleted[n] <= 1
          /\ x.deletedCount = Cardinality({n \in 1..h.count : x.deleted[n] = 1})
      BY <2>2, <2>4, <2>5, <2>15
    <3> QED BY <1>1, <1>2, <2>7, <2>9, <3>1 DEF TablesAreSound
  <2>12. GraphIsSound'
    BY <1>1, <1>2, <2>7, <2>9 DEF GraphIsSound
  <2>13. GraphIsChecked'
    <3>1. LayersAgree'
      BY <1>1, <1>2, <2>7, <2>9 DEF GraphIsChecked, LayersAgree
    <3> QED BY <1>1, <1>2, <2>7, <2>9, <3>1 DEF GraphIsChecked
  <2>14. LinksAreRead'
    BY <1>1, <1>2, <2>8, <2>9 DEF LinksAreRead
  <2> QED BY <2>9, <2>10, <2>11, <2>12, <2>13, <2>14 DEF LoaderIInv
<1> QED BY <1>4, <1>5

LEMMA ReadRandomStep ==
  ASSUME FilesAreTyped, LoaderIInv, ReadRandom
  PROVE  LoaderIInv'
<1> DEFINE h == load.header
           length == Ahead(1)[1]
           x == [index EXCEPT !.random = Ahead(2)[2]]
<1>1. load.phase = "random" /\ load.phase \in Sized
  BY DEF ReadRandom, Sized
<1>2. LoadIsTyped /\ HeaderIsKept /\ TablesAreSound /\ GraphIsSound /\ GraphIsChecked /\ LinksAreRead
  BY DEF LoaderIInv
<1>3. /\ HeaderIsSound(h) /\ index \in Indexes /\ load.inode \in Inodes
  BY <1>1, <1>2, SizedLoad
<1>4. "sum" \in Sized /\ load.phase \in Sized \union {"size"} /\ <<>> \in Seq(Nat)
  BY <1>1 DEF Sized
<1>5. ASSUME NEW cells \in Seq(Nat), NEW y \in Indexes, Accept(cells, "sum", y),
             y.dimension = index.dimension, y.m = index.m, y.efConstruction = index.efConstruction,
             y.efSearch = index.efSearch, y.selection = index.selection,
             y.vectors = index.vectors, y.graph = index.graph, y.ids = index.ids,
             y.deleted = index.deleted, y.deletedCount = index.deletedCount
      PROVE  LoaderIInv'
  <2>9. /\ LoadIsTyped' /\ load'.phase = "sum" /\ load'.header = h /\ load'.links = load.links /\ index' = y
    BY <1>1, <1>2, <1>4, <1>5, AcceptType
  <2>10. HeaderIsKept'
    BY <1>1, <1>2, <1>5, <2>9 DEF HeaderIsKept
  <2>11. TablesAreSound'
    BY <1>1, <1>2, <1>5, <2>9 DEF TablesAreSound
  <2>12. GraphIsSound'
    BY <1>1, <1>2, <1>5, <2>9 DEF GraphIsSound
  <2>13. GraphIsChecked'
    <3>1. LayersAgree'
      BY <1>1, <1>2, <1>5, <2>9 DEF GraphIsChecked, LayersAgree
    <3> QED BY <1>1, <1>2, <1>5, <2>9, <3>1 DEF GraphIsChecked
  <2>14. LinksAreRead'
    BY <1>1, <1>2, <1>4, <2>9 DEF LinksAreRead
  <2> QED BY <2>9, <2>10, <2>11, <2>12, <2>13, <2>14 DEF LoaderIInv
<1> DEFINE Right == /\ Available(1) /\ length \in 1..MaxRandom /\ length = Remaining(1)
                    /\ Available(1 + length) /\ Parses(Tail(Ahead(1 + length)))
<1>6. CASE h.version = 1
  <2>1. Accept(<<>>, "sum", index)
    BY <1>6 DEF ReadRandom, Declared
  <2> QED BY <1>3, <1>4, <1>5, <2>1
<1>7. CASE h.version # 1 /\ ~Right
  <2>1. Reject
    BY <1>7 DEF ReadRandom, Declared
  <2> QED BY <1>2, <2>1, RejectStep
<1>8. CASE h.version # 1 /\ Right
  <2>1. Accept(Ahead(1 + length), "sum", x)
    BY <1>8 DEF ReadRandom, Declared
  <2>2. length \in Nat /\ length >= 1
    BY <1>8, WordsAssumption
  <2>3. Ahead(1 + length) \in Seq(Nat)
    <3> HIDE DEF length
    <3>1. 1 + length \in Nat
      BY <2>2
    <3> QED BY <1>2, <1>3, <1>8, <3>1, AheadType
  <2>4. Ahead(2)[2] \in Nat
    <3>1. Available(2) /\ 2 \in Nat
      <4> HIDE DEF length
      <4>1. Len(load.read) \in Nat /\ Len(files[load.inode].payload) \in Nat
        BY <1>1, <1>2, <1>3, SizedLoad, FileType DEF FilesAreTyped
      <4> QED BY <1>8, <2>2, <4>1 DEF Available
    <3>2. \A i \in 1..2 : Ahead(2)[i] \in Nat
      BY <1>2, <1>3, <3>1, AheadType
    <3> QED BY <3>2
  <2> HIDE DEF length
  <2> DEFINE state == Ahead(2)[2]
  <2> HIDE DEF state
  <2>5. x = [index EXCEPT !.random = state] /\ state \in Nat
    BY <2>4 DEF state
  <2> HIDE DEF x
  <2>6. x \in Indexes
    BY <1>3, <2>5 DEF Indexes
  <2>7. /\ x.dimension = index.dimension /\ x.m = index.m /\ x.efConstruction = index.efConstruction
        /\ x.efSearch = index.efSearch /\ x.selection = index.selection
        /\ x.vectors = index.vectors /\ x.graph = index.graph /\ x.ids = index.ids
        /\ x.deleted = index.deleted /\ x.deletedCount = index.deletedCount
    BY <1>3, <2>5 DEF Indexes
  <2> QED BY <1>5, <2>1, <2>3, <2>6, <2>7
<1> QED BY <1>6, <1>7, <1>8

LEMMA CheckSumStep ==
  ASSUME FilesAreTyped, LoaderIInv, CheckSum
  PROVE  LoaderIInv'
<1> DEFINE h == load.header
           entry == IF h.count = 0 THEN 0 ELSE h.entry
           x == [index EXCEPT !.entry = entry, !.maxLevel = h.maxLevel]
<1>1. load.phase = "sum" /\ load.phase \in Sized
  BY DEF CheckSum, Sized
<1>2. LoadIsTyped /\ HeaderIsKept /\ TablesAreSound /\ GraphIsSound /\ GraphIsChecked /\ IsLoad(load)
  BY DEF LoaderIInv, LoadIsTyped
<1>3. IsHeader(h) /\ index \in Indexes /\ h.maxLevel \in Nat /\ h.entry \in Nat
  BY <1>1, <1>2, SizedLoad, HeaderType
<1>4. CASE ~ChecksumMatches(h, load.read)
  BY <1>2, <1>4, RejectStep DEF CheckSum, Declared
<1>5. CASE ChecksumMatches(h, load.read)
  <2>1. load' = [NoLoad EXCEPT !.phase = "loaded", !.header = h, !.clean = load.clean]
    BY <1>5 DEF CheckSum, Declared
  <2>2. index' = x
    BY <1>5 DEF CheckSum, Declared
  <2>3. load' = [phase |-> "loaded", inode |-> 0, header |-> h, sum |-> <<>>, read |-> <<>>,
                 layers |-> <<>>, level |-> 0, links |-> 0, clean |-> load.clean]
    BY <2>1 DEF NoLoad
  <2>4. "loaded" \in Phases /\ "loaded" \in Sized /\ 0 \in 0..(MaxChanges + 1) /\ load.clean \in BOOLEAN
    BY <1>2, WordsAssumption DEF Phases, Sized, IsLoad
  <2>5. IsLoad([phase |-> "loaded", inode |-> 0, header |-> h, sum |-> <<>>, read |-> <<>>,
                layers |-> <<>>, level |-> 0, links |-> 0, clean |-> load.clean])
    BY <2>4, NoLoadType
  <2>6. load'.phase = "loaded" /\ load'.header = h
    BY <2>3
  <2>7. IsLoad(load')
    BY <2>3, <2>5, Zenon
  <2>8. entry \in Nat /\ entry = IF h.count = 0 THEN 0 ELSE h.entry
    BY <1>3
  <2> HIDE DEF entry
  <2>9. x \in Indexes /\ x.entry = entry /\ x.maxLevel = h.maxLevel
    BY <1>3, <2>8 DEF Indexes
  <2>10. /\ x.dimension = index.dimension /\ x.m = index.m /\ x.efConstruction = index.efConstruction
        /\ x.efSearch = index.efSearch /\ x.selection = index.selection
         /\ x.vectors = index.vectors /\ x.graph = index.graph /\ x.ids = index.ids
         /\ x.deleted = index.deleted /\ x.deletedCount = index.deletedCount
    BY <1>3 DEF Indexes
  <2> HIDE DEF x
  <2>11. LoadIsTyped'
    BY <1>3, <2>2, <2>6, <2>7, <2>9 DEF LoadIsTyped
  <2>12. HeaderIsKept'
    BY <1>1, <1>2, <2>2, <2>6, <2>10 DEF HeaderIsKept
  <2>13. TablesAreSound'
    BY <1>1, <1>2, <2>2, <2>6, <2>10 DEF TablesAreSound
  <2>14. GraphIsSound'
    BY <1>1, <1>2, <2>2, <2>6, <2>10 DEF GraphIsSound
  <2>15. GraphIsChecked'
    <3>1. LayersAgree'
      BY <1>1, <1>2, <2>2, <2>10 DEF GraphIsChecked, LayersAgree
    <3> QED BY <1>1, <1>2, <2>2, <2>6, <2>8, <2>9, <2>10, <3>1 DEF GraphIsChecked
  <2>16. LinksAreRead'
    BY <2>6 DEF LinksAreRead
  <2> QED BY <2>11, <2>12, <2>13, <2>14, <2>15, <2>16 DEF LoaderIInv
<1> QED BY <1>4, <1>5

\* A change of a file ends nothing but the claim that the load is undisturbed.
LEMMA ChangeStep ==
  ASSUME LoaderIInv, load' = [load EXCEPT !.clean = FALSE], index' = index
  PROVE  LoaderIInv'
<1> DEFINE new == [phase |-> load.phase, inode |-> load.inode, header |-> load.header, sum |-> load.sum,
                   read |-> load.read, layers |-> load.layers, level |-> load.level, links |-> load.links,
                   clean |-> FALSE]
<1>1. IsLoad(load) /\ load.phase \in Phases
  BY DEF LoaderIInv, LoadIsTyped, IsLoad
<1>2. load' = new
  BY <1>1, LoadType
<1>3. IsLoad(new)
  BY <1>1, LoadType, MakeLoad
<1>4. /\ load'.phase = load.phase /\ load'.inode = load.inode /\ load'.header = load.header
      /\ load'.read = load.read /\ load'.layers = load.layers /\ load'.level = load.level
      /\ load'.links = load.links
  BY <1>2
<1>5. IsLoad(load')
  BY <1>2, <1>3, Zenon
<1>6. LoadIsTyped'
  BY <1>4, <1>5 DEF LoaderIInv, LoadIsTyped, Inodes
<1>7. HeaderIsKept'
  BY <1>4 DEF LoaderIInv, HeaderIsKept
<1>8. TablesAreSound'
  BY <1>4 DEF LoaderIInv, TablesAreSound
<1>9. GraphIsSound'
  BY <1>4 DEF LoaderIInv, GraphIsSound
<1>10. GraphIsChecked'
  BY <1>4 DEF LoaderIInv, GraphIsChecked, LayersAgree
<1>11. LinksAreRead'
  BY <1>4 DEF LoaderIInv, LinksAreRead
<1> QED BY <1>6, <1>7, <1>8, <1>9, <1>10, <1>11 DEF LoaderIInv

\* A file of numbers takes the place of another.
LEMMA ChangeFiles ==
  ASSUME FilesAreTyped, NEW i \in Inodes, NEW f, IsFile(f), files' = [files EXCEPT ![i] = f]
  PROVE  files' = [j \in Inodes |-> files'[j]] /\ \A j \in Inodes : IsFile(files'[j])
<1>1. files = [j \in Inodes |-> files[j]] /\ \A j \in Inodes : IsFile(files[j])
  BY DEF FilesAreTyped
<1>2. files' = [j \in Inodes |-> IF j = i THEN f ELSE files[j]]
  BY <1>1
<1>3. \A j \in Inodes : files'[j] = IF j = i THEN f ELSE files[j]
  BY <1>2
<1>4. \A j \in Inodes : IsFile(files'[j])
  BY <1>1, <1>3
<1> QED BY <1>2, <1>3, <1>4

\* The other processes.
LEMMA OthersStep ==
  ASSUME LoadIInv, Others
  PROVE  LoadIInv'
<1>1. FilesAreTyped /\ LoaderIInv
  BY DEF LoadIInv, LoaderIInv
<1>2. /\ changes \in Nat /\ changes <= MaxChanges /\ path \in Nat /\ path >= 1 /\ path <= changes + 1
      /\ MaxChanges \in Nat /\ path \in Inodes /\ IsFile(files[path])
  BY <1>1, WordsAssumption DEF FilesAreTyped, Inodes
<1>3. SUFFICES FilesAreTyped' /\ LoaderIInv'
  BY DEF LoadIInv, LoaderIInv
<1>4. ASSUME NEW x \in Disturbed, Replace(x) PROVE FilesAreTyped' /\ LoaderIInv'
  <2>1. IsIndex(x)
    BY <1>4, SnapshotsAssumption DEF Replace, IsIndex
  <2>2. IsFile(Written(x))
    BY <2>1, WrittenType
  <2>3. /\ changes' = changes + 1 /\ changes < MaxChanges /\ path' = path + 1 /\ writing' = writing
        /\ files' = [files EXCEPT ![path + 1] = Written(x)]
        /\ load' = [load EXCEPT !.clean = FALSE] /\ index' = index
    BY <1>4 DEF Replace, Change, MayChange
  <2>4. path + 1 \in Inodes
    BY <1>2, <2>3 DEF Inodes
  <2>5. files' = [j \in Inodes |-> files'[j]] /\ \A j \in Inodes : IsFile(files'[j])
    BY <1>1, <2>2, <2>3, <2>4, ChangeFiles
  <2>6. changes' \in 0..MaxChanges /\ path' \in 1..(changes' + 1)
    BY <1>2, <2>3
  <2>7. FilesAreTyped'
    BY <1>1, <2>3, <2>5, <2>6 DEF FilesAreTyped, Inodes
  <2> QED BY <1>1, <2>3, <2>7, ChangeStep
<1>5. ASSUME NEW x \in Indexes, Save(x) PROVE FilesAreTyped' /\ LoaderIInv'
  <2>1. IsIndex(x)
    BY <1>5 DEF Save, IsIndex
  <2>2. IsFile(Written(x))
    BY <2>1, WrittenType
  <2>3. PICK n \in 0..Size(Written(x)) : Change(path, Prefix(Written(x), n))
    BY <1>5 DEF Save
  <2>4. IsFile(Prefix(Written(x), n))
    BY <2>2, PrefixType
  <2>5. /\ changes' = changes + 1 /\ changes < MaxChanges /\ path' = path /\ writing' = x
        /\ files' = [files EXCEPT ![path] = Prefix(Written(x), n)]
        /\ load' = [load EXCEPT !.clean = FALSE] /\ index' = index
    BY <1>5, <2>3 DEF Save, Change, MayChange
  <2>6. files' = [j \in Inodes |-> files'[j]] /\ \A j \in Inodes : IsFile(files'[j])
    BY <1>1, <1>2, <2>4, <2>5, ChangeFiles
  <2>7. changes' \in 0..MaxChanges /\ path' \in 1..(changes' + 1)
    BY <1>2, <2>5
  <2>8. FilesAreTyped'
    <3>1. IsIndex(writing')
      BY <2>1, <2>5, Zenon
    <3> QED BY <2>6, <2>7, <3>1 DEF FilesAreTyped, Inodes, IsIndex
  <2> QED BY <1>1, <2>5, <2>8, ChangeStep
<1>6. ASSUME Flush PROVE FilesAreTyped' /\ LoaderIInv'
  <2>1. IsFile(Written(writing))
    BY <1>1, <1>6, WrittenType DEF Flush, FilesAreTyped
  <2>2. /\ files' = [files EXCEPT ![path] = Written(writing)] /\ writing' = NoIndex /\ changes' = changes
        /\ path' = path /\ load' = load /\ index' = index
    BY <1>6 DEF Flush
  <2>3. files' = [j \in Inodes |-> files'[j]] /\ \A j \in Inodes : IsFile(files'[j])
    BY <1>1, <1>2, <2>1, <2>2, ChangeFiles
  <2>4. FilesAreTyped'
    BY <1>1, <2>2, <2>3 DEF FilesAreTyped, Inodes
  <2> QED
    BY <1>1, <2>2, <2>4 DEF LoaderIInv, LoadIsTyped, HeaderIsKept, TablesAreSound, GraphIsSound,
                            GraphIsChecked, LayersAgree, LinksAreRead
<1>7. ASSUME NEW f, IsFile(f), Change(path, f), changes < MaxChanges, path' = path, writing' = writing, index' = index
      PROVE  FilesAreTyped' /\ LoaderIInv'
  <2>1. /\ changes' = changes + 1 /\ files' = [files EXCEPT ![path] = f] /\ load' = [load EXCEPT !.clean = FALSE]
    BY <1>7 DEF Change
  <2>2. files' = [j \in Inodes |-> files'[j]] /\ \A j \in Inodes : IsFile(files'[j])
    BY <1>1, <1>2, <1>7, <2>1, ChangeFiles
  <2>3. changes' \in 0..MaxChanges /\ path' \in 1..(changes' + 1)
    BY <1>2, <1>7, <2>1
  <2>4. FilesAreTyped'
    BY <1>1, <1>7, <2>2, <2>3 DEF FilesAreTyped, Inodes
  <2> QED BY <1>1, <1>7, <2>1, <2>4, ChangeStep
<1>8. ASSUME Damage PROVE FilesAreTyped' /\ LoaderIInv'
  <2>1. files[path].header # NoHeader /\ changes < MaxChanges /\ path' = path /\ writing' = writing /\ index' = index
    BY <1>8 DEF Damage, MayChange
  <2>2. PICK f \in Altered(files[path]) : Change(path, f)
    BY <1>8 DEF Damage
  <2>3. IsFile(f)
    BY <1>2, <2>1, <2>2, AlteredType
  <2> QED BY <1>7, <2>1, <2>2, <2>3
<1>9. ASSUME OtherWriter PROVE FilesAreTyped' /\ LoaderIInv'
  <2>1. files[path].header # NoHeader /\ changes < MaxChanges /\ path' = path /\ writing' = writing /\ index' = index
    BY <1>9 DEF OtherWriter, MayChange
  <2>2. PICK f \in Altered(files[path]) : Change(path, [f EXCEPT !.sum = <<f.header, f.payload>>])
    BY <1>9 DEF OtherWriter
  <2>3. IsFile([f EXCEPT !.sum = <<f.header, f.payload>>])
    BY <1>2, <2>1, <2>2, AlteredType
  <2> QED BY <1>7, <2>1, <2>2, <2>3
<1>10. Disturbed \subseteq Indexes
  BY SnapshotsAssumption
<1>11. load.phase = "loaded" => index \in Indexes
  BY <1>1 DEF LoaderIInv, LoadIsTyped, Sized
<1> QED BY <1>4, <1>5, <1>6, <1>8, <1>9, <1>10, <1>11 DEF Others

\* The loader leaves the files alone.
LEMMA LoadStep ==
  ASSUME LoadIInv, Load
  PROVE  LoadIInv'
<1>1. FilesAreTyped /\ LoaderIInv /\ LoadIsTyped /\ LinksAreRead
  BY DEF LoadIInv, LoaderIInv
<1>2. files' = files /\ path' = path /\ writing' = writing /\ changes' = changes
  BY DEF Load, Open, ReadHeader, CheckSize, ReadIds, ReadVectors, ReadLevel, ReadLayer, CheckGraph,
         ReadTombstones, ReadRandom, CheckSum, fileVars
<1>3. FilesAreTyped'
  BY <1>1, <1>2 DEF FilesAreTyped, Inodes
<1>4. LoaderIInv'
  BY <1>1, OpenStep, ReadHeaderStep, CheckSizeStep, ReadIdsStep, ReadVectorsStep, ReadLevelStep, ReadLayerStep,
     CheckGraphStep, ReadTombstonesStep, ReadRandomStep, CheckSumStep DEF Load
<1> QED BY <1>3, <1>4 DEF LoadIInv, LoaderIInv

LEMMA InitLoadIInv ==
  ASSUME Init
  PROVE  LoadIInv
<1>1. PICK x \in Snapshots, v \in Versions :
         Savable(x) /\ files = [i \in Inodes |-> IF v = 3 THEN Written(x) ELSE WrittenBefore(x, v)]
  BY DEF Init
<1>2. IsIndex(x)
  BY <1>1, SnapshotsAssumption DEF IsIndex
<1> DEFINE f == IF v = 3 THEN Written(x) ELSE WrittenBefore(x, v)
<1>3. IsFile(f)
  BY <1>2, WrittenType
<1>4. files = [i \in Inodes |-> f]
  BY <1>1
<1> HIDE DEF f
<1>5. files = [i \in Inodes |-> files[i]] /\ \A i \in Inodes : IsFile(files[i])
  BY <1>3, <1>4
<1>6. path = 1 /\ changes = 0 /\ writing = NoIndex
  BY DEF Init
<1>7. FilesAreTyped
  BY <1>5, <1>6, WordsAssumption DEF FilesAreTyped
<1>8. load = [phase |-> "closed", inode |-> 0, header |-> NoHeader, sum |-> <<>>, read |-> <<>>,
              layers |-> <<>>, level |-> 0, links |-> 0, clean |-> FALSE]
  BY DEF Init, NoLoad
<1>9. "closed" \in Phases /\ "closed" \notin Sized /\ 0 \in 0..(MaxChanges + 1) /\ FALSE \in BOOLEAN
  BY WordsAssumption DEF Phases, Sized
<1>10. IsLoad([phase |-> "closed", inode |-> 0, header |-> NoHeader, sum |-> <<>>, read |-> <<>>,
               layers |-> <<>>, level |-> 0, links |-> 0, clean |-> FALSE])
  BY <1>9, NoLoadType
<1>11. load.phase = "closed"
  BY <1>8
<1>12. IsLoad(load)
  BY <1>8, <1>10, Zenon
<1> QED
  BY <1>7, <1>9, <1>11, <1>12 DEF LoadIInv, LoadIsTyped, HeaderIsKept, TablesAreSound, GraphIsSound,
                                  GraphIsChecked, LinksAreRead

\* A search leaves the loader and the files as they are.
LEMMA SearchLeavesLoad ==
  ASSUME [SearchNext]_searchVars
  PROVE  [Next]_vars
BY DEF SearchNext, SearchStep, StartSearch, StartInsert, Greedy, EnterLayer, Pop, Visit, FinishSearch,
       FinishLayer, Stop, searchVars

LEMMA StepLoadIInv ==
  ASSUME LoadIInv, [Next]_vars
  PROVE  LoadIInv'
<1>1. CASE Next
  BY <1>1, LoadStep, OthersStep DEF Next
<1>2. CASE UNCHANGED vars
  BY <1>2 DEF vars, fileVars, LoadIInv, FilesAreTyped, Inodes, LoadIsTyped, HeaderIsKept, TablesAreSound, GraphIsSound,
              GraphIsChecked, LayersAgree, LinksAreRead
<1> QED BY <1>1, <1>2

\* The invariant of the loader holds whatever happens to the files.
THEOREM LoadInvariance == SearchSpec => []LoadIInv
<1>1. SearchInit => LoadIInv
  BY InitLoadIInv DEF SearchInit
<1>2. LoadIInv /\ [SearchNext]_searchVars => LoadIInv'
  BY SearchLeavesLoad, StepLoadIInv
<1> QED BY <1>1, <1>2, PTL DEF SearchSpec

LEMMA LoadIsSafeFollows ==
  ASSUME LoadIInv
  PROVE  LoadIsSafe
<1>1. AllocationIsBounded
  <2> SUFFICES ASSUME load.phase \in {"ids", "vectors", "node", "layer", "tombstones", "random", "sum"}
      PROVE /\ Declared.count + Declared.count * Declared.dimension + Declared.count <= Declared.payload
            /\ Declared.count + Declared.count * Declared.dimension + load.links <= Declared.payload
    BY DEF AllocationIsBounded
  <2> DEFINE h == load.header
             product == h.count * h.dimension
  <2>1. load.phase \in Sized /\ load.phase # "loaded" /\ LoadIsTyped /\ HeaderIsKept /\ LinksAreRead
    BY DEF Sized, LoadIInv
  <2>2. HeaderIsSound(h) /\ h.count \in Nat /\ h.payload \in Nat /\ product \in Nat
    BY <2>1, SizedLoad
  <2>3. h.count + product + 2 * h.count <= h.payload
    BY <2>2 DEF HeaderIsSound
  <2>4. h.count + product + load.links <= h.payload
    BY <2>1 DEF LinksAreRead
  <2> HIDE DEF product
  <2>5. h.count + product + h.count <= h.payload
    BY <2>2, <2>3
  <2> QED BY <2>4, <2>5 DEF product, Declared
<1>2. LoadedIsSound
  <2> SUFFICES ASSUME load.phase = "loaded" PROVE LoadedIsSound
    BY DEF LoadedIsSound
  <2> DEFINE h == load.header
             nodes == 1..Len(index.ids)
  <2>1. load.phase \in Sized /\ load.phase \notin {"ids", "vectors"} /\ LoadIsTyped /\ HeaderIsKept /\ TablesAreSound
        /\ GraphIsSound /\ GraphIsChecked
    BY DEF Sized, LoadIInv
  <2>2. HeaderIsSound(h) /\ index \in Indexes /\ h.count \in Nat /\ h.maxLevel \in Nat
    BY <2>1, SizedLoad
  <2>3. /\ index.dimension = h.dimension /\ index.m = h.m /\ index.efConstruction = h.efConstruction
        /\ index.efSearch = h.efSearch /\ index.selection = h.selection
    BY <2>1 DEF HeaderIsKept
  <2>4. /\ Len(index.deleted) = h.count /\ Len(index.ids) = h.count /\ IsInjective(index.ids)
        /\ \A n \in 1..h.count : index.deleted[n] <= 1
        /\ index.deletedCount = Cardinality({n \in 1..h.count : index.deleted[n] = 1})
        /\ Len(index.vectors) = h.count * h.dimension
        /\ \A n \in 1..h.count : SquaredNorm(Row(index.vectors, n, h.dimension)) = 1
    BY <2>1 DEF TablesAreSound
  <2>5. /\ Len(index.graph) = h.count /\ LayersAgree /\ index.maxLevel = h.maxLevel
        /\ index.entry = IF h.count = 0 THEN 0 ELSE h.entry
        /\ h.count # 0 => Len(index.graph[h.entry]) = h.maxLevel + 1
    BY <2>1 DEF GraphIsChecked
  <2>6. \A n \in nodes : NodeIsSound(h, index.graph[n], n)
    BY <2>1, <2>4, <2>5 DEF GraphIsSound
  <2>7. nodes = 1..h.count
    BY <2>4
  <2>8. index.graph \in Seq(Nodes) /\ \A n \in nodes : index.graph[n] \in Seq(Seq(Nat))
    <3>1. index.graph \in Seq(Nodes)
      BY <2>2 DEF Indexes
    <3>2. \A n \in nodes : index.graph[n] \in Nodes
      BY <2>4, <2>5, <3>1
    <3> QED BY <3>1, <3>2 DEF Nodes
  <2> HIDE DEF nodes
  <2>9. IF nodes = {} THEN index.entry = 0 /\ index.maxLevel = 0
        ELSE index.entry \in nodes /\ Len(index.graph[index.entry]) = index.maxLevel + 1
    <3>1. nodes = {} <=> h.count = 0
      BY <2>2, <2>7
    <3>2. CASE h.count = 0
      BY <2>2, <2>5, <3>1, <3>2 DEF HeaderIsSound
    <3>3. CASE h.count # 0
      BY <2>2, <2>5, <2>7, <3>1, <3>3 DEF HeaderIsSound
    <3> QED BY <3>2, <3>3
  <2>10. ASSUME NEW n \in nodes, NEW l \in DOMAIN index.graph[n]
         PROVE  LET list == index.graph[n][l] IN
                /\ IsInjective(list) /\ Len(list) <= Limit(index, l - 1)
                /\ \A e \in DOMAIN list : list[e] \in nodes \ {n} /\ l \in DOMAIN index.graph[list[e]]
    <3> DEFINE list == index.graph[n][l]
    <3>1. ListIsSound(h, list, l, n) /\ l \in 1..Len(index.graph[n])
      BY <2>6, <2>8 DEF NodeIsSound
    <3>2. n \in DOMAIN index.graph
      BY <2>5, <2>7, <2>8
    <3>3. \A e \in DOMAIN list : Len(index.graph[list[e]]) >= l
      BY <2>5, <3>2 DEF LayersAgree
    <3> HIDE DEF list
    <3>4. l \in Nat /\ l >= 1
      BY <2>8, <3>1
    <3>5. IsInjective(list) /\ Len(list) <= (IF l = 1 THEN 2 * h.m ELSE h.m)
          /\ \A e \in DOMAIN list : list[e] \in (1..h.count) \ {n}
      BY <3>1 DEF ListIsSound
    <3>6. Limit(index, l - 1) = IF l = 1 THEN 2 * h.m ELSE h.m
      BY <2>3, <3>4 DEF Limit
    <3>7. ASSUME NEW e \in DOMAIN list PROVE list[e] \in nodes \ {n} /\ l \in DOMAIN index.graph[list[e]]
      <4>1. list[e] \in nodes /\ list[e] # n
        BY <2>7, <3>5
      <4>2. DOMAIN index.graph[list[e]] = 1..Len(index.graph[list[e]]) /\ Len(index.graph[list[e]]) \in Nat
        BY <2>8, <4>1
      <4> QED BY <3>3, <3>4, <4>1, <4>2
    <3>8. /\ IsInjective(list) /\ Len(list) <= Limit(index, l - 1)
          /\ \A e \in DOMAIN list : list[e] \in nodes \ {n} /\ l \in DOMAIN index.graph[list[e]]
      BY <3>5, <3>6, <3>7
    <3> QED BY <3>8 DEF list
  <2>11. \A n \in nodes : Len(index.graph[n]) \in 1..(index.maxLevel + 1)
    BY <2>5, <2>6 DEF NodeIsSound
  <2>12. /\ IsInjective(index.ids)
         /\ Len(index.vectors) = Len(index.ids) * index.dimension
         /\ Len(index.graph) = Len(index.ids) /\ Len(index.deleted) = Len(index.ids)
         /\ index.deletedCount = Cardinality({n \in nodes : index.deleted[n] = 1})
         /\ \A n \in nodes : index.deleted[n] <= 1
         /\ index.dimension # 0 /\ index.m >= 2 /\ index.efConstruction >= index.m /\ index.efSearch # 0
         /\ index.selection <= 1 /\ index.maxLevel <= MaxLevel
         /\ \A n \in nodes : SquaredNorm(Row(index.vectors, n, index.dimension)) = 1
    BY <2>2, <2>3, <2>4, <2>5, <2>7 DEF HeaderIsSound
  <2> QED BY <2>9, <2>10, <2>11, <2>12 DEF LoadedIsSound, Sound, nodes
<1> QED BY <1>1, <1>2 DEF LoadIsSafe

\* Whoever wrote the file, and whatever other processes do to it while load()
\* reads it: what is reserved is bounded by the payload that the header
\* declares, and an index that is returned can be searched and extended.
THEOREM LoadStaysSafe == SearchSpec => []LoadIsSafe
BY LoadInvariance, LoadIsSafeFollows, PTL

-----------------------------------------------------------------------------
(* The order of the candidates *)

\* is_better is a strict total order of the nodes.
Ordered ==
    /\ Count \in Nat
    /\ \A a \in 1..Count : ~IsBetter(a, a)
    /\ \A a, b \in 1..Count : a # b => IsBetter(a, b) \/ IsBetter(b, a)
    /\ \A a, b, c \in 1..Count : IsBetter(a, b) /\ IsBetter(b, c) => IsBetter(a, c)

\* The place of n in S, from 0.
Before(S, n) == {m \in S : IsBetter(m, n)}
Rank(S, n) == Cardinality(Before(S, n))

\* IDs are distinct, so that candidates with the same score are ordered too.
LEMMA ScoresOrder ==
  ASSUME search.scores \in [1..Count -> Int], index.ids \in Seq(Nat), IsInjective(index.ids)
  PROVE  Ordered
<1>1. Count \in Nat /\ \A a \in 1..Count : Score(a) \in Int /\ index.ids[a] \in Nat
  BY DEF Count, Score
<1>2. \A a, b \in 1..Count : index.ids[a] = index.ids[b] => a = b
  BY DEF IsInjective, Count
<1> HIDE DEF Count, Score
<1>3. \A a \in 1..Count : ~IsBetter(a, a)
  BY <1>1 DEF IsBetter
<1>4. \A a, b \in 1..Count : a # b => IsBetter(a, b) \/ IsBetter(b, a)
  <2> SUFFICES ASSUME NEW a \in 1..Count, NEW b \in 1..Count, a # b PROVE IsBetter(a, b) \/ IsBetter(b, a)
    OBVIOUS
  <2>1. /\ Score(a) \in Int /\ Score(b) \in Int /\ index.ids[a] \in Nat /\ index.ids[b] \in Nat
        /\ index.ids[a] # index.ids[b]
    BY <1>1, <1>2
  <2> QED BY <2>1 DEF IsBetter
<1>5. \A a, b, c \in 1..Count : IsBetter(a, b) /\ IsBetter(b, c) => IsBetter(a, c)
  <2> SUFFICES ASSUME NEW a \in 1..Count, NEW b \in 1..Count, NEW c \in 1..Count, IsBetter(a, b), IsBetter(b, c)
      PROVE  IsBetter(a, c)
    OBVIOUS
  <2>1. Score(a) \in Int /\ Score(b) \in Int /\ Score(c) \in Int
        /\ index.ids[a] \in Nat /\ index.ids[b] \in Nat /\ index.ids[c] \in Nat
    BY <1>1
  <2> QED BY <2>1 DEF IsBetter
<1> QED BY <1>1, <1>3, <1>4, <1>5 DEF Ordered

LEMMA Ranks ==
  ASSUME Ordered, NEW S, S \subseteq 1..Count
  PROVE  /\ IsFiniteSet(S) /\ Cardinality(S) \in Nat
         /\ \A n \in S : Rank(S, n) \in 0..(Cardinality(S) - 1)
         /\ \A a, b \in S : IsBetter(a, b) <=> Rank(S, a) < Rank(S, b)
         /\ \A r \in 0..(Cardinality(S) - 1) : \E n \in S : Rank(S, n) = r
<1>1. IsFiniteSet(1..Count)
  BY FS_Interval DEF Ordered
<1>2. IsFiniteSet(S) /\ Cardinality(S) \in Nat
  BY <1>1, FS_Subset, FS_CardinalityType
<1>3. ASSUME NEW n \in S PROVE IsFiniteSet(Before(S, n)) /\ Rank(S, n) \in Nat
  <2>1. Before(S, n) \subseteq S
    BY DEF Before
  <2>2. IsFiniteSet(Before(S, n))
    BY <1>2, <2>1, FS_Subset
  <2> QED BY <2>2, FS_CardinalityType DEF Rank
<1>4. ASSUME NEW n \in S PROVE Rank(S, n) \in 0..(Cardinality(S) - 1)
  <2>1. Before(S, n) \subseteq S \ {n} /\ n \in S
    BY DEF Before, Ordered
  <2>2. IsFiniteSet(S \ {n}) /\ Cardinality(S \ {n}) = Cardinality(S) - 1
    BY <1>2, FS_RemoveElement
  <2>3. Rank(S, n) <= Cardinality(S \ {n})
    BY <2>1, <2>2, FS_Subset DEF Rank
  <2> QED BY <1>2, <1>3, <2>2, <2>3
<1>5. ASSUME NEW a \in S, NEW b \in S, IsBetter(a, b) PROVE Rank(S, a) < Rank(S, b)
  <2>1. a \in Before(S, b) /\ a \notin Before(S, a) /\ Before(S, a) \subseteq Before(S, b)
    BY <1>5 DEF Before, Ordered
  <2>2. IsFiniteSet(Before(S, a) \union {a}) /\ Cardinality(Before(S, a) \union {a}) = Rank(S, a) + 1
    BY <1>3, <2>1, FS_AddElement DEF Rank
  <2>3. Before(S, a) \union {a} \subseteq Before(S, b)
    BY <2>1
  <2>4. Rank(S, a) + 1 <= Rank(S, b)
    BY <1>3, <2>2, <2>3, FS_Subset DEF Rank
  <2> QED BY <1>3, <2>4
<1>6. ASSUME NEW a \in S, NEW b \in S, Rank(S, a) < Rank(S, b) PROVE IsBetter(a, b)
  <2>1. Rank(S, a) \in Nat /\ Rank(S, b) \in Nat
    BY <1>3
  <2>2. a # b
    BY <1>6, <2>1
  <2>3. ~IsBetter(b, a)
    BY <1>5, <1>6, <2>1
  <2> QED BY <2>2, <2>3 DEF Ordered
<1>7. ASSUME NEW r \in 0..(Cardinality(S) - 1) PROVE \E n \in S : Rank(S, n) = r
  <2> SUFFICES ASSUME \A n \in S : Rank(S, n) # r PROVE FALSE
    OBVIOUS
  <2> DEFINE N == Cardinality(S)
             T == (0..(N - 1)) \ {r}
             f == [n \in S |-> Rank(S, n)]
  <2>1. N \in Nat /\ N >= 1
    BY <1>2
  <2>2. IsFiniteSet(0..(N - 1)) /\ Cardinality(0..(N - 1)) = N
    BY <2>1, FS_Interval
  <2>3. IsFiniteSet(T) /\ Cardinality(T) = N - 1
    BY <2>2, FS_RemoveElement
  <2>4. f \in [S -> T]
    BY <1>4
  <2>5. Cardinality(T) < Cardinality(S)
    BY <2>1, <2>3
  <2> HIDE DEF T, f
  <2>6. \E x, y \in S : x # y /\ f[x] = f[y]
    BY <1>2, <2>3, <2>4, <2>5, FS_PigeonHole
  <2>7. PICK x \in S, y \in S : x # y /\ Rank(S, x) = Rank(S, y)
    BY <2>6 DEF f
  <2>8. IsBetter(x, y) \/ IsBetter(y, x)
    BY <2>7 DEF Ordered
  <2>9. Rank(S, x) \in Nat /\ Rank(S, y) \in Nat
    BY <1>3
  <2> QED BY <1>5, <2>7, <2>8, <2>9
<1> QED BY <1>2, <1>4, <1>5, <1>6, <1>7

\* The heaps have a best and a worst member.
LEMMA Extremes ==
  ASSUME Ordered, NEW S, S \subseteq 1..Count, S # {}
  PROVE  BestOf(S) \in S /\ WorstOf(S) \in S
<1>1. IsFiniteSet(S) /\ Cardinality(S) \in Nat /\ Cardinality(S) # 0
  BY Ranks, FS_EmptySet
<1>8. 0 \in 0..(Cardinality(S) - 1) /\ Cardinality(S) - 1 \in 0..(Cardinality(S) - 1)
  BY <1>1
<1>2. PICK b \in S : Rank(S, b) = 0
  BY <1>8, Ranks
<1>3. PICK w \in S : Rank(S, w) = Cardinality(S) - 1
  BY <1>8, Ranks
<1>4. ASSUME NEW m \in S \ {b} PROVE IsBetter(b, m)
  <2>1. IsBetter(b, m) \/ IsBetter(m, b)
    BY <1>4 DEF Ordered
  <2>2. Rank(S, m) \in 0..(Cardinality(S) - 1) /\ (IsBetter(m, b) => Rank(S, m) < Rank(S, b))
    BY Ranks
  <2> QED BY <1>1, <1>2, <2>1, <2>2
<1>5. ASSUME NEW m \in S \ {w} PROVE IsBetter(m, w)
  <2>1. IsBetter(w, m) \/ IsBetter(m, w)
    BY <1>5 DEF Ordered
  <2>2. Rank(S, m) \in 0..(Cardinality(S) - 1) /\ (IsBetter(w, m) => Rank(S, w) < Rank(S, m))
    BY Ranks
  <2> QED BY <1>1, <1>3, <2>1, <2>2
<1>6. BestOf(S) \in S
  BY <1>4 DEF BestOf
<1>7. WorstOf(S) \in S
  BY <1>5 DEF WorstOf
<1> QED BY <1>6, <1>7

\* std::sort returns every candidate once, best first.
LEMMA SortedType ==
  ASSUME Ordered, NEW S, S \subseteq 1..Count
  PROVE  /\ IsFiniteSet(S) /\ Cardinality(S) \in Nat
         /\ Sorted(S) \in Seq(S) /\ Len(Sorted(S)) = Cardinality(S)
         /\ \A i, j \in 1..Cardinality(S) : i < j => IsBetter(Sorted(S)[i], Sorted(S)[j])
         /\ \A n \in S : \E i \in 1..Cardinality(S) : Sorted(S)[i] = n
<1>1. IsFiniteSet(S) /\ Cardinality(S) \in Nat
  BY Ranks
<1> DEFINE Place(r) == CHOOSE n \in S : Rank(S, n) = r - 1
<1>2. \A r \in 1..Cardinality(S) : Place(r) \in S /\ Rank(S, Place(r)) = r - 1
  <2> TAKE r \in 1..Cardinality(S)
  <2>1. r - 1 \in 0..(Cardinality(S) - 1)
    BY <1>1
  <2>2. \E n \in S : Rank(S, n) = r - 1
    BY <2>1, Ranks
  <2> QED BY <2>2
<1>3. Sorted(S) = [r \in 1..Cardinality(S) |-> Place(r)]
  BY DEF Sorted, Rank, Before
<1> HIDE DEF Place
<1>4. Sorted(S) \in Seq(S) /\ Len(Sorted(S)) = Cardinality(S)
  BY <1>1, <1>2, <1>3
<1>5. \A r \in 1..Cardinality(S) : Sorted(S)[r] \in S /\ Rank(S, Sorted(S)[r]) = r - 1
  BY <1>2, <1>3
<1>6. ASSUME NEW i \in 1..Cardinality(S), NEW j \in 1..Cardinality(S), i < j
      PROVE  IsBetter(Sorted(S)[i], Sorted(S)[j])
  <2>1. Rank(S, Sorted(S)[i]) < Rank(S, Sorted(S)[j])
    BY <1>1, <1>5, <1>6
  <2> QED BY <1>5, <2>1, Ranks
<1>7. ASSUME NEW n \in S PROVE \E i \in 1..Cardinality(S) : Sorted(S)[i] = n
  <2> DEFINE i == Rank(S, n) + 1
  <2>1. Rank(S, n) \in 0..(Cardinality(S) - 1)
    BY Ranks
  <2>2. i \in 1..Cardinality(S) /\ i - 1 = Rank(S, n)
    BY <1>1, <2>1
  <2>3. Sorted(S)[i] \in S /\ Rank(S, Sorted(S)[i]) = Rank(S, n)
    BY <1>5, <2>2
  <2>4. ~(Rank(S, Sorted(S)[i]) < Rank(S, n)) /\ ~(Rank(S, n) < Rank(S, Sorted(S)[i]))
    BY <2>1, <2>3
  <2> HIDE DEF i
  <2>5. ~IsBetter(Sorted(S)[i], n) /\ ~IsBetter(n, Sorted(S)[i])
    BY <2>3, <2>4, Ranks
  <2>6. Sorted(S)[i] = n
    BY <2>3, <2>5 DEF Ordered
  <2> QED BY <2>2, <2>6
<1> QED BY <1>1, <1>4, <1>6, <1>7

-----------------------------------------------------------------------------
(* Loops over a list *)

\* The value after each of n rounds, when round i takes the value v of the
\* round before to step[<<i, v>>].
Iterates(f, base, step, n) == f[0] = base /\ \A i \in 1..n : f[i] = step[<<i, f[i - 1]>>]

LEMMA Iteration ==
  ASSUME NEW S, NEW n \in Nat, NEW base \in S, NEW step \in [(1..n) \X S -> S]
  PROVE  \E f \in [0..n -> S] : Iterates(f, base, step, n)
<1> DEFINE Good == {k \in 0..n : \E f \in [0..k -> S] : Iterates(f, base, step, k)}
<1>1. 0 \in Good
  <2> DEFINE f == [i \in 0..0 |-> base]
  <2>1. f \in [0..0 -> S] /\ Iterates(f, base, step, 0)
    BY DEF Iterates
  <2>2. \E g \in [0..0 -> S] : Iterates(g, base, step, 0)
    BY <2>1, Zenon
  <2>3. 0 \in 0..n
    OBVIOUS
  <2> QED BY <2>2, <2>3, Zenon
<1>2. ASSUME NEW k \in 0..(n - 1), k \in Good PROVE k + 1 \in Good
  <2>1. PICK f \in [0..k -> S] : Iterates(f, base, step, k)
    BY <1>2
  <2> DEFINE new == step[<<k + 1, f[k]>>]
             g == [i \in 0..(k + 1) |-> IF i = k + 1 THEN new ELSE f[i]]
  <2>2. k \in 0..k /\ k + 1 \in 1..n /\ k + 1 \in 0..n /\ k + 1 \notin 0..k
    OBVIOUS
  <2>3. new \in S
    <3>1. f[k] \in S
      BY <2>2
    <3>2. <<k + 1, f[k]>> \in (1..n) \X S
      BY <2>2, <3>1
    <3> QED BY <3>2
  <2> HIDE DEF new
  <2>4. g \in [0..(k + 1) -> S]
    BY <2>3
  <2>5. g[k + 1] = new /\ \A i \in 0..k : g[i] = f[i]
    BY <2>2
  <2> HIDE DEF g
  <2>6. ASSUME NEW i \in 1..(k + 1) PROVE g[i] = step[<<i, g[i - 1]>>]
    <3>1. CASE i = k + 1
      <4>1. i - 1 = k /\ g[k] = f[k]
        BY <2>2, <2>5, <3>1
      <4> QED BY <2>5, <3>1, <4>1 DEF new
    <3>2. CASE i # k + 1
      <4>1. i \in 1..k /\ i \in 0..k /\ i - 1 \in 0..k
        BY <3>2
      <4>2. g[i] = f[i] /\ g[i - 1] = f[i - 1] /\ f[i] = step[<<i, f[i - 1]>>]
        BY <2>1, <2>5, <4>1 DEF Iterates
      <4> QED BY <4>2
    <3> QED BY <3>1, <3>2
  <2>7. g[0] = base
    BY <2>1, <2>5 DEF Iterates
  <2>8. Iterates(g, base, step, k + 1)
    BY <2>6, <2>7 DEF Iterates
  <2>9. \E h \in [0..(k + 1) -> S] : Iterates(h, base, step, k + 1)
    BY <2>4, <2>8, Zenon
  <2> QED BY <2>2, <2>9, Zenon
<1>3. 0..n \subseteq Good
  BY <1>1, <1>2, UpTo
<1>4. n \in Good
  BY <1>3
<1> QED BY <1>4

\* A dot product of vectors with whole components is a whole number.
LEMMA DotType ==
  ASSUME NEW u \in Seq(Int), NEW v \in Seq(Int), Len(v) = Len(u)
  PROVE  Dot(u, v) \in Int
<1> DEFINE n == Len(u)
           Whole(f) == f = [c \in 0..n |-> IF c = 0 THEN 0 ELSE f[c - 1] + u[c] * v[c]]
           step == [p \in (1..n) \X Int |-> p[2] + u[p[1]] * v[p[1]]]
<1>1. n \in Nat /\ \A c \in 1..n : u[c] \in Int /\ v[c] \in Int
  OBVIOUS
<1>2. \A c \in 1..n : u[c] * v[c] \in Int
  BY <1>1
<1>3. step \in [(1..n) \X Int -> Int]
  BY <1>2
<1>4. \A i \in 1..n, a \in Int : step[<<i, a>>] = a + u[i] * v[i]
  OBVIOUS
<1> DEFINE g == CHOOSE h : Whole(h)
<1>8. Dot(u, v) = g[n]
  BY DEF Dot
<1> HIDE DEF step, n
<1>13. 0 \in Int
  OBVIOUS
<1>5. PICK f \in [0..n -> Int] : Iterates(f, 0, step, n)
  BY <1>1, <1>3, <1>13, Iteration
<1>6. ASSUME NEW i \in 1..n PROVE f[i] = f[i - 1] + u[i] * v[i]
  <2>1. i - 1 \in 0..n
    BY <1>1
  <2>2. f[i - 1] \in Int /\ f[i] = step[<<i, f[i - 1]>>]
    BY <1>5, <2>1 DEF Iterates
  <2> QED BY <1>4, <2>2
<1>7. Whole(f)
  BY <1>5, <1>6 DEF Iterates
<1>9. Whole(g)
  BY <1>7
<1> HIDE DEF g
<1> DEFINE Good == {k \in 0..n : g[k] \in Int}
<1>10. 0 \in Good
  BY <1>1, <1>9
<1>11. ASSUME NEW k \in 0..(n - 1), k \in Good PROVE k + 1 \in Good
  <2>1. k + 1 \in 0..n /\ k + 1 # 0 /\ k + 1 \in 1..n /\ (k + 1) - 1 = k
    BY <1>1
  <2>2. g[k + 1] = g[k] + u[k + 1] * v[k + 1]
    BY <1>9, <2>1
  <2>3. g[k] \in Int /\ u[k + 1] * v[k + 1] \in Int
    BY <1>2, <1>11, <2>1
  <2> QED BY <2>1, <2>2, <2>3
<1>12. n \in Good
  <2>1. 0..n \subseteq Good
    BY <1>1, <1>10, <1>11, UpTo
  <2> QED BY <1>1, <2>1
<1> QED BY <1>8, <1>12

\* A greedy pass ends at the node itself or at one of its links.
LEMMA GreedyPassType ==
  ASSUME NEW S, NEW here \in S, NEW l, Neighbors(here, l) \in Seq(S)
  PROVE  GreedyPass(here, l) \in S
<1> DEFINE list == Neighbors(here, l)
           n == Len(list)
           Round(i, last) == IF IsBetter(list[i], last) THEN list[i] ELSE last
           Whole(f) == f = [e \in 0..n |-> IF e = 0 THEN here ELSE Round(e, f[e - 1])]
           step == [p \in (1..n) \X S |-> Round(p[1], p[2])]
<1>1. n \in Nat /\ \A e \in 1..n : list[e] \in S
  OBVIOUS
<1> DEFINE g == CHOOSE h : Whole(h)
<1>8. GreedyPass(here, l) = g[n]
  BY DEF GreedyPass
<1> HIDE DEF list, n
<1>2. \A i \in 1..n, a \in S : Round(i, a) \in S
  BY <1>1
<1> HIDE DEF Round
<1>3. step \in [(1..n) \X S -> S]
  BY <1>2
<1>4. \A i \in 1..n, a \in S : step[<<i, a>>] = Round(i, a)
  OBVIOUS
<1> HIDE DEF step
<1>5. PICK f \in [0..n -> S] : Iterates(f, here, step, n)
  BY <1>1, <1>3, Iteration
<1>6. ASSUME NEW i \in 1..n PROVE f[i] = Round(i, f[i - 1])
  <2>1. i - 1 \in 0..n
    BY <1>1
  <2>2. f[i - 1] \in S /\ f[i] = step[<<i, f[i - 1]>>]
    BY <1>5, <2>1 DEF Iterates
  <2> QED BY <1>4, <2>2
<1>7. Whole(f)
  BY <1>5, <1>6 DEF Iterates
<1>9. Whole(g)
  BY <1>7
<1> HIDE DEF g
<1> DEFINE Good == {k \in 0..n : g[k] \in S}
<1>10. 0 \in Good
  BY <1>1, <1>9
<1>11. ASSUME NEW k \in 0..(n - 1), k \in Good PROVE k + 1 \in Good
  <2>1. k + 1 \in 0..n /\ k + 1 # 0 /\ k + 1 \in 1..n /\ (k + 1) - 1 = k
    BY <1>1
  <2>2. g[k + 1] = Round(k + 1, g[k])
    BY <1>9, <2>1
  <2>3. g[k] \in S
    BY <1>11
  <2> QED BY <1>2, <2>1, <2>2, <2>3
<1>12. n \in Good
  <2>1. 0..n \subseteq Good
    BY <1>1, <1>10, <1>11, UpTo
  <2> QED BY <1>1, <2>1
<1> QED BY <1>8, <1>12

-----------------------------------------------------------------------------
(* The choice of neighbours *)

\* The entries of a list are distinct.
Distinct(list) == \A i, j \in 1..Len(list) : list[i] = list[j] => i = j

\* A list of distinct entries has as many as there are places.
LEMMA DistinctCount ==
  ASSUME NEW S, NEW list \in Seq(S), Distinct(list)
  PROVE  IsFiniteSet(ToSet(list)) /\ Cardinality(ToSet(list)) = Len(list)
<1> DEFINE n == Len(list)
           T == ToSet(list)
<1>1. n \in Nat /\ DOMAIN list = 1..n
  OBVIOUS
<1>2. IsFiniteSet(1..n) /\ Cardinality(1..n) = n
  BY <1>1, FS_Interval
<1>3. T = {list[i] : i \in 1..n}
  BY <1>1 DEF ToSet
<1> HIDE DEF T
<1>4. list \in [1..n -> T] /\ \A t \in T : \E i \in 1..n : list[i] = t
  BY <1>1, <1>3
<1>5. \A i, j \in 1..n : list[i] = list[j] => i = j
  BY DEF Distinct
<1> HIDE DEF n
<1>8. IsInjective(list)
  BY <1>1, <1>5 DEF IsInjective
<1>6. list \in Surjection(1..n, T) /\ list \in Injection(1..n, T)
  BY <1>4, <1>8 DEF Surjection, Injection
<1>7. IsFiniteSet(T) /\ Cardinality(T) = n
  BY <1>2, <1>6, FS_Surjection
<1> QED BY <1>7 DEF T, n

\* The diverse candidates are some of those that were found.
LEMMA ChosenType ==
  ASSUME NEW S, NEW found \in Seq(S), Distinct(found), NEW limit \in Nat
  PROVE  LET chosen == ChosenDiverse(found, limit) IN
         chosen \in Seq(S) /\ Len(chosen) <= limit /\ Distinct(chosen)
<1> DEFINE n == Len(found)
           Round(i, last) == IF Len(last) < limit /\ Diverse(found[i], last) THEN Append(last, found[i]) ELSE last
           Whole(f) == f = [e \in 0..n |-> IF e = 0 THEN <<>> ELSE Round(e, f[e - 1])]
           step == [p \in (1..n) \X Seq(S) |-> Round(p[1], p[2])]
           g == CHOOSE h : Whole(h)
<1>1. n \in Nat /\ \A e \in 1..n : found[e] \in S
  OBVIOUS
<1>2. ChosenDiverse(found, limit) = g[n]
  BY DEF ChosenDiverse
<1>13. <<>> \in Seq(S)
  OBVIOUS
<1> HIDE DEF n
<1>3. \A i \in 1..n, a \in Seq(S) : Round(i, a) \in Seq(S)
  <2> TAKE i \in 1..n, a \in Seq(S)
  <2>1. Append(a, found[i]) \in Seq(S)
    BY <1>1
  <2> QED BY <2>1
<1>14. \A i, a : Round(i, a) = a \/ (Round(i, a) = Append(a, found[i]) /\ Len(a) < limit)
  OBVIOUS
<1> HIDE DEF Round
<1>4. step \in [(1..n) \X Seq(S) -> Seq(S)]
  BY <1>3
<1>5. \A i \in 1..n, a \in Seq(S) : step[<<i, a>>] = Round(i, a)
  OBVIOUS
<1> HIDE DEF step
<1> DEFINE base == <<>>
<1>15. base \in Seq(S)
  BY <1>13
<1> HIDE DEF base
<1>6. PICK f \in [0..n -> Seq(S)] : Iterates(f, base, step, n)
  BY <1>1, <1>4, <1>15, Iteration
<1>7. ASSUME NEW i \in 1..n PROVE f[i] = Round(i, f[i - 1])
  <2>1. i - 1 \in 0..n
    BY <1>1
  <2>2. f[i - 1] \in Seq(S) /\ f[i] = step[<<i, f[i - 1]>>]
    BY <1>6, <2>1 DEF Iterates
  <2> QED BY <1>5, <2>2
<1>16. f[0] = <<>>
  BY <1>6 DEF Iterates, base
<1>8. Whole(f)
  <2>1. f = [e \in 0..n |-> f[e]]
    OBVIOUS
  <2>2. ASSUME NEW e \in 0..n PROVE f[e] = IF e = 0 THEN <<>> ELSE Round(e, f[e - 1])
    <3>1. CASE e = 0
      BY <1>16, <3>1
    <3>2. CASE e # 0
      <4>1. e \in 1..n
        BY <1>1, <3>2
      <4>2. f[e] = Round(e, f[e - 1])
        BY <1>7, <4>1
      <4> QED BY <3>2, <4>2
    <3> QED BY <3>1, <3>2
  <2> QED BY <2>1, <2>2
<1>9. Whole(g)
  BY <1>8
<1> HIDE DEF g
<1>17. g[0] = <<>>
  BY <1>1, <1>9
<1>18. \A i \in 1..n : g[i] = Round(i, g[i - 1])
  BY <1>1, <1>9
<1> DEFINE Part(k) == /\ g[k] \in Seq(S) /\ Len(g[k]) <= limit /\ Distinct(g[k])
                      /\ \A e \in 1..Len(g[k]) : \E i \in 1..k : g[k][e] = found[i]
           Good == {k \in 0..n : Part(k)}
<1>10. 0 \in Good
  <2>1. Len(g[0]) = 0 /\ g[0] \in Seq(S)
    BY <1>13, <1>17
  <2>2. Part(0)
    BY <2>1 DEF Distinct
  <2> QED BY <1>1, <2>2
<1>11. ASSUME NEW k \in 0..(n - 1), k \in Good PROVE k + 1 \in Good
  <2> DEFINE a == g[k]
             b == g[k + 1]
  <2>1. k + 1 \in 0..n /\ k + 1 \in 1..n /\ (k + 1) - 1 = k /\ k \in Nat
    BY <1>1
  <2>2. a \in Seq(S) /\ Len(a) \in Nat /\ Len(a) <= limit /\ Distinct(a)
        /\ \A e \in 1..Len(a) : \E i \in 1..k : a[e] = found[i]
    BY <1>11
  <2>3. b = Round(k + 1, a)
    BY <1>18, <2>1
  <2> HIDE DEF a, b
  <2>4. ASSUME b = a PROVE b \in Seq(S) /\ Len(b) <= limit /\ Distinct(b)
                           /\ \A e \in 1..Len(b) : \E i \in 1..(k + 1) : b[e] = found[i]
    BY <2>1, <2>2, <2>4
  <2>5. ASSUME b = Append(a, found[k + 1]), Len(a) < limit
        PROVE  b \in Seq(S) /\ Len(b) <= limit /\ Distinct(b)
               /\ \A e \in 1..Len(b) : \E i \in 1..(k + 1) : b[e] = found[i]
    <3>1. b \in Seq(S) /\ Len(b) = Len(a) + 1 /\ b[Len(a) + 1] = found[k + 1] /\ \A e \in 1..Len(a) : b[e] = a[e]
      BY <1>1, <2>1, <2>2, <2>5
    <3>2. ASSUME NEW e \in 1..Len(b) PROVE \E i \in 1..(k + 1) : b[e] = found[i]
      <4>1. CASE e = Len(a) + 1
        BY <2>1, <3>1, <4>1
      <4>2. CASE e # Len(a) + 1
        <5>1. e \in 1..Len(a)
          BY <2>2, <3>1, <4>2
        <5>2. PICK i \in 1..k : a[e] = found[i]
          BY <2>2, <5>1
        <5>3. i \in 1..(k + 1) /\ b[e] = found[i]
          BY <2>1, <3>1, <5>1, <5>2
        <5> QED BY <5>3
      <4> QED BY <4>1, <4>2
    <3>3. ASSUME NEW e \in 1..Len(a) PROVE a[e] # found[k + 1]
      <4>1. PICK i \in 1..k : a[e] = found[i]
        BY <2>2
      <4>2. i \in 1..n /\ i # k + 1
        BY <1>1, <2>1
      <4> QED BY <2>1, <4>1, <4>2 DEF Distinct, n
    <3>4. Distinct(b)
      <4> SUFFICES ASSUME NEW i \in 1..Len(b), NEW j \in 1..Len(b), b[i] = b[j] PROVE i = j
        BY DEF Distinct
      <4>1. i = Len(a) + 1 \/ i \in 1..Len(a)
        BY <2>2, <3>1
      <4>2. j = Len(a) + 1 \/ j \in 1..Len(a)
        BY <2>2, <3>1
      <4> QED BY <2>2, <3>1, <3>3, <4>1, <4>2 DEF Distinct
    <3>5. Len(b) <= limit
      BY <2>2, <2>5, <3>1
    <3> QED BY <3>1, <3>2, <3>4, <3>5
  <2>6. b \in Seq(S) /\ Len(b) <= limit /\ Distinct(b)
        /\ \A e \in 1..Len(b) : \E i \in 1..(k + 1) : b[e] = found[i]
    BY <1>14, <2>3, <2>4, <2>5
  <2>7. Part(k + 1)
    BY <2>6 DEF b
  <2> QED BY <2>1, <2>7
<1>12. n \in Good
  <2>1. 0..n \subseteq Good
    BY <1>1, <1>10, <1>11, UpTo
  <2> QED BY <1>1, <2>1
<1> QED BY <1>2, <1>12

\* select_neighbors returns distinct candidates, as many as it may.
LEMMA SelectType ==
  ASSUME Ordered, NEW S, S \subseteq 1..Count, NEW limit \in Nat
  PROVE  LET chosen == SelectNeighbors(Sorted(S), limit) IN
         /\ chosen \in Seq(S) /\ Len(chosen) = Smaller(limit, Cardinality(S))
         /\ Distinct(chosen)
<1> DEFINE found == Sorted(S)
           N == Cardinality(S)
           count == Smaller(limit, Len(found))
           diverse == ChosenDiverse(found, count)
           T == ToSet(found) \ ToSet(diverse)
           all == diverse \o Sorted(T)
<1>1. /\ IsFiniteSet(S) /\ N \in Nat /\ found \in Seq(S) /\ Len(found) = N
      /\ \A i, j \in 1..N : i < j => IsBetter(found[i], found[j])
      /\ \A n \in S : \E i \in 1..N : found[i] = n
  BY SortedType
<1>2. SelectNeighbors(found, limit) = IF index.selection = 0 THEN SubSeq(found, 1, count) ELSE SubSeq(all, 1, count)
  BY DEF SelectNeighbors
<1> HIDE DEF found, N
<1>3. count = Smaller(limit, N) /\ count \in Nat /\ count <= N
  BY <1>1 DEF Smaller
<1>4. Distinct(found)
  <2> SUFFICES ASSUME NEW i \in 1..N, NEW j \in 1..N, found[i] = found[j], i # j PROVE FALSE
    BY <1>1 DEF Distinct
  <2>3. found[i] \in S /\ found[j] \in S
    BY <1>1
  <2>4. found[i] \in 1..Count
    BY <2>3
  <2>1. found[i] \in S /\ found[j] \in S /\ ~IsBetter(found[i], found[i])
    BY <2>3, <2>4 DEF Ordered
  <2>2. i < j \/ j < i
    BY <1>1
  <2> QED BY <1>1, <2>1, <2>2
<1> HIDE DEF count
<1>5. ASSUME NEW list \in Seq(S), Distinct(list), Len(list) = N
      PROVE  /\ SubSeq(list, 1, count) \in Seq(S) /\ Len(SubSeq(list, 1, count)) = count
             /\ Distinct(SubSeq(list, 1, count))
  <2> DEFINE part == SubSeq(list, 1, count)
  <2>1. part \in Seq(S) /\ Len(part) = count /\ \A i \in 1..count : part[i] = list[i]
    BY <1>1, <1>3, <1>5
  <2>2. \A i \in 1..count : i \in 1..N
    BY <1>1, <1>3
  <2> HIDE DEF part
  <2>3. Distinct(part)
    BY <1>5, <2>1, <2>2 DEF Distinct
  <2> QED BY <2>1, <2>3 DEF part
<1>6. all \in Seq(S) /\ Distinct(all) /\ Len(all) = N
  <2>1. diverse \in Seq(S) /\ Distinct(diverse)
    BY <1>1, <1>3, <1>4, ChosenType
  <2> DEFINE D == ToSet(diverse)
             d == Len(diverse)
  <2>2. IsFiniteSet(D) /\ Cardinality(D) = d /\ d \in Nat
    BY <2>1, DistinctCount
  <2>3. D = {diverse[i] : i \in 1..d}
    BY <2>1 DEF ToSet
  <2>4. D \subseteq S
    BY <2>1, <2>3
  <2>5. ToSet(found) = S
    <3>1. ToSet(found) = {found[i] : i \in 1..N}
      BY <1>1 DEF ToSet
    <3>2. \A i \in 1..N : found[i] \in S
      BY <1>1
    <3>3. \A n \in S : \E i \in 1..N : found[i] = n
      BY <1>1
    <3> HIDE DEF found, N
    <3> QED BY <3>1, <3>2, <3>3, Zenon
  <2>6. T = S \ D
    BY <2>5
  <2> DEFINE rest == Sorted(T)
  <2> HIDE DEF D, T
  <2>7. T \subseteq S /\ T \subseteq 1..Count
    BY <2>6
  <2>8. IsFiniteSet(T) /\ Cardinality(T) = N - d
    <3>1. IsFiniteSet(T)
      BY <1>1, <2>7, FS_Subset
    <3>2. T \union D = S /\ T \cap D = {}
      BY <2>4, <2>6
    <3>3. Cardinality(T \union D) = Cardinality(T) + Cardinality(D) - Cardinality(T \cap D)
      BY <2>2, <3>1, FS_Union
    <3>4. N = Cardinality(T) + d - 0
      BY <2>2, <3>2, <3>3, FS_EmptySet DEF N
    <3>5. Cardinality(T) \in Nat
      BY <3>1, FS_CardinalityType
    <3> QED BY <1>1, <2>2, <3>1, <3>4, <3>5
  <2>9. /\ Cardinality(T) \in Nat /\ rest \in Seq(T) /\ Len(rest) = Cardinality(T)
        /\ \A i, j \in 1..Cardinality(T) : i < j => IsBetter(rest[i], rest[j])
    BY <2>7, SortedType
  <2> DEFINE r == Len(rest)
  <2> HIDE DEF rest, diverse, d
  <2>16. r \in Nat /\ d \in Nat /\ d + r = N /\ DOMAIN rest = 1..r
    BY <1>1, <2>2, <2>8, <2>9
  <2>10. Distinct(rest)
    <3> SUFFICES ASSUME NEW i \in 1..r, NEW j \in 1..r, rest[i] = rest[j], i # j PROVE FALSE
      BY <2>9 DEF Distinct
    <3>3. rest \in Seq(T)
      BY <2>9
    <3>5. rest[i] \in T
      BY <3>3
    <3>1. rest[i] \in 1..Count
      BY <2>7, <3>5
    <3>4. ~IsBetter(rest[i], rest[i])
      BY <3>1 DEF Ordered
    <3>2. i < j \/ j < i
      BY <2>9
    <3> QED BY <2>9, <3>4, <3>2
  <2>11. all = diverse \o rest
    BY DEF rest
  <2>12. rest \in Seq(S) /\ \A i \in 1..r : rest[i] \in T
    <3>1. rest \in Seq(T)
      BY <2>9
    <3>2. \A i \in 1..r : rest[i] \in T
      BY <3>1
    <3>3. \A i \in 1..r : rest[i] \in S
      BY <2>7, <3>2
    <3>4. rest = [i \in 1..r |-> rest[i]] /\ r \in Nat
      BY <3>1
    <3> QED BY <3>2, <3>3, <3>4
  <2>13. \A i \in 1..d : diverse[i] \in D
    BY <2>3
  <2> HIDE DEF all, r
  <2>14. all \in Seq(S) /\ Len(all) = N
         /\ (\A i \in 1..d : all[i] = diverse[i]) /\ (\A i \in (d + 1)..N : all[i] = rest[i - d])
    BY <2>1, <2>11, <2>12, <2>16 DEF r, d
  <2>15. Distinct(all)
    <3> SUFFICES ASSUME NEW i \in 1..N, NEW j \in 1..N, all[i] = all[j] PROVE i = j
      BY <2>14 DEF Distinct
    <3>1. CASE i \in 1..d /\ j \in 1..d
      BY <2>1, <2>14, <3>1 DEF Distinct, d
    <3>2. CASE i \in (d + 1)..N /\ j \in (d + 1)..N
      <4>1. i - d \in 1..r /\ j - d \in 1..r /\ rest[i - d] = rest[j - d]
        BY <1>1, <2>14, <2>16, <3>2
      <4>2. i - d = j - d
        BY <2>10, <4>1 DEF Distinct, r
      <4> QED BY <2>16, <3>2, <4>2
    <3>3. CASE i \in 1..d /\ j \in (d + 1)..N
      <4>1. j - d \in 1..r /\ all[i] \in D /\ all[j] \in T
        BY <1>1, <2>12, <2>13, <2>14, <2>16, <3>3
      <4> QED BY <2>6, <4>1
    <3>4. CASE j \in 1..d /\ i \in (d + 1)..N
      <4>1. i - d \in 1..r /\ all[j] \in D /\ all[i] \in T
        BY <1>1, <2>12, <2>13, <2>14, <2>16, <3>4
      <4> QED BY <2>6, <4>1
    <3>5. (i \in 1..d \/ i \in (d + 1)..N) /\ (j \in 1..d \/ j \in (d + 1)..N)
      BY <1>1, <2>16
    <3> QED BY <3>1, <3>2, <3>3, <3>4, <3>5
  <2> QED BY <2>14, <2>15
<1> HIDE DEF all
<1>7. /\ SubSeq(found, 1, count) \in Seq(S) /\ Len(SubSeq(found, 1, count)) = count
      /\ Distinct(SubSeq(found, 1, count))
  BY <1>1, <1>4, <1>5
<1>8. /\ SubSeq(all, 1, count) \in Seq(S) /\ Len(SubSeq(all, 1, count)) = count
      /\ Distinct(SubSeq(all, 1, count))
  BY <1>5, <1>6
<1>9. /\ SelectNeighbors(found, limit) \in Seq(S) /\ Len(SelectNeighbors(found, limit)) = Smaller(limit, N)
      /\ Distinct(SelectNeighbors(found, limit))
  <2>1. CASE index.selection = 0
    BY <1>2, <1>3, <1>7, <2>1
  <2>2. CASE index.selection # 0
    BY <1>2, <1>3, <1>8, <2>2
  <2> QED BY <2>1, <2>2
<1> QED BY <1>9 DEF found, N

-----------------------------------------------------------------------------
(* What links lead to *)

\* The nodes of index x on level l, their links there, and the sets that links
\* do not leave.
On(x, l) == {m \in 1..Len(x.ids) : Len(x.graph[m]) > l}
Links(x, n, l) == x.graph[n][l + 1]
ClosedIn(x, l, S) == \A m \in S : \A e \in DOMAIN Links(x, m, l) : Links(x, m, l)[e] \in S
ClosedSets(x, n, l) == {S \in SUBSET On(x, l) : n \in S /\ ClosedIn(x, l, S)}
Reachable(x, n, l) == CHOOSE S \in ClosedSets(x, n, l) : \A T \in ClosedSets(x, n, l) : S \subseteq T

\* An index that load() has returned.
Searchable == load.phase = "loaded" /\ index \in Indexes /\ LoadedIsSound

\* The facts about it that a search relies on.
LEMMA SearchableIndex ==
  ASSUME Searchable
  PROVE  /\ Count \in Nat /\ index.ids \in Seq(Nat) /\ IsInjective(index.ids)
         /\ index.maxLevel \in Nat /\ index.m \in Nat /\ index.efConstruction \in Nat /\ index.efConstruction >= 1
         /\ LiveCount \in Nat /\ LiveCount <= Count
         /\ Count > 0 => index.entry \in On(index, index.maxLevel)
<1>1. /\ index.ids \in Seq(Nat) /\ index.maxLevel \in Nat /\ index.m \in Nat /\ index.efConstruction \in Nat
      /\ index.entry \in Nat /\ index.deletedCount \in Nat
  BY DEF Searchable, Indexes
<1> DEFINE nodes == 1..Len(index.ids)
           dead == {n \in nodes : index.deleted[n] = 1}
<1>2. /\ IsInjective(index.ids) /\ index.m >= 2 /\ index.efConstruction >= index.m
      /\ index.deletedCount = Cardinality(dead)
      /\ nodes # {} => index.entry \in nodes /\ Len(index.graph[index.entry]) = index.maxLevel + 1
  BY DEF Searchable, LoadedIsSound, Sound
<1>3. Count \in Nat /\ nodes = 1..Count
  BY <1>1 DEF Count
<1>9. IsFiniteSet(1..Count) /\ Cardinality(1..Count) = Count
  <2> HIDE DEF Count
  <2> QED BY <1>3, FS_Interval
<1>4. IsFiniteSet(nodes) /\ Cardinality(nodes) = Count /\ dead \subseteq nodes
  BY <1>3, <1>9
<1>5. Cardinality(dead) <= Count
  BY <1>4, FS_Subset
<1> HIDE DEF dead, nodes
<1>6. LiveCount \in Nat /\ LiveCount <= Count
  BY <1>1, <1>2, <1>3, <1>5 DEF LiveCount
<1>7. index.efConstruction >= 1
  BY <1>1, <1>2
<1>8. ASSUME Count > 0 PROVE index.entry \in On(index, index.maxLevel)
  <2>1. nodes # {}
    BY <1>3, <1>8
  <2>2. index.entry \in 1..Len(index.ids) /\ Len(index.graph[index.entry]) = index.maxLevel + 1
    BY <1>2, <2>1 DEF nodes
  <2> QED BY <1>1, <2>2 DEF On
<1> QED BY <1>1, <1>2, <1>3, <1>6, <1>7, <1>8

\* Links lead to nodes of the same level.
LEMMA LinksType ==
  ASSUME Searchable, NEW l \in Nat, NEW n \in On(index, l)
  PROVE  Links(index, n, l) \in Seq(On(index, l))
<1> DEFINE nodes == 1..Len(index.ids)
           list == index.graph[n][l + 1]
<1>1. /\ Len(index.graph) = Len(index.ids) /\ index.graph \in Seq(Nodes)
      /\ \A m \in nodes : \A k \in DOMAIN index.graph[m] : \A e \in DOMAIN index.graph[m][k] :
            index.graph[m][k][e] \in nodes \ {m} /\ k \in DOMAIN index.graph[index.graph[m][k][e]]
  BY DEF Searchable, LoadedIsSound, Sound, Indexes
<1>2. \A m \in nodes : index.graph[m] \in Seq(Seq(Nat))
  <2>1. \A m \in nodes : index.graph[m] \in Nodes
    BY <1>1
  <2> QED BY <2>1 DEF Nodes
<1>3. n \in nodes /\ Len(index.graph[n]) > l
  BY DEF On
<1> HIDE DEF nodes
<1>4. l + 1 \in DOMAIN index.graph[n] /\ l + 1 \in 1..Len(index.graph[n])
  BY <1>2, <1>3
<1>5. list \in Seq(Nat)
  BY <1>2, <1>3, <1>4
<1>6. ASSUME NEW e \in 1..Len(list) PROVE list[e] \in On(index, l)
  <2>1. e \in DOMAIN list
    BY <1>5
  <2>2. list[e] \in nodes /\ l + 1 \in DOMAIN index.graph[list[e]]
    BY <1>1, <1>3, <1>4, <2>1
  <2> HIDE DEF list
  <2>3. Len(index.graph[list[e]]) > l
    BY <1>2, <2>2
  <2> QED BY <2>2, <2>3 DEF On, nodes
<1> HIDE DEF list
<1>7. list = [e \in 1..Len(list) |-> list[e]] /\ Len(list) \in Nat
  BY <1>5
<1>8. list \in Seq(On(index, l))
  BY <1>6, <1>7
<1> QED BY <1>8 DEF Links, list

\* What can be reached is the least set that contains the node and that links
\* do not leave.
LEMMA ReachableType ==
  ASSUME Searchable, NEW l \in Nat, NEW n \in On(index, l)
  PROVE  /\ n \in Reachable(index, n, l) /\ Reachable(index, n, l) \subseteq On(index, l)
         /\ IsFiniteSet(Reachable(index, n, l)) /\ Cardinality(Reachable(index, n, l)) \in Nat
         /\ \A m \in Reachable(index, n, l) : Links(index, m, l) \in Seq(Reachable(index, n, l))
         /\ \A T \in ClosedSets(index, n, l) : Reachable(index, n, l) \subseteq T
<1> DEFINE all == On(index, l)
           Closed == ClosedSets(index, n, l)
           least == {m \in all : \A T \in Closed : m \in T}
           reach == Reachable(index, n, l)
<1>1. \A m \in all : Links(index, m, l) \in Seq(all)
  BY LinksType
<1>2. \A m \in all : \A e \in DOMAIN Links(index, m, l) : Links(index, m, l)[e] \in all
  BY <1>1
<1>3. least \in SUBSET all /\ n \in least /\ \A T \in Closed : least \subseteq T
  BY DEF ClosedSets
<1>4. ClosedIn(index, l, least)
  <2> SUFFICES ASSUME NEW m \in least, NEW e \in DOMAIN Links(index, m, l) PROVE Links(index, m, l)[e] \in least
    BY DEF ClosedIn
  <2>1. m \in all
    OBVIOUS
  <2>2. Links(index, m, l)[e] \in all
    BY <1>2, <2>1
  <2>3. ASSUME NEW T \in Closed PROVE Links(index, m, l)[e] \in T
    <3>1. m \in T /\ ClosedIn(index, l, T)
      BY DEF ClosedSets
    <3> QED BY <3>1 DEF ClosedIn
  <2> QED BY <2>2, <2>3
<1>5. least \in Closed
  BY <1>3, <1>4 DEF ClosedSets
<1>6. reach \in Closed /\ \A T \in Closed : reach \subseteq T
  BY <1>3, <1>5 DEF Reachable
<1> HIDE DEF reach
<1>7. n \in reach /\ reach \subseteq all /\ ClosedIn(index, l, reach)
  BY <1>6 DEF ClosedSets
<1>8. ASSUME NEW m \in reach PROVE Links(index, m, l) \in Seq(reach)
  <2> DEFINE list == Links(index, m, l)
  <2>1. list \in Seq(all)
    BY <1>1, <1>7
  <2>2. \A e \in DOMAIN list : list[e] \in reach
    BY <1>7 DEF ClosedIn
  <2> HIDE DEF list
  <2>3. list = [e \in 1..Len(list) |-> list[e]] /\ Len(list) \in Nat /\ DOMAIN list = 1..Len(list)
    BY <2>1
  <2>4. list \in Seq(reach)
    BY <2>2, <2>3
  <2> QED BY <2>4 DEF list
<1>9. IsFiniteSet(reach) /\ Cardinality(reach) \in Nat
  <2>1. IsFiniteSet(1..Count)
    BY SearchableIndex, FS_Interval
  <2>2. reach \subseteq 1..Count
    BY <1>7 DEF On, Count
  <2>3. IsFiniteSet(reach)
    BY <2>1, <2>2, FS_Subset
  <2> QED BY <2>3, FS_CardinalityType
<1> QED BY <1>6, <1>7, <1>8, <1>9 DEF reach

-----------------------------------------------------------------------------
(* The invariant of a search: s is the search, x the index *)

Admitted(x, s, n) == s.goal = "insert" \/ x.deleted[n] = 0
BetterIn(x, s, a, b) ==
    s.scores[a] > s.scores[b] \/ (s.scores[a] = s.scores[b] /\ x.ids[a] < x.ids[b])

Active == {"descend", "layer", "visit"}
Plans == [level : Nat, start : Nat, chosen : Seq(Nat)]

\* A search is a record, and before the first one it is NoSearch.
IsSearch(s) ==
    /\ s = [phase |-> s.phase, goal |-> s.goal, scores |-> s.scores, k |-> s.k, ef |-> s.ef, floor |-> s.floor,
            level |-> s.level, here |-> s.here, start |-> s.start, pending |-> s.pending, best |-> s.best,
            visited |-> s.visited, todo |-> s.todo, plan |-> s.plan, result |-> s.result]
    /\ s.phase \in {"idle", "refused", "stopped", "done"} \union Active
    /\ s.goal \in {"search", "insert"} /\ s.plan \in Seq(Plans)
    /\ s.phase = "idle" => s = NoSearch

\* The descent is at a node that exists on its level.
DescentIsSound(x, s) ==
    s.phase \in Active =>
        /\ s.scores \in [1..Len(x.ids) -> Int] /\ s.ef \in Nat /\ s.ef >= 1 /\ s.k \in Nat
        /\ s.floor \in Nat /\ s.level \in Nat /\ s.floor <= s.level
        /\ s.goal = "search" => s.floor = 0 /\ s.k >= 1 /\ s.k <= s.ef
        /\ s.goal = "insert" => s.ef = x.efConstruction
        /\ s.phase = "descend" => s.here \in On(x, s.level)
        /\ s.phase # "descend" => s.level = s.floor

\* search_layer has only seen what can be reached from the start.  Until ef
\* nodes were found nothing was dropped: every admissible node that it has seen
\* is among the results, and every link of a node that was taken from the queue
\* has been followed or is about to be.
NothingDropped(x, s) ==
    /\ s.best = {n \in s.visited : Admitted(x, s, n)}
    /\ \A m \in s.visited \ s.pending : \A e \in DOMAIN Links(x, m, s.level) :
          Links(x, m, s.level)[e] \in s.visited \union ToSet(s.todo)
LayerIsSound(x, s) ==
    s.phase \in {"layer", "visit"} =>
        LET reach == Reachable(x, s.start, s.level) IN
        /\ s.start \in On(x, s.level) /\ s.start \in s.visited
        /\ s.visited \subseteq reach /\ s.pending \subseteq s.visited
        /\ s.best \subseteq {n \in s.visited : Admitted(x, s, n)} /\ Cardinality(s.best) <= s.ef
        /\ s.todo \in Seq(reach) /\ (s.phase = "layer" <=> s.todo = <<>>)
        /\ Cardinality(s.best) < s.ef => NothingDropped(x, s)

\* What is planned and what is returned.
PlanIsSound(x, s) ==
    \A p \in DOMAIN s.plan :
        LET reach == Reachable(x, s.plan[p].start, s.plan[p].level)
            limit == IF s.plan[p].level = 0 THEN 2 * x.m ELSE x.m
        IN  /\ s.plan[p].chosen \in Seq(reach) /\ Distinct(s.plan[p].chosen)
            /\ Len(s.plan[p].chosen) = Smaller(limit, Smaller(x.efConstruction, Cardinality(reach)))
ResultIsSound(x, s) ==
    s.phase = "done" /\ s.goal = "search" /\ s.k > 0 =>
        LET live == {n \in Reachable(x, s.start, 0) : x.deleted[n] = 0} IN
        /\ s.result \in Seq(live) /\ Len(s.result) = Smaller(s.k, Cardinality(live))
        /\ \A i, j \in 1..Len(s.result) : i < j => BetterIn(x, s, s.result[i], s.result[j])
        /\ s.ef >= Cardinality(live) =>
              \A n \in live : (\A e \in 1..Len(s.result) : s.result[e] # n) =>
                  \A e \in 1..Len(s.result) : BetterIn(x, s, s.result[e], n)

SearchIInv ==
    /\ search.phase # "idle" => load.phase = "loaded"
    /\ IsSearch(search) /\ DescentIsSound(index, search) /\ LayerIsSound(index, search)
    /\ PlanIsSound(index, search) /\ ResultIsSound(index, search)

\* A search from its fields.
LEMMA MakeSearch ==
  ASSUME NEW phase \in {"refused", "stopped", "done"} \union Active, NEW goal \in {"search", "insert"},
         NEW scores, NEW k, NEW ef, NEW floor, NEW level, NEW here, NEW start, NEW pending, NEW best,
         NEW visited, NEW todo, NEW plan \in Seq(Plans), NEW result
  PROVE  IsSearch([phase |-> phase, goal |-> goal, scores |-> scores, k |-> k, ef |-> ef, floor |-> floor,
                   level |-> level, here |-> here, start |-> start, pending |-> pending, best |-> best,
                   visited |-> visited, todo |-> todo, plan |-> plan, result |-> result])
<1>1. phase # "idle"
  BY DEF Active
<1> QED BY <1>1 DEF IsSearch

\* The fields of a search that has started.
LEMMA SearchType ==
  ASSUME IsSearch(search)
  PROVE  /\ search = [phase |-> search.phase, goal |-> search.goal, scores |-> search.scores, k |-> search.k,
                      ef |-> search.ef, floor |-> search.floor, level |-> search.level, here |-> search.here,
                      start |-> search.start, pending |-> search.pending, best |-> search.best,
                      visited |-> search.visited, todo |-> search.todo, plan |-> search.plan,
                      result |-> search.result]
         /\ search.goal \in {"search", "insert"} /\ search.plan \in Seq(Plans)
BY DEF IsSearch

\* What the invariant says of a search that runs.
LEMMA RunningSearch ==
  ASSUME Searchable, SearchIInv, search.phase \in Active
  PROVE  /\ Ordered /\ search.scores \in [1..Len(index.ids) -> Int]
         /\ search.ef \in Nat /\ search.ef >= 1 /\ search.k \in Nat
         /\ search.floor \in Nat /\ search.level \in Nat /\ search.floor <= search.level
<1>1. /\ search.scores \in [1..Len(index.ids) -> Int] /\ search.ef \in Nat /\ search.ef >= 1 /\ search.k \in Nat
      /\ search.floor \in Nat /\ search.level \in Nat /\ search.floor <= search.level
  BY DEF SearchIInv, DescentIsSound
<1>2. search.scores \in [1..Count -> Int]
  BY <1>1 DEF Count
<1> QED BY <1>1, <1>2, SearchableIndex, ScoresOrder

\* The scores of the nodes are whole numbers.
LEMMA ScoresType ==
  ASSUME Searchable, NEW q \in Seq(Int), Len(q) = index.dimension
  PROVE  ScoresFor(q) \in [1..Count -> Int]
<1> DEFINE d == index.dimension
           p == index.vectors
<1>1. d \in Nat /\ p \in Seq(Components) /\ Len(p) = Count * d /\ Count \in Nat
  BY SearchableIndex DEF Searchable, Indexes, LoadedIsSound, Sound, Count
<1>2. ASSUME NEW n \in 1..Count PROVE Similarity(q, n) \in Int
  <2> DEFINE a == (n - 1) * d + 1
             b == n * d
  <2>1. n \in Nat /\ n >= 1 /\ n <= Count
    BY <1>1
  <2>2. (n - 1) * d \in Nat /\ n * d \in Nat /\ n * d = (n - 1) * d + d /\ n * d <= Count * d
    <3>1. n - 1 \in Nat /\ Count - n \in Nat
      BY <1>1, <2>1
    <3> HIDE DEF d
    <3>2. (n - 1) * d \in Nat /\ n * d \in Nat /\ (Count - n) * d \in Nat
      BY <1>1, <2>1, <3>1
    <3>3. n * d = (n - 1) * d + d
      BY <1>1, <2>1
    <3>4. Count * d = n * d + (Count - n) * d
      BY <1>1, <2>1
    <3>5. Count * d \in Nat
      BY <1>1
    <3> QED BY <3>2, <3>3, <3>4, <3>5
  <2>3. a \in Nat /\ a >= 1 /\ b \in Nat /\ b <= Len(p) /\ b - a + 1 = d /\ a <= b + 1
    <3> DEFINE low == (n - 1) * d
    <3>1. low \in Nat /\ b \in Nat /\ b = low + d /\ a = low + 1 /\ b <= Len(p) /\ d \in Nat /\ Len(p) \in Nat
      BY <1>1, <2>2
    <3> HIDE DEF low, a, b, d, p
    <3> QED BY <3>1
  <2> HIDE DEF a, b, p, d
  <2>4. SubSeq(p, a, b) \in Seq(Components) /\ Len(SubSeq(p, a, b)) = d
    BY <1>1, <2>3
  <2>5. SubSeq(p, a, b) \in Seq(Int)
    <3> DEFINE v == SubSeq(p, a, b)
    <3> HIDE DEF v
    <3>1. v \in Seq(Components)
      BY <2>4 DEF v
    <3>2. v = [i \in 1..Len(v) |-> v[i]] /\ Len(v) \in Nat /\ \A i \in 1..Len(v) : v[i] \in Components
      BY <3>1
    <3>3. \A i \in 1..Len(v) : v[i] \in Int
      BY <3>2 DEF Components
    <3>4. v \in Seq(Int)
      BY <3>2, <3>3
    <3> QED BY <3>4 DEF v
  <2>6. Dot(q, SubSeq(p, a, b)) \in Int
    BY <2>4, <2>5, DotType DEF d
  <2> QED BY <2>6 DEF Similarity, VectorOf, Row, a, b, p, d
<1> QED BY <1>2 DEF ScoresFor

LEMMA StartSearchStep ==
  ASSUME Searchable, NEW q \in Queries, NEW k \in Counts, NEW ef \in Widths, StartSearch(q, k, ef)
  PROVE  SearchIInv'
<1> DEFINE none == <<>>
<1>1. load'.phase = "loaded" /\ index' = index
  BY DEF StartSearch, vars, fileVars, Searchable
<1>2. k \in Nat /\ ef \in Nat /\ q \in Seq(Int) /\ none \in Seq(Plans)
  BY SearchesAssumption
<1>3. ASSUME NEW phase \in {"refused", "done"}, search' = [NoSearch EXCEPT !.phase = phase] PROVE SearchIInv'
  <2>1. search' = [phase |-> phase, goal |-> "search", scores |-> <<>>, k |-> 0, ef |-> 0, floor |-> 0,
                   level |-> 0, here |-> 0, start |-> 0, pending |-> {}, best |-> {}, visited |-> {},
                   todo |-> <<>>, plan |-> none, result |-> <<>>]
    BY <1>3 DEF NoSearch
  <2> HIDE DEF none
  <2>2. IsSearch([phase |-> phase, goal |-> "search", scores |-> <<>>, k |-> 0, ef |-> 0, floor |-> 0,
                  level |-> 0, here |-> 0, start |-> 0, pending |-> {}, best |-> {}, visited |-> {},
                  todo |-> <<>>, plan |-> none, result |-> <<>>])
    BY <1>2, MakeSearch
  <2>3. IsSearch(search')
    BY <2>1, <2>2, Zenon
  <2>4. search'.phase = phase /\ search'.plan = none /\ search'.k = 0
    BY <2>1
  <2>5. phase \notin Active
    BY DEF Active
  <2>6. DescentIsSound(index', search')
    BY <2>4, <2>5 DEF DescentIsSound
  <2>7. LayerIsSound(index', search')
    BY <2>4, <2>5 DEF LayerIsSound, Active
  <2>8. PlanIsSound(index', search')
    BY <2>4 DEF PlanIsSound, none
  <2>9. ResultIsSound(index', search')
    BY <2>4 DEF ResultIsSound
  <2> QED BY <1>1, <2>3, <2>6, <2>7, <2>8, <2>9 DEF SearchIInv
<1> DEFINE count == Smaller(k, LiveCount)
           width == Larger(count, ef)
<1>4. ASSUME k # 0, Len(q) = index.dimension, LiveCount # 0,
             search' = [NoSearch EXCEPT !.phase = "descend", !.scores = ScoresFor(q), !.k = count,
                                        !.ef = width, !.level = index.maxLevel, !.here = index.entry]
      PROVE  SearchIInv'
  <2>1. LiveCount \in Nat /\ LiveCount <= Count /\ Count \in Nat /\ index.maxLevel \in Nat
    BY SearchableIndex
  <2>2. count \in Nat /\ count >= 1
    BY <1>2, <1>4, <2>1 DEF Smaller
  <2> HIDE DEF count
  <2>3. width \in Nat /\ width >= count
    BY <1>2, <2>2 DEF Larger
  <2>4. Count > 0
    BY <1>4, <2>1
  <2>5. index.entry \in On(index, index.maxLevel)
    BY <2>4, SearchableIndex
  <2>6. ScoresFor(q) \in [1..Len(index.ids) -> Int]
    BY <1>2, <1>4, ScoresType DEF Count
  <2> DEFINE scores == ScoresFor(q)
  <2>7. search' = [phase |-> "descend", goal |-> "search", scores |-> scores, k |-> count, ef |-> width, floor |-> 0,
                   level |-> index.maxLevel, here |-> index.entry, start |-> 0, pending |-> {}, best |-> {},
                   visited |-> {}, todo |-> <<>>, plan |-> none, result |-> <<>>]
    BY <1>4 DEF NoSearch
  <2> HIDE DEF none, scores, width
  <2>13. "descend" \in Active
    BY DEF Active
  <2>8. IsSearch([phase |-> "descend", goal |-> "search", scores |-> scores, k |-> count, ef |-> width, floor |-> 0,
                   level |-> index.maxLevel, here |-> index.entry, start |-> 0, pending |-> {}, best |-> {},
                   visited |-> {}, todo |-> <<>>, plan |-> none, result |-> <<>>])
    BY <1>2, <2>13, MakeSearch
  <2>9. IsSearch(search')
    BY <2>7, <2>8, Zenon
  <2>10. /\ search'.phase = "descend" /\ search'.goal = "search" /\ search'.scores = scores /\ search'.k = count
         /\ search'.ef = width /\ search'.floor = 0 /\ search'.level = index.maxLevel
         /\ search'.here = index.entry /\ search'.plan = none
    BY <2>7
  <2>11. DescentIsSound(index, search')
    <3>1. scores \in [1..Len(index.ids) -> Int]
      BY <2>6 DEF scores
    <3>2. width >= 1 /\ count <= width /\ 0 <= index.maxLevel
      BY <2>1, <2>2, <2>3
    <3> QED BY <2>1, <2>2, <2>3, <2>5, <2>10, <3>1, <3>2 DEF DescentIsSound
  <2>12. LayerIsSound(index, search') /\ ResultIsSound(index, search')
    BY <2>10 DEF LayerIsSound, ResultIsSound
  <2>14. PlanIsSound(index, search')
    BY <2>10 DEF PlanIsSound, none
  <2> QED BY <1>1, <2>9, <2>11, <2>12, <2>14 DEF SearchIInv
<1> QED BY <1>3, <1>4 DEF StartSearch

LEMMA StartInsertStep ==
  ASSUME Searchable, NEW q \in Queries, NEW l \in 0..MaxLevel, StartInsert(q, l)
  PROVE  SearchIInv'
<1> DEFINE none == <<>>
           floor == Smaller(l, index.maxLevel)
           scores == ScoresFor(q)
<1>1. load'.phase = "loaded" /\ index' = index
  BY DEF StartInsert, vars, fileVars, Searchable
<1>2. q \in Seq(Int) /\ none \in Seq(Plans) /\ MaxLevel \in Nat /\ l \in Nat
  BY SearchesAssumption, WordsAssumption
<1>3. Count > 0 /\ Len(q) = index.dimension
  BY DEF StartInsert
<1>4. /\ index.maxLevel \in Nat /\ index.entry \in On(index, index.maxLevel)
      /\ index.efConstruction \in Nat /\ index.efConstruction >= 1
  BY <1>3, SearchableIndex
<1>5. floor \in Nat /\ floor <= index.maxLevel
  BY <1>2, <1>4 DEF Smaller
<1>6. scores \in [1..Len(index.ids) -> Int]
  BY <1>2, <1>3, ScoresType DEF Count
<1>7. search' = [phase |-> "descend", goal |-> "insert", scores |-> scores, k |-> 0, ef |-> index.efConstruction,
                 floor |-> floor, level |-> index.maxLevel, here |-> index.entry, start |-> 0, pending |-> {},
                 best |-> {}, visited |-> {}, todo |-> <<>>, plan |-> none, result |-> <<>>]
  BY DEF StartInsert, NoSearch
<1> HIDE DEF none, floor, scores
<1>8. "descend" \in Active
  BY DEF Active
<1>9. IsSearch([phase |-> "descend", goal |-> "insert", scores |-> scores, k |-> 0, ef |-> index.efConstruction,
                 floor |-> floor, level |-> index.maxLevel, here |-> index.entry, start |-> 0, pending |-> {},
                 best |-> {}, visited |-> {}, todo |-> <<>>, plan |-> none, result |-> <<>>])
  BY <1>2, <1>8, MakeSearch
<1>10. IsSearch(search')
  BY <1>7, <1>9, Zenon
<1>11. /\ search'.phase = "descend" /\ search'.goal = "insert" /\ search'.scores = scores /\ search'.k = 0
       /\ search'.ef = index.efConstruction /\ search'.floor = floor /\ search'.level = index.maxLevel
       /\ search'.here = index.entry /\ search'.plan = none
  BY <1>7
<1>12. DescentIsSound(index, search')
  BY <1>4, <1>5, <1>6, <1>11 DEF DescentIsSound
<1>13. LayerIsSound(index, search') /\ ResultIsSound(index, search')
  BY <1>11 DEF LayerIsSound, ResultIsSound
<1>14. PlanIsSound(index, search')
  BY <1>11 DEF PlanIsSound, none
<1> QED BY <1>1, <1>10, <1>12, <1>13, <1>14 DEF SearchIInv

\* A step of a search that goes on and plans nothing.
LEMMA GoesOn ==
  ASSUME Searchable, SearchIInv, UNCHANGED vars, IsSearch(search'), search'.plan = search.plan,
         search'.phase \in Active, DescentIsSound(index, search'), LayerIsSound(index, search')
  PROVE  SearchIInv'
<1>1. load'.phase = "loaded" /\ index' = index
  BY DEF vars, fileVars, Searchable
<1>2. PlanIsSound(index, search')
  BY DEF SearchIInv, PlanIsSound
<1>3. ResultIsSound(index, search')
  BY DEF ResultIsSound, Active
<1> QED BY <1>1, <1>2, <1>3 DEF SearchIInv

\* A node of a level is a node of every lower level.
LEMMA LowerLevel ==
  ASSUME Searchable, NEW l \in Nat, NEW k \in Nat, k <= l, NEW n \in On(index, l)
  PROVE  n \in On(index, k)
<1>1. n \in 1..Len(index.ids) /\ Len(index.graph[n]) > l
  BY DEF On
<1>2. Len(index.graph[n]) \in Nat
  <2>1. index.graph \in Seq(Nodes) /\ Len(index.graph) = Len(index.ids)
    BY DEF Searchable, Indexes, LoadedIsSound, Sound
  <2>2. index.graph[n] \in Nodes
    BY <1>1, <2>1
  <2> QED BY <2>2 DEF Nodes
<1> QED BY <1>1, <1>2 DEF On

LEMMA GreedyStep ==
  ASSUME Searchable, SearchIInv, Greedy
  PROVE  SearchIInv'
<1> DEFINE l == search.level
           next == GreedyPass(search.here, l)
<1>1. UNCHANGED vars /\ search.phase = "descend" /\ l > search.floor
  BY DEF Greedy
<1>2. search.phase \in Active
  BY <1>1 DEF Active
<1>3. /\ search.scores \in [1..Len(index.ids) -> Int] /\ search.ef \in Nat /\ search.ef >= 1 /\ search.k \in Nat
      /\ search.floor \in Nat /\ l \in Nat
      /\ search.goal = "search" => search.floor = 0 /\ search.k >= 1 /\ search.k <= search.ef
      /\ search.goal = "insert" => search.ef = index.efConstruction
      /\ search.here \in On(index, l)
  BY <1>1, <1>2 DEF SearchIInv, DescentIsSound
<1>4. next \in On(index, l)
  <2>1. Links(index, search.here, l) \in Seq(On(index, l))
    BY <1>3, LinksType
  <2>2. Neighbors(search.here, l) \in Seq(On(index, l))
    BY <2>1 DEF Links, Neighbors
  <2> QED BY <1>3, <2>2, GreedyPassType
<1>5. search.here \in On(index, l - 1)
  <2>1. l - 1 \in Nat /\ l - 1 <= l
    BY <1>1, <1>3
  <2> QED BY <1>3, <2>1, LowerLevel
<1>6. /\ search.goal \in {"search", "insert"} /\ search.plan \in Seq(Plans) /\ IsSearch(search)
  BY SearchType DEF SearchIInv
<1>7. ASSUME NEW level, NEW here, search' = [search EXCEPT !.level = level, !.here = here],
             level \in Nat, search.floor <= level, here \in On(index, level)
      PROVE  SearchIInv'
  <2>1. search' = [phase |-> search.phase, goal |-> search.goal, scores |-> search.scores, k |-> search.k,
                   ef |-> search.ef, floor |-> search.floor, level |-> level, here |-> here,
                   start |-> search.start, pending |-> search.pending, best |-> search.best,
                   visited |-> search.visited, todo |-> search.todo, plan |-> search.plan,
                   result |-> search.result]
    BY <1>6, <1>7, SearchType
  <2>2. search' = [phase |-> search'.phase, goal |-> search'.goal, scores |-> search'.scores, k |-> search'.k, ef |-> search'.ef, floor |-> search'.floor,
                   level |-> search'.level, here |-> search'.here, start |-> search'.start, pending |-> search'.pending,
                   best |-> search'.best, visited |-> search'.visited, todo |-> search'.todo, plan |-> search'.plan,
                   result |-> search'.result]
    BY <2>1
  <2>9. search'.phase = search.phase /\ search'.goal = search.goal /\ search'.plan = search.plan
    BY <2>1
  <2>10. search'.phase # "idle" /\ search'.phase \in {"idle", "refused", "stopped", "done"} \union Active
    BY <1>1, <1>2, <2>9
  <2>3. IsSearch(search')
    BY <1>6, <2>2, <2>9, <2>10 DEF IsSearch
  <2>4. /\ search'.phase = "descend" /\ search'.goal = search.goal /\ search'.scores = search.scores
        /\ search'.k = search.k /\ search'.ef = search.ef /\ search'.floor = search.floor
        /\ search'.level = level /\ search'.here = here /\ search'.plan = search.plan
    BY <1>1, <2>1
  <2>5. DescentIsSound(index, search')
    BY <1>3, <1>7, <2>4 DEF DescentIsSound
  <2>6. LayerIsSound(index, search')
    BY <2>4 DEF LayerIsSound
  <2>7. search'.phase \in Active
    BY <1>1, <1>2, <2>4
  <2> QED BY <1>1, <2>3, <2>4, <2>5, <2>6, <2>7, GoesOn
<1>8. CASE next # search.here
  <2>1. search' = [search EXCEPT !.here = next]
    BY <1>8 DEF Greedy
  <2> HIDE DEF next
  <2>2. search' = [search EXCEPT !.level = l, !.here = next]
    BY <1>6, <2>1, SearchType
  <2>3. search.floor <= l
    BY <1>1, <1>3
  <2> HIDE DEF l
  <2> QED BY <1>3, <1>4, <1>7, <2>2, <2>3
<1>9. CASE next = search.here
  <2>1. search' = [search EXCEPT !.level = l - 1]
    BY <1>9 DEF Greedy
  <2>2. search' = [search EXCEPT !.level = l - 1, !.here = search.here]
    BY <1>6, <2>1, SearchType
  <2>3. l - 1 \in Nat /\ search.floor <= l - 1
    BY <1>1, <1>3
  <2> HIDE DEF l
  <2> QED BY <1>5, <1>7, <2>2, <2>3
<1> QED BY <1>8, <1>9

LEMMA EnterLayerStep ==
  ASSUME Searchable, SearchIInv, EnterLayer
  PROVE  SearchIInv'
<1> DEFINE l == search.level
           here == search.here
           best == IF Admits(here) THEN {here} ELSE {}
           reach == Reachable(index, here, l)
           none == <<>>
<1>1. UNCHANGED vars /\ search.phase = "descend" /\ l = search.floor
  BY DEF EnterLayer
<1>2. search.phase \in Active /\ "layer" \in Active
  BY <1>1 DEF Active
<1>3. /\ search.scores \in [1..Len(index.ids) -> Int] /\ search.ef \in Nat /\ search.ef >= 1 /\ search.k \in Nat
      /\ search.floor \in Nat /\ l \in Nat
      /\ search.goal = "search" => search.floor = 0 /\ search.k >= 1 /\ search.k <= search.ef
      /\ search.goal = "insert" => search.ef = index.efConstruction
      /\ here \in On(index, l)
  BY <1>1, <1>2 DEF SearchIInv, DescentIsSound
<1>4. here \in reach
  BY <1>3, ReachableType
<1>5. /\ search.goal \in {"search", "insert"} /\ search.plan \in Seq(Plans) /\ IsSearch(search)
  BY SearchType DEF SearchIInv
<1>6. search' = [phase |-> "layer", goal |-> search.goal, scores |-> search.scores, k |-> search.k,
                 ef |-> search.ef, floor |-> search.floor, level |-> l, here |-> here,
                 start |-> here, pending |-> {here}, best |-> best,
                 visited |-> {here}, todo |-> none, plan |-> search.plan, result |-> search.result]
  BY <1>5, SearchType DEF EnterLayer
<1>7. Cardinality(best) \in 0..1 /\ best = {n \in {here} : Admits(n)}
  <2>1. CASE Admits(here)
    <3>1. best = {here} /\ best = {n \in {here} : Admits(n)}
      BY <2>1
    <3>2. Cardinality(best) = 1
      BY <3>1, FS_Singleton
    <3> HIDE DEF best
    <3> QED BY <3>1, <3>2
  <2>2. CASE ~Admits(here)
    BY <2>2, FS_EmptySet
  <2> QED BY <2>1, <2>2
<1> HIDE DEF best, l, here, none, reach
<1>8. IsSearch([phase |-> "layer", goal |-> search.goal, scores |-> search.scores, k |-> search.k,
                 ef |-> search.ef, floor |-> search.floor, level |-> l, here |-> here,
                 start |-> here, pending |-> {here}, best |-> best,
                 visited |-> {here}, todo |-> none, plan |-> search.plan, result |-> search.result])
  BY <1>2, <1>5, MakeSearch
<1>9. IsSearch(search')
  BY <1>6, <1>8, Zenon
<1>10. /\ search'.phase = "layer" /\ search'.goal = search.goal /\ search'.scores = search.scores
       /\ search'.k = search.k /\ search'.ef = search.ef /\ search'.floor = search.floor
       /\ search'.level = l /\ search'.start = here /\ search'.pending = {here} /\ search'.best = best
       /\ search'.visited = {here} /\ search'.todo = none /\ search'.plan = search.plan
  BY <1>6
<1>11. DescentIsSound(index, search')
  <2>1. search.floor <= l
    BY <1>1, <1>3 DEF l
  <2> QED BY <1>1, <1>3, <1>10, <2>1 DEF DescentIsSound, l
<1>12. LayerIsSound(index, search')
  <2>1. \A n : Admits(n) <=> Admitted(index, search', n)
    BY <1>10 DEF Admits, Admitted, IsLive
  <2>2. best = {n \in {here} : Admitted(index, search', n)}
    BY <1>7, <2>1, Zenon
  <2>3. NothingDropped(index, search')
    BY <1>10, <2>2 DEF NothingDropped
  <2>4. none \in Seq(reach) /\ none = <<>>
    BY DEF none
  <2>5. Cardinality(best) <= search.ef
    BY <1>3, <1>7
  <2>6. Reachable(index, search'.start, search'.level) = reach
    BY <1>10 DEF reach
  <2>7. /\ search'.start \in On(index, search'.level) /\ search'.start \in search'.visited
        /\ search'.visited \subseteq reach /\ search'.pending \subseteq search'.visited
    BY <1>3, <1>4, <1>10
  <2>8. /\ search'.best \subseteq {n \in search'.visited : Admitted(index, search', n)}
        /\ Cardinality(search'.best) <= search'.ef
        /\ search'.todo \in Seq(reach) /\ (search'.phase = "layer" <=> search'.todo = <<>>)
    BY <1>10, <2>2, <2>4, <2>5
  <2> QED BY <2>3, <2>6, <2>7, <2>8 DEF LayerIsSound
<1> QED BY <1>1, <1>2, <1>9, <1>10, <1>11, <1>12, GoesOn

\* The operators of the search, by those of the invariant.
LEMMA Bridges ==
  /\ \A n : Admits(n) <=> Admitted(index, search, n)
  /\ \A a, b : IsBetter(a, b) <=> BetterIn(index, search, a, b)
  /\ \A n, l : Neighbors(n, l) = Links(index, n, l)
BY DEF Admits, Admitted, IsLive, IsBetter, BetterIn, Score, Neighbors, Links

\* What the invariant says of a search of a layer.
LEMMA RunningLayer ==
  ASSUME Searchable, SearchIInv, search.phase \in {"layer", "visit"}
  PROVE  LET reach == Reachable(index, search.start, search.level) IN
         /\ Ordered /\ search.ef \in Nat /\ search.ef >= 1 /\ search.level \in Nat /\ search.level = search.floor
         /\ search.start \in On(index, search.level) /\ search.start \in search.visited
         /\ search.start \in reach /\ reach \subseteq 1..Count
         /\ \A m \in reach : Links(index, m, search.level) \in Seq(reach)
         /\ search.visited \subseteq reach /\ search.pending \subseteq search.visited
         /\ search.best \subseteq {n \in search.visited : Admits(n)}
         /\ IsFiniteSet(search.best) /\ Cardinality(search.best) \in Nat /\ Cardinality(search.best) <= search.ef
         /\ search.todo \in Seq(reach) /\ (search.phase = "layer" <=> search.todo = <<>>)
         /\ Cardinality(search.best) < search.ef => NothingDropped(index, search)
<1> DEFINE reach == Reachable(index, search.start, search.level)
<1>1. search.phase \in Active
  BY DEF Active
<1>2. Ordered /\ search.ef \in Nat /\ search.ef >= 1 /\ search.level \in Nat
  BY <1>1, RunningSearch
<1>3. search.level = search.floor
  BY <1>1 DEF SearchIInv, DescentIsSound
<1>4. /\ search.start \in On(index, search.level) /\ search.start \in search.visited
      /\ search.visited \subseteq reach /\ search.pending \subseteq search.visited
      /\ search.best \subseteq {n \in search.visited : Admitted(index, search, n)} /\ Cardinality(search.best) <= search.ef
      /\ search.todo \in Seq(reach) /\ (search.phase = "layer" <=> search.todo = <<>>)
      /\ Cardinality(search.best) < search.ef => NothingDropped(index, search)
  BY DEF SearchIInv, LayerIsSound
<1>5. /\ search.start \in reach /\ reach \subseteq On(index, search.level) /\ IsFiniteSet(reach)
      /\ \A m \in reach : Links(index, m, search.level) \in Seq(reach)
  BY <1>2, <1>4, ReachableType
<1>6. On(index, search.level) \subseteq 1..Count
  BY DEF On, Count
<1>7. search.best \subseteq {n \in search.visited : Admits(n)}
  BY <1>4, Bridges
<1> HIDE DEF reach
<1>8. IsFiniteSet(search.best)
  BY <1>4, <1>5, <1>7, FS_Subset
<1>9. Cardinality(search.best) \in Nat
  BY <1>8, FS_CardinalityType
<1> QED BY <1>2, <1>3, <1>4, <1>5, <1>6, <1>7, <1>8, <1>9 DEF reach

LEMMA PopStep ==
  ASSUME Searchable, SearchIInv, Pop
  PROVE  SearchIInv'
<1> DEFINE l == search.level
           current == BestOf(search.pending)
           todo == Neighbors(current, l)
           phase == IF todo = <<>> THEN search.phase ELSE "visit"
           rest == search.pending \ {current}
           reach == Reachable(index, search.start, l)
<1>1. UNCHANGED vars /\ search.phase = "layer" /\ search.todo = <<>> /\ ~Settled
  BY DEF Pop
<1>2. search.phase \in Active /\ "visit" \in Active
  BY <1>1 DEF Active
<1>3. /\ Ordered /\ search.level = search.floor
      /\ search.start \in On(index, l) /\ search.start \in search.visited /\ reach \subseteq 1..Count
      /\ \A m \in reach : Links(index, m, l) \in Seq(reach)
      /\ search.visited \subseteq reach /\ search.pending \subseteq search.visited
      /\ Cardinality(search.best) < search.ef => NothingDropped(index, search)
  BY <1>1, RunningLayer
<1>4. /\ search.best \subseteq {n \in search.visited : Admitted(index, search, n)}
      /\ Cardinality(search.best) <= search.ef
  BY <1>1 DEF SearchIInv, LayerIsSound
<1>5. /\ search.goal \in {"search", "insert"} /\ search.plan \in Seq(Plans) /\ IsSearch(search)
  BY SearchType DEF SearchIInv
<1>6. current \in search.pending
  <2>1. search.pending # {} /\ search.pending \subseteq 1..Count
    BY <1>1, <1>3 DEF Settled
  <2> QED BY <1>3, <2>1, Extremes
<1>7. search' = [search EXCEPT !.pending = rest, !.todo = todo, !.phase = phase]
  BY <1>1 DEF Pop
<1>8. todo \in Seq(reach) /\ todo = Links(index, current, l)
  <2>1. current \in reach
    BY <1>3, <1>6
  <2>2. todo = Links(index, current, l)
    BY Bridges
  <2> HIDE DEF todo, current
  <2> QED BY <1>3, <2>1, <2>2
<1> HIDE DEF todo, current, rest, reach
<1>9. phase \in {"layer", "visit"} /\ (phase = "layer" <=> todo = <<>>)
  BY <1>1
<1> HIDE DEF phase
<1>10. search' = [phase |-> phase, goal |-> search.goal, scores |-> search.scores, k |-> search.k,
                  ef |-> search.ef, floor |-> search.floor, level |-> l, here |-> search.here,
                  start |-> search.start, pending |-> rest, best |-> search.best,
                  visited |-> search.visited, todo |-> todo, plan |-> search.plan, result |-> search.result]
  BY <1>5, <1>7, SearchType
<1> HIDE DEF l
<1>18. phase \in Active
  BY <1>9 DEF Active
<1>11. search' = [phase |-> search'.phase, goal |-> search'.goal, scores |-> search'.scores, k |-> search'.k, ef |-> search'.ef, floor |-> search'.floor,
                  level |-> search'.level, here |-> search'.here, start |-> search'.start, pending |-> search'.pending,
                  best |-> search'.best, visited |-> search'.visited, todo |-> search'.todo, plan |-> search'.plan,
                  result |-> search'.result]
  BY <1>10
<1>13. /\ search'.phase = phase /\ search'.goal = search.goal /\ search'.scores = search.scores
       /\ search'.k = search.k /\ search'.ef = search.ef /\ search'.floor = search.floor
       /\ search'.level = l /\ search'.start = search.start /\ search'.pending = rest
       /\ search'.best = search.best /\ search'.visited = search.visited /\ search'.todo = todo
       /\ search'.plan = search.plan
  BY <1>10
<1>12. IsSearch(search')
  <2>1. phase # "idle" /\ phase \in {"idle", "refused", "stopped", "done"} \union Active
    BY <1>9, <1>18
  <2> QED BY <1>5, <1>11, <1>13, <2>1 DEF IsSearch
<1>14. DescentIsSound(index, search')
  <2>1. phase # "descend" /\ search'.level = search.level
    BY <1>9, <1>13 DEF l
  <2>2. DescentIsSound(index, search)
    BY DEF SearchIInv
  <2> QED BY <1>2, <1>3, <1>13, <2>1, <2>2 DEF DescentIsSound
<1>15. LayerIsSound(index, search')
  <2>1. \A n : Admitted(index, search', n) <=> Admitted(index, search, n)
    BY <1>13 DEF Admitted
  <2>2. rest \subseteq search.visited
    BY <1>3 DEF rest
  <2>3. Reachable(index, search'.start, search'.level) = reach
    BY <1>13 DEF reach
  <2>4. /\ search'.start \in On(index, search'.level) /\ search'.start \in search'.visited
        /\ search'.visited \subseteq reach /\ search'.pending \subseteq search'.visited
    BY <1>3, <1>13, <2>2
  <2>5. /\ search'.best \subseteq {n \in search'.visited : Admitted(index, search', n)}
        /\ Cardinality(search'.best) <= search'.ef
        /\ search'.todo \in Seq(reach) /\ (search'.phase = "layer" <=> search'.todo = <<>>)
    BY <1>4, <1>8, <1>9, <1>13, <2>1
  <2>6. ASSUME Cardinality(search'.best) < search'.ef PROVE NothingDropped(index, search')
    <3>1. NothingDropped(index, search)
      BY <1>3, <1>13, <2>6
    <3>2. search.best = {n \in search.visited : Admitted(index, search, n)}
      BY <3>1 DEF NothingDropped
    <3>3. search.best = {n \in search.visited : Admitted(index, search', n)}
      BY <2>1, <3>2
    <3>4. ASSUME NEW m \in search.visited \ rest, NEW e \in DOMAIN Links(index, m, l)
          PROVE  Links(index, m, l)[e] \in search.visited \union ToSet(todo)
      <4>1. CASE m = current
        BY <1>8, <3>4, <4>1 DEF ToSet
      <4>2. CASE m # current
        <5>1. m \in search.visited \ search.pending
          BY <3>4, <4>2 DEF rest
        <5>2. Links(index, m, l)[e] \in search.visited \union ToSet(search.todo)
          BY <3>1, <5>1 DEF NothingDropped, l
        <5>3. ToSet(search.todo) = {}
          BY <1>1 DEF ToSet
        <5> QED BY <5>2, <5>3
      <4> QED BY <4>1, <4>2
    <3> QED BY <1>13, <3>3, <3>4 DEF NothingDropped
  <2> QED BY <2>3, <2>4, <2>5, <2>6 DEF LayerIsSound
<1>16. search'.phase \in Active
  BY <1>13, <1>18
<1> QED BY <1>1, <1>12, <1>13, <1>14, <1>15, <1>16, GoesOn

\* The results never hold more than ef nodes, and a place is only lost when all
\* of them are taken.
LEMMA TrimmedType ==
  ASSUME Ordered, search.ef \in Nat, NEW S, S \subseteq 1..Count, NEW n \in 1..Count, n \notin S,
         Cardinality(S) \in Nat, Cardinality(S) <= search.ef
  PROVE  LET T == Trimmed(S \union {n}) IN
         /\ T \subseteq S \union {n} /\ Cardinality(T) \in Nat /\ Cardinality(T) <= search.ef
         /\ Cardinality(T) < search.ef => Cardinality(S) < search.ef
         /\ Cardinality(S) < search.ef => T = S \union {n}
<1> DEFINE G == S \union {n}
           T == Trimmed(G)
<1>1. IsFiniteSet(1..Count)
  BY FS_Interval DEF Ordered
<1>2. IsFiniteSet(S)
  BY <1>1, FS_Subset
<1>3. IsFiniteSet(G) /\ Cardinality(G) = Cardinality(S) + 1
  BY <1>2, FS_AddElement
<1>4. G \subseteq 1..Count /\ G # {}
  OBVIOUS
<1> HIDE DEF G
<1>5. WorstOf(G) \in G
  BY <1>4, Extremes
<1>6. Cardinality(G \ {WorstOf(G)}) = Cardinality(G) - 1
  BY <1>3, <1>5, FS_RemoveElement
<1>7. /\ T \subseteq G /\ Cardinality(T) \in Nat /\ Cardinality(T) <= search.ef
      /\ Cardinality(T) < search.ef => Cardinality(S) < search.ef
      /\ Cardinality(S) < search.ef => T = G
  <2>1. CASE Cardinality(G) > search.ef
    <3>1. T = G \ {WorstOf(G)}
      BY <2>1 DEF Trimmed
    <3>2. T \subseteq G /\ Cardinality(T) = Cardinality(S)
      BY <1>3, <1>6, <3>1
    <3> QED BY <1>3, <2>1, <3>2
  <2>2. CASE ~(Cardinality(G) > search.ef)
    <3>1. T = G
      BY <2>2 DEF Trimmed
    <3> QED BY <1>3, <2>2, <3>1
  <2> QED BY <2>1, <2>2
<1> QED BY <1>7 DEF G

LEMMA VisitStep ==
  ASSUME Searchable, SearchIInv, Visit
  PROVE  SearchIInv'
<1> DEFINE l == search.level
           n == Head(search.todo)
           fresh == n \notin search.visited /\ Promising(n)
           todo == Tail(search.todo)
           visited == search.visited \union {n}
           phase == IF todo = <<>> THEN "layer" ELSE search.phase
           pending == IF fresh THEN search.pending \union {n} ELSE search.pending
           best == IF fresh /\ Admits(n) THEN Trimmed(search.best \union {n}) ELSE search.best
           reach == Reachable(index, search.start, l)
<1>1. UNCHANGED vars /\ search.phase = "visit"
  BY DEF Visit
<1>2. search.phase \in Active
  BY <1>1 DEF Active
<1>3. /\ Ordered /\ search.ef \in Nat /\ search.ef >= 1 /\ search.level = search.floor
      /\ search.start \in On(index, l) /\ search.start \in search.visited /\ reach \subseteq 1..Count
      /\ search.visited \subseteq reach /\ search.pending \subseteq search.visited
      /\ search.best \subseteq {m \in search.visited : Admits(m)}
      /\ Cardinality(search.best) \in Nat /\ Cardinality(search.best) <= search.ef
      /\ search.todo \in Seq(reach) /\ search.todo # <<>>
      /\ Cardinality(search.best) < search.ef => NothingDropped(index, search)
  BY <1>1, RunningLayer
<1>5. /\ search.goal \in {"search", "insert"} /\ search.plan \in Seq(Plans) /\ IsSearch(search)
  BY SearchType DEF SearchIInv
<1>6. search' = [search EXCEPT !.todo = todo, !.visited = visited, !.phase = phase,
                               !.pending = pending, !.best = best]
  BY DEF Visit
<1>7. n \in reach /\ todo \in Seq(reach) /\ ToSet(search.todo) = {n} \union ToSet(todo)
  <2> DEFINE list == search.todo
  <2> HIDE DEF reach
  <2>1. list \in Seq(reach) /\ list # <<>>
    BY <1>3
  <2> HIDE DEF list
  <2>2. Len(list) \in Nat /\ Len(list) >= 1 /\ Head(list) = list[1] /\ Head(list) \in reach
        /\ Tail(list) \in Seq(reach) /\ Len(Tail(list)) = Len(list) - 1
        /\ \A i \in 1..(Len(list) - 1) : Tail(list)[i] = list[i + 1]
    BY <2>1
  <2>3. ToSet(list) \subseteq {Head(list)} \union ToSet(Tail(list))
    <3> SUFFICES ASSUME NEW x \in ToSet(list), x # Head(list) PROVE x \in ToSet(Tail(list))
      OBVIOUS
    <3>1. PICK i \in DOMAIN list : x = list[i]
      BY DEF ToSet
    <3>2. i \in 1..Len(list) /\ i # 1
      BY <2>1, <2>2, <3>1
    <3>3. i - 1 \in 1..Len(Tail(list)) /\ Tail(list)[i - 1] = list[i]
      BY <2>2, <3>2
    <3>4. i - 1 \in DOMAIN Tail(list) /\ Tail(list)[i - 1] = x
      BY <2>2, <3>1, <3>3
    <3> QED BY <3>4 DEF ToSet
  <2>4. {Head(list)} \union ToSet(Tail(list)) \subseteq ToSet(list)
    <3>1. Head(list) \in ToSet(list)
      BY <2>1, <2>2 DEF ToSet
    <3>2. ASSUME NEW i \in 1..Len(Tail(list)) PROVE Tail(list)[i] \in ToSet(list)
      <4>1. i + 1 \in 1..Len(list) /\ Tail(list)[i] = list[i + 1]
        BY <2>2
      <4> QED BY <2>1, <4>1 DEF ToSet
    <3> QED BY <2>2, <3>1, <3>2 DEF ToSet
  <2> QED BY <2>2, <2>3, <2>4 DEF list
<1> HIDE DEF todo, n, fresh, reach
<1>8. phase \in {"layer", "visit"} /\ (phase = "layer" <=> todo = <<>>)
  BY <1>1
<1>9. /\ best \subseteq {m \in visited : Admits(m)} /\ Cardinality(best) <= search.ef
      /\ Cardinality(best) < search.ef => Cardinality(search.best) < search.ef
      /\ Cardinality(search.best) < search.ef /\ search.best = {m \in search.visited : Admits(m)}
            => best = {m \in visited : Admits(m)}
  <2>1. Cardinality(search.best) < search.ef => (fresh <=> n \notin search.visited)
    BY <1>3 DEF fresh, Promising, Full
  <2>2. CASE fresh /\ Admits(n)
    <3>1. n \notin search.best /\ search.best \subseteq 1..Count /\ n \in 1..Count
      BY <1>3, <1>7, <2>2 DEF fresh
    <3>2. best = Trimmed(search.best \union {n})
      BY <2>2
    <3> HIDE DEF best
    <3>3. /\ best \subseteq search.best \union {n} /\ Cardinality(best) <= search.ef
          /\ Cardinality(best) < search.ef => Cardinality(search.best) < search.ef
          /\ Cardinality(search.best) < search.ef => best = search.best \union {n}
      BY <1>3, <3>1, <3>2, TrimmedType
    <3>4. search.best \union {n} \subseteq {m \in visited : Admits(m)}
      BY <1>3, <2>2
    <3>5. search.best = {m \in search.visited : Admits(m)} => search.best \union {n} = {m \in visited : Admits(m)}
      BY <2>2
    <3> QED BY <3>3, <3>4, <3>5
  <2>3. CASE ~(fresh /\ Admits(n))
    <3>1. best = search.best
      BY <2>3
    <3> HIDE DEF best
    <3>2. search.best \subseteq {m \in visited : Admits(m)}
      BY <1>3
    <3>3. Cardinality(search.best) < search.ef => {m \in search.visited : Admits(m)} = {m \in visited : Admits(m)}
      BY <2>1, <2>3
    <3> QED BY <1>3, <3>1, <3>2, <3>3
  <2> QED BY <2>2, <2>3
<1>10. pending \subseteq visited
  BY <1>3
<1>11. Cardinality(search.best) < search.ef => visited \ pending \subseteq search.visited \ search.pending
  <2>1. Cardinality(search.best) < search.ef => (fresh <=> n \notin search.visited)
    BY <1>3 DEF fresh, Promising, Full
  <2> QED BY <2>1
<1>12. visited \subseteq reach /\ search.start \in visited
  BY <1>3, <1>7
<1>13. visited \union ToSet(todo) = search.visited \union ToSet(search.todo)
  BY <1>7
<1> HIDE DEF phase, best, pending, visited
<1>14. search' = [phase |-> phase, goal |-> search.goal, scores |-> search.scores, k |-> search.k,
                  ef |-> search.ef, floor |-> search.floor, level |-> l, here |-> search.here,
                  start |-> search.start, pending |-> pending, best |-> best,
                  visited |-> visited, todo |-> todo, plan |-> search.plan, result |-> search.result]
  BY <1>5, <1>6, SearchType
<1> HIDE DEF l
<1>15. phase \in Active
  BY <1>8 DEF Active
<1>16. IsSearch([phase |-> phase, goal |-> search.goal, scores |-> search.scores, k |-> search.k,
                  ef |-> search.ef, floor |-> search.floor, level |-> l, here |-> search.here,
                  start |-> search.start, pending |-> pending, best |-> best,
                  visited |-> visited, todo |-> todo, plan |-> search.plan, result |-> search.result])
  BY <1>5, <1>15, MakeSearch
<1>17. IsSearch(search')
  BY <1>14, <1>16, Zenon
<1>18. /\ search'.phase = phase /\ search'.goal = search.goal /\ search'.scores = search.scores
       /\ search'.k = search.k /\ search'.ef = search.ef /\ search'.floor = search.floor
       /\ search'.level = l /\ search'.start = search.start /\ search'.pending = pending
       /\ search'.best = best /\ search'.visited = visited /\ search'.todo = todo
       /\ search'.plan = search.plan
  BY <1>14
<1>19. DescentIsSound(index, search')
  <2>1. phase # "descend" /\ search'.level = search.level
    BY <1>8, <1>18 DEF l
  <2>2. DescentIsSound(index, search)
    BY DEF SearchIInv
  <2> QED BY <1>2, <1>3, <1>18, <2>1, <2>2 DEF DescentIsSound
<1>20. LayerIsSound(index, search')
  <2>1. \A m : Admitted(index, search', m) <=> Admits(m)
    BY <1>18 DEF Admitted, Admits, IsLive
  <2>2. Reachable(index, search'.start, search'.level) = reach
    BY <1>18 DEF reach
  <2>3. /\ search'.start \in On(index, search'.level) /\ search'.start \in search'.visited
        /\ search'.visited \subseteq reach /\ search'.pending \subseteq search'.visited
    BY <1>3, <1>10, <1>12, <1>18
  <2>4. /\ search'.best \subseteq {m \in search'.visited : Admitted(index, search', m)}
        /\ Cardinality(search'.best) <= search'.ef
        /\ search'.todo \in Seq(reach) /\ (search'.phase = "layer" <=> search'.todo = <<>>)
    BY <1>7, <1>8, <1>9, <1>18, <2>1
  <2>5. ASSUME Cardinality(search'.best) < search'.ef PROVE NothingDropped(index, search')
    <3>1. Cardinality(search.best) < search.ef /\ NothingDropped(index, search)
      BY <1>3, <1>9, <1>18, <2>5
    <3>2. search.best = {m \in search.visited : Admitted(index, search, m)}
      BY <3>1 DEF NothingDropped
    <3>3. search.best = {m \in search.visited : Admits(m)}
      BY <3>2, Bridges
    <3>4. best = {m \in visited : Admits(m)}
      BY <1>9, <3>1, <3>3
    <3>5. best = {m \in visited : Admitted(index, search', m)}
      BY <2>1, <3>4
    <3>6. ASSUME NEW m \in visited \ pending, NEW e \in DOMAIN Links(index, m, l)
          PROVE  Links(index, m, l)[e] \in visited \union ToSet(todo)
      <4>1. m \in search.visited \ search.pending
        BY <1>11, <3>1
      <4>2. Links(index, m, l)[e] \in search.visited \union ToSet(search.todo)
        BY <3>1, <4>1 DEF NothingDropped, l
      <4> QED BY <1>13, <4>2
    <3> QED BY <1>18, <3>5, <3>6 DEF NothingDropped
  <2> QED BY <2>2, <2>3, <2>4, <2>5 DEF LayerIsSound
<1>21. search'.phase \in Active
  BY <1>15, <1>18
<1> QED BY <1>1, <1>17, <1>18, <1>19, <1>20, <1>21, GoesOn

\* When nothing that is pending can improve the results, they are as many as
\* ef allows of the admissible nodes that can be reached, and all of them if
\* ef is not exceeded: fewer than ef results mean that nothing was dropped, so
\* that what was visited is closed under the links.
LEMMA SettledLayer ==
  ASSUME Searchable, SearchIInv, search.phase = "layer", Settled
  PROVE  LET reach == Reachable(index, search.start, search.level)
             all == {n \in reach : Admits(n)}
         IN  /\ Cardinality(all) \in Nat /\ search.best \subseteq all
             /\ Cardinality(search.best) = Smaller(search.ef, Cardinality(all))
             /\ search.ef >= Cardinality(all) => search.best = all
<1> DEFINE l == search.level
           reach == Reachable(index, search.start, l)
           all == {n \in reach : Admits(n)}
           b == Cardinality(search.best)
           ef == search.ef
<1>1. /\ ef \in Nat /\ l \in Nat /\ search.start \in On(index, l) /\ search.start \in search.visited
      /\ search.visited \subseteq reach /\ search.pending \subseteq search.visited
      /\ search.best \subseteq {n \in search.visited : Admits(n)}
      /\ b \in Nat /\ b <= ef /\ search.todo = <<>>
      /\ b < ef => NothingDropped(index, search)
  BY RunningLayer
<1>2. IsFiniteSet(reach) /\ reach \subseteq On(index, l) /\ \A T \in ClosedSets(index, search.start, l) : reach \subseteq T
  BY <1>1, ReachableType
<1> HIDE DEF reach, l
<1>3. search.best \subseteq all /\ all \subseteq reach
  BY <1>1
<1> HIDE DEF all
<1>4. IsFiniteSet(all)
  BY <1>2, <1>3, FS_Subset
<1>5. Cardinality(all) \in Nat
  BY <1>4, FS_CardinalityType
<1>6. b <= Cardinality(all) /\ (b = Cardinality(all) => search.best = all)
  BY <1>3, <1>4, FS_Subset
<1>7. CASE b < ef
  <2>1. search.pending = {}
    BY <1>1, <1>7 DEF Settled, Full
  <2>2. /\ search.best = {n \in search.visited : Admitted(index, search, n)}
        /\ \A m \in search.visited \ search.pending : \A e \in DOMAIN Links(index, m, l) :
              Links(index, m, l)[e] \in search.visited \union ToSet(search.todo)
    BY <1>1, <1>7 DEF NothingDropped, l
  <2>3. ToSet(search.todo) = {}
    BY <1>1 DEF ToSet
  <2>4. ClosedIn(index, l, search.visited)
    BY <2>1, <2>2, <2>3 DEF ClosedIn
  <2>5. search.visited \in ClosedSets(index, search.start, l)
    BY <1>1, <1>2, <2>4 DEF ClosedSets
  <2>6. search.visited = reach
    BY <1>1, <1>2, <2>5
  <2>7. search.best = all
    BY <2>2, <2>6, Bridges DEF all
  <2> QED BY <1>1, <1>5, <1>7, <2>7 DEF Smaller, all, reach, l
<1>8. CASE ~(b < ef)
  <2>1. b = ef
    BY <1>1, <1>8
  <2>2. ef >= Cardinality(all) => search.best = all
    BY <1>1, <1>5, <1>6, <2>1
  <2>3. b = Smaller(ef, Cardinality(all))
    BY <1>1, <1>5, <1>6, <2>1 DEF Smaller
  <2> QED BY <1>3, <1>5, <2>2, <2>3 DEF all, reach, l
<1> QED BY <1>7, <1>8

LEMMA FinishSearchStep ==
  ASSUME Searchable, SearchIInv, FinishSearch
  PROVE  SearchIInv'
<1> DEFINE found == Sorted(search.best)
           count == Smaller(search.k, Len(found))
           result == SubSeq(found, 1, count)
           N == Cardinality(search.best)
           live == {n \in Reachable(index, search.start, 0) : index.deleted[n] = 0}
           none == {}
<1>1. UNCHANGED vars /\ search.phase = "layer" /\ Settled /\ search.goal = "search"
  BY DEF FinishSearch
<1>2. search.phase \in Active
  BY <1>1 DEF Active
<1>3. /\ search.ef \in Nat /\ search.k \in Nat /\ search.k >= 1 /\ search.k <= search.ef
      /\ search.level = 0
  BY <1>1, <1>2 DEF SearchIInv, DescentIsSound
<1>4. \A n : Admits(n) <=> index.deleted[n] = 0
  BY <1>1 DEF Admits, IsLive
<1>5. /\ Cardinality(live) \in Nat /\ search.best \subseteq live
      /\ N = Smaller(search.ef, Cardinality(live))
      /\ search.ef >= Cardinality(live) => search.best = live
  <2> DEFINE all == {n \in Reachable(index, search.start, search.level) : Admits(n)}
  <2>1. /\ Cardinality(all) \in Nat /\ search.best \subseteq all
        /\ N = Smaller(search.ef, Cardinality(all))
        /\ search.ef >= Cardinality(all) => search.best = all
    BY <1>1, SettledLayer
  <2>2. all = live
    BY <1>3, <1>4
  <2> HIDE DEF all, live
  <2> QED BY <2>1, <2>2
<1>6. Ordered /\ search.best \subseteq 1..Count
  BY <1>1, RunningLayer
<1>7. /\ N \in Nat /\ found \in Seq(search.best) /\ Len(found) = N
      /\ \A i, j \in 1..N : i < j => IsBetter(found[i], found[j])
      /\ \A n \in search.best : \E i \in 1..N : found[i] = n
  BY <1>6, SortedType
<1>8. search' = [search EXCEPT !.phase = "done", !.pending = none, !.best = none, !.visited = none,
                               !.result = result]
  BY DEF FinishSearch
<1> HIDE DEF found, live, N, none
<1>9. count \in Nat /\ count <= N /\ count = Smaller(search.k, Cardinality(live))
  BY <1>3, <1>5, <1>7 DEF Smaller
<1> HIDE DEF count
<1>10. result \in Seq(live) /\ Len(result) = count /\ \A e \in 1..count : result[e] = found[e]
  <2>1. \A i \in 1..N : found[i] \in live
    BY <1>5, <1>7
  <2>2. found = [i \in 1..N |-> found[i]]
    BY <1>7
  <2>3. found \in Seq(live)
    BY <1>7, <2>1, <2>2
  <2> QED BY <1>7, <1>9, <2>3
<1> HIDE DEF result
<1>11. IsSearch(search) /\ search.plan \in Seq(Plans)
  BY SearchType DEF SearchIInv
<1>12. search' = [phase |-> "done", goal |-> "search", scores |-> search.scores, k |-> search.k,
                  ef |-> search.ef, floor |-> search.floor, level |-> search.level, here |-> search.here,
                  start |-> search.start, pending |-> none, best |-> none,
                  visited |-> none, todo |-> search.todo, plan |-> search.plan, result |-> result]
  BY <1>1, <1>8, <1>11, SearchType
<1>13. IsSearch([phase |-> "done", goal |-> "search", scores |-> search.scores, k |-> search.k,
                  ef |-> search.ef, floor |-> search.floor, level |-> search.level, here |-> search.here,
                  start |-> search.start, pending |-> none, best |-> none,
                  visited |-> none, todo |-> search.todo, plan |-> search.plan, result |-> result])
  BY <1>11, MakeSearch
<1>14. IsSearch(search')
  BY <1>12, <1>13, Zenon
<1>15. /\ search'.phase = "done" /\ search'.scores = search.scores /\ search'.k = search.k /\ search'.ef = search.ef
       /\ search'.start = search.start /\ search'.plan = search.plan /\ search'.result = result
  BY <1>12
<1>16. ResultIsSound(index, search')
  <2>1. \A a, b : BetterIn(index, search', a, b) <=> IsBetter(a, b)
    BY <1>15 DEF BetterIn, IsBetter, Score
  <2>2. {n \in Reachable(index, search'.start, 0) : index.deleted[n] = 0} = live
    BY <1>15 DEF live
  <2>3. ASSUME NEW i \in 1..Len(result), NEW j \in 1..Len(result), i < j
        PROVE  BetterIn(index, search', result[i], result[j])
    <3>1. i \in 1..N /\ j \in 1..N /\ result[i] = found[i] /\ result[j] = found[j]
      BY <1>7, <1>9, <1>10
    <3> QED BY <1>7, <2>1, <2>3, <3>1
  <2>4. ASSUME search.ef >= Cardinality(live), NEW n \in live, \A e \in 1..Len(result) : result[e] # n,
               NEW e \in 1..Len(result)
        PROVE  BetterIn(index, search', result[e], n)
    <3>1. PICK i \in 1..N : found[i] = n
      BY <1>5, <1>7, <2>4
    <3>2. e \in 1..N /\ result[e] = found[e]
      BY <1>7, <1>9, <1>10
    <3>3. i \notin 1..Len(result)
      BY <1>10, <2>4, <3>1
    <3>4. e < i
      BY <1>7, <1>9, <1>10, <3>3
    <3> QED BY <1>7, <2>1, <3>1, <3>2, <3>4
  <2> QED BY <1>9, <1>10, <1>15, <2>2, <2>3, <2>4 DEF ResultIsSound
<1>17. DescentIsSound(index, search') /\ LayerIsSound(index, search')
  BY <1>15 DEF DescentIsSound, LayerIsSound, Active
<1>18. PlanIsSound(index, search')
  BY <1>15 DEF SearchIInv, PlanIsSound
<1>19. load'.phase = "loaded" /\ index' = index
  BY <1>1 DEF vars, fileVars, Searchable
<1> QED BY <1>14, <1>16, <1>17, <1>18, <1>19 DEF SearchIInv

\* The plan with the links of one more level.
LEMMA PlanGrows ==
  ASSUME NEW x, NEW s, NEW t, PlanIsSound(x, s), s.plan \in Seq(Plans), NEW p \in Plans,
         t.plan = Append(s.plan, p),
         LET reach == Reachable(x, p.start, p.level)
             limit == IF p.level = 0 THEN 2 * x.m ELSE x.m
         IN  /\ p.chosen \in Seq(reach) /\ Distinct(p.chosen)
             /\ Len(p.chosen) = Smaller(limit, Smaller(x.efConstruction, Cardinality(reach)))
  PROVE  PlanIsSound(x, t)
<1> DEFINE old == s.plan
           new == Append(old, p)
           n == Len(old)
           Selected(e) == LET reach == Reachable(x, e.start, e.level)
                              limit == IF e.level = 0 THEN 2 * x.m ELSE x.m
                          IN  /\ e.chosen \in Seq(reach) /\ Distinct(e.chosen)
                              /\ Len(e.chosen) = Smaller(limit, Smaller(x.efConstruction, Cardinality(reach)))
<1>1. Selected(p) /\ \A i \in DOMAIN old : Selected(old[i])
  BY DEF PlanIsSound
<1>2. n \in Nat /\ DOMAIN old = 1..n /\ DOMAIN new = 1..(n + 1) /\ new[n + 1] = p /\ \A i \in 1..n : new[i] = old[i]
  OBVIOUS
<1> HIDE DEF Selected, new, old, n
<1>3. ASSUME NEW i \in DOMAIN new PROVE Selected(new[i])
  <2>1. i \in 1..n \/ i = n + 1
    BY <1>2
  <2> QED BY <1>1, <1>2, <2>1
<1>4. t.plan = new
  BY DEF new, old
<1> QED BY <1>3, <1>4 DEF PlanIsSound, Selected

LEMMA FinishLayerStep ==
  ASSUME Searchable, SearchIInv, FinishLayer
  PROVE  SearchIInv'
<1> DEFINE l == search.level
           found == Sorted(search.best)
           reach == Reachable(index, search.start, l)
           N == Cardinality(search.best)
           chosen == SelectNeighbors(found, Limit(index, l))
           p == [level |-> l, start |-> search.start, chosen |-> chosen]
           plan == Append(search.plan, p)
           phase == IF l = 0 THEN "done" ELSE "descend"
           level == IF l = 0 THEN 0 ELSE l - 1
           floor == IF l = 0 THEN 0 ELSE search.floor - 1
           none == {}
<1>1. UNCHANGED vars /\ search.phase = "layer" /\ Settled /\ search.goal = "insert"
  BY DEF FinishLayer
<1>2. search.phase \in Active /\ "descend" \in Active
  BY <1>1 DEF Active
<1>3. /\ search.scores \in [1..Len(index.ids) -> Int] /\ search.ef \in Nat /\ search.ef >= 1 /\ search.k \in Nat
      /\ l \in Nat /\ l = search.floor /\ search.ef = index.efConstruction
  BY <1>1, <1>2 DEF SearchIInv, DescentIsSound
<1>4. /\ Cardinality(reach) \in Nat /\ search.best \subseteq reach
      /\ N = Smaller(search.ef, Cardinality(reach))
  <2> DEFINE all == {n \in reach : Admits(n)}
  <2>1. /\ Cardinality(all) \in Nat /\ search.best \subseteq all
        /\ N = Smaller(search.ef, Cardinality(all))
    BY <1>1, SettledLayer
  <2>2. all = reach
    BY <1>1 DEF Admits
  <2> HIDE DEF all, reach
  <2> QED BY <2>1, <2>2
<1>5. Ordered /\ search.best \subseteq 1..Count /\ search.start \in On(index, l) /\ search.start \in reach
  BY <1>1, RunningLayer
<1>6. reach \subseteq On(index, l) /\ IsFiniteSet(reach)
  BY <1>3, <1>5, ReachableType
<1>7. N \in Nat /\ N >= 1
  <2> HIDE DEF reach
  <2>1. Cardinality(reach) # 0
    BY <1>5, <1>6, FS_EmptySet
  <2> QED BY <1>3, <1>4, <2>1 DEF Smaller
<1>8. found \in Seq(search.best) /\ Len(found) = N
  BY <1>5, SortedType
<1>9. found[1] \in On(index, l)
  <2> HIDE DEF found, N, reach
  <2>1. found[1] \in search.best
    BY <1>7, <1>8
  <2> QED BY <1>4, <1>6, <2>1
<1>10. Limit(index, l) \in Nat
  BY SearchableIndex DEF Limit
<1>11. chosen \in Seq(search.best) /\ Len(chosen) = Smaller(Limit(index, l), N) /\ Distinct(chosen)
  BY <1>5, <1>10, SelectType
<1>12. search' = [search EXCEPT !.plan = plan, !.here = found[1], !.best = none, !.pending = none,
                                !.visited = none, !.phase = phase, !.level = level, !.floor = floor]
  BY DEF FinishLayer
<1> HIDE DEF found, reach, N, chosen, none
<1>13. chosen \in Seq(reach) /\ chosen \in Seq(Nat)
  <2>1. Len(chosen) \in Nat /\ chosen = [i \in 1..Len(chosen) |-> chosen[i]] /\ \A i \in 1..Len(chosen) : chosen[i] \in search.best
    BY <1>11
  <2>2. \A i \in 1..Len(chosen) : chosen[i] \in reach
    BY <1>4, <2>1
  <2>3. \A i \in 1..Len(chosen) : chosen[i] \in Nat
    BY <1>5, <2>1 DEF Ordered
  <2>4. chosen \in Seq(reach)
    BY <2>1, <2>2
  <2>5. chosen \in Seq(Nat)
    BY <2>1, <2>3
  <2> QED BY <2>4, <2>5
<1>14. p \in Plans /\ p.level = l /\ p.start = search.start /\ p.chosen = chosen
  <2>1. search.start \in Nat
    BY <1>5 DEF On
  <2> QED BY <1>3, <1>13, <2>1 DEF Plans
<1>15. IsSearch(search) /\ search.plan \in Seq(Plans)
  BY SearchType DEF SearchIInv
<1> HIDE DEF p
<1>16. plan \in Seq(Plans)
  BY <1>14, <1>15
<1>17. phase \in {"done", "descend"} /\ (phase = "descend" => l # 0 /\ level = l - 1 /\ floor = l - 1)
  BY <1>3
<1> HIDE DEF plan, phase, level, floor
<1>18. search' = [phase |-> phase, goal |-> "insert", scores |-> search.scores, k |-> search.k,
                  ef |-> search.ef, floor |-> floor, level |-> level, here |-> found[1],
                  start |-> search.start, pending |-> none, best |-> none,
                  visited |-> none, todo |-> search.todo, plan |-> plan, result |-> search.result]
  BY <1>1, <1>12, <1>15, SearchType
<1>19. phase \in {"refused", "stopped", "done"} \union Active
  BY <1>2, <1>17
<1>20. IsSearch([phase |-> phase, goal |-> "insert", scores |-> search.scores, k |-> search.k,
                  ef |-> search.ef, floor |-> floor, level |-> level, here |-> found[1],
                  start |-> search.start, pending |-> none, best |-> none,
                  visited |-> none, todo |-> search.todo, plan |-> plan, result |-> search.result])
  BY <1>16, <1>19, MakeSearch
<1>21. IsSearch(search')
  BY <1>18, <1>20, Zenon
<1>22. /\ search'.phase = phase /\ search'.goal = "insert" /\ search'.scores = search.scores /\ search'.k = search.k
       /\ search'.ef = search.ef /\ search'.floor = floor /\ search'.level = level /\ search'.here = found[1]
       /\ search'.plan = plan
  BY <1>18
<1>23. DescentIsSound(index, search')
  <2>1. CASE phase = "descend"
    <3>1. l - 1 \in Nat /\ l - 1 <= l /\ level = l - 1 /\ floor = l - 1
      BY <1>3, <1>17, <2>1
    <3>2. found[1] \in On(index, level)
      BY <1>3, <1>9, <3>1, LowerLevel
    <3> QED BY <1>3, <1>22, <2>1, <3>1, <3>2 DEF DescentIsSound
  <2>2. CASE phase = "done"
    BY <1>22, <2>2 DEF DescentIsSound, Active
  <2> QED BY <1>17, <2>1, <2>2
<1>24. LayerIsSound(index, search') /\ ResultIsSound(index, search')
  BY <1>17, <1>22 DEF LayerIsSound, ResultIsSound
<1>25. PlanIsSound(index, search')
  <2>1. Len(chosen) = Smaller(IF l = 0 THEN 2 * index.m ELSE index.m, Smaller(index.efConstruction, Cardinality(reach)))
    BY <1>3, <1>4, <1>11 DEF Limit
  <2>2. PlanIsSound(index, search)
    BY DEF SearchIInv
  <2>3. search'.plan = Append(search.plan, p)
    BY <1>22 DEF plan
  <2>4. Reachable(index, p.start, p.level) = reach
    BY <1>14 DEF reach
  <2> HIDE DEF l
  <2>5. LET r == Reachable(index, p.start, p.level)
            limit == IF p.level = 0 THEN 2 * index.m ELSE index.m
        IN  /\ p.chosen \in Seq(r) /\ Distinct(p.chosen)
            /\ Len(p.chosen) = Smaller(limit, Smaller(index.efConstruction, Cardinality(r)))
    BY <1>11, <1>13, <1>14, <2>1, <2>4
  <2> QED BY <1>14, <1>15, <2>2, <2>3, <2>5, PlanGrows
<1>26. load'.phase = "loaded" /\ index' = index
  BY <1>1 DEF vars, fileVars, Searchable
<1> QED BY <1>21, <1>23, <1>24, <1>25, <1>26 DEF SearchIInv

LEMMA StopStep ==
  ASSUME Searchable, Stop
  PROVE  SearchIInv'
<1> DEFINE none == <<>>
<1>1. load'.phase = "loaded" /\ index' = index
  BY DEF Stop, vars, fileVars, Searchable
<1>2. search' = [phase |-> "stopped", goal |-> "search", scores |-> <<>>, k |-> 0, ef |-> 0, floor |-> 0,
                 level |-> 0, here |-> 0, start |-> 0, pending |-> {}, best |-> {}, visited |-> {},
                 todo |-> <<>>, plan |-> none, result |-> <<>>]
  BY DEF Stop, NoSearch
<1>3. none \in Seq(Plans)
  OBVIOUS
<1> HIDE DEF none
<1>4. IsSearch([phase |-> "stopped", goal |-> "search", scores |-> <<>>, k |-> 0, ef |-> 0, floor |-> 0,
                level |-> 0, here |-> 0, start |-> 0, pending |-> {}, best |-> {}, visited |-> {},
                todo |-> <<>>, plan |-> none, result |-> <<>>])
  BY <1>3, MakeSearch
<1>5. IsSearch(search')
  BY <1>2, <1>4, Zenon
<1>6. search'.phase = "stopped" /\ search'.plan = none
  BY <1>2
<1>7. DescentIsSound(index', search') /\ LayerIsSound(index', search') /\ ResultIsSound(index', search')
  BY <1>6 DEF DescentIsSound, LayerIsSound, ResultIsSound, Active
<1>8. PlanIsSound(index', search')
  BY <1>6 DEF PlanIsSound, none
<1> QED BY <1>1, <1>5, <1>7, <1>8 DEF SearchIInv

\* Before a search starts there is nothing to say.
LEMMA IdleSearch ==
  ASSUME NEW x, NEW s, s = NoSearch
  PROVE  /\ IsSearch(s) /\ DescentIsSound(x, s) /\ LayerIsSound(x, s)
         /\ PlanIsSound(x, s) /\ ResultIsSound(x, s) /\ s.phase = "idle"
<1> DEFINE none == <<>>
<1>1. /\ s.phase = "idle" /\ s.goal = "search" /\ s.plan = none /\ none \in Seq(Plans)
      /\ s = [phase |-> s.phase, goal |-> s.goal, scores |-> s.scores, k |-> s.k, ef |-> s.ef, floor |-> s.floor,
            level |-> s.level, here |-> s.here, start |-> s.start, pending |-> s.pending, best |-> s.best,
            visited |-> s.visited, todo |-> s.todo, plan |-> s.plan, result |-> s.result]
  BY DEF NoSearch
<1>2. IsSearch(s)
  <2> HIDE DEF none
  <2> QED BY <1>1 DEF IsSearch
<1>3. DescentIsSound(x, s) /\ LayerIsSound(x, s) /\ ResultIsSound(x, s)
  BY <1>1 DEF DescentIsSound, LayerIsSound, ResultIsSound, Active
<1>4. PlanIsSound(x, s)
  BY <1>1 DEF PlanIsSound
<1> QED BY <1>1, <1>2, <1>3, <1>4

LEMMA LoadedIsSearchable ==
  ASSUME LoadIInv, load.phase = "loaded"
  PROVE  Searchable
<1>1. LoadedIsSound
  BY LoadIsSafeFollows DEF LoadIsSafe
<1>2. index \in Indexes
  BY DEF LoadIInv, LoadIsTyped, Sized
<1> QED BY <1>1, <1>2 DEF Searchable

LEMMA StepSearchIInv ==
  ASSUME LoadIInv, SearchIInv, [SearchNext]_searchVars
  PROVE  SearchIInv'
<1>1. CASE search.phase = "idle" /\ Next /\ UNCHANGED search
  <2>1. search' = NoSearch
    BY <1>1 DEF SearchIInv, IsSearch
  <2> QED BY <2>1, IdleSearch DEF SearchIInv
<1>2. CASE \E q \in Queries, k \in Counts, ef \in Widths : StartSearch(q, k, ef)
  <2>1. load.phase = "loaded"
    BY <1>2 DEF StartSearch
  <2> QED BY <1>2, <2>1, LoadedIsSearchable, StartSearchStep
<1>3. CASE \E q \in Queries, l \in 0..MaxLevel : StartInsert(q, l)
  <2>1. load.phase = "loaded"
    BY <1>3 DEF StartInsert
  <2> QED BY <1>3, <2>1, LoadedIsSearchable, StartInsertStep
<1>4. CASE SearchStep \/ Stop
  <2>1. search.phase # "idle"
    BY <1>4 DEF SearchStep, Greedy, EnterLayer, Pop, Visit, FinishSearch, FinishLayer, Stop
  <2>2. Searchable
    BY <2>1, LoadedIsSearchable DEF SearchIInv
  <2> QED BY <1>4, <2>2, GreedyStep, EnterLayerStep, PopStep, VisitStep, FinishSearchStep, FinishLayerStep, StopStep
          DEF SearchStep
<1>5. CASE UNCHANGED searchVars
  <2>1. index' = index /\ search' = search /\ load' = load
    BY <1>5 DEF searchVars, vars, fileVars
  <2> QED BY <2>1 DEF SearchIInv
<1> QED BY <1>1, <1>2, <1>3, <1>4, <1>5 DEF SearchNext

\* The invariant of the loader and of the search that follows it.
THEOREM SearchInvariance == SearchSpec => [](LoadIInv /\ SearchIInv)
<1>1. SearchInit => LoadIInv /\ SearchIInv
  BY InitLoadIInv, IdleSearch DEF SearchInit, SearchIInv
<1>2. LoadIInv /\ SearchIInv /\ [SearchNext]_searchVars => LoadIInv' /\ SearchIInv'
  BY SearchLeavesLoad, StepLoadIInv, StepSearchIInv
<1> QED BY <1>1, <1>2, PTL DEF SearchSpec

LEMMA ReachIsReachable ==
  ASSUME NEW n, NEW l
  PROVE  Reach(n, l) = Reachable(index, n, l)
BY DEF Reach, Reachable, ClosedSets, ClosedIn, On, Links, Neighbors, Count

LEMMA SearchIsCompleteFollows ==
  ASSUME SearchIInv
  PROVE  SearchIsComplete
<1> DEFINE live == {n \in Reach(search.start, 0) : IsLive(n)}
           result == search.result
           N == Len(result)
<1> SUFFICES ASSUME search.phase = "done", search.goal = "search", search.k > 0
    PROVE  /\ N = Smaller(search.k, Cardinality(live))
           /\ ToSet(result) \subseteq live
           /\ \A e \in 1..(N - 1) : IsBetter(result[e], result[e + 1])
           /\ search.ef >= Cardinality(live) =>
                 \A n \in live \ ToSet(result) : \A e \in DOMAIN result : IsBetter(result[e], n)
  BY DEF SearchIsComplete
<1>1. live = {n \in Reachable(index, search.start, 0) : index.deleted[n] = 0}
  BY ReachIsReachable DEF IsLive
<1>2. \A a, b : BetterIn(index, search, a, b) <=> IsBetter(a, b)
  BY Bridges
<1> HIDE DEF live, result
<1>3. /\ result \in Seq(live) /\ N = Smaller(search.k, Cardinality(live))
      /\ \A i, j \in 1..N : i < j => BetterIn(index, search, result[i], result[j])
      /\ search.ef >= Cardinality(live) =>
            \A n \in live : (\A e \in 1..N : result[e] # n) =>
                \A e \in 1..N : BetterIn(index, search, result[e], n)
  BY <1>1 DEF SearchIInv, ResultIsSound, result
<1>4. N \in Nat /\ DOMAIN result = 1..N /\ \A e \in 1..N : result[e] \in live
  BY <1>3
<1>5. ToSet(result) = {result[e] : e \in 1..N}
  BY <1>4 DEF ToSet
<1> HIDE DEF N
<1>6. ToSet(result) \subseteq live
  BY <1>4, <1>5
<1>7. ASSUME NEW e \in 1..(N - 1) PROVE IsBetter(result[e], result[e + 1])
  <2>1. e \in 1..N /\ e + 1 \in 1..N /\ e < e + 1
    BY <1>4
  <2> QED BY <1>2, <1>3, <2>1
<1>8. ASSUME search.ef >= Cardinality(live), NEW n \in live \ ToSet(result), NEW e \in DOMAIN result
      PROVE  IsBetter(result[e], n)
  <2>1. e \in 1..N /\ \A i \in 1..N : result[i] # n
    BY <1>4, <1>5
  <2> QED BY <1>2, <1>3, <1>8, <2>1
<1> QED BY <1>3, <1>6, <1>7, <1>8

LEMMA PlanIsSelectableFollows ==
  ASSUME SearchIInv
  PROVE  PlanIsSelectable
<1> SUFFICES ASSUME NEW p \in DOMAIN search.plan
    PROVE  LET level == search.plan[p].level
               chosen == search.plan[p].chosen
               reach == Reach(search.plan[p].start, level)
           IN  /\ IsInjective(chosen)
               /\ ToSet(chosen) \subseteq reach
               /\ Len(chosen) = Smaller(Limit(index, level), Smaller(index.efConstruction, Cardinality(reach)))
  BY DEF PlanIsSelectable
<1> DEFINE level == search.plan[p].level
           chosen == search.plan[p].chosen
           reach == Reach(search.plan[p].start, level)
<1>1. reach = Reachable(index, search.plan[p].start, level)
  BY ReachIsReachable
<1>2. /\ chosen \in Seq(reach) /\ Distinct(chosen)
      /\ Len(chosen) = Smaller(Limit(index, level), Smaller(index.efConstruction, Cardinality(reach)))
  BY <1>1 DEF SearchIInv, PlanIsSound, Limit
<1> HIDE DEF chosen, reach, level
<1>3. DOMAIN chosen = 1..Len(chosen) /\ \A e \in 1..Len(chosen) : chosen[e] \in reach
  BY <1>2
<1>4. IsInjective(chosen)
  BY <1>2, <1>3 DEF IsInjective, Distinct
<1>5. ToSet(chosen) \subseteq reach
  BY <1>3 DEF ToSet
<1> QED BY <1>2, <1>4, <1>5 DEF chosen, reach, level

\* However the graph is linked and wherever the tombstones lie: a search that
\* returns has found, best first, as many live vectors as it was asked for or as
\* can be reached, and the exact answer if ef covers them.
THEOREM SearchStaysComplete == SearchSpec => []SearchIsComplete
<1>1. LoadIInv /\ SearchIInv => SearchIsComplete
  BY SearchIsCompleteFollows
<1> QED BY <1>1, SearchInvariance, PTL

\* What select_neighbors plans for a new node are distinct nodes of the level
\* that can be reached, as many as the degree limit and the construction search
\* allow.
THEOREM PlanStaysSelectable == SearchSpec => []PlanIsSelectable
<1>1. LoadIInv /\ SearchIInv => PlanIsSelectable
  BY PlanIsSelectableFollows
<1> QED BY <1>1, SearchInvariance, PTL

-----------------------------------------------------------------------------
(* What is loaded is what was saved *)

Begins(s, t) == Len(s) <= Len(t) /\ \A i \in 1..Len(s) : s[i] = t[i]

\* The cells of the vectors, of each node, and of each list of a node.
VectorCells(x) == [c \in 1..Len(x.vectors) |-> Bits(x.vectors[c])]
GraphCells(x) == [n \in 1..Len(x.graph) |-> NodeCells(x.graph[n])]
ListCells(node) == [l \in 1..Len(node) |-> <<Len(node[l])>> \o node[l]]

\* The cells of a file up to node n, up to list l of the next node, and the
\* two parts behind the graph.
NodesRead(x, n) == x.ids \o VectorCells(x) \o FlattenSeq(SubSeq(GraphCells(x), 1, n))
ListsRead(x, n, l) ==
    NodesRead(x, n) \o (<<Len(x.graph[n + 1]) - 1>> \o FlattenSeq(SubSeq(ListCells(x.graph[n + 1]), 1, l)))
Flags(x, v) == IF v = 3 THEN <<Len(x.ids) - x.deletedCount>> \o x.deleted ELSE <<>>
State(x, v) == IF v >= 2 THEN <<1, x.random>> ELSE <<>>

\* An index of which some tables have been read.
Built(x, ids, vectors, graph, deleted, deletedCount, random) ==
    [dimension |-> x.dimension, m |-> x.m, efConstruction |-> x.efConstruction, efSearch |-> x.efSearch,
     seed |-> x.seed, selection |-> x.selection, ids |-> ids, vectors |-> vectors, graph |-> graph,
     deleted |-> deleted, deletedCount |-> deletedCount, entry |-> 0, maxLevel |-> 0, random |-> random]
NoneDeleted(x) == [n \in 1..Len(x.ids) |-> 0]
BuiltTo(x, n) == Built(x, x.ids, x.vectors, SubSeq(x.graph, 1, n), NoneDeleted(x), 0, x.seed)
BuiltWith(x, v, random) ==
    Built(x, x.ids, x.vectors, x.graph, IF v = 3 THEN x.deleted ELSE NoneDeleted(x),
          IF v = 3 THEN x.deletedCount ELSE 0, random)

\* The loader after each part of the file of x.
AtIds(x) == load.read = <<>> /\ index = Built(x, <<>>, <<>>, <<>>, NoneDeleted(x), 0, x.seed)
AtVectors(x) == load.read = x.ids /\ index = Built(x, x.ids, <<>>, <<>>, NoneDeleted(x), 0, x.seed)
AtNode(x, n) == load.read = NodesRead(x, n) /\ index = BuiltTo(x, n)
AtLayer(x, n, l) ==
    /\ load.read = ListsRead(x, n, l) /\ index = BuiltTo(x, n)
    /\ load.level = Len(x.graph[n + 1]) - 1 /\ load.layers = SubSeq(x.graph[n + 1], 1, l)
AtTombstones(x) == AtNode(x, Len(x.graph))
AtRandom(x, v) == load.read = NodesRead(x, Len(x.graph)) \o Flags(x, v) /\ index = BuiltWith(x, v, x.seed)
AtSum(x, v) == load.read = Payload(x, v) /\ index = BuiltWith(x, v, IF v = 1 THEN x.seed ELSE x.random)

At(x, v) ==
    /\ load.phase = "ids" => AtIds(x)
    /\ load.phase = "vectors" => AtVectors(x)
    /\ load.phase = "node" => \E n \in 0..Len(x.graph) : AtNode(x, n)
    /\ load.phase = "layer" =>
          \E n \in 0..(Len(x.graph) - 1) : \E l \in 0..(Len(x.graph[n + 1]) - 1) : AtLayer(x, n, l)
    /\ load.phase = "tombstones" => v = 3 /\ AtTombstones(x)
    /\ load.phase = "random" => AtRandom(x, v)
    /\ load.phase = "sum" => AtSum(x, v)

Reading == Sized \ {"loaded"}

\* The header is that of x in version v, and the cells are those of its file.
Follows(x, v) ==
    /\ load.phase \in Reading /\ load.header = WrittenBefore(x, v).header
    /\ Begins(load.read, Payload(x, v))

IsSoundIndex(x) == IsIndex(x) /\ Sound(x)

\* Whatever index the cells read so far belong to, the loader has its part.
LoadAgrees ==
    /\ load.phase \in {"header", "size"} => load.read = <<>>
    /\ \A x \in Indexes, v \in Versions : IsSoundIndex(x) /\ Follows(x, v) => At(x, v)

\* A checksum of this program is that of a saved index.
IsSavedSum(s) ==
    s = <<>> \/ \E x \in saved, v \in Versions : s = WrittenBefore(x, v).sum /\ (v < 3 => x.deletedCount = 0)
SumsAreSaved == ~foreign => IsSavedSum(load.sum) /\ \A i \in Inodes : IsSavedSum(files[i].sum)

SavedIsSound == (\A x \in saved : IsSoundIndex(x)) /\ (writing # NoIndex => writing \in saved)

\* An undisturbed load reads the file of x in version v.
IsClean(x, v) ==
    /\ load.clean /\ Loadable(x) /\ load.inode = path /\ files[path] = WrittenBefore(x, v)
    /\ load.phase # "header" => load.header = files[path].header /\ load.sum = files[path].sum
    /\ Begins(load.read, Payload(x, v))
CleanIsKept ==
    /\ load.phase = "rejected" => ~load.clean
    /\ load.clean /\ load.phase \in {"header", "size"} \union Reading =>
          writing = NoIndex /\ \E x \in saved, v \in Versions : IsClean(x, v)

LoadedWasSaved == load.phase = "loaded" /\ ~foreign => \E x \in saved : index = Recalled(x, load.header.version)

SavedIInv == SavedIsSound /\ SumsAreSaved /\ LoadAgrees /\ CleanIsKept /\ LoadedWasSaved

\* Beginnings of sequences.
LEMMA BeginsFacts ==
  ASSUME NEW a \in Seq(Nat), NEW b \in Seq(Nat), NEW c \in Seq(Nat)
  PROVE  /\ Begins(a, a) /\ Begins(a, a \o b)
         /\ Begins(a, b) /\ Begins(b, c) => Begins(a, c)
         /\ Begins(a \o b, c) => Begins(a, c)
<1>1. a \o b \in Seq(Nat) /\ Len(a \o b) = Len(a) + Len(b) /\ Len(a) \in Nat /\ Len(b) \in Nat
  OBVIOUS
<1>2. \A i \in 1..Len(a) : (a \o b)[i] = a[i]
  OBVIOUS
<1>3. Begins(a, a)
  BY DEF Begins
<1>4. Begins(a, a \o b)
  BY <1>1, <1>2 DEF Begins
<1>5. Begins(a, b) /\ Begins(b, c) => Begins(a, c)
  BY <1>1 DEF Begins
<1>6. ASSUME Begins(a \o b, c) PROVE Begins(a, c)
  <2>1. Len(a) + Len(b) <= Len(c) /\ \A i \in 1..(Len(a) + Len(b)) : (a \o b)[i] = c[i]
    BY <1>1, <1>6 DEF Begins
  <2>2. \A i \in 1..Len(a) : i \in 1..(Len(a) + Len(b))
    BY <1>1
  <2> QED BY <1>1, <1>2, <2>1, <2>2 DEF Begins
<1> QED BY <1>3, <1>4, <1>5, <1>6

LEMMA BeginsLonger ==
  ASSUME NEW a \in Seq(Nat), NEW b \in Seq(Nat)
  PROVE  Begins(a, a \o b)
BY BeginsFacts

LEMMA BeginsThrough ==
  ASSUME NEW a \in Seq(Nat), NEW b \in Seq(Nat), NEW c \in Seq(Nat), Begins(a, b), Begins(b, c)
  PROVE  Begins(a, c)
BY BeginsFacts

LEMMA BeginsPart ==
  ASSUME NEW a \in Seq(Nat), NEW b \in Seq(Nat), NEW c \in Seq(Nat), Begins(a \o b, c)
  PROVE  Begins(a, c)
BY BeginsFacts

\* The elements of two sequences one behind the other.
LEMMA Joined ==
  ASSUME NEW a \in Seq(Nat), NEW b \in Seq(Nat)
  PROVE  /\ a \o b \in Seq(Nat) /\ Len(a \o b) = Len(a) + Len(b)
         /\ \A i \in 1..Len(a) : (a \o b)[i] = a[i]
         /\ \A i \in 1..Len(b) : (a \o b)[Len(a) + i] = b[i]
<1>1. a \o b \in Seq(Nat) /\ Len(a \o b) = Len(a) + Len(b) /\ Len(a) \in Nat /\ Len(b) \in Nat
  OBVIOUS
<1>2. \A i \in 1..Len(a) : (a \o b)[i] = a[i]
  OBVIOUS
<1>3. ASSUME NEW i \in 1..Len(b) PROVE (a \o b)[Len(a) + i] = b[i]
  <2>1. Len(a) + i \in 1..(Len(a) + Len(b)) /\ ~(Len(a) + i <= Len(a)) /\ Len(a) + i - Len(a) = i
    BY <1>1
  <2> QED BY <1>1, <2>1
<1> QED BY <1>1, <1>2, <1>3

LEMMA Associated ==
  ASSUME NEW a \in Seq(Nat), NEW b \in Seq(Nat), NEW c \in Seq(Nat)
  PROVE  (a \o b) \o c = a \o (b \o c)
<1> DEFINE s == (a \o b) \o c
           t == a \o (b \o c)
           m == Len(a)
           n == Len(b)
           p == Len(c)
<1>1. m \in Nat /\ n \in Nat /\ p \in Nat
  OBVIOUS
<1>2. s \in Seq(Nat) /\ t \in Seq(Nat) /\ Len(s) = m + n + p /\ Len(t) = m + n + p
  BY Joined
<1>3. /\ \A i \in 1..m : (a \o b)[i] = a[i]
      /\ \A i \in 1..n : (a \o b)[m + i] = b[i] /\ (b \o c)[i] = b[i]
      /\ \A i \in 1..p : (b \o c)[n + i] = c[i]
  BY Joined
<1>4. /\ \A i \in 1..(m + n) : s[i] = (a \o b)[i]
      /\ \A i \in 1..p : s[(m + n) + i] = c[i]
      /\ \A i \in 1..m : t[i] = a[i]
      /\ \A i \in 1..(n + p) : t[m + i] = (b \o c)[i]
  <2>1. a \o b \in Seq(Nat) /\ Len(a \o b) = m + n /\ b \o c \in Seq(Nat) /\ Len(b \o c) = n + p
    BY Joined
  <2> HIDE DEF m, n, p
  <2>2. /\ \A i \in 1..Len(a \o b) : s[i] = (a \o b)[i]
        /\ \A i \in 1..Len(c) : s[Len(a \o b) + i] = c[i]
        /\ \A i \in 1..Len(a) : t[i] = a[i]
        /\ \A i \in 1..Len(b \o c) : t[Len(a) + i] = (b \o c)[i]
    BY <2>1, Joined
  <2> QED BY <2>1, <2>2 DEF m, p
<1> HIDE DEF s, t, m, n, p
<1>5. ASSUME NEW i \in 1..(m + n + p) PROVE s[i] = t[i]
  <2>1. CASE i \in 1..m
    <3>1. i \in 1..(m + n)
      BY <1>1, <2>1
    <3> QED BY <1>3, <1>4, <2>1, <3>1
  <2>2. CASE i \in (m + 1)..(m + n)
    <3>1. PICK k \in 1..n : i = m + k
      <4>1. i - m \in 1..n /\ i = m + (i - m)
        BY <1>1, <2>2
      <4> QED BY <4>1
    <3>2. k \in 1..(n + p) /\ i \in 1..(m + n)
      BY <1>1, <3>1
    <3> QED BY <1>3, <1>4, <3>1, <3>2
  <2>3. CASE i \in (m + n + 1)..(m + n + p)
    <3>1. PICK k \in 1..p : i = (m + n) + k
      <4>1. i - (m + n) \in 1..p /\ i = (m + n) + (i - (m + n))
        BY <1>1, <2>3
      <4> QED BY <4>1
    <3>2. n + k \in 1..(n + p) /\ i = m + (n + k)
      BY <1>1, <3>1
    <3>3. t[i] = (b \o c)[n + k]
      BY <1>4, <3>2
    <3> QED BY <1>3, <1>4, <3>1, <3>3
  <2> QED BY <1>1, <2>1, <2>2, <2>3
<1> QED BY <1>2, <1>5 DEF s, t

\* Whoever begins b makes a beginning of what follows the same.
LEMMA BeginsBehind ==
  ASSUME NEW a \in Seq(Nat), NEW b \in Seq(Nat), NEW c \in Seq(Nat), Begins(b, c)
  PROVE  Begins(a \o b, a \o c)
<1>1. /\ Len(a) \in Nat /\ Len(b) \in Nat /\ Len(c) \in Nat /\ Len(b) <= Len(c)
      /\ \A i \in 1..Len(b) : b[i] = c[i]
  BY DEF Begins
<1>2. /\ Len(a \o b) = Len(a) + Len(b) /\ Len(a \o c) = Len(a) + Len(c)
      /\ \A i \in 1..Len(a) : (a \o b)[i] = a[i] /\ (a \o c)[i] = a[i]
      /\ \A i \in 1..Len(b) : (a \o b)[Len(a) + i] = b[i]
      /\ \A i \in 1..Len(c) : (a \o c)[Len(a) + i] = c[i]
  BY Joined
<1>3. ASSUME NEW i \in 1..(Len(a) + Len(b)) PROVE (a \o b)[i] = (a \o c)[i]
  <2>1. CASE i \in 1..Len(a)
    BY <1>2, <2>1
  <2>2. CASE i \notin 1..Len(a)
    <3>1. i - Len(a) \in 1..Len(b) /\ i = Len(a) + (i - Len(a)) /\ i - Len(a) \in 1..Len(c)
      BY <1>1, <2>2
    <3>2. PICK k \in 1..Len(b) : i = Len(a) + k /\ k \in 1..Len(c)
      BY <3>1
    <3> QED BY <1>1, <1>2, <3>2
  <2> QED BY <2>1, <2>2
<1> QED BY <1>1, <1>2, <1>3 DEF Begins

\* Sequences of one length with the same elements.
LEMMA SameSequence ==
  ASSUME NEW S, NEW a \in Seq(S), NEW b \in Seq(S), Len(a) = Len(b), \A i \in 1..Len(a) : a[i] = b[i]
  PROVE  a = b
<1>1. a = [i \in 1..Len(a) |-> a[i]] /\ b = [i \in 1..Len(b) |-> b[i]]
  OBVIOUS
<1> QED BY <1>1

\* Cells that follow a in p are those that do.
LEMMA NextPart ==
  ASSUME NEW a \in Seq(Nat), NEW c \in Seq(Nat), NEW d \in Seq(Nat), NEW p \in Seq(Nat),
         Begins(a \o c, p), Begins(a \o d, p), Len(d) <= Len(c)
  PROVE  /\ \A i \in 1..Len(d) : d[i] = c[i]
         /\ Len(d) = Len(c) => d = c
<1>1. /\ Len(a \o c) = Len(a) + Len(c) /\ Len(a \o d) = Len(a) + Len(d)
      /\ \A i \in 1..Len(c) : (a \o c)[Len(a) + i] = c[i]
      /\ \A i \in 1..Len(d) : (a \o d)[Len(a) + i] = d[i]
      /\ Len(a) \in Nat /\ Len(c) \in Nat /\ Len(d) \in Nat
  BY Joined
<1>2. /\ \A i \in 1..(Len(a) + Len(c)) : (a \o c)[i] = p[i]
      /\ \A i \in 1..(Len(a) + Len(d)) : (a \o d)[i] = p[i]
  BY <1>1 DEF Begins
<1>3. ASSUME NEW i \in 1..Len(d) PROVE d[i] = c[i]
  <2>1. i \in 1..Len(c) /\ Len(a) + i \in 1..(Len(a) + Len(c)) /\ Len(a) + i \in 1..(Len(a) + Len(d))
    BY <1>1
  <2> QED BY <1>1, <1>2, <2>1
<1>4. ASSUME Len(d) = Len(c) PROVE d = c
  BY <1>3, <1>4, SameSequence
<1> QED BY <1>3, <1>4

\* The cells behind the beginning a of p.
LEMMA PartOf ==
  ASSUME NEW p \in Seq(Nat), NEW r \in Nat, NEW n \in Nat, r + n <= Len(p)
  PROVE  /\ SubSeq(p, r + 1, r + n) \in Seq(Nat) /\ Len(SubSeq(p, r + 1, r + n)) = n
         /\ \A i \in 1..n : SubSeq(p, r + 1, r + n)[i] = p[r + i]
<1>1. SubSeq(p, r + 1, r + n) \in Seq(Nat) /\ Len(SubSeq(p, r + 1, r + n)) = n
  OBVIOUS
<1>2. ASSUME NEW i \in 1..n PROVE SubSeq(p, r + 1, r + n)[i] = p[r + i]
  <2>1. i \in 1..((r + n) - (r + 1) + 1) /\ (r + 1) + i - 1 = r + i
    OBVIOUS
  <2>2. SubSeq(p, r + 1, r + n)[i] = p[(r + 1) + i - 1]
    BY <2>1
  <2> QED BY <2>1, <2>2
<1> QED BY <1>1, <1>2

\* What is read of p behind a: c, if p goes on with it.
LEMMA ReadPart ==
  ASSUME NEW a \in Seq(Nat), NEW c \in Seq(Nat), NEW p \in Seq(Nat), Begins(a, p)
  PROVE  /\ \A n \in Nat : Len(a) + n <= Len(p) => Begins(a \o SubSeq(p, Len(a) + 1, Len(a) + n), p)
         /\ Begins(a \o c, p) => Len(a) + Len(c) <= Len(p) /\ SubSeq(p, Len(a) + 1, Len(a) + Len(c)) = c
<1>1. Len(a) \in Nat /\ Len(c) \in Nat /\ Len(p) \in Nat /\ Len(a) <= Len(p) /\ \A i \in 1..Len(a) : a[i] = p[i]
  BY DEF Begins
<1>2. ASSUME NEW n \in Nat, Len(a) + n <= Len(p)
      PROVE  Begins(a \o SubSeq(p, Len(a) + 1, Len(a) + n), p)
  <2> DEFINE d == SubSeq(p, Len(a) + 1, Len(a) + n)
  <2>1. d \in Seq(Nat) /\ Len(d) = n /\ \A i \in 1..n : d[i] = p[Len(a) + i]
    BY <1>1, <1>2, PartOf
  <2> HIDE DEF d
  <2>2. /\ Len(a \o d) = Len(a) + n /\ \A i \in 1..Len(a) : (a \o d)[i] = a[i]
        /\ \A i \in 1..n : (a \o d)[Len(a) + i] = d[i]
    BY <2>1, Joined
  <2>3. ASSUME NEW i \in 1..(Len(a) + n) PROVE (a \o d)[i] = p[i]
    <3>1. CASE i \in 1..Len(a)
      BY <1>1, <2>2, <3>1
    <3>2. CASE i \notin 1..Len(a)
      <4>1. i - Len(a) \in 1..n /\ i = Len(a) + (i - Len(a))
        BY <1>1, <3>2
      <4>2. PICK k \in 1..n : i = Len(a) + k
        BY <4>1
      <4> QED BY <2>1, <2>2, <4>2
    <3> QED BY <3>1, <3>2
  <2>4. Begins(a \o d, p)
    BY <1>2, <2>2, <2>3 DEF Begins
  <2> QED BY <2>4 DEF d
<1>3. ASSUME Begins(a \o c, p)
      PROVE  Len(a) + Len(c) <= Len(p) /\ SubSeq(p, Len(a) + 1, Len(a) + Len(c)) = c
  <2>1. Len(a \o c) = Len(a) + Len(c)
    BY Joined
  <2>2. Len(a) + Len(c) <= Len(p)
    BY <1>3, <2>1 DEF Begins
  <2> DEFINE d == SubSeq(p, Len(a) + 1, Len(a) + Len(c))
  <2>3. Begins(a \o d, p)
    BY <1>1, <1>2, <2>2
  <2>4. d \in Seq(Nat) /\ Len(d) = Len(c)
    BY <1>1, <2>2, PartOf
  <2> HIDE DEF d
  <2>5. d = c
    BY <1>1, <1>3, <2>3, <2>4, NextPart
  <2> QED BY <2>2, <2>5 DEF d
<1> QED BY <1>2, <1>3

\* A list of parts: the cells of the first n.
First(ss, n) == FlattenSeq(SubSeq(ss, 1, n))

LEMMA FlattenFirst ==
  ASSUME NEW ss \in Seq(Seq(Nat))
  PROVE  /\ First(ss, 0) = <<>> /\ First(ss, Len(ss)) = FlattenSeq(ss)
         /\ \A n \in 0..Len(ss) : First(ss, n) \in Seq(Nat)
         /\ \A n \in 0..(Len(ss) - 1) : First(ss, n + 1) = First(ss, n) \o ss[n + 1]
<1>1. Len(ss) \in Nat /\ \A i \in 1..Len(ss) : ss[i] \in Seq(Nat)
  OBVIOUS
<1>2. PICK f \in [1..Len(ss) -> Seq(Nat)] : Flattens(f, ss, Len(ss))
  BY FlattenExists
<1>3. ASSUME NEW n \in 0..Len(ss)
      PROVE  SubSeq(ss, 1, n) \in Seq(Seq(Nat)) /\ Len(SubSeq(ss, 1, n)) = n /\ \A i \in 1..n : SubSeq(ss, 1, n)[i] = ss[i]
  BY <1>1
<1>4. First(ss, 0) = <<>>
  <2>1. SubSeq(ss, 1, 0) = <<>>
    OBVIOUS
  <2> QED BY <2>1 DEF First, FlattenSeq
<1>5. First(ss, Len(ss)) = FlattenSeq(ss)
  <2>1. 0 <= Len(ss) /\ Len(ss) \in 0..Len(ss)
    BY <1>1
  <2>2. SubSeq(ss, 1, Len(ss)) = ss
    <3> DEFINE t == SubSeq(ss, 1, Len(ss))
    <3>1. t \in Seq(Seq(Nat)) /\ Len(t) = Len(ss) /\ \A i \in 1..Len(ss) : t[i] = ss[i]
      BY <1>3, <2>1
    <3> HIDE DEF t
    <3>2. t = ss
      BY <3>1, SameSequence
    <3> QED BY <3>2 DEF t
  <2> QED BY <2>2 DEF First
<1>6. ASSUME NEW n \in 1..Len(ss) PROVE First(ss, n) = f[n]
  <2> DEFINE t == SubSeq(ss, 1, n)
  <2>1. t \in Seq(Seq(Nat)) /\ Len(t) = n /\ \A i \in 1..n : t[i] = ss[i]
    BY <1>1, <1>3
  <2>10. n \in Nat /\ n >= 1
    BY <1>1
  <2>9. First(ss, n) = FlattenSeq(t)
    BY DEF First
  <2> HIDE DEF t
  <2>2. t # <<>>
    BY <2>1, <2>10
  <2>3. PICK g \in [1..n -> Seq(Nat)] : Flattens(g, t, n) /\ FlattenSeq(t) = g[n]
    BY <2>1, <2>2, FlattenSteps
  <2> DEFINE Good == {k \in 0..n : k = 0 \/ g[k] = f[k]}
  <2>4. 0 \in Good
    OBVIOUS
  <2>5. ASSUME NEW k \in 0..(n - 1), k \in Good PROVE k + 1 \in Good
    <3>1. k + 1 \in 1..n /\ k + 1 \in 1..Len(ss) /\ (k + 1) - 1 = k /\ (k + 1 = 1 <=> k = 0)
      BY <1>1
    <3>2. f[k + 1] = IF k = 0 THEN ss[k + 1] ELSE f[k] \o ss[k + 1]
      BY <1>2, <3>1 DEF Flattens
    <3>3. g[k + 1] = IF k = 0 THEN t[k + 1] ELSE g[k] \o t[k + 1]
      BY <2>3, <3>1 DEF Flattens
    <3>4. g[k + 1] = f[k + 1]
      BY <2>1, <2>5, <3>1, <3>2, <3>3
    <3> QED BY <3>1, <3>4
  <2>6. 0..n \subseteq Good
    <3> HIDE DEF Good
    <3> QED BY <2>4, <2>5, <2>10, UpTo
  <2>7. n \in Good /\ n # 0
    BY <2>6
  <2> QED BY <2>3, <2>7, <2>9
<1>7. ASSUME NEW n \in 0..Len(ss) PROVE First(ss, n) \in Seq(Nat)
  <2>1. SubSeq(ss, 1, n) \in Seq(Seq(Nat))
    BY <1>3
  <2> QED BY <2>1, FlattenType DEF First
<1>8. ASSUME NEW n \in 0..(Len(ss) - 1) PROVE First(ss, n + 1) = First(ss, n) \o ss[n + 1]
  <2>1. n + 1 \in 1..Len(ss) /\ (n + 1) - 1 = n /\ (n + 1 = 1 <=> n = 0) /\ (n # 0 => n \in 1..Len(ss))
    BY <1>1
  <2>2. First(ss, n + 1) = IF n = 0 THEN ss[n + 1] ELSE f[n] \o ss[n + 1]
    BY <1>2, <1>6, <2>1 DEF Flattens
  <2>3. CASE n = 0
    <3>1. <<>> \o ss[1] = ss[1]
      <4>1. ss[1] \in Seq(Nat)
        BY <1>1, <2>1, <2>3
      <4> QED BY <4>1
    <3> QED BY <1>4, <2>2, <2>3, <3>1
  <2>4. CASE n # 0
    BY <1>6, <2>1, <2>2, <2>4
  <2> QED BY <2>3, <2>4
<1> QED BY <1>4, <1>5, <1>7, <1>8

\* The first parts begin all of them.
LEMMA FirstBegins ==
  ASSUME NEW ss \in Seq(Seq(Nat)), NEW n \in 0..Len(ss)
  PROVE  Begins(First(ss, n), FlattenSeq(ss))
<1> DEFINE N == Len(ss)
           Good == {k \in 0..N : Begins(First(ss, N - k), FlattenSeq(ss))}
<1>1. N \in Nat /\ \A k \in 0..N : First(ss, k) \in Seq(Nat)
  BY FlattenFirst
<1>2. First(ss, N) = FlattenSeq(ss)
  BY FlattenFirst
<1>3. FlattenSeq(ss) \in Seq(Nat)
  BY FlattenType
<1>6. \A k \in 0..(N - 1) : First(ss, k + 1) = First(ss, k) \o ss[k + 1]
  BY FlattenFirst
<1>7. \A k \in 1..N : ss[k] \in Seq(Nat)
  OBVIOUS
<1> HIDE DEF N
<1>4. 0 \in Good
  <2>1. N - 0 = N /\ 0 \in 0..N
    BY <1>1
  <2> QED BY <1>2, <1>3, <2>1, BeginsFacts
<1>5. ASSUME NEW k \in 0..(N - 1), k \in Good PROVE k + 1 \in Good
  <2> DEFINE j == N - (k + 1)
  <2>1. j \in 0..(N - 1) /\ j + 1 = N - k /\ j + 1 \in 1..N /\ k + 1 \in 0..N /\ j \in 0..N
    BY <1>1
  <2> HIDE DEF j
  <2>2. First(ss, N - k) = First(ss, j) \o ss[j + 1]
    BY <1>6, <2>1
  <2>3. First(ss, j) \in Seq(Nat) /\ ss[j + 1] \in Seq(Nat)
    BY <1>1, <1>7, <2>1
  <2>5. Begins(First(ss, j) \o ss[j + 1], FlattenSeq(ss))
    BY <1>5, <2>2
  <2>4. Begins(First(ss, j), FlattenSeq(ss))
    BY <1>3, <2>3, <2>5, BeginsFacts
  <2> QED BY <2>1, <2>4 DEF j
<1>8. 0..N \subseteq Good
  <2> HIDE DEF Good
  <2> QED BY <1>1, <1>4, <1>5, UpTo
<1>9. N - n \in 0..N /\ N - (N - n) = n
  BY <1>1 DEF N
<1>10. N - n \in Good
  BY <1>8, <1>9
<1> QED BY <1>9, <1>10

\* The partial sums of Total.
LEMMA TotalSteps ==
  ASSUME NEW s \in Seq(Nat)
  PROVE  \E f \in [0..Len(s) -> Nat] :
            f[0] = 0 /\ (\A i \in 1..Len(s) : f[i] = f[i - 1] + s[i]) /\ Total(s) = f[Len(s)]
<1> DEFINE n == Len(s)
           Whole(f) == f = [i \in 0..n |-> IF i = 0 THEN 0 ELSE f[i - 1] + s[i]]
           step == [p \in (1..n) \X Nat |-> p[2] + s[p[1]]]
           g == CHOOSE h : Whole(h)
<1>1. n \in Nat /\ \A i \in 1..n : s[i] \in Nat
  OBVIOUS
<1>2. step \in [(1..n) \X Nat -> Nat]
  BY <1>1
<1>3. \A i \in 1..n, a \in Nat : step[<<i, a>>] = a + s[i]
  OBVIOUS
<1>4. Total(s) = g[n]
  BY DEF Total
<1> HIDE DEF step, n
<1>5. 0 \in Nat
  OBVIOUS
<1>6. PICK f \in [0..n -> Nat] : Iterates(f, 0, step, n)
  BY <1>1, <1>2, <1>5, Iteration
<1>7. ASSUME NEW i \in 1..n PROVE f[i] = f[i - 1] + s[i]
  <2>1. i - 1 \in 0..n
    BY <1>1
  <2>2. f[i - 1] \in Nat /\ f[i] = step[<<i, f[i - 1]>>]
    BY <1>6, <2>1 DEF Iterates
  <2> QED BY <1>3, <2>2
<1>8. Whole(f)
  BY <1>6, <1>7 DEF Iterates
<1>9. Whole(g)
  BY <1>8
<1> HIDE DEF g
<1>10. g[0] = 0 /\ \A i \in 1..n : g[i] = g[i - 1] + s[i]
  BY <1>1, <1>9
<1> DEFINE Good == {k \in 0..n : g[k] = f[k]}
<1>11. 0 \in Good
  BY <1>1, <1>6, <1>10 DEF Iterates
<1>12. ASSUME NEW k \in 0..(n - 1), k \in Good PROVE k + 1 \in Good
  <2>1. k + 1 \in 1..n /\ (k + 1) - 1 = k /\ k + 1 \in 0..n
    BY <1>1
  <2>2. g[k + 1] = f[k + 1]
    BY <1>7, <1>10, <1>12, <2>1
  <2> QED BY <2>1, <2>2
<1>13. 0..n \subseteq Good
  <2> HIDE DEF Good
  <2> QED BY <1>1, <1>11, <1>12, UpTo
<1>14. g[n] = f[n] /\ f[0] = 0
  BY <1>1, <1>6, <1>13 DEF Iterates
<1> QED BY <1>4, <1>7, <1>14 DEF n

\* A total of n numbers from a to b.
LEMMA TotalBounds ==
  ASSUME NEW s \in Seq(Nat), NEW a \in Nat, NEW b \in Nat, \A i \in 1..Len(s) : a <= s[i] /\ s[i] <= b
  PROVE  /\ Total(s) \in Nat /\ Len(s) * a \in Nat /\ Len(s) * b \in Nat
         /\ Len(s) * a <= Total(s) /\ Total(s) <= Len(s) * b
<1> DEFINE n == Len(s)
<1>1. n \in Nat /\ \A i \in 1..n : s[i] \in Nat /\ a <= s[i] /\ s[i] <= b
  OBVIOUS
<1>2. PICK f \in [0..n -> Nat] : f[0] = 0 /\ (\A i \in 1..n : f[i] = f[i - 1] + s[i]) /\ Total(s) = f[n]
  BY TotalSteps
<1> HIDE DEF n
<1>3. \A k \in Nat : k * a \in Nat /\ k * b \in Nat /\ (k + 1) * a = k * a + a /\ (k + 1) * b = k * b + b
  OBVIOUS
<1>4. 0 * a = 0 /\ 0 * b = 0
  OBVIOUS
<1> DEFINE Good == {k \in 0..n : k * a <= f[k] /\ f[k] <= k * b}
<1>5. 0 \in Good
  BY <1>1, <1>2, <1>4
<1>6. ASSUME NEW k \in 0..(n - 1), k \in Good PROVE k + 1 \in Good
  <2> DEFINE ka == k * a
             kb == k * b
             la == (k + 1) * a
             lb == (k + 1) * b
             e == s[k + 1]
  <2>1. k \in Nat /\ k + 1 \in 1..n /\ (k + 1) - 1 = k /\ k + 1 \in 0..n /\ k \in 0..n
    BY <1>1
  <2>2. ka \in Nat /\ kb \in Nat /\ la = ka + a /\ lb = kb + b
    BY <1>3, <2>1
  <2>3. e \in Nat /\ a <= e /\ e <= b
    BY <1>1, <2>1
  <2>4. f[k] \in Nat /\ f[k + 1] = f[k] + e /\ ka <= f[k] /\ f[k] <= kb
    BY <1>2, <1>6, <2>1
  <2> HIDE DEF ka, kb, la, lb, e
  <2>5. la <= f[k + 1] /\ f[k + 1] <= lb
    BY <2>2, <2>3, <2>4
  <2> QED BY <2>1, <2>5 DEF la, lb
<1>7. 0..n \subseteq Good
  <2> HIDE DEF Good
  <2> QED BY <1>1, <1>5, <1>6, UpTo
<1>8. n \in Good /\ f[n] \in Nat
  BY <1>1, <1>7
<1>9. n * a \in Nat /\ n * b \in Nat
  BY <1>1, <1>3
<1> QED BY <1>2, <1>8, <1>9 DEF n

\* The cells of all parts are counted part by part.
LEMMA TotalLength ==
  ASSUME NEW ss \in Seq(Seq(Nat)), NEW s \in Seq(Nat), Len(s) = Len(ss), \A i \in 1..Len(ss) : s[i] = Len(ss[i])
  PROVE  Total(s) = Len(FlattenSeq(ss))
<1> DEFINE n == Len(ss)
<1>1. n \in Nat /\ Len(s) = n /\ \A i \in 1..n : ss[i] \in Seq(Nat) /\ s[i] = Len(ss[i])
  OBVIOUS
<1>2. PICK f \in [0..n -> Nat] : f[0] = 0 /\ (\A i \in 1..n : f[i] = f[i - 1] + s[i]) /\ Total(s) = f[n]
  BY <1>1, TotalSteps
<1>3. /\ First(ss, 0) = <<>> /\ First(ss, n) = FlattenSeq(ss)
      /\ \A k \in 0..n : First(ss, k) \in Seq(Nat)
      /\ \A k \in 0..(n - 1) : First(ss, k + 1) = First(ss, k) \o ss[k + 1]
  BY FlattenFirst
<1> HIDE DEF n
<1> DEFINE Good == {k \in 0..n : f[k] = Len(First(ss, k))}
<1>4. 0 \in Good
  <2>1. Len(<<>>) = 0
    OBVIOUS
  <2> QED BY <1>1, <1>2, <1>3, <2>1
<1>5. ASSUME NEW k \in 0..(n - 1), k \in Good PROVE k + 1 \in Good
  <2>1. k + 1 \in 1..n /\ (k + 1) - 1 = k /\ k + 1 \in 0..n /\ k \in 0..n
    BY <1>1
  <2>2. First(ss, k) \in Seq(Nat) /\ ss[k + 1] \in Seq(Nat) /\ First(ss, k + 1) = First(ss, k) \o ss[k + 1]
    BY <1>1, <1>3, <2>1
  <2>3. Len(First(ss, k + 1)) = Len(First(ss, k)) + Len(ss[k + 1])
    BY <2>2
  <2>4. f[k + 1] = f[k] + Len(ss[k + 1]) /\ f[k] = Len(First(ss, k))
    BY <1>1, <1>2, <1>5, <2>1
  <2> QED BY <2>1, <2>3, <2>4
<1>6. 0..n \subseteq Good
  <2> HIDE DEF Good
  <2> QED BY <1>1, <1>4, <1>5, UpTo
<1>7. n \in Good
  BY <1>1, <1>6
<1> QED BY <1>2, <1>3, <1>7

\* The members of an index that can be saved.
LEMMA IndexType ==
  ASSUME NEW x, IsIndex(x)
  PROVE  /\ x.dimension \in Nat /\ x.m \in Nat /\ x.efConstruction \in Nat /\ x.efSearch \in Nat
         /\ x.seed \in Nat /\ x.selection \in Nat /\ x.deletedCount \in Nat /\ x.entry \in Nat
         /\ x.maxLevel \in Nat /\ x.random \in Nat
         /\ x.ids \in Seq(Nat) /\ x.vectors \in Seq(Components) /\ x.graph \in Seq(Nodes) /\ x.deleted \in Seq(Nat)
         /\ Len(x.ids) \in Nat /\ Len(x.graph) = Len(x.ids) /\ Len(x.vectors) = Len(x.ids) * x.dimension
         /\ Len(x.ids) <= MaxNodes /\ x.m <= MaxNodes \div 2
<1>1. x \in Indexes /\ Savable(x)
  BY DEF IsIndex
<1> QED BY <1>1 DEF Indexes, Savable

\* The cells of a node.
LEMMA NodeType ==
  ASSUME NEW node \in Nodes
  PROVE  /\ node \in Seq(Seq(Nat)) /\ Len(node) \in Nat /\ Len(node) >= 1
         /\ \A l \in 1..Len(node) : node[l] \in Seq(Nat) /\ Len(node[l]) \in Nat
         /\ ListCells(node) \in Seq(Seq(Nat)) /\ Len(ListCells(node)) = Len(node)
         /\ \A l \in 1..Len(node) : ListCells(node)[l] = <<Len(node[l])>> \o node[l]
         /\ NodeCells(node) = <<Len(node) - 1>> \o FlattenSeq(ListCells(node))
         /\ NodeCells(node) \in Seq(Nat) /\ <<Len(node) - 1>> \in Seq(Nat) /\ FlattenSeq(ListCells(node)) \in Seq(Nat)
<1>2. node \in Seq(Seq(Nat)) /\ node # <<>>
  BY DEF Nodes
<1>3. Len(node) \in Nat /\ Len(node) >= 1 /\ \A l \in 1..Len(node) : node[l] \in Seq(Nat) /\ Len(node[l]) \in Nat
  BY <1>2
<1>4. \A l \in 1..Len(node) : <<Len(node[l])>> \o node[l] \in Seq(Nat)
  BY <1>3
<1>5. /\ ListCells(node) \in Seq(Seq(Nat)) /\ Len(ListCells(node)) = Len(node)
      /\ \A l \in 1..Len(node) : ListCells(node)[l] = <<Len(node[l])>> \o node[l]
  BY <1>3, <1>4 DEF ListCells
<1>6. NodeCells(node) = <<Len(node) - 1>> \o FlattenSeq(ListCells(node))
  BY DEF NodeCells, ListCells
<1>7. FlattenSeq(ListCells(node)) \in Seq(Nat)
  BY <1>5, FlattenType
<1>8. Len(node) - 1 \in Nat
  BY <1>3
<1>9. <<Len(node) - 1>> \in Seq(Nat)
  BY <1>8
<1>10. NodeCells(node) \in Seq(Nat)
  BY <1>6, <1>7, <1>9
<1> QED BY <1>2, <1>3, <1>5, <1>6, <1>7, <1>9, <1>10

LEMMA NodeOf ==
  ASSUME NEW x, IsIndex(x), NEW n \in 1..Len(x.graph)
  PROVE  x.graph[n] \in Nodes /\ NodeCells(x.graph[n]) \in Seq(Nat)
<1>1. x.graph \in Seq(Nodes)
  BY IndexType
<1>2. x.graph[n] \in Nodes
  BY <1>1
<1> QED BY <1>2, NodeType

\* The parts of a file before the node lists.
LEMMA TablesType ==
  ASSUME NEW x, IsIndex(x)
  PROVE  /\ VectorCells(x) \in Seq(Nat) /\ Len(VectorCells(x)) = Len(x.vectors)
         /\ \A c \in 1..Len(x.vectors) : VectorCells(x)[c] = Bits(x.vectors[c]) /\ x.vectors[c] \in Components
         /\ GraphCells(x) \in Seq(Seq(Nat)) /\ Len(GraphCells(x)) = Len(x.graph)
         /\ \A n \in 1..Len(x.graph) : GraphCells(x)[n] = NodeCells(x.graph[n])
         /\ x.ids \o VectorCells(x) \in Seq(Nat)
<1>1. x.vectors \in Seq(Components) /\ x.graph \in Seq(Nodes) /\ x.ids \in Seq(Nat)
  BY IndexType
<1>2. Len(x.vectors) \in Nat /\ Len(x.graph) \in Nat /\ \A c \in 1..Len(x.vectors) : x.vectors[c] \in Components
  BY <1>1
<1>3. \A c \in 1..Len(x.vectors) : Bits(x.vectors[c]) \in Nat
  BY <1>2 DEF Bits, Components
<1>4. /\ VectorCells(x) \in Seq(Nat) /\ Len(VectorCells(x)) = Len(x.vectors)
      /\ \A c \in 1..Len(x.vectors) : VectorCells(x)[c] = Bits(x.vectors[c])
  BY <1>2, <1>3 DEF VectorCells
<1>5. \A n \in 1..Len(x.graph) : NodeCells(x.graph[n]) \in Seq(Nat)
  BY NodeOf
<1>6. /\ GraphCells(x) \in Seq(Seq(Nat)) /\ Len(GraphCells(x)) = Len(x.graph)
      /\ \A n \in 1..Len(x.graph) : GraphCells(x)[n] = NodeCells(x.graph[n])
  BY <1>2, <1>5 DEF GraphCells
<1>7. x.ids \o VectorCells(x) \in Seq(Nat)
  BY <1>1, <1>4, Appended
<1> QED BY <1>2, <1>4, <1>6, <1>7

\* The cells up to each node.
LEMMA NodesSteps ==
  ASSUME NEW x, IsIndex(x)
  PROVE  /\ NodesRead(x, 0) = x.ids \o VectorCells(x)
         /\ \A n \in 0..Len(x.graph) : NodesRead(x, n) \in Seq(Nat)
         /\ \A n \in 0..(Len(x.graph) - 1) : NodesRead(x, n + 1) = NodesRead(x, n) \o NodeCells(x.graph[n + 1])
         /\ \A n \in 0..Len(x.graph) : Begins(NodesRead(x, n), NodesRead(x, Len(x.graph)))
<1> DEFINE g == GraphCells(x)
           t == x.ids \o VectorCells(x)
           N == Len(x.graph)
<1>1. /\ g \in Seq(Seq(Nat)) /\ Len(g) = N /\ \A n \in 1..N : g[n] = NodeCells(x.graph[n])
      /\ t \in Seq(Nat) /\ N \in Nat
  BY TablesType, IndexType
<1>2. \A n \in Nat : NodesRead(x, n) = t \o First(g, n)
  BY DEF NodesRead, First
<1>8. \A n \in 1..N : g[n] \in Seq(Nat)
  BY <1>1
<1> HIDE DEF g, t, N
<1>3. /\ First(g, 0) = <<>> /\ First(g, N) = FlattenSeq(g)
      /\ \A n \in 0..N : First(g, n) \in Seq(Nat)
      /\ \A n \in 0..(N - 1) : First(g, n + 1) = First(g, n) \o g[n + 1]
  BY <1>1, FlattenFirst
<1>4. NodesRead(x, 0) = t
  <2>1. t \o <<>> = t
    BY <1>1
  <2>2. NodesRead(x, 0) = t \o First(g, 0)
    BY <1>2
  <2> QED BY <1>3, <2>1, <2>2
<1>5. ASSUME NEW n \in 0..N PROVE NodesRead(x, n) \in Seq(Nat)
  <2>1. n \in Nat /\ First(g, n) \in Seq(Nat)
    BY <1>1, <1>3
  <2> QED BY <1>1, <1>2, <2>1, Appended
<1>6. ASSUME NEW n \in 0..(N - 1) PROVE NodesRead(x, n + 1) = NodesRead(x, n) \o NodeCells(x.graph[n + 1])
  <2>1. n \in Nat /\ n + 1 \in Nat /\ n \in 0..N /\ n + 1 \in 1..N
    BY <1>1
  <2>2. First(g, n) \in Seq(Nat) /\ g[n + 1] \in Seq(Nat) /\ g[n + 1] = NodeCells(x.graph[n + 1])
    BY <1>1, <1>3, <1>8, <2>1
  <2>3. NodesRead(x, n + 1) = t \o (First(g, n) \o g[n + 1])
    BY <1>2, <1>3, <2>1
  <2>4. (t \o First(g, n)) \o g[n + 1] = t \o (First(g, n) \o g[n + 1])
    BY <1>1, <2>2, Associated
  <2> QED BY <1>2, <2>1, <2>2, <2>3, <2>4
<1>7. ASSUME NEW n \in 0..N PROVE Begins(NodesRead(x, n), NodesRead(x, N))
  <2>1. Begins(First(g, n), First(g, N))
    BY <1>1, <1>3, FirstBegins
  <2>2. First(g, n) \in Seq(Nat) /\ First(g, N) \in Seq(Nat) /\ n \in Nat /\ N \in 0..N
    BY <1>1, <1>3
  <2>3. Begins(t \o First(g, n), t \o First(g, N))
    BY <1>1, <2>1, <2>2, BeginsBehind
  <2> QED BY <1>1, <1>2, <2>2, <2>3
<1> QED BY <1>4, <1>5, <1>6, <1>7 DEF t, N

\* The cells up to each list of a node.
LEMMA ListsSteps ==
  ASSUME NEW x, IsIndex(x), NEW n \in 0..(Len(x.graph) - 1), NEW node, node = x.graph[n + 1]
  PROVE  /\ ListsRead(x, n, 0) = NodesRead(x, n) \o <<Len(node) - 1>>
         /\ \A l \in 0..Len(node) : ListsRead(x, n, l) \in Seq(Nat)
         /\ \A l \in 0..(Len(node) - 1) : ListsRead(x, n, l + 1) = ListsRead(x, n, l) \o (<<Len(node[l + 1])>> \o node[l + 1])
         /\ \A l \in 0..Len(node) : Begins(ListsRead(x, n, l), NodesRead(x, n + 1))
         /\ ListsRead(x, n, Len(node)) = NodesRead(x, n + 1)
<1> DEFINE g == ListCells(node)
           r == NodesRead(x, n)
           h == <<Len(node) - 1>>
           k == Len(node)
<1>1. Len(x.graph) \in Nat /\ n \in 0..Len(x.graph) /\ n + 1 \in 1..Len(x.graph) /\ n + 1 \in Nat
  BY IndexType
<1>2. /\ g \in Seq(Seq(Nat)) /\ Len(g) = k /\ k \in Nat /\ h \in Seq(Nat)
      /\ \A l \in 1..k : g[l] = <<Len(node[l])>> \o node[l]
      /\ NodeCells(node) = h \o FlattenSeq(g)
  <2>1. node \in Nodes
    BY <1>1, NodeOf
  <2> QED BY <2>1, NodeType
<1>3. r \in Seq(Nat) /\ NodesRead(x, n + 1) = r \o NodeCells(node)
  BY <1>1, NodesSteps
<1>4. \A l \in Nat : ListsRead(x, n, l) = r \o (h \o First(g, l))
  BY DEF ListsRead, First
<1>5. \A l \in 1..k : g[l] \in Seq(Nat)
  BY <1>2
<1> HIDE DEF g, r, h, k
<1>6. /\ First(g, 0) = <<>> /\ First(g, k) = FlattenSeq(g)
      /\ \A l \in 0..k : First(g, l) \in Seq(Nat)
      /\ \A l \in 0..(k - 1) : First(g, l + 1) = First(g, l) \o g[l + 1]
  BY <1>2, FlattenFirst
<1>7. ListsRead(x, n, 0) = r \o h
  <2>1. h \o <<>> = h
    BY <1>2
  <2> QED BY <1>4, <1>6, <2>1
<1>8. ASSUME NEW l \in 0..k PROVE h \o First(g, l) \in Seq(Nat) /\ ListsRead(x, n, l) \in Seq(Nat)
  <2>1. l \in Nat /\ First(g, l) \in Seq(Nat)
    BY <1>2, <1>6
  <2>2. h \o First(g, l) \in Seq(Nat)
    BY <1>2, <2>1, Appended
  <2> QED BY <1>3, <1>4, <2>1, <2>2, Appended
<1>9. ASSUME NEW l \in 0..(k - 1)
      PROVE  ListsRead(x, n, l + 1) = ListsRead(x, n, l) \o (<<Len(node[l + 1])>> \o node[l + 1])
  <2>1. l \in Nat /\ l + 1 \in Nat /\ l \in 0..k /\ l + 1 \in 1..k
    BY <1>2
  <2> DEFINE f == First(g, l)
             c == g[l + 1]
  <2>2. f \in Seq(Nat) /\ c \in Seq(Nat) /\ c = <<Len(node[l + 1])>> \o node[l + 1] /\ First(g, l + 1) = f \o c
    BY <1>2, <1>5, <1>6, <2>1
  <2>3. ListsRead(x, n, l) = r \o (h \o f)
    BY <1>4, <2>1
  <2> HIDE DEF f, c
  <2>4. ListsRead(x, n, l + 1) = r \o (h \o (f \o c))
    BY <1>4, <2>1, <2>2
  <2>5. (h \o f) \o c = h \o (f \o c) /\ h \o f \in Seq(Nat)
    <3>1. h \in Seq(Nat)
      BY <1>2
    <3>2. (h \o f) \o c = h \o (f \o c)
      BY <2>2, <3>1, Associated
    <3> QED BY <2>2, <3>1, <3>2, Appended
  <2>6. (r \o (h \o f)) \o c = r \o ((h \o f) \o c)
    BY <1>3, <2>2, <2>5, Associated
  <2> QED BY <2>2, <2>3, <2>4, <2>5, <2>6
<1>10. ListsRead(x, n, k) = NodesRead(x, n + 1)
  BY <1>2, <1>3, <1>4, <1>6
<1>11. ASSUME NEW l \in 0..k PROVE Begins(ListsRead(x, n, l), NodesRead(x, n + 1))
  <2>1. l \in Nat /\ First(g, l) \in Seq(Nat) /\ k \in 0..k /\ First(g, k) \in Seq(Nat)
    BY <1>2, <1>6
  <2>2. Begins(First(g, l), First(g, k))
    BY <1>2, <1>6, FirstBegins
  <2>3. Begins(h \o First(g, l), h \o First(g, k))
    BY <1>2, <2>1, <2>2, BeginsBehind
  <2>4. Begins(r \o (h \o First(g, l)), r \o (h \o First(g, k)))
    BY <1>3, <1>8, <2>1, <2>3, BeginsBehind
  <2> QED BY <1>2, <1>4, <1>10, <2>1, <2>4
<1> QED BY <1>7, <1>8, <1>9, <1>10, <1>11 DEF r, h, k

\* The tombstones and the random state.
LEMMA FlagsType ==
  ASSUME NEW x, IsIndex(x), NEW v \in Versions
  PROVE  /\ Len(x.ids) - x.deletedCount \in Nat /\ <<Len(x.ids) - x.deletedCount>> \o x.deleted \in Seq(Nat)
         /\ x.deletedCount = Cardinality({n \in 1..Len(x.ids) : x.deleted[n] = 1})
         /\ <<1, x.random>> \in Seq(Nat)
         /\ Flags(x, v) \in Seq(Nat) /\ State(x, v) \in Seq(Nat) /\ Trailer(x, v) = Flags(x, v) \o State(x, v)
<1> DEFINE flagged == {n \in 1..Len(x.ids) : x.deleted[n] = 1}
<1>1. x.deleted \in Seq(Nat) /\ x.deletedCount \in Nat /\ x.random \in Nat /\ Len(x.ids) \in Nat /\ Len(x.graph) = Len(x.ids)
  BY IndexType
<1>2. Cardinality(flagged) = x.deletedCount
  BY <1>1 DEF IsIndex, Savable
<1>3. IsFiniteSet(1..Len(x.ids)) /\ flagged \subseteq 1..Len(x.ids)
  <2> DEFINE N == Len(x.ids)
  <2>1. N \in Int
    BY <1>1
  <2> HIDE DEF N
  <2>2. IsFiniteSet(1..N)
    BY <2>1, FS_Interval
  <2> QED BY <2>2 DEF N
<1>4. Cardinality(flagged) <= Cardinality(1..Len(x.ids))
  BY <1>3, FS_Subset
<1>9. Cardinality(1..Len(x.ids)) = Len(x.ids)
  <2> DEFINE N == Len(x.ids)
  <2>1. N \in Nat
    BY <1>1
  <2> HIDE DEF N
  <2>2. Cardinality(1..N) = N
    BY <2>1, FS_Interval
  <2> QED BY <2>2 DEF N
<1>5. Len(x.ids) - x.deletedCount \in Nat
  BY <1>1, <1>2, <1>4, <1>9
<1>6. <<Len(x.ids) - x.deletedCount>> \o x.deleted \in Seq(Nat) /\ <<1, x.random>> \in Seq(Nat) /\ <<>> \in Seq(Nat)
  BY <1>1, <1>5
<1>7. Flags(x, v) \in Seq(Nat) /\ State(x, v) \in Seq(Nat)
  BY <1>6, Zenon DEF Flags, State
<1>8. Trailer(x, v) = Flags(x, v) \o State(x, v)
  BY DEF Trailer, Flags, State
<1> QED BY <1>2, <1>5, <1>6, <1>7, <1>8

\* A file from its parts, which begin it one behind the other.
LEMMA PayloadParts ==
  ASSUME NEW x, IsIndex(x), NEW v \in Versions
  PROVE  /\ Payload(x, v) \in Seq(Nat)
         /\ NodesRead(x, Len(x.graph)) \o Flags(x, v) \in Seq(Nat)
         /\ Payload(x, v) = (NodesRead(x, Len(x.graph)) \o Flags(x, v)) \o State(x, v)
         /\ Begins(x.ids, Payload(x, v)) /\ Begins(x.ids \o VectorCells(x), Payload(x, v))
         /\ \A n \in 0..Len(x.graph) : Begins(NodesRead(x, n), Payload(x, v))
         /\ \A n \in 0..(Len(x.graph) - 1) : \A l \in 0..Len(x.graph[n + 1]) : Begins(ListsRead(x, n, l), Payload(x, v))
         /\ Begins(NodesRead(x, Len(x.graph)) \o Flags(x, v), Payload(x, v))
<1> DEFINE N == Len(x.graph)
           r == NodesRead(x, N)
           a == Flags(x, v)
           b == State(x, v)
           p == Payload(x, v)
<1>1. N \in Nat /\ x.ids \in Seq(Nat)
  BY IndexType
<1>2. r \in Seq(Nat) /\ a \in Seq(Nat) /\ b \in Seq(Nat) /\ Trailer(x, v) = a \o b
  <2>1. N \in 0..N
    BY <1>1
  <2>2. r \in Seq(Nat)
    BY <2>1, NodesSteps
  <2> QED BY <2>2, FlagsType
<1>3. p = r \o Trailer(x, v)
  <2>1. r = x.ids \o VectorCells(x) \o FlattenSeq(GraphCells(x))
    <3>1. GraphCells(x) \in Seq(Seq(Nat)) /\ Len(GraphCells(x)) = N
      BY TablesType
    <3>2. First(GraphCells(x), N) = FlattenSeq(GraphCells(x))
      BY <3>1, FlattenFirst
    <3> QED BY <3>2 DEF NodesRead, First
  <2> HIDE DEF r
  <2>2. p = (x.ids \o VectorCells(x) \o FlattenSeq(GraphCells(x))) \o Trailer(x, v)
    BY DEF Payload, VectorCells, GraphCells
  <2> QED BY <2>1, <2>2
<1> HIDE DEF r, a, b, p
<1>4. p = (r \o a) \o b /\ r \o a \in Seq(Nat) /\ p \in Seq(Nat)
  <2>1. (r \o a) \o b = r \o (a \o b)
    BY <1>2, Associated
  <2>2. r \o a \in Seq(Nat)
    BY <1>2, Appended
  <2>3. (r \o a) \o b \in Seq(Nat)
    BY <1>2, <2>2, Appended
  <2> QED BY <1>2, <1>3, <2>1, <2>2, <2>3
<1>5. Begins(r \o a, p)
  BY <1>2, <1>4, BeginsLonger
<1>6. Begins(r, p)
  BY <1>2, <1>4, <1>5, BeginsPart
<1>7. ASSUME NEW n \in 0..N PROVE NodesRead(x, n) \in Seq(Nat) /\ Begins(NodesRead(x, n), p)
  <2>1. NodesRead(x, n) \in Seq(Nat) /\ Begins(NodesRead(x, n), r)
    BY NodesSteps DEF r
  <2> QED BY <1>2, <1>4, <1>6, <2>1, BeginsThrough
<1>8. ASSUME NEW n \in 0..(N - 1), NEW l \in 0..Len(x.graph[n + 1]) PROVE Begins(ListsRead(x, n, l), p)
  <2>1. n + 1 \in 0..N
    BY <1>1
  <2>2. ListsRead(x, n, l) \in Seq(Nat) /\ Begins(ListsRead(x, n, l), NodesRead(x, n + 1))
    BY ListsSteps
  <2>3. NodesRead(x, n + 1) \in Seq(Nat) /\ Begins(NodesRead(x, n + 1), p)
    BY <1>7, <2>1
  <2> QED BY <1>4, <2>2, <2>3, BeginsThrough
<1>9. Begins(x.ids \o VectorCells(x), p)
  <2>1. 0 \in 0..N /\ NodesRead(x, 0) = x.ids \o VectorCells(x)
    BY <1>1, NodesSteps
  <2> QED BY <1>7, <2>1
<1>10. Begins(x.ids, p)
  <2>1. VectorCells(x) \in Seq(Nat)
    BY TablesType
  <2> QED BY <1>1, <1>4, <1>9, <2>1, BeginsPart
<1> QED BY <1>4, <1>5, <1>7, <1>8, <1>9, <1>10 DEF r, a, b, p, N

\* The cells of a node are as many as its links and its lists, and its level.
LEMMA NodeSize ==
  ASSUME NEW node \in Nodes
  PROVE  /\ Edges(node) \in Nat /\ Len(NodeCells(node)) = 1 + Edges(node)
         /\ \A a \in Nat : (\A l \in 1..Len(node) : Len(node[l]) <= a) =>
               Len(node) <= Edges(node) /\ Edges(node) <= Len(node) * (1 + a)
<1> DEFINE s == [l \in 1..Len(node) |-> 1 + Len(node[l])]
           g == ListCells(node)
           k == Len(node)
           h == <<Len(node) - 1>>
<1>1. /\ k \in Nat /\ g \in Seq(Seq(Nat)) /\ Len(g) = k /\ h \in Seq(Nat) /\ FlattenSeq(g) \in Seq(Nat)
      /\ \A l \in 1..k : node[l] \in Seq(Nat) /\ Len(node[l]) \in Nat /\ g[l] = <<Len(node[l])>> \o node[l]
      /\ NodeCells(node) = h \o FlattenSeq(g)
  BY NodeType
<1>2. s \in Seq(Nat) /\ Len(s) = k /\ \A l \in 1..k : s[l] = 1 + Len(node[l])
  BY <1>1
<1>3. ASSUME NEW l \in 1..k PROVE Len(g[l]) = 1 + Len(node[l])
  <2> DEFINE a == <<Len(node[l])>>
             b == node[l]
  <2>1. a \in Seq(Nat) /\ Len(a) = 1 /\ b \in Seq(Nat) /\ g[l] = a \o b
    BY <1>1
  <2> HIDE DEF a, b, g
  <2>2. Len(a \o b) = Len(a) + Len(b)
    BY <2>1, Appended
  <2> QED BY <2>1, <2>2 DEF b
<1>9. Len(h) = 1
  OBVIOUS
<1>10. Edges(node) = Total(s)
  BY DEF Edges
<1> HIDE DEF s, g, k, h
<1>4. \A l \in 1..Len(g) : s[l] = Len(g[l])
  BY <1>1, <1>2, <1>3
<1>5. Total(s) = Len(FlattenSeq(g))
  BY <1>1, <1>2, <1>4, TotalLength
<1>6. Len(NodeCells(node)) = 1 + Edges(node) /\ Edges(node) \in Nat
  <2>1. Len(h \o FlattenSeq(g)) = Len(h) + Len(FlattenSeq(g))
    BY <1>1, Appended
  <2>2. Len(FlattenSeq(g)) \in Nat
    BY <1>1
  <2> QED BY <1>1, <1>5, <1>9, <1>10, <2>1, <2>2
<1>7. ASSUME NEW a \in Nat, \A l \in 1..k : Len(node[l]) <= a
      PROVE  k <= Edges(node) /\ Edges(node) <= k * (1 + a)
  <2> DEFINE b == 1 + a
  <2>1. b \in Nat /\ 1 \in Nat
    OBVIOUS
  <2>5. ASSUME NEW l \in 1..k PROVE 1 <= s[l] /\ s[l] <= b
    <3>1. s[l] = 1 + Len(node[l]) /\ Len(node[l]) \in Nat /\ Len(node[l]) <= a
      BY <1>1, <1>2, <1>7
    <3> QED BY <3>1
  <2>2. \A l \in 1..Len(s) : 1 <= s[l] /\ s[l] <= b
    BY <1>2, <2>5
  <2> HIDE DEF b
  <2>3. Len(s) * 1 <= Total(s) /\ Total(s) <= Len(s) * b
    BY <1>2, <2>1, <2>2, TotalBounds
  <2>4. k * 1 = k
    BY <1>1
  <2> QED BY <1>2, <1>10, <2>3, <2>4 DEF b
<1> QED BY <1>6, <1>7 DEF k

\* The limits of a list and of a node's levels.
LEMMA NodeLimits ==
  ASSUME NEW x, IsSoundIndex(x), NEW n \in 1..Len(x.graph)
  PROVE  /\ x.graph[n] \in Nodes /\ Len(x.graph[n]) \in Nat
         /\ 1 <= Len(x.graph[n]) /\ Len(x.graph[n]) <= x.maxLevel + 1 /\ Len(x.graph[n]) <= MaxLevel + 1
         /\ \A l \in 1..Len(x.graph[n]) : x.graph[n][l] \in Seq(Nat) /\ Len(x.graph[n][l]) <= 2 * x.m
<1>1. IsIndex(x) /\ Sound(x)
  BY DEF IsSoundIndex
<1>2. x.graph[n] \in Nodes /\ Len(x.graph) = Len(x.ids) /\ x.maxLevel \in Nat /\ x.m \in Nat
  BY <1>1, NodeOf, IndexType
<1>3. Len(x.graph[n]) \in 1..(x.maxLevel + 1) /\ x.maxLevel <= MaxLevel
  BY <1>1, <1>2 DEF Sound
<1>4. /\ Len(x.graph[n]) \in Nat /\ x.graph[n] \in Seq(Seq(Nat))
      /\ \A l \in 1..Len(x.graph[n]) : x.graph[n][l] \in Seq(Nat)
  BY <1>2, NodeType
<1>5. ASSUME NEW l \in 1..Len(x.graph[n]) PROVE Len(x.graph[n][l]) <= 2 * x.m
  <2>1. n \in 1..Len(x.ids) /\ l \in DOMAIN x.graph[n]
    BY <1>2, <1>4
  <2>2. Len(x.graph[n][l]) <= Limit(x, l - 1)
    BY <1>1, <2>1 DEF Sound
  <2>3. Limit(x, l - 1) \in Nat /\ Limit(x, l - 1) <= 2 * x.m
    <3>1. CASE l - 1 = 0
      BY <1>2, <3>1 DEF Limit
    <3>2. CASE l - 1 # 0
      BY <1>2, <3>2 DEF Limit
    <3> QED BY <3>1, <3>2
  <2>4. Len(x.graph[n][l]) \in Nat
    <3>1. x.graph[n][l] \in Seq(Nat)
      BY <1>4
    <3> QED BY <3>1
  <2> QED BY <1>2, <2>2, <2>3, <2>4
<1>6. MaxLevel \in Nat
  BY WordsAssumption
<1> QED BY <1>2, <1>3, <1>4, <1>5, <1>6

\* A product grows with its factors.
LEMMA ProductGrows ==
  ASSUME NEW a \in Nat, NEW b \in Nat, NEW c \in Nat, a <= b
  PROVE  a * c \in Nat /\ b * c \in Nat /\ a * c <= b * c
<1>1. b - a \in Nat
  OBVIOUS
<1>2. (b - a) * c \in Nat /\ a * c \in Nat /\ b * c \in Nat
  BY <1>1
<1>3. (b - a) * c = b * c - a * c
  OBVIOUS
<1> QED BY <1>2, <1>3

\* The cells of the graph are those that payload_bytes counts, and they lie
\* between the bounds of validate_header.
LEMMA GraphSize ==
  ASSUME NEW x, IsSoundIndex(x)
  PROVE  LET graph == FlattenSeq(GraphCells(x))
             one == 1 + (MaxLevel + 1) * (1 + 2 * x.m)
         IN  /\ Len(graph) \in Nat /\ Len(graph) = Total([n \in 1..Len(x.graph) |-> 1 + Edges(x.graph[n])])
             /\ 2 * Len(x.ids) <= Len(graph) /\ Len(graph) <= Len(x.ids) * one /\ Len(x.ids) * one \in Nat
<1> DEFINE g == GraphCells(x)
           N == Len(x.graph)
           s == [n \in 1..N |-> 1 + Edges(x.graph[n])]
           wide == 1 + 2 * x.m
           most == (MaxLevel + 1) * wide
           one == 1 + most
<1>1. IsIndex(x) /\ N \in Nat /\ N = Len(x.ids) /\ x.m \in Nat /\ MaxLevel \in Nat
  BY IndexType, WordsAssumption DEF IsSoundIndex
<1>2. g \in Seq(Seq(Nat)) /\ Len(g) = N /\ \A n \in 1..N : g[n] = NodeCells(x.graph[n])
  BY <1>1, TablesType
<1>3. FlattenSeq(g) \in Seq(Nat) /\ Len(FlattenSeq(g)) \in Nat
  <2>1. FlattenSeq(g) \in Seq(Nat)
    BY <1>2, FlattenType
  <2> QED BY <2>1
<1>4. wide \in Nat /\ MaxLevel + 1 \in Nat
  BY <1>1
<1>5. most \in Nat /\ one \in Nat
  <2> HIDE DEF wide
  <2>1. most \in Nat
    BY <1>4
  <2> HIDE DEF most
  <2> QED BY <2>1
<1>6. ASSUME NEW n \in 1..N
      PROVE  /\ Edges(x.graph[n]) \in Nat /\ Len(NodeCells(x.graph[n])) = 1 + Edges(x.graph[n])
             /\ 1 <= Edges(x.graph[n]) /\ Edges(x.graph[n]) <= most
  <2> DEFINE node == x.graph[n]
             k == Len(node)
  <2>1. /\ node \in Nodes /\ k \in Nat /\ 1 <= k /\ k <= MaxLevel + 1
        /\ \A l \in 1..k : Len(node[l]) <= 2 * x.m
    BY NodeLimits
  <2>2. 2 * x.m \in Nat
    BY <1>1
  <2>3. Edges(node) \in Nat /\ Len(NodeCells(node)) = 1 + Edges(node) /\ k <= Edges(node) /\ Edges(node) <= k * wide
    BY <2>1, <2>2, NodeSize
  <2> HIDE DEF node, k, wide
  <2>4. k * wide \in Nat /\ k * wide <= most
    BY <1>4, <2>1, ProductGrows
  <2> HIDE DEF most
  <2>6. Edges(node) <= most /\ 1 <= Edges(node)
    <3> DEFINE kw == k * wide
    <3>1. kw \in Nat /\ kw <= most /\ Edges(node) <= kw
      BY <2>3, <2>4
    <3> HIDE DEF kw
    <3> QED BY <1>5, <2>1, <2>3, <3>1
  <2> QED BY <2>3, <2>6 DEF node
<1> HIDE DEF g, most
<1>7. s \in Seq(Nat) /\ Len(s) = N /\ \A n \in 1..N : s[n] = 1 + Edges(x.graph[n])
  BY <1>1, <1>6
<1> HIDE DEF s
<1>8. \A n \in 1..Len(g) : s[n] = Len(g[n])
  BY <1>2, <1>6, <1>7
<1>9. Total(s) = Len(FlattenSeq(g))
  BY <1>2, <1>7, <1>8, TotalLength
<1>10. \A n \in 1..Len(s) : 2 <= s[n] /\ s[n] <= one
  BY <1>5, <1>6, <1>7
<1> HIDE DEF one, N
<1>11. Len(s) * 2 <= Total(s) /\ Total(s) <= Len(s) * one /\ Len(s) * one \in Nat
  <2>1. 2 \in Nat
    OBVIOUS
  <2> QED BY <1>5, <1>7, <1>10, <2>1, TotalBounds
<1>12. N * 2 = 2 * N
  BY <1>1
<1>13. /\ Total(s) = Len(FlattenSeq(g)) /\ 2 * N <= Total(s) /\ Total(s) <= N * one /\ N * one \in Nat
  BY <1>7, <1>9, <1>11, <1>12
<1> QED BY <1>1, <1>3, <1>13 DEF g, s, one, most, N

\* The length of a file, and what its header says of it.
LEMMA PayloadLength ==
  ASSUME NEW x, IsSoundIndex(x), NEW v \in Versions
  PROVE  /\ Len(Payload(x, v)) \in Nat
         /\ Len(Payload(x, v)) =
              Len(x.ids) + Len(x.ids) * x.dimension + Len(FlattenSeq(GraphCells(x)))
              + (IF v = 3 THEN 1 + Len(x.ids) ELSE 0) + (IF v >= 2 THEN 2 ELSE 0)
<1> DEFINE N == Len(x.graph)
           r == NodesRead(x, N)
           t == x.ids \o VectorCells(x)
           g == FlattenSeq(GraphCells(x))
           a == Flags(x, v)
           b == State(x, v)
           d == Len(x.ids) * x.dimension
<1>1. IsIndex(x) /\ Sound(x)
  BY DEF IsSoundIndex
<1>2. N \in Nat /\ x.ids \in Seq(Nat) /\ x.deleted \in Seq(Nat) /\ Len(x.vectors) = d /\ x.dimension \in Nat
  BY <1>1, IndexType
<1>3. VectorCells(x) \in Seq(Nat) /\ Len(VectorCells(x)) = Len(x.vectors) /\ Len(GraphCells(x)) = N
      /\ t \in Seq(Nat) /\ GraphCells(x) \in Seq(Seq(Nat))
  BY <1>1, TablesType
<1>4. r = t \o g
  <2>1. First(GraphCells(x), N) = g
    BY <1>3, FlattenFirst
  <2> HIDE DEF g
  <2> QED BY <2>1 DEF NodesRead, First
<1>5. g \in Seq(Nat)
  BY <1>3, FlattenType
<1>6. Len(t) = Len(x.ids) + Len(x.vectors)
  BY <1>2, <1>3, Appended
<1>7. a \in Seq(Nat) /\ b \in Seq(Nat)
  BY <1>1, FlagsType
<1>8. Len(a) = IF v = 3 THEN 1 + Len(x.ids) ELSE 0
  <2>1. Len(x.deleted) = Len(x.ids) /\ Len(x.ids) - x.deletedCount \in Nat
    BY <1>1, FlagsType DEF Sound
  <2> DEFINE c == <<Len(x.ids) - x.deletedCount>>
  <2>2. c \in Seq(Nat) /\ Len(c) = 1
    BY <2>1
  <2> HIDE DEF c
  <2>3. Len(c \o x.deleted) = 1 + Len(x.ids)
    BY <1>2, <2>1, <2>2, Appended
  <2>4. a = IF v = 3 THEN c \o x.deleted ELSE <<>>
    BY DEF Flags, c
  <2> HIDE DEF a
  <2>5. CASE v = 3
    BY <2>3, <2>4, <2>5
  <2>6. CASE v # 3
    BY <2>4, <2>6
  <2> QED BY <2>5, <2>6
<1>9. Len(b) = IF v >= 2 THEN 2 ELSE 0
  BY DEF State, Versions
<1>10. /\ r \o a \in Seq(Nat) /\ Payload(x, v) = (r \o a) \o b
  BY <1>1, PayloadParts
<1> HIDE DEF r, t, g, a, b, d
<1>11. Len(r) = Len(t) + Len(g) /\ r \in Seq(Nat)
  BY <1>3, <1>4, <1>5, Appended
<1>12. Len(r \o a) = Len(r) + Len(a)
  BY <1>7, <1>11, Appended
<1>13. Len(Payload(x, v)) = Len(r) + Len(a) + Len(b)
  BY <1>7, <1>10, <1>12, Appended
<1>14. Len(x.ids) \in Nat /\ Len(g) \in Nat /\ d \in Nat
  BY <1>1, <1>2, <1>5, IndexType
<1>15. Len(Payload(x, v)) = Len(x.ids) + d + Len(g) + Len(a) + Len(b)
  BY <1>2, <1>6, <1>11, <1>13
<1>16. Len(a) \in Nat /\ Len(b) \in Nat
  BY <1>7
<1> QED BY <1>8, <1>9, <1>14, <1>15, <1>16 DEF g, d

\* payload_bytes is the length of what save() writes.
LEMMA WrittenNow ==
  ASSUME NEW x, IsSoundIndex(x)
  PROVE  Written(x) = WrittenBefore(x, 3)
<1> DEFINE d == Len(x.ids) * x.dimension
           t == Total([n \in 1..Len(x.graph) |-> 1 + Edges(x.graph[n])])
<1>1. 3 \in Versions
  BY DEF Versions
<1>2. Len(Payload(x, 3)) = Len(x.ids) + d + Len(FlattenSeq(GraphCells(x))) + (1 + Len(x.ids)) + 2
  BY <1>1, PayloadLength
<1>3. Len(FlattenSeq(GraphCells(x))) = t /\ t \in Nat
  BY GraphSize
<1>4. Len(x.vectors) = d /\ Len(x.ids) \in Nat /\ x.dimension \in Nat
  BY IndexType DEF IsSoundIndex
<1>5. d \in Nat
  BY <1>4
<1>6. PayloadSize(x) = Len(x.ids) + Len(x.vectors) + t + 2 + 1 + Len(x.ids)
  BY DEF PayloadSize
<1> HIDE DEF d, t
<1>7. PayloadSize(x) = Len(Payload(x, 3))
  BY <1>2, <1>3, <1>4, <1>5, <1>6
<1> QED BY <1>7 DEF Written, WrittenBefore

\* The header of a saved index whose largest size fits is valid.
LEMMA WrittenIsValid ==
  ASSUME NEW x, IsSoundIndex(x), Loadable(x), NEW v \in Versions
  PROVE  LET h == WrittenBefore(x, v).header IN ReadableHeader(h) /\ ValidHeader(h, HeaderCells + Len(Payload(x, v)))
<1> DEFINE p == Len(Payload(x, v))
           h == Header(x, v, p)
           c == Len(x.ids)
           d == c * x.dimension
           g == Len(FlattenSeq(GraphCells(x)))
           most == c * (1 + (MaxLevel + 1) * (1 + 2 * x.m))
<1>1. IsIndex(x) /\ Sound(x)
  BY DEF IsSoundIndex
<1>2. /\ c \in Nat /\ x.dimension \in Nat /\ x.m \in Nat /\ x.maxLevel \in Nat
      /\ c <= MaxNodes /\ x.m <= MaxNodes \div 2 /\ x.ids \in Seq(Nat)
  BY <1>1, IndexType
<1>3. /\ x.dimension # 0 /\ x.m >= 2 /\ x.efConstruction >= x.m /\ x.efSearch # 0 /\ x.selection <= 1
      /\ x.maxLevel <= MaxLevel
      /\ c # 0 => x.entry \in 1..c
  <2>1. c # 0 => 1 \in 1..c
    BY <1>2
  <2>2. c # 0 => 1..c # {}
    BY <2>1
  <2> QED BY <1>1, <2>2 DEF Sound
<1>4. WrittenBefore(x, v).header = h
  BY DEF WrittenBefore, File
<1>5. /\ h.format = Format /\ h.version = v /\ h.dimension = x.dimension /\ h.count = c /\ h.m = x.m
      /\ h.efConstruction = x.efConstruction /\ h.efSearch = x.efSearch /\ h.selection = x.selection
      /\ h.maxLevel = (IF x.ids = <<>> THEN 0 ELSE x.maxLevel)
      /\ h.entry = (IF x.ids = <<>> THEN EmptyEntry ELSE x.entry) /\ h.payload = p
  BY DEF Header
<1>6. x.ids = <<>> <=> c = 0
  BY <1>2
<1>7. h # NoHeader
  <2>1. "version" \in DOMAIN h /\ "version" \notin DOMAIN NoHeader
    BY DEF Header, NoHeader
  <2> QED BY <2>1
<1>8. d \in Nat /\ g \in Nat /\ most \in Nat /\ 2 * c <= g /\ g <= most
  <2>1. d \in Nat
    BY <1>2
  <2> QED BY <2>1, GraphSize
<1>9. p \in Nat /\ p = c + d + g + (IF v = 3 THEN 1 + c ELSE 0) + (IF v >= 2 THEN 2 ELSE 0)
  BY PayloadLength
<1>10. /\ MinimumPayload(h) = c + d + 2 * c + (IF v >= 2 THEN 2 ELSE 0) + (IF v = 3 THEN 1 + c ELSE 0)
       /\ MaximumPayload(h) = c + d + most + (IF v >= 2 THEN 1 + MaxRandom ELSE 0) + (IF v = 3 THEN 1 + c ELSE 0)
  <2> HIDE DEF h
  <2> QED BY <1>5 DEF MinimumPayload, MaximumPayload, CheckedMultiply
<1>11. c + d + most + (1 + MaxRandom) + (1 + c) <= MaxWord
  <2> DEFINE k == Header(x, 3, 0)
  <2>1. k.version = 3 /\ k.dimension = x.dimension /\ k.count = c /\ k.m = x.m
    BY DEF Header
  <2>2. MaximumPayload(k) <= MaxWord
    BY DEF Loadable
  <2> HIDE DEF k
  <2>3. MaximumPayload(k) = c + d + most + (1 + MaxRandom) + (1 + c)
    BY <2>1 DEF MaximumPayload, CheckedMultiply
  <2> QED BY <2>2, <2>3
<1> HIDE DEF h, p, d, g, most, c
<1>12. MaxRandom \in Nat /\ MaxRandom >= 1 /\ MaxWord \in Nat /\ MaxLevel \in Nat /\ MaxNodes \in Nat
  BY WordsAssumption
<1>13. v \in Nat /\ v \in {1, 2, 3}
  BY DEF Versions
<1>14. MaximumPayload(h) <= MaxWord /\ MinimumPayload(h) <= p /\ p <= MaximumPayload(h)
       /\ MinimumPayload(h) \in Nat /\ MaximumPayload(h) \in Nat
  BY <1>2, <1>8, <1>9, <1>10, <1>11, <1>12, <1>13
<1>15. ReadableHeader(h)
  BY <1>5, <1>7 DEF ReadableHeader
<1>16. IF h.count = 0 THEN h.entry = EmptyEntry /\ h.maxLevel = 0 ELSE h.entry \in 1..h.count
  BY <1>3, <1>5, <1>6
<1>17. h.maxLevel <= MaxLevel
  BY <1>3, <1>5, <1>12
<1>18. ValidHeader(h, HeaderCells + p)
  BY <1>2, <1>3, <1>5, <1>9, <1>14, <1>16, <1>17 DEF ValidHeader
<1> QED BY <1>4, <1>15, <1>18 DEF h, p

-----------------------------------------------------------------------------
(* The loader on its way through the file of a saved index *)

\* What a part of a file changes at most: the load is given up, or more cells
\* have been read.
Kept ==
    load'.inode = load.inode /\ load'.header = load.header /\ load'.sum = load.sum /\ load'.clean = load.clean
Advances ==
    \/ load'.phase = "rejected" /\ load'.clean = load.clean /\ load'.sum = <<>>
    \/ load'.phase \in Reading /\ Kept /\ \E cells \in Seq(Nat) : load'.read = load.read \o cells

\* If the new cells are those of x, the loader has its next part; and if the
\* file is that of x, they are.
Agrees(x, v) ==
    /\ load'.phase # "rejected" /\ Begins(load'.read, Payload(x, v)) => At(x, v)'
    /\ files[load.inode].payload = Payload(x, v) => load'.phase # "rejected" /\ Begins(load'.read, Payload(x, v))

LEMMA FollowedHeader ==
  ASSUME NEW x, IsSoundIndex(x), NEW v \in Versions, load.header = WrittenBefore(x, v).header
  PROVE  LET h == load.header IN
         /\ h.version = v /\ h.dimension = x.dimension /\ h.count = Len(x.ids) /\ h.m = x.m
         /\ h.efConstruction = x.efConstruction /\ h.efSearch = x.efSearch /\ h.seed = x.seed
         /\ h.selection = x.selection /\ h.payload = Len(Payload(x, v))
         /\ h.maxLevel = x.maxLevel /\ (Len(x.ids) # 0 => h.entry = x.entry)
         /\ (Len(x.ids) = 0 => x.entry = 0 /\ x.maxLevel = 0)
<1>1. load.header = Header(x, v, Len(Payload(x, v)))
  BY DEF WrittenBefore, File
<1>2. x.ids \in Seq(Nat) /\ Len(x.ids) \in Nat /\ (x.ids = <<>> <=> Len(x.ids) = 0)
  BY IndexType DEF IsSoundIndex
<1>3. Len(x.ids) = 0 => 1..Len(x.ids) = {}
  OBVIOUS
<1>4. Len(x.ids) = 0 => x.entry = 0 /\ x.maxLevel = 0
  BY <1>3 DEF IsSoundIndex, Sound
<1> QED BY <1>1, <1>2, <1>4 DEF Header

\* The cells that are read are the next part of p, and can be if the file is p.
LEMMA NextCells ==
  ASSUME FilesAreTyped, LoadIsTyped, load.inode \in Inodes, NEW p \in Seq(Nat), NEW c \in Seq(Nat),
         Begins(load.read \o c, p), NEW n, n = Len(c)
  PROVE  /\ files[load.inode].payload = p => Available(n) /\ Ahead(n) = c /\ Begins(load.read \o Ahead(n), p)
         /\ Available(n) /\ Begins(load.read \o Ahead(n), p) => Ahead(n) = c
<1> DEFINE r == load.read
           q == files[load.inode].payload
<1>1. r \in Seq(Nat) /\ q \in Seq(Nat) /\ n \in Nat
  BY FileType DEF FilesAreTyped, LoadIsTyped, IsLoad
<1>2. Begins(r, p)
  BY <1>1, BeginsPart
<1>3. ASSUME q = p PROVE Available(n) /\ Ahead(n) = c /\ Begins(r \o Ahead(n), p)
  <2>1. Len(r) + Len(c) <= Len(p) /\ SubSeq(p, Len(r) + 1, Len(r) + Len(c)) = c
    BY <1>1, <1>2, ReadPart
  <2>2. Available(n)
    BY <1>3, <2>1 DEF Available
  <2>3. Ahead(n) = c
    BY <1>3, <2>1 DEF Ahead
  <2> QED BY <2>2, <2>3
<1>4. ASSUME Available(n), Begins(r \o Ahead(n), p) PROVE Ahead(n) = c
  <2> DEFINE d == Ahead(n)
  <2>1. d \in Seq(Nat) /\ Len(d) = n
    BY <1>1, <1>4, AheadType
  <2> HIDE DEF d, r
  <2>2. Begins(r \o d, p) /\ Begins(r \o c, p)
    BY <1>4 DEF d, r
  <2>3. Len(d) <= Len(c) /\ Len(d) = Len(c)
    BY <1>1, <2>1
  <2>4. d = c
    BY <1>1, <2>1, <2>2, <2>3, NextPart
  <2> QED BY <2>4 DEF d
<1> QED BY <1>3, <1>4

\* A part that is accepted, or not.
LEMMA AcceptedPart ==
  ASSUME IsLoad(load), NEW cells \in Seq(Nat), NEW next, NEW y, Accept(cells, next, y)
  PROVE  /\ load'.phase = next /\ load'.read = load.read \o cells /\ index' = y /\ Kept
         /\ load'.layers = load.layers /\ load'.level = load.level
<1> DEFINE read == load.read \o cells
           new == [phase |-> next, inode |-> load.inode, header |-> load.header, sum |-> load.sum, read |-> read,
                   layers |-> load.layers, level |-> load.level, links |-> load.links, clean |-> load.clean]
<1>1. load' = [load EXCEPT !.read = read, !.phase = next] /\ index' = y
  BY DEF Accept
<1> HIDE DEF read
<1>2. load' = new
  BY <1>1, LoadType
<1> QED BY <1>1, <1>2 DEF Kept, read

LEMMA RejectedPart ==
  ASSUME Reject
  PROVE  load'.phase = "rejected" /\ load'.clean = load.clean /\ load'.sum = <<>> /\ load'.read = <<>> /\ Advances
<1>1. load' = [NoLoad EXCEPT !.phase = "rejected", !.clean = load.clean]
  BY DEF Reject
<1>2. load' = [phase |-> "rejected", inode |-> 0, header |-> NoHeader, sum |-> <<>>, read |-> <<>>,
               layers |-> <<>>, level |-> 0, links |-> 0, clean |-> load.clean]
  BY <1>1 DEF NoLoad
<1>3. load'.phase = "rejected" /\ load'.clean = load.clean /\ load'.sum = <<>> /\ load'.read = <<>>
  BY <1>2
<1> QED BY <1>3 DEF Advances

LEMMA AcceptedAdvances ==
  ASSUME IsLoad(load), NEW cells \in Seq(Nat), NEW next \in Reading, NEW y, Accept(cells, next, y)
  PROVE  Advances
BY AcceptedPart DEF Advances

\* What the proofs about a step need of the loader that follows the file of x.
LEMMA Following ==
  ASSUME FilesAreTyped, LoaderIInv, NEW x, IsSoundIndex(x), NEW v \in Versions, Follows(x, v)
  PROVE  /\ LoadIsTyped /\ IsLoad(load) /\ load.inode \in Inodes /\ load.read \in Seq(Nat)
         /\ Payload(x, v) \in Seq(Nat) /\ load.header = WrittenBefore(x, v).header
         /\ IsIndex(x) /\ Sound(x) /\ Len(x.ids) \in Nat
<1>1. LoadIsTyped /\ IsLoad(load) /\ load.inode \in Inodes
  BY DEF LoaderIInv, LoadIsTyped, Follows, Reading, Sized
<1>2. load.read \in Seq(Nat)
  BY <1>1, LoadType
<1>3. IsIndex(x) /\ Sound(x)
  BY DEF IsSoundIndex
<1>4. Payload(x, v) \in Seq(Nat) /\ Len(x.ids) \in Nat
  BY <1>3, PayloadType, IndexType
<1> QED BY <1>1, <1>2, <1>3, <1>4 DEF Follows

LEMMA ReadIdsAgrees ==
  ASSUME FilesAreTyped, LoaderIInv, NEW x, IsSoundIndex(x), NEW v \in Versions, Follows(x, v), At(x, v), ReadIds
  PROVE  Agrees(x, v)
<1> DEFINE p == Payload(x, v)
           n == load.header.count
           cells == Ahead(n)
           y == [index EXCEPT !.ids = cells]
           Right == Available(n) /\ IsInjective(cells)
<1>1. /\ LoadIsTyped /\ IsLoad(load) /\ load.inode \in Inodes /\ load.read \in Seq(Nat)
      /\ p \in Seq(Nat) /\ IsIndex(x) /\ Sound(x)
  BY Following
<1>2. n = Len(x.ids) /\ x.ids \in Seq(Nat) /\ n \in Nat
  BY <1>1, Following, FollowedHeader, IndexType
<1>3. load.phase = "ids" /\ load.read = <<>> /\ index = Built(x, <<>>, <<>>, <<>>, NoneDeleted(x), 0, x.seed)
  BY DEF ReadIds, At, AtIds
<1>4. Begins(load.read \o x.ids, p)
  <2>1. <<>> \o x.ids = x.ids
    BY <1>2
  <2> QED BY <1>1, <1>3, <2>1, PayloadParts
<1>11. IF Right THEN Accept(cells, "vectors", y) ELSE Reject
  BY DEF ReadIds, Declared
<1> HIDE DEF p
<1>5. /\ files[load.inode].payload = p => Available(n) /\ cells = x.ids /\ Begins(load.read \o cells, p)
      /\ Available(n) /\ Begins(load.read \o cells, p) => cells = x.ids
  BY <1>1, <1>2, <1>4, NextCells
<1>6. IsInjective(x.ids)
  BY <1>1 DEF Sound
<1>7. CASE ~Right
  <2>1. load'.phase = "rejected"
    BY <1>7, <1>11, RejectedPart
  <2>2. files[load.inode].payload # p
    BY <1>5, <1>6, <1>7
  <2> QED BY <2>1, <2>2 DEF Agrees, p
<1>8. CASE Right
  <2>1. cells \in Seq(Nat)
    BY <1>1, <1>2, <1>8, AheadType
  <2>2. load'.phase = "vectors" /\ load'.read = load.read \o cells /\ index' = y
    BY <1>1, <1>8, <1>11, <2>1, AcceptedPart
  <2>3. ASSUME Begins(load'.read, p) PROVE At(x, v)'
    <3>1. cells = x.ids
      BY <1>5, <1>8, <2>2, <2>3
    <3>2. load'.read = x.ids
      BY <1>2, <1>3, <2>2, <3>1
    <3>3. y = [index EXCEPT !.ids = x.ids]
      BY <3>1
    <3> HIDE DEF y, cells
    <3>4. index' = Built(x, x.ids, <<>>, <<>>, NoneDeleted(x), 0, x.seed)
      BY <1>3, <2>2, <3>3 DEF Built
    <3> QED BY <2>2, <3>2, <3>4 DEF At, AtVectors
  <2> QED BY <1>5, <2>2, <2>3 DEF Agrees, p
<1> QED BY <1>7, <1>8

LEMMA ReadVectorsAgrees ==
  ASSUME FilesAreTyped, LoaderIInv, NEW x, IsSoundIndex(x), NEW v \in Versions, Follows(x, v), At(x, v), ReadVectors
  PROVE  Agrees(x, v)
<1> DEFINE p == Payload(x, v)
           c == load.header.count
           d == load.header.dimension
           n == c * d
           cells == Ahead(n)
           values == [i \in 1..n |-> Float(cells[i])]
           y == [index EXCEPT !.vectors = values]
           Unit == \A k \in 1..c : SquaredNorm(Row(values, k, d)) = 1
<1>1. /\ LoadIsTyped /\ IsLoad(load) /\ load.inode \in Inodes /\ load.read \in Seq(Nat)
      /\ p \in Seq(Nat) /\ IsIndex(x) /\ Sound(x)
  BY Following
<1>2. c = Len(x.ids) /\ d = x.dimension
  BY Following, FollowedHeader
<1>13. x.ids \in Seq(Nat) /\ Len(x.vectors) = Len(x.ids) * x.dimension /\ x.vectors \in Seq(Components)
  BY <1>1, IndexType
<1>14. n = Len(x.vectors) /\ n \in Nat
  BY <1>2, <1>13
<1>12. /\ VectorCells(x) \in Seq(Nat) /\ Len(VectorCells(x)) = Len(x.vectors)
       /\ \A i \in 1..Len(x.vectors) : VectorCells(x)[i] = Bits(x.vectors[i]) /\ x.vectors[i] \in Components
  BY <1>1, TablesType
<1>3. load.phase = "vectors" /\ load.read = x.ids /\ index = Built(x, x.ids, <<>>, <<>>, NoneDeleted(x), 0, x.seed)
  BY DEF ReadVectors, At, AtVectors
<1>4. Begins(load.read \o VectorCells(x), p)
  BY <1>1, <1>3, PayloadParts
<1>11. IF Available(n) THEN IF Unit THEN Accept(cells, "node", y) ELSE Reject ELSE Reject
  BY DEF ReadVectors, Declared
<1> HIDE DEF p, n
<1>5. /\ files[load.inode].payload = p => Available(n) /\ cells = VectorCells(x) /\ Begins(load.read \o cells, p)
      /\ Available(n) /\ Begins(load.read \o cells, p) => cells = VectorCells(x)
  BY <1>1, <1>4, <1>12, <1>14, NextCells
<1>6. ASSUME cells = VectorCells(x) PROVE values = x.vectors /\ Unit
  <2>1. \A i \in 1..n : Float(cells[i]) = x.vectors[i]
    BY <1>6, <1>12, <1>14 DEF Float, Bits, Components
  <2>2. x.vectors = [i \in 1..n |-> x.vectors[i]]
    BY <1>13, <1>14
  <2>3. values = [i \in 1..n |-> x.vectors[i]]
    BY <2>1
  <2>4. values = x.vectors
    BY <2>2, <2>3
  <2> HIDE DEF values
  <2> QED BY <1>1, <1>2, <2>4 DEF Sound
<1>7. CASE ~(Available(n) /\ Unit)
  <2>3. Reject
    BY <1>7, <1>11
  <2>1. load'.phase = "rejected"
    BY <2>3, RejectedPart
  <2>2. files[load.inode].payload # p
    BY <1>5, <1>6, <1>7
  <2> QED BY <2>1, <2>2 DEF Agrees, p
<1>8. CASE Available(n) /\ Unit
  <2>1. cells \in Seq(Nat)
    BY <1>1, <1>8, <1>14, AheadType
  <2>4. Accept(cells, "node", y)
    BY <1>8, <1>11
  <2> HIDE DEF Unit
  <2>2. load'.phase = "node" /\ load'.read = load.read \o cells /\ index' = y
    BY <1>1, <2>1, <2>4, AcceptedPart
  <2>3. ASSUME Begins(load'.read, p) PROVE At(x, v)'
    <3>1. cells = VectorCells(x)
      BY <1>5, <1>8, <2>2, <2>3
    <3>2. load'.read = NodesRead(x, 0)
      BY <1>1, <1>3, <2>2, <3>1, NodesSteps
    <3>3. y = [index EXCEPT !.vectors = x.vectors]
      BY <1>6, <3>1
    <3> HIDE DEF y, cells, values
    <3>5. SubSeq(x.graph, 1, 0) = <<>>
      BY <1>1, IndexType
    <3>4. index' = BuiltTo(x, 0)
      BY <1>3, <2>2, <3>3, <3>5 DEF Built, BuiltTo
    <3>6. 0 \in 0..Len(x.graph)
      BY <1>1, IndexType
    <3>7. AtNode(x, 0)'
      BY <3>2, <3>4 DEF AtNode
    <3> QED BY <2>2, <3>6, <3>7 DEF At
  <2> QED BY <1>5, <2>2, <2>3 DEF Agrees, p
<1> QED BY <1>7, <1>8

\* The first nodes of a graph, and the first lists of a node.
LEMMA FirstPart ==
  ASSUME NEW S, NEW s \in Seq(S)
  PROVE  /\ \A n \in 0..Len(s) : SubSeq(s, 1, n) \in Seq(S) /\ Len(SubSeq(s, 1, n)) = n
         /\ \A n \in 0..(Len(s) - 1) : Append(SubSeq(s, 1, n), s[n + 1]) = SubSeq(s, 1, n + 1)
         /\ SubSeq(s, 1, 0) = <<>> /\ SubSeq(s, 1, Len(s)) = s
<1>1. Len(s) \in Nat /\ \A i \in 1..Len(s) : s[i] \in S
  OBVIOUS
<1>2. ASSUME NEW n \in 0..Len(s)
      PROVE  SubSeq(s, 1, n) \in Seq(S) /\ Len(SubSeq(s, 1, n)) = n /\ \A i \in 1..n : SubSeq(s, 1, n)[i] = s[i]
  BY <1>1
<1>3. ASSUME NEW n \in 0..(Len(s) - 1) PROVE Append(SubSeq(s, 1, n), s[n + 1]) = SubSeq(s, 1, n + 1)
  <2> DEFINE a == SubSeq(s, 1, n)
             b == SubSeq(s, 1, n + 1)
             c == Append(a, s[n + 1])
  <2>1. n \in 0..Len(s) /\ n + 1 \in 0..Len(s) /\ n + 1 \in 1..Len(s) /\ n \in Nat
    BY <1>1
  <2>2. a \in Seq(S) /\ Len(a) = n /\ \A i \in 1..n : a[i] = s[i]
    BY <1>2, <2>1
  <2>3. b \in Seq(S) /\ Len(b) = n + 1 /\ \A i \in 1..(n + 1) : b[i] = s[i]
    BY <1>2, <2>1
  <2>4. s[n + 1] \in S
    BY <1>1, <2>1
  <2> HIDE DEF a, b
  <2>5. c \in Seq(S) /\ Len(c) = n + 1 /\ c[n + 1] = s[n + 1] /\ \A i \in 1..n : c[i] = a[i]
    BY <2>1, <2>2, <2>4
  <2> HIDE DEF c
  <2>6. \A i \in 1..(n + 1) : c[i] = b[i]
    <3> TAKE i \in 1..(n + 1)
    <3>1. i = n + 1 \/ i \in 1..n
      BY <2>1
    <3> QED BY <2>2, <2>3, <2>5, <3>1
  <2>7. c = b
    BY <2>3, <2>5, <2>6, SameSequence
  <2> QED BY <2>7 DEF a, b, c
<1>4. SubSeq(s, 1, 0) = <<>>
  OBVIOUS
<1>5. SubSeq(s, 1, Len(s)) = s
  <2> DEFINE t == SubSeq(s, 1, Len(s))
  <2>1. Len(s) \in 0..Len(s)
    BY <1>1
  <2>2. t \in Seq(S) /\ Len(t) = Len(s) /\ \A i \in 1..Len(s) : t[i] = s[i]
    BY <1>2, <2>1
  <2> HIDE DEF t
  <2>3. t = s
    BY <2>2, SameSequence
  <2> QED BY <2>3 DEF t
<1> QED BY <1>2, <1>3, <1>4, <1>5

LEMMA ReadLevelAgrees ==
  ASSUME FilesAreTyped, LoaderIInv, NEW x, IsSoundIndex(x), NEW v \in Versions, Follows(x, v), At(x, v), ReadLevel
  PROVE  Agrees(x, v) /\ Advances
<1> DEFINE p == Payload(x, v)
           cells == Ahead(1)
           Right == Available(1) /\ cells[1] <= MaxLevel /\ cells[1] <= load.header.maxLevel
<1>1. /\ LoadIsTyped /\ IsLoad(load) /\ load.inode \in Inodes /\ load.read \in Seq(Nat)
      /\ p \in Seq(Nat) /\ IsIndex(x) /\ Sound(x)
  BY Following
<1>2. load.header.count = Len(x.ids) /\ load.header.maxLevel = x.maxLevel
  BY Following, FollowedHeader
<1>13. x.graph \in Seq(Nodes) /\ Len(x.graph) = Len(x.ids) /\ Len(x.ids) \in Nat /\ x.maxLevel \in Nat
  BY <1>1, IndexType
<1>14. load.phase = "node" /\ Len(index.graph) < load.header.count
  BY DEF ReadLevel, Declared
<1>3. PICK n \in 0..Len(x.graph) : load.read = NodesRead(x, n) /\ index = BuiltTo(x, n)
  BY <1>14 DEF At, AtNode
<1>15. n \in 0..(Len(x.graph) - 1) /\ n + 1 \in 1..Len(x.graph)
  <2>1. index.graph = SubSeq(x.graph, 1, n)
    BY <1>3 DEF BuiltTo, Built
  <2>2. Len(SubSeq(x.graph, 1, n)) = n
    BY <1>13, FirstPart
  <2> QED BY <1>2, <1>13, <1>14, <2>1, <2>2
<1> DEFINE node == x.graph[n + 1]
           c == <<Len(node) - 1>>
<1>16. node \in Nodes /\ Len(node) \in Nat /\ 1 <= Len(node) /\ Len(node) <= x.maxLevel + 1 /\ Len(node) <= MaxLevel + 1
  BY <1>15, NodeLimits
<1>17. c \in Seq(Nat) /\ Len(c) = 1 /\ c[1] = Len(node) - 1 /\ ListsRead(x, n, 0) = load.read \o c
  <2>1. ListsRead(x, n, 0) = NodesRead(x, n) \o <<Len(node) - 1>>
    BY <1>1, <1>15, ListsSteps
  <2>2. Len(node) - 1 \in Nat
    BY <1>16
  <2> HIDE DEF node
  <2> QED BY <1>3, <2>1, <2>2
<1>4. Begins(load.read \o c, p)
  <2>1. 0 \in 0..Len(node)
    BY <1>16
  <2>2. Begins(ListsRead(x, n, 0), p)
    BY <1>1, <1>15, <2>1, PayloadParts
  <2> QED BY <1>17, <2>2
<1>11. IF Right THEN /\ load' = [load EXCEPT !.read = @ \o cells, !.phase = "layer", !.level = cells[1], !.layers = <<>>]
                     /\ index' = index
       ELSE Reject
  BY DEF ReadLevel, Declared
<1> HIDE DEF p, c, node
<1>5. /\ files[load.inode].payload = p => Available(1) /\ cells = c /\ Begins(load.read \o cells, p)
      /\ Available(1) /\ Begins(load.read \o cells, p) => cells = c
  BY <1>1, <1>4, <1>17, NextCells
<1>7. CASE ~Right
  <2>1. load'.phase = "rejected" /\ Advances
    BY <1>7, <1>11, RejectedPart
  <2>3. cells = c => cells[1] <= MaxLevel /\ cells[1] <= x.maxLevel
    BY <1>13, <1>16, <1>17, WordsAssumption
  <2>2. files[load.inode].payload # p
    BY <1>2, <1>5, <1>7, <2>3
  <2> QED BY <2>1, <2>2 DEF Agrees, p
<1>8. CASE Right
  <2>1. cells \in Seq(Nat)
    <3>1. 1 \in Nat
      OBVIOUS
    <3> QED BY <1>1, <1>8, <3>1, AheadType
  <2> DEFINE read == load.read \o cells
  <2>2. load' = [load EXCEPT !.read = read, !.phase = "layer", !.level = cells[1], !.layers = <<>>] /\ index' = index
    BY <1>8, <1>11
  <2> HIDE DEF read
  <2>4. load' = [phase |-> "layer", inode |-> load.inode, header |-> load.header, sum |-> load.sum, read |-> read,
                 layers |-> <<>>, level |-> cells[1], links |-> load.links, clean |-> load.clean]
    BY <1>1, <2>2, LoadType
  <2>5. load'.phase = "layer" /\ load'.read = read /\ load'.level = cells[1] /\ load'.layers = <<>> /\ Kept
    BY <2>4 DEF Kept
  <2>6. Advances
    BY <2>1, <2>5 DEF Advances, Reading, Sized, read
  <2>3. ASSUME Begins(load'.read, p) PROVE At(x, v)'
    <3>1. cells = c
      BY <1>5, <1>8, <2>3, <2>5 DEF read
    <3>2. load'.read = ListsRead(x, n, 0) /\ load'.level = Len(node) - 1
      BY <1>17, <2>5, <3>1 DEF read
    <3>3. SubSeq(node, 1, 0) = <<>>
      <4>1. node \in Seq(Seq(Nat))
        BY <1>16, NodeType
      <4> QED BY <4>1, FirstPart
    <3>4. 0 \in 0..(Len(node) - 1)
      BY <1>16
    <3>5. AtLayer(x, n, 0)'
      BY <1>3, <2>2, <2>5, <3>2, <3>3 DEF AtLayer, node
    <3> QED BY <1>15, <2>5, <3>4, <3>5 DEF At, node
  <2> QED BY <1>5, <2>3, <2>5, <2>6 DEF Agrees, p, read
<1> QED BY <1>7, <1>8

\* The list that is read next, within the limits that load() checks.
LEMMA ListLimits ==
  ASSUME NEW x, IsSoundIndex(x), NEW n \in 1..Len(x.graph), NEW l \in 1..Len(x.graph[n])
  PROVE  LET list == x.graph[n][l] IN
         /\ IsInjective(list) /\ list \in Seq(Nat) /\ Len(list) \in Nat
         /\ Len(list) <= (IF l - 1 = 0 THEN 2 ELSE 1) * x.m /\ Len(list) < Len(x.ids)
         /\ \A e \in DOMAIN list : list[e] \in 1..Len(x.ids) /\ list[e] # n
<1> DEFINE list == x.graph[n][l]
           N == Len(x.ids)
<1>1. IsIndex(x) /\ Sound(x)
  BY DEF IsSoundIndex
<1>2. N \in Nat /\ Len(x.graph) = N /\ x.m \in Nat
  BY <1>1, IndexType
<1>3. list \in Seq(Nat) /\ Len(x.graph[n]) \in Nat /\ x.graph[n] \in Seq(Seq(Nat))
  <2>1. x.graph[n] \in Nodes
    BY NodeLimits
  <2> QED BY <2>1, NodeType
<1>4. n \in 1..N /\ l \in DOMAIN x.graph[n] /\ l \in Nat
  BY <1>2, <1>3
<1>5. IsInjective(list) /\ Len(list) <= Limit(x, l - 1) /\ \A e \in DOMAIN list : list[e] \in (1..N) \ {n}
  BY <1>1, <1>4 DEF Sound
<1>6. Len(list) <= (IF l - 1 = 0 THEN 2 ELSE 1) * x.m
  <2>1. CASE l - 1 = 0
    BY <1>2, <1>5, <2>1 DEF Limit
  <2>2. CASE l - 1 # 0
    BY <1>2, <1>5, <2>2 DEF Limit
  <2> QED BY <2>1, <2>2
<1> HIDE DEF list, N
<1>7. Len(list) < N
  <2> DEFINE others == (1..N) \ {n}
  <2>1. Len(list) \in Nat /\ DOMAIN list = 1..Len(list)
    BY <1>3
  <2>8. \A e \in 1..Len(list) : list[e] \in others
    BY <1>5, <2>1
  <2>9. list = [e \in 1..Len(list) |-> list[e]]
    BY <1>3
  <2> HIDE DEF others
  <2>10. [e \in 1..Len(list) |-> list[e]] \in Seq(others)
    BY <2>1, <2>8
  <2>2. list \in Seq(others)
    BY <2>9, <2>10
  <2>3. IsFiniteSet(1..N) /\ Cardinality(1..N) = N
    BY <1>2, FS_Interval
  <2>4. IsFiniteSet(others) /\ Cardinality(others) = N - 1
    BY <1>4, <2>3, FS_RemoveElement DEF others
  <2>5. Distinct(list)
    BY <1>5, <2>1 DEF Distinct, IsInjective
  <2>6. Cardinality(ToSet(list)) = Len(list)
    BY <2>2, <2>5, DistinctCount
  <2>11. ToSet(list) \subseteq others
    BY <2>1, <2>8 DEF ToSet
  <2>7. Cardinality(ToSet(list)) <= Cardinality(others)
    BY <2>4, <2>11, FS_Subset
  <2> QED BY <1>2, <2>1, <2>4, <2>6, <2>7
<1> QED BY <1>3, <1>5, <1>6, <1>7 DEF list, N

\* The first cell that follows a in p.
LEMMA FirstNext ==
  ASSUME NEW a \in Seq(Nat), NEW c \in Seq(Nat), NEW p \in Seq(Nat), Begins(a \o c, p), Len(c) >= 1
  PROVE  Len(a) + 1 <= Len(p) /\ p[Len(a) + 1] = c[1]
<1>1. /\ Len(a \o c) = Len(a) + Len(c) /\ \A i \in 1..Len(c) : (a \o c)[Len(a) + i] = c[i]
      /\ Len(a) \in Nat /\ Len(c) \in Nat /\ Len(p) \in Nat
  BY Joined
<1>2. Len(a \o c) <= Len(p) /\ \A i \in 1..Len(a \o c) : (a \o c)[i] = p[i]
  BY DEF Begins
<1>3. 1 \in 1..Len(c) /\ Len(a) + 1 \in 1..Len(a \o c)
  BY <1>1
<1>4. p[Len(a) + 1] = c[1]
  BY <1>1, <1>2, <1>3
<1>5. Len(a) + 1 <= Len(p)
  BY <1>1, <1>2
<1> QED BY <1>4, <1>5

\* The first of the cells that are read.
LEMMA FirstAhead ==
  ASSUME FilesAreTyped, LoadIsTyped, load.inode \in Inodes, NEW n \in Nat, n >= 1, Available(n)
  PROVE  /\ Available(1) /\ Ahead(1)[1] = Ahead(n)[1]
         /\ Ahead(n)[1] = files[load.inode].payload[Len(load.read) + 1]
<1> DEFINE q == files[load.inode].payload
           r == Len(load.read)
<1>1. q \in Seq(Nat) /\ r \in Nat /\ r + n <= Len(q)
  BY FileType DEF FilesAreTyped, LoadIsTyped, IsLoad, Available
<1>2. r + 1 <= Len(q) /\ 1 \in Nat
  BY <1>1
<1> HIDE DEF q, r
<1>3. SubSeq(q, r + 1, r + n)[1] = q[r + 1]
  <2>1. 1 \in 1..n
    OBVIOUS
  <2>2. \A i \in 1..n : SubSeq(q, r + 1, r + n)[i] = q[r + i]
    BY <1>1, PartOf
  <2> HIDE DEF q, r
  <2> QED BY <2>1, <2>2
<1>4. SubSeq(q, r + 1, r + 1)[1] = q[r + 1]
  <2>1. 1 \in 1..1
    OBVIOUS
  <2>2. \A i \in 1..1 : SubSeq(q, r + 1, r + 1)[i] = q[r + i]
    BY <1>1, <1>2, PartOf
  <2> QED BY <2>1, <2>2
<1> QED BY <1>2, <1>3, <1>4 DEF Ahead, Available, q, r

LEMMA ReadLayerAgrees ==
  ASSUME FilesAreTyped, LoaderIInv, NEW x, IsSoundIndex(x), NEW v \in Versions, Follows(x, v), At(x, v), ReadLayer
  PROVE  Agrees(x, v)
<1> DEFINE p == Payload(x, v)
           h == load.header
           degree == Ahead(1)[1]
           cells == Ahead(1 + degree)
           list == Tail(cells)
           layers == Append(load.layers, list)
           next == IF Len(layers) <= load.level THEN load.phase ELSE "node"
           y == IF Len(layers) <= load.level THEN index ELSE [index EXCEPT !.graph = Append(@, layers)]
           Right == /\ Available(1) /\ DegreeAllowed(degree, Len(load.layers)) /\ degree <= Remaining(1)
                    /\ Available(1 + degree) /\ NeighborsAllowed(list, Len(index.graph) + 1)
<1>1. /\ LoadIsTyped /\ IsLoad(load) /\ load.inode \in Inodes /\ load.read \in Seq(Nat)
      /\ p \in Seq(Nat) /\ IsIndex(x) /\ Sound(x)
  BY Following
<1>2. h.count = Len(x.ids) /\ h.m = x.m /\ h.payload = Len(p)
  BY Following, FollowedHeader
<1>13. x.graph \in Seq(Nodes) /\ Len(x.graph) = Len(x.ids) /\ Len(x.ids) \in Nat /\ x.m \in Nat
  BY <1>1, IndexType
<1>14. load.phase = "layer"
  BY DEF ReadLayer
<1>3. PICK n \in 0..(Len(x.graph) - 1) : \E k \in 0..(Len(x.graph[n + 1]) - 1) : AtLayer(x, n, k)
  BY <1>14 DEF At
<1> DEFINE node == x.graph[n + 1]
<1>31. PICK k \in 0..(Len(node) - 1) : AtLayer(x, n, k)
  BY <1>3
<1>15. n + 1 \in 1..Len(x.graph) /\ n \in 0..Len(x.graph) /\ n \in Nat
  BY <1>13
<1>16. node \in Nodes /\ Len(node) \in Nat /\ 1 <= Len(node) /\ node \in Seq(Seq(Nat))
  BY <1>15, NodeLimits, NodeType
<1>32. k + 1 \in 1..Len(node) /\ k \in 0..Len(node) /\ k \in Nat /\ (k + 1) - 1 = k
  BY <1>16
<1>33. /\ load.read = ListsRead(x, n, k) /\ index = BuiltTo(x, n) /\ load.level = Len(node) - 1
       /\ load.layers = SubSeq(node, 1, k) /\ Len(load.layers) = k
  <2>1. Len(SubSeq(node, 1, k)) = k
    BY <1>16, <1>32, FirstPart
  <2> QED BY <1>31, <2>1 DEF AtLayer
<1>34. index.graph = SubSeq(x.graph, 1, n) /\ Len(index.graph) = n
  <2>1. Len(SubSeq(x.graph, 1, n)) = n
    BY <1>13, <1>15, FirstPart
  <2> QED BY <1>33, <2>1 DEF BuiltTo, Built
<1> DEFINE part == node[k + 1]
           c == <<Len(part)>> \o part
<1>17. /\ IsInjective(part) /\ part \in Seq(Nat) /\ Len(part) \in Nat
       /\ Len(part) <= (IF k = 0 THEN 2 ELSE 1) * x.m /\ Len(part) < Len(x.ids)
       /\ \A e \in DOMAIN part : part[e] \in 1..Len(x.ids) /\ part[e] # n + 1
  <2>1. PICK i \in 1..Len(x.graph) : i = n + 1
    BY <1>15
  <2>2. PICK l \in 1..Len(x.graph[i]) : l = k + 1
    BY <1>32, <2>1
  <2>3. part = x.graph[i][l] /\ l - 1 = k
    BY <1>32, <2>1, <2>2
  <2> HIDE DEF part, node
  <2> QED BY <2>1, <2>3, ListLimits
<1>18. c \in Seq(Nat) /\ Len(c) = 1 + Len(part) /\ c[1] = Len(part) /\ Tail(c) = part
  <2>1. part \in Seq(Nat) /\ Len(part) \in Nat
    BY <1>17
  <2> HIDE DEF part
  <2> QED BY <2>1
<1>19. ListsRead(x, n, k + 1) = load.read \o c
  <2>1. k \in 0..(Len(node) - 1)
    BY <1>16
  <2>2. ListsRead(x, n, k + 1) = ListsRead(x, n, k) \o (<<Len(node[k + 1])>> \o node[k + 1])
    BY <1>1, <2>1, ListsSteps
  <2> QED BY <1>33, <2>2
<1>4. Begins(load.read \o c, p)
  <2>1. k + 1 \in 0..Len(node)
    BY <1>16
  <2>2. Begins(ListsRead(x, n, k + 1), p)
    BY <1>1, <2>1, PayloadParts
  <2> QED BY <1>19, <2>2
<1>11. IF Right THEN /\ load' = [load EXCEPT !.read = @ \o cells, !.links = @ + degree, !.layers = layers, !.phase = next]
                     /\ index' = y
       ELSE Reject
  BY DEF ReadLayer
<1> HIDE DEF p, c, node, part
<1>20. /\ files[load.inode].payload = p =>
             Available(1) /\ Available(1 + degree) /\ degree = Len(part) /\ cells = c /\ Begins(load.read \o cells, p)
       /\ Available(1) /\ Available(1 + degree) /\ Begins(load.read \o cells, p) => degree = Len(part) /\ cells = c
  <2> DEFINE r == Len(load.read)
             size == 1 + Len(part)
  <2>1. size \in Nat /\ size >= 1 /\ size = Len(c)
    BY <1>17, <1>18
  <2>2. r + 1 <= Len(p) /\ p[r + 1] = Len(part)
    BY <1>1, <1>4, <1>18, <2>1, FirstNext
  <2> HIDE DEF size
  <2>3. /\ files[load.inode].payload = p => Available(size) /\ Ahead(size) = c /\ Begins(load.read \o Ahead(size), p)
        /\ Available(size) /\ Begins(load.read \o Ahead(size), p) => Ahead(size) = c
    BY <1>1, <1>4, <1>18, <2>1, NextCells
  <2>4. ASSUME files[load.inode].payload = p
        PROVE  Available(1) /\ Available(1 + degree) /\ degree = Len(part) /\ cells = c /\ Begins(load.read \o cells, p)
    <3>1. Available(size) /\ Ahead(size) = c
      BY <2>3, <2>4
    <3>2. Available(1) /\ Ahead(1)[1] = Len(part)
      BY <1>1, <1>18, <2>1, <3>1, FirstAhead
    <3>3. 1 + degree = size
      BY <3>2 DEF size
    <3> QED BY <2>3, <2>4, <3>1, <3>2, <3>3
  <2>5. ASSUME Available(1), Available(1 + degree), Begins(load.read \o cells, p)
        PROVE  degree = Len(part) /\ cells = c
    <3>1. degree \in Nat
      <4>1. 1 \in Nat /\ 1 \in 1..1
        OBVIOUS
      <4>2. \A i \in 1..1 : Ahead(1)[i] \in Nat
        BY <1>1, <2>5, <4>1, AheadType
      <4> QED BY <4>1, <4>2
    <3> DEFINE d == degree
               long == Ahead(1 + d)
    <3> HIDE DEF d
    <3>7. d \in Nat
      BY <3>1 DEF d
    <3>2. 1 + d \in Nat /\ 1 + d >= 1
      BY <3>7
    <3>8. Available(1 + d) /\ Begins(load.read \o long, p)
      BY <2>5 DEF d
    <3>3. long \in Seq(Nat) /\ Len(long) = 1 + d
      BY <1>1, <3>2, <3>8, AheadType
    <3>4. Ahead(1)[1] = long[1]
      BY <1>1, <3>2, <3>8, FirstAhead
    <3> HIDE DEF long
    <3>5. p[r + 1] = long[1]
      BY <1>1, <3>2, <3>3, <3>8, FirstNext
    <3>6. degree = Len(part)
      BY <2>2, <3>4, <3>5
    <3>9. 1 + d = size
      BY <3>6 DEF size, d
    <3>10. long = c
      BY <2>3, <3>8, <3>9 DEF long
    <3> QED BY <3>6, <3>10 DEF long, d
  <2> QED BY <2>4, <2>5
<1>21. ASSUME cells = c, degree = Len(part) PROVE list = part
  BY <1>18, <1>21
<1>7. CASE ~Right
  <2>3. Reject
    BY <1>7, <1>11
  <2>1. load'.phase = "rejected"
    BY <2>3, RejectedPart
  <2>2. ASSUME files[load.inode].payload = p PROVE FALSE
    <3>1. Available(1) /\ Available(1 + degree) /\ degree = Len(part) /\ cells = c
      BY <1>20, <2>2
    <3>2. list = part
      BY <1>21, <3>1
    <3> HIDE DEF list, cells, degree
    <3>3. DegreeAllowed(degree, Len(load.layers))
      BY <1>2, <1>17, <1>33, <3>1 DEF DegreeAllowed, Declared
    <3>4. NeighborsAllowed(list, Len(index.graph) + 1)
      BY <1>2, <1>17, <1>34, <3>2 DEF NeighborsAllowed, Declared
    <3>5. degree <= Remaining(1)
      <4>1. Len(load.read \o c) <= Len(p)
        BY <1>4 DEF Begins
      <4>2. Len(load.read \o c) = Len(load.read) + Len(c)
        BY <1>1, <1>18, Appended
      <4>3. Len(load.read) \in Nat /\ Len(p) \in Nat
        BY <1>1 DEF p
      <4>4. Len(load.read) + (1 + Len(part)) <= Len(p) /\ Len(part) \in Nat
        BY <1>17, <1>18, <4>1, <4>2
      <4>5. Remaining(1) = Len(p) - Len(load.read) - 1 /\ degree = Len(part)
        BY <1>2, <3>1 DEF Remaining, Declared
      <4> DEFINE r == Len(load.read)
                 a == Len(part)
                 s == Len(p)
      <4>6. r \in Nat /\ a \in Nat /\ s \in Nat /\ r + (1 + a) <= s
        BY <4>3, <4>4
      <4>7. Remaining(1) = s - r - 1 /\ degree = a
        BY <4>5
      <4> HIDE DEF r, a, s
      <4>8. a <= s - r - 1
        BY <4>6
      <4> QED BY <4>7, <4>8
    <3> QED BY <1>7, <3>1, <3>3, <3>4, <3>5
  <2> QED BY <2>1, <2>2 DEF Agrees, p
<1>8. CASE Right
  <2> DEFINE read == load.read \o cells
             new == [phase |-> next, inode |-> load.inode, header |-> h, sum |-> load.sum, read |-> read,
                     layers |-> layers, level |-> load.level, links |-> load.links + degree, clean |-> load.clean]
  <2>1. load' = [load EXCEPT !.read = read, !.links = @ + degree, !.layers = layers, !.phase = next] /\ index' = y
    BY <1>8, <1>11
  <2>11. Available(1) /\ Available(1 + degree)
    BY <1>8
  <2> HIDE DEF read, y, next, layers, degree
  <2>2. load' = new
    BY <1>1, <2>1, LoadType
  <2>3. load'.phase = next /\ load'.read = read /\ load'.layers = layers /\ load'.level = load.level
    BY <2>2
  <2>4. next = "layer" \/ next = "node"
    BY <1>14 DEF next
  <2>5. ASSUME Begins(load'.read, p) PROVE At(x, v)'
    <3>1. cells = c /\ degree = Len(part)
      BY <1>20, <2>3, <2>5, <2>11 DEF read, degree
    <3>2. list = part
      BY <1>21, <3>1 DEF degree
    <3>3. layers = SubSeq(node, 1, k + 1)
      <4>1. Append(SubSeq(node, 1, k), node[k + 1]) = SubSeq(node, 1, k + 1)
        <5>1. k \in 0..(Len(node) - 1)
          BY <1>16 DEF node
        <5> QED BY <1>16, <5>1, FirstPart
      <4> QED BY <1>33, <3>2, <4>1 DEF layers, part
    <3>4. Len(layers) = k + 1
      <4>1. k + 1 \in 0..Len(node)
        BY <1>16, <1>32
      <4> QED BY <1>16, <3>3, <4>1, FirstPart
    <3>5. load'.read = ListsRead(x, n, k + 1)
      BY <1>19, <2>3, <3>1 DEF read
    <3>6. CASE k + 1 <= load.level
      <4>1. next = "layer" /\ index' = index
        BY <1>14, <2>1, <3>4, <3>6 DEF next, y
      <4>2. k + 1 \in 0..(Len(node) - 1)
        BY <1>16, <1>32, <1>33, <3>6
      <4>3. AtLayer(x, n, k + 1)'
        BY <1>33, <2>3, <3>3, <3>5, <4>1 DEF AtLayer, node
      <4> QED BY <2>3, <4>1, <4>2, <4>3 DEF At, node
    <3>7. CASE ~(k + 1 <= load.level)
      <4>1. next = "node" /\ index' = [index EXCEPT !.graph = Append(@, layers)]
        BY <2>1, <3>4, <3>7 DEF next, y
      <4>2. k + 1 = Len(node)
        BY <1>16, <1>32, <1>33, <3>7
      <4>3. layers = node
        BY <1>16, <3>3, <4>2, FirstPart
      <4>4. Append(SubSeq(x.graph, 1, n), node) = SubSeq(x.graph, 1, n + 1)
        BY <1>13, FirstPart DEF node
      <4>5. index' = [index EXCEPT !.graph = SubSeq(x.graph, 1, n + 1)]
        BY <1>34, <4>1, <4>3, <4>4
      <4>6. index' = BuiltTo(x, n + 1)
        BY <1>33, <4>5 DEF BuiltTo, Built
      <4>7. load'.read = NodesRead(x, n + 1)
        <5>1. ListsRead(x, n, Len(node)) = NodesRead(x, n + 1)
          BY <1>1, ListsSteps DEF node
        <5> QED BY <3>5, <4>2, <5>1
      <4>8. AtNode(x, n + 1)'
        BY <4>6, <4>7 DEF AtNode
      <4>9. n + 1 \in 0..Len(x.graph)
        BY <1>13
      <4> QED BY <2>3, <4>1, <4>8, <4>9 DEF At
    <3> QED BY <3>6, <3>7
  <2>6. load'.phase # "rejected"
    BY <2>3, <2>4
  <2>7. files[load.inode].payload = p => Begins(load'.read, p)
    BY <1>20, <2>3 DEF read
  <2> QED BY <2>5, <2>6, <2>7 DEF Agrees, p
<1> QED BY <1>7, <1>8

LEMMA CheckGraphAgrees ==
  ASSUME FilesAreTyped, LoaderIInv, NEW x, IsSoundIndex(x), NEW v \in Versions, Follows(x, v), At(x, v), CheckGraph
  PROVE  Agrees(x, v)
<1> DEFINE p == Payload(x, v)
           h == load.header
           N == Len(x.graph)
           next == IF h.version = 3 THEN "tombstones" ELSE "random"
           none == <<>>
           Right == /\ \/ h.count = 0
                       \/ /\ \E n \in DOMAIN index.graph : Len(index.graph[n]) - 1 = h.maxLevel
                          /\ Len(index.graph[h.entry]) - 1 = h.maxLevel
                    /\ LayersAgree
<1>1. /\ LoadIsTyped /\ IsLoad(load) /\ load.inode \in Inodes /\ load.read \in Seq(Nat)
      /\ p \in Seq(Nat) /\ IsIndex(x) /\ Sound(x)
  BY Following
<1>2. h.count = Len(x.ids) /\ h.maxLevel = x.maxLevel /\ h.version = v /\ (Len(x.ids) # 0 => h.entry = x.entry)
  BY Following, FollowedHeader
<1>13. x.graph \in Seq(Nodes) /\ N = Len(x.ids) /\ N \in Nat /\ x.maxLevel \in Nat
  BY <1>1, IndexType
<1>14. load.phase = "node" /\ Len(index.graph) = h.count
  BY DEF CheckGraph, Declared
<1>3. PICK n \in 0..N : load.read = NodesRead(x, n) /\ index = BuiltTo(x, n)
  BY <1>14 DEF At, AtNode
<1>4. n = N /\ index.graph = x.graph
  <2>1. index.graph = SubSeq(x.graph, 1, n)
    BY <1>3 DEF BuiltTo, Built
  <2>2. Len(SubSeq(x.graph, 1, n)) = n
    BY <1>13, FirstPart
  <2>3. n = N
    BY <1>2, <1>13, <1>14, <2>1, <2>2
  <2> QED BY <1>13, <2>1, <2>3, FirstPart
<1>5. Begins(load.read, p)
  BY DEF Follows
<1>11. IF Right THEN Accept(none, next, index) ELSE Reject
  BY DEF CheckGraph, Declared
<1>12. none \in Seq(Nat) /\ load.read \o none = load.read
  BY <1>1
<1>6. Right
  <2>1. \/ x.entry \in 1..Len(x.ids) /\ Len(x.graph[x.entry]) = x.maxLevel + 1
        \/ Len(x.ids) = 0
    BY <1>1, <1>13 DEF Sound
  <2>2. DOMAIN x.graph = 1..Len(x.ids)
    BY <1>13
  <2>3. ASSUME NEW k \in DOMAIN x.graph, NEW l \in DOMAIN x.graph[k], NEW e \in DOMAIN x.graph[k][l]
        PROVE  Len(x.graph[x.graph[k][l][e]]) >= l
    <3> DEFINE m == x.graph[k][l][e]
    <3>1. m \in (1..Len(x.ids)) \ {k} /\ l \in DOMAIN x.graph[m]
      BY <1>1, <2>2, <2>3 DEF Sound
    <3>2. x.graph[m] \in Nodes
      BY <1>1, <1>13, <3>1, NodeOf
    <3> HIDE DEF m
    <3>3. DOMAIN x.graph[m] = 1..Len(x.graph[m]) /\ Len(x.graph[m]) \in Nat
      BY <3>2, NodeType
    <3>4. l <= Len(x.graph[m])
      BY <3>1, <3>3
    <3>5. k \in 1..Len(x.graph)
      BY <1>13, <2>2
    <3>6. DOMAIN x.graph[k] = 1..Len(x.graph[k]) /\ Len(x.graph[k]) \in Nat
      BY <1>1, <3>5, NodeOf, NodeType
    <3>7. l \in Nat
      BY <2>3, <3>6
    <3> QED BY <3>3, <3>4, <3>7 DEF m
  <2>4. LayersAgree
    BY <1>4, <2>3 DEF LayersAgree
  <2>5. Len(x.ids) # 0 => Len(x.graph[x.entry]) - 1 = x.maxLevel /\ x.entry \in DOMAIN x.graph
    BY <1>13, <2>1, <2>2
  <2> QED BY <1>2, <1>4, <2>4, <2>5
<1> HIDE DEF Right, none, next
<1>7. load'.phase = next /\ load'.read = load.read /\ index' = index
  BY <1>1, <1>6, <1>11, <1>12, AcceptedPart
<1>8. AtNode(x, N)'
  BY <1>3, <1>4, <1>7 DEF AtNode
<1>9. At(x, v)'
  <2>1. CASE v = 3
    BY <1>2, <1>7, <1>8, <2>1 DEF At, AtTombstones, next
  <2>2. CASE v # 3
    <3>1. NodesRead(x, N) \o Flags(x, v) = NodesRead(x, N)
      <4>1. NodesRead(x, N) \o <<>> = NodesRead(x, N)
        BY <1>3, <1>4, <1>12 DEF none
      <4> QED BY <2>2, <4>1 DEF Flags
    <3>2. BuiltTo(x, N) = BuiltWith(x, v, x.seed)
      <4>1. SubSeq(x.graph, 1, N) = x.graph
        BY <1>13, FirstPart
      <4> QED BY <2>2, <4>1 DEF BuiltTo, BuiltWith
    <3>3. AtRandom(x, v)'
      BY <1>3, <1>4, <1>7, <3>1, <3>2 DEF AtRandom
    <3> QED BY <1>2, <1>7, <2>2, <3>3 DEF At, next
  <2> QED BY <2>1, <2>2
<1>10. load'.phase # "rejected"
  BY <1>7 DEF next
<1> QED BY <1>5, <1>7, <1>9, <1>10 DEF Agrees, p

LEMMA ReadTombstonesAgrees ==
  ASSUME FilesAreTyped, LoaderIInv, NEW x, IsSoundIndex(x), NEW v \in Versions, Follows(x, v), At(x, v), ReadTombstones
  PROVE  Agrees(x, v)
<1> DEFINE p == Payload(x, v)
           h == load.header
           N == Len(x.graph)
           n == 1 + h.count
           cells == Ahead(n)
           flags == Tail(cells)
           deleted == Cardinality({i \in 1..h.count : flags[i] = 1})
           y == [index EXCEPT !.deleted = flags, !.deletedCount = deleted]
           Right == /\ Available(n) /\ Ahead(1)[1] <= h.count /\ \A i \in 1..h.count : flags[i] <= 1
                    /\ h.count - deleted = Ahead(1)[1]
           c == <<Len(x.ids) - x.deletedCount>> \o x.deleted
<1>1. /\ LoadIsTyped /\ IsLoad(load) /\ load.inode \in Inodes /\ load.read \in Seq(Nat)
      /\ p \in Seq(Nat) /\ IsIndex(x) /\ Sound(x)
  BY Following
<1>2. h.count = Len(x.ids)
  BY Following, FollowedHeader
<1>3. load.phase = "tombstones" /\ v = 3 /\ load.read = NodesRead(x, N) /\ index = BuiltTo(x, N)
  BY DEF ReadTombstones, At, AtTombstones, AtNode
<1>13. /\ x.deleted \in Seq(Nat) /\ Len(x.deleted) = Len(x.ids) /\ Len(x.ids) \in Nat /\ x.deletedCount \in Nat
       /\ x.graph \in Seq(Nodes) /\ \A i \in 1..Len(x.ids) : x.deleted[i] <= 1
  BY <1>1, IndexType DEF Sound
<1>14. /\ Len(x.ids) - x.deletedCount \in Nat /\ Flags(x, v) = c
       /\ x.deletedCount = Cardinality({i \in 1..Len(x.ids) : x.deleted[i] = 1})
  BY <1>1, <1>3, FlagsType DEF Flags
<1>15. c \in Seq(Nat) /\ Len(c) = n /\ c[1] = Len(x.ids) - x.deletedCount /\ Tail(c) = x.deleted
  <2> DEFINE live == Len(x.ids) - x.deletedCount
             a == <<live>>
             b == x.deleted
  <2>1. live \in Nat /\ b \in Seq(Nat) /\ Len(b) = h.count /\ h.count \in Nat
    BY <1>2, <1>13, <1>14
  <2> HIDE DEF live, b
  <2>2. a \in Seq(Nat) /\ Len(a) = 1 /\ a[1] = live
    BY <2>1
  <2>3. a \o b \in Seq(Nat) /\ Len(a \o b) = n /\ (a \o b)[1] = live /\ Tail(a \o b) = b
    BY <2>1, <2>2
  <2> QED BY <2>3 DEF live, b
<1>16. n \in Nat /\ n >= 1
  BY <1>2, <1>13
<1>11. IF Right THEN Accept(cells, "random", y) ELSE Reject
  BY DEF ReadTombstones, Declared
<1> HIDE DEF c
<1>4. Begins(load.read \o c, p)
  BY <1>1, <1>3, <1>14, PayloadParts
<1> HIDE DEF p, n
<1>5. /\ files[load.inode].payload = p => Available(n) /\ cells = c /\ Begins(load.read \o cells, p)
      /\ Available(n) /\ Begins(load.read \o cells, p) => cells = c
  BY <1>1, <1>4, <1>15, NextCells
<1>6. ASSUME cells = c PROVE flags = x.deleted /\ deleted = x.deletedCount
  <2>1. flags = x.deleted
    BY <1>6, <1>15
  <2> HIDE DEF flags
  <2> QED BY <1>2, <1>14, <2>1
<1>7. CASE ~Right
  <2>3. Reject
    BY <1>7, <1>11
  <2>1. load'.phase = "rejected"
    BY <2>3, RejectedPart
  <2>2. ASSUME files[load.inode].payload = p PROVE FALSE
    <3>1. Available(n) /\ cells = c
      BY <1>5, <2>2
    <3>2. flags = x.deleted /\ deleted = x.deletedCount
      BY <1>6, <3>1
    <3>3. Ahead(1)[1] = cells[1]
      BY <1>1, <1>16, <3>1, FirstAhead
    <3> HIDE DEF flags, deleted, cells
    <3>4. Ahead(1)[1] = Len(x.ids) - x.deletedCount
      BY <1>15, <3>1, <3>3
    <3>5. \A i \in 1..h.count : flags[i] <= 1
      BY <1>2, <1>13, <3>2
    <3>6. Ahead(1)[1] <= h.count /\ h.count - deleted = Ahead(1)[1]
      BY <1>2, <1>13, <3>2, <3>4
    <3> QED BY <1>7, <3>1, <3>5, <3>6
  <2> QED BY <2>1, <2>2 DEF Agrees, p
<1>8. CASE Right
  <2>0. Available(n)
    BY <1>8
  <2>4. Accept(cells, "random", y)
    BY <1>8, <1>11
  <2>1. cells \in Seq(Nat)
    BY <1>1, <1>16, <2>0, AheadType
  <2> HIDE DEF Right
  <2>2. load'.phase = "random" /\ load'.read = load.read \o cells /\ index' = y
    BY <1>1, <2>1, <2>4, AcceptedPart
  <2>3. ASSUME Begins(load'.read, p) PROVE At(x, v)'
    <3>1. cells = c
      BY <1>5, <2>0, <2>2, <2>3
    <3>2. load'.read = NodesRead(x, N) \o Flags(x, v)
      BY <1>3, <1>14, <2>2, <3>1
    <3>3. flags = x.deleted /\ deleted = x.deletedCount
      BY <1>6, <3>1
    <3>4. y = [index EXCEPT !.deleted = x.deleted, !.deletedCount = x.deletedCount]
      BY <3>3
    <3> HIDE DEF y, cells, flags, deleted
    <3>5. SubSeq(x.graph, 1, N) = x.graph
      BY <1>13, FirstPart
    <3>6. index' = BuiltWith(x, v, x.seed)
      BY <1>3, <2>2, <3>4, <3>5 DEF BuiltTo, BuiltWith, Built
    <3> QED BY <2>2, <3>2, <3>6 DEF At, AtRandom
  <2> QED BY <1>5, <2>0, <2>2, <2>3 DEF Agrees, p
<1> QED BY <1>7, <1>8

LEMMA ReadRandomAgrees ==
  ASSUME FilesAreTyped, LoaderIInv, NEW x, IsSoundIndex(x), NEW v \in Versions, Follows(x, v), At(x, v), ReadRandom
  PROVE  Agrees(x, v)
<1> DEFINE p == Payload(x, v)
           h == load.header
           first == Ahead(1)[1]
           cells == Ahead(1 + first)
           y == [index EXCEPT !.random = Ahead(2)[2]]
           Right == /\ Available(1) /\ first \in 1..MaxRandom /\ first = Remaining(1)
                    /\ Available(1 + first) /\ Parses(Tail(cells))
           c == <<1, x.random>>
           r == NodesRead(x, Len(x.graph)) \o Flags(x, v)
<1>1. /\ LoadIsTyped /\ IsLoad(load) /\ load.inode \in Inodes /\ load.read \in Seq(Nat)
      /\ p \in Seq(Nat) /\ IsIndex(x) /\ Sound(x)
  BY Following
<1>2. h.version = v /\ h.payload = Len(p)
  BY Following, FollowedHeader
<1>3. load.phase = "random" /\ load.read = r /\ index = BuiltWith(x, v, x.seed)
  BY DEF ReadRandom, At, AtRandom
<1>4. p = r \o State(x, v) /\ Begins(load.read, p)
  BY <1>1, PayloadParts DEF Follows
<1>11. IF v = 1 THEN Accept(<<>>, "sum", index) ELSE IF Right THEN Accept(cells, "sum", y) ELSE Reject
  BY <1>2 DEF ReadRandom, Declared
<1> HIDE DEF p, r
<1>5. CASE v = 1
  <2> DEFINE none == <<>>
  <2>1. none \in Seq(Nat) /\ load.read \o none = load.read
    BY <1>1
  <2>5. State(x, v) = none
    BY <1>5 DEF State
  <2>6. Accept(none, "sum", index)
    BY <1>5, <1>11
  <2> HIDE DEF none
  <2>2. load'.phase = "sum" /\ load'.read = load.read \o none /\ index' = index
    BY <1>1, <2>1, <2>6, AcceptedPart
  <2>3. load'.read = p
    BY <1>3, <1>4, <2>1, <2>2, <2>5
  <2>4. At(x, v)'
    BY <1>3, <1>5, <2>2, <2>3 DEF At, AtSum, p
  <2> QED BY <1>4, <2>1, <2>2, <2>4 DEF Agrees, p
<1>6. CASE v # 1
  <2>1. State(x, v) = c
    BY <1>6 DEF State, Versions
  <2>2. c \in Seq(Nat) /\ Len(c) = 2 /\ c[1] = 1 /\ c[2] = x.random /\ x.random \in Nat /\ Len(Tail(c)) = 1
    <3>1. x.random \in Nat
      BY <1>1, IndexType
    <3> QED BY <3>1
  <2>15. Begins(load.read \o c, p)
    BY <1>1, <1>3, <1>4, <2>1, BeginsFacts
  <2>16. 2 \in Nat /\ 2 >= 1 /\ 1 \in Nat
    OBVIOUS
  <2>17. IF Right THEN Accept(cells, "sum", y) ELSE Reject
    BY <1>6, <1>11
  <2> HIDE DEF c
  <2>3. /\ files[load.inode].payload = p => Available(2) /\ Ahead(2) = c /\ Begins(load.read \o Ahead(2), p)
        /\ Available(2) /\ Begins(load.read \o Ahead(2), p) => Ahead(2) = c
    BY <1>1, <2>2, <2>15, <2>16, NextCells
  <2>7. CASE ~Right
    <3>1. Reject
      BY <2>7, <2>17
    <3>2. load'.phase = "rejected"
      BY <3>1, RejectedPart
    <3>3. ASSUME files[load.inode].payload = p PROVE FALSE
      <4>1. Available(2) /\ Ahead(2) = c
        BY <2>3, <3>3
      <4>2. Available(1) /\ Ahead(1)[1] = Ahead(2)[1]
        BY <1>1, <2>16, <4>1, FirstAhead
      <4>3. first = 1
        BY <2>2, <4>1, <4>2
      <4>4. 1 + first = 2
        BY <4>3
      <4>5. Available(1 + first) /\ cells = c
        BY <4>1, <4>4
      <4>6. Remaining(1) = 1
        <5>1. Len(load.read \o c) = Len(load.read) + 2 /\ Len(load.read) \in Nat
          <6>1. c \in Seq(Nat) /\ Len(c) = 2
            BY <2>2
          <6>2. Len(load.read \o c) = Len(load.read) + Len(c)
            BY <1>1, <6>1, Appended
          <6> QED BY <1>1, <6>1, <6>2
        <5>2. Len(p) = Len(load.read) + 2
          BY <1>3, <1>4, <2>1, <5>1
        <5> QED BY <1>2, <5>1, <5>2 DEF Remaining, Declared
      <4>7. Parses(Tail(cells))
        BY <2>2, <4>5 DEF Parses
      <4>8. first \in 1..MaxRandom
        BY <4>3, WordsAssumption
      <4> HIDE DEF first, cells
      <4> QED BY <2>7, <4>2, <4>3, <4>5, <4>6, <4>7, <4>8
    <3> QED BY <3>2, <3>3 DEF Agrees, p
  <2>8. CASE Right
    <3>1. Available(1 + first) /\ Parses(Tail(cells)) /\ first \in Nat /\ Available(1)
      BY <2>8, WordsAssumption
    <3>0. Accept(cells, "sum", y)
      BY <2>8, <2>17
    <3>2. first = 1
      <4> DEFINE f == first
                 long == Ahead(1 + f)
      <4>1. f \in Nat /\ 1 + f \in Nat /\ 1 + f >= 1
        BY <3>1
      <4>4. Available(1 + f) /\ Len(Tail(long)) = 1
        BY <3>1 DEF Parses
      <4> HIDE DEF f
      <4>2. long \in Seq(Nat) /\ Len(long) = 1 + f /\ (1 + f >= 1 => Len(Tail(long)) = (1 + f) - 1)
        BY <1>1, <4>1, <4>4, AheadType
      <4>5. (1 + f) - 1 = 1
        BY <4>1, <4>2, <4>4
      <4>3. f = 1
        BY <4>1, <4>5
      <4> QED BY <4>3 DEF f
    <3>3. 1 + first = 2
      BY <3>2
    <3>4. cells = Ahead(2) /\ Available(2)
      BY <3>1, <3>3
    <3> HIDE DEF first, y
    <3>5. cells \in Seq(Nat)
      BY <1>1, <2>16, <3>4, AheadType
    <3>6. load'.phase = "sum" /\ load'.read = load.read \o Ahead(2) /\ index' = y
      BY <1>1, <3>0, <3>4, <3>5, AcceptedPart
    <3>7. ASSUME Begins(load'.read, p) PROVE At(x, v)'
      <4>1. Ahead(2) = c
        BY <2>3, <3>4, <3>6, <3>7
      <4>2. load'.read = p
        BY <1>3, <1>4, <2>1, <3>6, <4>1
      <4>3. index' = [index EXCEPT !.random = x.random]
        BY <2>2, <3>6, <4>1 DEF y
      <4>4. index' = BuiltWith(x, v, x.random)
        BY <1>3, <4>3 DEF BuiltWith, Built
      <4> QED BY <1>6, <3>6, <4>2, <4>4 DEF At, AtSum, p
    <3>8. files[load.inode].payload = p => Begins(load'.read, p)
      BY <2>3, <3>6
    <3> QED BY <3>6, <3>7, <3>8 DEF Agrees, p
  <2> QED BY <2>7, <2>8
<1> QED BY <1>5, <1>6

\* What the parts of a file do for every index that they may belong to.
AllAgree ==
    \A x \in Indexes, v \in Versions : IsSoundIndex(x) /\ Follows(x, v) /\ At(x, v) => Agrees(x, v)

PartStep == ReadIds \/ ReadVectors \/ ReadLevel \/ ReadLayer \/ CheckGraph \/ ReadTombstones \/ ReadRandom

LEMMA PartsAgree ==
  ASSUME FilesAreTyped, LoaderIInv, PartStep
  PROVE  AllAgree
<1> SUFFICES ASSUME NEW x \in Indexes, NEW v \in Versions, IsSoundIndex(x), Follows(x, v), At(x, v)
             PROVE  Agrees(x, v)
  BY DEF AllAgree
<1>1. CASE ReadIds
  BY <1>1, ReadIdsAgrees
<1>2. CASE ReadVectors
  BY <1>2, ReadVectorsAgrees
<1>3. CASE ReadLevel
  BY <1>3, ReadLevelAgrees
<1>4. CASE ReadLayer
  BY <1>4, ReadLayerAgrees
<1>5. CASE CheckGraph
  BY <1>5, CheckGraphAgrees
<1>6. CASE ReadTombstones
  BY <1>6, ReadTombstonesAgrees
<1>7. CASE ReadRandom
  BY <1>7, ReadRandomAgrees
<1> QED BY <1>1, <1>2, <1>3, <1>4, <1>5, <1>6, <1>7 DEF PartStep

\* Each part is given up or adds cells.
LEMMA PartsAdvance ==
  ASSUME FilesAreTyped, LoaderIInv, PartStep
  PROVE  load.phase \in Reading /\ Advances
<1>1. load.phase \in Reading
  BY DEF PartStep, ReadIds, ReadVectors, ReadLevel, ReadLayer, CheckGraph, ReadTombstones, ReadRandom, Reading, Sized
<1> SUFFICES Advances
  BY <1>1
<1>2. LoadIsTyped /\ HeaderIsKept /\ load.phase \in Sized /\ load.phase # "loaded" /\ IsLoad(load)
  BY <1>1 DEF LoaderIInv, Reading, LoadIsTyped
<1>3. /\ load.header.count \in Nat /\ load.header.count * load.header.dimension \in Nat
      /\ load.inode \in Inodes /\ load.read \in Seq(Nat)
  BY <1>2, SizedLoad
<1>4. \A n \in Nat : Available(n) => Ahead(n) \in Seq(Nat) /\ Ahead(n) = Ahead(n)
  BY <1>2, <1>3, AheadType
<1> DEFINE none == <<>>
<1>5. none \in Seq(Nat)
  OBVIOUS
<1>6. {"vectors", "node", "layer", "tombstones", "random", "sum"} \subseteq Reading
  BY DEF Reading, Sized
<1> HIDE DEF none
<1>9. CASE ReadIds
  <2> DEFINE n == load.header.count
             y == [index EXCEPT !.ids = Ahead(n)]
  <2>1. Reject \/ (Available(n) /\ Accept(Ahead(n), "vectors", y))
    BY <1>9 DEF ReadIds, Declared
  <2> HIDE DEF y, n
  <2>2. n \in Nat
    BY <1>3 DEF n
  <2>3. "vectors" \in Reading
    BY <1>6
  <2> QED BY <1>2, <1>4, <2>1, <2>2, <2>3, RejectedPart, AcceptedAdvances
<1>10. CASE ReadVectors
  <2> DEFINE n == load.header.count * load.header.dimension
             y == [index EXCEPT !.vectors = [c \in 1..n |-> Float(Ahead(n)[c])]]
  <2>1. Reject \/ (Available(n) /\ Accept(Ahead(n), "node", y))
    BY <1>10 DEF ReadVectors, Declared
  <2>2. n \in Nat
    BY <1>3
  <2> HIDE DEF y, n
  <2>3. "node" \in Reading
    BY <1>6
  <2> QED BY <1>2, <1>4, <2>1, <2>2, <2>3, RejectedPart, AcceptedAdvances
<1>11. CASE ReadLevel
  <2> DEFINE cells == Ahead(1)
             read == load.read \o cells
             Right == Available(1) /\ cells[1] <= MaxLevel /\ cells[1] <= load.header.maxLevel
  <2>1. IF Right THEN load' = [load EXCEPT !.read = read, !.phase = "layer", !.level = cells[1], !.layers = <<>>]
        ELSE Reject
    BY <1>11 DEF ReadLevel, Declared
  <2>2. CASE ~Right
    <3>1. Reject
      BY <2>1, <2>2
    <3> QED BY <3>1, RejectedPart
  <2>3. CASE Right
    <3>1. cells \in Seq(Nat)
      <4>1. 1 \in Nat /\ Available(1)
        BY <2>3
      <4> QED BY <1>4, <4>1
    <3>2. load' = [load EXCEPT !.read = read, !.phase = "layer", !.level = cells[1], !.layers = <<>>]
      BY <2>1, <2>3
    <3> HIDE DEF read, Right, cells
    <3>3. load' = [phase |-> "layer", inode |-> load.inode, header |-> load.header, sum |-> load.sum, read |-> read,
                   layers |-> <<>>, level |-> cells[1], links |-> load.links, clean |-> load.clean]
      BY <1>2, <3>2, LoadType
    <3>4. load'.phase = "layer" /\ load'.read = read /\ Kept
      BY <3>3 DEF Kept
    <3>5. "layer" \in Reading
      BY <1>6
    <3>6. load'.phase \in Reading /\ load'.read = load.read \o cells
      BY <3>4, <3>5 DEF read
    <3> QED BY <3>1, <3>4, <3>6 DEF Advances
  <2> QED BY <2>2, <2>3
<1>12. CASE ReadLayer
  <2> DEFINE degree == Ahead(1)[1]
             cells == Ahead(1 + degree)
             read == load.read \o cells
             layers == Append(load.layers, Tail(cells))
             next == IF Len(layers) <= load.level THEN load.phase ELSE "node"
             Right == /\ Available(1) /\ DegreeAllowed(degree, Len(load.layers)) /\ degree <= Remaining(1)
                      /\ Available(1 + degree) /\ NeighborsAllowed(Tail(cells), Len(index.graph) + 1)
  <2>1. IF Right THEN load' = [load EXCEPT !.read = read, !.links = @ + degree, !.layers = layers, !.phase = next]
        ELSE Reject
    BY <1>12 DEF ReadLayer
  <2>2. CASE ~Right
    <3>1. Reject
      BY <2>1, <2>2
    <3> QED BY <3>1, RejectedPart
  <2>3. CASE Right
    <3>1. cells \in Seq(Nat)
      <4>1. 1 \in Nat /\ 1 \in 1..1 /\ Available(1) /\ Available(1 + degree)
        BY <2>3
      <4>2. \A i \in 1..1 : Ahead(1)[i] \in Nat
        BY <1>2, <1>3, <4>1, AheadType
      <4>3. 1 + degree \in Nat
        BY <4>1, <4>2
      <4> HIDE DEF degree
      <4> QED BY <1>4, <4>1, <4>3
    <3>2. load' = [load EXCEPT !.read = read, !.links = @ + degree, !.layers = layers, !.phase = next]
      BY <2>1, <2>3
    <3>5. next \in Reading
      <4>1. load.phase = "layer"
        BY <1>12 DEF ReadLayer
      <4> QED BY <1>6, <4>1
    <3> HIDE DEF read, Right, cells, layers, next, degree
    <3>3. load' = [phase |-> next, inode |-> load.inode, header |-> load.header, sum |-> load.sum, read |-> read,
                   layers |-> layers, level |-> load.level, links |-> load.links + degree, clean |-> load.clean]
      BY <1>2, <3>2, LoadType
    <3>4. load'.phase = next /\ load'.read = read /\ Kept
      BY <3>3 DEF Kept
    <3>6. load'.phase \in Reading /\ load'.read = load.read \o cells
      BY <3>4, <3>5 DEF read
    <3> QED BY <3>1, <3>4, <3>6 DEF Advances
  <2> QED BY <2>2, <2>3
<1>13. CASE CheckGraph
  <2> DEFINE next == IF load.header.version = 3 THEN "tombstones" ELSE "random"
  <2>1. Reject \/ Accept(none, next, index)
    BY <1>13 DEF CheckGraph, Declared, none
  <2>2. next \in Reading
    BY <1>6
  <2> HIDE DEF next
  <2> QED BY <1>2, <1>5, <2>1, <2>2, RejectedPart, AcceptedAdvances
<1>14. CASE ReadTombstones
  <2> DEFINE n == 1 + load.header.count
             y == [index EXCEPT !.deleted = Tail(Ahead(n)),
                                !.deletedCount = Cardinality({i \in 1..load.header.count : Tail(Ahead(n))[i] = 1})]
  <2>1. Reject \/ (Available(n) /\ Accept(Ahead(n), "random", y))
    BY <1>14 DEF ReadTombstones, Declared
  <2>2. n \in Nat
    BY <1>3
  <2> HIDE DEF y, n
  <2>3. "random" \in Reading
    BY <1>6
  <2> QED BY <1>2, <1>4, <2>1, <2>2, <2>3, RejectedPart, AcceptedAdvances
<1>15. CASE ReadRandom
  <2> DEFINE n == 1 + Ahead(1)[1]
             y == [index EXCEPT !.random = Ahead(2)[2]]
  <2>1. Reject \/ Accept(none, "sum", index) \/ (Ahead(1)[1] \in 1..MaxRandom /\ Available(n) /\ Accept(Ahead(n), "sum", y))
    BY <1>15 DEF ReadRandom, Declared, none
  <2>2. Ahead(1)[1] \in 1..MaxRandom => n \in Nat
    BY WordsAssumption
  <2> HIDE DEF y, n
  <2>3. "sum" \in Reading
    BY <1>6
  <2> QED BY <1>2, <1>4, <1>5, <2>1, <2>2, <2>3, RejectedPart, AcceptedAdvances
<1> QED BY <1>1, <1>9, <1>10, <1>11, <1>12, <1>13, <1>14, <1>15 DEF PartStep

\* A clean load follows the index that it reads.
LEMMA CleanFollows ==
  ASSUME FilesAreTyped, SavedIsSound, NEW x \in saved, NEW v \in Versions, IsClean(x, v), load.phase \in Reading
  PROVE  IsSoundIndex(x) /\ x \in Indexes /\ Follows(x, v) /\ files[load.inode].payload = Payload(x, v)
<1>1. IsSoundIndex(x) /\ x \in Indexes
  BY DEF SavedIsSound, IsSoundIndex, IsIndex
<1>2. load.phase # "header"
  BY DEF Reading, Sized
<1>3. files[path].header = WrittenBefore(x, v).header /\ files[load.inode].payload = WrittenBefore(x, v).payload
  BY DEF IsClean
<1>4. WrittenBefore(x, v).payload = Payload(x, v)
  BY DEF WrittenBefore, File
<1> QED BY <1>1, <1>2, <1>3, <1>4 DEF Follows, IsClean

\* The parts of the invariant that every step of the loader keeps.
LoadedIInv == SumsAreSaved /\ LoadAgrees /\ CleanIsKept /\ LoadedWasSaved

LEMMA RejectKeeps ==
  ASSUME SumsAreSaved, Reject, ~load.clean, UNCHANGED fileVars
  PROVE  LoadedIInv'
<1>1. load'.phase = "rejected" /\ load'.clean = load.clean /\ load'.sum = <<>>
  BY RejectedPart
<1>2. SumsAreSaved'
  BY <1>1 DEF SumsAreSaved, IsSavedSum, fileVars
<1>3. LoadAgrees'
  BY <1>1 DEF LoadAgrees, Follows, Reading, Sized
<1>4. CleanIsKept'
  BY <1>1 DEF CleanIsKept
<1>5. LoadedWasSaved'
  BY <1>1 DEF LoadedWasSaved
<1> QED BY <1>2, <1>3, <1>4, <1>5 DEF LoadedIInv

LEMMA PartsKeep ==
  ASSUME FilesAreTyped, LoaderIInv, SavedIsSound, LoadedIInv, PartStep, UNCHANGED fileVars
  PROVE  LoadedIInv'
<1>1. load.phase \in Reading /\ Advances /\ AllAgree
  BY PartsAdvance, PartsAgree
<1>2. SumsAreSaved /\ LoadAgrees /\ CleanIsKept
  BY DEF LoadedIInv
<1>3. \A x \in Indexes, v \in Versions : IsSoundIndex(x) /\ Follows(x, v) => Agrees(x, v)
  BY <1>1, <1>2 DEF AllAgree, LoadAgrees
<1>4. load.clean => \E x \in saved, v \in Versions :
          IsClean(x, v) /\ IsSoundIndex(x) /\ Follows(x, v) /\ files[load.inode].payload = Payload(x, v) /\ Agrees(x, v)
  <2> SUFFICES ASSUME load.clean
               PROVE  \E x \in saved, v \in Versions :
                        /\ IsClean(x, v) /\ IsSoundIndex(x) /\ Follows(x, v)
                        /\ files[load.inode].payload = Payload(x, v) /\ Agrees(x, v)
    OBVIOUS
  <2>1. PICK x \in saved, v \in Versions : IsClean(x, v)
    BY <1>1, <1>2 DEF CleanIsKept
  <2>2. IsSoundIndex(x) /\ x \in Indexes /\ Follows(x, v) /\ files[load.inode].payload = Payload(x, v)
    BY <1>1, <2>1, CleanFollows
  <2> QED BY <1>3, <2>1, <2>2
<1>5. CASE load'.phase = "rejected"
  <2>1. load'.clean = load.clean /\ load'.sum = <<>>
    BY <1>1, <1>5 DEF Advances, Reading, Sized
  <2>2. ~load.clean
    BY <1>4, <1>5 DEF Agrees
  <2>3. SumsAreSaved'
    BY <1>2, <2>1 DEF SumsAreSaved, IsSavedSum, fileVars
  <2>4. LoadAgrees' /\ CleanIsKept' /\ LoadedWasSaved'
    BY <1>5, <2>1, <2>2 DEF LoadAgrees, CleanIsKept, LoadedWasSaved, Follows, Reading, Sized
  <2> QED BY <2>3, <2>4 DEF LoadedIInv
<1>6. CASE load'.phase # "rejected"
  <2>1. load'.phase \in Reading /\ Kept
    BY <1>1, <1>6 DEF Advances
  <2>2. PICK cells \in Seq(Nat) : load'.read = load.read \o cells
    BY <1>1, <1>6 DEF Advances
  <2>3. load'.phase \notin {"header", "size", "loaded", "closed"}
    BY <2>1 DEF Reading, Sized
  <2>4. SumsAreSaved'
    BY <1>2, <2>1 DEF SumsAreSaved, IsSavedSum, fileVars, Kept
  <2>5. ASSUME NEW x \in Indexes, NEW v \in Versions, IsSoundIndex(x), Follows(x, v)' PROVE At(x, v)'
    <3>1. load.header = WrittenBefore(x, v).header /\ Begins(load'.read, Payload(x, v))
      BY <2>1, <2>5 DEF Follows, Kept
    <3>2. Payload(x, v) \in Seq(Nat) /\ load.read \in Seq(Nat)
      <4>1. IsLoad(load)
        BY DEF LoaderIInv, LoadIsTyped
      <4> QED BY <2>5, <4>1, PayloadType, LoadType DEF IsSoundIndex
    <3>3. Begins(load.read, Payload(x, v))
      BY <2>2, <3>1, <3>2, BeginsPart
    <3>4. Follows(x, v)
      BY <1>1, <3>1, <3>3 DEF Follows
    <3>5. Agrees(x, v)
      BY <1>3, <2>5, <3>4
    <3> QED BY <1>6, <3>1, <3>5 DEF Agrees
  <2>6. LoadAgrees'
    BY <2>3, <2>5 DEF LoadAgrees
  <2>7. CleanIsKept'
    <3>1. ASSUME load'.clean PROVE writing' = NoIndex /\ \E x \in saved', v \in Versions : IsClean(x, v)'
      <4>1. load.clean
        BY <2>1, <3>1 DEF Kept
      <4>2. PICK x \in saved, v \in Versions : IsClean(x, v) /\ files[load.inode].payload = Payload(x, v) /\ Agrees(x, v)
        BY <1>4, <4>1
      <4>3. Begins(load'.read, Payload(x, v))
        BY <4>2 DEF Agrees
      <4>4. load.phase # "header"
        BY <1>1 DEF Reading, Sized
      <4>5. IsClean(x, v)'
        BY <2>1, <3>1, <4>2, <4>3, <4>4 DEF IsClean, Kept, fileVars
      <4>6. writing = NoIndex
        BY <1>1, <1>2, <4>1 DEF CleanIsKept
      <4> QED BY <4>2, <4>5, <4>6 DEF fileVars
    <3> QED BY <1>6, <3>1 DEF CleanIsKept
  <2>8. LoadedWasSaved'
    BY <2>3 DEF LoadedWasSaved
  <2> QED BY <2>4, <2>6, <2>7, <2>8 DEF LoadedIInv
<1> QED BY <1>5, <1>6

\* The parts of a file.
LEMMA WrittenParts ==
  ASSUME NEW x, NEW v
  PROVE  LET f == WrittenBefore(x, v) IN
         /\ f = [header |-> f.header, sum |-> f.sum, payload |-> f.payload]
         /\ f.header = Header(x, v, Len(Payload(x, v))) /\ f.payload = Payload(x, v)
         /\ f.sum = <<f.header, Payload(x, v)>>
BY DEF WrittenBefore, File

\* A load that is opened.
LEMMA OpenKeeps ==
  ASSUME FilesAreTyped, SavedIsSound, LoadedIInv, Open
  PROVE  LoadedIInv'
<1> DEFINE c == writing = NoIndex /\ Undisturbed(files[path])
<1>1. /\ load' = [phase |-> "header", inode |-> path, header |-> NoHeader, sum |-> <<>>, read |-> <<>>,
                  layers |-> <<>>, level |-> 0, links |-> 0, clean |-> c]
      /\ UNCHANGED fileVars
  BY DEF Open, NoLoad
<1> HIDE DEF c
<1>2. load'.phase = "header" /\ load'.inode = path /\ load'.sum = <<>> /\ load'.read = <<>> /\ (load'.clean <=> c)
  BY <1>1
<1>3. SumsAreSaved'
  BY <1>1, <1>2 DEF LoadedIInv, SumsAreSaved, IsSavedSum, fileVars
<1>4. LoadAgrees'
  BY <1>2 DEF LoadAgrees, Follows, Reading, Sized
<1>5. LoadedWasSaved'
  BY <1>2 DEF LoadedWasSaved
<1>6. ASSUME load'.clean PROVE writing' = NoIndex /\ \E x \in saved', v \in Versions : IsClean(x, v)'
  <2>1. writing = NoIndex /\ Undisturbed(files[path])
    BY <1>2, <1>6 DEF c
  <2>2. PICK x \in saved : Loadable(x) /\ files[path] \in {Written(x)} \union {WrittenBefore(x, v) : v \in Versions}
    BY <2>1 DEF Undisturbed
  <2>3. IsSoundIndex(x)
    BY DEF SavedIsSound
  <2>4. PICK v \in Versions : files[path] = WrittenBefore(x, v)
    <3>1. Written(x) = WrittenBefore(x, 3) /\ 3 \in Versions
      BY <2>3, WrittenNow DEF Versions
    <3> QED BY <2>2, <3>1
  <2>5. Begins(<<>>, Payload(x, v))
    <3>1. Payload(x, v) \in Seq(Nat)
      BY <2>3, PayloadType DEF IsSoundIndex
    <3>2. Len(Payload(x, v)) \in Nat
      BY <3>1
    <3> QED BY <3>2 DEF Begins
  <2>6. Begins(load'.read, Payload(x, v))
    BY <1>2, <2>5
  <2>7. IsClean(x, v)'
    BY <1>1, <1>2, <1>6, <2>2, <2>4, <2>6 DEF IsClean, fileVars
  <2> QED BY <1>1, <2>1, <2>7 DEF fileVars
<1>7. CleanIsKept'
  BY <1>2, <1>6 DEF CleanIsKept
<1> QED BY <1>3, <1>4, <1>5, <1>7 DEF LoadedIInv

LEMMA ReadHeaderKeeps ==
  ASSUME FilesAreTyped, LoaderIInv, SavedIsSound, LoadedIInv, ReadHeader
  PROVE  LoadedIInv'
<1> DEFINE f == files[load.inode]
<1>1. /\ SumsAreSaved /\ LoadAgrees /\ CleanIsKept
      /\ load.phase = "header" /\ load.phase \in {"header", "size"} \union Reading /\ UNCHANGED fileVars
  BY DEF LoadedIInv, ReadHeader
<1>2. IsLoad(load) /\ load.inode \in Inodes
  BY <1>1 DEF LoaderIInv, LoadIsTyped
<1>3. load.read = <<>>
  BY <1>1 DEF LoadAgrees
<1>4. ASSUME load.clean
      PROVE  ReadableHeader(f.header) /\ writing = NoIndex /\ \E x \in saved, v \in Versions : IsClean(x, v)
  <2>1. writing = NoIndex /\ \E x \in saved, v \in Versions : IsClean(x, v)
    BY <1>1, <1>4 DEF CleanIsKept
  <2>2. PICK x \in saved, v \in Versions : IsClean(x, v)
    BY <2>1
  <2>3. f = WrittenBefore(x, v) /\ Loadable(x) /\ IsSoundIndex(x)
    BY <2>2 DEF IsClean, SavedIsSound
  <2>4. ReadableHeader(f.header)
    BY <2>3, WrittenIsValid
  <2> QED BY <2>1, <2>4
<1>5. CASE ~ReadableHeader(f.header)
  <2>1. Reject
    BY <1>5 DEF ReadHeader
  <2> QED BY <1>1, <1>4, <1>5, <2>1, RejectKeeps
<1>6. CASE ReadableHeader(f.header)
  <2>1. load' = [load EXCEPT !.header = f.header, !.sum = f.sum, !.phase = "size"]
    BY <1>6 DEF ReadHeader
  <2> DEFINE h == f.header
             s == f.sum
  <2>2. load' = [load EXCEPT !.header = h, !.sum = s, !.phase = "size"]
    BY <2>1
  <2> HIDE DEF h, s
  <2>3. load' = [phase |-> "size", inode |-> load.inode, header |-> h, sum |-> s, read |-> load.read,
                 layers |-> load.layers, level |-> load.level, links |-> load.links, clean |-> load.clean]
    BY <1>2, <2>2, LoadType
  <2>4. /\ load'.phase = "size" /\ load'.inode = load.inode /\ load'.header = h /\ load'.sum = s
        /\ load'.read = load.read /\ load'.clean = load.clean
    BY <2>3
  <2>5. SumsAreSaved'
    <3>1. ~foreign => IsSavedSum(s)
      BY <1>1, <1>2 DEF SumsAreSaved, s
    <3> QED BY <1>1, <2>4, <3>1 DEF SumsAreSaved, IsSavedSum, fileVars
  <2>6. LoadAgrees'
    BY <1>3, <2>4 DEF LoadAgrees, Follows, Reading, Sized
  <2>7. ASSUME load'.clean PROVE writing' = NoIndex /\ \E x \in saved', v \in Versions : IsClean(x, v)'
    <3>1. load.clean
      BY <2>4, <2>7
    <3>2. PICK x \in saved, v \in Versions : IsClean(x, v)
      BY <1>4, <3>1
    <3>3. load.inode = path
      BY <3>2 DEF IsClean
    <3>4. h = files[path].header /\ s = files[path].sum
      BY <3>3 DEF h, s
    <3>5. IsClean(x, v)'
      BY <1>1, <2>4, <2>7, <3>2, <3>4 DEF IsClean, fileVars
    <3> QED BY <1>1, <1>4, <3>1, <3>5 DEF fileVars
  <2>8. CleanIsKept'
    BY <2>4, <2>7 DEF CleanIsKept
  <2>9. LoadedWasSaved'
    BY <2>4 DEF LoadedWasSaved
  <2> QED BY <2>5, <2>6, <2>8, <2>9 DEF LoadedIInv
<1> QED BY <1>5, <1>6

LEMMA CheckSizeKeeps ==
  ASSUME FilesAreTyped, LoaderIInv, SavedIsSound, LoadedIInv, CheckSize
  PROVE  LoadedIInv'
<1> DEFINE h == load.header
           y == Constructed(h)
           none == <<>>
           Right == ValidHeader(h, Size(files[path]))
<1>1. /\ SumsAreSaved /\ LoadAgrees /\ CleanIsKept
      /\ load.phase = "size" /\ load.phase \in {"header", "size"} \union Reading /\ UNCHANGED fileVars
  BY DEF LoadedIInv, CheckSize
<1>2. IsLoad(load)
  BY DEF LoaderIInv, LoadIsTyped
<1>3. load.read = none
  BY <1>1 DEF LoadAgrees
<1>4. ASSUME load.clean
      PROVE  Right /\ writing = NoIndex /\ \E x \in saved, v \in Versions : IsClean(x, v)
  <2>1. writing = NoIndex /\ \E x \in saved, v \in Versions : IsClean(x, v)
    BY <1>1, <1>4 DEF CleanIsKept
  <2>2. PICK x \in saved, v \in Versions : IsClean(x, v)
    BY <2>1
  <2>3. files[path] = WrittenBefore(x, v) /\ h = files[path].header /\ Loadable(x) /\ IsSoundIndex(x)
    BY <1>1, <2>2 DEF IsClean, SavedIsSound
  <2>4. ReadableHeader(h) /\ ValidHeader(h, HeaderCells + Len(Payload(x, v)))
    BY <2>3, WrittenIsValid
  <2>5. Size(files[path]) = HeaderCells + Len(Payload(x, v))
    <3>1. files[path].header # NoHeader /\ files[path].payload = Payload(x, v)
      BY <2>3, <2>4, WrittenParts DEF ReadableHeader
    <3> QED BY <3>1 DEF Size
  <2> QED BY <2>1, <2>4, <2>5
<1>10. IF Right THEN Accept(none, "ids", y) ELSE Reject
  BY DEF CheckSize, Declared
<1>5. CASE ~Right
  <2>1. Reject
    BY <1>5, <1>10
  <2> QED BY <1>1, <1>4, <1>5, <2>1, RejectKeeps
<1>6. CASE Right
  <2>1. none \in Seq(Nat)
    OBVIOUS
  <2>2. Accept(none, "ids", y)
    BY <1>6, <1>10
  <2>3. none \o none = none
    OBVIOUS
  <2> HIDE DEF none, y, Right
  <2>4. load'.phase = "ids" /\ load'.read = none /\ index' = y /\ Kept
    BY <1>2, <1>3, <2>1, <2>2, <2>3, AcceptedPart
  <2>5. SumsAreSaved'
    BY <1>1, <2>4 DEF SumsAreSaved, IsSavedSum, fileVars, Kept
  <2>6. ASSUME NEW x \in Indexes, NEW v \in Versions, IsSoundIndex(x), Follows(x, v)' PROVE At(x, v)'
    <3>1. load.header = WrittenBefore(x, v).header
      BY <2>4, <2>6 DEF Follows, Kept
    <3>2. /\ h.dimension = x.dimension /\ h.count = Len(x.ids) /\ h.m = x.m
          /\ h.efConstruction = x.efConstruction /\ h.efSearch = x.efSearch /\ h.seed = x.seed
          /\ h.selection = x.selection
      BY <2>6, <3>1, FollowedHeader
    <3>3. y = Built(x, <<>>, <<>>, <<>>, NoneDeleted(x), 0, x.seed)
      <4> HIDE DEF h
      <4> QED BY <3>2 DEF y, Constructed, Built, NoneDeleted
    <3>4. load'.read = <<>> /\ index' = Built(x, <<>>, <<>>, <<>>, NoneDeleted(x), 0, x.seed)
      BY <2>4, <3>3 DEF none
    <3>5. AtIds(x)'
      BY <3>4 DEF AtIds
    <3> QED BY <2>4, <3>5 DEF At
  <2>7. LoadAgrees'
    BY <2>4, <2>6 DEF LoadAgrees
  <2>8. ASSUME load'.clean PROVE writing' = NoIndex /\ \E x \in saved', v \in Versions : IsClean(x, v)'
    <3>1. load.clean
      BY <2>4, <2>8 DEF Kept
    <3>2. PICK x \in saved, v \in Versions : IsClean(x, v)
      BY <1>4, <3>1
    <3>3. Begins(load'.read, Payload(x, v))
      BY <1>3, <2>4, <3>2 DEF IsClean
    <3>4. IsClean(x, v)'
      BY <1>1, <2>4, <2>8, <3>2, <3>3 DEF IsClean, fileVars, Kept
    <3> QED BY <1>1, <1>4, <3>1, <3>4 DEF fileVars
  <2>9. CleanIsKept'
    BY <2>4, <2>8 DEF CleanIsKept
  <2>10. LoadedWasSaved'
    BY <2>4 DEF LoadedWasSaved
  <2> QED BY <2>5, <2>7, <2>9, <2>10 DEF LoadedIInv
<1> QED BY <1>5, <1>6

\* The index at the end of the file of x is what x is recalled as.
LEMMA RecalledIsBuilt ==
  ASSUME NEW x, IsSoundIndex(x), NEW v \in Versions, v < 3 => x.deletedCount = 0, NEW y,
         y = BuiltWith(x, v, IF v = 1 THEN x.seed ELSE x.random)
  PROVE  [y EXCEPT !.entry = x.entry, !.maxLevel = x.maxLevel] = Recalled(x, v)
<1>1. IsIndex(x) /\ Sound(x) /\ x \in Indexes
  BY DEF IsSoundIndex, IsIndex
<1> DEFINE random == IF v = 1 THEN x.seed ELSE x.random
<1>2. v # 3 => x.deleted = NoneDeleted(x) /\ x.deletedCount = 0
  <2> SUFFICES ASSUME v # 3 PROVE x.deleted = NoneDeleted(x) /\ x.deletedCount = 0
    OBVIOUS
  <2> DEFINE N == Len(x.ids)
             D == {n \in 1..N : x.deleted[n] = 1}
  <2>1. x.deletedCount = 0
    BY DEF Versions
  <2>2. Cardinality(D) = 0 /\ Len(x.deleted) = N /\ \A n \in 1..N : x.deleted[n] <= 1
    BY <1>1, <2>1 DEF Sound
  <2>3. N \in Nat /\ x.deleted \in Seq(Nat)
    BY <1>1, IndexType
  <2>4. D = {}
    <3> HIDE DEF N
    <3>1. IsFiniteSet(1..N)
      <4>1. 1 \in Int /\ N \in Int
        BY <2>3
      <4> QED BY <4>1, FS_Interval
    <3>2. D \subseteq 1..N
      OBVIOUS
    <3>3. IsFiniteSet(D)
      BY <3>1, <3>2, FS_Subset
    <3> HIDE DEF D
    <3> QED BY <2>2, <3>3, FS_EmptySet
  <2>5. ASSUME NEW n \in 1..N PROVE x.deleted[n] = 0
    <3>1. x.deleted[n] # 1 /\ x.deleted[n] <= 1
      BY <2>2, <2>4
    <3>2. x.deleted[n] \in Nat
      BY <2>2, <2>3
    <3> QED BY <3>1, <3>2
  <2>6. x.deleted = [n \in 1..N |-> x.deleted[n]]
    BY <2>2, <2>3
  <2>7. x.deleted = [n \in 1..N |-> 0]
    BY <2>5, <2>6
  <2> QED BY <2>1, <2>7 DEF NoneDeleted
<1>3. IF v = 3 THEN x.deleted = x.deleted ELSE x.deleted = NoneDeleted(x)
  BY <1>2
<1>4. y = Built(x, x.ids, x.vectors, x.graph, x.deleted, x.deletedCount, random)
  BY <1>2 DEF BuiltWith
<1>5. x = [dimension |-> x.dimension, m |-> x.m, efConstruction |-> x.efConstruction, efSearch |-> x.efSearch,
           seed |-> x.seed, selection |-> x.selection, ids |-> x.ids, vectors |-> x.vectors, graph |-> x.graph,
           deleted |-> x.deleted, deletedCount |-> x.deletedCount, entry |-> x.entry, maxLevel |-> x.maxLevel,
           random |-> x.random]
  BY <1>1 DEF Indexes
<1> HIDE DEF random
<1>9. y = [dimension |-> x.dimension, m |-> x.m, efConstruction |-> x.efConstruction, efSearch |-> x.efSearch,
           seed |-> x.seed, selection |-> x.selection, ids |-> x.ids, vectors |-> x.vectors, graph |-> x.graph,
           deleted |-> x.deleted, deletedCount |-> x.deletedCount, entry |-> 0, maxLevel |-> 0,
           random |-> random]
  BY <1>4 DEF Built
<1>6. [y EXCEPT !.entry = x.entry, !.maxLevel = x.maxLevel]
        = [dimension |-> x.dimension, m |-> x.m, efConstruction |-> x.efConstruction, efSearch |-> x.efSearch,
           seed |-> x.seed, selection |-> x.selection, ids |-> x.ids, vectors |-> x.vectors, graph |-> x.graph,
           deleted |-> x.deleted, deletedCount |-> x.deletedCount, entry |-> x.entry, maxLevel |-> x.maxLevel,
           random |-> random]
  <2> DEFINE z == [y EXCEPT !.entry = x.entry]
  <2>1. z = [dimension |-> x.dimension, m |-> x.m, efConstruction |-> x.efConstruction, efSearch |-> x.efSearch,
             seed |-> x.seed, selection |-> x.selection, ids |-> x.ids, vectors |-> x.vectors, graph |-> x.graph,
             deleted |-> x.deleted, deletedCount |-> x.deletedCount, entry |-> x.entry, maxLevel |-> 0,
             random |-> random]
    BY <1>9
  <2>2. [y EXCEPT !.entry = x.entry, !.maxLevel = x.maxLevel] = [z EXCEPT !.maxLevel = x.maxLevel]
    OBVIOUS
  <2> HIDE DEF z
  <2> QED BY <2>1, <2>2
<1>7. CASE v = 1
  <2>1. random = x.seed
    BY <1>7 DEF random
  <2> DEFINE z == [x EXCEPT !.random = x.seed]
  <2>2. z = [dimension |-> x.dimension, m |-> x.m, efConstruction |-> x.efConstruction, efSearch |-> x.efSearch,
           seed |-> x.seed, selection |-> x.selection, ids |-> x.ids, vectors |-> x.vectors, graph |-> x.graph,
           deleted |-> x.deleted, deletedCount |-> x.deletedCount, entry |-> x.entry, maxLevel |-> x.maxLevel,
           random |-> x.seed]
    BY <1>5
  <2> QED BY <1>6, <1>7, <2>1, <2>2 DEF Recalled
<1>8. CASE v # 1
  <2>1. random = x.random
    BY <1>8 DEF random
  <2> QED BY <1>5, <1>6, <1>8, <2>1 DEF Recalled
<1> QED BY <1>7, <1>8

LEMMA CheckSumKeeps ==
  ASSUME FilesAreTyped, LoaderIInv, SavedIsSound, LoadedIInv, CheckSum
  PROVE  LoadedIInv'
<1> DEFINE h == load.header
           entry == IF h.count = 0 THEN 0 ELSE h.entry
           Right == ChecksumMatches(h, load.read)
<1>1. /\ SumsAreSaved /\ LoadAgrees /\ CleanIsKept
      /\ load.phase = "sum" /\ load.phase \in Reading /\ UNCHANGED fileVars
  BY DEF LoadedIInv, CheckSum, Reading, Sized
<1>2. IsLoad(load)
  BY DEF LoaderIInv, LoadIsTyped
<1>3. ASSUME load.clean PROVE Right
  <2>1. PICK x \in saved, v \in Versions : IsClean(x, v)
    BY <1>1, <1>3 DEF CleanIsKept
  <2>2. IsSoundIndex(x) /\ x \in Indexes /\ Follows(x, v)
    BY <1>1, <2>1, CleanFollows
  <2>3. load.read = Payload(x, v)
    BY <1>1, <2>2 DEF LoadAgrees, At, AtSum
  <2>4. load.sum = files[path].sum /\ h = files[path].header /\ files[path] = WrittenBefore(x, v)
    BY <1>1, <2>1 DEF IsClean
  <2> QED BY <2>3, <2>4, WrittenParts DEF ChecksumMatches
<1>4. CASE ~Right
  <2>1. Reject
    BY <1>4 DEF CheckSum, Declared
  <2> QED BY <1>1, <1>3, <1>4, <2>1, RejectKeeps
<1>5. CASE Right
  <2>1. /\ load' = [NoLoad EXCEPT !.phase = "loaded", !.header = h, !.clean = load.clean]
        /\ index' = [index EXCEPT !.entry = entry, !.maxLevel = h.maxLevel]
    BY <1>5 DEF CheckSum, Declared
  <2>2. load' = [phase |-> "loaded", inode |-> 0, header |-> h, sum |-> <<>>, read |-> <<>>,
                 layers |-> <<>>, level |-> 0, links |-> 0, clean |-> load.clean]
    BY <2>1 DEF NoLoad
  <2>3. load'.phase = "loaded" /\ load'.sum = <<>> /\ load'.header = h
    BY <2>2
  <2>4. SumsAreSaved'
    BY <1>1, <2>3 DEF SumsAreSaved, IsSavedSum, fileVars
  <2>5. LoadAgrees' /\ CleanIsKept'
    BY <2>3 DEF LoadAgrees, CleanIsKept, Follows, Reading
  <2>6. ASSUME ~foreign PROVE \E x \in saved : index' = Recalled(x, h.version)
    <3>1. IsSavedSum(load.sum) /\ load.sum = <<h, load.read>>
      BY <1>1, <1>5, <2>6 DEF SumsAreSaved, ChecksumMatches
    <3>2. load.sum # <<>>
      BY <3>1
    <3>3. PICK x \in saved, v \in Versions : load.sum = WrittenBefore(x, v).sum /\ (v < 3 => x.deletedCount = 0)
      BY <3>1, <3>2 DEF IsSavedSum
    <3>4. IsSoundIndex(x) /\ x \in Indexes
      BY DEF SavedIsSound, IsSoundIndex, IsIndex
    <3>5. h = WrittenBefore(x, v).header /\ load.read = Payload(x, v)
      <4> DEFINE a == WrittenBefore(x, v).header
                 b == Payload(x, v)
                 r == load.read
      <4>1. <<h, r>> = <<a, b>>
        BY <3>1, <3>3, WrittenParts
      <4> HIDE DEF a, b, h, r
      <4>2. h = a /\ r = b
        BY <4>1
      <4> QED BY <4>2 DEF a, b, r
    <3>6. Begins(load.read, Payload(x, v))
      <4>1. Payload(x, v) \in Seq(Nat)
        BY <3>4, PayloadType DEF IsSoundIndex
      <4> QED BY <3>5, <4>1, BeginsFacts
    <3>7. Follows(x, v)
      BY <1>1, <3>5, <3>6 DEF Follows
    <3>8. index = BuiltWith(x, v, IF v = 1 THEN x.seed ELSE x.random)
      BY <1>1, <3>4, <3>7 DEF LoadAgrees, At, AtSum
    <3>9. /\ h.version = v /\ h.maxLevel = x.maxLevel /\ h.count = Len(x.ids)
          /\ (Len(x.ids) # 0 => h.entry = x.entry) /\ (Len(x.ids) = 0 => x.entry = 0)
      BY <3>4, <3>5, FollowedHeader
    <3>10. entry = x.entry
      BY <3>9
    <3>11. [index EXCEPT !.entry = x.entry, !.maxLevel = x.maxLevel] = Recalled(x, v)
      BY <3>3, <3>4, <3>8, RecalledIsBuilt
    <3> HIDE DEF entry, h
    <3>12. index' = Recalled(x, h.version)
      BY <2>1, <3>9, <3>10, <3>11
    <3> QED BY <3>12
  <2>7. LoadedWasSaved'
    BY <1>1, <2>3, <2>6 DEF LoadedWasSaved, fileVars
  <2> QED BY <2>4, <2>5, <2>7 DEF LoadedIInv
<1> QED BY <1>4, <1>5

\* The loader is where it was after a change of a file.
LEMMA ChangeKeeps ==
  ASSUME FilesAreTyped, LoaderIInv, LoadedIInv, saved \subseteq saved', foreign => foreign', index' = index,
         load' = [load EXCEPT !.clean = FALSE], NEW i \in Inodes, NEW f, files' = [files EXCEPT ![i] = f],
         ~foreign' => \/ f.sum = <<>>
                      \/ \E x \in saved', v \in Versions :
                            f.sum = WrittenBefore(x, v).sum /\ (v < 3 => x.deletedCount = 0)
  PROVE  LoadedIInv'
<1>1. SumsAreSaved /\ LoadAgrees /\ LoadedWasSaved
  BY DEF LoadedIInv
<1>2. IsLoad(load)
  BY DEF LoaderIInv, LoadIsTyped
<1>3. load' = [phase |-> load.phase, inode |-> load.inode, header |-> load.header, sum |-> load.sum,
               read |-> load.read, layers |-> load.layers, level |-> load.level, links |-> load.links,
               clean |-> FALSE]
  BY <1>2, LoadType
<1>4. /\ load'.phase = load.phase /\ load'.header = load.header /\ load'.sum = load.sum
      /\ load'.read = load.read /\ load'.layers = load.layers /\ load'.level = load.level /\ ~load'.clean
  BY <1>3
<1>5. \A j \in Inodes : files'[j] = IF j = i THEN f ELSE files[j]
  <2>1. files = [j \in Inodes |-> files[j]]
    BY DEF FilesAreTyped
  <2> QED BY <2>1
<1>6. SumsAreSaved'
  <2> SUFFICES ASSUME ~foreign'
               PROVE  IsSavedSum(load.sum)' /\ \A j \in Inodes : IsSavedSum(files[j].sum)'
    BY DEF SumsAreSaved, Inodes
  <2>1. IsSavedSum(load.sum) /\ \A j \in Inodes : IsSavedSum(files[j].sum)
    BY <1>1 DEF SumsAreSaved
  <2>2. IsSavedSum(load.sum)'
    BY <1>4, <2>1 DEF IsSavedSum
  <2>3. ASSUME NEW j \in Inodes PROVE IsSavedSum(files[j].sum)'
    <3>1. CASE j = i
      <4>1. files'[j] = f
        BY <1>5, <3>1
      <4> QED BY <4>1 DEF IsSavedSum
    <3>2. CASE j # i
      <4>1. files'[j] = files[j]
        BY <1>5, <3>2
      <4>2. IsSavedSum(files[j].sum)
        BY <2>1
      <4> QED BY <4>1, <4>2 DEF IsSavedSum
    <3> QED BY <3>1, <3>2
  <2> QED BY <2>2, <2>3
<1>7. LoadAgrees'
  <2>1. ASSUME NEW x \in Indexes, NEW v \in Versions, IsSoundIndex(x), Follows(x, v)' PROVE At(x, v)'
    <3>1. Follows(x, v)
      BY <1>4, <2>1 DEF Follows
    <3>2. At(x, v)
      BY <1>1, <2>1, <3>1 DEF LoadAgrees
    <3> QED BY <1>4, <3>2 DEF At, AtIds, AtVectors, AtNode, AtLayer, AtTombstones, AtRandom, AtSum
  <2> QED BY <1>1, <1>4, <2>1 DEF LoadAgrees
<1>8. CleanIsKept'
  BY <1>4 DEF CleanIsKept
<1>9. LoadedWasSaved'
  BY <1>1, <1>4 DEF LoadedWasSaved
<1> QED BY <1>6, <1>7, <1>8, <1>9 DEF LoadedIInv

\* A part of a file, and a damaged file, have its checksum or none.
LEMMA AlteredSum ==
  ASSUME NEW f, IsFile(f)
  PROVE  /\ \A n \in Nat : Prefix(f, n).sum \in {<<>>, f.sum}
         /\ \A g \in Altered(f) : g.sum \in {<<>>, f.sum}
<1>1. f = [header |-> f.header, sum |-> f.sum, payload |-> f.payload]
  BY FileType
<1>2. \A p : [f EXCEPT !.payload = p].sum = f.sum
  BY <1>1
<1>3. \A n \in Nat : Prefix(f, n).sum \in {<<>>, f.sum}
  BY <1>2 DEF Prefix
<1>4. \A n \in 0..Size(f) : n \in Nat
  OBVIOUS
<1>5. ASSUME NEW g \in Altered(f) PROVE g.sum \in {<<>>, f.sum}
  <2>1. CASE \E h \in DOMAIN f.header, c \in Cells : g = [f EXCEPT !.header[h] = c]
    BY <1>1, <2>1
  <2>2. CASE \E p \in DOMAIN f.payload, c \in Cells : g = [f EXCEPT !.payload[p] = c]
    BY <1>1, <2>2
  <2>3. CASE g = [f EXCEPT !.sum = <<>>]
    BY <1>1, <2>3
  <2>4. CASE \E c \in Cells : g = [f EXCEPT !.payload = Append(@, c)]
    BY <1>2, <2>4
  <2>5. CASE \E n \in 0..Size(f) : g = Prefix(f, n)
    BY <1>3, <1>4, <2>5
  <2> QED BY <2>1, <2>2, <2>3, <2>4, <2>5 DEF Altered
<1> QED BY <1>3, <1>5

\* The other processes.
LEMMA OthersKeep ==
  ASSUME LoadIInv, SavedIsSound, LoadedIInv, Others
  PROVE  SavedIsSound' /\ LoadedIInv'
<1>1. FilesAreTyped /\ LoaderIInv
  BY DEF LoadIInv, LoaderIInv
<1>2. /\ changes \in Nat /\ path \in Nat /\ path >= 1 /\ path <= changes + 1
      /\ MaxChanges \in Nat /\ path \in Inodes /\ IsFile(files[path])
  BY <1>1, WordsAssumption DEF FilesAreTyped, Inodes
<1>3. 3 \in Versions /\ ~(3 < 3)
  BY DEF Versions
<1>4. ASSUME NEW x, IsSoundIndex(x), NEW f, f.sum \in {<<>>, Written(x).sum}, x \in saved'
      PROVE  f.sum = <<>> \/ \E y \in saved', v \in Versions :
                                 f.sum = WrittenBefore(y, v).sum /\ (v < 3 => y.deletedCount = 0)
  <2>1. Written(x) = WrittenBefore(x, 3)
    BY <1>4, WrittenNow
  <2> QED BY <1>3, <1>4, <2>1
<1>5. ASSUME NEW x \in Disturbed, Replace(x) PROVE SavedIsSound' /\ LoadedIInv'
  <2>1. IsSoundIndex(x)
    BY <1>5, SnapshotsAssumption DEF Replace, IsSoundIndex, IsIndex
  <2>2. /\ writing = NoIndex /\ changes < MaxChanges /\ writing' = writing /\ saved' = saved \union {x} /\ foreign' = foreign
        /\ files' = [files EXCEPT ![path + 1] = Written(x)]
        /\ load' = [load EXCEPT !.clean = FALSE] /\ index' = index
    BY <1>5 DEF Replace, Change, MayChange
  <2>3. path + 1 \in Inodes
    BY <1>2, <2>2 DEF Inodes
  <2>4. SavedIsSound'
    BY <2>1, <2>2 DEF SavedIsSound
  <2> DEFINE f == Written(x)
  <2>5. f.sum = <<>> \/ \E y \in saved', v \in Versions :
                                 f.sum = WrittenBefore(y, v).sum /\ (v < 3 => y.deletedCount = 0)
    BY <1>4, <2>1, <2>2
  <2>6. files' = [files EXCEPT ![path + 1] = f]
    BY <2>2
  <2> HIDE DEF f
  <2>7. LoadedIInv'
    BY <1>1, <2>2, <2>3, <2>5, <2>6, ChangeKeeps
  <2> QED BY <2>4, <2>7
<1>6. ASSUME NEW x, IsSoundIndex(x), Save(x) PROVE SavedIsSound' /\ LoadedIInv'
  <2>1. IsFile(Written(x))
    BY <1>6, WrittenType DEF IsSoundIndex
  <2>2. PICK n \in 0..Size(Written(x)) : Change(path, Prefix(Written(x), n))
    BY <1>6 DEF Save
  <2> DEFINE f == Prefix(Written(x), n)
  <2>3. /\ writing' = x /\ saved' = saved \union {x} /\ foreign' = foreign
        /\ files' = [files EXCEPT ![path] = f]
        /\ load' = [load EXCEPT !.clean = FALSE] /\ index' = index
    BY <1>6, <2>2 DEF Save, Change
  <2>4. SavedIsSound'
    <3>1. \A y \in saved' : IsSoundIndex(y)
      BY <1>6, <2>3 DEF SavedIsSound
    <3>2. writing' \in saved'
      BY <2>3
    <3> QED BY <3>1, <3>2 DEF SavedIsSound
  <2>5. f.sum \in {<<>>, Written(x).sum}
    <3>1. n \in Nat
      OBVIOUS
    <3> QED BY <2>1, <3>1, AlteredSum
  <2> HIDE DEF f
  <2>6. f.sum = <<>> \/ \E y \in saved', v \in Versions :
                                 f.sum = WrittenBefore(y, v).sum /\ (v < 3 => y.deletedCount = 0)
    BY <1>4, <1>6, <2>3, <2>5
  <2>7. LoadedIInv'
    BY <1>1, <1>2, <2>3, <2>6, ChangeKeeps
  <2> QED BY <2>4, <2>7
<1>7. ASSUME Flush PROVE SavedIsSound' /\ LoadedIInv'
  <2> DEFINE f == Written(writing)
  <2>1. /\ writing # NoIndex /\ files' = [files EXCEPT ![path] = f] /\ writing' = NoIndex /\ path' = path
        /\ load' = load /\ index' = index /\ saved' = saved /\ foreign' = foreign
    BY <1>7 DEF Flush
  <2>2. writing \in saved /\ IsSoundIndex(writing)
    BY <2>1 DEF SavedIsSound
  <2>3. SavedIsSound'
    BY <2>1 DEF SavedIsSound
  <2>4. f.sum = <<>> \/ \E y \in saved', v \in Versions :
                                 f.sum = WrittenBefore(y, v).sum /\ (v < 3 => y.deletedCount = 0)
    BY <1>4, <2>1, <2>2
  <2> HIDE DEF f
  <2>5. \A j \in Inodes : files'[j] = IF j = path THEN f ELSE files[j]
    <3>1. files = [j \in Inodes |-> files[j]]
      BY <1>1 DEF FilesAreTyped
    <3> QED BY <1>2, <2>1, <3>1
  <2>6. SumsAreSaved /\ LoadAgrees /\ CleanIsKept /\ LoadedWasSaved
    BY DEF LoadedIInv
  <2>7. SumsAreSaved'
    <3> SUFFICES ASSUME ~foreign'
                 PROVE  IsSavedSum(load.sum)' /\ \A j \in Inodes : IsSavedSum(files[j].sum)'
      BY DEF SumsAreSaved, Inodes
    <3>1. IsSavedSum(load.sum) /\ \A j \in Inodes : IsSavedSum(files[j].sum)
      BY <2>1, <2>6 DEF SumsAreSaved
    <3>2. IsSavedSum(load.sum)'
      BY <2>1, <3>1 DEF IsSavedSum
    <3>3. ASSUME NEW j \in Inodes PROVE IsSavedSum(files[j].sum)'
      <4>1. CASE j = path
        <5>1. files'[j] = f
          BY <2>5, <4>1
        <5> QED BY <2>4, <5>1 DEF IsSavedSum
      <4>2. CASE j # path
        <5>1. files'[j] = files[j]
          BY <2>5, <4>2
        <5>2. IsSavedSum(files[j].sum)
          BY <3>1
        <5> QED BY <2>1, <5>1, <5>2 DEF IsSavedSum
      <4> QED BY <4>1, <4>2
    <3> QED BY <3>2, <3>3
  <2>8. LoadAgrees'
    BY <2>1, <2>6 DEF LoadAgrees, Follows, At, AtIds, AtVectors, AtNode, AtLayer, AtTombstones, AtRandom, AtSum
  <2>9. CleanIsKept'
    BY <2>1, <2>6 DEF CleanIsKept
  <2>10. LoadedWasSaved'
    BY <2>1, <2>6 DEF LoadedWasSaved
  <2> QED BY <2>3, <2>7, <2>8, <2>9, <2>10 DEF LoadedIInv
<1>8. ASSUME Damage PROVE SavedIsSound' /\ LoadedIInv'
  <2>1. PICK f \in Altered(files[path]) : Change(path, f)
    BY <1>8 DEF Damage
  <2>2. /\ writing' = writing /\ saved' = saved /\ foreign' = foreign /\ index' = index
        /\ files' = [files EXCEPT ![path] = f] /\ load' = [load EXCEPT !.clean = FALSE]
    BY <1>8, <2>1 DEF Damage, Change
  <2>3. SavedIsSound'
    BY <2>2 DEF SavedIsSound
  <2>4. f.sum \in {<<>>, files[path].sum}
    BY <1>2, AlteredSum
  <2>5. ~foreign => IsSavedSum(files[path].sum)
    BY <1>2 DEF LoadedIInv, SumsAreSaved
  <2>6. ~foreign' => \/ f.sum = <<>>
                     \/ \E y \in saved', v \in Versions :
                           f.sum = WrittenBefore(y, v).sum /\ (v < 3 => y.deletedCount = 0)
    BY <2>2, <2>4, <2>5 DEF IsSavedSum
  <2>7. LoadedIInv'
    BY <1>1, <1>2, <2>2, <2>6, ChangeKeeps
  <2> QED BY <2>3, <2>7
<1>9. ASSUME OtherWriter PROVE SavedIsSound' /\ LoadedIInv'
  <2>1. PICK g \in Altered(files[path]) : Change(path, [g EXCEPT !.sum = <<g.header, g.payload>>])
    BY <1>9 DEF OtherWriter
  <2> DEFINE f == [g EXCEPT !.sum = <<g.header, g.payload>>]
  <2>2. /\ writing' = writing /\ saved' = saved /\ foreign' = TRUE /\ index' = index
        /\ files' = [files EXCEPT ![path] = f] /\ load' = [load EXCEPT !.clean = FALSE]
    BY <1>9, <2>1 DEF OtherWriter, Change
  <2>3. SavedIsSound'
    BY <2>2 DEF SavedIsSound
  <2> HIDE DEF f
  <2>4. LoadedIInv'
    BY <1>1, <1>2, <2>2, ChangeKeeps
  <2> QED BY <2>3, <2>4
<1>10. load.phase = "loaded" /\ Save(index) => IsSoundIndex(index)
  <2> SUFFICES ASSUME load.phase = "loaded", Save(index) PROVE IsSoundIndex(index)
    OBVIOUS
  <2>1. index \in Indexes /\ Sound(index)
    BY LoadedIsSearchable DEF Searchable, LoadedIsSound
  <2>2. Savable(index)
    BY DEF Save
  <2> QED BY <2>1, <2>2 DEF IsSoundIndex, IsIndex
<1>11. \A x \in Disturbed : Save(x) => IsSoundIndex(x)
  BY SnapshotsAssumption DEF Save, IsSoundIndex, IsIndex
<1> QED BY <1>5, <1>6, <1>7, <1>8, <1>9, <1>10, <1>11 DEF Others

\* The loader leaves the files, and what was saved, alone.
LEMMA LoadKeeps ==
  ASSUME LoadIInv, SavedIsSound, LoadedIInv, Load
  PROVE  SavedIsSound' /\ LoadedIInv'
<1>1. FilesAreTyped /\ LoaderIInv
  BY DEF LoadIInv, LoaderIInv
<1>2. UNCHANGED fileVars
  BY DEF Load, Open, ReadHeader, CheckSize, ReadIds, ReadVectors, ReadLevel, ReadLayer, CheckGraph,
         ReadTombstones, ReadRandom, CheckSum
<1>3. SavedIsSound'
  BY <1>2 DEF SavedIsSound, fileVars
<1>4. LoadedIInv'
  <2>1. CASE PartStep
    BY <1>1, <1>2, <2>1, PartsKeep
  <2>2. CASE Open
    BY <1>1, <2>2, OpenKeeps
  <2>3. CASE ReadHeader
    BY <1>1, <2>3, ReadHeaderKeeps
  <2>4. CASE CheckSize
    BY <1>1, <2>4, CheckSizeKeeps
  <2>5. CASE CheckSum
    BY <1>1, <2>5, CheckSumKeeps
  <2> QED BY <2>1, <2>2, <2>3, <2>4, <2>5 DEF Load, PartStep
<1> QED BY <1>3, <1>4

LEMMA InitSavedIInv ==
  ASSUME Init
  PROVE  SavedIsSound /\ LoadedIInv
<1>1. PICK x \in Snapshots, v \in Versions :
         /\ Savable(x) /\ (v < 3 => x.deletedCount = 0)
         /\ files = [i \in Inodes |-> IF v = 3 THEN Written(x) ELSE WrittenBefore(x, v)]
         /\ saved = {x}
  BY DEF Init
<1>2. IsSoundIndex(x)
  BY <1>1, SnapshotsAssumption DEF IsSoundIndex, IsIndex
<1>3. writing = NoIndex /\ load.phase = "closed" /\ load.sum = <<>>
  BY DEF Init, NoLoad
<1>4. SavedIsSound
  BY <1>1, <1>2, <1>3 DEF SavedIsSound
<1> DEFINE f == WrittenBefore(x, v)
<1>5. \A i \in Inodes : files[i] = f
  <2>1. Written(x) = WrittenBefore(x, 3)
    BY <1>2, WrittenNow
  <2> QED BY <1>1, <2>1
<1>6. IsSavedSum(f.sum)
  BY <1>1 DEF IsSavedSum
<1> HIDE DEF f
<1>7. SumsAreSaved
  BY <1>3, <1>5, <1>6 DEF SumsAreSaved, IsSavedSum
<1>8. LoadAgrees /\ CleanIsKept /\ LoadedWasSaved
  BY <1>3 DEF LoadAgrees, CleanIsKept, LoadedWasSaved, Follows, Reading, Sized
<1> QED BY <1>4, <1>7, <1>8 DEF LoadedIInv

LEMMA StepSavedIInv ==
  ASSUME LoadIInv, SavedIsSound, LoadedIInv, [Next]_vars
  PROVE  SavedIsSound' /\ LoadedIInv'
<1>1. CASE Next
  BY <1>1, LoadKeeps, OthersKeep DEF Next
<1>2. CASE UNCHANGED vars
  <2>1. /\ load' = load /\ index' = index /\ saved' = saved /\ foreign' = foreign /\ files' = files
        /\ path' = path /\ writing' = writing
    BY <1>2 DEF vars, fileVars
  <2>2. SumsAreSaved /\ LoadAgrees /\ CleanIsKept /\ LoadedWasSaved
    BY DEF LoadedIInv
  <2>3. SavedIsSound'
    BY <2>1 DEF SavedIsSound
  <2>4. SumsAreSaved'
    BY <2>1, <2>2 DEF SumsAreSaved, IsSavedSum, Inodes
  <2>5. LoadAgrees'
    BY <2>1, <2>2 DEF LoadAgrees, Follows, At, AtIds, AtVectors, AtNode, AtLayer, AtTombstones, AtRandom, AtSum
  <2>6. CleanIsKept'
    BY <2>1, <2>2 DEF CleanIsKept, IsClean
  <2>7. LoadedWasSaved'
    BY <2>1, <2>2 DEF LoadedWasSaved
  <2> QED BY <2>3, <2>4, <2>5, <2>6, <2>7 DEF LoadedIInv
<1> QED BY <1>1, <1>2

\* While a file is read, the loader is in step with every saved index whose
\* file the cells read so far begin, and a checksum of this program is that of a
\* saved index.
THEOREM SavedInvariance == SearchSpec => [](LoadIInv /\ SavedIInv)
<1>1. SearchInit => LoadIInv /\ SavedIsSound /\ LoadedIInv
  BY InitLoadIInv, InitSavedIInv DEF SearchInit
<1>2. LoadIInv /\ SavedIsSound /\ LoadedIInv /\ [SearchNext]_searchVars => LoadIInv' /\ SavedIsSound' /\ LoadedIInv'
  BY SearchLeavesLoad, StepLoadIInv, StepSavedIInv
<1>3. SavedIsSound /\ LoadedIInv => SavedIInv
  BY DEF SavedIInv, LoadedIInv
<1> QED BY <1>1, <1>2, <1>3, PTL DEF SearchSpec

\* load() returns an index that save() was given, with its tombstones and its
\* random state, or nothing, whatever happens to the file while it is read; and
\* it does return it when nothing happens.
THEOREM LoadedStaysSaved == SearchSpec => []LoadedIsSaved
<1>1. LoadIInv /\ SavedIInv => LoadedIsSaved
  BY DEF SavedIInv, CleanIsKept, LoadedWasSaved, LoadedIsSaved
<1> QED BY <1>1, SavedInvariance, PTL
=============================================================================
