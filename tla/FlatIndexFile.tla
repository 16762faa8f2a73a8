--------------------------- MODULE FlatIndexFile ---------------------------
(***************************************************************************)
(* The file of the exact index (src/src/flat_index_io.cpp) as operators:   *)
(* what save() writes, and what load() makes of a file.                    *)
(*                                                                         *)
(* A file has one cell for each number; sizes count cells.  The checksum   *)
(* is ideal and covers the payload only.  The components of a vector are   *)
(* whole numbers.                                                          *)
(***************************************************************************)
EXTENDS Naturals, Sequences, SequencesExt

FlatFormat == 0         \* magic, version, header size, byte order and flags

\* payload_size
FlatPayloadSize(count, dimension) == count + count * dimension

\* save() of an index with the given rows.
FlatSaved(dimension, ids, rows) ==
    LET cells == ids \o FlattenSeq(rows) IN
    [format |-> FlatFormat, dimension |-> dimension, count |-> Len(ids),
     payload |-> FlatPayloadSize(Len(ids), dimension), sum |-> cells, cells |-> cells]

FlatRow(cells, count, dimension, n) ==
    SubSeq(cells, count + (n - 1) * dimension + 1, count + n * dimension)

Squares(row) == FoldLeft(LAMBDA total, c : total + c * c, 0, row)

\* The header and the size of the file agree, IDs are distinct, vectors have
\* unit length, and the checksum is that of the payload.
FlatLoads(f) ==
    /\ f.format = FlatFormat
    /\ f.dimension # 0
    /\ f.payload = FlatPayloadSize(f.count, f.dimension)
    /\ Len(f.cells) = f.payload
    /\ IsInjective(SubSeq(f.cells, 1, f.count))
    /\ \A n \in 1..f.count : Squares(FlatRow(f.cells, f.count, f.dimension, n)) = 1
    /\ f.sum = f.cells

\* The index that load() returns.
FlatLoaded(f) ==
    [dimension |-> f.dimension, ids |-> SubSeq(f.cells, 1, f.count),
     rows |-> [n \in 1..f.count |-> FlatRow(f.cells, f.count, f.dimension, n)]]
=============================================================================
