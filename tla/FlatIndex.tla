----------------------------- MODULE FlatIndex -----------------------------
(***************************************************************************)
(* The exact index (src/src/flat_index.cpp): parallel rows of IDs and      *)
(* vectors with a map from ID to row, insertion that rolls back, deletion  *)
(* by swap and pop, and a scan with a bounded heap of candidates.          *)
(*                                                                         *)
(* A row holds the score of its vector against the query.  The dimension   *)
(* and normalisation checks, which refuse a vector before any change, the  *)
(* kernels and the polling of the context are left out.                    *)
(***************************************************************************)
EXTENDS Naturals, Sequences, FiniteSets, SequencesExt

CONSTANTS
    Ids,        \* vector IDs, ordered as the code orders them
    Scores      \* the scores a stored vector can have

ASSUME InputsAssumption == Ids \subseteq Nat /\ Scores \subseteq Nat /\ IsFiniteSet(Ids)

VARIABLES
    ids,        \* ids_
    vectors,    \* vectors_, one entry for each row
    idToRow     \* id_to_row_

vars == <<ids, vectors, idToRow>>

\* Type invariant.
TypeOK ==
    /\ ids \in Seq(Ids) /\ Len(ids) <= Cardinality(Ids)
    /\ vectors \in Seq(Scores)
    /\ DOMAIN idToRow \subseteq Ids
    /\ \A i \in DOMAIN idToRow : idToRow[i] \in 1..Len(ids)

Init == ids = <<>> /\ vectors = <<>> /\ idToRow = [i \in {} |-> 0]

-----------------------------------------------------------------------------
(* add() and erase() *)

\* emplace(id, ids_.size()) of a map that does not hold the ID.
Emplaced(i) == [j \in DOMAIN idToRow \union {i} |-> IF j = i THEN Len(ids) + 1 ELSE idToRow[j]]

Add(i, v) ==
    /\ i \notin DOMAIN idToRow
    /\ idToRow' = Emplaced(i)
    /\ ids' = Append(ids, i)
    /\ vectors' = Append(vectors, v)

\* Mutation: the last ID is taken back wherever the failure was.
PopAlways(rows, i) == SubSeq(rows, 1, Len(rows) - 1)

\* The rollback of ids_ in the handler: the last ID goes if it is the new one.
Popped(rows, i) == IF rows # <<>> /\ Last(rows) = i THEN Front(rows) ELSE rows

\* An allocation fails while the row is appended: before ids_ grows, or after
\* it, when vectors_ should.
AddThrows(i) ==
    /\ i \notin DOMAIN idToRow
    /\ \E rows \in {ids, Append(ids, i)} : ids' = Popped(rows, i)
    /\ idToRow' = [j \in DOMAIN Emplaced(i) \ {i} |-> Emplaced(i)[j]]
    /\ UNCHANGED vectors

\* Mutation: the moved ID's vector stays behind.
NotCopied(i) == vectors

\* The last row replaces row idToRow[i].
MovedRow(i) == [idToRow EXCEPT ![Last(ids)] = idToRow[i]]
MovedVector(i) == [vectors EXCEPT ![idToRow[i]] = Last(vectors)]
MovedId(i) == [ids EXCEPT ![idToRow[i]] = Last(ids)]

\* erase() when the ID is there; otherwise it returns false.
Erase(i) ==
    /\ i \in DOMAIN idToRow
    /\ LET rows == IF idToRow[i] = Len(ids) THEN idToRow ELSE MovedRow(i)
       IN  idToRow' = [j \in DOMAIN rows \ {i} |-> rows[j]]
    /\ vectors' = Front(IF idToRow[i] = Len(ids) THEN vectors ELSE MovedVector(i))
    /\ ids' = Front(IF idToRow[i] = Len(ids) THEN ids ELSE MovedId(i))

Next ==
    \/ \E i \in Ids, v \in Scores : Add(i, v)
    \/ \E i \in Ids : AddThrows(i) \/ Erase(i)

Spec == Init /\ [][Next]_vars

-----------------------------------------------------------------------------
(* search() *)

IsBetter(a, b) == IF a.score # b.score THEN a.score > b.score ELSE a.id < b.id

\* The top of the heap: the worst candidate.
Worst(S) == CHOOSE c \in S : \A d \in S \ {c} : ~IsBetter(c, d)

\* One row of the scan, for a heap of at most n candidates.
Scan(n, S, candidate) ==
    IF Cardinality(S) < n THEN S \union {candidate}
    ELSE IF IsBetter(candidate, Worst(S)) THEN (S \ {Worst(S)}) \union {candidate}
    ELSE S

Rows == [row \in 1..Len(ids) |-> [id |-> ids[row], score |-> vectors[row]]]

\* The heap after all rows.
Candidates(n) ==
    LET heap[row \in 0..Len(ids)] == IF row = 0 THEN {} ELSE Scan(n, heap[row - 1], Rows[row])
    IN  heap[Len(ids)]

\* std::sort: in place p is the one that p - 1 others are better than.
Sorted(S) == [p \in 1..Cardinality(S) |-> CHOOSE c \in S : Cardinality({d \in S : IsBetter(d, c)}) = p - 1]

Smaller(a, b) == IF a <= b THEN a ELSE b

Search(k) ==
    LET n == Smaller(k, Len(ids))
    IN  IF n = 0 THEN <<>> ELSE Sorted(Candidates(n))

-----------------------------------------------------------------------------

\* The state is well typed, and the map and the rows describe the same set of
\* vectors: every ID finds the row that holds it, and no row is without an entry.
RowsAgree ==
    /\ TypeOK
    /\ Len(vectors) = Len(ids)
    /\ Cardinality(DOMAIN idToRow) = Len(ids)
    /\ \A i \in DOMAIN idToRow : ids[idToRow[i]] = i

\* The map that the index stores, read through id_to_row_.
Map == INSTANCE VectorMap WITH content <- [i \in DOMAIN idToRow |-> vectors[idToRow[i]]]

\* Insertions, failed insertions and deletions are those of a map: a deletion
\* loses no other vector and moves none to another ID.
ImplementsMap == Map!Spec

\* The scan of the rows answers every k, up to more than there are, with the
\* exact top k of the map, ties included and in order.
SearchIsExact == \A k \in 0..(Cardinality(Ids) + 1) : Map!IsTopK(Search(k), k)

\* The tables of the index agree, so that its searches are exact.
IndexIsExact == RowsAgree /\ SearchIsExact
=============================================================================
