--------------------------- MODULE MCVectorStore ---------------------------
(* A model-checking instance of VectorStore: one ID is stored already, and *)
(* the requests include one that repeats it, one that repeats an ID of its *)
(* own, a malformed record in second place, and one that is too long.      *)
EXTENDS VectorStore

CONSTANTS w1, w2, r1, r2

MCWriters == {w1, w2}
MCReaders == {r1, r2}
MCCancellable == {r1}

Good(i) == [id |-> i, ok |-> TRUE]
Malformed(i) == [id |-> i, ok |-> FALSE]
Batch(items) == [batch |-> TRUE, items |-> items]

MCJobs ==
    {[batch |-> FALSE, items |-> <<Good(1)>>], [batch |-> FALSE, items |-> <<Malformed(2)>>],
     Batch(<<Good(1), Good(2)>>), Batch(<<Good(2), Good(3)>>), Batch(<<Good(2), Good(0)>>),
     Batch(<<Good(2), Good(2)>>), Batch(<<Good(1), Malformed(3)>>),
     Batch(<<Good(1), Good(2), Good(3)>>)}
=============================================================================
