---------------------------- MODULE VectorStore ----------------------------
(***************************************************************************)
(* The writable ownership path of VectorStore (src/src/vector_store.cpp)   *)
(* and the AddVector and BatchAdd handlers that use it: writers that hold  *)
(* mutex_ exclusively over a whole batch, and searches that hold it shared *)
(* and, when they can be cancelled, take it with try_lock_for in a loop.   *)
(* The read-only path is in SnapshotPublication.                           *)
(*                                                                         *)
(* Each insertion of a batch, and each half of a scan, is a step of its    *)
(* own, so that the lock has something to protect.  Not modelled: vectors, *)
(* scores, and which neighbours a search returns.                          *)
(***************************************************************************)
EXTENDS Naturals, Sequences, FiniteSets

CONSTANTS
    Ids,            \* vector IDs
    Stored,         \* the IDs in the index at the start
    Writers,        \* handler threads of AddVector and BatchAdd, one call each
    Readers,        \* threads that call search(), once each
    Cancellable,    \* the readers whose SearchContext is enabled()
    Jobs,           \* requests: [batch: BOOLEAN, items: sequence of [id, ok]]
    MaxBatchSize,   \* maximum_batch_size_
    None

ASSUME IdsAssumption == IsFiniteSet(Ids) /\ Stored \subseteq Ids
ASSUME ThreadsAssumption == IsFiniteSet(Readers) /\ Cancellable \subseteq Readers /\ None \notin Writers
ASSUME JobsAssumption ==
    /\ MaxBatchSize \in Nat \ {0}
    /\ \A j \in Jobs : /\ j.batch \in BOOLEAN
                       /\ j.items \in Seq([id : Ids, ok : BOOLEAN])
                       /\ ~j.batch => Len(j.items) = 1

VARIABLES
    index,      \* the IDs in writable_index_
    inserted,   \* inserted_vectors_
    exclusive,  \* the writer that holds mutex_, or None
    shared,     \* the readers that hold mutex_
    writer,     \* where each writer is
    job,        \* its request
    done,       \* how many items of the request it has inserted
    added,      \* the IDs it has inserted
    status,     \* the status its RPC returned, or None
    sized,      \* the index_size of its response
    reader,     \* where each search() is
    seen,       \* the IDs a scan has found in the index
    cancelled,  \* the readers whose cancellation or deadline has come
    queries     \* successful_queries_ and failed_queries_

store == <<index, inserted, exclusive>>
writing == <<writer, job, done, added, status, sized>>
reading == <<shared, reader, seen, cancelled, queries>>
vars == <<store, writing, reading>>

Codes == {"OK", "INVALID_ARGUMENT", "RESOURCE_EXHAUSTED", "INTERNAL", "CANCELLED"}

\* An RPC that has not returned has no status.
ASSUME CodesAssumption == None \notin Codes

\* Type invariant.
TypeOK ==
    /\ index \subseteq Ids
    /\ inserted \in 0..Cardinality(Ids)
    /\ exclusive \in Writers \union {None}
    /\ shared \subseteq Readers
    /\ writer \in [Writers -> {"idle", "locking", "writing", "sizing", "returned"}]
    /\ job \in [Writers -> Jobs \union {None}]
    /\ done \in [Writers -> Nat]
    /\ added \in [Writers -> SUBSET Ids]
    /\ status \in [Writers -> Codes \union {None}]
    /\ sized \in [Writers -> 0..Cardinality(Ids)]
    /\ reader \in [Readers -> {"idle", "locking", "checking", "scanning", "scanned", "throwing", "returned"}]
    /\ seen \in [Readers -> SUBSET Ids]
    /\ cancelled \subseteq Cancellable
    /\ queries \in [{"successful", "failed"} -> 0..Cardinality(Readers)]

Init ==
    /\ index = Stored
    /\ inserted = 0
    /\ exclusive = None
    /\ shared = {}
    /\ writer = [w \in Writers |-> "idle"]
    /\ job = [w \in Writers |-> None]
    /\ done = [w \in Writers |-> 0]
    /\ added = [w \in Writers |-> {}]
    /\ status = [w \in Writers |-> None]
    /\ sized = [w \in Writers |-> 0]
    /\ reader = [r \in Readers |-> "idle"]
    /\ seen = [r \in Readers |-> {}]
    /\ cancelled = {}
    /\ queries = [q \in {"successful", "failed"} |-> 0]

-----------------------------------------------------------------------------
(* AddVector and BatchAdd *)

Returns(w, code) ==
    /\ writer' = [writer EXCEPT ![w] = "returned"]
    /\ status' = [status EXCEPT ![w] = code]

Distinct(items) == \A i, j \in 1..Len(items) : items[i].id = items[j].id => i = j

\* Mutation: validation leaves the vectors to the index.
ValidIds(j) == Distinct(j.items)

\* What validate_batch accepts, apart from its size: no ID twice, and vectors
\* of the right dimension that can be normalised.
Valid(j) == Distinct(j.items) /\ \A i \in 1..Len(j.items) : j.items[i].ok

\* context->IsCancelled() at the start of the handler.
CallCancelled(w) ==
    /\ writer[w] = "idle"
    /\ Returns(w, "CANCELLED")
    /\ UNCHANGED <<store, job, done, added, sized, reading>>

\* A single vector goes to the lock; a batch is validated before it.
Call(w, j) ==
    /\ writer[w] = "idle"
    /\ j.batch => Len(j.items) <= MaxBatchSize /\ Valid(j)
    /\ job' = [job EXCEPT ![w] = j]
    /\ writer' = [writer EXCEPT ![w] = "locking"]
    /\ UNCHANGED <<store, done, added, status, sized, reading>>

Refuse(w, j) ==
    /\ writer[w] = "idle"
    /\ j.batch
    /\ \/ Len(j.items) > MaxBatchSize /\ Returns(w, "RESOURCE_EXHAUSTED")
       \/ Len(j.items) <= MaxBatchSize /\ ~Valid(j) /\ Returns(w, "INVALID_ARGUMENT")
    /\ job' = [job EXCEPT ![w] = j]
    /\ UNCHANGED <<store, done, added, sized, reading>>

\* mutex_ can be taken exclusively.
Free == exclusive = None /\ shared = {}

Lock(w) ==
    /\ writer[w] = "locking"
    /\ Free
    /\ exclusive' = w
    /\ writer' = [writer EXCEPT ![w] = "writing"]
    /\ UNCHANGED <<index, inserted, job, done, added, status, sized, reading>>

\* The item whose turn it is.
More(w) == done[w] < Len(job[w].items)
Item(w) == job[w].items[done[w] + 1]

\* VectorIndex::add accepts the item.
Insertable(w) == Item(w).ok /\ Item(w).id \notin index

\* The counter after one insertion.
Counted(w) == inserted + 1

Add(w) ==
    /\ writer[w] = "writing"
    /\ More(w)
    /\ Insertable(w)
    /\ index' = index \union {Item(w).id}
    /\ inserted' = Counted(w)
    /\ added' = [added EXCEPT ![w] = @ \union {Item(w).id}]
    /\ done' = [done EXCEPT ![w] = @ + 1]
    /\ UNCHANGED <<exclusive, writer, job, status, sized, reading>>

\* index->add throws: an existing ID, a malformed single vector, or no memory.
AddThrows(w) ==
    /\ writer[w] = "writing"
    /\ More(w)
    /\ \/ ~Insertable(w) /\ Returns(w, "INVALID_ARGUMENT")
       \/ Returns(w, "INTERNAL")
    /\ exclusive' = None
    /\ UNCHANGED <<index, inserted, job, done, added, sized, reading>>

Unlock(w) ==
    /\ writer[w] = "writing"
    /\ ~More(w)
    /\ exclusive' = None
    /\ writer' = [writer EXCEPT ![w] = "sizing"]
    /\ UNCHANGED <<index, inserted, job, done, added, status, sized, reading>>

\* store_->stats().index_size for the response, under a shared lock.
Size(w) ==
    /\ writer[w] = "sizing"
    /\ exclusive = None
    /\ sized' = [sized EXCEPT ![w] = Cardinality(index)]
    /\ Returns(w, "OK")
    /\ UNCHANGED <<store, job, done, added, reading>>

-----------------------------------------------------------------------------
(* search() *)

\* Cancellation by the client, the deadline or a stopping executor.
Cancel(r) ==
    /\ r \in Cancellable \ cancelled
    /\ cancelled' = cancelled \union {r}
    /\ UNCHANGED <<store, writing, shared, reader, seen, queries>>

\* Entry: validate() and check(), and an expected snapshot that a writable
\* store cannot have.
Search(r) ==
    /\ reader[r] = "idle"
    /\ \/ r \notin cancelled /\ reader' = [reader EXCEPT ![r] = "locking"]
       \/ reader' = [reader EXCEPT ![r] = "throwing"]
    /\ UNCHANGED <<store, writing, shared, seen, cancelled, queries>>

\* Mutation: a search does not wait for the writer.
AnyTime == TRUE

\* mutex_ can be taken shared.
FreeOfWriters == exclusive = None

LockShared(r) ==
    /\ reader[r] = "locking"
    /\ FreeOfWriters
    /\ shared' = shared \union {r}
    /\ reader' = [reader EXCEPT ![r] = "checking"]
    /\ UNCHANGED <<store, writing, seen, cancelled, queries>>

\* Mutation: the lock is awaited without looking at the context.
PollsNever(r) == FALSE

\* The context ends the wait: try_lock_for runs out and check() throws.
Polls(r) == r \in cancelled

TimedOut(r) ==
    /\ reader[r] = "locking"
    /\ exclusive # None
    /\ Polls(r)
    /\ reader' = [reader EXCEPT ![r] = "throwing"]
    /\ UNCHANGED <<store, writing, shared, seen, cancelled, queries>>

\* check() under the lock, then the scan begins.
BeginScan(r) ==
    /\ reader[r] = "checking"
    /\ r \notin cancelled
    /\ seen' = [seen EXCEPT ![r] = index]
    /\ reader' = [reader EXCEPT ![r] = "scanning"]
    /\ UNCHANGED <<store, writing, shared, cancelled, queries>>

\* The scan ends and the lock with its scope.
EndScan(r) ==
    /\ reader[r] = "scanning"
    /\ shared' = shared \ {r}
    /\ reader' = [reader EXCEPT ![r] = "scanned"]
    /\ UNCHANGED <<store, writing, seen, cancelled, queries>>

\* check() or the index throws under the lock; unwinding releases it.
ScanThrows(r) ==
    /\ \/ reader[r] = "checking" /\ r \in cancelled
       \/ reader[r] = "scanning"
    /\ shared' = shared \ {r}
    /\ reader' = [reader EXCEPT ![r] = "throwing"]
    /\ UNCHANGED <<store, writing, seen, cancelled, queries>>

\* The last check(), and the counter of successes.
Answer(r) ==
    /\ reader[r] = "scanned"
    /\ IF r \in cancelled
       THEN reader' = [reader EXCEPT ![r] = "throwing"] /\ queries' = queries
       ELSE /\ reader' = [reader EXCEPT ![r] = "returned"]
            /\ queries' = [queries EXCEPT !["successful"] = @ + 1]
    /\ UNCHANGED <<store, writing, shared, seen, cancelled>>

\* catch (...): count the failure and rethrow.
Rethrow(r) ==
    /\ reader[r] = "throwing"
    /\ reader' = [reader EXCEPT ![r] = "returned"]
    /\ queries' = [queries EXCEPT !["failed"] = @ + 1]
    /\ UNCHANGED <<store, writing, shared, seen, cancelled>>

-----------------------------------------------------------------------------

Reader(r) ==
    LockShared(r) \/ TimedOut(r) \/ BeginScan(r) \/ EndScan(r) \/ ScanThrows(r) \/ Answer(r) \/ Rethrow(r)

Next ==
    \/ \E w \in Writers :
        \/ CallCancelled(w)
        \/ \E j \in Jobs : Call(w, j) \/ Refuse(w, j)
        \/ Lock(w) \/ Add(w) \/ AddThrows(w) \/ Unlock(w) \/ Size(w)
    \/ \E r \in Readers : Cancel(r) \/ Search(r) \/ Reader(r)

Spec == Init /\ [][Next]_vars

\* A search that can take a step does.  Nothing is assumed of the writers: an
\* insertion takes as long as it takes.
FairSpec == Spec /\ \A r \in Readers : WF_vars(Reader(r))

-----------------------------------------------------------------------------

\* The state is well typed, and between two critical sections inserted_vectors_
\* is the growth of the index, whatever was split by a failure: stats() never
\* reports one without the other.
SizeIsAccounted ==
    /\ TypeOK
    /\ exclusive = None => Cardinality(index) = Cardinality(Stored) + inserted

\* A batch that fails after its first insertion was split by an ID that the
\* index holds, or by an allocation failure, never by a record that
\* validate_batch should have refused before the lock.
BatchIsSplitByExistingIds ==
    \A w \in Writers :
        status[w] = "INVALID_ARGUMENT" /\ added[w] # {} => Item(w).ok /\ Item(w).id \in index

\* What a batch that was split has left is counted, and only IDs that exist, or
\* an allocation, split one.
BatchesAreAccounted == SizeIsAccounted /\ BatchIsSplitByExistingIds

\* A search finds all of a batch that succeeds, or nothing of it.
ReadersSeeWholeBatches ==
    \A w \in Writers, r \in Readers :
        writer[w] = "sizing" \/ status[w] = "OK" =>
            added[w] \subseteq seen[r] \/ added[w] \intersect seen[r] = {}

\* A search that can be cancelled returns once it is, even when a writer never
\* gives the lock back.
CancelledSearchReturns ==
    \A r \in Cancellable : r \in cancelled /\ reader[r] # "idle" ~> reader[r] = "returned"
=============================================================================
