------------------------- MODULE VectorStoreProofs -------------------------
(***************************************************************************)
(* Proofs about the writable path of the store, for any set of writers,    *)
(* readers, requests and IDs.                                              *)
(***************************************************************************)
EXTENDS VectorStore, FiniteSetTheorems, TLAPS

\* mutex_ excludes: its holders are where the code holds it.
LockExcludes ==
    /\ exclusive # None => shared = {}
    /\ \A w \in Writers : writer[w] = "writing" <=> exclusive = w
    /\ \A r \in Readers : r \in shared <=> reader[r] \in {"checking", "scanning"}

\* Where a writer is, what it has validated and what it has done.
WriterLocals ==
    \A w \in Writers :
        /\ writer[w] \in {"idle", "locking"} => added[w] = {} /\ done[w] = 0
        /\ writer[w] # "returned" => status[w] = None
        /\ writer[w] \in {"locking", "writing", "sizing"} =>
              job[w] \in Jobs /\ (job[w].batch => Valid(job[w]))
        /\ added[w] # {} => done[w] # 0
        /\ added[w] \subseteq index

\* What a search saw was in the index, and nothing of a request in progress was.
SeenBefore ==
    /\ \A r \in Readers : seen[r] \subseteq index
    /\ \A w \in Writers, r \in Readers : writer[w] = "writing" => added[w] \intersect seen[r] = {}

\* inserted_vectors_ is the growth of the index, and every search that has
\* returned is counted once.
Returned == {r \in Readers : reader[r] = "returned"}
CountersAgree ==
    /\ Cardinality(index) = Cardinality(Stored) + inserted
    /\ queries["successful"] + queries["failed"] = Cardinality(Returned)

\* The inductive invariant.
IInv == /\ TypeOK
        /\ LockExcludes
        /\ WriterLocals
        /\ SeenBefore
        /\ CountersAgree
        /\ BatchIsSplitByExistingIds
        /\ ReadersSeeWholeBatches

\* The sets that the counters count are finite.
LEMMA Finiteness ==
  ASSUME TypeOK
  PROVE  /\ IsFiniteSet(index) /\ Cardinality(index) \in Nat /\ Cardinality(index) <= Cardinality(Ids)
         /\ IsFiniteSet(Returned) /\ Cardinality(Returned) \in Nat
         /\ Cardinality(Ids) \in Nat /\ Cardinality(Readers) \in Nat /\ Cardinality(Stored) \in Nat
<1>1. IsFiniteSet(index) /\ Cardinality(index) <= Cardinality(Ids)
  BY IdsAssumption, FS_Subset DEF TypeOK
<1>2. IsFiniteSet(Returned) /\ IsFiniteSet(Stored)
  BY IdsAssumption, ThreadsAssumption, FS_Subset DEF Returned
<1> QED BY <1>1, <1>2, IdsAssumption, ThreadsAssumption, FS_CardinalityType

\* A search that returns is one more that has, and never one too many.
LEMMA OneMoreReturned ==
  ASSUME TypeOK, NEW r \in Readers, reader[r] # "returned",
         reader' = [reader EXCEPT ![r] = "returned"]
  PROVE  /\ Cardinality(Returned') = Cardinality(Returned) + 1
         /\ Cardinality(Returned) + 1 <= Cardinality(Readers)
<1>1. Returned' = Returned \union {r} /\ r \notin Returned /\ Returned' \subseteq Readers
  BY DEF Returned, TypeOK
<1>2. Cardinality(Returned') = Cardinality(Returned) + 1
  BY <1>1, Finiteness, FS_AddElement
<1>3. Cardinality(Returned') <= Cardinality(Readers)
  BY <1>1, ThreadsAssumption, FS_Subset
<1> QED BY <1>2, <1>3

\* The item whose turn it is, is one of the request's.
LEMMA ItemIsARecord ==
  ASSUME TypeOK, WriterLocals, NEW w \in Writers, writer[w] = "writing", More(w)
  PROVE  /\ job[w].items \in Seq([id : Ids, ok : BOOLEAN])
         /\ done[w] + 1 \in 1..Len(job[w].items)
         /\ Item(w) \in [id : Ids, ok : BOOLEAN]
<1>1. job[w] \in Jobs /\ done[w] \in Nat
  BY DEF WriterLocals, TypeOK
<1>2. job[w].items \in Seq([id : Ids, ok : BOOLEAN])
  BY <1>1, JobsAssumption
<1>3. done[w] + 1 \in 1..Len(job[w].items)
  BY <1>1, <1>2 DEF More
<1>4. ASSUME NEW S, NEW s \in Seq(S), NEW i \in 1..Len(s) PROVE s[i] \in S
  OBVIOUS
<1> QED BY <1>2, <1>3, <1>4 DEF Item

\* An insertion makes the index one larger, within the IDs there are.
LEMMA OneMoreStored ==
  ASSUME IInv, NEW w \in Writers, Add(w)
  PROVE  /\ Item(w).id \in Ids /\ Item(w).id \notin index
         /\ Cardinality(index') = Cardinality(index) + 1
         /\ Cardinality(index) + 1 <= Cardinality(Ids)
<1>1. index' = index \union {Item(w).id} /\ Item(w).id \notin index /\ More(w) /\ writer[w] = "writing"
  BY DEF Add, Insertable
<1>2. Item(w).id \in Ids
  BY <1>1, ItemIsARecord DEF IInv
<1>3. Cardinality(index') = Cardinality(index) + 1
  BY <1>1, Finiteness, FS_AddElement DEF IInv
<1>4. Cardinality(index') <= Cardinality(Ids)
  <2>1. index' \subseteq Ids
    BY <1>1, <1>2 DEF IInv, TypeOK
  <2> QED BY <2>1, IdsAssumption, FS_Subset
<1> QED BY <1>1, <1>2, <1>3, <1>4

\* Every step keeps the state well typed and the counters right.
LEMMA CountersStep ==
  ASSUME IInv, [Next]_vars
  PROVE  TypeOK' /\ CountersAgree'
<1>0. TypeOK /\ CountersAgree
  BY DEF IInv
<1>n. /\ Cardinality(index) \in Nat /\ Cardinality(index) <= Cardinality(Ids)
      /\ Cardinality(Returned) \in Nat /\ Cardinality(Readers) \in Nat
      /\ Cardinality(Ids) \in Nat /\ Cardinality(Stored) \in Nat /\ inserted \in Nat
      /\ queries["successful"] \in Nat /\ queries["failed"] \in Nat
  BY <1>0, Finiteness DEF TypeOK
<1>1. ASSUME NEW w \in Writers, NEW j \in Jobs, Call(w, j) \/ Refuse(w, j) PROVE TypeOK' /\ CountersAgree'
  <2>1. UNCHANGED <<store, done, added, sized, reading>> /\ job' = [job EXCEPT ![w] = j]
    BY <1>1 DEF Call, Refuse
  <2>2. /\ writer' \in [Writers -> {"idle", "locking", "writing", "sizing", "returned"}]
        /\ status' \in [Writers -> Codes \union {None}]
    BY <1>0, <1>1 DEF Call, Refuse, Returns, TypeOK, Codes
  <2>3. TypeOK'
    BY <1>0, <2>1, <2>2 DEF TypeOK, store, reading
  <2> QED BY <1>0, <2>1, <2>3 DEF CountersAgree, Returned, store, reading
<1>2. ASSUME NEW w \in Writers, CallCancelled(w) \/ Lock(w) \/ AddThrows(w) \/ Unlock(w)
      PROVE  TypeOK' /\ CountersAgree'
  <2>1. UNCHANGED <<index, inserted, queries, reader>>
    BY <1>2 DEF CallCancelled, Lock, AddThrows, Unlock, store, reading
  <2>2. TypeOK'
    BY <1>0, <1>2 DEF CallCancelled, Lock, AddThrows, Unlock, Returns, TypeOK, Codes, store, reading
  <2> QED BY <1>0, <2>1, <2>2 DEF CountersAgree, Returned
<1>3. ASSUME NEW w \in Writers, Add(w) PROVE TypeOK' /\ CountersAgree'
  <2>0. /\ Item(w).id \in Ids /\ Cardinality(index') = Cardinality(index) + 1
        /\ Cardinality(index) + 1 <= Cardinality(Ids)
    BY <1>3, OneMoreStored
  <2>1. /\ index' \subseteq Ids /\ inserted' = inserted + 1
        /\ Cardinality(index') = Cardinality(index) + 1 /\ inserted + 1 \in 0..Cardinality(Ids)
    BY <1>0, <1>n, <1>3, <2>0 DEF Add, Counted, TypeOK, CountersAgree
  <2>2. done' \in [Writers -> Nat] /\ added' \in [Writers -> SUBSET Ids]
    BY <1>0, <1>3, <2>0 DEF Add, TypeOK
  <2>3. UNCHANGED <<exclusive, writer, job, status, sized, reading>>
    BY <1>3 DEF Add
  <2>4. TypeOK'
    BY <1>0, <2>1, <2>2, <2>3 DEF TypeOK, reading
  <2>5. CountersAgree'
    BY <1>0, <1>n, <2>1, <2>3 DEF CountersAgree, Returned, reading
  <2> QED BY <2>4, <2>5
<1>4. ASSUME NEW w \in Writers, Size(w) PROVE TypeOK' /\ CountersAgree'
  BY <1>0, <1>n, <1>4 DEF Size, Returns, TypeOK, CountersAgree, Returned, Codes, store, reading
<1>5. ASSUME NEW r \in Readers, Cancel(r) PROVE TypeOK' /\ CountersAgree'
  BY <1>0, <1>5 DEF Cancel, TypeOK, CountersAgree, Returned, store, writing
<1>6. ASSUME NEW r \in Readers, Search(r) \/ LockShared(r) \/ TimedOut(r) \/ BeginScan(r) \/ EndScan(r)
                                \/ ScanThrows(r) \/ (Answer(r) /\ r \in cancelled)
      PROVE  TypeOK' /\ CountersAgree'
  <2>1. TypeOK' /\ UNCHANGED <<index, inserted, queries>>
    BY <1>0, <1>6 DEF Search, LockShared, TimedOut, BeginScan, EndScan, ScanThrows, Answer, TypeOK, store, writing
  <2>2. Returned' = Returned
    BY <1>0, <1>6 DEF Search, LockShared, TimedOut, BeginScan, EndScan, ScanThrows, Answer, TypeOK, Returned
  <2> QED BY <1>0, <2>1, <2>2 DEF CountersAgree
<1>7. ASSUME NEW r \in Readers, (Answer(r) /\ r \notin cancelled) \/ Rethrow(r) PROVE TypeOK' /\ CountersAgree'
  <2>1. /\ reader[r] # "returned" /\ reader' = [reader EXCEPT ![r] = "returned"]
        /\ UNCHANGED <<store, writing, shared, seen, cancelled>>
    BY <1>7 DEF Answer, Rethrow
  <2>2. PICK q \in {"successful", "failed"} : queries' = [queries EXCEPT ![q] = @ + 1]
    BY <1>7 DEF Answer, Rethrow
  <2>3. /\ Cardinality(Returned') = Cardinality(Returned) + 1
        /\ Cardinality(Returned) + 1 <= Cardinality(Readers)
    BY <1>0, <2>1, OneMoreReturned
  <2>4. queries' \in [{"successful", "failed"} -> 0..Cardinality(Readers)]
    BY <1>0, <1>n, <2>2, <2>3 DEF TypeOK, CountersAgree
  <2>5. TypeOK'
    BY <1>0, <2>1, <2>4 DEF TypeOK, store, writing
  <2>6. queries'["successful"] + queries'["failed"] = Cardinality(Returned')
    BY <1>0, <1>n, <2>2, <2>3 DEF TypeOK, CountersAgree
  <2> QED BY <1>0, <2>1, <2>5, <2>6 DEF CountersAgree, store
<1>8. CASE UNCHANGED vars
  BY <1>0, <1>8 DEF vars, store, writing, reading, TypeOK, CountersAgree, Returned
<1> QED BY <1>1, <1>2, <1>3, <1>4, <1>5, <1>6, <1>7, <1>8 DEF Next, Reader

\* Every step keeps the holders of mutex_ where the code holds it.
LEMMA LockStep ==
  ASSUME IInv, [Next]_vars
  PROVE  LockExcludes'
<1>0. TypeOK /\ LockExcludes
  BY DEF IInv
<1> USE ThreadsAssumption DEF LockExcludes
<1>1. ASSUME NEW w \in Writers, NEW j \in Jobs, Call(w, j) \/ Refuse(w, j) PROVE LockExcludes'
  BY <1>0, <1>1 DEF Call, Refuse, Returns, TypeOK, store, reading
<1>2. ASSUME NEW w \in Writers, CallCancelled(w) \/ Add(w) \/ Size(w) PROVE LockExcludes'
  BY <1>0, <1>2 DEF CallCancelled, Add, Size, Returns, TypeOK, store, reading
<1>3. ASSUME NEW w \in Writers, Lock(w) PROVE LockExcludes'
  BY <1>0, <1>3 DEF Lock, Free, TypeOK, reading
<1>4. ASSUME NEW w \in Writers, AddThrows(w) \/ Unlock(w) PROVE LockExcludes'
  BY <1>0, <1>4 DEF AddThrows, Unlock, Returns, TypeOK, reading
<1>5. ASSUME NEW r \in Readers, Cancel(r) \/ Search(r) \/ TimedOut(r) \/ BeginScan(r) \/ Answer(r) \/ Rethrow(r)
      PROVE  LockExcludes'
  BY <1>0, <1>5 DEF Cancel, Search, TimedOut, BeginScan, Answer, Rethrow, TypeOK, store, writing
<1>6. ASSUME NEW r \in Readers, LockShared(r) \/ EndScan(r) \/ ScanThrows(r) PROVE LockExcludes'
  BY <1>0, <1>6 DEF LockShared, FreeOfWriters, EndScan, ScanThrows, TypeOK, store, writing
<1>7. CASE UNCHANGED vars
  BY <1>0, <1>7 DEF vars, store, writing, reading
<1> QED BY <1>1, <1>2, <1>3, <1>4, <1>5, <1>6, <1>7 DEF Next, Reader

\* Every step keeps what a writer knows of its request.
LEMMA WriterStep ==
  ASSUME IInv, [Next]_vars
  PROVE  WriterLocals'
<1>0. TypeOK /\ WriterLocals /\ CodesAssumption
  BY CodesAssumption DEF IInv
<1> USE DEF WriterLocals
<1>1. ASSUME NEW w \in Writers, NEW j \in Jobs, Call(w, j) PROVE WriterLocals'
  BY <1>0, <1>1 DEF Call, TypeOK, store
<1>2. ASSUME NEW w \in Writers, NEW j \in Jobs, Refuse(w, j) PROVE WriterLocals'
  BY <1>0, <1>2 DEF Refuse, Returns, TypeOK, store
<1>3. ASSUME NEW w \in Writers, CallCancelled(w) \/ Lock(w) \/ AddThrows(w) \/ Unlock(w) \/ Size(w)
      PROVE  WriterLocals'
  BY <1>0, <1>3 DEF CallCancelled, Lock, AddThrows, Unlock, Size, Returns, TypeOK, store
<1>4. ASSUME NEW w \in Writers, Add(w) PROVE WriterLocals'
  <2>1. /\ writer[w] = "writing" /\ UNCHANGED <<writer, job, status>>
        /\ index \subseteq index' /\ added'[w] \subseteq index' /\ done'[w] # 0
        /\ \A v \in Writers \ {w} : added'[v] = added[v] /\ done'[v] = done[v]
    BY <1>0, <1>4 DEF Add, TypeOK
  <2> QED BY <1>0, <2>1
<1>5. ASSUME NEW r \in Readers, Cancel(r) \/ Search(r) \/ Reader(r) PROVE WriterLocals'
  BY <1>0, <1>5 DEF Cancel, Search, Reader, LockShared, TimedOut, BeginScan, EndScan, ScanThrows, Answer, Rethrow,
     store, writing
<1>6. CASE UNCHANGED vars
  BY <1>0, <1>6 DEF vars, store, writing
<1> QED BY <1>1, <1>2, <1>3, <1>4, <1>5, <1>6 DEF Next

\* Every step keeps the searches apart from the requests in progress, and so
\* lets them see a request that succeeds as a whole.
LEMMA SeenStep ==
  ASSUME IInv, [Next]_vars
  PROVE  SeenBefore' /\ ReadersSeeWholeBatches'
<1>0. TypeOK /\ LockExcludes /\ WriterLocals /\ SeenBefore /\ ReadersSeeWholeBatches /\ None \notin Codes
  BY CodesAssumption DEF IInv
<1> USE DEF SeenBefore, ReadersSeeWholeBatches
<1>1. ASSUME NEW w \in Writers, NEW j \in Jobs, Call(w, j) \/ Refuse(w, j)
      PROVE  SeenBefore' /\ ReadersSeeWholeBatches'
  <2>1. /\ UNCHANGED <<index, added, seen>>
        /\ writer[w] = "idle" /\ writer'[w] \in {"locking", "returned"}
        /\ \A v \in Writers \ {w} : writer'[v] = writer[v] /\ status'[v] = status[v]
    BY <1>0, <1>1 DEF Call, Refuse, Returns, TypeOK, store, reading
  <2>2. added[w] = {}
    BY <1>0, <2>1 DEF WriterLocals
  <2> QED BY <1>0, <2>1, <2>2
<1>2. ASSUME NEW w \in Writers, CallCancelled(w) \/ AddThrows(w) \/ Size(w)
      PROVE  SeenBefore' /\ ReadersSeeWholeBatches'
  BY <1>0, <1>2 DEF CallCancelled, AddThrows, Size, Returns, TypeOK, store, reading
<1>3. ASSUME NEW w \in Writers, Lock(w) \/ Unlock(w) PROVE SeenBefore' /\ ReadersSeeWholeBatches'
  BY <1>0, <1>3 DEF Lock, Unlock, WriterLocals, TypeOK, reading
<1>4. ASSUME NEW w \in Writers, Add(w) PROVE SeenBefore' /\ ReadersSeeWholeBatches'
  <2>1. /\ writer[w] = "writing" /\ status[w] = None /\ UNCHANGED <<writer, status, seen>>
        /\ Item(w).id \notin index /\ index' = index \union {Item(w).id}
        /\ added'[w] = added[w] \union {Item(w).id}
        /\ \A v \in Writers \ {w} : added'[v] = added[v]
    BY <1>0, <1>4 DEF Add, Insertable, WriterLocals, TypeOK, reading
  <2>2. None # "OK"
    BY <1>0 DEF Codes
  <2> QED BY <1>0, <2>1, <2>2
<1>5. ASSUME NEW r \in Readers, BeginScan(r) PROVE SeenBefore' /\ ReadersSeeWholeBatches'
  <2>1. exclusive = None /\ \A w \in Writers : writer[w] # "writing"
    BY <1>0, <1>5, ThreadsAssumption DEF BeginScan, LockExcludes
  <2>2. /\ UNCHANGED <<index, writer, status, added>> /\ seen'[r] = index
        /\ \A q \in Readers \ {r} : seen'[q] = seen[q]
    BY <1>0, <1>5 DEF BeginScan, TypeOK, store, writing
  <2>3. \A w \in Writers : added[w] \subseteq index
    BY <1>0 DEF WriterLocals
  <2> QED BY <1>0, <2>1, <2>2, <2>3
<1>6. ASSUME NEW r \in Readers, Cancel(r) \/ Search(r) \/ LockShared(r) \/ TimedOut(r) \/ EndScan(r)
                                \/ ScanThrows(r) \/ Answer(r) \/ Rethrow(r)
      PROVE  SeenBefore' /\ ReadersSeeWholeBatches'
  BY <1>0, <1>6 DEF Cancel, Search, LockShared, TimedOut, EndScan, ScanThrows, Answer, Rethrow, store, writing
<1>7. CASE UNCHANGED vars
  BY <1>0, <1>7 DEF vars, store, writing, reading
<1> QED BY <1>1, <1>2, <1>3, <1>4, <1>5, <1>6, <1>7 DEF Next, Reader

\* Every step leaves a split batch the ID that split it.  A batch that has
\* inserted something and has an item left has two items at least, so it came
\* through validate_batch: the vector is well formed, and the index refuses it
\* for its ID only.
LEMMA SplitStep ==
  ASSUME IInv, [Next]_vars
  PROVE  BatchIsSplitByExistingIds'
<1>0. TypeOK /\ WriterLocals /\ BatchIsSplitByExistingIds /\ None # "INVALID_ARGUMENT"
  BY CodesAssumption DEF IInv, Codes
<1>f. ASSUME NEW w \in Writers, writer[w] # "returned",
             status'[w] = "INVALID_ARGUMENT" /\ added'[w] # {} => Item(w).ok' /\ Item(w).id' \in index',
             index \subseteq index',
             \A v \in Writers \ {w} : /\ job'[v] = job[v] /\ done'[v] = done[v]
                                      /\ added'[v] = added[v] /\ status'[v] = status[v]
      PROVE  BatchIsSplitByExistingIds'
  BY <1>0, <1>f DEF BatchIsSplitByExistingIds, Item
<1>1. ASSUME NEW w \in Writers, NEW j \in Jobs, Call(w, j) \/ Refuse(w, j) PROVE BatchIsSplitByExistingIds'
  <2>1. writer[w] # "returned" /\ added'[w] = {} /\ index' = index
    BY <1>0, <1>1 DEF Call, Refuse, WriterLocals, store
  <2>2. \A v \in Writers \ {w} : /\ job'[v] = job[v] /\ done'[v] = done[v]
                                 /\ added'[v] = added[v] /\ status'[v] = status[v]
    BY <1>0, <1>1 DEF Call, Refuse, Returns, TypeOK
  <2> QED BY <1>f, <2>1, <2>2
<1>2. ASSUME NEW w \in Writers, CallCancelled(w) \/ Lock(w) \/ Add(w) \/ Unlock(w) \/ Size(w)
      PROVE  BatchIsSplitByExistingIds'
  <2>1. writer[w] # "returned" /\ status'[w] # "INVALID_ARGUMENT" /\ index \subseteq index'
    BY <1>0, <1>2 DEF CallCancelled, Lock, Add, Unlock, Size, Returns, WriterLocals, TypeOK, store
  <2>2. \A v \in Writers \ {w} : /\ job'[v] = job[v] /\ done'[v] = done[v]
                                 /\ added'[v] = added[v] /\ status'[v] = status[v]
    BY <1>0, <1>2 DEF CallCancelled, Lock, Add, Unlock, Size, Returns, TypeOK
  <2> QED BY <1>f, <2>1, <2>2
<1>3. ASSUME NEW w \in Writers, AddThrows(w) PROVE BatchIsSplitByExistingIds'
  <2>1. writer[w] = "writing" /\ More(w) /\ UNCHANGED <<index, job, done, added>>
    BY <1>3 DEF AddThrows
  <2>2. ASSUME status'[w] = "INVALID_ARGUMENT", added[w] # {} PROVE Item(w).ok /\ Item(w).id \in index
    <3>1. ~Insertable(w)
      BY <1>0, <1>3, <2>2 DEF AddThrows, Returns, TypeOK
    <3>2. job[w] \in Jobs /\ done[w] \in Nat /\ done[w] # 0 /\ (job[w].batch => Valid(job[w]))
      BY <1>0, <2>1, <2>2 DEF WriterLocals, TypeOK
    <3>3. done[w] + 1 \in 1..Len(job[w].items) /\ Len(job[w].items) \in Nat
      BY <1>0, <2>1, ItemIsARecord
    <3>4. Valid(job[w])
      <4>0. \A d, n \in Nat : d # 0 /\ d + 1 \in 1..n => n # 1
        OBVIOUS
      <4>1. Len(job[w].items) # 1
        BY <3>2, <3>3, <4>0
      <4>2. job[w].batch \in BOOLEAN /\ (~job[w].batch => Len(job[w].items) = 1)
        BY <3>2, JobsAssumption
      <4> QED BY <3>2, <4>1, <4>2
    <3>5. Item(w).ok
      BY <3>3, <3>4 DEF Valid, Item
    <3> QED BY <3>1, <3>5 DEF Insertable
  <2>3. Item(w)' = Item(w)
    BY <2>1 DEF Item
  <2>4. \A v \in Writers \ {w} : status'[v] = status[v]
    BY <1>0, <1>3 DEF AddThrows, Returns, TypeOK
  <2> QED BY <1>f, <2>1, <2>2, <2>3, <2>4
<1>4. ASSUME NEW r \in Readers, Cancel(r) \/ Search(r) \/ Reader(r) PROVE BatchIsSplitByExistingIds'
  BY <1>0, <1>4 DEF Cancel, Search, Reader, LockShared, TimedOut, BeginScan, EndScan, ScanThrows, Answer, Rethrow,
     store, writing, BatchIsSplitByExistingIds, Item
<1>5. CASE UNCHANGED vars
  BY <1>0, <1>5 DEF vars, store, writing, BatchIsSplitByExistingIds, Item
<1> QED BY <1>1, <1>2, <1>3, <1>4, <1>5 DEF Next

\* The store starts in the invariant.
LEMMA InitIInv == Init => IInv
<1> SUFFICES ASSUME Init PROVE IInv
  OBVIOUS
<1>1. /\ IsFiniteSet(Stored) /\ Cardinality(Stored) \in Nat /\ Cardinality(Ids) \in Nat
      /\ Cardinality(Readers) \in Nat
  BY IdsAssumption, ThreadsAssumption, FS_Subset, FS_CardinalityType
<1>2. TypeOK
  BY <1>1, IdsAssumption DEF Init, TypeOK
<1>3. LockExcludes /\ WriterLocals /\ SeenBefore
  BY ThreadsAssumption DEF Init, LockExcludes, WriterLocals, SeenBefore
<1>4. Returned = {}
  BY DEF Init, Returned
<1>5. CountersAgree
  BY <1>1, <1>4, FS_EmptySet DEF Init, CountersAgree
<1>6. BatchIsSplitByExistingIds /\ ReadersSeeWholeBatches
  BY DEF Init, BatchIsSplitByExistingIds, ReadersSeeWholeBatches
<1> QED BY <1>2, <1>3, <1>5, <1>6 DEF IInv

\* The invariant holds throughout.
THEOREM Invariance == Spec => []IInv
<1>1. IInv /\ [Next]_vars => IInv'
  BY CountersStep, LockStep, WriterStep, SeenStep, SplitStep DEF IInv
<1> QED BY <1>1, InitIInv, PTL DEF Spec

\* stats() counts what a split batch has left, and only an ID that exists, or an
\* allocation, splits one.
THEOREM BatchesStayAccounted == Spec => []BatchesAreAccounted
<1>1. IInv => BatchesAreAccounted
  BY DEF IInv, BatchesAreAccounted, SizeIsAccounted, CountersAgree
<1> QED BY <1>1, Invariance, PTL

\* A search finds all of a batch that succeeds, or nothing of it, however the
\* scan falls among the batch's insertions.
THEOREM SearchesSeeWholeBatches == Spec => []ReadersSeeWholeBatches
<1>1. IInv => ReadersSeeWholeBatches
  BY DEF IInv
<1> QED BY <1>1, Invariance, PTL
=============================================================================
