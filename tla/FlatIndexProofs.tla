-------------------------- MODULE FlatIndexProofs --------------------------
(***************************************************************************)
(* Proofs about the exact index, for any finite set of IDs and any scores, *)
(* and about the searcher that runs a batch of searches on the threads of  *)
(* a pool, for any callers and any numbers of queries and threads.         *)
(***************************************************************************)
EXTENDS FlatBuild, BatchSearcher, FiniteSetTheorems, WellFoundedInduction, TLAPS

\* The rows are two parallel sequences.
RowsAreParallel ==
    /\ ids \in Seq(Ids)
    /\ vectors \in Seq(Scores)
    /\ Len(vectors) = Len(ids)

\* id_to_row_ is the inverse of ids_.  RowsAgree only follows the map to the
\* rows; a deletion also goes from the last row to its entry.
MapInvertsRows ==
    /\ idToRow = [i \in DOMAIN idToRow |-> idToRow[i]]
    /\ DOMAIN idToRow \subseteq Ids
    /\ \A i \in DOMAIN idToRow : idToRow[i] \in 1..Len(ids) /\ ids[idToRow[i]] = i
    /\ \A n \in 1..Len(ids) : ids[n] \in DOMAIN idToRow /\ idToRow[ids[n]] = n

\* The inductive invariant.
IInv == RowsAreParallel /\ MapInvertsRows /\ Cardinality(DOMAIN idToRow) = Len(ids)

\* The invariant has what the searches need, no more rows than IDs included.
LEMMA AgreeingRows == IInv => RowsAgree
<1> SUFFICES ASSUME IInv PROVE RowsAgree
  OBVIOUS
<1>1. Cardinality(DOMAIN idToRow) <= Cardinality(Ids)
  BY InputsAssumption, FS_Subset DEF IInv, MapInvertsRows
<1> QED BY <1>1 DEF IInv, RowsAreParallel, MapInvertsRows, RowsAgree, TypeOK

\* Appending a row.
LEMMA AppendedRow ==
  ASSUME IInv, NEW i \in Ids, NEW v \in Scores, Add(i, v)
  PROVE  /\ ids' \in Seq(Ids) /\ vectors' \in Seq(Scores)
         /\ Len(ids') = Len(ids) + 1 /\ Len(vectors') = Len(ids) + 1
         /\ \A n \in 1..Len(ids) : ids'[n] = ids[n] /\ vectors'[n] = vectors[n]
         /\ ids'[Len(ids) + 1] = i /\ vectors'[Len(ids) + 1] = v
         /\ i \notin DOMAIN idToRow /\ DOMAIN idToRow' = DOMAIN idToRow \union {i}
         /\ idToRow' = [j \in DOMAIN idToRow' |-> idToRow'[j]]
         /\ idToRow'[i] = Len(ids) + 1
         /\ \A j \in DOMAIN idToRow : idToRow'[j] = idToRow[j]
<1>1. ids \in Seq(Ids) /\ vectors \in Seq(Scores) /\ Len(vectors) = Len(ids) /\ Len(ids) \in Nat
  BY DEF IInv, RowsAreParallel
<1>2. /\ ids' = Append(ids, i) /\ vectors' = Append(vectors, v) /\ i \notin DOMAIN idToRow
      /\ idToRow' = [j \in DOMAIN idToRow \union {i} |-> IF j = i THEN Len(ids) + 1 ELSE idToRow[j]]
  BY DEF Add, Emplaced
<1>3. /\ ids' \in Seq(Ids) /\ Len(ids') = Len(ids) + 1 /\ ids'[Len(ids) + 1] = i
      /\ \A n \in 1..Len(ids) : ids'[n] = ids[n]
  BY <1>1, <1>2
<1>4. /\ vectors' \in Seq(Scores) /\ Len(vectors') = Len(ids) + 1 /\ vectors'[Len(ids) + 1] = v
      /\ \A n \in 1..Len(ids) : vectors'[n] = vectors[n]
  BY <1>1, <1>2
<1>5. /\ DOMAIN idToRow' = DOMAIN idToRow \union {i}
      /\ idToRow' = [j \in DOMAIN idToRow' |-> idToRow'[j]]
      /\ idToRow'[i] = Len(ids) + 1
      /\ \A j \in DOMAIN idToRow : idToRow'[j] = idToRow[j]
  BY <1>2
<1> QED BY <1>2, <1>3, <1>4, <1>5

\* A failed insertion is rolled back entirely, from either place it can fail.
LEMMA RolledBack ==
  ASSUME IInv, NEW i \in Ids, AddThrows(i)
  PROVE  UNCHANGED vars
<1>1. ids \in Seq(Ids) /\ Len(ids) \in Nat /\ i \notin DOMAIN idToRow /\ vectors' = vectors
  BY DEF IInv, RowsAreParallel, AddThrows
<1>2. Popped(ids, i) = ids
  <2>1. ids # <<>> => Last(ids) # i
    BY <1>1 DEF IInv, MapInvertsRows, Last
  <2> QED BY <2>1 DEF Popped
<1>3. Popped(Append(ids, i), i) = ids
  <2>1. Append(ids, i) # <<>> /\ Last(Append(ids, i)) = i
    BY <1>1 DEF Last
  <2>2. Front(Append(ids, i)) = ids
    BY <1>1 DEF Front
  <2> QED BY <2>1, <2>2 DEF Popped
<1>4. idToRow' = idToRow
  <2>1. idToRow' = [j \in DOMAIN idToRow |-> idToRow[j]]
    BY <1>1 DEF AddThrows, Emplaced
  <2> QED BY <2>1 DEF IInv, MapInvertsRows
<1> QED BY <1>1, <1>2, <1>3, <1>4 DEF AddThrows, vars

\* Swap and pop on a sequence: the last element takes row r, and the rest stays.
SwapAndPop(s, r) == Front(IF r = Len(s) THEN s ELSE [s EXCEPT ![r] = Last(s)])

\* What a sequence is after it.
LEMMA SwappedAndPopped ==
  ASSUME NEW S, NEW s \in Seq(S), NEW r \in 1..Len(s)
  PROVE  /\ SwapAndPop(s, r) \in Seq(S) /\ Len(SwapAndPop(s, r)) = Len(s) - 1
         /\ \A n \in 1..(Len(s) - 1) : SwapAndPop(s, r)[n] = IF n = r THEN s[Len(s)] ELSE s[n]
<1> DEFINE u == IF r = Len(s) THEN s ELSE [s EXCEPT ![r] = Last(s)]
<1>1. Len(s) \in Nat /\ Len(s) >= 1 /\ s[Len(s)] \in S
  OBVIOUS
<1>2. u \in Seq(S) /\ Len(u) = Len(s) /\ \A n \in 1..(Len(s) - 1) : u[n] = IF n = r THEN s[Len(s)] ELSE s[n]
  BY <1>1 DEF Last
<1>3. SwapAndPop(s, r) = SubSeq(u, 1, Len(s) - 1)
  BY <1>2 DEF SwapAndPop, Front
<1> HIDE DEF u
<1>4. /\ SubSeq(u, 1, Len(s) - 1) \in Seq(S)
      /\ Len(SubSeq(u, 1, Len(s) - 1)) = Len(s) - 1
      /\ \A n \in 1..(Len(s) - 1) : SubSeq(u, 1, Len(s) - 1)[n] = u[n]
  BY <1>1, <1>2
<1> QED BY <1>2, <1>3, <1>4

\* Deleting a row: the last row takes its place, in the map as well.
LEMMA ErasedRow ==
  ASSUME IInv, NEW i \in Ids, Erase(i)
  PROVE  LET r == idToRow[i]
             last == ids[Len(ids)]
             m == Len(ids) - 1
         IN  /\ i \in DOMAIN idToRow /\ r \in 1..Len(ids) /\ m \in Nat
             /\ ids' \in Seq(Ids) /\ Len(ids') = m
             /\ vectors' \in Seq(Scores) /\ Len(vectors') = m
             /\ \A n \in 1..m : ids'[n] = IF n = r THEN last ELSE ids[n]
             /\ \A n \in 1..m : vectors'[n] = IF n = r THEN vectors[Len(ids)] ELSE vectors[n]
             /\ DOMAIN idToRow' = DOMAIN idToRow \ {i}
             /\ idToRow' = [j \in DOMAIN idToRow' |-> idToRow'[j]]
             /\ \A j \in DOMAIN idToRow' : idToRow'[j] = IF j = last THEN r ELSE idToRow[j]
<1> DEFINE r == idToRow[i]
           last == ids[Len(ids)]
<1>1. /\ ids \in Seq(Ids) /\ vectors \in Seq(Scores) /\ Len(vectors) = Len(ids) /\ Len(ids) \in Nat
      /\ i \in DOMAIN idToRow /\ r \in 1..Len(ids) /\ ids[r] = i
  BY DEF IInv, RowsAreParallel, MapInvertsRows, Erase
<1>2. /\ ids' \in Seq(Ids) /\ Len(ids') = Len(ids) - 1
      /\ \A n \in 1..(Len(ids) - 1) : ids'[n] = IF n = r THEN last ELSE ids[n]
  <2>1. ids' = SwapAndPop(ids, r)
    BY DEF Erase, MovedId, SwapAndPop
  <2> QED BY <1>1, <2>1, SwappedAndPopped
<1>3. /\ vectors' \in Seq(Scores) /\ Len(vectors') = Len(ids) - 1
      /\ \A n \in 1..(Len(ids) - 1) : vectors'[n] = IF n = r THEN vectors[Len(ids)] ELSE vectors[n]
  <2>1. vectors' = SwapAndPop(vectors, r)
    BY <1>1 DEF Erase, MovedVector, SwapAndPop
  <2>2. vectors \in Seq(Scores) /\ r \in 1..Len(vectors)
    BY <1>1
  <2>3. /\ vectors' \in Seq(Scores) /\ Len(vectors') = Len(vectors) - 1
        /\ \A n \in 1..(Len(vectors) - 1) : vectors'[n] = IF n = r THEN vectors[Len(vectors)] ELSE vectors[n]
    BY <2>1, <2>2, SwappedAndPopped
  <2>4. Len(vectors) = Len(ids)
    BY <1>1
  <2> QED BY <2>3, <2>4
<1>4. /\ DOMAIN idToRow' = DOMAIN idToRow \ {i}
      /\ idToRow' = [j \in DOMAIN idToRow' |-> idToRow'[j]]
      /\ \A j \in DOMAIN idToRow' : idToRow'[j] = IF j = last THEN r ELSE idToRow[j]
  <2>1. CASE r = Len(ids)
    <3>1. idToRow' = [j \in DOMAIN idToRow \ {i} |-> idToRow[j]]
      BY <2>1 DEF Erase
    <3> QED BY <1>1, <2>1, <3>1
  <2>2. CASE r # Len(ids)
    <3>1. last \in DOMAIN idToRow
      BY <1>1 DEF IInv, MapInvertsRows
    <3>2. /\ DOMAIN MovedRow(i) = DOMAIN idToRow
          /\ \A j \in DOMAIN idToRow : MovedRow(i)[j] = IF j = last THEN r ELSE idToRow[j]
      BY <3>1 DEF MovedRow, Last
    <3>3. idToRow' = [j \in DOMAIN MovedRow(i) \ {i} |-> MovedRow(i)[j]]
      BY <2>2 DEF Erase
    <3> QED BY <3>2, <3>3
  <2> QED BY <2>1, <2>2
<1> QED BY <1>1, <1>2, <1>3, <1>4

\* Every step keeps the map and the rows inverse to each other.
LEMMA StepIInv ==
  ASSUME IInv, [Next]_vars
  PROVE  IInv'
<1>0. /\ Len(ids) \in Nat /\ IsFiniteSet(DOMAIN idToRow)
      /\ \A n \in 1..Len(ids) : ids[n] \in DOMAIN idToRow /\ idToRow[ids[n]] = n
      /\ \A j \in DOMAIN idToRow : idToRow[j] \in 1..Len(ids) /\ ids[idToRow[j]] = j
      /\ DOMAIN idToRow \subseteq Ids /\ Cardinality(DOMAIN idToRow) = Len(ids)
  BY InputsAssumption, FS_Subset DEF IInv, RowsAreParallel, MapInvertsRows
<1>1. ASSUME NEW i \in Ids, NEW v \in Scores, Add(i, v) PROVE IInv'
  <2>0. /\ ids' \in Seq(Ids) /\ vectors' \in Seq(Scores)
        /\ Len(ids') = Len(ids) + 1 /\ Len(vectors') = Len(ids) + 1
        /\ \A n \in 1..Len(ids) : ids'[n] = ids[n]
        /\ ids'[Len(ids) + 1] = i
        /\ i \notin DOMAIN idToRow /\ DOMAIN idToRow' = DOMAIN idToRow \union {i}
        /\ idToRow' = [j \in DOMAIN idToRow' |-> idToRow'[j]]
        /\ idToRow'[i] = Len(ids) + 1
        /\ \A j \in DOMAIN idToRow : idToRow'[j] = idToRow[j]
    BY <1>1, AppendedRow
  <2>1. RowsAreParallel'
    BY <2>0 DEF RowsAreParallel
  <2>2. \A j \in DOMAIN idToRow' : idToRow'[j] \in 1..Len(ids') /\ ids'[idToRow'[j]] = j
    BY <1>0, <2>0
  <2>3. \A n \in 1..Len(ids') : ids'[n] \in DOMAIN idToRow' /\ idToRow'[ids'[n]] = n
    <3> SUFFICES ASSUME NEW n \in 1..Len(ids') PROVE ids'[n] \in DOMAIN idToRow' /\ idToRow'[ids'[n]] = n
      OBVIOUS
    <3>1. CASE n = Len(ids) + 1
      BY <2>0, <3>1
    <3>2. CASE n \in 1..Len(ids)
      BY <1>0, <2>0, <3>2
    <3> QED BY <1>0, <2>0, <3>1, <3>2
  <2>4. Cardinality(DOMAIN idToRow') = Len(ids')
    <3>1. Cardinality(DOMAIN idToRow \union {i}) = Cardinality(DOMAIN idToRow) + 1
      <4>1. IsFiniteSet(DOMAIN idToRow) /\ i \notin DOMAIN idToRow
        BY <1>0, <2>0
      <4> QED BY <4>1, FS_AddElement
    <3> QED BY <1>0, <2>0, <3>1
  <2> QED BY <1>0, <2>0, <2>1, <2>2, <2>3, <2>4 DEF IInv, MapInvertsRows
<1>2. ASSUME NEW i \in Ids, AddThrows(i) PROVE IInv'
  BY <1>2, RolledBack DEF vars, IInv, RowsAreParallel, MapInvertsRows
<1>3. ASSUME NEW i \in Ids, Erase(i) PROVE IInv'
  <2> DEFINE r == idToRow[i]
             m == Len(ids) - 1
             last == ids[Len(ids)]
  <2>0. /\ i \in DOMAIN idToRow /\ r \in 1..Len(ids) /\ m \in Nat
        /\ ids' \in Seq(Ids) /\ Len(ids') = m
        /\ vectors' \in Seq(Scores) /\ Len(vectors') = m
        /\ \A n \in 1..m : ids'[n] = IF n = r THEN last ELSE ids[n]
        /\ DOMAIN idToRow' = DOMAIN idToRow \ {i}
        /\ idToRow' = [j \in DOMAIN idToRow' |-> idToRow'[j]]
        /\ \A j \in DOMAIN idToRow' : idToRow'[j] = IF j = last THEN r ELSE idToRow[j]
    BY <1>3, ErasedRow
  <2>d. last \in DOMAIN idToRow /\ idToRow[last] = Len(ids)
    BY <1>0, <2>0
  <2>1. RowsAreParallel'
    BY <2>0 DEF RowsAreParallel
  <2>2. \A j \in DOMAIN idToRow' : idToRow'[j] \in 1..Len(ids') /\ ids'[idToRow'[j]] = j
    <3> SUFFICES ASSUME NEW j \in DOMAIN idToRow'
                 PROVE  idToRow'[j] \in 1..Len(ids') /\ ids'[idToRow'[j]] = j
      OBVIOUS
    <3>1. j # i /\ j \in DOMAIN idToRow
      BY <2>0
    <3>2. CASE j = last
      <4>1. r # Len(ids)
        BY <1>0, <2>d, <3>1, <3>2, <2>0
      <4> QED BY <1>0, <2>0, <3>2, <4>1
    <3>3. CASE j # last
      <4>1. idToRow'[j] = idToRow[j] /\ idToRow[j] # Len(ids) /\ idToRow[j] # r
        BY <1>0, <2>0, <3>1, <3>3
      <4> QED BY <1>0, <2>0, <3>1, <4>1
    <3> QED BY <3>2, <3>3
  <2>3. \A n \in 1..Len(ids') : ids'[n] \in DOMAIN idToRow' /\ idToRow'[ids'[n]] = n
    <3> SUFFICES ASSUME NEW n \in 1..m PROVE ids'[n] \in DOMAIN idToRow' /\ idToRow'[ids'[n]] = n
      BY <2>0
    <3>1. CASE n = r
      <4>1. ids'[n] = last /\ last # i
        BY <1>0, <2>0, <2>d, <3>1
      <4> QED BY <2>0, <2>d, <3>1, <4>1
    <3>2. CASE n # r
      <4>1. n \in 1..Len(ids) /\ n # Len(ids) /\ ids'[n] = ids[n]
        BY <1>0, <2>0, <3>2
      <4>2. ids[n] # i /\ ids[n] # last
        BY <1>0, <2>d, <3>2, <4>1
      <4> QED BY <1>0, <2>0, <4>1, <4>2
    <3> QED BY <3>1, <3>2
  <2>4. Cardinality(DOMAIN idToRow') = Len(ids')
    BY <1>0, <2>0, FS_RemoveElement
  <2> QED BY <1>0, <2>0, <2>1, <2>2, <2>3, <2>4 DEF IInv, MapInvertsRows
<1>4. CASE UNCHANGED vars
  BY <1>4 DEF vars, IInv, RowsAreParallel, MapInvertsRows
<1> QED BY <1>1, <1>2, <1>3, <1>4 DEF Next

\* The index starts in the invariant.
LEMMA InitIInv == Init => IInv
<1> SUFFICES ASSUME Init PROVE IInv
  OBVIOUS
<1>1. DOMAIN idToRow = {} /\ Len(ids) = 0
  BY DEF Init
<1> QED BY <1>1, FS_EmptySet DEF Init, IInv, RowsAreParallel, MapInvertsRows

\* Every ID finds its row and every row its ID after any insertions, failed
\* insertions and deletions of flat_index.cpp.
THEOREM RowsStayInAgreement == Spec => []RowsAgree
<1>1. Spec => []IInv
  BY InitIInv, StepIInv, PTL DEF Spec
<1> QED BY <1>1, AgreeingRows, PTL

\* The index is a map: an insertion adds one vector, a failed one none, and a
\* deletion by swap and pop loses no other vector and gives none to another ID.
THEOREM IndexImplementsMap == Spec => ImplementsMap
<1>1. Init => Map!Init
  BY DEF Init, Map!Init
<1>2. ASSUME IInv, [Next]_vars PROVE [Map!Next]_[i \in DOMAIN idToRow |-> vectors[idToRow[i]]]
  <2> DEFINE content == [i \in DOMAIN idToRow |-> vectors[idToRow[i]]]
  <2>0. /\ Len(ids) \in Nat /\ Len(vectors) = Len(ids)
        /\ \A n \in 1..Len(ids) : ids[n] \in DOMAIN idToRow /\ idToRow[ids[n]] = n
        /\ \A j \in DOMAIN idToRow : idToRow[j] \in 1..Len(ids) /\ ids[idToRow[j]] = j
    BY <1>2 DEF IInv, RowsAreParallel, MapInvertsRows
  <2>1. ASSUME NEW i \in Ids, NEW v \in Scores, Add(i, v) PROVE Map!Insert(i, v)
    <3>0. /\ \A n \in 1..Len(ids) : vectors'[n] = vectors[n]
          /\ vectors'[Len(ids) + 1] = v
          /\ i \notin DOMAIN idToRow /\ DOMAIN idToRow' = DOMAIN idToRow \union {i}
          /\ idToRow'[i] = Len(ids) + 1
          /\ \A j \in DOMAIN idToRow : idToRow'[j] = idToRow[j]
      BY <1>2, <2>1, AppendedRow
    <3>1. \A j \in DOMAIN idToRow' : vectors'[idToRow'[j]] = IF j = i THEN v ELSE content[j]
      BY <2>0, <3>0
    <3> QED BY <3>0, <3>1 DEF Map!Insert
  <2>2. ASSUME NEW i \in Ids, AddThrows(i) PROVE UNCHANGED content
    BY <1>2, <2>2, RolledBack DEF vars
  <2>3. ASSUME NEW i \in Ids, Erase(i) PROVE Map!Remove(i)
    <3> DEFINE r == idToRow[i]
               m == Len(ids) - 1
               last == ids[Len(ids)]
    <3>0. /\ i \in DOMAIN idToRow /\ r \in 1..Len(ids) /\ m \in Nat
          /\ \A n \in 1..m : vectors'[n] = IF n = r THEN vectors[Len(ids)] ELSE vectors[n]
          /\ DOMAIN idToRow' = DOMAIN idToRow \ {i}
          /\ \A j \in DOMAIN idToRow' : idToRow'[j] = IF j = last THEN r ELSE idToRow[j]
      BY <1>2, <2>3, ErasedRow
    <3>d. last \in DOMAIN idToRow /\ idToRow[last] = Len(ids)
      BY <2>0, <3>0
    <3>1. ASSUME NEW j \in DOMAIN idToRow' PROVE vectors'[idToRow'[j]] = vectors[idToRow[j]]
      <4>1. j # i /\ j \in DOMAIN idToRow
        BY <3>0, <3>1
      <4>2. CASE j = last
        <5>1. r \in 1..m
          BY <2>0, <3>0, <3>d, <4>1, <4>2
        <5> QED BY <3>0, <3>d, <3>1, <4>2, <5>1
      <4>3. CASE j # last
        <5>1. idToRow'[j] = idToRow[j] /\ idToRow[j] \in 1..m /\ idToRow[j] # r
          BY <2>0, <3>0, <3>1, <4>1, <4>3
        <5> QED BY <3>0, <5>1
      <4> QED BY <4>2, <4>3
    <3> QED BY <3>0, <3>1 DEF Map!Remove, Map!Restrict
  <2>4. UNCHANGED vars => UNCHANGED content
    BY DEF vars
  <2> QED BY <1>2, <2>1, <2>2, <2>3, <2>4 DEF Next, Map!Next
<1>3. Spec => []IInv
  BY InitIInv, StepIInv, PTL DEF Spec
<1> QED BY <1>1, <1>2, <1>3, PTL DEF Spec, ImplementsMap, Map!Spec

-----------------------------------------------------------------------------
(* The searches: induction over the rows *)

\* A set of numbers that is not empty has a least member.
LEMMA LeastNumber ==
  ASSUME NEW S, S \subseteq Nat, S # {}
  PROVE  \E n \in S : \A k \in S : n <= k
<1> DEFINE Less == {p \in Nat \X Nat : p[1] < p[2]}
<1>1. IsWellFoundedOn(Less, Nat)
  BY NatLessThanWellFounded DEF OpToRel
<1>2. \E n \in S : \A k \in S : ~(<<k, n>> \in Less)
  BY <1>1, WFMin
<1>3. \A k, n \in Nat : <<k, n>> \in Less <=> k < n
  OBVIOUS
<1> HIDE DEF Less
<1>4. PICK n \in S : \A k \in S : ~(<<k, n>> \in Less)
  BY <1>2
<1>5. ASSUME NEW k \in S PROVE n <= k
  <2>1. k \in Nat /\ n \in Nat
    OBVIOUS
  <2>2. ~(k < n)
    BY <1>3, <1>4, <2>1, Zenon
  <2> QED BY <2>1, <2>2
<1> QED BY <1>5

\* What holds of 0 and is passed on holds up to n: S collects the numbers that
\* it holds of.
LEMMA UpTo ==
  ASSUME NEW n \in Nat, NEW S, 0 \in S, \A k \in 0..(n - 1) : k \in S => k + 1 \in S
  PROVE  0..n \subseteq S
<1> SUFFICES ASSUME ~(0..n \subseteq S) PROVE FALSE
  OBVIOUS
<1> DEFINE Bad == {k \in 0..n : k \notin S}
<1>1. Bad \subseteq Nat /\ Bad # {}
  OBVIOUS
<1>2. PICK k \in Bad : \A l \in Bad : k <= l
  BY <1>1, LeastNumber
<1>3. k # 0 /\ k \in 1..n
  BY <1>2
<1>4. k - 1 \in 0..(n - 1) /\ k - 1 \notin Bad
  BY <1>2, <1>3
<1>5. k - 1 \in S /\ (k - 1) + 1 = k
  BY <1>3, <1>4
<1> QED BY <1>2, <1>4, <1>5

\* The value after each of n rounds, when round i takes the value v of the
\* round before to step[<<i, v>>].
Iterates(f, base, step, n) == f[0] = base /\ \A i \in 1..n : f[i] = step[<<i, f[i - 1]>>]

\* A loop over a list has a value after each round.
LEMMA Iteration ==
  ASSUME NEW S, NEW n \in Nat, NEW base \in S, NEW step \in [(1..n) \X S -> S]
  PROVE  \E f \in [0..n -> S] : Iterates(f, base, step, n)
<1> DEFINE Good == {k \in 0..n : \E f \in [0..k -> S] : Iterates(f, base, step, k)}
<1>1. 0 \in Good
  <2> DEFINE f == [i \in 0..0 |-> base]
  <2>1. f \in [0..0 -> S] /\ Iterates(f, base, step, 0)
    BY DEF Iterates
  <2>2. \E g \in [0..0 -> S] : Iterates(g, base, step, 0)
    BY <2>1, Zenon
  <2>3. 0 \in 0..n
    OBVIOUS
  <2> QED BY <2>2, <2>3, Zenon
<1>2. ASSUME NEW k \in 0..(n - 1), k \in Good PROVE k + 1 \in Good
  <2>1. PICK f \in [0..k -> S] : Iterates(f, base, step, k)
    BY <1>2
  <2> DEFINE new == step[<<k + 1, f[k]>>]
             g == [i \in 0..(k + 1) |-> IF i = k + 1 THEN new ELSE f[i]]
  <2>2. k \in 0..k /\ k + 1 \in 1..n /\ k + 1 \in 0..n /\ k + 1 \notin 0..k
    OBVIOUS
  <2>3. new \in S
    <3>1. f[k] \in S
      BY <2>2
    <3>2. <<k + 1, f[k]>> \in (1..n) \X S
      BY <2>2, <3>1
    <3> QED BY <3>2
  <2> HIDE DEF new
  <2>4. g \in [0..(k + 1) -> S]
    BY <2>3
  <2>5. g[k + 1] = new /\ \A i \in 0..k : g[i] = f[i]
    BY <2>2
  <2> HIDE DEF g
  <2>6. ASSUME NEW i \in 1..(k + 1) PROVE g[i] = step[<<i, g[i - 1]>>]
    <3>1. CASE i = k + 1
      <4>1. i - 1 = k /\ g[k] = f[k]
        BY <2>2, <2>5, <3>1
      <4> QED BY <2>5, <3>1, <4>1 DEF new
    <3>2. CASE i # k + 1
      <4>1. i \in 1..k /\ i \in 0..k /\ i - 1 \in 0..k
        BY <3>2
      <4>2. g[i] = f[i] /\ g[i - 1] = f[i - 1] /\ f[i] = step[<<i, f[i - 1]>>]
        BY <2>1, <2>5, <4>1 DEF Iterates
      <4> QED BY <4>2
    <3> QED BY <3>1, <3>2
  <2>7. g[0] = base
    BY <2>1, <2>5 DEF Iterates
  <2>8. Iterates(g, base, step, k + 1)
    BY <2>6, <2>7 DEF Iterates
  <2>9. \E h \in [0..(k + 1) -> S] : Iterates(h, base, step, k + 1)
    BY <2>4, <2>8, Zenon
  <2> QED BY <2>2, <2>9, Zenon
<1>3. 0..n \subseteq Good
  BY <1>1, <1>2, UpTo
<1>4. n \in Good
  BY <1>3
<1> QED BY <1>4

-----------------------------------------------------------------------------
(* The searches: the order of candidates *)

\* The candidates of S are finitely many, and no two are equally good.
Ranked(S) ==
    /\ IsFiniteSet(S)
    /\ \A a \in S : ~IsBetter(a, a)
    /\ \A a, b \in S : a # b => IsBetter(a, b) \/ IsBetter(b, a)
    /\ \A a, b, c \in S : IsBetter(a, b) /\ IsBetter(b, c) => IsBetter(a, c)

\* The place of c in S, from 0.
Ahead(S, c) == {d \in S : IsBetter(d, c)}
Rank(S, c) == Cardinality(Ahead(S, c))

\* Fewer candidates are ranked too.
LEMMA RankedSubset ==
  ASSUME NEW T, NEW S, Ranked(T), S \subseteq T
  PROVE  Ranked(S) /\ Cardinality(S) \in Nat
<1>1. IsFiniteSet(S)
  BY FS_Subset DEF Ranked
<1>2. Cardinality(S) \in Nat
  BY <1>1, FS_CardinalityType
<1> QED BY <1>1, <1>2 DEF Ranked

\* Every place has one candidate, and the better one has the lower place.
LEMMA Ranks ==
  ASSUME NEW S, Ranked(S)
  PROVE  /\ IsFiniteSet(S) /\ Cardinality(S) \in Nat
         /\ \A n \in S : Rank(S, n) \in 0..(Cardinality(S) - 1)
         /\ \A a, b \in S : IsBetter(a, b) <=> Rank(S, a) < Rank(S, b)
         /\ \A r \in 0..(Cardinality(S) - 1) : \E n \in S : Rank(S, n) = r
<1>2. IsFiniteSet(S) /\ Cardinality(S) \in Nat
  BY FS_CardinalityType DEF Ranked
<1>3. ASSUME NEW n \in S PROVE IsFiniteSet(Ahead(S, n)) /\ Rank(S, n) \in Nat
  <2>1. Ahead(S, n) \subseteq S
    BY DEF Ahead
  <2>2. IsFiniteSet(Ahead(S, n))
    BY <1>2, <2>1, FS_Subset
  <2> QED BY <2>2, FS_CardinalityType DEF Rank
<1>4. ASSUME NEW n \in S PROVE Rank(S, n) \in 0..(Cardinality(S) - 1)
  <2>1. Ahead(S, n) \subseteq S \ {n} /\ n \in S
    BY DEF Ahead, Ranked
  <2>2. IsFiniteSet(S \ {n}) /\ Cardinality(S \ {n}) = Cardinality(S) - 1
    BY <1>2, FS_RemoveElement
  <2>3. Rank(S, n) <= Cardinality(S \ {n})
    BY <2>1, <2>2, FS_Subset DEF Rank
  <2> QED BY <1>2, <1>3, <2>2, <2>3
<1>5. ASSUME NEW a \in S, NEW b \in S, IsBetter(a, b) PROVE Rank(S, a) < Rank(S, b)
  <2>1. a \in Ahead(S, b) /\ a \notin Ahead(S, a) /\ Ahead(S, a) \subseteq Ahead(S, b)
    BY <1>5 DEF Ahead, Ranked
  <2>2. IsFiniteSet(Ahead(S, a) \union {a}) /\ Cardinality(Ahead(S, a) \union {a}) = Rank(S, a) + 1
    BY <1>3, <2>1, FS_AddElement DEF Rank
  <2>3. Ahead(S, a) \union {a} \subseteq Ahead(S, b)
    BY <2>1
  <2>4. Rank(S, a) + 1 <= Rank(S, b)
    BY <1>3, <2>2, <2>3, FS_Subset DEF Rank
  <2> QED BY <1>3, <2>4
<1>6. ASSUME NEW a \in S, NEW b \in S, Rank(S, a) < Rank(S, b) PROVE IsBetter(a, b)
  <2>1. Rank(S, a) \in Nat /\ Rank(S, b) \in Nat
    BY <1>3
  <2>2. a # b
    BY <1>6, <2>1
  <2>3. ~IsBetter(b, a)
    BY <1>5, <1>6, <2>1
  <2> QED BY <2>2, <2>3 DEF Ranked
<1>7. ASSUME NEW r \in 0..(Cardinality(S) - 1) PROVE \E n \in S : Rank(S, n) = r
  <2> SUFFICES ASSUME \A n \in S : Rank(S, n) # r PROVE FALSE
    OBVIOUS
  <2> DEFINE N == Cardinality(S)
             T == (0..(N - 1)) \ {r}
             f == [n \in S |-> Rank(S, n)]
  <2>1. N \in Nat /\ N >= 1
    BY <1>2
  <2>2. IsFiniteSet(0..(N - 1)) /\ Cardinality(0..(N - 1)) = N
    BY <2>1, FS_Interval
  <2>3. IsFiniteSet(T) /\ Cardinality(T) = N - 1
    BY <2>2, FS_RemoveElement
  <2>4. f \in [S -> T]
    BY <1>4
  <2>5. Cardinality(T) < Cardinality(S)
    BY <2>1, <2>3
  <2> HIDE DEF T, f
  <2>6. \E x, y \in S : x # y /\ f[x] = f[y]
    BY <1>2, <2>3, <2>4, <2>5, FS_PigeonHole
  <2>7. PICK x \in S, y \in S : x # y /\ Rank(S, x) = Rank(S, y)
    BY <2>6 DEF f
  <2>8. IsBetter(x, y) \/ IsBetter(y, x)
    BY <2>7 DEF Ranked
  <2>9. Rank(S, x) \in Nat /\ Rank(S, y) \in Nat
    BY <1>3
  <2> QED BY <1>5, <2>7, <2>8, <2>9
<1> QED BY <1>2, <1>4, <1>5, <1>6, <1>7

\* The results are all the candidates, best first.
LEMMA SortedType ==
  ASSUME NEW S, Ranked(S)
  PROVE  /\ IsFiniteSet(S) /\ Cardinality(S) \in Nat
         /\ Sorted(S) \in Seq(S) /\ Len(Sorted(S)) = Cardinality(S)
         /\ \A i, j \in 1..Cardinality(S) : i < j => IsBetter(Sorted(S)[i], Sorted(S)[j])
         /\ \A n \in S : \E i \in 1..Cardinality(S) : Sorted(S)[i] = n
<1>1. IsFiniteSet(S) /\ Cardinality(S) \in Nat
  BY Ranks
<1> DEFINE Place(r) == CHOOSE n \in S : Rank(S, n) = r - 1
<1>2. \A r \in 1..Cardinality(S) : Place(r) \in S /\ Rank(S, Place(r)) = r - 1
  <2> TAKE r \in 1..Cardinality(S)
  <2>1. r - 1 \in 0..(Cardinality(S) - 1)
    BY <1>1
  <2>2. \E n \in S : Rank(S, n) = r - 1
    BY <2>1, Ranks
  <2> QED BY <2>2
<1>3. Sorted(S) = [r \in 1..Cardinality(S) |-> Place(r)]
  BY DEF Sorted, Rank, Ahead
<1> HIDE DEF Place
<1>4. Sorted(S) \in Seq(S) /\ Len(Sorted(S)) = Cardinality(S)
  BY <1>1, <1>2, <1>3
<1>5. \A r \in 1..Cardinality(S) : Sorted(S)[r] \in S /\ Rank(S, Sorted(S)[r]) = r - 1
  BY <1>2, <1>3
<1>6. ASSUME NEW i \in 1..Cardinality(S), NEW j \in 1..Cardinality(S), i < j
      PROVE  IsBetter(Sorted(S)[i], Sorted(S)[j])
  <2>1. Rank(S, Sorted(S)[i]) < Rank(S, Sorted(S)[j])
    BY <1>1, <1>5, <1>6
  <2> QED BY <1>5, <2>1, Ranks
<1>7. ASSUME NEW n \in S PROVE \E i \in 1..Cardinality(S) : Sorted(S)[i] = n
  <2> DEFINE i == Rank(S, n) + 1
  <2>1. Rank(S, n) \in 0..(Cardinality(S) - 1)
    BY Ranks
  <2>2. i \in 1..Cardinality(S) /\ i - 1 = Rank(S, n)
    BY <1>1, <2>1
  <2>3. Sorted(S)[i] \in S /\ Rank(S, Sorted(S)[i]) = Rank(S, n)
    BY <1>5, <2>2
  <2>4. ~(Rank(S, Sorted(S)[i]) < Rank(S, n)) /\ ~(Rank(S, n) < Rank(S, Sorted(S)[i]))
    BY <2>1, <2>3
  <2> HIDE DEF i
  <2>5. ~IsBetter(Sorted(S)[i], n) /\ ~IsBetter(n, Sorted(S)[i])
    BY <2>3, <2>4, Ranks
  <2>6. Sorted(S)[i] = n
    BY <2>3, <2>5 DEF Ranked
  <2> QED BY <2>2, <2>6
<1> QED BY <1>1, <1>4, <1>6, <1>7

\* The top of the heap is the worst candidate.
LEMMA WorstType ==
  ASSUME NEW S, Ranked(S), S # {}
  PROVE  Worst(S) \in S /\ \A d \in S \ {Worst(S)} : IsBetter(d, Worst(S))
<1>1. Cardinality(S) \in Nat /\ Cardinality(S) # 0
  BY Ranks, FS_EmptySet
<1>2. Cardinality(S) - 1 \in 0..(Cardinality(S) - 1)
  BY <1>1
<1>3. PICK w \in S : Rank(S, w) = Cardinality(S) - 1
  BY <1>2, Ranks
<1>4. ASSUME NEW d \in S \ {w} PROVE ~IsBetter(w, d)
  <2>1. Rank(S, d) \in 0..(Cardinality(S) - 1) /\ (IsBetter(w, d) => Rank(S, w) < Rank(S, d))
    BY Ranks
  <2> QED BY <1>1, <1>3, <2>1
<1>5. Worst(S) \in S /\ \A d \in S \ {Worst(S)} : ~IsBetter(Worst(S), d)
  BY <1>4 DEF Worst
<1> QED BY <1>5 DEF Ranked

-----------------------------------------------------------------------------
(* The searches: the scan *)

\* S has the best n of T, or all of T when there are fewer.
TopOf(n, S, T) ==
    /\ S \subseteq T
    /\ Cardinality(S) = Smaller(n, Cardinality(T))
    /\ \A a \in T \ S, b \in S : IsBetter(b, a)

\* The loop invariant of the scan: one more row keeps the heap the best of the
\* rows so far.
LEMMA ScanKeepsTop ==
  ASSUME NEW n \in Nat, n # 0, NEW S, NEW T, NEW c, c \notin T, Ranked(T \union {c}), TopOf(n, S, T)
  PROVE  TopOf(n, Scan(n, S, c), T \union {c})
<1> DEFINE U == T \union {c}
<1>1. /\ Ranked(T) /\ Ranked(S) /\ Cardinality(T) \in Nat /\ Cardinality(S) \in Nat
      /\ S \subseteq T /\ c \notin S
  BY RankedSubset DEF TopOf
<1>2. Cardinality(U) = Cardinality(T) + 1
  BY <1>1, FS_AddElement DEF Ranked
<1>3. Cardinality(S) = Smaller(n, Cardinality(T)) /\ \A a \in T \ S, b \in S : IsBetter(b, a)
  BY DEF TopOf
<1>4. CASE Cardinality(S) < n
  <2>1. Cardinality(S) = Cardinality(T)
    BY <1>1, <1>3, <1>4 DEF Smaller
  <2>2. S = T
    BY <1>1, <2>1, FS_Subset DEF Ranked
  <2>3. Scan(n, S, c) = U
    BY <1>4, <2>2 DEF Scan
  <2>4. Cardinality(U) = Smaller(n, Cardinality(U))
    BY <1>1, <1>2, <1>4, <2>1 DEF Smaller
  <2> QED BY <2>3, <2>4 DEF TopOf
<1>5. CASE ~(Cardinality(S) < n)
  <2> DEFINE w == Worst(S)
  <2>1. Cardinality(S) = n /\ Smaller(n, Cardinality(U)) = n /\ S # {}
    BY <1>1, <1>2, <1>3, <1>5, FS_EmptySet DEF Smaller
  <2>2. w \in S /\ \A d \in S \ {w} : IsBetter(d, w)
    BY <1>1, <2>1, WorstType
  <2> HIDE DEF w
  <2>3. /\ \A a, b \in U : a # b => IsBetter(a, b) \/ IsBetter(b, a)
        /\ \A a, b, d \in U : IsBetter(a, b) /\ IsBetter(b, d) => IsBetter(a, d)
    BY DEF Ranked
  <2>4. CASE IsBetter(c, w)
    <3> DEFINE R == (S \ {w}) \union {c}
    <3>1. Scan(n, S, c) = R
      BY <1>5, <2>4 DEF Scan, w
    <3>2. IsFiniteSet(S \ {w}) /\ Cardinality(S \ {w}) = n - 1
      BY <1>1, <2>1, <2>2, FS_RemoveElement DEF Ranked
    <3>3. Cardinality(R) = n
      BY <1>1, <3>2, FS_AddElement
    <3>4. ASSUME NEW a \in U \ R, NEW b \in R PROVE IsBetter(b, a)
      <4>1. a = w \/ a \in T \ S
        BY <3>4
      <4>2. a \in T \ S => IsBetter(w, a)
        BY <1>3, <2>2
      <4>3. CASE b = c
        BY <1>1, <2>2, <2>3, <2>4, <4>1, <4>2, <4>3
      <4>4. CASE b \in S \ {w}
        BY <1>3, <2>2, <4>1, <4>4
      <4> QED BY <4>3, <4>4
    <3>5. R \subseteq U
      BY <1>1
    <3> QED BY <2>1, <3>1, <3>3, <3>4, <3>5 DEF TopOf
  <2>5. CASE ~IsBetter(c, w)
    <3>1. Scan(n, S, c) = S
      BY <1>5, <2>5 DEF Scan, w
    <3>2. IsBetter(w, c)
      BY <1>1, <2>2, <2>3, <2>5
    <3>3. ASSUME NEW a \in U \ S, NEW b \in S PROVE IsBetter(b, a)
      <4>1. CASE a = c
        <5>1. b = w \/ IsBetter(b, w)
          BY <2>2
        <5> QED BY <1>1, <2>2, <2>3, <3>2, <4>1, <5>1
      <4>2. CASE a # c
        BY <1>3, <4>2
      <4> QED BY <4>1, <4>2
    <3> QED BY <1>1, <2>1, <3>1, <3>3 DEF TopOf
  <2> QED BY <2>4, <2>5
<1> QED BY <1>4, <1>5

\* The candidates of the first r rows.
FirstRows(r) == {Rows[m] : m \in 1..r}

\* The numbers in the rows.
LEMMA RowNumbers ==
  ASSUME IInv
  PROVE  Len(ids) \in Nat /\ \A m \in 1..Len(ids) : ids[m] \in Nat /\ vectors[m] \in Nat
<1>1. ids \in Seq(Ids) /\ vectors \in Seq(Scores) /\ Len(vectors) = Len(ids)
  BY DEF IInv, RowsAreParallel
<1>2. ASSUME NEW m \in 1..Len(ids) PROVE ids[m] \in Ids /\ vectors[m] \in Scores
  BY <1>1
<1>3. Len(ids) \in Nat
  BY <1>1
<1>4. Ids \subseteq Nat /\ Scores \subseteq Nat
  BY InputsAssumption
<1> QED BY <1>2, <1>3, <1>4

\* IDs are distinct, so the rows are ranked even when their scores are equal.
LEMMA RowsAreRanked ==
  ASSUME IInv, NEW r \in 0..Len(ids)
  PROVE  Ranked(FirstRows(r)) /\ Cardinality(FirstRows(r)) = r
<1>1. /\ Len(ids) \in Nat /\ \A m \in 1..Len(ids) : ids[m] \in Nat /\ vectors[m] \in Nat
      /\ \A l, m \in 1..Len(ids) : ids[l] = ids[m] => l = m
  BY InputsAssumption DEF IInv, RowsAreParallel, MapInvertsRows
<1>2. \A m \in 1..Len(ids) : Rows[m] = [id |-> ids[m], score |-> vectors[m]]
  BY DEF Rows
<1>3. ASSUME NEW m \in 1..Len(ids) PROVE Rows[m].id = ids[m] /\ Rows[m].score = vectors[m]
  <2>1. Rows[m] = [id |-> ids[m], score |-> vectors[m]]
    BY <1>2
  <2> QED BY <2>1
<1>4. \A l, m \in 1..Len(ids) : Rows[l] = Rows[m] => l = m
  BY <1>1, <1>3
<1> DEFINE Good == {k \in 0..Len(ids) : IsFiniteSet(FirstRows(k)) /\ Cardinality(FirstRows(k)) = k}
<1>5. 0 \in Good
  <2>1. FirstRows(0) = {} /\ 0 \in 0..Len(ids)
    BY <1>1 DEF FirstRows
  <2> QED BY <2>1, FS_EmptySet
<1>6. ASSUME NEW k \in 0..(Len(ids) - 1), k \in Good PROVE k + 1 \in Good
  <2>1. k + 1 \in 0..Len(ids) /\ k + 1 \in 1..Len(ids)
    BY <1>1
  <2>2. FirstRows(k + 1) = FirstRows(k) \union {Rows[k + 1]}
    BY DEF FirstRows
  <2>3. Rows[k + 1] \notin FirstRows(k)
    <3> SUFFICES ASSUME NEW m \in 1..k, Rows[k + 1] = Rows[m] PROVE FALSE
      BY DEF FirstRows
    <3>1. m \in 1..Len(ids) /\ m # k + 1
      BY <1>1
    <3> QED BY <1>4, <2>1, <3>1
  <2>4. IsFiniteSet(FirstRows(k)) /\ Cardinality(FirstRows(k)) = k
    BY <1>6
  <2>5. IsFiniteSet(FirstRows(k + 1)) /\ Cardinality(FirstRows(k + 1)) = k + 1
    BY <2>2, <2>3, <2>4, FS_AddElement
  <2> QED BY <2>1, <2>5
<1>7. IsFiniteSet(FirstRows(r)) /\ Cardinality(FirstRows(r)) = r
  <2>1. 0..Len(ids) \subseteq Good
    BY <1>1, <1>5, <1>6, UpTo
  <2> QED BY <2>1
<1>8. ASSUME NEW c \in FirstRows(r) PROVE \E m \in 1..Len(ids) : c = Rows[m]
  BY <1>1 DEF FirstRows
<1>9. \A a \in FirstRows(r) : a.id \in Nat /\ a.score \in Nat
  BY <1>1, <1>3, <1>8
<1>10. \A a, b \in FirstRows(r) : a # b => a.id # b.id
  BY <1>1, <1>3, <1>8
<1> QED BY <1>7, <1>9, <1>10 DEF Ranked, IsBetter

\* The heap after the scan has the best n of all rows.
LEMMA CandidatesAreTop ==
  ASSUME IInv, NEW n \in Nat, n # 0
  PROVE  TopOf(n, Candidates(n), FirstRows(Len(ids)))
<1> DEFINE N == Len(ids)
           S == SUBSET FirstRows(N)
           Whole(f) == f = [row \in 0..N |-> IF row = 0 THEN {} ELSE Scan(n, f[row - 1], Rows[row])]
           step == [p \in (1..N) \X S |-> Scan(n, p[2], Rows[p[1]])]
           g == CHOOSE h : Whole(h)
<1>1. N \in Nat /\ \A m \in 1..N : Rows[m] \in FirstRows(N)
  BY DEF IInv, RowsAreParallel, FirstRows
<1>2. Candidates(n) = g[N]
  BY DEF Candidates
<1>0. \A r \in 0..N : Ranked(FirstRows(r)) /\ Cardinality(FirstRows(r)) = r
  BY RowsAreRanked
<1> HIDE DEF N
<1>3. \A i \in 1..N, a \in S : Scan(n, a, Rows[i]) \in S
  BY <1>1 DEF Scan
<1>4. step \in [(1..N) \X S -> S]
  BY <1>3
<1>5. \A i \in 1..N, a \in S : step[<<i, a>>] = Scan(n, a, Rows[i])
  OBVIOUS
<1>6. {} \in S
  OBVIOUS
<1> HIDE DEF step, S
<1>7. PICK f \in [0..N -> S] : Iterates(f, {}, step, N)
  BY <1>1, <1>4, <1>6, Iteration
<1>8. ASSUME NEW i \in 1..N PROVE f[i] = Scan(n, f[i - 1], Rows[i])
  <2>1. i - 1 \in 0..N
    BY <1>1
  <2>2. f[i - 1] \in S /\ f[i] = step[<<i, f[i - 1]>>]
    BY <1>7, <2>1 DEF Iterates
  <2> QED BY <1>5, <2>2
<1>9. Whole(f)
  BY <1>7, <1>8 DEF Iterates
<1>10. Whole(g)
  BY <1>9
<1> HIDE DEF g
<1> DEFINE Good == {k \in 0..N : TopOf(n, g[k], FirstRows(k))}
<1>11. 0 \in Good
  <2>1. 0 \in 0..N /\ FirstRows(0) = {} /\ g[0] = {}
    BY <1>1, <1>10 DEF FirstRows
  <2>2. TopOf(n, {}, {})
    BY FS_EmptySet DEF TopOf, Smaller
  <2> QED BY <2>1, <2>2
<1>12. ASSUME NEW k \in 0..(N - 1), k \in Good PROVE k + 1 \in Good
  <2>1. k + 1 \in 0..N /\ k + 1 # 0 /\ k + 1 \in 1..N /\ (k + 1) - 1 = k /\ k \in 0..N
    BY <1>1
  <2>2. g[k + 1] = Scan(n, g[k], Rows[k + 1])
    BY <1>10, <2>1
  <2>3. FirstRows(k + 1) = FirstRows(k) \union {Rows[k + 1]}
    BY DEF FirstRows
  <2>4. Rows[k + 1] \notin FirstRows(k)
    <3>1. Cardinality(FirstRows(k)) = k /\ Cardinality(FirstRows(k + 1)) = k + 1
      BY <1>0, <2>1
    <3>2. Rows[k + 1] \in FirstRows(k) => FirstRows(k + 1) = FirstRows(k)
      BY <2>3
    <3> QED BY <2>1, <3>1, <3>2
  <2>5. Ranked(FirstRows(k) \union {Rows[k + 1]})
    BY <1>0, <2>1, <2>3
  <2>6. TopOf(n, g[k], FirstRows(k))
    BY <1>12
  <2>7. TopOf(n, Scan(n, g[k], Rows[k + 1]), FirstRows(k) \union {Rows[k + 1]})
    BY <2>4, <2>5, <2>6, ScanKeepsTop
  <2>8. TopOf(n, g[k + 1], FirstRows(k + 1))
    BY <2>2, <2>3, <2>7, Zenon
  <2> QED BY <2>1, <2>8
<1>13. N \in Good
  <2>1. 0..N \subseteq Good
    BY <1>1, <1>11, <1>12, UpTo
  <2> QED BY <1>1, <2>1
<1> QED BY <1>2, <1>13 DEF N

\* The rows are the entries of the map.
LEMMA RowsAreContent ==
  ASSUME IInv
  PROVE  FirstRows(Len(ids)) = {[id |-> i, score |-> vectors[idToRow[i]]] : i \in DOMAIN idToRow}
<1>1. /\ \A i \in DOMAIN idToRow : idToRow[i] \in 1..Len(ids) /\ ids[idToRow[i]] = i
      /\ \A m \in 1..Len(ids) : ids[m] \in DOMAIN idToRow /\ idToRow[ids[m]] = m
  BY DEF IInv, MapInvertsRows
<1>2. \A m \in 1..Len(ids) : Rows[m] = [id |-> ids[m], score |-> vectors[m]]
  BY DEF Rows
<1>3. \A m \in 1..Len(ids) : \E i \in DOMAIN idToRow : Rows[m] = [id |-> i, score |-> vectors[idToRow[i]]]
  BY <1>1, <1>2
<1>4. \A i \in DOMAIN idToRow : \E m \in 1..Len(ids) : Rows[m] = [id |-> i, score |-> vectors[idToRow[i]]]
  BY <1>1, <1>2
<1> DEFINE Content == {[id |-> i, score |-> vectors[idToRow[i]]] : i \in DOMAIN idToRow}
<1>5. ASSUME NEW c \in FirstRows(Len(ids)) PROVE c \in Content
  <2>1. PICK m \in 1..Len(ids) : c = Rows[m]
    BY DEF FirstRows
  <2>2. PICK i \in DOMAIN idToRow : Rows[m] = [id |-> i, score |-> vectors[idToRow[i]]]
    BY <1>3
  <2> QED BY <2>1, <2>2
<1>6. ASSUME NEW c \in Content PROVE c \in FirstRows(Len(ids))
  <2>1. PICK i \in DOMAIN idToRow : c = [id |-> i, score |-> vectors[idToRow[i]]]
    OBVIOUS
  <2>2. PICK m \in 1..Len(ids) : Rows[m] = [id |-> i, score |-> vectors[idToRow[i]]]
    BY <1>4
  <2> QED BY <2>1, <2>2 DEF FirstRows
<1> QED BY <1>5, <1>6

\* The sizes that the map counts.
LEMMA MapCardinality ==
  ASSUME NEW S
  PROVE  Map!Cardinality(S) = Cardinality(S)
BY DEF Map!Cardinality, Map!IsFiniteSet, Cardinality, IsFiniteSet

\* What makes t the top k of the map.
LEMMA IsTheTop ==
  ASSUME NEW k, NEW t, NEW All, All = {[id |-> i, score |-> vectors[idToRow[i]]] : i \in DOMAIN idToRow},
         Len(t) = IF k <= Cardinality(All) THEN k ELSE Cardinality(All),
         {t[i] : i \in DOMAIN t} \subseteq All,
         \A i, j \in DOMAIN t : i < j => Map!Better(t[i], t[j]),
         \A a \in All \ {t[i] : i \in DOMAIN t}, b \in {t[i] : i \in DOMAIN t} : Map!Better(b, a)
  PROVE  Map!IsTopK(t, k)
<1> DEFINE content == [i \in DOMAIN idToRow |-> vectors[idToRow[i]]]
           A == {[id |-> i, score |-> content[i]] : i \in DOMAIN content}
           Found == {t[n] : n \in DOMAIN t}
<1>1. All = A
  OBVIOUS
<1>2. Len(t) = IF k <= Cardinality(A) THEN k ELSE Cardinality(A)
  BY <1>1, Zenon
<1>3. Found \subseteq A
  BY <1>1, Zenon
<1>4. \A a \in A \ Found, b \in Found : Map!Better(b, a)
  BY <1>1, Zenon
<1>5. Map!Cardinality(A) = Cardinality(A)
  BY MapCardinality
<1> QED BY <1>2, <1>3, <1>4, <1>5 DEF Map!IsTopK

\* The answer to every search.
LEMMA ExactSearches == IInv => SearchIsExact
<1> SUFFICES ASSUME IInv, NEW k \in 0..(Cardinality(Ids) + 1) PROVE Map!IsTopK(Search(k), k)
  BY DEF SearchIsExact
<1> DEFINE All == FirstRows(Len(ids))
           n == Smaller(k, Len(ids))
           s == Search(k)
<1>1. Len(ids) \in Nat /\ k \in Nat
  <2>1. Cardinality(Ids) \in Nat
    BY InputsAssumption, FS_CardinalityType
  <2> QED BY <2>1 DEF IInv, RowsAreParallel
<1>2. Ranked(All) /\ Cardinality(All) = Len(ids)
  BY <1>1, RowsAreRanked
<1>3. All = {[id |-> i, score |-> vectors[idToRow[i]]] : i \in DOMAIN idToRow}
  BY RowsAreContent
<1>4. \A a, b \in All : IsBetter(a, b) <=> Map!Better(a, b)
  <2>1. \A a \in All : a.id \in Nat /\ a.score \in Nat
    <3>1. \A m \in 1..Len(ids) : ids[m] \in Nat /\ vectors[m] \in Nat
      BY RowNumbers
    <3> SUFFICES ASSUME NEW a \in All PROVE a.id \in Nat /\ a.score \in Nat
      OBVIOUS
    <3>2. PICK m \in 1..Len(ids) : a = Rows[m]
      BY DEF FirstRows
    <3>3. a = [id |-> ids[m], score |-> vectors[m]]
      BY <3>2 DEF Rows
    <3> QED BY <3>1, <3>3
  <2> QED BY <2>1 DEF IsBetter, Map!Better
<1>5. n = IF k <= Cardinality(All) THEN k ELSE Cardinality(All)
  BY <1>2 DEF Smaller
<1> HIDE DEF All
<1>6. CASE n = 0
  <2>1. s = <<>>
    BY <1>6 DEF Search
  <2>2. Len(s) = n /\ DOMAIN s = {}
    BY <1>6, <2>1
  <2> HIDE DEF s, n
  <2>3. {s[i] : i \in DOMAIN s} = {}
    BY <2>2
  <2>4. Map!IsTopK(s, k)
    BY <1>3, <1>5, <2>2, <2>3, IsTheTop
  <2> QED BY <2>4 DEF s
<1>7. CASE n # 0
  <2> DEFINE S == Candidates(n)
  <2>1. n \in Nat /\ n <= Len(ids)
    BY <1>1 DEF Smaller
  <2>2. s = Sorted(S)
    BY <1>7 DEF Search
  <2> HIDE DEF n
  <2>3. TopOf(n, S, All)
    BY <1>7, <2>1, CandidatesAreTop DEF All
  <2> HIDE DEF S
  <2>4. S \subseteq All /\ Cardinality(S) = n /\ \A a \in All \ S, b \in S : IsBetter(b, a)
    BY <1>1, <1>2, <2>1, <2>3 DEF TopOf, Smaller
  <2>5. Ranked(S)
    BY <1>2, <2>4, RankedSubset
  <2> HIDE DEF s
  <2>6. /\ s \in Seq(S) /\ Len(s) = n
        /\ \A i, j \in 1..n : i < j => IsBetter(s[i], s[j])
        /\ \A c \in S : \E i \in 1..n : s[i] = c
    BY <2>2, <2>4, <2>5, SortedType
  <2>7. DOMAIN s = 1..n /\ \A i \in 1..n : s[i] \in S
    BY <2>6
  <2>8. {s[i] : i \in DOMAIN s} = S
    BY <2>6, <2>7
  <2>9. \A i, j \in DOMAIN s : i < j => Map!Better(s[i], s[j])
    BY <1>4, <2>4, <2>6, <2>7
  <2>10. \A a \in All \ S, b \in S : Map!Better(b, a)
    BY <1>4, <2>4
  <2>11. {s[i] : i \in DOMAIN s} \subseteq All
    BY <2>4, <2>8
  <2>12. \A a \in All \ {s[i] : i \in DOMAIN s}, b \in {s[i] : i \in DOMAIN s} : Map!Better(b, a)
    BY <2>8, <2>10
  <2>13. Map!IsTopK(s, k)
    BY <1>3, <1>5, <2>6, <2>9, <2>11, <2>12, IsTheTop
  <2> QED BY <2>13 DEF s
<1> QED BY <1>6, <1>7

\* Whatever was inserted, rolled back and deleted before, a search scans rows
\* that agree with the map and returns its exact top k in order, for every k.
THEOREM IndexStaysExact == Spec => []IndexIsExact
<1>1. Spec => []IInv
  BY InitIInv, StepIInv, PTL DEF Spec
<1>2. IInv => IndexIsExact
  BY AgreeingRows, ExactSearches DEF IndexIsExact
<1> QED BY <1>1, <1>2, PTL

-----------------------------------------------------------------------------
(* The file of the index *)

\* Row numbers times the dimension.
LEMMA Products ==
  ASSUME NEW D \in Nat, NEW m \in Nat \ {0}, NEW k \in Nat, m <= k
  PROVE  /\ (m - 1) * D \in Nat /\ m * D \in Nat /\ k * D \in Nat /\ (k + 1) * D = k * D + D
         /\ m * D = (m - 1) * D + D /\ m * D <= k * D
<1>1. (m - 1) * D \in Nat /\ m * D \in Nat /\ k * D \in Nat
  OBVIOUS
<1>2. (k + 1) * D = k * D + D /\ m * D = (m - 1) * D + D
  OBVIOUS
<1>3. m * D <= k * D
  <2>1. k - m \in Nat /\ k * D = m * D + (k - m) * D /\ (k - m) * D \in Nat
    OBVIOUS
  <2> QED BY <1>1, <2>1
<1> QED BY <1>1, <1>2, <1>3

\* Two sequences in one.
LEMMA Joined ==
  ASSUME NEW S, NEW s \in Seq(S), NEW t \in Seq(S)
  PROVE  /\ s \o t \in Seq(S) /\ Len(s \o t) = Len(s) + Len(t)
         /\ \A n \in 1..Len(s) : (s \o t)[n] = s[n]
         /\ \A n \in 1..Len(t) : (s \o t)[Len(s) + n] = t[n]
OBVIOUS

\* The rows of a file in one sequence: component c of row m is (m - 1) * D + c.
EqualRows(rows, D) == \A m \in 1..Len(rows) : Len(rows[m]) = D
HoldsRows(s, rows, D) ==
    /\ Len(s) = Len(rows) * D
    /\ \A m \in 1..Len(rows), c \in 1..D : s[(m - 1) * D + c] = rows[m][c]

LEMMA FlattenedRows ==
  ASSUME NEW S, NEW D \in Nat, NEW rows \in Seq(Seq(S)), EqualRows(rows, D)
  PROVE  FlattenSeq(rows) \in Seq(S) /\ HoldsRows(FlattenSeq(rows), rows, D)
<1> DEFINE N == Len(rows)
           Whole(f) == f = [i \in 1..N |-> IF i = 1 THEN rows[i] ELSE f[i - 1] \o rows[i]]
           step == [p \in (1..N) \X Seq(S) |-> p[2] \o rows[p[1]]]
           g == CHOOSE h : Whole(h)
           Holds(s, k) == /\ s \in Seq(S) /\ Len(s) = k * D
                          /\ \A m \in 1..k, c \in 1..D : s[(m - 1) * D + c] = rows[m][c]
<1>1. N \in Nat /\ \A i \in 1..N : rows[i] \in Seq(S) /\ Len(rows[i]) = D
  BY DEF EqualRows
<1>2. CASE N = 0
  <2>1. FlattenSeq(rows) = <<>>
    BY <1>2 DEF FlattenSeq
  <2> QED BY <1>2, <2>1 DEF HoldsRows
<1>3. CASE N # 0
  <2>1. FlattenSeq(rows) = g[N]
    BY <1>1, <1>3 DEF FlattenSeq
  <2> HIDE DEF N
  <2>2. step \in [(1..N) \X Seq(S) -> Seq(S)]
    BY <1>1
  <2>3. \A i \in 1..N, a \in Seq(S) : step[<<i, a>>] = a \o rows[i]
    OBVIOUS
  <2>4. <<>> \in Seq(S)
    OBVIOUS
  <2> HIDE DEF step
  <2>5. PICK f \in [0..N -> Seq(S)] : Iterates(f, <<>>, step, N)
    BY <1>1, <2>2, <2>4, Iteration
  <2>6. ASSUME NEW i \in 1..N PROVE f[i] = f[i - 1] \o rows[i] /\ (i = 1 => f[i] = rows[i])
    <3>1. i - 1 \in 0..N
      BY <1>1
    <3>2. f[i - 1] \in Seq(S) /\ f[i] = step[<<i, f[i - 1]>>]
      BY <2>5, <3>1 DEF Iterates
    <3>3. f[i] = f[i - 1] \o rows[i]
      BY <2>3, <3>2
    <3>4. i = 1 => f[i - 1] = <<>>
      BY <2>5 DEF Iterates
    <3>5. <<>> \o rows[i] = rows[i]
      BY <1>1
    <3> QED BY <3>3, <3>4, <3>5
  <2> DEFINE h == [i \in 1..N |-> f[i]]
  <2>7. Whole(h)
    <3>1. ASSUME NEW i \in 1..N PROVE h[i] = IF i = 1 THEN rows[i] ELSE h[i - 1] \o rows[i]
      <4>1. h[i] = f[i] /\ (i # 1 => h[i - 1] = f[i - 1])
        BY <1>1
      <4> QED BY <2>6, <4>1
    <3> QED BY <3>1
  <2>8. Whole(g)
    BY <2>7
  <2> HIDE DEF g
  <2> DEFINE Good == {k \in 0..N : k = 0 \/ Holds(g[k], k)}
  <2>9. 0 \in Good
    BY <1>1
  <2>10. ASSUME NEW k \in 0..(N - 1), k \in Good PROVE k + 1 \in Good
    <3>1. k + 1 \in 1..N /\ (k + 1) - 1 = k /\ k + 1 \in 0..N
      BY <1>1
    <3>2. PICK u \in Seq(S) : Holds(u, k) /\ g[k + 1] = u \o rows[k + 1]
      <4>1. CASE k = 0
        <5>1. g[k + 1] = rows[k + 1]
          BY <2>8, <3>1, <4>1
        <5>2. <<>> \o rows[k + 1] = rows[k + 1]
          BY <1>1, <3>1
        <5>3. Holds(<<>>, k)
          BY <4>1
        <5> QED BY <2>4, <5>1, <5>2, <5>3
      <4>2. CASE k # 0
        <5>1. g[k + 1] = g[k] \o rows[k + 1]
          <6>1. k + 1 # 1
            BY <4>2
          <6> QED BY <2>8, <3>1, <6>1
        <5>2. Holds(g[k], k)
          BY <2>10, <4>2
        <5> QED BY <5>1, <5>2
      <4> QED BY <4>1, <4>2
    <3>3. rows[k + 1] \in Seq(S) /\ Len(rows[k + 1]) = D
      BY <1>1, <3>1
    <3> DEFINE w == g[k + 1]
    <3>4. w \in Seq(S) /\ Len(w) = k * D + D
      BY <3>2, <3>3
    <3>5. (k + 1) * D = k * D + D /\ k * D \in Nat
      OBVIOUS
    <3>6. ASSUME NEW m \in 1..(k + 1), NEW c \in 1..D PROVE w[(m - 1) * D + c] = rows[m][c]
      <4>1. CASE m = k + 1
        <5>1. (m - 1) * D = k * D
          BY <4>1
        <5>2. w[Len(u) + c] = rows[k + 1][c] /\ Len(u) = k * D
          <6> DEFINE v == rows[k + 1]
          <6>1. v \in Seq(S) /\ c \in 1..Len(v)
            BY <3>3
          <6> HIDE DEF v
          <6>2. (u \o v)[Len(u) + c] = v[c]
            BY <6>1, Joined
          <6> QED BY <3>2, <6>2 DEF v
        <5> QED BY <4>1, <5>1, <5>2
      <4>2. CASE m # k + 1
        <5>1. m \in 1..k /\ m \in Nat \ {0} /\ m <= k /\ k \in Nat
          BY <4>2
        <5> DEFINE i == (m - 1) * D + c
        <5>2. i \in 1..(k * D)
          <6> DEFINE a == (m - 1) * D
                     b == m * D
                     e == k * D
          <6>1. a \in Nat /\ b = a + D /\ b <= e /\ e \in Nat
            BY <5>1, Products
          <6> HIDE DEF a, b, e
          <6>2. a + c \in 1..e
            BY <6>1
          <6> QED BY <6>2 DEF a, e
        <5>3. u[i] = rows[m][c] /\ Len(u) = k * D
          BY <3>2, <5>1
        <5> HIDE DEF i
        <5>4. w[i] = u[i]
          BY <3>2, <3>3, <5>2, <5>3
        <5> QED BY <5>3, <5>4 DEF i
      <4> QED BY <4>1, <4>2
    <3>7. Holds(w, k + 1)
      BY <3>4, <3>5, <3>6
    <3> QED BY <3>1, <3>7
  <2>11. Holds(g[N], N)
    <3>1. 0..N \subseteq Good
      BY <1>1, <2>9, <2>10, UpTo
    <3> HIDE DEF Good
    <3>2. N \in Good
      BY <1>1, <3>1
    <3> QED BY <1>3, <3>2 DEF Good
  <2> QED BY <2>1, <2>11 DEF N, HoldsRows
<1> QED BY <1>2, <1>3

\* The rows of the index as vectors, and the file that is saved from them.
Vectors == [n \in 1..Len(ids) |-> Axis(vectors[n])]
Written == FlatSaved(Dimension, ids, Vectors)

\* The file has the IDs and then the components of every row.
LEMMA WrittenType ==
  ASSUME IInv
  PROVE  /\ Dimension \in Nat /\ Len(ids) \in Nat /\ Len(ids) * Dimension \in Nat
         /\ Written = [format |-> FlatFormat, dimension |-> Dimension, count |-> Len(ids),
                       payload |-> Len(ids) + Len(ids) * Dimension, sum |-> Written.cells, cells |-> Written.cells]
         /\ Written.cells \in Seq(Nat) /\ Len(Written.cells) = Len(ids) + Len(ids) * Dimension
         /\ \A n \in 1..Len(ids) : Written.cells[n] = ids[n]
         /\ \A n \in 1..Len(ids), c \in 1..Dimension :
               Written.cells[Len(ids) + (n - 1) * Dimension + c] = Vectors[n][c]
<1> DEFINE N == Len(ids)
           D == Dimension
           flat == FlattenSeq(Vectors)
           cells == ids \o flat
<1>1. N \in Nat /\ ids \in Seq(Nat) /\ Len(ids) = N
  <2>1. ids \in Seq(Ids) /\ Ids \subseteq Nat
    BY InputsAssumption DEF IInv, RowsAreParallel
  <2>2. N \in Nat /\ ids = [n \in 1..N |-> ids[n]] /\ \A n \in 1..N : ids[n] \in Ids
    BY <2>1
  <2>3. \A n \in 1..N : ids[n] \in Nat
    BY <2>1, <2>2
  <2> QED BY <2>2, <2>3
<1>2. D \in Nat
  BY ScoresAssumption, FS_CardinalityType DEF Dimension
<1>3. Vectors \in Seq(Seq(Nat)) /\ Len(Vectors) = N /\ \A m \in 1..N : Len(Vectors[m]) = D
  <2>1. ASSUME NEW m \in 1..N PROVE Axis(vectors[m]) \in Seq(Nat) /\ Len(Axis(vectors[m])) = D
    <3> HIDE DEF D
    <3>1. Axis(vectors[m]) = [c \in 1..D |-> IF c = vectors[m] + 1 THEN 1 ELSE 0]
      BY DEF Axis, D
    <3> QED BY <1>2, <3>1
  <2> HIDE DEF N, D
  <2>2. Vectors = [m \in 1..N |-> Axis(vectors[m])]
    BY DEF Vectors, N
  <2> QED BY <1>1, <2>1, <2>2
<1> HIDE DEF N, D
<1>4. /\ flat \in Seq(Nat) /\ Len(flat) = N * D
      /\ \A m \in 1..N, c \in 1..D : flat[(m - 1) * D + c] = Vectors[m][c]
  <2>1. D \in Nat /\ Vectors \in Seq(Seq(Nat)) /\ EqualRows(Vectors, D)
    BY <1>2, <1>3 DEF EqualRows
  <2>2. flat \in Seq(Nat) /\ HoldsRows(flat, Vectors, D)
    BY <2>1, FlattenedRows
  <2>3. Len(Vectors) = N
    BY <1>3
  <2> QED BY <2>2, <2>3 DEF HoldsRows
<1> HIDE DEF flat
<1>5. N * D \in Nat
  BY <1>1, <1>2
<1>6. cells \in Seq(Nat) /\ Len(cells) = N + N * D /\ \A n \in 1..N : cells[n] = ids[n]
  <2>1. ids \in Seq(Nat) /\ flat \in Seq(Nat) /\ Len(ids) = N /\ Len(flat) = N * D
    BY <1>1, <1>4
  <2>2. cells \in Seq(Nat) /\ Len(cells) = Len(ids) + Len(flat) /\ \A n \in 1..Len(ids) : cells[n] = ids[n]
    BY <2>1, Joined
  <2> QED BY <2>1, <2>2
<1>7. ASSUME NEW m \in 1..N, NEW c \in 1..D PROVE cells[N + (m - 1) * D + c] = Vectors[m][c]
  <2> DEFINE a == (m - 1) * D
             b == m * D
             e == N * D
  <2>1. a \in Nat /\ b = a + D /\ b <= e /\ e \in Nat
    BY <1>1, <1>2, Products
  <2>2. Len(flat) = e /\ flat[a + c] = Vectors[m][c]
    BY <1>4
  <2> HIDE DEF a, b, e
  <2>3. a + c \in 1..e /\ N + a + c = N + (a + c)
    BY <1>1, <1>2, <2>1
  <2>4. cells[N + (a + c)] = flat[a + c]
    BY <1>1, <1>4, <2>2, <2>3
  <2> QED BY <2>2, <2>3, <2>4 DEF a
<1>8. Written = [format |-> FlatFormat, dimension |-> D, count |-> N, payload |-> N + N * D,
                 sum |-> cells, cells |-> cells]
  BY DEF Written, FlatSaved, FlatPayloadSize, N, D, flat
<1> HIDE DEF cells
<1>9. Written.cells = cells
  BY <1>8
<1> QED BY <1>1, <1>2, <1>5, <1>6, <1>7, <1>8, <1>9 DEF N, D

\* The elements of a part of a sequence.
LEMMA PartOf ==
  ASSUME NEW s \in Seq(Nat), NEW lo \in Nat, NEW hi \in Nat, lo >= 1, hi <= Len(s)
  PROVE  \A c \in 1..(hi - lo + 1) : SubSeq(s, lo, hi)[c] = s[lo + c - 1]
BY SMT

\* load() returns what save() wrote, row by row.
LEMMA WrittenIsLoaded ==
  ASSUME IInv
  PROVE  FlatLoaded(Written) = [dimension |-> Dimension, ids |-> ids, rows |-> Vectors]
<1> DEFINE N == Len(ids)
           D == Dimension
           cells == Written.cells
<1>1. /\ D \in Nat /\ N \in Nat /\ N * D \in Nat
      /\ Written.dimension = D /\ Written.count = N
      /\ cells \in Seq(Nat) /\ Len(cells) = N + N * D
      /\ \A n \in 1..N : cells[n] = ids[n]
      /\ \A n \in 1..N, c \in 1..D : cells[N + (n - 1) * D + c] = Vectors[n][c]
  BY WrittenType
<1>2. ids = [n \in 1..N |-> ids[n]]
  BY DEF IInv, RowsAreParallel
<1>3. Vectors = [n \in 1..N |-> Vectors[n]] /\ \A n \in 1..N : Vectors[n] = [c \in 1..D |-> Vectors[n][c]]
  BY DEF Vectors, Axis
<1> HIDE DEF N, D, cells
<1>4. SubSeq(cells, 1, N) = ids
  <2>1. SubSeq(cells, 1, N) = [n \in 1..N |-> cells[n]]
    <3>1. SubSeq(cells, 1, N) \in Seq(Nat) /\ Len(SubSeq(cells, 1, N)) = N
      BY <1>1
    <3>2. \A n \in 1..N : SubSeq(cells, 1, N)[n] = cells[n]
      BY <1>1
    <3> QED BY <3>1, <3>2
  <2>2. [n \in 1..N |-> cells[n]] = [n \in 1..N |-> ids[n]]
    BY <1>1
  <2> QED BY <1>2, <2>1, <2>2
<1>5. ASSUME NEW n \in 1..N PROVE FlatRow(cells, N, D, n) = Vectors[n]
  <2> DEFINE a == (n - 1) * D
             b == n * D
             e == N * D
             lo == N + a + 1
             hi == N + b
             row == SubSeq(cells, lo, hi)
  <2>1. a \in Nat /\ b = a + D /\ b <= e /\ e \in Nat
    BY <1>1, Products
  <2>2. Len(cells) = N + e /\ \A c \in 1..D : cells[N + a + c] = Vectors[n][c]
    BY <1>1
  <2>3. FlatRow(cells, N, D, n) = row
    BY DEF FlatRow
  <2> HIDE DEF a, b, e
  <2>4. lo \in Nat /\ hi \in Nat /\ hi <= Len(cells) /\ lo >= 1 /\ hi - lo + 1 = D /\ lo <= hi + 1
    BY <1>1, <2>1, <2>2
  <2>5. row = [c \in 1..D |-> cells[lo + c - 1]]
    <3> HIDE DEF lo, hi
    <3>1. row \in Seq(Nat) /\ Len(row) = hi - lo + 1
      BY <1>1, <2>4
    <3>2. \A c \in 1..(hi - lo + 1) : row[c] = cells[lo + c - 1]
      BY <1>1, <2>4, PartOf
    <3> HIDE DEF row
    <3>3. Len(row) = D
      BY <2>4, <3>1
    <3>4. \A c \in 1..D : row[c] = cells[lo + c - 1]
      BY <2>4, <3>2
    <3>5. row = [c \in 1..D |-> row[c]]
      BY <3>1, <3>3
    <3> QED BY <3>4, <3>5
  <2>6. \A c \in 1..D : lo + c - 1 = N + a + c
    BY <1>1, <2>1
  <2>7. \A c \in 1..D : cells[lo + c - 1] = Vectors[n][c]
    BY <2>2, <2>6
  <2> HIDE DEF lo, hi
  <2>8. row = [c \in 1..D |-> Vectors[n][c]]
    BY <2>5, <2>7
  <2> QED BY <1>3, <2>3, <2>8
<1>6. [n \in 1..N |-> FlatRow(cells, N, D, n)] = Vectors
  BY <1>3, <1>5
<1>7. FlatLoaded(Written) = [dimension |-> D, ids |-> SubSeq(cells, 1, N),
                             rows |-> [n \in 1..N |-> FlatRow(cells, N, D, n)]]
  BY <1>1 DEF FlatLoaded, cells
<1> QED BY <1>4, <1>6, <1>7 DEF D

\* A damaged file does not pass the verification: a cell of the payload breaks
\* the checksum, and a cell of the header the sizes that are compared.
LEMMA DamageIsFound ==
  ASSUME IInv, NEW f \in Damaged(Written), Verified(f)
  PROVE  f = Written
<1> DEFINE N == Len(ids)
           D == Dimension
           cells == Written.cells
           P == N + N * D
           Rec(format, dimension, count, payload, s) ==
               [format |-> format, dimension |-> dimension, count |-> count, payload |-> payload,
                sum |-> cells, cells |-> s]
<1>1. D \in Nat /\ N \in Nat /\ Written = Rec(FlatFormat, D, N, P, cells) /\ cells \in Seq(Nat)
  BY WrittenType
<1>2. /\ f.format = FlatFormat /\ f.payload = f.count + f.count * f.dimension /\ f.sum = f.cells
      /\ f.dimension = D /\ Len(SubSeq(f.cells, 1, f.count)) = N
  <2>1. FlatLoads(f) /\ Len(FlatLoaded(f).ids) = N /\ FlatLoaded(f).dimension = D
    BY DEF Verified
  <2>2. FlatLoaded(f).ids = SubSeq(f.cells, 1, f.count) /\ FlatLoaded(f).dimension = f.dimension
    BY DEF FlatLoaded
  <2> QED BY <2>1, <2>2 DEF FlatLoads, FlatPayloadSize
<1> HIDE DEF N, D, cells, P
<1>3. ASSUME NEW h \in {"format", "dimension", "count", "payload"}, NEW c \in Cells,
             f = [Written EXCEPT ![h] = c]
      PROVE  f = Written
  <2>1. c \in Nat
    BY NumbersAssumption
  <2>2. CASE h = "format"
    <3>1. f = Rec(c, D, N, P, cells)
      BY <1>1, <1>3, <2>2
    <3>2. c = FlatFormat
      BY <1>2, <3>1
    <3> QED BY <1>1, <3>1, <3>2
  <2>3. CASE h = "dimension"
    <3>1. f = Rec(FlatFormat, c, N, P, cells)
      BY <1>1, <1>3, <2>3
    <3>2. c = D
      BY <1>2, <3>1
    <3> QED BY <1>1, <3>1, <3>2
  <2>4. CASE h = "count"
    <3>1. f = Rec(FlatFormat, D, c, P, cells)
      BY <1>1, <1>3, <2>4
    <3>2. f.cells = cells /\ f.count = c
      BY <3>1
    <3>3. Len(SubSeq(cells, 1, c)) = c
      BY <1>1, <2>1
    <3>4. c = N
      BY <1>2, <3>2, <3>3
    <3> QED BY <1>1, <3>1, <3>4
  <2>5. CASE h = "payload"
    <3>1. f = Rec(FlatFormat, D, N, c, cells)
      BY <1>1, <1>3, <2>5
    <3>2. f.payload = c /\ f.count = N /\ f.dimension = D
      BY <3>1
    <3>3. c = P
      BY <1>2, <3>2 DEF P
    <3> QED BY <1>1, <3>1, <3>3
  <2> QED BY <2>2, <2>3, <2>4, <2>5
<1>4. ASSUME NEW s, f = [Written EXCEPT !.cells = s] PROVE f = Written
  <2>1. f = Rec(FlatFormat, D, N, P, s)
    BY <1>1, <1>4
  <2>2. s = cells
    BY <1>2, <2>1
  <2> QED BY <1>1, <2>1, <2>2
<1>5. ASSUME NEW n \in DOMAIN Written.cells, NEW c \in Cells, f = [Written EXCEPT !.cells[n] = c] PROVE f = Written
  <2>1. f = [Written EXCEPT !.cells = [Written.cells EXCEPT ![n] = c]]
    BY <1>1, <1>5
  <2> QED BY <1>4, <2>1
<1>6. ASSUME NEW n \in 0..Len(Written.cells), f = [Written EXCEPT !.cells = SubSeq(@, 1, n)] PROVE f = Written
  <2>1. f = [Written EXCEPT !.cells = SubSeq(Written.cells, 1, n)]
    BY <1>1, <1>6
  <2> QED BY <1>4, <2>1
<1>7. ASSUME NEW c \in Cells, f = [Written EXCEPT !.cells = Append(@, c)] PROVE f = Written
  <2>1. f = [Written EXCEPT !.cells = Append(Written.cells, c)]
    BY <1>1, <1>7
  <2> QED BY <1>4, <2>1
<1> QED BY <1>3, <1>5, <1>6, <1>7 DEF Damaged

-----------------------------------------------------------------------------
(* The build tool *)

Places == {"object", "key", "colon", "id", "array", "firstValue", "value", "afterValue", "member", "end", "failed"}
Stages == {"library", "reading", "saved", "damaged", "verified", "failed"}

\* A parser has numbers where the index needs them: the ID is one as soon as
\* the member was read.
IsCursor(c) ==
    /\ c = [at |-> c.at, key |-> c.key, hasId |-> c.hasId, hasValues |-> c.hasValues, id |-> c.id, values |-> c.values]
    /\ c.at \in Places
    /\ c.hasId \in BOOLEAN /\ c.hasValues \in BOOLEAN
    /\ c.hasId /\ c.at # "id" => c.id \in Ids
    /\ c.values \in Seq(Ids)

\* Row n of the index is the record r of the input.
Stores(n, r) == ids[n] = r.id /\ vectors[n] = Normalized(r.values)

\* The tool stores exactly the records that it has read, in order.
GivenIsStored ==
    /\ given \in Seq([id : Ids, values : Seq(Ids)])
    /\ Len(given) = Len(ids)
    /\ \A n \in 1..Len(ids) : Stores(n, given[n])

\* The file is the one that was saved, or that one damaged, and a damaged one
\* is never verified.
FileIsWritten ==
    /\ stage \in {"saved", "verified"} => file = Written
    /\ stage = "damaged" => file \in Damaged(Written) \ {Written}
    /\ stage \in {"saved", "damaged", "verified"} => CountMatches

\* The inductive invariant of the tool.
BuildIInv ==
    /\ IInv
    /\ IsCursor(cursor)
    /\ stage \in Stages
    /\ stage \notin {"library", "failed"} => GivenIsStored
    /\ FileIsWritten

\* A parser from its fields.
LEMMA MakeCursor ==
  ASSUME NEW at \in Places, NEW key, NEW hasId \in BOOLEAN, NEW hasValues \in BOOLEAN, NEW id,
         NEW values \in Seq(Ids), hasId /\ at # "id" => id \in Ids
  PROVE  IsCursor([at |-> at, key |-> key, hasId |-> hasId, hasValues |-> hasValues, id |-> id, values |-> values])
BY DEF IsCursor

LEMMA StartType == IsCursor(Start) /\ IsCursor(Failed) /\ Start.at = "object" /\ Failed.at = "failed"
<1>1. Start = [at |-> "object", key |-> "none", hasId |-> FALSE, hasValues |-> FALSE, id |-> 0, values |-> <<>>]
  BY DEF Start
<1>2. Failed = [at |-> "failed", key |-> "none", hasId |-> FALSE, hasValues |-> FALSE, id |-> 0, values |-> <<>>]
  <2>1. Failed = [[at |-> "object", key |-> "none", hasId |-> FALSE, hasValues |-> FALSE, id |-> 0, values |-> <<>>]
                    EXCEPT !.at = "failed"]
    BY DEF Failed, Start
  <2> QED BY <2>1
<1>3. <<>> \in Seq(Ids) /\ "object" \in Places /\ "failed" \in Places
  BY DEF Places
<1> QED BY <1>1, <1>2, <1>3, MakeCursor

\* One token.
LEMMA AdvanceType ==
  ASSUME NEW c, IsCursor(c), NEW t
  PROVE  IsCursor(Advance(c, t))
<1> DEFINE New(at, key, hasId, hasValues, id, values) ==
               [at |-> at, key |-> key, hasId |-> hasId, hasValues |-> hasValues, id |-> id, values |-> values]
           Moved(at) == New(at, c.key, c.hasId, c.hasValues, c.id, c.values)
<1>1. /\ c = New(c.at, c.key, c.hasId, c.hasValues, c.id, c.values) /\ c.at \in Places
      /\ c.hasId \in BOOLEAN /\ c.hasValues \in BOOLEAN /\ c.values \in Seq(Ids)
      /\ (c.hasId /\ c.at # "id" => c.id \in Ids)
  BY DEF IsCursor
<1>2. IsCursor(Failed)
  BY StartType
<1>3. ASSUME NEW at \in Places, c.at # "id" PROVE IsCursor([c EXCEPT !.at = at])
  <2>1. [c EXCEPT !.at = at] = Moved(at)
    BY <1>1
  <2>2. IsCursor(Moved(at))
    BY <1>1, <1>3, MakeCursor
  <2> QED BY <2>1, <2>2
<1>4. ASSUME c.at # "id" PROVE IsCursor(Value(c, t))
  <2>1. CASE t \in Numbers
    <3> DEFINE values == Append(c.values, Number[t])
    <3>1. values \in Seq(Ids) /\ "afterValue" \in Places
      BY <1>1, <2>1, NumbersAssumption DEF Places
    <3>2. Value(c, t) = New("afterValue", c.key, c.hasId, c.hasValues, c.id, values)
      BY <1>1, <2>1 DEF Value
    <3> HIDE DEF values
    <3>3. IsCursor(New("afterValue", c.key, c.hasId, c.hasValues, c.id, values))
      BY <1>1, <1>4, <3>1, MakeCursor
    <3> QED BY <3>2, <3>3
  <2>2. CASE t \notin Numbers
    BY <1>2, <2>2 DEF Value
  <2> QED BY <2>1, <2>2
<1>5. ASSUME c.at # "id" PROVE IsCursor(Member(c))
  <2>1. CASE c.key = "id" /\ ~c.hasId
    <3>1. Member(c) = New("id", c.key, TRUE, c.hasValues, c.id, c.values)
      BY <1>1, <2>1 DEF Member
    <3>2. IsCursor(New("id", c.key, TRUE, c.hasValues, c.id, c.values))
      BY <1>1, MakeCursor DEF Places
    <3> QED BY <3>1, <3>2
  <2>2. CASE ~(c.key = "id" /\ ~c.hasId) /\ c.key = "values" /\ ~c.hasValues
    <3>1. Member(c) = New("array", c.key, c.hasId, TRUE, c.id, c.values)
      BY <1>1, <2>2 DEF Member
    <3>2. IsCursor(New("array", c.key, c.hasId, TRUE, c.id, c.values))
      BY <1>1, <1>5, MakeCursor DEF Places
    <3> QED BY <3>1, <3>2
  <2>3. CASE ~(c.key = "id" /\ ~c.hasId) /\ ~(c.key = "values" /\ ~c.hasValues)
    BY <1>2, <2>3 DEF Member
  <2> QED BY <2>1, <2>2, <2>3
<1>6. CASE c.at = "id" /\ t \in Numbers
  <2>1. Advance(c, t) = New("member", c.key, c.hasId, c.hasValues, Number[t], c.values)
    BY <1>1, <1>6 DEF Advance
  <2>2. Number[t] \in Ids /\ "member" \in Places
    BY <1>6, NumbersAssumption DEF Places
  <2>3. IsCursor(New("member", c.key, c.hasId, c.hasValues, Number[t], c.values))
    BY <1>1, <2>2, MakeCursor
  <2> QED BY <2>1, <2>3
<1>7. CASE c.at = "key" /\ t \in Keys
  <2>1. Advance(c, t) = New("colon", t, c.hasId, c.hasValues, c.id, c.values)
    BY <1>1, <1>7 DEF Advance
  <2>2. IsCursor(New("colon", t, c.hasId, c.hasValues, c.id, c.values))
    BY <1>1, <1>7, MakeCursor DEF Places
  <2> QED BY <2>1, <2>2
<1>8. CASE c.at = "colon" /\ t = "colon"
  BY <1>5, <1>8 DEF Advance
<1>9. CASE c.at = "value" \/ (c.at = "firstValue" /\ t # "closeArray")
  BY <1>4, <1>9 DEF Advance
<1>10. CASE ~(c.at = "id" /\ t \in Numbers) /\ ~(c.at = "key" /\ t \in Keys) /\ ~(c.at = "colon" /\ t = "colon")
            /\ c.at # "value" /\ ~(c.at = "firstValue" /\ t # "closeArray")
  <2>1. CASE c.at = "id"
    <3>1. Advance(c, t) = Failed
      BY <1>10, <2>1 DEF Advance
    <3> QED BY <1>2, <3>1
  <2>2. CASE c.at # "id"
    <3>1. Advance(c, t) = Failed \/ \E at \in Places : Advance(c, t) = [c EXCEPT !.at = at]
      BY <1>10, <2>2 DEF Advance, Places
    <3> QED BY <1>2, <1>3, <2>2, <3>1
  <2> QED BY <2>1, <2>2
<1> QED BY <1>6, <1>7, <1>8, <1>9, <1>10

\* What normalize_l2 returns for a vector with one component is an axis of the
\* index.
LEMMA NormalizedType ==
  ASSUME NEW values \in Seq(Ids), HasDirection(values)
  PROVE  Normalized(values) \in Scores
<1>1. Dimension \in Nat /\ Scores = 0..(Dimension - 1)
  BY ScoresAssumption, FS_CardinalityType DEF Dimension
<1>2. DOMAIN values = 1..Dimension /\ \E e \in DOMAIN values : values[e] # 0
  BY DEF HasDirection
<1> DEFINE e == CHOOSE d \in DOMAIN values : values[d] # 0
<1>3. e \in 1..Dimension
  BY <1>2
<1>4. Normalized(values) = e - 1
  BY DEF Normalized
<1> HIDE DEF e
<1> QED BY <1>1, <1>3, <1>4

\* A record is added, and nothing else changes what was stored.
LEMMA AddedRecord ==
  ASSUME IInv, GivenIsStored, NEW i \in Ids, NEW v \in Scores, Add(i, v),
         NEW r \in [id : Ids, values : Seq(Ids)], r.id = i, Normalized(r.values) = v, given' = Append(given, r)
  PROVE  GivenIsStored'
<1>1. /\ Len(ids') = Len(ids) + 1
      /\ \A n \in 1..Len(ids) : ids'[n] = ids[n] /\ vectors'[n] = vectors[n]
      /\ ids'[Len(ids) + 1] = i /\ vectors'[Len(ids) + 1] = v
  BY AppendedRow
<1>2. Len(ids) \in Nat /\ Len(given) = Len(ids) /\ given \in Seq([id : Ids, values : Seq(Ids)])
  BY DEF IInv, RowsAreParallel, GivenIsStored
<1>3. /\ given' \in Seq([id : Ids, values : Seq(Ids)]) /\ Len(given') = Len(given) + 1
      /\ \A n \in 1..Len(given) : given'[n] = given[n]
      /\ given'[Len(given) + 1] = r
  <2> DEFINE Inputs == [id : Ids, values : Seq(Ids)]
  <2>1. given \in Seq(Inputs) /\ r \in Inputs
    BY <1>2
  <2> HIDE DEF Inputs
  <2>2. /\ given' \in Seq(Inputs) /\ Len(given') = Len(given) + 1
        /\ \A n \in 1..Len(given) : given'[n] = given[n]
        /\ given'[Len(given) + 1] = r
    BY <2>1
  <2> QED BY <2>2 DEF Inputs
<1>4. ASSUME NEW n \in 1..Len(ids') PROVE Stores(n, given[n])'
  <2>1. CASE n \in 1..Len(ids)
    <3>1. Stores(n, given[n]) /\ given'[n] = given[n] /\ ids'[n] = ids[n] /\ vectors'[n] = vectors[n]
      BY <1>1, <1>2, <1>3, <2>1 DEF GivenIsStored
    <3> QED BY <3>1 DEF Stores, Normalized
  <2>2. CASE n = Len(ids) + 1
    <3>1. given'[n] = r /\ ids'[n] = r.id /\ vectors'[n] = Normalized(r.values)
      BY <1>1, <1>2, <1>3, <2>2
    <3> QED BY <3>1 DEF Stores, Normalized
  <2> QED BY <1>1, <1>2, <2>1, <2>2
<1> QED BY <1>1, <1>2, <1>3, <1>4 DEF GivenIsStored

\* What the tool does to the index are operations of the index.
LEMMA BuildSteps ==
  ASSUME BuildIInv, [BuildNext]_buildVars
  PROVE  [Next]_vars
<1>1. CASE Library
  BY <1>1 DEF Library
<1>2. ASSUME Complete(cursor), HasDirection(cursor.values) PROVE cursor.id \in Ids /\ Normalized(cursor.values) \in Scores
  <2>1. cursor.values \in Seq(Ids) /\ (cursor.hasId /\ cursor.at # "id" => cursor.id \in Ids)
    BY DEF BuildIInv, IsCursor
  <2> QED BY <1>2, <2>1, NormalizedType DEF Complete
<1>3. CASE EndLine
  <2>1. CASE Complete(cursor) /\ HasDirection(cursor.values) /\ Add(cursor.id, Normalized(cursor.values))
    BY <1>2, <2>1 DEF Next
  <2>2. CASE Complete(cursor) /\ HasDirection(cursor.values) /\ AddThrows(cursor.id)
    BY <1>2, <2>2 DEF Next
  <2>3. CASE UNCHANGED vars
    BY <2>3
  <2> QED BY <1>3, <2>1, <2>2, <2>3 DEF EndLine
<1>4. CASE (\E t \in Tokens : ReadToken(t)) \/ Save \/ Damage \/ Verify
  BY <1>4 DEF ReadToken, Save, Damage, Verify
<1>5. CASE UNCHANGED buildVars
  BY <1>5 DEF buildVars
<1> QED BY <1>1, <1>3, <1>4, <1>5 DEF BuildNext

\* The tool starts in its invariant.
LEMMA InitBuildIInv == BuildInit => BuildIInv
<1> SUFFICES ASSUME BuildInit PROVE BuildIInv
  OBVIOUS
<1>1. IInv
  BY InitIInv DEF BuildInit
<1>2. IsCursor(cursor)
  BY StartType DEF BuildInit
<1>3. stage \in {"library", "reading"} /\ given = <<>> /\ Len(ids) = 0 /\ 1..Len(ids) = {}
  BY DEF BuildInit, Init
<1>4. GivenIsStored
  BY <1>3 DEF GivenIsStored
<1>5. FileIsWritten
  BY <1>3 DEF FileIsWritten
<1> QED BY <1>1, <1>2, <1>3, <1>4, <1>5 DEF BuildIInv, Stages

\* Steps that leave the index and the input alone.
LEMMA KeptRecords ==
  ASSUME UNCHANGED <<vars, given, expected>>
  PROVE  (GivenIsStored <=> GivenIsStored') /\ Written' = Written /\ (CountMatches <=> CountMatches')
<1>1. ids' = ids /\ vectors' = vectors /\ idToRow' = idToRow /\ given' = given /\ expected' = expected
  BY DEF vars
<1>2. GivenIsStored <=> GivenIsStored'
  BY <1>1 DEF GivenIsStored, Stores, Normalized
<1>3. Written' = Written
  BY <1>1 DEF Written, Vectors, FlatSaved, Axis, Dimension, FlatFormat, FlatPayloadSize
<1> QED BY <1>1, <1>2, <1>3 DEF CountMatches

\* Every step of the tool keeps its invariant.
LEMMA StepBuildIInv ==
  ASSUME BuildIInv, [BuildNext]_buildVars
  PROVE  BuildIInv'
<1>1. IInv'
  BY BuildSteps, StepIInv DEF BuildIInv
<1>2. /\ IInv /\ IsCursor(cursor) /\ stage \in Stages /\ (stage \notin {"library", "failed"} => GivenIsStored)
      /\ FileIsWritten
  BY DEF BuildIInv
<1>3. CASE Library
  <2>1. stage = "library" /\ stage' = "library" /\ cursor' = cursor
    BY <1>3 DEF Library, toolVars
  <2>2. FileIsWritten'
    BY <2>1 DEF FileIsWritten
  <2> QED BY <1>1, <1>2, <2>1, <2>2 DEF BuildIInv, IsCursor
<1>4. ASSUME NEW t \in Tokens, ReadToken(t) PROVE BuildIInv'
  <2>1. /\ cursor' = Advance(cursor, t) /\ stage = "reading" /\ stage' \in {"reading", "failed"}
        /\ UNCHANGED <<vars, given, expected>>
    BY <1>4 DEF ReadToken
  <2>2. IsCursor(Advance(cursor, t))
    BY <1>2, AdvanceType
  <2>3. IsCursor(cursor')
    BY <2>1, <2>2
  <2>4. GivenIsStored'
    BY <1>2, <2>1, KeptRecords
  <2>5. FileIsWritten'
    BY <2>1 DEF FileIsWritten
  <2> QED BY <1>1, <2>1, <2>3, <2>4, <2>5 DEF BuildIInv, Stages, IsCursor
<1>5. CASE EndLine
  <2>1. ASSUME stage' = "failed", cursor' = cursor PROVE BuildIInv'
    <3>1. FileIsWritten'
      BY <2>1 DEF FileIsWritten
    <3> QED BY <1>1, <1>2, <2>1, <3>1 DEF BuildIInv, Stages, IsCursor
  <2>2. ASSUME Complete(cursor), HasDirection(cursor.values), Add(cursor.id, Normalized(cursor.values)),
               given' = Append(given, [id |-> cursor.id, values |-> cursor.values]),
               cursor' = Start, stage' = stage
        PROVE  BuildIInv'
    <3>1. stage = "reading"
      BY <1>5 DEF EndLine
    <3>2. cursor.id \in Ids /\ Normalized(cursor.values) \in Scores
      <4>1. cursor.values \in Seq(Ids) /\ (cursor.hasId /\ cursor.at # "id" => cursor.id \in Ids)
        BY <1>2 DEF IsCursor
      <4> QED BY <2>2, <4>1, NormalizedType DEF Complete
    <3>8. cursor.values \in Seq(Ids)
      BY <1>2 DEF IsCursor
    <3> DEFINE r == [id |-> cursor.id, values |-> cursor.values]
    <3>3. r.id = cursor.id /\ Normalized(r.values) = Normalized(cursor.values) /\ r \in [id : Ids, values : Seq(Ids)]
      BY <3>2, <3>8
    <3>4. GivenIsStored /\ given' = Append(given, r)
      BY <1>2, <2>2, <3>1
    <3> HIDE DEF r
    <3>5. GivenIsStored'
      BY <1>2, <2>2, <3>2, <3>3, <3>4, AddedRecord
    <3>6. FileIsWritten'
      BY <2>2, <3>1 DEF FileIsWritten
    <3>7. IsCursor(cursor')
      BY <2>2, StartType
    <3> QED BY <1>1, <1>2, <2>2, <3>5, <3>6, <3>7 DEF BuildIInv, IsCursor
  <2> QED BY <1>5, <2>1, <2>2 DEF EndLine, Fail
<1>6. CASE Save \/ Damage \/ Verify
  <2>1. /\ UNCHANGED <<vars, given, expected>> /\ cursor' = cursor
        /\ stage \in {"reading", "saved", "damaged"} /\ stage' \in {"saved", "damaged", "verified", "failed"}
    BY <1>6 DEF Save, Damage, Verify
  <2>2. GivenIsStored' /\ Written' = Written /\ (CountMatches <=> CountMatches')
    BY <1>2, <2>1, KeptRecords
  <2>3. FileIsWritten'
    <3>1. CASE Save
      <4>1. CASE CountMatches
        <5>1. stage' = "saved" /\ file' = Written
          BY <3>1, <4>1 DEF Save, Written, Vectors
        <5> QED BY <2>2, <4>1, <5>1 DEF FileIsWritten
      <4>2. CASE ~CountMatches
        <5>1. stage' = "failed"
          BY <3>1, <4>2 DEF Save
        <5> QED BY <5>1 DEF FileIsWritten
      <4> QED BY <4>1, <4>2
    <3>2. CASE Damage
      <4>1. stage = "saved" /\ stage' = "damaged" /\ file' \in Damaged(file) \ {file}
        BY <3>2 DEF Damage
      <4>2. file = Written /\ CountMatches
        BY <1>2, <4>1 DEF FileIsWritten
      <4>3. file' \in Damaged(Written) \ {Written}
        BY <4>1, <4>2
      <4>4. Damaged(Written)' = Damaged(Written)
        BY <2>2 DEF Damaged
      <4> QED BY <2>2, <4>1, <4>2, <4>3, <4>4 DEF FileIsWritten
    <3>3. CASE Verify
      <4>1. file' = file /\ stage \in {"saved", "damaged"} /\ CountMatches
        BY <1>2, <3>3 DEF Verify, FileIsWritten
      <4>2. CASE Verified(file)
        <5>1. stage' = "verified"
          BY <3>3, <4>2 DEF Verify
        <5>2. file = Written
          BY <1>2, <4>1, <4>2, DamageIsFound DEF FileIsWritten
        <5> QED BY <2>2, <4>1, <5>1, <5>2 DEF FileIsWritten
      <4>3. CASE ~Verified(file)
        <5>1. stage' = "failed"
          BY <3>3, <4>3 DEF Verify
        <5> QED BY <5>1 DEF FileIsWritten
      <4> QED BY <4>2, <4>3
    <3> QED BY <1>6, <3>1, <3>2, <3>3
  <2> QED BY <1>1, <1>2, <2>1, <2>2, <2>3 DEF BuildIInv, Stages, IsCursor
<1>7. CASE UNCHANGED buildVars
  <2>1. UNCHANGED <<vars, given, expected>> /\ stage' = stage /\ cursor' = cursor /\ file' = file
    BY <1>7 DEF buildVars, toolVars
  <2>2. (GivenIsStored <=> GivenIsStored') /\ Written' = Written /\ (CountMatches <=> CountMatches')
    BY <2>1, KeptRecords
  <2>3. FileIsWritten'
    BY <1>2, <2>1, <2>2 DEF FileIsWritten, Damaged
  <2> QED BY <1>1, <1>2, <2>1, <2>2, <2>3 DEF BuildIInv, IsCursor
<1> QED BY <1>3, <1>4, <1>5, <1>6, <1>7 DEF BuildNext

\* The tool keeps its invariant.
LEMMA BuildInvariance == BuildSpec => []BuildIInv
BY InitBuildIInv, StepBuildIInv, PTL DEF BuildSpec

\* The tool changes the index by add() only: what is proved of the index holds
\* of the one it builds.
THEOREM BuildUsesIndex == BuildSpec => Spec
<1>1. BuildInit => Init
  BY DEF BuildInit
<1> QED BY <1>1, BuildInvariance, BuildSteps, PTL DEF BuildSpec, Spec

\* build_index publishes nothing but its input: a file that passes the
\* verification is the file that was written, whatever happened to it since, and
\* its rows are the records of the lines, in their order, as many as announced.
THEOREM BuiltStaysInput == BuildSpec => []BuiltIsInput
<1>1. ASSUME BuildIInv PROVE BuiltIsInput
  <2> SUFFICES ASSUME stage = "verified" PROVE BuiltIsInput
    BY DEF BuiltIsInput
  <2>1. IInv /\ GivenIsStored /\ file = Written /\ CountMatches
    BY <1>1 DEF BuildIInv, FileIsWritten
  <2>2. FlatLoaded(file) = [dimension |-> Dimension, ids |-> ids, rows |-> [n \in 1..Len(ids) |-> Axis(vectors[n])]]
    BY <2>1, WrittenIsLoaded DEF Vectors
  <2>3. Len(ids) = Len(given) /\ \A n \in 1..Len(ids) : Stores(n, given[n])
    BY <2>1 DEF GivenIsStored
  <2> QED BY <2>1, <2>2, <2>3 DEF BuiltIsInput, Stores
<1> QED BY <1>1, BuildInvariance, PTL

-----------------------------------------------------------------------------
(* The parser *)

\* The numbers of a list with the commas between them.
ListLength(ns) == IF Len(ns) = 0 THEN 0 ELSE 2 * Len(ns) - 1

\* A line with a list of l tokens has its members in the order o: the tokens
\* before the ID and before the values, and the place of the comma between them.
IdAt(o, l) == IF o = 1 THEN 1 ELSE l + 6
ValuesAt(o) == IF o = 1 THEN 5 ELSE 1
CommaAt(o, l) == IF o = 1 THEN 5 ELSE l + 6
LineLength(l) == l + 10

\* Token j of the line.
ListToken(ns, i) == IF i % 2 = 1 THEN ns[(i + 1) \div 2] ELSE "comma"
IdToken(n, a) == IF a = 1 THEN "id" ELSE IF a = 2 THEN "colon" ELSE n
ValuesToken(ns, l, b) ==
    IF b = 1 THEN "values" ELSE IF b = 2 THEN "colon" ELSE IF b = 3 THEN "openArray"
    ELSE IF b = l + 4 THEN "closeArray" ELSE ListToken(ns, b - 3)
TokenAt(o, n, ns, l, j) ==
    IF j = 1 THEN "openObject" ELSE IF j = LineLength(l) THEN "closeObject" ELSE IF j = CommaAt(o, l) THEN "comma"
    ELSE IF j - IdAt(o, l) \in 1..3 THEN IdToken(n, j - IdAt(o, l)) ELSE ValuesToken(ns, l, j - ValuesAt(o))

\* s is the beginning of that line.
Follows(s, o, n, ns, l) ==
    /\ Len(s) <= LineLength(l)
    /\ \A j \in 1..Len(s) : s[j] = TokenAt(o, n, ns, l, j)

\* Where the parser is after p tokens of the line, a of the ID and b of the values.
HasPlace(c, l, p, a, b) ==
    /\ p = 0 => c.at = "object"
    /\ a = 0 \/ b = 0 => c.at = "key"
    /\ a = 1 => c.at = "colon" /\ c.key = "id"
    /\ a = 2 => c.at = "id"
    /\ b = 1 => c.at = "colon" /\ c.key = "values"
    /\ b = 2 => c.at = "array"
    /\ b = 3 => c.at = "firstValue"
    /\ a = 3 \/ b = l + 4 => c.at = "member"
    /\ p = l + 10 => c.at = "end"

\* What it has of the members.
HasMembers(c, n, a, b) ==
    /\ c.hasId <=> a >= 2
    /\ c.hasValues <=> b >= 2
    /\ a >= 3 => c.id = Number[n]

\* What it has of a list of k numbers and l tokens.
HasValues(c, ns, k, l, b) ==
    /\ \A e \in 1..k : b = 2 * e + 2 => c.at = "afterValue" /\ Len(c.values) = e
    /\ \A e \in 1..(k - 1) : b = 2 * e + 3 => c.at = "value" /\ Len(c.values) = e
    /\ b <= 3 => Len(c.values) = 0
    /\ b >= l + 4 => Len(c.values) = k
    /\ Len(c.values) <= k /\ \A e \in 1..Len(c.values) : c.values[e] = Number[ns[e]]

\* What it has after p tokens of the line.
HasRead(c, o, n, ns, l, p) ==
    /\ HasPlace(c, l, p, p - IdAt(o, l), p - ValuesAt(o))
    /\ HasMembers(c, n, p - IdAt(o, l), p - ValuesAt(o))
    /\ HasValues(c, ns, Len(ns), l, p - ValuesAt(o))

\* A parser that cannot return a record any more: it failed, or it will, because
\* a member is missing, repeated or unknown.
Hopeless(c) ==
    \/ c.at = "failed"
    \/ c.at = "end" /\ ~(c.hasId /\ c.hasValues)
    \/ c.at \in {"key", "colon"} /\ c.hasId /\ c.hasValues
    \/ c.at = "colon" /\ c.key = "otherKey"
    \/ c.at = "colon" /\ c.key = "id" /\ c.hasId
    \/ c.at = "colon" /\ c.key = "values" /\ c.hasValues

\* Whether the parser d has what c has, but for where it is.
Keeps(c, d) ==
    d.key = c.key /\ d.hasId = c.hasId /\ d.hasValues = c.hasValues /\ d.id = c.id /\ d.values = c.values

\* The steps of the parser, field by field.
LEMMA Advances ==
  ASSUME NEW c, IsCursor(c), NEW t
  PROVE  LET d == Advance(c, t) IN
         /\ c.at = "object" => IF t = "openObject" THEN d.at = "key" /\ Keeps(c, d) ELSE d.at = "failed"
         /\ c.at = "key" =>
               IF t \in Keys
               THEN /\ d.at = "colon" /\ d.key = t /\ d.hasId = c.hasId /\ d.hasValues = c.hasValues
                    /\ d.id = c.id /\ d.values = c.values
               ELSE d.at = "failed"
         /\ c.at = "colon" /\ t = "colon" /\ c.key = "id" /\ ~c.hasId =>
               /\ d.at = "id" /\ d.key = c.key /\ d.hasId /\ d.hasValues = c.hasValues
               /\ d.id = c.id /\ d.values = c.values
         /\ c.at = "colon" /\ t = "colon" /\ c.key = "values" /\ ~c.hasValues =>
               /\ d.at = "array" /\ d.key = c.key /\ d.hasId = c.hasId /\ d.hasValues
               /\ d.id = c.id /\ d.values = c.values
         /\ c.at = "colon" /\ (t # "colon" \/ Hopeless(c)) => d.at = "failed"
         /\ c.at = "id" =>
               IF t \in Numbers
               THEN /\ d.at = "member" /\ d.key = c.key /\ d.hasId = c.hasId /\ d.hasValues = c.hasValues
                    /\ d.id = Number[t] /\ d.values = c.values
               ELSE d.at = "failed"
         /\ c.at = "array" => IF t = "openArray" THEN d.at = "firstValue" /\ Keeps(c, d) ELSE d.at = "failed"
         /\ c.at = "firstValue" /\ t = "closeArray" => d.at = "member" /\ Keeps(c, d)
         /\ c.at = "value" \/ (c.at = "firstValue" /\ t # "closeArray") =>
               IF t \in Numbers
               THEN /\ d.at = "afterValue" /\ d.key = c.key /\ d.hasId = c.hasId /\ d.hasValues = c.hasValues
                    /\ d.id = c.id /\ d.values = Append(c.values, Number[t])
               ELSE d.at = "failed"
         /\ c.at = "afterValue" =>
               IF t \in {"closeArray", "comma"} THEN d.at = (IF t = "closeArray" THEN "member" ELSE "value") /\ Keeps(c, d)
                                   ELSE d.at = "failed"
         /\ c.at = "member" =>
               IF t \in {"closeObject", "comma"} THEN d.at = (IF t = "closeObject" THEN "end" ELSE "key") /\ Keeps(c, d)
                                   ELSE d.at = "failed"
         /\ c.at \in {"end", "failed"} => d.at = "failed"
<1> DEFINE d == Advance(c, t)
<1>1. c = [at |-> c.at, key |-> c.key, hasId |-> c.hasId, hasValues |-> c.hasValues, id |-> c.id, values |-> c.values]
      /\ c.hasId \in BOOLEAN /\ c.hasValues \in BOOLEAN
  BY DEF IsCursor
<1>2. ASSUME NEW at PROVE [c EXCEPT !.at = at].at = at /\ Keeps(c, [c EXCEPT !.at = at])
  BY <1>1 DEF Keeps
<1>3. Failed.at = "failed"
  BY StartType
<1>4. c.at = "object" => IF t = "openObject" THEN d.at = "key" /\ Keeps(c, d) ELSE d.at = "failed"
  BY <1>2, <1>3 DEF Advance
<1>5. ASSUME c.at = "key" PROVE
        IF t \in Keys
        THEN /\ d.at = "colon" /\ d.key = t /\ d.hasId = c.hasId /\ d.hasValues = c.hasValues
             /\ d.id = c.id /\ d.values = c.values
        ELSE d.at = "failed"
  <2>1. CASE t \in Keys
    <3>1. d = [at |-> "colon", key |-> t, hasId |-> c.hasId, hasValues |-> c.hasValues, id |-> c.id, values |-> c.values]
      BY <1>1, <1>5, <2>1 DEF Advance
    <3> QED BY <2>1, <3>1
  <2>2. CASE t \notin Keys
    BY <1>3, <1>5, <2>2 DEF Advance
  <2> QED BY <2>1, <2>2
<1>6. ASSUME c.at = "colon", t = "colon", c.key = "id", ~c.hasId
      PROVE  /\ d.at = "id" /\ d.key = c.key /\ d.hasId /\ d.hasValues = c.hasValues
             /\ d.id = c.id /\ d.values = c.values
  <2>1. d = [at |-> "id", key |-> c.key, hasId |-> TRUE, hasValues |-> c.hasValues, id |-> c.id, values |-> c.values]
    BY <1>1, <1>6 DEF Advance, Member
  <2> QED BY <2>1
<1>7. ASSUME c.at = "colon", t = "colon", c.key = "values", ~c.hasValues
      PROVE  /\ d.at = "array" /\ d.key = c.key /\ d.hasId = c.hasId /\ d.hasValues
             /\ d.id = c.id /\ d.values = c.values
  <2>1. d = [at |-> "array", key |-> c.key, hasId |-> c.hasId, hasValues |-> TRUE, id |-> c.id, values |-> c.values]
    BY <1>1, <1>7 DEF Advance, Member
  <2> QED BY <2>1
<1>8. ASSUME c.at = "colon", t # "colon" \/ Hopeless(c) PROVE d.at = "failed"
  <2>1. CASE t # "colon"
    BY <1>3, <1>8, <2>1 DEF Advance
  <2>2. CASE t = "colon" /\ Hopeless(c)
    <3>1. d = Member(c)
      BY <1>8, <2>2 DEF Advance
    <3>2. ~(c.key = "id" /\ ~c.hasId) /\ ~(c.key = "values" /\ ~c.hasValues)
      BY <1>1, <1>8, <2>2 DEF Hopeless
    <3> QED BY <1>3, <3>1, <3>2 DEF Member
  <2> QED BY <1>8, <2>1, <2>2
<1>9. ASSUME c.at = "id" PROVE
        IF t \in Numbers
        THEN /\ d.at = "member" /\ d.key = c.key /\ d.hasId = c.hasId /\ d.hasValues = c.hasValues
             /\ d.id = Number[t] /\ d.values = c.values
        ELSE d.at = "failed"
  <2>1. CASE t \in Numbers
    <3>1. d = [at |-> "member", key |-> c.key, hasId |-> c.hasId, hasValues |-> c.hasValues, id |-> Number[t],
               values |-> c.values]
      BY <1>1, <1>9, <2>1 DEF Advance
    <3> QED BY <2>1, <3>1
  <2>2. CASE t \notin Numbers
    BY <1>3, <1>9, <2>2 DEF Advance
  <2> QED BY <2>1, <2>2
<1>10. c.at = "array" => IF t = "openArray" THEN d.at = "firstValue" /\ Keeps(c, d) ELSE d.at = "failed"
  BY <1>2, <1>3 DEF Advance
<1>11. c.at = "firstValue" /\ t = "closeArray" => d.at = "member" /\ Keeps(c, d)
  BY <1>2 DEF Advance
<1>12. ASSUME c.at = "value" \/ (c.at = "firstValue" /\ t # "closeArray") PROVE
         IF t \in Numbers
         THEN /\ d.at = "afterValue" /\ d.key = c.key /\ d.hasId = c.hasId /\ d.hasValues = c.hasValues
              /\ d.id = c.id /\ d.values = Append(c.values, Number[t])
         ELSE d.at = "failed"
  <2>0. d = Value(c, t)
    BY <1>12 DEF Advance
  <2>1. CASE t \in Numbers
    <3> DEFINE v == Append(c.values, Number[t])
    <3>1. Value(c, t) = [c EXCEPT !.at = "afterValue", !.values = v]
      BY <1>1, <2>1 DEF Value
    <3> HIDE DEF v
    <3>2. d = [at |-> "afterValue", key |-> c.key, hasId |-> c.hasId, hasValues |-> c.hasValues, id |-> c.id,
               values |-> v]
      BY <1>1, <2>0, <3>1
    <3>3. d.values = v /\ d.at = "afterValue" /\ d.key = c.key /\ d.hasId = c.hasId /\ d.hasValues = c.hasValues
          /\ d.id = c.id
      BY <3>2
    <3> QED BY <2>1, <3>3 DEF v
  <2>2. CASE t \notin Numbers
    BY <1>3, <2>0, <2>2 DEF Value
  <2> QED BY <2>1, <2>2
<1>13. c.at = "afterValue" =>
         IF t \in {"closeArray", "comma"} THEN d.at = (IF t = "closeArray" THEN "member" ELSE "value") /\ Keeps(c, d)
                             ELSE d.at = "failed"
  BY <1>2, <1>3 DEF Advance
<1>14. c.at = "member" =>
         IF t \in {"closeObject", "comma"} THEN d.at = (IF t = "closeObject" THEN "end" ELSE "key") /\ Keeps(c, d)
                             ELSE d.at = "failed"
  BY <1>2, <1>3 DEF Advance
<1>15. c.at \in {"end", "failed"} => d.at = "failed"
  BY <1>3 DEF Advance
<1> HIDE DEF d
<1>16. /\ c.at = "object" => IF t = "openObject" THEN d.at = "key" /\ Keeps(c, d) ELSE d.at = "failed"
       /\ c.at = "array" => IF t = "openArray" THEN d.at = "firstValue" /\ Keeps(c, d) ELSE d.at = "failed"
  BY <1>4, <1>10
<1> QED BY <1>5, <1>6, <1>7, <1>8, <1>9, <1>11, <1>12, <1>13, <1>14, <1>15, <1>16 DEF d

\* Where token p + 1 of a line is: after a tokens of the ID and b of the values,
\* for a list of k numbers and l tokens.
Laid(o, k, l, p, a, b) ==
    /\ (o = 1 /\ a = p - 1 /\ b = p - 5) \/ (o = 2 /\ a = p - (l + 6) /\ b = p - 1)
    /\ (k = 0 /\ l = 0) \/ (k > 0 /\ l = 2 * k - 1)
    /\ p <= l + 9

\* What token p + 1 of a line is, by its place.
NextToken(t, n, ns, l, p, a, b) ==
    /\ p = 0 => t = "openObject"
    /\ p = l + 9 => t = "closeObject"
    /\ p # l + 9 /\ (a = 3 \/ b = l + 4) => t = "comma"
    /\ a = 0 => t = "id"
    /\ a = 1 => t = "colon"
    /\ a = 2 => t = n
    /\ b = 0 => t = "values"
    /\ b = 1 => t = "colon"
    /\ b = 2 => t = "openArray"
    /\ b = l + 3 => t = "closeArray"
    /\ b \in 3..(l + 2) => t = ListToken(ns, b - 2)

\* The tokens of the line outside the list, and where the list is.
LEMMA FixedTokens ==
  ASSUME NEW o, NEW n, NEW ns, NEW k \in Nat, NEW l \in Nat, NEW p \in Nat, NEW a \in Int, NEW b \in Int,
         Laid(o, k, l, p, a, b)
  PROVE  NextToken(TokenAt(o, n, ns, l, p + 1), n, ns, l, p, a, b)
<1> DEFINE t == TokenAt(o, n, ns, l, p + 1)
<1>1. p <= l + 9
  BY DEF Laid
<1>2. CASE o = 1
  <2>1. a = p - 1 /\ b = p - 5
    BY <1>2 DEF Laid
  <2>2. t = IF p + 1 = 1 THEN "openObject" ELSE IF p + 1 = l + 10 THEN "closeObject" ELSE IF p + 1 = 5 THEN "comma"
            ELSE IF p + 1 - 1 \in 1..3 THEN IdToken(n, p + 1 - 1) ELSE ValuesToken(ns, l, p + 1 - 5)
    BY <1>2 DEF TokenAt, LineLength, CommaAt, IdAt, ValuesAt
  <2>3. p + 1 - 1 = a + 1 /\ p + 1 - 5 = b + 1
    BY <2>1
  <2>4. t = IF p + 1 = 1 THEN "openObject" ELSE IF p + 1 = l + 10 THEN "closeObject" ELSE IF p + 1 = 5 THEN "comma"
            ELSE IF a + 1 \in 1..3 THEN IdToken(n, a + 1) ELSE ValuesToken(ns, l, b + 1)
    BY <2>2, <2>3
  <2> HIDE DEF t
  <2>5. (p = 0 => t = "openObject") /\ (p = l + 9 => t = "closeObject") /\ (p # l + 9 /\ (a = 3 \/ b = l + 4) => t = "comma")
    BY <1>1, <2>1, <2>4
  <2>6. (a = 0 => t = "id") /\ (a = 1 => t = "colon") /\ (a = 2 => t = n)
    BY <2>1, <2>4 DEF IdToken
  <2>7. b \in 0..(l + 3) => t = ValuesToken(ns, l, b + 1)
    BY <2>1, <2>4
  <2>8. (b = 0 => t = "values") /\ (b = 1 => t = "colon") /\ (b = 2 => t = "openArray") /\ (b = l + 3 => t = "closeArray")
    BY <2>7 DEF ValuesToken
  <2>9. b \in 3..(l + 2) => t = ListToken(ns, b - 2)
    <3>1. b + 1 - 3 = b - 2
      OBVIOUS
    <3> QED BY <2>7, <3>1 DEF ValuesToken
  <2> QED BY <2>5, <2>6, <2>8, <2>9 DEF t, NextToken
<1>3. CASE o = 2
  <2>1. a = p - (l + 6) /\ b = p - 1
    BY <1>3 DEF Laid
  <2>2. t = IF p + 1 = 1 THEN "openObject" ELSE IF p + 1 = l + 10 THEN "closeObject" ELSE IF p + 1 = l + 6 THEN "comma"
            ELSE IF p + 1 - (l + 6) \in 1..3 THEN IdToken(n, p + 1 - (l + 6)) ELSE ValuesToken(ns, l, p + 1 - 1)
    BY <1>3 DEF TokenAt, LineLength, CommaAt, IdAt, ValuesAt
  <2>3. p + 1 - (l + 6) = a + 1 /\ p + 1 - 1 = b + 1
    BY <2>1
  <2>4. t = IF p + 1 = 1 THEN "openObject" ELSE IF p + 1 = l + 10 THEN "closeObject" ELSE IF p + 1 = l + 6 THEN "comma"
            ELSE IF a + 1 \in 1..3 THEN IdToken(n, a + 1) ELSE ValuesToken(ns, l, b + 1)
    BY <2>2, <2>3
  <2> HIDE DEF t
  <2>5. (p = 0 => t = "openObject") /\ (p = l + 9 => t = "closeObject") /\ (p # l + 9 /\ (a = 3 \/ b = l + 4) => t = "comma")
    BY <1>1, <2>1, <2>4
  <2>6. (a = 0 => t = "id") /\ (a = 1 => t = "colon") /\ (a = 2 => t = n)
    BY <2>1, <2>4 DEF IdToken
  <2>7. b \in 0..(l + 3) => t = ValuesToken(ns, l, b + 1)
    BY <2>1, <2>4
  <2>8. (b = 0 => t = "values") /\ (b = 1 => t = "colon") /\ (b = 2 => t = "openArray") /\ (b = l + 3 => t = "closeArray")
    BY <2>7 DEF ValuesToken
  <2>9. b \in 3..(l + 2) => t = ListToken(ns, b - 2)
    <3>1. b + 1 - 3 = b - 2
      OBVIOUS
    <3> QED BY <2>7, <3>1 DEF ValuesToken
  <2> QED BY <2>5, <2>6, <2>8, <2>9 DEF t, NextToken
<1> QED BY <1>2, <1>3 DEF Laid

\* The numbers of the list and the commas between them.
LEMMA ListTokens ==
  ASSUME NEW ns, NEW e \in Nat
  PROVE  ListToken(ns, 2 * e + 1) = ns[e + 1] /\ ListToken(ns, 2 * e) = "comma"
<1>1. (2 * e + 1) % 2 = 1 /\ (2 * e + 1 + 1) \div 2 = e + 1
  OBVIOUS
<1>2. (2 * e) % 2 = 0
  OBVIOUS
<1> QED BY <1>1, <1>2 DEF ListToken

\* The parser reads the next token of the line.
LEMMA ReadsOn ==
  ASSUME NEW c, IsCursor(c), NEW n \in Numbers, NEW ns \in Seq(Numbers), NEW o, NEW k \in Nat, k = Len(ns),
         NEW l \in Nat, NEW p \in Nat, NEW a \in Int, NEW b \in Int, Laid(o, k, l, p, a, b),
         HasPlace(c, l, p, a, b), HasMembers(c, n, a, b), HasValues(c, ns, k, l, b),
         NEW t, t = TokenAt(o, n, ns, l, p + 1), NEW d, d = Advance(c, t)
  PROVE  HasPlace(d, l, p + 1, a + 1, b + 1) /\ HasMembers(d, n, a + 1, b + 1) /\ HasValues(d, ns, k, l, b + 1)
<1>1. /\ c.hasId \in BOOLEAN /\ c.hasValues \in BOOLEAN /\ c.values \in Seq(Ids)
      /\ Len(c.values) \in Nat
  BY DEF IsCursor
<1>2. (o = 1 /\ a = p - 1 /\ b = p - 5) \/ (o = 2 /\ a = p - (l + 6) /\ b = p - 1)
  BY DEF Laid
<1>3. (k = 0 /\ l = 0) \/ (k > 0 /\ l = 2 * k - 1)
  BY DEF Laid
<1>4. p <= l + 9
  BY DEF Laid
<1>5. /\ p = 0 => t = "openObject"
      /\ p = l + 9 => t = "closeObject"
      /\ p # l + 9 /\ (a = 3 \/ b = l + 4) => t = "comma"
      /\ a = 0 => t = "id"
      /\ a = 1 => t = "colon"
      /\ a = 2 => t = n
      /\ b = 0 => t = "values"
      /\ b = 1 => t = "colon"
      /\ b = 2 => t = "openArray"
      /\ b = l + 3 => t = "closeArray"
      /\ b \in 3..(l + 2) => t = ListToken(ns, b - 2)
  <2>1. NextToken(t, n, ns, l, p, a, b)
    BY FixedTokens
  <2> QED BY <2>1 DEF NextToken
<1> DEFINE Outside == (\A e \in 1..k : b + 1 # 2 * e + 2) /\ (\A e \in 1..(k - 1) : b + 1 # 2 * e + 3)
<1>50. b + 1 <= 3 \/ b + 1 >= l + 4 => Outside
  BY <1>3
<1> HIDE DEF Outside
<1>51. ASSUME d.values = c.values, b + 1 <= 3 \/ b >= l + 4 PROVE HasValues(d, ns, k, l, b + 1)
  <2>1. Outside
    BY <1>50, <1>51
  <2>2. (b + 1 <= 3 => b <= 3) /\ (b + 1 >= l + 4 => b >= l + 4)
    BY <1>51
  <2> QED BY <1>51, <2>1, <2>2 DEF HasValues, Outside
<1>52. ASSUME d.hasId = c.hasId, d.hasValues = c.hasValues, d.id = c.id, a # 1, a # 2, b # 1
       PROVE  HasMembers(d, n, a + 1, b + 1)
  <2>1. (a + 1 >= 2 <=> a >= 2) /\ (b + 1 >= 2 <=> b >= 2) /\ (a + 1 >= 3 <=> a >= 3)
    BY <1>52
  <2> QED BY <1>52, <2>1 DEF HasMembers
<1>6. CASE p = 0
  <2>1. d.at = "key" /\ Keeps(c, d)
    BY <1>5, <1>6, Advances DEF HasPlace
  <2>2. (a = -1 /\ b < -1) \/ (b = -1 /\ a < -1)
    BY <1>2, <1>6
  <2>3. HasPlace(d, l, p + 1, a + 1, b + 1)
    BY <1>6, <2>1, <2>2 DEF HasPlace
  <2>4. HasMembers(d, n, a + 1, b + 1)
    BY <1>52, <2>1, <2>2 DEF Keeps
  <2>5. HasValues(d, ns, k, l, b + 1)
    BY <1>51, <2>1, <2>2 DEF Keeps
  <2> QED BY <2>3, <2>4, <2>5
<1>7. CASE a = 0
  <2>1. /\ d.at = "colon" /\ d.key = "id" /\ d.hasId = c.hasId /\ d.hasValues = c.hasValues
        /\ d.id = c.id /\ d.values = c.values
    BY <1>5, <1>7, Advances DEF HasPlace, Keys
  <2>2. p # 0 /\ p + 1 # l + 10 /\ (b < -3 \/ b = l + 5)
    BY <1>2, <1>7
  <2>6. b + 1 \notin {0, 1, 2, 3, l + 4}
    BY <2>2
  <2>3. HasPlace(d, l, p + 1, a + 1, b + 1)
    BY <1>7, <2>1, <2>2, <2>6 DEF HasPlace
  <2>4. HasMembers(d, n, a + 1, b + 1)
    BY <1>7, <2>1, <2>2 DEF HasMembers
  <2>5. HasValues(d, ns, k, l, b + 1)
    BY <1>51, <2>1, <2>2
  <2> QED BY <2>3, <2>4, <2>5
<1>8. CASE a = 1
  <2>1. /\ d.at = "id" /\ d.hasId /\ d.hasValues = c.hasValues /\ d.values = c.values
    BY <1>5, <1>8, Advances DEF HasPlace, HasMembers
  <2>2. p # 0 /\ p + 1 # l + 10 /\ (b < -2 \/ b = l + 6)
    BY <1>2, <1>8
  <2>6. b + 1 \notin {0, 1, 2, 3, l + 4}
    BY <2>2
  <2>3. HasPlace(d, l, p + 1, a + 1, b + 1)
    BY <1>8, <2>1, <2>2, <2>6 DEF HasPlace
  <2>4. HasMembers(d, n, a + 1, b + 1)
    BY <1>8, <2>1, <2>2 DEF HasMembers
  <2>5. HasValues(d, ns, k, l, b + 1)
    BY <1>51, <2>1, <2>2
  <2> QED BY <2>3, <2>4, <2>5
<1>9. CASE a = 2
  <2>1. /\ d.at = "member" /\ d.hasId = c.hasId /\ d.hasValues = c.hasValues
        /\ d.id = Number[n] /\ d.values = c.values
    BY <1>5, <1>9, Advances DEF HasPlace
  <2>2. p # 0 /\ p + 1 # l + 10 /\ (b = -2 \/ b = l + 7)
    BY <1>2, <1>9
  <2>6. b + 1 \notin {0, 1, 2, 3, l + 4}
    BY <2>2
  <2>3. HasPlace(d, l, p + 1, a + 1, b + 1)
    BY <1>9, <2>1, <2>2, <2>6 DEF HasPlace
  <2>4. HasMembers(d, n, a + 1, b + 1)
    BY <1>9, <2>1, <2>2 DEF HasMembers
  <2>5. HasValues(d, ns, k, l, b + 1)
    BY <1>51, <2>1, <2>2
  <2> QED BY <2>3, <2>4, <2>5
<1>10. CASE p = l + 9
  <2>1. (a = 3 /\ b = l + 8) \/ (b = l + 4 /\ a = l + 8)
    BY <1>2, <1>10
  <2>2. d.at = "end" /\ Keeps(c, d)
    BY <1>5, <1>10, <2>1, Advances DEF HasPlace
  <2>3. HasPlace(d, l, p + 1, a + 1, b + 1)
    BY <1>10, <2>1, <2>2 DEF HasPlace
  <2>4. HasMembers(d, n, a + 1, b + 1)
    BY <1>52, <2>1, <2>2 DEF Keeps
  <2>5. HasValues(d, ns, k, l, b + 1)
    BY <1>51, <2>1, <2>2 DEF Keeps
  <2> QED BY <2>3, <2>4, <2>5
<1>11. CASE p # l + 9 /\ (a = 3 \/ b = l + 4)
  <2>1. (a = 3 /\ b = -1) \/ (b = l + 4 /\ a = -1)
    BY <1>2, <1>11
  <2>2. d.at = "key" /\ Keeps(c, d)
    BY <1>5, <1>11, Advances DEF HasPlace
  <2>3. p + 1 # 0 /\ p + 1 # l + 10
    BY <1>11
  <2>4. HasPlace(d, l, p + 1, a + 1, b + 1)
    BY <2>1, <2>2, <2>3 DEF HasPlace
  <2>5. HasMembers(d, n, a + 1, b + 1)
    BY <1>52, <2>1, <2>2 DEF Keeps
  <2>6. HasValues(d, ns, k, l, b + 1)
    BY <1>51, <2>1, <2>2 DEF Keeps
  <2> QED BY <2>4, <2>5, <2>6
<1>12. ASSUME b \in 0..(l + 3)
       PROVE  p # 0 /\ p + 1 # l + 10 /\ (a >= 4 \/ a < -1)
  BY <1>2, <1>12
<1>13. CASE b = 0
  <2>1. /\ d.at = "colon" /\ d.key = "values" /\ d.hasId = c.hasId /\ d.hasValues = c.hasValues
        /\ d.id = c.id /\ d.values = c.values
    BY <1>5, <1>13, Advances DEF HasPlace, Keys
  <2>2. HasPlace(d, l, p + 1, a + 1, b + 1)
    BY <1>12, <1>13, <2>1 DEF HasPlace
  <2>3. HasMembers(d, n, a + 1, b + 1)
    BY <1>12, <1>13, <2>1 DEF HasMembers
  <2>4. HasValues(d, ns, k, l, b + 1)
    BY <1>13, <1>51, <2>1
  <2> QED BY <2>2, <2>3, <2>4
<1>14. CASE b = 1
  <2>1. d.at = "array" /\ d.hasId = c.hasId /\ d.hasValues /\ d.id = c.id /\ d.values = c.values
    BY <1>5, <1>14, Advances DEF HasPlace, HasMembers
  <2>2. HasPlace(d, l, p + 1, a + 1, b + 1)
    BY <1>12, <1>14, <2>1 DEF HasPlace
  <2>3. HasMembers(d, n, a + 1, b + 1)
    BY <1>12, <1>14, <2>1 DEF HasMembers
  <2>4. HasValues(d, ns, k, l, b + 1)
    BY <1>1, <1>3, <1>14, <2>1 DEF HasValues
  <2> QED BY <2>2, <2>3, <2>4
<1>15. CASE b = 2
  <2>1. d.at = "firstValue" /\ Keeps(c, d)
    BY <1>5, <1>15, Advances DEF HasPlace
  <2>2. HasPlace(d, l, p + 1, a + 1, b + 1)
    BY <1>12, <1>15, <2>1 DEF HasPlace
  <2>3. HasMembers(d, n, a + 1, b + 1)
    BY <1>12, <1>15, <2>1 DEF HasMembers, Keeps
  <2>4. HasValues(d, ns, k, l, b + 1)
    BY <1>1, <1>3, <1>15, <2>1 DEF HasValues, Keeps
  <2> QED BY <2>2, <2>3, <2>4
\* The list: after its first e numbers, before a comma, a number or its end.
<1>16. ASSUME NEW e \in Nat, b = 2 * e + 2, e < k, e > 0
       PROVE  HasPlace(d, l, p + 1, a + 1, b + 1) /\ HasMembers(d, n, a + 1, b + 1) /\ HasValues(d, ns, k, l, b + 1)
  <2>1. c.at = "afterValue"
    BY <1>16 DEF HasValues
  <2>2. t = "comma"
    <3>1. b \in 3..(l + 2) /\ b - 2 = 2 * e
      BY <1>3, <1>16
    <3>2. t = ListToken(ns, 2 * e)
      BY <1>5, <3>1
    <3> QED BY <1>16, <3>2, ListTokens
  <2>3. d.at = "value" /\ Keeps(c, d)
    BY <2>1, <2>2, Advances
  <2>4. b \in 4..(l + 1)
    BY <1>3, <1>16
  <2>5. HasPlace(d, l, p + 1, a + 1, b + 1)
    BY <1>12, <2>4 DEF HasPlace
  <2>6. HasMembers(d, n, a + 1, b + 1)
    BY <1>12, <1>52, <2>3, <2>4 DEF Keeps
  <2>7. HasValues(d, ns, k, l, b + 1)
    BY <1>1, <1>3, <1>16, <2>3, <2>4 DEF HasValues, Keeps
  <2> QED BY <2>5, <2>6, <2>7
<1>17. CASE b = l + 3
  <2>1. c.at \in {"afterValue", "firstValue"} /\ Len(c.values) = k
    BY <1>1, <1>3, <1>17 DEF HasValues, HasPlace
  <2>2. d.at = "member" /\ Keeps(c, d)
    BY <1>5, <1>17, <2>1, Advances
  <2>3. HasPlace(d, l, p + 1, a + 1, b + 1)
    BY <1>12, <1>17, <2>2 DEF HasPlace
  <2>4. HasMembers(d, n, a + 1, b + 1)
    BY <1>12, <1>17, <2>2 DEF HasMembers, Keeps
  <2>5. HasValues(d, ns, k, l, b + 1)
    BY <1>1, <1>3, <1>17, <2>1, <2>2 DEF HasValues, Keeps
  <2> QED BY <2>3, <2>4, <2>5
<1>18. ASSUME NEW e \in Nat, e < k, b = 2 * e + 3
       PROVE  HasPlace(d, l, p + 1, a + 1, b + 1) /\ HasMembers(d, n, a + 1, b + 1) /\ HasValues(d, ns, k, l, b + 1)
  <2>1. (c.at = "value" \/ c.at = "firstValue") /\ Len(c.values) = e
    BY <1>1, <1>3, <1>18 DEF HasValues, HasPlace
  <2>2. ns[e + 1] \in Numbers
    BY <1>18
  <2>3. t = ns[e + 1]
    <3>1. b \in 3..(l + 2) /\ b - 2 = 2 * e + 1
      BY <1>3, <1>18
    <3>2. t = ListToken(ns, 2 * e + 1)
      BY <1>5, <3>1
    <3> QED BY <1>18, <3>2, ListTokens
  <2>4. t \in Numbers /\ t # "closeArray"
    BY <2>2, <2>3, TokensAssumption DEF Punctuation
  <2>5. /\ d.at = "afterValue" /\ d.hasId = c.hasId /\ d.hasValues = c.hasValues /\ d.id = c.id
        /\ d.values = Append(c.values, Number[t])
    BY <2>1, <2>4, Advances
  <2>6. b \in 3..(l + 2)
    BY <1>3, <1>18
  <2>7. HasPlace(d, l, p + 1, a + 1, b + 1)
    BY <1>12, <2>6 DEF HasPlace
  <2>8. HasMembers(d, n, a + 1, b + 1)
    BY <1>12, <1>52, <2>5, <2>6
  <2>9. Len(d.values) = e + 1 /\ \A f \in 1..(e + 1) : d.values[f] = Number[ns[f]]
    <3>1. Number[t] \in Ids
      BY <2>4, NumbersAssumption
    <3>2. \A f \in 1..e : c.values[f] = Number[ns[f]]
      BY <2>1 DEF HasValues
    <3> HIDE DEF HasValues
    <3>3. Len(d.values) = e + 1 /\ d.values[e + 1] = Number[t] /\ \A f \in 1..e : d.values[f] = c.values[f]
      <4> DEFINE v == c.values
                 x == Number[t]
      <4>1. v \in Seq(Ids) /\ x \in Ids /\ Len(v) = e /\ d.values = Append(v, x)
        BY <1>1, <2>1, <2>5, <3>1
      <4> HIDE DEF v, x
      <4>2. Len(Append(v, x)) = e + 1 /\ Append(v, x)[e + 1] = x /\ \A f \in 1..e : Append(v, x)[f] = v[f]
        BY <4>1
      <4> QED BY <4>1, <4>2 DEF v, x
    <3>4. \A f \in 1..(e + 1) : f = e + 1 \/ f \in 1..e
      BY <1>18
    <3> QED BY <2>3, <3>2, <3>3, <3>4
  <2>10. HasValues(d, ns, k, l, b + 1)
    BY <1>3, <1>18, <2>5, <2>6, <2>9 DEF HasValues
  <2> QED BY <2>7, <2>8, <2>10
<1>19. ASSUME b \in 3..(l + 2)
       PROVE  \E e \in Nat : (b = 2 * e + 2 /\ e > 0 /\ e < k) \/ (b = 2 * e + 3 /\ e < k)
  <2>1. PICK e \in Nat : b - 2 = 2 * e \/ b - 2 = 2 * e + 1
    <3> DEFINE e == (b - 2) \div 2
    <3>1. b - 2 \in Nat
      BY <1>19
    <3>2. e \in Nat /\ (b - 2 = 2 * e \/ b - 2 = 2 * e + 1)
      BY <3>1
    <3> QED BY <3>2
  <2> QED BY <1>3, <1>19, <2>1
<1>20. CASE b \in 3..(l + 2)
  <2>1. PICK e \in Nat : (b = 2 * e + 2 /\ e > 0 /\ e < k) \/ (b = 2 * e + 3 /\ e < k)
    BY <1>19, <1>20
  <2>2. CASE b = 2 * e + 2 /\ e > 0 /\ e < k
    BY <1>16, <2>2
  <2>3. CASE b = 2 * e + 3 /\ e < k
    BY <1>18, <2>3
  <2> QED BY <2>1, <2>2, <2>3
<1>21. p = 0 \/ a \in 0..2 \/ p = l + 9 \/ a = 3 \/ b = l + 4 \/ b \in 0..2 \/ b = l + 3 \/ b \in 3..(l + 2)
  BY <1>2, <1>4
<1>22. (a \in 0..2 => a = 0 \/ a = 1 \/ a = 2) /\ (b \in 0..2 => b = 0 \/ b = 1 \/ b = 2)
  OBVIOUS
<1> QED BY <1>6, <1>7, <1>8, <1>9, <1>10, <1>11, <1>13, <1>14, <1>15, <1>17, <1>20, <1>21, <1>22

\* Where the parser is within a line.
LEMMA LineLayout ==
  ASSUME NEW o \in {1, 2}, NEW ns \in Seq(Numbers), NEW l, l = ListLength(ns), NEW p \in Nat
  PROVE  /\ Len(ns) \in Nat /\ l \in Nat /\ p - IdAt(o, l) \in Int /\ p - ValuesAt(o) \in Int
         /\ p <= l + 9 => Laid(o, Len(ns), l, p, p - IdAt(o, l), p - ValuesAt(o))
<1>1. Len(ns) \in Nat /\ ((Len(ns) = 0 /\ l = 0) \/ (Len(ns) > 0 /\ l = 2 * Len(ns) - 1))
  BY DEF ListLength
<1>2. l \in Nat
  BY <1>1
<1> QED BY <1>1, <1>2 DEF Laid, IdAt, ValuesAt

\* The places of a line: in its ID, at its list, or e numbers into the list.
Placed(k, l, p, a, b) ==
    \/ p = 0 \/ a \in 0..3 \/ b \in 0..3 \/ b = l + 4
    \/ \E e \in Nat : (e \in 1..k /\ b = 2 * e + 2) \/ (e \in 1..(k - 1) /\ b = 2 * e + 3)

LEMMA LinePlaces ==
  ASSUME NEW o, NEW k \in Nat, NEW l \in Nat, NEW p \in Nat, NEW a \in Int, NEW b \in Int, Laid(o, k, l, p, a, b)
  PROVE  Placed(k, l, p, a, b)
<1>1. /\ (o = 1 /\ a = p - 1 /\ b = p - 5) \/ (o = 2 /\ a = p - (l + 6) /\ b = p - 1)
      /\ (k = 0 /\ l = 0) \/ (k > 0 /\ l = 2 * k - 1)
      /\ p <= l + 9
  BY DEF Laid
<1>2. p = 0 \/ a \in 0..3 \/ b \in 0..3 \/ b = l + 4 \/ b \in 4..(l + 3)
  BY <1>1
<1>3. CASE b \in 4..(l + 3)
  <2>1. b >= 4 /\ b <= l + 3 /\ l = 2 * k - 1 /\ b - 2 \in Nat
    BY <1>1, <1>3
  <2>2. PICK e \in Nat : b - 2 = 2 * e \/ b - 2 = 2 * e + 1
    <3> DEFINE e == (b - 2) \div 2
    <3>1. e \in Nat /\ (b - 2 = 2 * e \/ b - 2 = 2 * e + 1)
      BY <2>1
    <3> QED BY <3>1
  <2>3. (e \in 1..k /\ b = 2 * e + 2) \/ (e \in 1..(k - 1) /\ b = 2 * e + 3)
    BY <2>1, <2>2
  <2> QED BY <2>3 DEF Placed
<1> QED BY <1>2, <1>3 DEF Placed

\* A parser that reads such a line has not failed, and is not at its end before
\* the last token.
LEMMA ReadIsGood ==
  ASSUME NEW c, NEW o \in {1, 2}, NEW n, NEW ns \in Seq(Numbers), NEW l, l = ListLength(ns),
         NEW p \in Nat, p <= LineLength(l), HasRead(c, o, n, ns, l, p)
  PROVE  c.at # "failed" /\ (p # LineLength(l) => c.at # "end")
<1> DEFINE k == Len(ns)
           a == p - IdAt(o, l)
           b == p - ValuesAt(o)
<1>1. k \in Nat /\ l \in Nat /\ a \in Int /\ b \in Int /\ (p <= l + 9 => Laid(o, k, l, p, a, b))
  BY LineLayout
<1>2. HasPlace(c, l, p, a, b) /\ HasValues(c, ns, k, l, b)
  BY DEF HasRead
<1> HIDE DEF k, a, b
<1>3. CASE p = l + 10
  BY <1>2, <1>3 DEF HasPlace, LineLength
<1>4. CASE p # l + 10
  <2>1. p <= l + 9
    BY <1>1, <1>4 DEF LineLength
  <2>3. Placed(k, l, p, a, b)
    <3>1. Laid(o, k, l, p, a, b) /\ k \in Nat /\ l \in Nat /\ a \in Int /\ b \in Int
      BY <1>1, <2>1
    <3> QED BY <3>1, LinePlaces
  <2>4. CASE \E e \in Nat : (e \in 1..k /\ b = 2 * e + 2) \/ (e \in 1..(k - 1) /\ b = 2 * e + 3)
    <3>1. c.at \in {"afterValue", "value"}
      BY <1>2, <2>4 DEF HasValues
    <3> QED BY <3>1
  <2>5. CASE p = 0 \/ a \in 0..3 \/ b \in 0..3 \/ b = l + 4
    <3>1. (a \in 0..3 => a = 0 \/ a = 1 \/ a = 2 \/ a = 3) /\ (b \in 0..3 => b = 0 \/ b = 1 \/ b = 2 \/ b = 3)
      BY <1>1
    <3>2. c.at \in {"object", "key", "colon", "id", "array", "firstValue", "member"}
      BY <1>2, <2>5, <3>1 DEF HasPlace
    <3> QED BY <3>2
  <2> QED BY <2>3, <2>4, <2>5 DEF Placed
<1> QED BY <1>3, <1>4

\* Two lines with lists that begin alike begin alike.
LEMMA SameTokens ==
  ASSUME NEW o \in {1, 2}, NEW n, NEW ns, NEW ms, NEW l \in Nat, NEW m \in Nat, NEW j \in Nat, j >= 1,
         NEW r \in Nat, r <= l, r <= m, j - ValuesAt(o) <= r + 3,
         \A i \in 1..r : ListToken(ns, i) = ListToken(ms, i)
  PROVE  TokenAt(o, n, ns, l, j) = TokenAt(o, n, ms, m, j)
<1> DEFINE b == j - ValuesAt(o)
<1>1. b \in Int /\ b <= r + 3 /\ b <= l + 3 /\ b <= m + 3 /\ b # l + 4 /\ b # m + 4
  BY DEF ValuesAt
<1>2. b - 3 \in 1..r \/ b - 3 <= 0
  BY <1>1
<1>3. ASSUME b >= 1 PROVE ValuesToken(ns, l, b) = ValuesToken(ms, m, b)
  <2>1. CASE b - 3 \in 1..r
    <3>1. b # 1 /\ b # 2 /\ b # 3
      BY <1>1, <2>1
    <3>2. ValuesToken(ns, l, b) = ListToken(ns, b - 3) /\ ValuesToken(ms, m, b) = ListToken(ms, b - 3)
      BY <1>1, <3>1 DEF ValuesToken
    <3> QED BY <2>1, <3>2
  <2>2. CASE b - 3 <= 0
    <3>1. b = 1 \/ b = 2 \/ b = 3
      BY <1>1, <1>3, <2>2
    <3> QED BY <3>1 DEF ValuesToken
  <2> QED BY <1>2, <2>1, <2>2
<1>4. CASE o = 1
  <2>1. b = j - 5 /\ j # l + 10 /\ j # m + 10
    BY <1>1, <1>4 DEF ValuesAt
  <2>2. /\ TokenAt(o, n, ns, l, j) = IF j = 1 THEN "openObject" ELSE IF j = 5 THEN "comma"
              ELSE IF j - 1 \in 1..3 THEN IdToken(n, j - 1) ELSE ValuesToken(ns, l, b)
        /\ TokenAt(o, n, ms, m, j) = IF j = 1 THEN "openObject" ELSE IF j = 5 THEN "comma"
              ELSE IF j - 1 \in 1..3 THEN IdToken(n, j - 1) ELSE ValuesToken(ms, m, b)
    BY <1>4, <2>1 DEF TokenAt, LineLength, CommaAt, IdAt
  <2>3. j = 1 \/ j = 5 \/ j - 1 \in 1..3 \/ b >= 1
    BY <2>1
  <2> HIDE DEF b
  <2> QED BY <1>3, <2>2, <2>3
<1>5. CASE o = 2
  <2>1. b = j - 1 /\ j # l + 10 /\ j # m + 10 /\ j # l + 6 /\ j # m + 6 /\ j - (l + 6) < 1 /\ j - (m + 6) < 1
    BY <1>1, <1>5 DEF ValuesAt
  <2>2. j - (l + 6) \notin 1..3 /\ j - (m + 6) \notin 1..3
    BY <2>1
  <2>3. /\ TokenAt(o, n, ns, l, j) = IF j = 1 THEN "openObject" ELSE ValuesToken(ns, l, b)
        /\ TokenAt(o, n, ms, m, j) = IF j = 1 THEN "openObject" ELSE ValuesToken(ms, m, b)
    BY <1>5, <2>1, <2>2 DEF TokenAt, LineLength, CommaAt, IdAt
  <2>4. j = 1 \/ b >= 1
    BY <2>1
  <2> HIDE DEF b
  <2> QED BY <1>3, <2>3, <2>4
<1> QED BY <1>4, <1>5

\* Lines that differ in the ID begin alike.
LEMMA SameBeforeId ==
  ASSUME NEW o \in {1, 2}, NEW n, NEW m, NEW ns, NEW l \in Nat, NEW j \in Nat, j - IdAt(o, l) <= 2
  PROVE  TokenAt(o, n, ns, l, j) = TokenAt(o, m, ns, l, j)
<1>1. j - IdAt(o, l) \in Int
  BY DEF IdAt
<1>2. j - IdAt(o, l) \in 1..3 => j - IdAt(o, l) = 1 \/ j - IdAt(o, l) = 2
  BY <1>1
<1>3. j - IdAt(o, l) \in 1..3 => IdToken(n, j - IdAt(o, l)) = IdToken(m, j - IdAt(o, l))
  BY <1>2 DEF IdToken
<1> QED BY <1>3 DEF TokenAt

\* A line and its next token.
LEMMA FollowsOn ==
  ASSUME NEW s \in Seq(Tokens), NEW t \in Tokens, NEW o \in {1, 2}, NEW n, NEW ns, NEW l \in Nat
  PROVE  Follows(Append(s, t), o, n, ns, l) <=>
            /\ Follows(s, o, n, ns, l)
            /\ Len(s) + 1 <= LineLength(l) /\ t = TokenAt(o, n, ns, l, Len(s) + 1)
<1> DEFINE u == Append(s, t)
<1>1. Len(s) \in Nat /\ Len(u) = Len(s) + 1 /\ u[Len(s) + 1] = t /\ \A j \in 1..Len(s) : u[j] = s[j]
  OBVIOUS
<1>2. LineLength(l) \in Nat
  BY DEF LineLength
<1> HIDE DEF u
<1>3. 1..Len(u) = (1..Len(s)) \union {Len(s) + 1}
  BY <1>1
<1>4. (\A j \in 1..Len(u) : u[j] = TokenAt(o, n, ns, l, j))
      <=> (\A j \in 1..Len(s) : s[j] = TokenAt(o, n, ns, l, j)) /\ t = TokenAt(o, n, ns, l, Len(s) + 1)
  BY <1>1, <1>3
<1>5. Len(u) <= LineLength(l) <=> Len(s) <= LineLength(l) /\ Len(s) + 1 <= LineLength(l)
  BY <1>1, <1>2
<1>6. Follows(u, o, n, ns, l)
      <=> Len(u) <= LineLength(l) /\ \A j \in 1..Len(u) : u[j] = TokenAt(o, n, ns, l, j)
  BY DEF Follows
<1>7. Follows(s, o, n, ns, l)
      <=> Len(s) <= LineLength(l) /\ \A j \in 1..Len(s) : s[j] = TokenAt(o, n, ns, l, j)
  BY DEF Follows
<1> QED BY <1>4, <1>5, <1>6, <1>7 DEF u

\* A whole line.
IsLine(w, o, n, ns, l) ==
    w \in Seq(Tokens) /\ Len(w) = LineLength(l) /\ \A j \in 1..Len(w) : w[j] = TokenAt(o, n, ns, l, j)

\* The sequence u is s, of length g, and then t, of length h.
HoldsBoth(u, s, g, t, h) ==
    /\ u \in Seq(Tokens) /\ Len(u) = g + h
    /\ \A j \in 1..g : u[j] = s[j]
    /\ \A j \in 1..h : u[g + j] = t[j]

LEMMA JoinedTokens ==
  ASSUME NEW s \in Seq(Tokens), NEW t \in Seq(Tokens), NEW g \in Nat, NEW h \in Nat, Len(s) = g, Len(t) = h
  PROVE  HoldsBoth(s \o t, s, g, t, h)
BY DEF HoldsBoth

\* The members as they are written.
LEMMA WrittenMembers ==
  ASSUME NEW n \in Numbers, NEW ns \in Seq(Numbers), NEW l \in Nat, l = ListLength(ns)
  PROVE  /\ IdMember(n) \in Seq(Tokens) /\ Len(IdMember(n)) = 3
         /\ \A a \in 1..3 : IdMember(n)[a] = IdToken(n, a)
         /\ ValuesMember(ns) \in Seq(Tokens) /\ Len(ValuesMember(ns)) = l + 4
         /\ \A b \in 1..(l + 4) : ValuesMember(ns)[b] = ValuesToken(ns, l, b)
<1> DEFINE I == IdMember(n)
           A == <<"values", "colon", "openArray">>
           L == Listed(ns)
           Z == <<"closeArray">>
<1>1. I \in Seq(Tokens) /\ Len(I) = 3
  BY DEF IdMember, Tokens, Punctuation, Keys
<1>2. I[1] = "id" /\ I[2] = "colon" /\ I[3] = n
  BY DEF IdMember
<1>3. \A a \in 1..3 : I[a] = IdToken(n, a)
  <2>1. \A a \in 1..3 : a = 1 \/ a = 2 \/ a = 3
    OBVIOUS
  <2> HIDE DEF I
  <2> QED BY <1>2, <2>1 DEF IdToken
<1>4. Len(ns) \in Nat /\ ((Len(ns) = 0 /\ l = 0) \/ (Len(ns) > 0 /\ l = 2 * Len(ns) - 1))
  BY DEF ListLength
<1>5. L \in Seq(Tokens) /\ Len(L) = l /\ \A i \in 1..l : L[i] = ListToken(ns, i)
  <2>1. 1..(2 * Len(ns) - 1) = 1..l
    BY <1>4
  <2>2. L = [i \in 1..l |-> ListToken(ns, i)]
    BY <2>1 DEF Listed, ListToken
  <2>3. ASSUME NEW i \in 1..l PROVE ListToken(ns, i) \in Tokens
    <3>1. CASE i % 2 = 1
      <4>1. (i + 1) \div 2 \in 1..Len(ns)
        BY <1>4
      <4>2. ns[(i + 1) \div 2] \in Numbers
        BY <4>1
      <4> QED BY <3>1, <4>2 DEF ListToken, Tokens
    <3>2. CASE i % 2 # 1
      BY <3>2 DEF ListToken, Tokens, Punctuation
    <3> QED BY <3>1, <3>2
  <2> HIDE DEF L
  <2>4. L \in [1..l -> Tokens]
    BY <2>2, <2>3
  <2>5. L \in Seq(Tokens) /\ Len(L) = l
    BY <2>4
  <2> QED BY <2>2, <2>5
<1>6. A \in Seq(Tokens) /\ Len(A) = 3 /\ A[1] = "values" /\ A[2] = "colon" /\ A[3] = "openArray"
  BY DEF Tokens, Punctuation, Keys
<1>7. Z \in Seq(Tokens) /\ Len(Z) = 1 /\ Z[1] = "closeArray"
  BY DEF Tokens, Punctuation
<1>8. ValuesMember(ns) = (A \o L) \o Z
  BY DEF ValuesMember
<1> HIDE DEF I, A, L, Z
<1>9. /\ A \o L \in Seq(Tokens) /\ Len(A \o L) = 3 + l
      /\ \A j \in 1..3 : (A \o L)[j] = A[j]
      /\ \A j \in 1..l : (A \o L)[3 + j] = L[j]
  <2>1. HoldsBoth(A \o L, A, 3, L, l)
    BY <1>5, <1>6, JoinedTokens
  <2> QED BY <2>1 DEF HoldsBoth
<1> DEFINE X == A \o L
           V == X \o Z
<1> HIDE DEF X
<1>10. V \in Seq(Tokens) /\ Len(V) = 3 + l + 1 /\ (\A j \in 1..(3 + l) : V[j] = X[j])
       /\ (\A j \in 1..1 : V[3 + l + j] = Z[j])
  <2>1. X \in Seq(Tokens) /\ Len(X) = 3 + l
    BY <1>9 DEF X
  <2>2. HoldsBoth(V, X, 3 + l, Z, 1)
    <3>1. 3 + l \in Nat /\ 1 \in Nat
      OBVIOUS
    <3> QED BY <1>7, <2>1, <3>1, JoinedTokens
  <2> QED BY <2>2 DEF HoldsBoth
<1> HIDE DEF V
<1>11. ASSUME NEW b \in 1..(l + 4) PROVE V[b] = ValuesToken(ns, l, b)
  <2>1. CASE b \in 1..3
    <3>1. b \in 1..(3 + l) /\ b # l + 4
      BY <2>1
    <3>2. V[b] = A[b]
      BY <1>9, <1>10, <2>1, <3>1 DEF X
    <3>3. b = 1 \/ b = 2 \/ b = 3
      BY <2>1
    <3> QED BY <1>6, <3>2, <3>3 DEF ValuesToken
  <2>2. CASE b \in 4..(l + 3)
    <3>1. b \in 1..(3 + l) /\ b - 3 \in 1..l /\ 3 + (b - 3) = b /\ b # 1 /\ b # 2 /\ b # 3 /\ b # l + 4
      BY <2>2
    <3>2. V[b] = L[b - 3]
      BY <1>9, <1>10, <3>1 DEF X
    <3> QED BY <1>5, <3>1, <3>2 DEF ValuesToken
  <2>3. CASE b = l + 4
    <3>1. 3 + l + 1 = b /\ 1 \in 1..1 /\ b # 1 /\ b # 2 /\ b # 3
      BY <2>3
    <3>2. V[b] = "closeArray"
      BY <1>7, <1>10, <3>1
    <3> QED BY <2>3, <3>1, <3>2 DEF ValuesToken
  <2> QED BY <2>1, <2>2, <2>3
<1>12. V = ValuesMember(ns) /\ Len(V) = l + 4 /\ V \in Seq(Tokens)
  BY <1>8, <1>10 DEF V, X
<1> QED BY <1>1, <1>3, <1>11, <1>12 DEF I

\* The line u is an object with the members P, of length g, and Q, of length h.
HasParts(u, P, g, Q, h) ==
    /\ u \in Seq(Tokens) /\ Len(u) = g + h + 3
    /\ u[1] = "openObject" /\ u[g + 2] = "comma" /\ u[g + h + 3] = "closeObject"
    /\ \A j \in 1..g : u[j + 1] = P[j]
    /\ \A j \in 1..h : u[j + (g + 2)] = Q[j]

\* The two writings of a record are the two lines.
LEMMA WritingsAreLines ==
  ASSUME NEW n \in Numbers, NEW ns \in Seq(Numbers), NEW l \in Nat, l = ListLength(ns)
  PROVE  \E v, w : Writings(n, ns) = {v, w} /\ IsLine(v, 1, n, ns, l) /\ IsLine(w, 2, n, ns, l)
<1> DEFINE A == <<"openObject">>
           C == <<"comma">>
           Z == <<"closeObject">>
           I == IdMember(n)
           V == ValuesMember(ns)
           v == (((A \o I) \o C) \o V) \o Z
           w == (((A \o V) \o C) \o I) \o Z
<1>1. Writings(n, ns) = {v, w}
  BY DEF Writings
<1>2. /\ A \in Seq(Tokens) /\ Len(A) = 1 /\ A[1] = "openObject"
      /\ C \in Seq(Tokens) /\ Len(C) = 1 /\ C[1] = "comma"
      /\ Z \in Seq(Tokens) /\ Len(Z) = 1 /\ Z[1] = "closeObject"
  BY DEF Tokens, Punctuation
<1>3. /\ I \in Seq(Tokens) /\ Len(I) = 3 /\ \A a \in 1..3 : I[a] = IdToken(n, a)
      /\ V \in Seq(Tokens) /\ Len(V) = l + 4 /\ \A b \in 1..(l + 4) : V[b] = ValuesToken(ns, l, b)
  BY WrittenMembers
<1> HIDE DEF A, C, Z, I, V
<1>4. ASSUME NEW P \in Seq(Tokens), NEW Q \in Seq(Tokens), NEW g \in Nat, NEW h \in Nat, Len(P) = g, Len(Q) = h,
             NEW u, u = (((A \o P) \o C) \o Q) \o Z
      PROVE  HasParts(u, P, g, Q, h)
  <2> DEFINE X == A \o P
             Y == X \o C
             W == Y \o Q
  <2>1. /\ X \in Seq(Tokens) /\ Len(X) = 1 + g /\ X[1] = "openObject"
        /\ \A j \in 1..g : X[1 + j] = P[j]
    <3>1. HoldsBoth(X, A, 1, P, g)
      BY <1>2, <1>4, JoinedTokens
    <3>2. 1 \in 1..1
      OBVIOUS
    <3> QED BY <1>2, <3>1, <3>2 DEF HoldsBoth
  <2> HIDE DEF X
  <2>2. /\ Y \in Seq(Tokens) /\ Len(Y) = 2 + g /\ Y[2 + g] = "comma"
        /\ \A j \in 1..(1 + g) : Y[j] = X[j]
    <3>1. /\ Y \in Seq(Tokens) /\ Len(Y) = 1 + g + 1 /\ (\A j \in 1..(1 + g) : Y[j] = X[j])
          /\ \A j \in 1..1 : Y[1 + g + j] = C[j]
      <4>1. HoldsBoth(Y, X, 1 + g, C, 1)
        <5>1. 1 + g \in Nat /\ 1 \in Nat
          OBVIOUS
        <5> QED BY <1>2, <2>1, <5>1, JoinedTokens
      <4> QED BY <4>1 DEF HoldsBoth
    <3>2. 1 \in 1..1 /\ 1 + g + 1 = 2 + g
      OBVIOUS
    <3> HIDE DEF Y
    <3> QED BY <1>2, <3>1, <3>2
  <2> HIDE DEF Y
  <2>3. /\ W \in Seq(Tokens) /\ Len(W) = 2 + g + h /\ (\A j \in 1..(2 + g) : W[j] = Y[j])
        /\ \A j \in 1..h : W[2 + g + j] = Q[j]
    <3>1. HoldsBoth(W, Y, 2 + g, Q, h)
      BY <1>4, <2>2, JoinedTokens
    <3> QED BY <3>1 DEF HoldsBoth
  <2> HIDE DEF W
  <2>4. u = W \o Z
    BY <1>4 DEF X, Y, W
  <2>5. /\ u \in Seq(Tokens) /\ Len(u) = 2 + g + h + 1 /\ (\A j \in 1..(2 + g + h) : u[j] = W[j])
        /\ u[2 + g + h + 1] = "closeObject"
    <3>1. /\ W \o Z \in Seq(Tokens) /\ Len(W \o Z) = 2 + g + h + 1
          /\ (\A j \in 1..(2 + g + h) : (W \o Z)[j] = W[j]) /\ \A j \in 1..1 : (W \o Z)[2 + g + h + j] = Z[j]
      <4>1. HoldsBoth(W \o Z, W, 2 + g + h, Z, 1)
        <5>1. 2 + g + h \in Nat /\ 1 \in Nat
          OBVIOUS
        <5> QED BY <1>2, <2>3, <5>1, JoinedTokens
      <4> QED BY <4>1 DEF HoldsBoth
    <3>2. 1 \in 1..1
      OBVIOUS
    <3> QED BY <1>2, <2>4, <3>1, <3>2
  <2>6. u[1] = "openObject"
    <3>1. 1 \in 1..(2 + g + h) /\ 1 \in 1..(2 + g) /\ 1 \in 1..(1 + g)
      OBVIOUS
    <3> QED BY <2>1, <2>2, <2>3, <2>5, <3>1
  <2>7. u[g + 2] = "comma"
    <3>1. g + 2 \in 1..(2 + g + h) /\ g + 2 \in 1..(2 + g) /\ g + 2 = 2 + g
      OBVIOUS
    <3> QED BY <2>2, <2>3, <2>5, <3>1
  <2>8. ASSUME NEW j \in 1..g PROVE u[j + 1] = P[j]
    <3>1. j + 1 \in 1..(2 + g + h) /\ j + 1 \in 1..(2 + g) /\ j + 1 \in 1..(1 + g) /\ j + 1 = 1 + j
      OBVIOUS
    <3> QED BY <2>1, <2>2, <2>3, <2>5, <3>1
  <2>9. ASSUME NEW j \in 1..h PROVE u[j + (g + 2)] = Q[j]
    <3>1. j + (g + 2) \in 1..(2 + g + h) /\ j + (g + 2) = 2 + g + j
      OBVIOUS
    <3> QED BY <2>3, <2>5, <3>1
  <2>10. g + h + 3 = 2 + g + h + 1
    OBVIOUS
  <2> QED BY <2>5, <2>6, <2>7, <2>8, <2>9, <2>10 DEF HasParts
<1>5. IsLine(v, 1, n, ns, l)
  <2>1. /\ v \in Seq(Tokens) /\ Len(v) = 3 + (l + 4) + 3 /\ v[1] = "openObject" /\ v[3 + 2] = "comma"
        /\ v[3 + (l + 4) + 3] = "closeObject"
        /\ (\A j \in 1..3 : v[j + 1] = I[j]) /\ \A j \in 1..(l + 4) : v[j + (3 + 2)] = V[j]
    <3>1. 3 \in Nat /\ l + 4 \in Nat
      OBVIOUS
    <3>2. HasParts(v, I, 3, V, l + 4)
      BY <1>3, <1>4, <3>1
    <3> QED BY <3>2 DEF HasParts
  <2> HIDE DEF v
  <2>2. ASSUME NEW j \in 1..(l + 10) PROVE v[j] = TokenAt(1, n, ns, l, j)
    <3>1. TokenAt(1, n, ns, l, j) = IF j = 1 THEN "openObject" ELSE IF j = l + 10 THEN "closeObject"
            ELSE IF j = 5 THEN "comma" ELSE IF j - 1 \in 1..3 THEN IdToken(n, j - 1) ELSE ValuesToken(ns, l, j - 5)
      BY DEF TokenAt, LineLength, CommaAt, IdAt, ValuesAt
    <3>2. CASE j \in {1, 5, l + 10}
      <4>1. 3 + (l + 4) + 3 = l + 10 /\ 3 + 2 = 5
        OBVIOUS
      <4> QED BY <2>1, <3>1, <3>2, <4>1
    <3>3. CASE j - 1 \in 1..3
      <4>1. j # 1 /\ j # 5 /\ j # l + 10 /\ (j - 1) + 1 = j
        BY <3>3
      <4>2. v[j] = IdToken(n, j - 1)
        BY <1>3, <2>1, <3>3, <4>1
      <4> QED BY <3>1, <3>3, <4>1, <4>2
    <3>4. CASE j - 5 \in 1..(l + 4)
      <4>1. j # 1 /\ j # 5 /\ j # l + 10 /\ j - 1 \notin 1..3 /\ (j - 5) + (3 + 2) = j
        BY <3>4
      <4>2. v[j] = ValuesToken(ns, l, j - 5)
        BY <1>3, <2>1, <3>4, <4>1
      <4> QED BY <3>1, <4>1, <4>2
    <3>5. j \in {1, 5, l + 10} \/ j - 1 \in 1..3 \/ j - 5 \in 1..(l + 4)
      OBVIOUS
    <3> QED BY <3>2, <3>3, <3>4, <3>5
  <2>3. 3 + (l + 4) + 3 = l + 10 /\ LineLength(l) = l + 10
    BY DEF LineLength
  <2> QED BY <2>1, <2>2, <2>3 DEF IsLine
<1>6. IsLine(w, 2, n, ns, l)
  <2>1. /\ w \in Seq(Tokens) /\ Len(w) = (l + 4) + 3 + 3 /\ w[1] = "openObject" /\ w[l + 4 + 2] = "comma"
        /\ w[(l + 4) + 3 + 3] = "closeObject"
        /\ (\A j \in 1..(l + 4) : w[j + 1] = V[j]) /\ \A j \in 1..3 : w[j + (l + 4 + 2)] = I[j]
    <3>1. l + 4 \in Nat /\ 3 \in Nat
      OBVIOUS
    <3>2. HasParts(w, V, l + 4, I, 3)
      BY <1>3, <1>4, <3>1
    <3> QED BY <3>2 DEF HasParts
  <2> HIDE DEF w
  <2>2. ASSUME NEW j \in 1..(l + 10) PROVE w[j] = TokenAt(2, n, ns, l, j)
    <3>1. TokenAt(2, n, ns, l, j) = IF j = 1 THEN "openObject" ELSE IF j = l + 10 THEN "closeObject"
            ELSE IF j = l + 6 THEN "comma"
            ELSE IF j - (l + 6) \in 1..3 THEN IdToken(n, j - (l + 6)) ELSE ValuesToken(ns, l, j - 1)
      BY DEF TokenAt, LineLength, CommaAt, IdAt, ValuesAt
    <3>2. CASE j \in {1, l + 6, l + 10}
      <4>1. (l + 4) + 3 + 3 = l + 10 /\ l + 4 + 2 = l + 6 /\ l + 6 # 1 /\ l + 10 # 1 /\ l + 6 # l + 10
        OBVIOUS
      <4> QED BY <2>1, <3>1, <3>2, <4>1
    <3>3. CASE j - (l + 6) \in 1..3
      <4>1. j # 1 /\ j # l + 6 /\ j # l + 10 /\ (j - (l + 6)) + (l + 4 + 2) = j
        BY <3>3
      <4>2. w[j] = IdToken(n, j - (l + 6))
        BY <1>3, <2>1, <3>3, <4>1
      <4> QED BY <3>1, <3>3, <4>1, <4>2
    <3>4. CASE j - 1 \in 1..(l + 4)
      <4>1. j # 1 /\ j # l + 6 /\ j # l + 10 /\ j - (l + 6) \notin 1..3 /\ (j - 1) + 1 = j
        BY <3>4
      <4>2. w[j] = ValuesToken(ns, l, j - 1)
        BY <1>3, <2>1, <3>4, <4>1
      <4> QED BY <3>1, <4>1, <4>2
    <3>5. j \in {1, l + 6, l + 10} \/ j - (l + 6) \in 1..3 \/ j - 1 \in 1..(l + 4)
      OBVIOUS
    <3> QED BY <3>2, <3>3, <3>4, <3>5
  <2>3. (l + 4) + 3 + 3 = l + 10 /\ LineLength(l) = l + 10
    BY DEF LineLength
  <2> QED BY <2>1, <2>2, <2>3 DEF IsLine
<1> QED BY <1>1, <1>5, <1>6

\* The tokens s begin a line with a list of at most M numbers.
Followed(s, M) ==
    \E o \in {1, 2}, n \in Numbers, ns \in Seq(Numbers) : Len(ns) <= M /\ Follows(s, o, n, ns, ListLength(ns))

\* No token helps a parser that has no hope.
LEMMA HopelessStays ==
  ASSUME NEW c, IsCursor(c), NEW t, Hopeless(c)
  PROVE  Hopeless(Advance(c, t))
<1> DEFINE d == Advance(c, t)
<1>1. /\ c.at = "key" =>
           IF t \in Keys THEN d.at = "colon" /\ d.hasId = c.hasId /\ d.hasValues = c.hasValues ELSE d.at = "failed"
      /\ c.at = "colon" => d.at = "failed"
      /\ c.at \in {"end", "failed"} => d.at = "failed"
  BY Advances
<1> HIDE DEF d
<1>2. c.at \in {"failed", "end", "colon"} \/ (c.at = "key" /\ c.hasId /\ c.hasValues)
  BY DEF Hopeless
<1>3. Hopeless(d)
  BY <1>1, <1>2 DEF Hopeless
<1> QED BY <1>3 DEF d

\* Lists that begin alike are written alike.
SameNumbers(ns, ms, e) == \A f \in 1..e : ns[f] = ms[f]
SameList(ns, ms, r) == \A i \in 1..r : ListToken(ns, i) = ListToken(ms, i)

LEMMA SameListTokens ==
  ASSUME NEW ns, NEW ms, NEW e \in Nat, SameNumbers(ns, ms, e)
  PROVE  SameList(ns, ms, 2 * e)
<1> SUFFICES ASSUME NEW i \in 1..(2 * e) PROVE ListToken(ns, i) = ListToken(ms, i)
  BY DEF SameList
<1>1. CASE i % 2 = 1
  <2>1. (i + 1) \div 2 \in 1..e
    BY <1>1
  <2> QED BY <1>1, <2>1 DEF ListToken, SameNumbers
<1>2. CASE i % 2 # 1
  BY <1>2 DEF ListToken
<1> QED BY <1>1, <1>2

\* The token that follows r tokens of the list ms.
FollowsList(t, ms, m, r) == (r = m /\ t = "closeArray") \/ (r < m /\ t = ListToken(ms, r + 1))

\* A line that has been read up to token r of its list is the beginning of every
\* line whose list begins with these tokens.
LEMMA OtherList ==
  ASSUME NEW s \in Seq(Tokens), NEW o \in {1, 2}, NEW n \in Numbers, NEW ns, NEW l \in Nat,
         Follows(s, o, n, ns, l), NEW M \in Nat,
         NEW ms \in Seq(Numbers), Len(ms) <= M, NEW m \in Nat, m = ListLength(ms),
         NEW r \in Nat, r <= l, r <= m, Len(s) - ValuesAt(o) = r + 3,
         SameList(ns, ms, r), NEW t \in Tokens, FollowsList(t, ms, m, r)
  PROVE  Followed(Append(s, t), M)
<1> DEFINE p == Len(s)
           a == p - IdAt(o, m)
           b == p - ValuesAt(o)
<1>1. p \in Nat /\ p <= r + 8
  BY DEF ValuesAt
<1>2. \A j \in 1..p : s[j] = TokenAt(o, n, ns, l, j)
  BY DEF Follows
<1>3. ASSUME NEW j \in 1..p PROVE TokenAt(o, n, ns, l, j) = TokenAt(o, n, ms, m, j)
  <2>1. j \in Nat /\ j >= 1 /\ j - ValuesAt(o) <= r + 3
    BY <1>1 DEF ValuesAt
  <2>2. \A i \in 1..r : ListToken(ns, i) = ListToken(ms, i)
    BY DEF SameList
  <2> QED BY <2>1, <2>2, SameTokens
<1>4. Follows(s, o, n, ms, m)
  <2>1. p <= LineLength(m)
    BY <1>1 DEF LineLength
  <2> QED BY <1>2, <1>3, <2>1 DEF Follows
<1>5. t = TokenAt(o, n, ms, m, p + 1)
  <2>1. Len(ms) \in Nat /\ a \in Int /\ b \in Int /\ Laid(o, Len(ms), m, p, a, b)
    <3>1. p <= m + 9
      BY <1>1
    <3> QED BY <1>1, <3>1, LineLayout
  <2>2. b = r + 3
    OBVIOUS
  <2> HIDE DEF a, b, p
  <2>3. /\ b = m + 3 => TokenAt(o, n, ms, m, p + 1) = "closeArray"
        /\ b \in 3..(m + 2) => TokenAt(o, n, ms, m, p + 1) = ListToken(ms, b - 2)
    <3>1. NextToken(TokenAt(o, n, ms, m, p + 1), n, ms, m, p, a, b)
      BY <1>1, <2>1, FixedTokens
    <3> QED BY <3>1 DEF NextToken
  <2>4. CASE r = m /\ t = "closeArray"
    BY <2>2, <2>3, <2>4
  <2>5. CASE r < m /\ t = ListToken(ms, r + 1)
    <3>1. b \in 3..(m + 2) /\ b - 2 = r + 1
      BY <2>2, <2>5
    <3> QED BY <2>3, <2>5, <3>1
  <2> QED BY <2>4, <2>5 DEF FollowsList
<1>6. p + 1 <= LineLength(m)
  BY <1>1 DEF LineLength
<1>7. Follows(Append(s, t), o, n, ms, m)
  BY <1>4, <1>5, <1>6, FollowsOn
<1> QED BY <1>7 DEF Followed

\* A parser that has read the beginning of a line and is given any other token
\* reads the beginning of another line, or has no hope.
LEMMA ReadsOther ==
  ASSUME NEW s \in Seq(Tokens), NEW c, IsCursor(c), NEW o \in {1, 2}, NEW n \in Numbers, NEW ns \in Seq(Numbers),
         NEW M \in Nat \ {0}, Len(ns) <= M, NEW l \in Nat, l = ListLength(ns), Follows(s, o, n, ns, l),
         NEW p \in Nat, p = Len(s), HasRead(c, o, n, ns, l, p),
         NEW t \in Tokens, c.at = "afterValue" => t # "comma" \/ Len(c.values) < M, NEW d, d = Advance(c, t)
  PROVE  Hopeless(d) \/ Followed(Append(s, t), M)
<1> DEFINE k == Len(ns)
           a == p - IdAt(o, l)
           b == p - ValuesAt(o)
<1>1. k \in Nat /\ a \in Int /\ b \in Int /\ (p <= l + 9 => Laid(o, k, l, p, a, b))
  BY LineLayout
<1>2. HasPlace(c, l, p, a, b) /\ HasMembers(c, n, a, b) /\ HasValues(c, ns, k, l, b)
  BY DEF HasRead
<1>3. c.hasId \in BOOLEAN /\ c.hasValues \in BOOLEAN
  BY DEF IsCursor
<1>4. d.at = "failed" => Hopeless(d)
  BY DEF Hopeless
<1>5. (o = 1 /\ a = p - 1 /\ b = p - 5) \/ (o = 2 /\ a = p - (l + 6) /\ b = p - 1)
  BY DEF IdAt, ValuesAt
<1>6. (k = 0 /\ l = 0) \/ (k > 0 /\ l = 2 * k - 1)
  BY <1>1 DEF ListLength
<1>7. ASSUME p <= l + 9, t = TokenAt(o, n, ns, l, p + 1) PROVE Followed(Append(s, t), M)
  <2>1. p + 1 <= LineLength(l)
    BY <1>7 DEF LineLength
  <2>2. Follows(Append(s, t), o, n, ns, l)
    BY <1>7, <2>1, FollowsOn
  <2> QED BY <2>2 DEF Followed
<1>8. p <= l + 10
  BY DEF Follows, LineLength
<1>9. ASSUME p <= l + 9
      PROVE  /\ p = 0 => TokenAt(o, n, ns, l, p + 1) = "openObject"
             /\ p = l + 9 => TokenAt(o, n, ns, l, p + 1) = "closeObject"
             /\ p # l + 9 /\ (a = 3 \/ b = l + 4) => TokenAt(o, n, ns, l, p + 1) = "comma"
             /\ a = 0 => TokenAt(o, n, ns, l, p + 1) = "id"
             /\ a = 1 => TokenAt(o, n, ns, l, p + 1) = "colon"
             /\ b = 0 => TokenAt(o, n, ns, l, p + 1) = "values"
             /\ b = 1 => TokenAt(o, n, ns, l, p + 1) = "colon"
             /\ b = 2 => TokenAt(o, n, ns, l, p + 1) = "openArray"
             /\ b \in 3..(l + 2) => TokenAt(o, n, ns, l, p + 1) = ListToken(ns, b - 2)
  <2>1. NextToken(TokenAt(o, n, ns, l, p + 1), n, ns, l, p, a, b)
    <3>1. Laid(o, k, l, p, a, b)
      BY <1>1, <1>9
    <3> HIDE DEF k, a, b
    <3> QED BY <1>1, <3>1, FixedTokens
  <2> HIDE DEF k, a, b
  <2> QED BY <2>1 DEF NextToken
<1> HIDE DEF k, a, b
<1>10. CASE p = l + 10
  BY <1>2, <1>4, <1>10, Advances DEF HasPlace
<1>11. CASE p = 0
  <2>1. p <= l + 9
    BY <1>11
  <2>2. IF t = "openObject" THEN TRUE ELSE d.at = "failed"
    BY <1>2, <1>11, Advances DEF HasPlace
  <2> QED BY <1>4, <1>7, <1>9, <1>11, <2>1, <2>2
<1>12. CASE a = 0 \/ b = 0
  <2>1. p <= l + 9 /\ (p = 1 \/ (a = 0 /\ b = l + 5) \/ (b = 0 /\ a = 4))
    BY <1>1, <1>5, <1>12
  <2>2. /\ c.at = "key"
        /\ IF t \in Keys
           THEN d.at = "colon" /\ d.key = t /\ d.hasId = c.hasId /\ d.hasValues = c.hasValues
           ELSE d.at = "failed"
    BY <1>2, <1>12, Advances DEF HasPlace
  <2>3. CASE t \notin {"id", "values"}
    <3>1. d.at = "failed" \/ (d.at = "colon" /\ d.key = "otherKey")
      BY <2>2, <2>3 DEF Keys
    <3> QED BY <3>1 DEF Hopeless
  <2>4. CASE p = 1 /\ t \in {"id", "values"}
    <3>1. ASSUME NEW q \in {1, 2} PROVE Follows(s, q, n, ns, l)
      <4>1. \A j \in 1..Len(s) : j = 1 /\ s[j] = TokenAt(o, n, ns, l, j)
        BY <2>4 DEF Follows
      <4>2. \A r \in {1, 2} : TokenAt(r, n, ns, l, 1) = "openObject"
        BY DEF TokenAt
      <4>3. Len(s) <= LineLength(l)
        BY DEF Follows
      <4> QED BY <4>1, <4>2, <4>3 DEF Follows
    <3>2. TokenAt(1, n, ns, l, p + 1) = "id"
      <4>1. Laid(1, k, l, p, 0, -4)
        BY <1>1, <1>6, <2>1, <2>4 DEF Laid
      <4> QED BY <1>1, <4>1, FixedTokens DEF NextToken
    <3>3. TokenAt(2, n, ns, l, p + 1) = "values"
      <4>1. Laid(2, k, l, p, -(l + 5), 0)
        BY <1>1, <1>6, <2>1, <2>4 DEF Laid
      <4> QED BY <1>1, <4>1, FixedTokens DEF NextToken
    <3>4. PICK q \in {1, 2} : t = TokenAt(q, n, ns, l, p + 1)
      BY <2>4, <3>2, <3>3
    <3>5. Len(s) + 1 <= LineLength(l)
      BY <2>1 DEF LineLength
    <3>6. Follows(Append(s, t), q, n, ns, l)
      BY <3>1, <3>4, <3>5, FollowsOn
    <3> QED BY <3>6 DEF Followed
  <2>5. CASE p # 1 /\ t \in {"id", "values"}
    <3>1. d.at = "colon" /\ d.key = t /\ d.hasId = c.hasId /\ d.hasValues = c.hasValues
      BY <2>2, <2>5 DEF Keys
    <3>2. CASE a = 0 /\ b = l + 5
      <4>1. c.hasValues
        BY <1>2, <3>2 DEF HasMembers
      <4> QED BY <1>7, <1>9, <2>1, <2>5, <3>1, <3>2, <4>1 DEF Hopeless
    <3>3. CASE b = 0 /\ a = 4
      <4>1. c.hasId
        BY <1>2, <3>3 DEF HasMembers
      <4> QED BY <1>7, <1>9, <2>1, <2>5, <3>1, <3>3, <4>1 DEF Hopeless
    <3> QED BY <2>1, <2>5, <3>2, <3>3
  <2> QED BY <2>3, <2>4, <2>5
<1>13. CASE a = 1 \/ b = 1
  <2>1. p <= l + 9
    BY <1>1, <1>5, <1>13
  <2>2. c.at = "colon" /\ (t # "colon" => d.at = "failed")
    BY <1>2, <1>13, Advances DEF HasPlace
  <2> QED BY <1>4, <1>7, <1>9, <1>13, <2>1, <2>2
<1>14. CASE b = 2
  <2>1. p <= l + 9
    <3>1. p = 7 \/ p = 3
      BY <1>5, <1>14
    <3>2. 7 <= l + 9 /\ 3 <= l + 9
      OBVIOUS
    <3>3. (p = 7 => p <= l + 9) /\ (p = 3 => p <= l + 9)
      BY <3>2
    <3> QED BY <3>1, <3>3
  <2>2. t # "openArray" => d.at = "failed"
    BY <1>2, <1>14, Advances DEF HasPlace
  <2> QED BY <1>4, <1>7, <1>9, <1>14, <2>1, <2>2
<1>15. CASE a = 2
  <2>1. p <= l + 9
    BY <1>1, <1>5, <1>15
  <2>2. t \notin Numbers => d.at = "failed"
    BY <1>2, <1>15, Advances DEF HasPlace
  <2>3. ASSUME t \in Numbers PROVE Followed(Append(s, t), M)
    <3>1. ASSUME NEW j \in 1..p PROVE TokenAt(o, n, ns, l, j) = TokenAt(o, t, ns, l, j)
      <4>1. j - IdAt(o, l) <= 2 /\ j \in Nat
        BY <1>15 DEF a, IdAt
      <4> QED BY <4>1, SameBeforeId
    <3>2. Follows(s, o, t, ns, l)
      BY <3>1 DEF Follows
    <3>3. TokenAt(o, t, ns, l, p + 1) = t
      <4>1. NextToken(TokenAt(o, t, ns, l, p + 1), t, ns, l, p, a, b)
        BY <1>1, <2>1, FixedTokens
      <4> QED BY <1>15, <4>1 DEF NextToken
    <3>4. Len(s) + 1 <= LineLength(l)
      BY <2>1 DEF LineLength
    <3>5. Follows(Append(s, t), o, t, ns, l)
      BY <3>2, <3>3, <3>4, FollowsOn
    <3> QED BY <2>3, <3>5 DEF Followed
  <2> QED BY <1>4, <2>2, <2>3
<1>16. CASE p <= l + 9 /\ (a = 3 \/ b = l + 4)
  <2>1. IF t \in {"closeObject", "comma"} THEN d.at = (IF t = "closeObject" THEN "end" ELSE "key") /\ Keeps(c, d)
                                          ELSE d.at = "failed"
    BY <1>2, <1>16, Advances DEF HasPlace
  <2>2. CASE p = l + 9
    <3>1. c.hasId /\ c.hasValues
      <4>1. a >= 2 /\ b >= 2
        BY <1>1, <1>5, <1>16, <2>2
      <4> QED BY <1>2, <4>1 DEF HasMembers
    <3>2. t = "comma" => Hopeless(d)
      BY <2>1, <3>1 DEF Hopeless, Keeps
    <3>3. t = "closeObject" => Followed(Append(s, t), M)
      BY <1>7, <1>9, <1>16, <2>2
    <3> QED BY <1>4, <2>1, <3>2, <3>3
  <2>3. CASE p # l + 9
    <3>1. ~(c.hasId /\ c.hasValues)
      <4>1. ~(a >= 2 /\ b >= 2)
        BY <1>1, <1>5, <1>16, <2>3
      <4> QED BY <1>2, <4>1 DEF HasMembers
    <3>2. t = "closeObject" => Hopeless(d)
      BY <2>1, <3>1 DEF Hopeless, Keeps
    <3>3. t = "comma" => Followed(Append(s, t), M)
      BY <1>7, <1>9, <1>16, <2>3
    <3> QED BY <1>4, <2>1, <3>2, <3>3
  <2> QED BY <2>2, <2>3
\* The list after its first e numbers.
<1>17. ASSUME NEW e \in Nat, e <= k
       PROVE  /\ SubSeq(ns, 1, e) \in Seq(Numbers) /\ Len(SubSeq(ns, 1, e)) = e
              /\ \A f \in 1..e : ns[f] = SubSeq(ns, 1, e)[f]
  BY <1>1, <1>17 DEF k
<1>18. ASSUME NEW ms \in Seq(Numbers), NEW x \in Numbers
       PROVE  /\ Append(ms, x) \in Seq(Numbers) /\ Len(Append(ms, x)) = Len(ms) + 1
              /\ Append(ms, x)[Len(ms) + 1] = x /\ \A f \in 1..Len(ms) : Append(ms, x)[f] = ms[f]
  OBVIOUS
<1>19. ASSUME NEW e \in Nat, e <= k, NEW r \in Nat, r = 2 * e \/ r = 2 * e - 1, r <= l, b = r + 3,
              NEW ms \in Seq(Numbers), Len(ms) <= M, SameNumbers(ns, ms, e),
              NEW m \in Nat, m = ListLength(ms), r <= m, FollowsList(t, ms, m, r)
       PROVE  Followed(Append(s, t), M)
  <2>1. SameList(ns, ms, 2 * e)
    BY <1>19, SameListTokens
  <2>2. SameList(ns, ms, r)
    BY <1>19, <2>1 DEF SameList
  <2>3. Len(s) - ValuesAt(o) = r + 3
    BY <1>19 DEF b
  <2> QED BY <1>19, <2>2, <2>3, OtherList
<1>20. ASSUME NEW e \in Nat, e < k \/ (e = 0 /\ k = 0), b = 2 * e + 3, c.at \in {"value", "firstValue"}, t \in Numbers
       PROVE  Followed(Append(s, t), M)
  <2> DEFINE u == SubSeq(ns, 1, e)
             ms == Append(u, t)
  <2>1. u \in Seq(Numbers) /\ Len(u) = e /\ \A f \in 1..e : ns[f] = u[f]
    BY <1>1, <1>17, <1>20
  <2> HIDE DEF u
  <2>2. ms \in Seq(Numbers) /\ Len(ms) = e + 1 /\ ms[e + 1] = t /\ \A f \in 1..e : ns[f] = ms[f]
    BY <1>18, <1>20, <2>1
  <2> HIDE DEF ms
  <2>3. ListLength(ms) = 2 * e + 1 /\ 2 * e + 1 \in Nat /\ 2 * e \in Nat
    BY <2>2 DEF ListLength
  <2>4. ListToken(ms, 2 * e + 1) = t
    BY <1>20, <2>2, ListTokens
  <2>5. Len(ms) <= M /\ 2 * e <= l /\ e <= k
    BY <1>1, <1>6, <1>20, <2>2 DEF k
  <2>6. 2 * e <= 2 * e + 1 /\ SameNumbers(ns, ms, e) /\ FollowsList(t, ms, 2 * e + 1, 2 * e)
    BY <2>2, <2>4 DEF SameNumbers, FollowsList
  <2> QED BY <1>19, <1>20, <2>2, <2>3, <2>5, <2>6
<1>21. CASE b = 3
  <2>1. c.at = "firstValue"
    BY <1>2, <1>21 DEF HasPlace
  <2>2. t # "closeArray" /\ t \notin Numbers => d.at = "failed"
    BY <2>1, Advances
  <2>3. CASE t \in Numbers
    <3>1. b = 2 * 0 + 3 /\ (0 < k \/ k = 0) /\ 0 \in Nat
      BY <1>1, <1>21
    <3> QED BY <1>20, <2>1, <2>3, <3>1
  <2>4. CASE t = "closeArray"
    <3>1. <<>> \in Seq(Numbers) /\ Len(<<>>) = 0 /\ ListLength(<<>>) = 0 /\ b = 0 + 3 /\ 0 <= l /\ 0 <= M /\ 0 <= k
          /\ SameNumbers(ns, <<>>, 0) /\ 0 = 2 * 0 /\ 0 \in Nat /\ 0 <= 0
      BY <1>1, <1>21 DEF ListLength, SameNumbers
    <3>2. FollowsList(t, <<>>, 0, 0)
      BY <2>4 DEF FollowsList
    <3> QED BY <1>19, <3>1, <3>2
  <2> QED BY <1>4, <2>2, <2>3, <2>4
<1>22. ASSUME NEW e \in 1..(k - 1), b = 2 * e + 3 PROVE Hopeless(d) \/ Followed(Append(s, t), M)
  <2>1. c.at = "value"
    BY <1>2, <1>22 DEF HasValues
  <2>2. t \notin Numbers => d.at = "failed"
    BY <2>1, Advances
  <2>3. e \in Nat /\ e < k
    BY <1>1
  <2> QED BY <1>4, <1>20, <1>22, <2>1, <2>2, <2>3
<1>23. ASSUME NEW e \in 1..k, b = 2 * e + 2 PROVE Hopeless(d) \/ Followed(Append(s, t), M)
  <2>1. c.at = "afterValue" /\ Len(c.values) = e
    BY <1>2, <1>23 DEF HasValues
  <2>2. t \notin {"closeArray", "comma"} => d.at = "failed"
    BY <2>1, Advances
  <2>3. e \in Nat /\ e >= 1 /\ e <= k /\ 2 * e - 1 \in Nat /\ 2 * e - 1 <= l /\ b = (2 * e - 1) + 3
    BY <1>1, <1>6, <1>23
  <2>4. CASE t = "closeArray"
    <3> DEFINE ms == SubSeq(ns, 1, e)
    <3>1. ms \in Seq(Numbers) /\ Len(ms) = e /\ \A f \in 1..e : ns[f] = ms[f]
      BY <1>17, <2>3
    <3> HIDE DEF ms
    <3>2. ListLength(ms) = 2 * e - 1
      BY <2>3, <3>1 DEF ListLength
    <3>3. Len(ms) <= M /\ 2 * e - 1 <= 2 * e - 1
      <4>1. k <= M /\ k \in Nat /\ M \in Nat
        BY <1>1 DEF k
      <4>2. e <= k /\ e \in Nat
        BY <2>3
      <4> QED BY <3>1, <4>1, <4>2
    <3>4. SameNumbers(ns, ms, e) /\ FollowsList(t, ms, 2 * e - 1, 2 * e - 1)
      BY <2>4, <3>1 DEF SameNumbers, FollowsList
    <3> QED BY <1>19, <2>3, <3>1, <3>2, <3>3, <3>4
  <2>5. CASE t = "comma" /\ e < k
    <3>1. b \in 3..(l + 2) /\ b - 2 = 2 * e /\ p <= l + 9
      BY <1>1, <1>5, <1>6, <1>23, <2>5
    <3>2. TokenAt(o, n, ns, l, p + 1) = "comma"
      BY <1>9, <2>3, <3>1, ListTokens
    <3> QED BY <1>7, <2>5, <3>1, <3>2
  <2>6. CASE t = "comma" /\ e = k
    <3>1. PICK x \in Numbers : TRUE
      BY TokensAssumption
    <3> DEFINE ms == Append(ns, x)
    <3>2. ms \in Seq(Numbers) /\ Len(ms) = e + 1 /\ \A f \in 1..e : ns[f] = ms[f]
      BY <1>18, <2>6 DEF k
    <3> HIDE DEF ms
    <3>3. ListLength(ms) = 2 * e + 1 /\ 2 * e + 1 \in Nat
      BY <2>3, <3>2 DEF ListLength
    <3>4. ListToken(ms, 2 * e) = "comma" /\ (2 * e - 1) + 1 = 2 * e
      BY <2>3, ListTokens
    <3>5. Len(ms) <= M /\ 2 * e - 1 < 2 * e + 1 /\ 2 * e - 1 <= 2 * e + 1
      BY <1>1, <2>1, <2>3, <2>6, <3>2
    <3>6. SameNumbers(ns, ms, e) /\ FollowsList(t, ms, 2 * e + 1, 2 * e - 1)
      BY <2>6, <3>2, <3>4, <3>5 DEF SameNumbers, FollowsList
    <3> QED BY <1>19, <2>3, <3>2, <3>3, <3>5, <3>6
  <2>7. e < k \/ e = k
    BY <1>1, <2>3
  <2> QED BY <1>4, <2>2, <2>4, <2>5, <2>6, <2>7
<1>24. CASE p # l + 10
  <2>1. p <= l + 9
    BY <1>8, <1>24
  <2>2. Laid(o, k, l, p, a, b)
    BY <1>1, <2>1
  <2>3. Placed(k, l, p, a, b)
    BY <1>1, <2>2, LinePlaces
  <2>4. (a \in 0..3 => a = 0 \/ a = 1 \/ a = 2 \/ a = 3) /\ (b \in 0..3 => b = 0 \/ b = 1 \/ b = 2 \/ b = 3)
    BY <1>1
  <2> QED BY <1>11, <1>12, <1>13, <1>14, <1>15, <1>16, <1>21, <1>22, <1>23, <2>1, <2>3, <2>4 DEF Placed
<1> QED BY <1>10, <1>24

\* What the parser c knows of the tokens s it has read: on the way of every line
\* that they begin it has what that line has told it so far, and it has hope
\* only if they begin one.
Parsed(s, c) ==
    /\ s \in Seq(Tokens)
    /\ \A o \in {1, 2}, n \in Numbers, ns \in Seq(Numbers) :
          Follows(s, o, n, ns, ListLength(ns)) => HasRead(c, o, n, ns, ListLength(ns), Len(s))
    /\ Hopeless(c) \/ Followed(s, Dimension)

LEMMA DimensionType == Dimension \in Nat \ {0}
<1>1. Cardinality(Scores) \in Nat /\ Cardinality(Scores) # 0
  BY ScoresAssumption, FS_CardinalityType, FS_EmptySet
<1> QED BY <1>1 DEF Dimension

\* Before the first token.
LEMMA ParsedStart == Parsed(<<>>, Start)
<1>1. Start.at = "object" /\ ~Start.hasId /\ ~Start.hasValues /\ Start.values = <<>>
  BY DEF Start
<1>2. ASSUME NEW o \in {1, 2}, NEW n \in Numbers, NEW ns \in Seq(Numbers)
      PROVE  HasRead(Start, o, n, ns, ListLength(ns), 0) /\ Follows(<<>>, o, n, ns, ListLength(ns))
  <2> DEFINE l == ListLength(ns)
             k == Len(ns)
             a == 0 - IdAt(o, l)
             b == 0 - ValuesAt(o)
  <2>1. k \in Nat /\ l \in Nat /\ a \in Int /\ b \in Int
    BY LineLayout
  <2>2. a < 0 /\ b < 0
    BY <2>1 DEF IdAt, ValuesAt
  <2>3. 0 # l + 10 /\ b # l + 4 /\ 0 <= LineLength(l) /\ Len(<<>>) = 0 /\ ~(b >= l + 4) /\ 0 <= k
    BY <2>1, <2>2 DEF LineLength
  <2>4. Follows(<<>>, o, n, ns, l)
    BY <2>3 DEF Follows
  <2> HIDE DEF a, b, l, k
  <2>5. HasPlace(Start, l, 0, a, b)
    BY <1>1, <2>1, <2>2, <2>3 DEF HasPlace
  <2>6. HasMembers(Start, n, a, b)
    BY <1>1, <2>1, <2>2 DEF HasMembers
  <2>7. HasValues(Start, ns, k, l, b)
    <3>1. \A e \in 1..k : b # 2 * e + 2
      BY <2>1, <2>2
    <3>2. \A e \in 1..(k - 1) : b # 2 * e + 3
      BY <2>1, <2>2
    <3> QED BY <1>1, <2>3, <3>1, <3>2 DEF HasValues
  <2> QED BY <2>4, <2>5, <2>6, <2>7 DEF HasRead, a, b, l, k
<1>3. Followed(<<>>, Dimension)
  <2>1. PICK n \in Numbers : TRUE
    BY TokensAssumption
  <2>2. <<>> \in Seq(Numbers) /\ Len(<<>>) <= Dimension
    BY DimensionType
  <2>3. Follows(<<>>, 1, n, <<>>, ListLength(<<>>))
    BY <1>2, <2>2
  <2> QED BY <2>2, <2>3 DEF Followed
<1>4. <<>> \in Seq(Tokens) /\ Len(<<>>) = 0
  OBVIOUS
<1> QED BY <1>2, <1>3, <1>4 DEF Parsed

\* After the next one.
LEMMA ParsedOn ==
  ASSUME NEW s, NEW c, IsCursor(c), Parsed(s, c), NEW t \in Tokens,
         c.at = "afterValue" => t # "comma" \/ Len(c.values) < Dimension
  PROVE  Parsed(Append(s, t), Advance(c, t))
<1> DEFINE d == Advance(c, t)
           p == Len(s)
<1>1. s \in Seq(Tokens) /\ p \in Nat /\ Append(s, t) \in Seq(Tokens) /\ Len(Append(s, t)) = p + 1
  BY DEF Parsed
<1>2. ASSUME NEW o \in {1, 2}, NEW n \in Numbers, NEW ns \in Seq(Numbers),
             Follows(Append(s, t), o, n, ns, ListLength(ns))
      PROVE  HasRead(d, o, n, ns, ListLength(ns), p + 1)
  <2> DEFINE l == ListLength(ns)
             k == Len(ns)
             a == p - IdAt(o, l)
             b == p - ValuesAt(o)
  <2>1. k \in Nat /\ l \in Nat /\ a \in Int /\ b \in Int /\ (p <= l + 9 => Laid(o, k, l, p, a, b))
    BY <1>1, LineLayout
  <2>2. Follows(s, o, n, ns, l) /\ p + 1 <= LineLength(l) /\ t = TokenAt(o, n, ns, l, p + 1)
    BY <1>1, <1>2, <2>1, FollowsOn
  <2>3. HasRead(c, o, n, ns, l, p)
    BY <2>2 DEF Parsed
  <2>4. HasPlace(c, l, p, a, b) /\ HasMembers(c, n, a, b) /\ HasValues(c, ns, k, l, b)
    BY <2>3 DEF HasRead
  <2>5. Laid(o, k, l, p, a, b)
    BY <1>1, <2>1, <2>2 DEF LineLength
  <2>6. (p + 1) - IdAt(o, l) = a + 1 /\ (p + 1) - ValuesAt(o) = b + 1
    BY <1>1, <2>1 DEF IdAt, ValuesAt
  <2>7. k = Len(ns)
    OBVIOUS
  <2> HIDE DEF a, b, l, k, d, p
  <2>8. HasPlace(d, l, p + 1, a + 1, b + 1) /\ HasMembers(d, n, a + 1, b + 1) /\ HasValues(d, ns, k, l, b + 1)
    BY <1>1, <2>1, <2>2, <2>4, <2>5, <2>7, ReadsOn DEF d
  <2> QED BY <2>6, <2>8 DEF HasRead, l, k
<1>3. Hopeless(d) \/ Followed(Append(s, t), Dimension)
  <2>1. CASE Hopeless(c)
    BY <2>1, HopelessStays
  <2>2. CASE Followed(s, Dimension)
    <3>1. PICK o \in {1, 2}, n \in Numbers, ns \in Seq(Numbers) :
             Len(ns) <= Dimension /\ Follows(s, o, n, ns, ListLength(ns))
      BY <2>2 DEF Followed
    <3>2. HasRead(c, o, n, ns, ListLength(ns), p)
      BY <3>1 DEF Parsed
    <3>3. ListLength(ns) \in Nat
      BY <1>1, LineLayout
    <3> HIDE DEF d, p
    <3> QED BY <1>1, <3>1, <3>2, <3>3, DimensionType, ReadsOther DEF d, p
  <2> QED BY <2>1, <2>2 DEF Parsed
<1> HIDE DEF d, p
<1> QED BY <1>1, <1>2, <1>3 DEF Parsed, d

\* The tool's parser knows its line.
ParseIInv == Parsed(line, cursor)

LEMMA StepParseIInv ==
  ASSUME BuildIInv, ParseIInv, [BuildNext]_buildVars
  PROVE  ParseIInv'
<1>1. ASSUME NEW t \in Tokens, ReadToken(t) PROVE ParseIInv'
  <2>1. line' = Append(line, t) /\ cursor' = Advance(cursor, t)
    BY <1>1 DEF ReadToken
  <2>2. cursor.at = "afterValue" => t # "comma" \/ Len(cursor.values) < Dimension
    BY <1>1 DEF ReadToken, Fed
  <2>3. Parsed(Append(line, t), Advance(cursor, t))
    BY <2>2, ParsedOn DEF BuildIInv, ParseIInv
  <2> QED BY <2>1, <2>3 DEF ParseIInv
<1>2. ASSUME line' = line, cursor' = cursor PROVE ParseIInv'
  BY <1>2 DEF ParseIInv
<1>3. ASSUME line' = <<>>, cursor' = Start PROVE ParseIInv'
  BY <1>3, ParsedStart DEF ParseIInv
<1>4. CASE EndLine
  BY <1>2, <1>3, <1>4 DEF EndLine
<1>5. CASE Library \/ Save \/ Damage \/ Verify \/ UNCHANGED buildVars
  <2>1. line' = line /\ cursor' = cursor
    BY <1>5 DEF Library, Save, Damage, Verify, buildVars, toolVars
  <2> QED BY <1>2, <2>1
<1> QED BY <1>1, <1>4, <1>5 DEF BuildNext

LEMMA ParseInvariance == BuildSpec => []ParseIInv
<1>1. BuildInit => ParseIInv
  BY ParsedStart DEF BuildInit, ParseIInv
<1> QED BY <1>1, BuildInvariance, StepParseIInv, PTL DEF BuildSpec

\* A list within the dimension is one that the input can have.
LEMMA ListsAreBounded ==
  ASSUME NEW ns
  PROVE  ns \in Lists <=> ns \in Seq(Numbers) /\ Len(ns) <= Dimension
<1>1. ASSUME ns \in Lists PROVE ns \in Seq(Numbers) /\ Len(ns) <= Dimension
  <2>1. PICK m \in 0..Dimension : ns \in [1..m -> Numbers]
    BY <1>1 DEF Lists
  <2>2. m \in Nat /\ m <= Dimension
    BY DimensionType
  <2>3. ns \in Seq(Numbers) /\ Len(ns) = m
    BY <2>1, <2>2
  <2> QED BY <2>2, <2>3
<1>2. ASSUME ns \in Seq(Numbers), Len(ns) <= Dimension PROVE ns \in Lists
  <2>1. Len(ns) \in 0..Dimension /\ ns \in [1..Len(ns) -> Numbers]
    BY <1>2, DimensionType
  <2> QED BY <2>1 DEF Lists
<1> QED BY <1>1, <1>2

\* parse_vector_json_line accepts exactly the lines that describe a record, and
\* returns that record: whatever the tokens, it fails on no line of the format,
\* and a record it returns is the one that the line describes.
THEOREM LineStaysParsed == BuildSpec => []LineIsParsed
<1>1. ASSUME BuildIInv, ParseIInv PROVE LineIsParsed
  <2>1. line \in Seq(Tokens) /\ Len(line) \in Nat
    BY <1>1 DEF ParseIInv, Parsed
  <2>2. ASSUME cursor.at = "failed", NEW n \in Numbers, NEW ns \in Lists, NEW w \in Writings(n, ns), IsPrefix(line, w)
        PROVE  FALSE
    <3> DEFINE l == ListLength(ns)
    <3>1. ns \in Seq(Numbers)
      BY ListsAreBounded
    <3>2. l \in Nat
      BY <3>1 DEF ListLength
    <3>3. PICK o \in {1, 2} : IsLine(w, o, n, ns, l)
      <4>1. PICK x, y : Writings(n, ns) = {x, y} /\ IsLine(x, 1, n, ns, l) /\ IsLine(y, 2, n, ns, l)
        BY <3>1, <3>2, WritingsAreLines
      <4> QED BY <2>2, <4>1
    <3>4. w \in Seq(Tokens) /\ Len(w) = LineLength(l) /\ \A j \in 1..Len(w) : w[j] = TokenAt(o, n, ns, l, j)
      BY <3>3 DEF IsLine
    <3>5. Len(line) <= Len(w) /\ SubSeq(line, 1, Len(line)) = SubSeq(w, 1, Len(line))
      BY <2>2 DEF IsPrefix
    <3> HIDE DEF l
    <3>6. \A j \in 1..Len(line) : line[j] = w[j]
      <4>1. \A j \in 1..Len(line) : SubSeq(line, 1, Len(line))[j] = line[j]
        BY <2>1
      <4>2. \A j \in 1..Len(line) : SubSeq(w, 1, Len(line))[j] = w[j]
        BY <2>1, <3>4, <3>5
      <4> QED BY <3>5, <4>1, <4>2
    <3>7. \A j \in 1..Len(line) : j \in 1..Len(w)
      BY <2>1, <3>4, <3>5
    <3>8. Follows(line, o, n, ns, l)
      BY <3>4, <3>5, <3>6, <3>7 DEF Follows
    <3>9. HasRead(cursor, o, n, ns, l, Len(line))
      BY <1>1, <3>1, <3>8 DEF ParseIInv, Parsed, l
    <3>10. Len(line) <= LineLength(l)
      BY <3>8 DEF Follows
    <3> QED BY <2>1, <2>2, <3>1, <3>9, <3>10, ReadIsGood DEF l
  <2>3. ASSUME Complete(cursor)
        PROVE  \E n \in Numbers, ns \in Lists :
                  /\ line \in Writings(n, ns)
                  /\ cursor.id = Number[n]
                  /\ cursor.values = [e \in DOMAIN ns |-> Number[ns[e]]]
    <3>1. ~Hopeless(cursor) /\ cursor.at = "end"
      BY <2>3 DEF Complete, Hopeless
    <3>2. PICK o \in {1, 2}, n \in Numbers, ns \in Seq(Numbers) :
             Len(ns) <= Dimension /\ Follows(line, o, n, ns, ListLength(ns))
      BY <1>1, <3>1 DEF ParseIInv, Parsed, Followed
    <3> DEFINE l == ListLength(ns)
    <3>3. HasRead(cursor, o, n, ns, l, Len(line))
      BY <1>1, <3>2 DEF ParseIInv, Parsed
    <3>4. l \in Nat
      BY <3>2 DEF ListLength
    <3>5. Len(line) <= LineLength(l) /\ \A j \in 1..Len(line) : line[j] = TokenAt(o, n, ns, l, j)
      BY <3>2 DEF Follows
    <3>6. Len(line) = LineLength(l)
      BY <2>1, <3>1, <3>2, <3>3, <3>5, ReadIsGood
    <3>7. line \in Writings(n, ns)
      <4>1. PICK x, y : Writings(n, ns) = {x, y} /\ IsLine(x, 1, n, ns, l) /\ IsLine(y, 2, n, ns, l)
        BY <3>2, <3>4, WritingsAreLines
      <4>2. PICK z \in {x, y} : IsLine(z, o, n, ns, l)
        BY <4>1
      <4>3. z \in Seq(Tokens) /\ Len(z) = Len(line) /\ \A j \in 1..Len(line) : z[j] = line[j]
        BY <3>5, <3>6, <4>2 DEF IsLine
      <4>4. z = line
        BY <2>1, <4>3
      <4> QED BY <4>1, <4>2, <4>4
    <3>8. ns \in Lists
      BY <3>2, ListsAreBounded
    <3>9. Len(line) - IdAt(o, l) >= 3 /\ Len(line) - ValuesAt(o) >= l + 4
      BY <3>4, <3>6 DEF LineLength, IdAt, ValuesAt
    <3>10. cursor.id = Number[n]
      BY <3>3, <3>9 DEF HasRead, HasMembers
    <3>11. Len(cursor.values) = Len(ns) /\ \A e \in 1..Len(cursor.values) : cursor.values[e] = Number[ns[e]]
      BY <3>3, <3>9 DEF HasRead, HasValues
    <3>12. cursor.values \in Seq(Ids)
      BY <1>1 DEF BuildIInv, IsCursor
    <3>13. cursor.values = [e \in DOMAIN ns |-> Number[ns[e]]]
      <4>1. DOMAIN ns = 1..Len(ns) /\ cursor.values = [e \in 1..Len(cursor.values) |-> cursor.values[e]]
        BY <3>2, <3>12
      <4> QED BY <3>11, <4>1
    <3> QED BY <3>7, <3>8, <3>10, <3>13
  <2> QED BY <2>2, <2>3 DEF LineIsParsed
<1> QED BY <1>1, BuildInvariance, ParseInvariance, PTL

-----------------------------------------------------------------------------
(* The searcher of batches *)

\* The call of task t has pushed it.
Submitted(t) ==
    \/ caller[t[1]] \in {"submitting", "aborted"} /\ t[2] < next[t[1]]
    \/ caller[t[1]] = "notify" /\ t[2] <= next[t[1]]
    \/ caller[t[1]] \in {"collecting", "returned", "failed"}

\* Task t has not run.
Live(t) == InQueue(t) \/ \E w \in Threads : task[w] = t

\* A worker holds a task while it runs one, and a task is in one place only.
OneHolder ==
    /\ \A w \in Threads : worker[w] = "running" <=> task[w] # NoTask
    /\ \A i, j \in 1..Len(queue) : queue[i] = queue[j] => i = j
    /\ \A w \in Threads, i \in 1..Len(queue) : task[w] # queue[i]
    /\ \A v, w \in Threads : task[v] = task[w] /\ task[w] # NoTask => v = w

\* A future is pending until its task has run, and only a pushed task runs.
FuturesAreKept ==
    /\ \A t \in Tasks : Live(t) => Submitted(t) /\ future[t] = "pending"
    /\ \A t \in Tasks : ~Submitted(t) => future[t] = "pending"

\* What a call knows of its futures.
CallersKnow ==
    \A c \in Callers :
        /\ caller[c] = "idle" => next[c] = 1
        /\ caller[c] = "notify" => next[c] <= NumQueries
        /\ caller[c] = "collecting" =>
              \A q \in QueryNumbers : q < next[c] => future[<<c, q>>] # "pending"
        /\ caller[c] = "collecting" /\ c \notin failure =>
              \A q \in QueryNumbers : q < next[c] => future[<<c, q>>] = "value"
        /\ c \in failure => /\ caller[c] \in {"collecting", "failed"}
                            /\ \E q \in QueryNumbers : future[<<c, q>>] = "error"
        /\ caller[c] = "returned" => \A q \in QueryNumbers : future[<<c, q>>] = "value"
        /\ caller[c] = "failed" => c \in failure /\ \A q \in QueryNumbers : future[<<c, q>>] # "pending"

\* The inductive invariant.
BatchIInv == BatchTypeOK /\ OneHolder /\ FuturesAreKept /\ CallersKnow

\* A task is a pair, and not the absence of one.
LEMMA TaskIsAPair ==
  /\ NoTask \notin Tasks
  /\ \A t \in Tasks : t[1] \in Callers /\ t[2] \in QueryNumbers /\ t = <<t[1], t[2]>>
  /\ \A c \in Callers, q \in QueryNumbers : <<c, q>> \in Tasks
BY DEF Tasks, NoTask

\* The invariant has what a caller relies on.
LEMMA FinalReturns == BatchIInv => ReturnsAreFinal
<1> SUFFICES ASSUME BatchIInv PROVE ReturnsAreFinal
  OBVIOUS
<1>1. ASSUME NEW t \in Tasks, Live(t) PROVE t[1] \in Active \/ caller[t[1]] = "aborted"
  <2>1. Submitted(t) /\ future[t] = "pending" /\ t[1] \in Callers /\ t[2] \in QueryNumbers /\ t = <<t[1], t[2]>>
    BY <1>1, TaskIsAPair DEF BatchIInv, FuturesAreKept
  <2>2. caller[t[1]] \notin {"returned", "failed"}
    BY <2>1 DEF BatchIInv, CallersKnow
  <2> QED BY <2>1, <2>2 DEF Submitted, Active
<1>2. FramesOutliveTasks
  BY <1>1 DEF FramesOutliveTasks, Live
<1>3. AnswersAreComplete
  BY DEF BatchIInv, CallersKnow, AnswersAreComplete
<1> QED BY <1>2, <1>3 DEF ReturnsAreFinal

\* The pool starts in the invariant.
LEMMA InitBatchIInv == BatchInit => BatchIInv
<1> SUFFICES ASSUME BatchInit PROVE BatchIInv
  OBVIOUS
<1>1. BatchTypeOK
  <2>1. 1 \in 1..(NumQueries + 1) /\ <<>> \in Seq(Tasks)
    BY SizesAssumption
  <2> QED BY <2>1 DEF BatchInit, BatchTypeOK
<1>2. OneHolder
  BY DEF BatchInit, OneHolder
<1>3. FuturesAreKept
  <2>1. \A t \in Tasks : ~Live(t) /\ future[t] = "pending"
    BY TaskIsAPair DEF BatchInit, Live, InQueue
  <2> QED BY <2>1 DEF FuturesAreKept
<1>4. CallersKnow
  BY DEF BatchInit, CallersKnow
<1> QED BY <1>1, <1>2, <1>3, <1>4 DEF BatchIInv

\* Every step keeps the state well typed.
LEMMA BatchTypeStep ==
  ASSUME BatchIInv, [BatchNext]_batchVars
  PROVE  BatchTypeOK'
<1>0. BatchTypeOK
  BY DEF BatchIInv
<1> USE DEF BatchTypeOK
<1>1. ASSUME NEW c \in Callers, Call(c) \/ Abort(c) \/ Return(c) PROVE BatchTypeOK'
  BY <1>0, <1>1 DEF Call, Abort, Return
<1>2. ASSUME NEW c \in Callers, Submit(c) PROVE BatchTypeOK'
  <2>1. <<c, next[c]>> \in Tasks
    BY <1>0, <1>2 DEF Submit, HasQuery, Tasks, QueryNumbers
  <2> QED BY <1>0, <1>2, <2>1 DEF Submit
<1>3. ASSUME NEW c \in Callers, Notify(c) \/ StartCollecting(c) \/ Collect(c) PROVE BatchTypeOK'
  <2>1. next'[c] \in 1..(NumQueries + 1)
    BY <1>0, <1>3, SizesAssumption DEF Notify, StartCollecting, Collect, BatchIInv, CallersKnow
  <2>2. next' \in [Callers -> 1..(NumQueries + 1)]
    BY <1>0, <1>3, <2>1 DEF Notify, StartCollecting, Collect
  <2> QED BY <1>0, <1>3, <2>2 DEF Notify, Waiting, StartCollecting, Collect, Failures
<1>4. ASSUME NEW w \in Threads, Wait(w) \/ Wake(w) \/ Exit(w) PROVE BatchTypeOK'
  BY <1>0, <1>4 DEF Wait, Wake, Exit
<1>5. ASSUME NEW w \in Threads, Take(w) PROVE BatchTypeOK'
  <2>1. Head(queue) \in Tasks /\ Tail(queue) \in Seq(Tasks)
    BY <1>0, <1>5 DEF Take
  <2> QED BY <1>0, <1>5, <2>1 DEF Take
<1>6. ASSUME NEW w \in Threads, Run(w) PROVE BatchTypeOK'
  BY <1>0, <1>6 DEF Run
<1>7. CASE Destroy \/ NotifyAll \/ Join
  BY <1>0, <1>7 DEF Destroy, NotifyAll, WokenAll, Join
<1>8. CASE UNCHANGED batchVars
  BY <1>0, <1>8 DEF batchVars
<1> QED BY <1>1, <1>2, <1>3, <1>4, <1>5, <1>6, <1>7, <1>8 DEF BatchNext, Caller, Worker

\* Pushing a task.
LEMMA PushedTask ==
  ASSUME BatchIInv, NEW c \in Callers, Submit(c)
  PROVE  LET t == <<c, next[c]>>
         IN  /\ t \in Tasks /\ ~Submitted(t) /\ ~Live(t) /\ future[t] = "pending"
             /\ Len(queue) \in Nat /\ Len(queue') = Len(queue) + 1 /\ queue'[Len(queue) + 1] = t
             /\ \A i \in 1..Len(queue) : queue'[i] = queue[i]
<1>0. BatchTypeOK /\ FuturesAreKept
  BY DEF BatchIInv
<1>1. <<c, next[c]>> \in Tasks /\ next[c] \in Nat
  BY <1>0 DEF Submit, HasQuery, Tasks, QueryNumbers, BatchTypeOK
<1>2. ~Submitted(<<c, next[c]>>)
  BY <1>1 DEF Submit, Submitted
<1>3. /\ Len(queue) \in Nat /\ Len(queue') = Len(queue) + 1 /\ queue'[Len(queue) + 1] = <<c, next[c]>>
      /\ \A i \in 1..Len(queue) : queue'[i] = queue[i]
  BY <1>0, <1>1 DEF Submit, BatchTypeOK
<1> QED BY <1>0, <1>1, <1>2, <1>3 DEF FuturesAreKept

\* Taking a task.
LEMMA TakenTask ==
  ASSUME BatchIInv, NEW w \in Threads, Take(w)
  PROVE  /\ Len(queue) \in Nat \ {0} /\ Len(queue') = Len(queue) - 1
         /\ \A i \in 1..Len(queue') : i + 1 \in 1..Len(queue) /\ queue'[i] = queue[i + 1]
         /\ queue[1] \in Tasks /\ task'[w] = queue[1]
         /\ \A v \in Threads \ {w} : task'[v] = task[v]
<1>1. queue \in Seq(Tasks) /\ queue # <<>> /\ task' = [task EXCEPT ![w] = Head(queue)] /\ queue' = Tail(queue)
  BY DEF BatchIInv, BatchTypeOK, Take
<1>2. /\ Len(queue) \in Nat \ {0} /\ Len(queue') = Len(queue) - 1
      /\ \A i \in 1..Len(queue') : i + 1 \in 1..Len(queue) /\ queue'[i] = queue[i + 1]
      /\ queue[1] \in Tasks /\ Head(queue) = queue[1]
  BY <1>1
<1> QED BY <1>1, <1>2 DEF BatchIInv, BatchTypeOK

\* Every step leaves a task in one place.
LEMMA HolderStep ==
  ASSUME BatchIInv, [BatchNext]_batchVars
  PROVE  OneHolder'
<1>0. BatchTypeOK /\ OneHolder
  BY DEF BatchIInv
<1>1. ASSUME NEW c \in Callers, Call(c) \/ Abort(c) \/ Return(c) \/ StartCollecting(c) \/ Collect(c) PROVE OneHolder'
  BY <1>0, <1>1 DEF Call, Abort, Return, StartCollecting, Collect, OneHolder
<1>2. ASSUME NEW c \in Callers, Submit(c) PROVE OneHolder'
  <2> DEFINE t == <<c, next[c]>>
  <2>1. /\ t \in Tasks /\ Len(queue) \in Nat /\ Len(queue') = Len(queue) + 1 /\ queue'[Len(queue) + 1] = t
        /\ \A i \in 1..Len(queue) : queue'[i] = queue[i]
        /\ \A i \in 1..Len(queue) : queue[i] # t
        /\ \A w \in Threads : task[w] # t
    BY <1>2, PushedTask DEF Live, InQueue
  <2>2. UNCHANGED <<worker, task>>
    BY <1>2 DEF Submit
  <2> HIDE DEF t
  <2>3. \A i \in 1..Len(queue') : i \in 1..Len(queue) \/ i = Len(queue) + 1
    BY <2>1
  <2> QED BY <1>0, <2>1, <2>2, <2>3 DEF OneHolder
<1>3. ASSUME NEW c \in Callers, Notify(c) PROVE OneHolder'
  <2>1. \A w \in Threads : worker'[w] = "running" <=> worker[w] = "running"
    BY <1>0, <1>3 DEF Notify, Waiting, BatchTypeOK
  <2>2. UNCHANGED <<queue, task>>
    BY <1>3 DEF Notify
  <2> QED BY <1>0, <2>1, <2>2 DEF OneHolder
<1>4. ASSUME NEW w \in Threads, Wait(w) \/ Wake(w) \/ Exit(w) PROVE OneHolder'
  <2>1. \A v \in Threads : worker'[v] = "running" <=> worker[v] = "running"
    BY <1>0, <1>4 DEF Wait, Wake, Exit, BatchTypeOK
  <2>2. UNCHANGED <<queue, task>>
    BY <1>4 DEF Wait, Wake, Exit
  <2> QED BY <1>0, <2>1, <2>2 DEF OneHolder
<1>5. ASSUME NEW w \in Threads, Take(w) PROVE OneHolder'
  <2>1. /\ Len(queue) \in Nat \ {0} /\ Len(queue') = Len(queue) - 1
        /\ \A i \in 1..Len(queue') : i + 1 \in 1..Len(queue) /\ queue'[i] = queue[i + 1]
        /\ queue[1] \in Tasks /\ task'[w] = queue[1]
        /\ \A v \in Threads \ {w} : task'[v] = task[v]
    BY <1>5, TakenTask
  <2>2. \A v \in Threads : worker'[v] = IF v = w THEN "running" ELSE worker[v]
    BY <1>0, <1>5 DEF Take, BatchTypeOK
  <2>3. \A v \in Threads : worker'[v] = "running" <=> task'[v] # NoTask
    BY <1>0, <2>1, <2>2, TaskIsAPair DEF OneHolder
  <2>4. \A i, j \in 1..Len(queue') : queue'[i] = queue'[j] => i = j
    BY <1>0, <2>1 DEF OneHolder
  <2>5. \A i \in 1..Len(queue') : queue'[i] # queue[1]
    BY <1>0, <2>1 DEF OneHolder
  <2>6. \A v \in Threads, i \in 1..Len(queue') : task'[v] # queue'[i]
    BY <1>0, <2>1, <2>5 DEF OneHolder
  <2>7. \A u, v \in Threads : task'[u] = task'[v] /\ task'[v] # NoTask => u = v
    BY <1>0, <2>1 DEF OneHolder
  <2> QED BY <2>3, <2>4, <2>6, <2>7 DEF OneHolder
<1>6. ASSUME NEW w \in Threads, Run(w) PROVE OneHolder'
  <2>1. \A i \in 1..Len(queue) : queue[i] # NoTask
    BY <1>0, TaskIsAPair DEF BatchTypeOK
  <2>2. /\ \A v \in Threads : task'[v] = IF v = w THEN NoTask ELSE task[v]
        /\ \A v \in Threads : worker'[v] = IF v = w THEN "acquire" ELSE worker[v]
        /\ queue' = queue
    BY <1>0, <1>6 DEF Run, BatchTypeOK
  <2> QED BY <1>0, <2>1, <2>2 DEF OneHolder
<1>7. CASE Destroy \/ NotifyAll \/ Join
  <2>1. \A w \in Threads : worker'[w] = "running" <=> worker[w] = "running"
    BY <1>0, <1>7 DEF Destroy, NotifyAll, WokenAll, Join, BatchTypeOK
  <2>2. UNCHANGED <<queue, task>>
    BY <1>7 DEF Destroy, NotifyAll, Join
  <2> QED BY <1>0, <2>1, <2>2 DEF OneHolder
<1>8. CASE UNCHANGED batchVars
  BY <1>0, <1>8 DEF batchVars, OneHolder
<1> QED BY <1>1, <1>2, <1>3, <1>4, <1>5, <1>6, <1>7, <1>8 DEF BatchNext, Caller, Worker

\* A step that pushes, takes and runs nothing, and in which a call that moves
\* keeps what it has pushed.
LEMMA QuietStep ==
  ASSUME BatchIInv, UNCHANGED <<queue, task, future>>, \A t \in Tasks : Submitted(t)' <=> Submitted(t)
  PROVE  FuturesAreKept'
<1>1. \A t \in Tasks : Live(t)' <=> Live(t)
  BY DEF Live, InQueue
<1> QED BY <1>1 DEF BatchIInv, FuturesAreKept

\* Every step keeps a future pending until its task has run.
LEMMA FuturesStep ==
  ASSUME BatchIInv, [BatchNext]_batchVars
  PROVE  FuturesAreKept'
<1>0. BatchTypeOK /\ OneHolder /\ FuturesAreKept /\ CallersKnow
  BY DEF BatchIInv
<1>t. \A t \in Tasks : t[1] \in Callers /\ t[2] \in Nat /\ t[2] >= 1 /\ t[2] <= NumQueries /\ next[t[1]] \in Nat
  BY <1>0, TaskIsAPair, SizesAssumption DEF QueryNumbers, BatchTypeOK
<1>1. ASSUME NEW c \in Callers, Call(c) PROVE FuturesAreKept'
  <2>1. next[c] = 1
    BY <1>0, <1>1 DEF Call, CallersKnow
  <2>2. \A t \in Tasks : Submitted(t)' <=> Submitted(t)
    BY <1>0, <1>t, <1>1, <2>1 DEF Call, Submitted, BatchTypeOK
  <2>3. UNCHANGED <<queue, task, future>>
    BY <1>1 DEF Call
  <2> QED BY <2>2, <2>3, QuietStep
<1>2. ASSUME NEW c \in Callers, Abort(c) \/ Return(c) \/ StartCollecting(c) PROVE FuturesAreKept'
  <2>1. \A t \in Tasks : Submitted(t)' <=> Submitted(t)
    BY <1>0, <1>t, <1>2, SizesAssumption DEF Abort, Return, StartCollecting, HasQuery, Submitted, BatchTypeOK
  <2>2. UNCHANGED <<queue, task, future>>
    BY <1>2 DEF Abort, Return, StartCollecting
  <2> QED BY <2>1, <2>2, QuietStep
<1>3. ASSUME NEW c \in Callers, Notify(c) \/ Collect(c) PROVE FuturesAreKept'
  <2>0. \A b \in Callers : /\ b # c => caller'[b] = caller[b] /\ next'[b] = next[b]
                           /\ b = c => /\ next'[b] = next[b] + 1
                                       /\ \/ caller[b] = "notify" /\ caller'[b] = "submitting"
                                          \/ caller[b] = "collecting" /\ caller'[b] = "collecting"
    BY <1>0, <1>3 DEF Notify, Collect, BatchTypeOK
  <2>1. ASSUME NEW t \in Tasks PROVE Submitted(t)' <=> Submitted(t)
    <3>1. t[1] \in Callers /\ t[2] \in Nat /\ next[t[1]] \in Nat
      BY <1>t
    <3> QED BY <2>0, <3>1 DEF Submitted
  <2>2. UNCHANGED <<queue, task, future>>
    BY <1>3 DEF Notify, Collect
  <2> QED BY <2>1, <2>2, QuietStep
<1>4. ASSUME NEW c \in Callers, Submit(c) PROVE FuturesAreKept'
  <2> DEFINE new == <<c, next[c]>>
  <2>1. /\ new \in Tasks /\ future[new] = "pending"
        /\ Len(queue) \in Nat /\ Len(queue') = Len(queue) + 1 /\ queue'[Len(queue) + 1] = new
        /\ \A i \in 1..Len(queue) : queue'[i] = queue[i]
    BY <1>4, PushedTask
  <2>2. UNCHANGED <<task, future>>
    BY <1>4 DEF Submit
  <2>3. \A t \in Tasks : Submitted(t)' <=> Submitted(t) \/ t = new
    BY <1>0, <1>t, <1>4, TaskIsAPair DEF Submit, Submitted, BatchTypeOK
  <2> HIDE DEF new
  <2>4. \A t \in Tasks : Live(t)' => Live(t) \/ t = new
    <3>1. \A i \in 1..Len(queue') : i \in 1..Len(queue) \/ i = Len(queue) + 1
      BY <2>1
    <3> QED BY <2>1, <2>2, <3>1 DEF Live, InQueue
  <2> QED BY <1>0, <2>1, <2>2, <2>3, <2>4 DEF FuturesAreKept
<1>5. ASSUME NEW w \in Threads, Wait(w) \/ Wake(w) \/ Exit(w) PROVE FuturesAreKept'
  BY <1>5, QuietStep DEF Wait, Wake, Exit, Submitted
<1>6. ASSUME NEW w \in Threads, Take(w) PROVE FuturesAreKept'
  <2>1. /\ Len(queue) \in Nat \ {0}
        /\ \A i \in 1..Len(queue') : i + 1 \in 1..Len(queue) /\ queue'[i] = queue[i + 1]
        /\ task'[w] = queue[1] /\ \A v \in Threads \ {w} : task'[v] = task[v]
    BY <1>6, TakenTask
  <2>2. \A t \in Tasks : Live(t)' => Live(t)
    <3>1. 1 \in 1..Len(queue)
      BY <2>1
    <3> QED BY <2>1, <3>1 DEF Live, InQueue
  <2>3. UNCHANGED future /\ \A t \in Tasks : Submitted(t)' <=> Submitted(t)
    BY <1>6 DEF Take, Submitted
  <2> QED BY <1>0, <2>2, <2>3 DEF FuturesAreKept
<1>7. ASSUME NEW w \in Threads, Run(w) PROVE FuturesAreKept'
  <2>1. task[w] \in Tasks /\ Submitted(task[w])
    BY <1>0, <1>7 DEF Run, OneHolder, BatchTypeOK, FuturesAreKept, Live
  <2>2. \A t \in Tasks : Submitted(t)' <=> Submitted(t)
    BY <1>7 DEF Run, Submitted
  <2>3. queue' = queue /\ \A v \in Threads : task'[v] = IF v = w THEN NoTask ELSE task[v]
    BY <1>0, <1>7 DEF Run, BatchTypeOK
  <2>4. \A t \in Tasks : t # task[w] => future'[t] = future[t]
    BY <1>0, <1>7, <2>1 DEF Run, BatchTypeOK
  <2>5. \A t \in Tasks : Live(t)' => Live(t) /\ t # task[w]
    <3> SUFFICES ASSUME NEW t \in Tasks, Live(t)' PROVE Live(t) /\ t # task[w]
      OBVIOUS
    <3>1. CASE InQueue(t)'
      BY <1>0, <2>3, <3>1 DEF Live, InQueue, OneHolder
    <3>2. CASE \E v \in Threads : task'[v] = t
      <4>1. PICK v \in Threads : task'[v] = t
        BY <3>2
      <4>2. v # w /\ task[v] = t
        BY <2>3, <4>1, TaskIsAPair
      <4> QED BY <1>0, <2>1, <4>2, TaskIsAPair DEF Live, OneHolder
    <3> QED BY <3>1, <3>2 DEF Live
  <2> QED BY <1>0, <2>1, <2>2, <2>4, <2>5 DEF FuturesAreKept
<1>8. CASE Destroy \/ NotifyAll \/ Join
  BY <1>8, QuietStep DEF Destroy, NotifyAll, Join, Submitted
<1>9. CASE UNCHANGED batchVars
  BY <1>9, QuietStep DEF batchVars, Submitted
<1> QED BY <1>1, <1>2, <1>3, <1>4, <1>5, <1>6, <1>7, <1>8, <1>9 DEF BatchNext, Caller, Worker

\* Every step keeps what the calls know of their futures.
LEMMA CallersStep ==
  ASSUME BatchIInv, [BatchNext]_batchVars
  PROVE  CallersKnow'
<1>0. BatchTypeOK /\ OneHolder /\ FuturesAreKept /\ CallersKnow
  BY DEF BatchIInv
<1>q. \A q \in QueryNumbers : q \in Nat /\ 1 <= q /\ q <= NumQueries
  BY SizesAssumption DEF QueryNumbers
<1>1. ASSUME NEW c \in Callers, Call(c) \/ Abort(c) \/ Submit(c) \/ Notify(c) PROVE CallersKnow'
  <2>1. /\ caller[c] \in {"idle", "submitting", "notify"} /\ caller'[c] \in {"submitting", "notify", "aborted"}
        /\ UNCHANGED <<future, failure>>
        /\ \A b \in Callers \ {c} : caller'[b] = caller[b] /\ next'[b] = next[b]
    BY <1>0, <1>1 DEF Call, Abort, Submit, Notify, BatchTypeOK
  <2>2. caller'[c] = "notify" => next'[c] <= NumQueries
    BY <1>0, <1>1 DEF Call, Abort, Submit, Notify, HasQuery, BatchTypeOK
  <2>3. c \notin failure
    BY <1>0, <2>1 DEF CallersKnow
  <2> QED BY <1>0, <2>1, <2>2, <2>3 DEF CallersKnow
<1>2. ASSUME NEW c \in Callers, StartCollecting(c) PROVE CallersKnow'
  BY <1>0, <1>q, <1>2 DEF StartCollecting, CallersKnow, BatchTypeOK
<1>3. ASSUME NEW c \in Callers, Collect(c) PROVE CallersKnow'
  <2>1. /\ caller[c] = "collecting" /\ UNCHANGED <<caller, future>> /\ next[c] \in QueryNumbers
        /\ future[<<c, next[c]>>] # "pending" /\ failure' = Failures(c) /\ next'[c] = next[c] + 1
        /\ \A b \in Callers \ {c} : next'[b] = next[b]
    BY <1>0, <1>3 DEF Collect, QueryNumbers, BatchTypeOK
  <2>2. future[<<c, next[c]>>] \in {"value", "error"}
    BY <1>0, <2>1, TaskIsAPair DEF BatchTypeOK
  <2>3. \A q \in QueryNumbers : q < next'[c] => q < next[c] \/ q = next[c]
    BY <1>q, <2>1
  <2>4. CASE future[<<c, next[c]>>] = "error"
    <3>1. failure' = failure \union {c}
      BY <2>1, <2>4 DEF Failures
    <3> QED BY <1>0, <2>1, <2>3, <2>4, <3>1 DEF CallersKnow
  <2>5. CASE future[<<c, next[c]>>] = "value"
    <3>1. failure' = failure
      BY <2>1, <2>5 DEF Failures
    <3> QED BY <1>0, <2>1, <2>3, <2>5, <3>1 DEF CallersKnow
  <2> QED BY <2>2, <2>4, <2>5
<1>4. ASSUME NEW c \in Callers, Return(c) PROVE CallersKnow'
  <2>1. caller[c] = "collecting" /\ \A q \in QueryNumbers : q < next[c]
    BY <1>0, <1>q, <1>4, SizesAssumption DEF Return, Collected, BatchTypeOK
  <2>2. /\ UNCHANGED <<next, future, failure>>
        /\ caller'[c] = IF c \in failure THEN "failed" ELSE "returned"
        /\ \A b \in Callers \ {c} : caller'[b] = caller[b]
    BY <1>0, <1>4 DEF Return, BatchTypeOK
  <2> QED BY <1>0, <2>1, <2>2 DEF CallersKnow
<1>5. ASSUME NEW w \in Threads, Run(w) PROVE CallersKnow'
  <2>1. task[w] \in Tasks /\ future[task[w]] = "pending"
    BY <1>0, <1>5 DEF Run, OneHolder, BatchTypeOK, FuturesAreKept, Live
  <2>2. UNCHANGED <<caller, next, failure>>
    BY <1>5 DEF Run
  <2>3. \A t \in Tasks : future[t] # "pending" => future'[t] = future[t]
    BY <1>0, <1>5, <2>1 DEF Run, BatchTypeOK
  <2>4. \A c \in Callers, q \in QueryNumbers :
           future[<<c, q>>] # "pending" => future'[<<c, q>>] = future[<<c, q>>]
    BY <2>3, TaskIsAPair
  <2> QED BY <1>0, <2>2, <2>4 DEF CallersKnow
<1>6. ASSUME NEW w \in Threads, Wait(w) \/ Wake(w) \/ Exit(w) \/ Take(w) PROVE CallersKnow'
  <2>1. UNCHANGED <<caller, next, future, failure>>
    BY <1>6 DEF Wait, Wake, Exit, Take
  <2> QED BY <1>0, <2>1 DEF CallersKnow
<1>7. CASE Destroy \/ NotifyAll \/ Join \/ UNCHANGED batchVars
  BY <1>0, <1>7 DEF Destroy, NotifyAll, Join, batchVars, CallersKnow
<1> QED BY <1>1, <1>2, <1>3, <1>4, <1>5, <1>6, <1>7 DEF BatchNext, Caller, Worker

\* The invariant holds throughout.
THEOREM BatchInvariance == BatchSpec => []BatchIInv
<1>1. BatchIInv /\ [BatchNext]_batchVars => BatchIInv'
  BY BatchTypeStep, HolderStep, FuturesStep, CallersStep DEF BatchIInv
<1> QED BY <1>1, InitBatchIInv, PTL DEF BatchSpec

\* No task outlives the frame it writes to, and a call that returns has every
\* result: search() of batch_searcher.cpp waits for all its futures, whatever
\* the first error was.
THEOREM ReturnsStayFinal == BatchSpec => []ReturnsAreFinal
BY BatchInvariance, FinalReturns, PTL
=============================================================================
