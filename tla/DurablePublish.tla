--------------------------- MODULE DurablePublish ---------------------------
(***************************************************************************)
(* Offline publication of an index file: publish_hnsw_index                *)
(* (src/src/hnsw_index_publish.cpp) and build_index                        *)
(* (src/tools/build_flat_index.cpp), which follow the same protocol, run   *)
(* by several processes for one output path, with machine crashes.         *)
(*                                                                         *)
(* Each run writes its own temporary file, so the inode of a file is named *)
(* by the run that wrote it.  The file system (external) keeps a directory *)
(* entry in memory and a set of entries of which any may be found after a  *)
(* crash; only fsync makes the contents of a file and an entry certain.    *)
(* Temporary names are taken to be distinct while they are in use.         *)
(***************************************************************************)
EXTENDS Naturals, FiniteSets

CONSTANTS
    Runs,           \* the runs of the tools, each a process
    Overwriters,    \* the runs with overwrite = true
    Builders,       \* the runs of build_index; the others are of publish_hnsw_index
    Previous,       \* the file that an earlier, durable publication left
    Absent,         \* no directory entry
    MaxCrashes      \* bound: machine crashes

ASSUME RunsAssumption == /\ IsFiniteSet(Runs) /\ Overwriters \subseteq Runs /\ Builders \subseteq Runs
                         /\ Previous \notin Runs /\ Absent \notin Runs /\ Previous # Absent
ASSUME CrashesAssumption == MaxCrashes \in Nat

VARIABLES
    pc,         \* where each run is
    data,       \* what the file of each run holds
    synced,     \* the files whose contents are on disk
    temporary,  \* the runs whose temporary name exists
    output,     \* the entry of the output path
    possible,   \* the entries of which a crash leaves one
    rank,       \* history: in which order the files were published, 0 for never
    crashes     \* machine crashes so far

publishVars == <<pc, data, synced, temporary, output, possible, rank, crashes>>

Files == Runs \union {Previous}
Entries == Files \union {Absent}
Places == {"idle", "created", "saved", "verified", "synced", "linked", "published",
           "failing", "failed", "done", "dead"}

\* Type invariant; the entry in memory is one of those a crash may leave.
PublishTypeOK ==
    /\ pc \in [Runs -> Places]
    /\ data \in [Runs -> {"none", "damaged", "whole"}]
    /\ synced \subseteq Runs
    /\ temporary \subseteq Runs
    /\ output \in possible
    /\ possible \subseteq Entries
    /\ rank \in [Entries -> Nat]
    /\ crashes \in 0..MaxCrashes

PublishInit ==
    /\ pc = [r \in Runs |-> "idle"]
    /\ data = [r \in Runs |-> "none"]
    /\ synced = {}
    /\ temporary = {}
    /\ output \in {Absent, Previous}
    /\ possible = {output}
    /\ rank = [f \in Entries |-> 0]
    /\ crashes = 0

Go(r, from, to) == pc[r] = from /\ pc' = [pc EXCEPT ![r] = to]

-----------------------------------------------------------------------------
(* Writing and verifying the temporary file *)

\* build_index looks for an existing output first; publish_hnsw_index does not.
MayStart(r) == r \in Builders /\ r \notin Overwriters => output = Absent

Start(r) ==
    /\ MayStart(r)
    /\ Go(r, "idle", "created")
    /\ temporary' = temporary \union {r}
    /\ UNCHANGED <<data, synced, output, possible, rank, crashes>>

Refuse(r) ==
    /\ ~MayStart(r)
    /\ Go(r, "idle", "failed")
    /\ UNCHANGED <<data, synced, temporary, output, possible, rank, crashes>>

\* save_*_index checks its stream after flush(), not after close(), so a file
\* it takes for written may still be damaged.
Save(r) ==
    /\ Go(r, "created", "saved")
    /\ \E d \in {"whole", "damaged"} : data' = [data EXCEPT ![r] = d]
    /\ UNCHANGED <<synced, temporary, output, possible, rank, crashes>>

\* load_*_index and the comparison of sizes reject a damaged file.
Verifiable(r) == data[r] = "whole"

Verify(r) ==
    /\ Verifiable(r)
    /\ Go(r, "saved", "verified")
    /\ UNCHANGED <<data, synced, temporary, output, possible, rank, crashes>>

SyncFile(r) ==
    /\ Go(r, "verified", "synced")
    /\ synced' = synced \union {r}
    /\ UNCHANGED <<data, temporary, output, possible, rank, crashes>>

-----------------------------------------------------------------------------
(* Publishing it *)

\* Mutation: the file is renamed before it is flushed.
PublishableUnsynced(r) == pc[r] \in {"verified", "synced"}

Publishable(r) == pc[r] = "synced"

Newest == Cardinality({f \in Files : rank[f] # 0})

\* The entry changes in memory; on disk it may or may not.
SetOutput(r) ==
    /\ output' = r
    /\ possible' = possible \union {r}
    /\ rank' = [rank EXCEPT ![r] = Newest + 1]

\* rename(temporary, output)
Rename(r) ==
    /\ Publishable(r)
    /\ r \in Overwriters
    /\ SetOutput(r)
    /\ temporary' = temporary \ {r}
    /\ pc' = [pc EXCEPT ![r] = "published"]
    /\ UNCHANGED <<data, synced, crashes>>

\* Mutation: the earlier check for an existing output is relied on.
LinkableUnchecked == TRUE

\* link() fails with EEXIST.
Linkable == output = Absent

Link(r) ==
    /\ Publishable(r)
    /\ r \notin Overwriters
    /\ Linkable
    /\ SetOutput(r)
    /\ pc' = [pc EXCEPT ![r] = "linked"]
    /\ UNCHANGED <<data, synced, temporary, crashes>>

Unlink(r) ==
    /\ Go(r, "linked", "published")
    /\ temporary' = temporary \ {r}
    /\ UNCHANGED <<data, synced, output, possible, rank, crashes>>

\* Mutation: the directory is not flushed.
NothingFlushed(r) == possible

\* fsync of the directory writes the entry as it is now, whoever made it.
Flushed(r) == {output}

SyncDirectory(r) ==
    /\ Go(r, "published", "done")
    /\ possible' = Flushed(r)
    /\ UNCHANGED <<data, synced, temporary, output, rank, crashes>>

-----------------------------------------------------------------------------
(* Failures *)

\* Any step may throw; link() does if the output exists.
Throw(r) ==
    /\ pc[r] \in {"created", "saved", "verified", "synced", "linked", "published"}
    /\ pc' = [pc EXCEPT ![r] = "failing"]
    /\ data' = IF pc[r] = "created" THEN [data EXCEPT ![r] = "damaged"] ELSE data
    /\ UNCHANGED <<synced, temporary, output, possible, rank, crashes>>

\* The destructor of the temporary path removes the name, if it can.
CleanUp(r) ==
    /\ Go(r, "failing", "failed")
    /\ temporary' \in {temporary, temporary \ {r}}
    /\ UNCHANGED <<data, synced, output, possible, rank, crashes>>

\* The machine stops: every run dies, files that were not flushed may lose
\* contents, and one of the possible entries is found afterwards.
Crash ==
    /\ crashes < MaxCrashes
    /\ crashes' = crashes + 1
    /\ pc' = [r \in Runs |-> IF pc[r] \in {"idle", "failed", "done"} THEN pc[r] ELSE "dead"]
    /\ \E lost \in SUBSET (Runs \ synced) :
          data' = [r \in Runs |-> IF r \in lost /\ data[r] = "whole" THEN "damaged" ELSE data[r]]
    /\ synced' = {r \in Runs : pc[r] # "idle"}
    /\ temporary' \in SUBSET temporary
    /\ output' \in possible
    /\ possible' = {output'}
    /\ UNCHANGED rank

-----------------------------------------------------------------------------

Run(r) ==
    \/ Start(r) \/ Refuse(r) \/ Save(r) \/ Verify(r) \/ SyncFile(r) \/ Rename(r) \/ Link(r)
    \/ Unlink(r) \/ SyncDirectory(r) \/ Throw(r) \/ CleanUp(r)

PublishNext == Crash \/ \E r \in Runs : Run(r)

PublishSpec == PublishInit /\ [][PublishNext]_publishVars

-----------------------------------------------------------------------------

\* The state is well typed, and whoever opens the output path, also after a
\* crash, finds a whole index: each entry that can be found names a verified
\* file that is on disk.
OutputIsWhole ==
    /\ PublishTypeOK
    /\ \A f \in possible \ {Absent, Previous} : data[f] = "whole" /\ f \in synced

\* A reported success survives a crash: what is found is the file of that run
\* or one published after it.
SuccessIsDurable ==
    \A r \in Runs : pc[r] = "done" => \A f \in possible : rank[f] >= rank[r]

\* Without overwrite a run never replaces an output, even one that appeared
\* after the run had looked; and a run that fails before publication leaves
\* the output as it was.  A crash can only undo.
OnlyOverwritersReplace ==
    [][output' # output => \/ output = Absent
                           \/ \E r \in Overwriters : output' = r /\ pc[r] = "synced"
                           \/ crashes' # crashes]_publishVars
=============================================================================
