# Verification of fast-vector

TLA+ models of the concurrent, failure-handling and persistent parts of fast-vector, checked
with TLC on small instances, and machine-checked proofs of their safety for every value of their
constants: every number of threads, tasks, replicas, runs, nodes or vectors. Each safety
invariant and action property that a passing run checks, and both refinements, are also
theorems; liveness is model-checked only.

## 1. The system and what is hard in it

| Part | State | Operations | Interacts with |
|---|---|---|---|
| **Search executor** `src/src/search_executor.cpp`, `search_context.h` | FIFO queue, one active slot per worker, counters, a promise and a cancellation flag per task | constructor, `submit`, `cancel`, `stop`, `shutdown`, worker loop `run` | the `Search` handler submits and polls; the server's monitor calls `stop`; the store runs the search |
| **Snapshot publication** `src/service/snapshot_publication.cpp` | status, manifest, generation, token, candidate | `begin`, `complete`, `fail`, `rejected`, `activate` | the `PrepareSnapshot` and `ActivateSnapshot` handlers; the store's atomic snapshot pointer |
| **Vector store** `src/src/vector_store.cpp` | writable index under a timed reader/writer lock, or a read-only snapshot pointer; counters | `add`, `add_batch`, `search`, `replace_index`, `prepare_snapshot`, `activate_snapshot` | handlers, executor, SIGHUP reload |
| **gRPC service** `src/service/vector_search_service.cpp` | RPC counts, the admitted calls | the handlers, `stop_searches`, `log_rpc_summary` | everything above |
| **Server process** `src/apps/server.cpp` | the options, two signal flags, the monitor thread, the gRPC server | option checks, start, reload, stop, drain, summary | service, executor, store, snapshot files |
| **Offline publication** `src/src/hnsw_index_publish.cpp`, `src/tools/build_flat_index.cpp` | a temporary file, a directory entry | save, verify, fsync, rename or link, fsync of the directory | the file system, other runs, servers that load the file |
| **Rolling release** `src/scripts/publish_snapshots.py` | a report with a row for each replica | observe, prepare, activate, observe again | the publication manager of every replica, other publishers |
| **HNSW index** `src/src/hnsw_index.cpp`, `src/tools/rebuild_hnsw_index.cpp` | vectors, IDs, adjacency lists, tombstones, entry point, generator | `add` with a rollback journal, `erase`, `search`, `rebuild` | store, tools |
| **Flat index** `src/src/flat_index.cpp` | parallel rows, map from ID to row | `add`, `erase`, `search` | store, tools |
| **HNSW snapshots** `src/src/hnsw_index_io.cpp` | a file in one of three versions | `save`, `load` | tools, server, other processes that rename or rewrite the file |
| **Flat snapshots and their build tool** `src/src/flat_index_io.cpp`, `src/tools/vector_jsonl.cpp`, `src/tools/build_flat_index.cpp` | a parser cursor, an index, a temporary file | parse, add, save, load, verify | flat index, offline publication |
| **Batch searcher** `src/src/batch_searcher.cpp` | queue of tasks, workers | `search`, destructor | an index |

The behaviours that tests hardly reach, listed one by one as hazards in `PROJECT.json`: wake-ups
that race a worker falling asleep; cancellation, deadline, dispatch and stop of one task in any
order; work outside a mutex on a copy that is stale afterwards; late failures of displaced
calls; retried and replayed generations; exceptions between two assignments; machine crashes
around rename and fsync; uncoordinated publishers whose timed-out calls go on; tasks that refer
to the stack frame of their caller; signals during a reload; a snapshot that changes while it is
loaded; sizes that overflow before memory is reserved; graph searches through tombstones and
among equal scores.

## 2. Modules

Each component is a module with its state as `VARIABLES` and an action per operation or critical
section. `MC*` modules and `.cfg` files give instances. The line ranges behind every definition
are in `PROJECT.json`, `map`. Operators whose comment starts with *Mutation* are plausible bugs;
none is used in a specification, and each shows that a property can tell the code from a wrong
version of it. The type invariant `TypeOK` of a module is the first conjunct of one of the
checked invariants. Invariants that belong together are checked as one conjunction of named
parts (`IndexIsSound`, `SlotIsSound`, `LoadIsSafe`, ...).

**`SearchExecutor`** - a critical section of `mutex_` is one action: `SubmitAccept`,
`SubmitReject`, `CancelRemove`, `StopBody` (in `CallStop` and `NestedStop`), `Dequeue`,
`MarkStarted`, `Finish`. What the code does outside is a step of its own: the compare-exchange
of the reason (`CancelRequest`), `NotifyOne`, `NotifyAll`, `CheckAtDispatch`, `Search`, the
joins. `Expire` lets a deadline pass at any time. `SpawnFails` is the constructor's catch block.
A sleeping worker can wake up spuriously.

**`SnapshotPublication`** - `BeginAccept`/`BeginThrow`, `TransferEnds`/`TransferFails`, the two
critical sections of `complete` (`CompleteEnter`, `Install`) with `Load` between them, `Fail`,
`Rejected`, `Activate`/`AlreadyActive`/`ActivationRejected`, and the SIGHUP path `ReplaceIndex`
(the server's options exclude a reload on a managed replica, see `Server`; the store itself
guards only by the generation). `InstallThrows` and `ReplyFails` are allocation failures that
leave the earlier assignments in place. `bound` is a history variable: the manifest each
generation was accepted with.

**`ReleaseRegister`** - the abstract specification of a replica: a register with a fence, in
which a generation has one content and only the generation at the fence can be released,
forwards. `SnapshotPublication` implements it (`ImplementsRegister`), under the mapping of the
fence to `highest_generation` and of the content to what the store serves.

**`DurablePublish`** - both tools, several runs for one path. `possible` is the set of directory
entries of which any may be found after a crash; `rename` and `link` add to it, only the fsync
of the directory reduces it; a file that was not flushed may lose its contents in `Crash`. The
file system is external and modelled from the calls.

**`RollingRelease`** - publishers that walk the replicas, give up at any time (`GiveUp`) while
the server goes on, and observe everything again before they report. The replica is the manager
of `SnapshotPublication` with a preparation in two steps. `deployment` is the scenario: who
publishes what on how many replicas.

**`HnswGraph`** - an insertion as the writes between which an exception can come: `Begin`,
`Store`, `LinkBack`, `Unlink`, `EndPruning`, `Commit`; `Rollback` at any point. Which neighbours
are near is left open: every selection the code's limits allow is taken. `StartRebuild` and
`EndRebuild` are `rebuild` and the tool's verification of its result; between them the
insertions are those of the new index, and one that throws ends the tool.

**`HnswIndexFile`** - `save` as the file it writes (`Written`; `WrittenBefore` for the two older
versions), and `load` as a step for each part of the file: header, size, IDs, vectors, levels,
lists, whole-graph checks, tombstones, random state, checksum. Between the steps the path can be
renamed (`Replace`), rewritten in place by another `save` (`Save`, `Flush`), damaged in one cell
or truncated (`Damage`); before a load the file can be one that another program wrote with a
matching checksum (`OtherWriter`). A file is a sequence of cells, one for each integer; sizes
are counted in cells and `MaxWord` plays the largest 64-bit integer, so that the products in
`ValidHeader` can overflow. The checksum is ideal: it names what it was computed over. The
indexes that are saved are assumed to be `Sound`: tables of one length, links within the limits
that lead to nodes of their layer, an entry point on the highest level. The graph's part is what
`IndexStaysSound` shows of `HnswGraph`, the parameters are those the constructor accepts, and
`random_level` draws no level above 63. `Loadable` names the indexes whose file the loader
accepts by its size.

**`HnswSearch`** - extends `HnswIndexFile`: the loaded index is searched, or the searches of an
insertion are made in it. `Greedy` is a pass of `greedy_search_layer`, `Pop` and `Visit` are the
loops of `search_layer`, `SelectNeighbors` is `select_neighbors`, and `Stop` is a checkpoint of
the context. `PlanIsSelectable` is the link to `HnswGraph`: what this module selects is among
what that one allows.

**`BatchSearcher`** - callers, workers and the destructor; `Abort` is a submission that throws
half way through a batch.

**`VectorStore`** - the writable path: validation before the lock, one insertion per step under
it, the reader's `try_lock_for` loop (`LockShared`, `TimedOut`) and the three checks of the
context in `search`.

**`FlatIndex`**, **`VectorMap`** - rows, map, rollback and swap-and-pop, with the bounded scan
as a fold over the rows; `VectorMap` is the map it implements (`ImplementsMap`) and the
definition of an exact top k, ties included.

**`VectorJsonl`**, **`FlatIndexFile`**, **`FlatBuild`** - the parser as a cursor that one token
(`openObject`, `comma`, a key, a number, ...) advances, checked against the set of lines that
describe a record (`Writings`); the flat file format as operators; and the build tool that
composes both with `FlatIndex`: read tokens, add at the end of a line, check the count, save,
verify, with damage to the file before it is verified. In library mode the index takes any
history of calls.

**`Server`** - the options that constrain each other (`Valid`), a start with or without a
snapshot and a manifest, main, the monitor thread, signals, and calls of three kinds (unary,
search, stream). It composes the executor and the publication by what their modules establish: a
stopped executor settles its searches, a stream ends only by its client, and what a replica does
to its store is a step of the register that `SnapshotPublication` implements (`Publication`, an
instance of `ReleaseRegister`): `Accept` and `Prepared` are a `PrepareSnapshot` call that raises
the fence and leaves a candidate, `Activate` is `ActivateSnapshot`, which may come while the
server drains, and `ReplaceIndex` is the store's side of a reload. `Drained` is the return of
`server->Shutdown()`, after which `Wait()` can return, and `JoinWorkers` the `shutdown_searches()`
that the monitor is in by then.

## 3. Runs

| Run | Instance | Shows |
|---|---|---|
| `executor_races` | 2 tasks (one with a deadline), 2 workers, 1 owner, queue of 2; 2.2 M states | `Accounted` (`TypeOK`, `Conservation`), `OnePlace`, `StopReachesEveryTask`, `NoLostWakeup`, `OutcomeIsJustified`, `JoinedMeansQuiet`, `FirstComeFirstServed`, `SettledOnce` |
| `executor_liveness` | 2 tasks, 2 workers, 1 owner, queue of 1; 339 k states | `Bounded`, and every admitted search is collected and every shutdown returns |
| `publication` | 2 handlers, 5 kinds of manifest, generations to 3, versions to 3, tokens to 4; 72 k states | `ServedIsVerified`, `SlotIsSound` (`SlotIsOwned`, `ReadyIsActivatable`), `ReadyIsKept`, `ImplementsRegister`, `SlotIsReleased` |
| `publication_failure` | generations, versions and tokens to 2 | **a violation**: see Findings |
| `durable_publish` | 4 runs: both tools, with and without overwrite; 2 crashes; 2.7 M states | `OutputIsWhole`, `SuccessIsDurable`, `OnlyOverwritersReplace` |
| `release` | 2 publishers of different releases under one generation on 2 replicas, or 3 publishers (a release, its retry and a newer one) on 1 replica with 1 restart; 4.0 M states | `ReportsAreTrue` (`ConvergedIsServed`, `OneReleasePerGeneration`), `StaleIsNotSuccess` |
| `hnsw_graph` | 4 nodes, 2 levels, 2 connections, IDs symmetric; 137 k states | `IndexIsSound` (`TablesAgree`, `LinksAreMutual`, `RebuildIsComplete`), `AllOrNothing` |
| `hnsw_search` | 5 indexes of 0 to 3 nodes whose files change once, in 3 versions; 1024 indexes of 4 nodes that are searched; 439 k states | `LoadIsSafe` (`AllocationIsBounded`, `LoadedIsSound`), `LoadedIsSaved`, `SearchIsComplete`, `PlanIsSelectable`, `SearchEnds` |
| `batch_searcher` | 2 callers of 2 queries, 2 threads; 17 k states | `ReturnsAreFinal` (`FramesOutliveTasks`, `AnswersAreComplete`), `CallsReturn` |
| `vector_store` | 2 writers, 2 readers, 8 kinds of request, batches of at most 2; 319 k states | `BatchesAreAccounted` (`SizeIsAccounted`, `BatchIsSplitByExistingIds`), `ReadersSeeWholeBatches`, `CancelledSearchReturns` |
| `flat_index` | 5 IDs, 3 scores; token sequences of at most 2 records with 2 numbers; 112 k states | `IndexIsExact` (`RowsAgree`, `SearchIsExact`), `ImplementsMap`, `LineIsParsed`, `BuiltIsInput` |
| `server` | the combinations of 6 options, one call of each kind, 2 file versions, 2 generations; 483 k states | `ServerIsConsistent` (`ServedIsConfigured`, `ServiceIsUnused`, `SummaryCountsAll`), `StopIsObeyed`, `NoReloadLost` |

Why the bounds are enough for what is asked:

- *Executor.* A lost wake-up needs two pushes and two workers. The races over one task
  need its handler, a worker and an owner; the second task is the one that is wrongly
  signalled, overtaken or counted. A queue of two shows order, a queue of one overflows.
  What a second owner, whose `stop` meets a `shutdown`, or a third task or worker could add
  to the safety properties is excluded by the proofs of section 5.
- *Publication.* Two calls are needed for a displaced one to fail late; two generations
  above the served one for a READY candidate to be replaced; four tokens allow a failed
  attempt, its retry, a newer one and its retry. The manifests cover same bytes under a
  new label, wrong shape and invalid. The bounds on versions and tokens are also the
  code's exhaustion checks, made small.
- *Durable publication.* A pair of runs meets in every order of rename, link and fsync
  with each kind as first and second; the second crash hits a run that started after the first.
- *Release.* One generation on two replicas is the smallest rivalry in which each
  publisher can win one replica; staleness needs a newer release, and a retry shows that
  a repeated one is not taken for stale.
- *HNSW.* With 2 connections (4 on level 0) and 4 nodes the upper level overflows, so that
  an insertion prunes lists of older nodes, and a list is linked and pruned in one insertion.
  Level 0 with its limit of 4 is not filled by 4 nodes; both levels run the same code.
- *HNSW snapshots.* One change is enough for each kind of disturbance at each step of the loader,
  which can then load the changed file again. Two indexes have files of the same size, the only
  case in which the size check cannot see a rename. The values of a damaged cell are small
  numbers, which make other links, levels, counts and versions, and 64 and 127, which make
  products overflow. The changed cell can be any one cell of the header or the payload.
- *HNSW search.* All undirected graphs on four nodes contain paths, stars, isolated live nodes
  and tombstones between live ones; two nodes have the same vector, so that scores tie; the ring
  above is where a descent could go round. Widths of 1, 2 and 4 are below and above what can be
  reached.
- *Build tool.* All token sequences up to the first error are read, two records are enough for a
  repeated ID, and three dimensions for a list with two commas.
- *Server.* A second file version is one that the manifest does not describe, a second generation
  one that can be prepared and activated with either version. The stream prepares it and the
  unary call activates it; two streams that compete for the slot are in `SnapshotPublication`.

`CHECK_DEADLOCK FALSE` is set wherever the system may stop: all calls made, the process ended, a
load refused or a search done, no more runs.

### Fairness

Safety properties assume none. The liveness properties assume weak fairness of threads that can
run, and nothing of arrivals, clients, signals, failures or spurious wake-ups:

- executor: each handler's own steps after admission, each owner's steps after it
  called `stop` or `shutdown`, each worker's step; a search ends (the index is finite).
  A poll that finds the RPC cancelled is never forced.
- publication: the handler's steps outside the stream. A stream may stall for ever,
  since the server sets no limit; `SlotIsReleased` starts when no call transfers.
- batch searcher: caller, worker and destructor threads.
- store: only the readers; a writer may keep the lock for ever, which is the case
  `CancelledSearchReturns` is about.
- HNSW search: the searching thread runs; `Stop` is not forced.
- server: main, monitor and handlers; `StopIsObeyed` assumes that streams end.

`mutex_` sections are single actions, so weak fairness of a step means that a thread that waits
for a mutex gets it in the end.

## 4. Findings

`publication_failure`: `docs/snapshot_publication.md:89-90` says that "an admitted failure
clears the candidate, reports `FAILED`, and continues serving the previous publication".
`fail()` does nothing unless the state is still `PREPARING` (`snapshot_publication.cpp:199`). A
call that fails after `complete()` has set `READY_TO_ACTIVATE`, because a status string cannot
be allocated (`snapshot_publication.cpp:192-193`) or the copy of the status into the response
throws (`vector_search_service.cpp:273`), ends with an error and leaves a ready candidate. What
is served stays right: `SlotIsSound` and `ImplementsRegister` hold with these failures included.

Limits of the code that show in how properties are stated: a search of the batch pool whose
submission throws half way does not wait for the queries it has already queued
(`FramesOutliveTasks` excepts such calls); a client that keeps a `PrepareSnapshot` stream open
without sending holds the slot and the shutdown (`SlotIsReleased`, `StopIsObeyed`); the HNSW
loader does not require that links are mutual (`LoadedIsSound` does not claim it, and
`SearchIsComplete` speaks of what links lead to); the checksum of a flat file covers its payload
only, so that a damaged dimension of an index without vectors passes the loader and is found by
the build tool's comparison (`BuiltIsInput`); `save` does not ask whether the largest payload
that a header allows fits a 64-bit integer, and `load` does, so that an index of that size would
be written and refused (`LoadedIsSaved` claims a load for `Loadable` indexes).

## 5. Proofs

Each `<Module>Proofs` extends its component's module and proves, with TLAPS and from the
modules' `ASSUME`s only, that the properties below hold for every value of the constants. Every
property in the table but `RowsAgree` and `TypeOK`, which are parts of one, is also an
`INVARIANT` or a `PROPERTY` of a run.

| Module | Theorem | Property |
|---|---|---|
| `SearchExecutorProofs` | `TypeCorrect` | `TypeOK` |
| | `CountersAgree` | `Accounted`: `TypeOK` and `Conservation` |
| | `QueueIsBounded` | `Bounded` |
| | `NoTaskLostOrDuplicated` | `OnePlace` |
| | `StopIsComplete` | `StopReachesEveryTask` |
| | `WakeupsSuffice` | `NoLostWakeup` |
| | `ShutdownIsQuiet` | `JoinedMeansQuiet` |
| | `PromisesAreSetOnce` | `SettledOnce` |
| | `OutcomesAreJustified` | `OutcomeIsJustified` |
| | `TasksAreServedInOrder` | `FirstComeFirstServed` |
| `SnapshotPublicationProofs` | `SlotStaysSound` | `SlotIsSound` |
| | `ServedStaysVerified` | `ServedIsVerified` |
| | `ReadyStaysReady` | `ReadyIsKept` |
| | `ReplicaImplementsRegister` | `ImplementsRegister`, a refinement |
| ... and `DurablePublish` | `OutputStaysWhole` | `OutputIsWhole` |
| | `SuccessSurvives` | `SuccessIsDurable` |
| | `OutputIsReplacedOnPurpose` | `OnlyOverwritersReplace` |
| `RollingReleaseProofs` | `ReportsStayTrue` | `ReportsAreTrue` |
| | `StaleNeverSucceeds` | `StaleIsNotSuccess` |
| `HnswGraphProofs` | `IndexStaysSound` | `IndexIsSound` |
| | `InsertionIsAtomic` | `AllOrNothing` |
| `HnswSearchProofs` | `LoadStaysSafe` | `LoadIsSafe` |
| | `LoadedStaysSaved` | `LoadedIsSaved` |
| | `SearchStaysComplete` | `SearchIsComplete` |
| | `PlanStaysSelectable` | `PlanIsSelectable` |
| `VectorStoreProofs` | `BatchesStayAccounted` | `BatchesAreAccounted` |
| | `SearchesSeeWholeBatches` | `ReadersSeeWholeBatches` |
| `FlatIndexProofs` | `RowsStayInAgreement` | `RowsAgree` |
| | `IndexStaysExact` | `IndexIsExact` |
| | `IndexImplementsMap` | `ImplementsMap`, a refinement |
| ... and `FlatBuild` | `BuildUsesIndex` | `BuildSpec => Spec`, a refinement |
| | `LineStaysParsed` | `LineIsParsed` |
| | `BuiltStaysInput` | `BuiltIsInput` |
| ... and `BatchSearcher` | `ReturnsStayFinal` | `ReturnsAreFinal` |
| `ServerProofs` | `ServerStaysConsistent` | `ServerIsConsistent` |

The theorems are about the specification of each component: `Spec`, and `PublishSpec`,
`BuildSpec`, `BatchSpec` and `SearchSpec` where two components share a module of proofs or one
extends another.

The proofs have one shape: an inductive invariant (`IInv`, `LoadIInv`, ...), a conjunction of
named parts that TLC also finds to hold on the component's run; lemmas that Init establishes it
and that a step keeps it, the latter resting on one lemma for each part or each group of
actions, with a case for each action that can disturb it; an invariance theorem; and the
properties as consequences, by `PTL`. Of two parts, `LoadAgrees` and `ParseIInv`, TLC cannot
enumerate what they quantify over (all indexes, all lists of numbers); the first was checked for
the indexes whose files change in the run.

What recursive definitions and folds compute is proved without an induction theorem:
`LeastNumber` (a set of numbers that is not empty has a least one, from `WFMin`) turns each such
fact into a least counterexample, and `UpTo` and `Iteration` are its forms for predicates on an
interval and for loops. For this reason what is recursive in the proved modules is a recursive
function.

What follows is why each invariant has the parts it has.

**Executor.** `IInv` joins the proved properties with `WorkerLocals` (a worker has a slot of
`active_` exactly between its dequeue and its last critical section, carries a result exactly
before that section, and is unborn exactly above `spawned`; without it a dequeue could overwrite
a slot and `Conservation` would not be kept), `NoOutcomeBefore` (a task that was never admitted
has no outcome, so that an admission puts it in one place) and `OwnerLocals` (an owner past its
`stop` finds `stopping_` set, and one past its joins has seen every started worker exit).
`WakeupStep` is the heart: a push adds one queued task and one `notify_one`; a notification
turns a sleeper into a worker on its way to the mutex; a dequeue takes one task and one such
worker; a worker sleeps only when the predicate found the queue empty, under the mutex.
`OutcomeIsJustified` needs in addition that a result a worker carries, and a cancellation on its
way to the queue, are already justified (`Justified`). `FirstComeFirstServed` is proved about a
step from `OnePlace`: no task is in the queue twice, so positions order tasks.

**Publication.** The fence is what a generation was bound at (`FenceIsBound`), tokens are unique
(`TokensAreUnique`), a call in preparation owns the slot and carries the slot's manifest
(`SlotIsHeld`), and what it has loaded is the next version of the store and was verified against
that manifest (`PreparedIsNext`). That makes a late failure of a displaced call harmless: its
token is older than the slot's. `ManagedOnly` rules out a reload between a preparation and its
activation, which would take the version that the candidate was prepared for. The refinement
maps each action to `Propose`, `Release`, `Reload` or a stutter of `ReleaseRegister`.

**Durable publication.** `SuccessIsDurable` is about every entry that a crash may leave, and
becomes inductive with `OutputIsNewest`: the ranks number the publications, and the entry in
memory is at least as new as any run that is between its rename and the fsync of the directory,
which is the moment `possible` shrinks to that entry. `EntriesAreWhole` rests on
`WritersAreSound`: a run that has not published is no entry, and one that may publish is
flushed.

**Rolling release.** A replica that keeps running only goes forward: a candidate is newer than
what is served (`CandidateIsNewer`), so activation raises the generation. Hence what a publisher
once observed is still served or was superseded (`ObservedIsServed`), and two observations of a
replica with one generation are of one release (`ReportsAgree`): this is where rival publishers
with one generation are told apart. `StaleIsBehind` follows one replica beyond a stale
publisher's release: its fence never falls while nothing restarts.

**HNSW graph.** The argument is about the index that a rollback would leave at each step of an
insertion (`UndoneLinks`, `UndoneMap`, ...): it is the index from before (`UndoneIsBefore`), so
that `AllOrNothing` is immediate and a rollback restores a sound index. The lists in use are
mutual up to two named exceptions (`LinksInProgress`): links of the new node that are still to
be returned, and links of the node being pruned whose other end has been cut;
`PruningInProgress` says which. When nothing is left to do both are empty, and `Commit` leaves a
sound index.

**HNSW loader, safety.** `LoadIInv` follows what the loader has checked so far, whatever is in
the file: the header is within its limits and is kept (`HeaderIsKept`), each table that was read
has as many entries as the header counts (`TablesAreSound`), each list that was read is sound on
its own (`GraphIsSound`), and after the checks of the whole graph the lists are sound together
(`GraphIsChecked`). `LinksAreRead` bounds memory: each list is reserved before it is read, but
only when its length fits in what is left of the declared payload, so IDs, vectors and all links
together stay within it.

**HNSW loader, identity.** `LoadedIsSaved` says that damage, renames and rewrites during a load
never mix two indexes. The invariant `SavedIInv` has the loader in step with *every* index whose
file the cells read so far begin (`LoadAgrees`): the cells determine where in the file the
loader is and what it has built. When it reaches the checksum, the stored sum is that of a saved
index (`SumsAreSaved`, unless a foreign program wrote), equality makes the cells those of that
index's file, and being in step makes the loaded index that index. For the other direction, a
load that nobody disturbs stays on a prefix of a saved file (`CleanIsKept`), and on such a
prefix no check of the loader fails, because saved indexes are sound and their sizes fit.

**HNSW search.** `SearchIInv` has a part for each loop. The descent stays on nodes of its layer
(`DescentIsSound`). A layer search has seen only what can be reached from its start, and as long
as it has found fewer than `ef` nodes it has dropped nothing (`LayerIsSound`, `NothingDropped`):
every admissible node seen is a result, and every link of a node taken from the queue was
followed or is about to be. When the queue is empty in that state, what was visited is closed
under links, which is all that can be reached; otherwise there are `ef` results. `ResultIsSound`
and `PlanIsSound` carry this to what is returned and to what `select_neighbors` picks, for the
diverse and the nearest selection.

**Batch searcher.** A task is in one place (`OneHolder`), its future is pending until it has run
(`FuturesAreKept`), and a call that collects knows which of its futures are set (`CallersKnow`).

**Vector store.** The lock excludes (`LockExcludes`), a writer's local state agrees with the
index (`WriterLocals`), and no search that can see the index has seen part of a request in
progress (`SeenBefore`).

**Flat index.** `RowsAgree` follows the map to the rows; a swap-and-pop also goes from the last
row to its map entry, so `MapInvertsRows` needs both directions. From it each action is one of
`VectorMap` on the mapped content. `SearchIsExact` is an argument about one scan: after each row
the heap holds the best of the rows so far, as many as `k` allows, in order; the order is total
because the IDs of rows differ.

**Flat build tool.** `BuildIInv` keeps that the rows are exactly the records read,
in order (`GivenIsStored`), and that the file is the one saved or one cell away from it
(`FileIsWritten`); the verification tells these apart, with the comparison of the dimension where the checksum does
not reach. `ParseIInv` knows, of every line that describes a record and that the tokens so far
begin, what the cursor has of it (`HasRead`); and conversely that the tokens begin such a line
unless the cursor can no longer complete one (`Hopeless`). The bound `Fed` on the length of
lists takes part in the second half, as the lines are those of at most `Dimension` numbers;
`Dimension` is any positive number.

**Server.** Main, monitor and gRPC server are in matching places (`PlacesAgree`): the monitor
closes the server before its last step and main leaves after it. The options that were accepted
rule out the reloads that would replace a managed snapshot (`OptionsHold`). What is served is the
configured file or, above its generation, what an accepted release was bound to (`StoreHolds`):
a proposal is above what is served, so it cannot change what that was accepted with, and an
activation only goes up from there. Each counter is the number of calls that ended with its code
(`CountsAgree`); the summary is written when the server is closed, and then no call runs.

Assumptions. The constants are only required to be what the code makes of them: positive
capacities and thread counts, finite sets where the code has collections that are counted, at
least two connections per node, numbered generations. `None`, `NoTask`, `Absent` and `Previous`,
which stand for the absence of a value, are assumed not to be values (`NoneAssumption`,
`CodesAssumption`, `RunsAssumption`, ...), and the tokens of a line to differ
(`TokensAssumption`). Words are ordered as the types of the code are (`WordsAssumption`), the
snapshots that are saved are sound indexes (`SnapshotsAssumption`, section 2), searches have
whole-numbered queries (`SearchesAssumption`), and in the flat index scores are 0 to n - 1, the
number of the unit vector's axis (`ScoresAssumption`), and numbers of the input can be IDs
(`NumbersAssumption`). TLC evaluates every assumption in the runs.

Only model-checked is liveness (`AdmittedIsCollected`, `ShutdownReturns`, `SlotIsReleased`,
`CallsReturn`, `CancelledSearchReturns`, `SearchEnds`, `StopIsObeyed`, `NoReloadLost`): it needs
fairness and `ENABLED`, which the prover does not support.

## 6. Not modelled

- Floating-point kernels and rounding: vectors are IDs, scores or unit vectors with whole
  components, and unit length is exact.
- Byte order, field widths and hash collisions of the file formats: a number is a cell and a
  checksum names its content. Overflow is modelled for the HNSW format; the flat format has the
  same checked arithmetic.
- Recall of an HNSW search and connectivity of the graph, which the code does not promise.
- The searches of an HNSW insertion and its writes are two modules, joined by
  `PlanIsSelectable`: both together are out of TLC's reach.
- `last_attempt`, timings, byte counts and RSS in the publication status, latency
  histograms, log texts, the two duration totals of the executor: written, never read back.
- The recall report, characters inside JSON keys and numbers, option values that constrain
  nothing else, embedding and manifest scripts, demos, benchmarks, deployment files,
  generated protocol code.
- Failures inside the reporting of a failure (`rejected`, `fail`), and temporary names that
  two runs share.

## 7. State of the development

The models of all parts listed in section 2 are complete, and every safety property of the runs
is proved. What the proofs leave to TLC is liveness. What is outside the models is in section 6;
the widest gap among these is between the searches of an HNSW insertion and its writes, which
are joined by `PlanIsSelectable` and not by one model, and floating point, of which only the
order of scores is used.
