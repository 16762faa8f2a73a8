--------------------------- MODULE BatchSearcher ---------------------------
(***************************************************************************)
(* The worker pool for ordered batch queries (src/src/batch_searcher.cpp): *)
(* callers that submit one task per query and wait for all of them, the    *)
(* workers, and the destructor.                                            *)
(*                                                                         *)
(* A task holds references into the stack frame of the search() call that  *)
(* submitted it, so the frame has to outlive it.  A critical section of    *)
(* mutex_ is one action.  The destructor runs when no search() is active,  *)
(* as the documentation requires.                                          *)
(***************************************************************************)
EXTENDS Naturals, Sequences, FiniteSets

CONSTANTS
    Callers,        \* threads, each with one call of search()
    NumQueries,     \* query_count of every call
    NumThreads      \* thread_count

ASSUME SizesAssumption == NumQueries \in Nat \ {0} /\ NumThreads \in Nat \ {0}

Threads == 1..NumThreads
QueryNumbers == 1..NumQueries
Tasks == Callers \X QueryNumbers
NoTask == <<>>

VARIABLES
    stopping,   \* stopping_
    queue,      \* work_queue_
    worker,     \* what each worker does
    task,       \* the task each worker runs
    caller,     \* where each search() call is
    next,       \* the query it submits next, then the completion it waits for
    future,     \* the state of each task's future
    failure,    \* the calls that hold a first_error
    owner       \* where the thread that destroys the pool is

batchVars == <<stopping, queue, worker, task, caller, next, future, failure, owner>>

\* Type invariant.
BatchTypeOK ==
    /\ stopping \in BOOLEAN
    /\ queue \in Seq(Tasks)
    /\ worker \in [Threads -> {"acquire", "waiting", "running", "exited"}]
    /\ task \in [Threads -> Tasks \union {NoTask}]
    /\ caller \in [Callers -> {"idle", "submitting", "notify", "collecting", "returned", "failed", "aborted"}]
    /\ next \in [Callers -> 1..(NumQueries + 1)]
    /\ future \in [Tasks -> {"pending", "value", "error"}]
    /\ failure \subseteq Callers
    /\ owner \in {"using", "notify", "joining", "destroyed"}

\* The constructor has started every thread; if one cannot be started, the
\* others are joined and there is no pool.
BatchInit ==
    /\ stopping = FALSE
    /\ queue = <<>>
    /\ worker = [w \in Threads |-> "acquire"]
    /\ task = [w \in Threads |-> NoTask]
    /\ caller = [c \in Callers |-> "idle"]
    /\ next = [c \in Callers |-> 1]
    /\ future = [t \in Tasks |-> "pending"]
    /\ failure = {}
    /\ owner = "using"

Waiting == {w \in Threads : worker[w] = "waiting"}
Active == {c \in Callers : caller[c] \in {"submitting", "notify", "collecting"}}

-----------------------------------------------------------------------------
(* search() *)

Call(c) ==
    /\ owner = "using"
    /\ caller[c] = "idle"
    /\ caller' = [caller EXCEPT ![c] = "submitting"]
    /\ UNCHANGED <<stopping, queue, worker, task, next, future, failure, owner>>

HasQuery(c) == next[c] <= NumQueries

\* submit(): push under the mutex.
Submit(c) ==
    /\ caller[c] = "submitting"
    /\ HasQuery(c)
    /\ ~stopping
    /\ queue' = Append(queue, <<c, next[c]>>)
    /\ caller' = [caller EXCEPT ![c] = "notify"]
    /\ UNCHANGED <<stopping, worker, task, next, future, failure, owner>>

\* Mutation: nobody is woken.
NotifyNobody(c) ==
    /\ caller[c] = "notify"
    /\ next' = [next EXCEPT ![c] = @ + 1]
    /\ caller' = [caller EXCEPT ![c] = "submitting"]
    /\ UNCHANGED <<stopping, queue, worker, task, future, failure, owner>>

\* notify_one() outside the mutex, then the next query.
Notify(c) ==
    /\ caller[c] = "notify"
    /\ \/ \E w \in Waiting : worker' = [worker EXCEPT ![w] = "acquire"]
       \/ Waiting = {} /\ worker' = worker
    /\ next' = [next EXCEPT ![c] = @ + 1]
    /\ caller' = [caller EXCEPT ![c] = "submitting"]
    /\ UNCHANGED <<stopping, queue, task, future, failure, owner>>

\* submit() cannot allocate: search() unwinds and waits for nothing.
Abort(c) ==
    /\ caller[c] = "submitting"
    /\ HasQuery(c)
    /\ caller' = [caller EXCEPT ![c] = "aborted"]
    /\ UNCHANGED <<stopping, queue, worker, task, next, future, failure, owner>>

StartCollecting(c) ==
    /\ caller[c] = "submitting"
    /\ ~HasQuery(c)
    /\ caller' = [caller EXCEPT ![c] = "collecting"]
    /\ next' = [next EXCEPT ![c] = 1]
    /\ UNCHANGED <<stopping, queue, worker, task, future, failure, owner>>

\* first_error after the next completion.
Failures(c) == IF future[<<c, next[c]>>] = "error" THEN failure \union {c} ELSE failure

\* completion.get(): an error is kept, and the loop goes on.
Collect(c) ==
    /\ caller[c] = "collecting"
    /\ next[c] <= NumQueries
    /\ future[<<c, next[c]>>] # "pending"
    /\ failure' = Failures(c)
    /\ next' = [next EXCEPT ![c] = @ + 1]
    /\ UNCHANGED <<stopping, queue, worker, task, caller, future, owner>>

\* Mutation: the first error is rethrown at once.
CollectedOrFailed(c) == next[c] > NumQueries \/ c \in failure

\* The loop over the completions is over.
Collected(c) == next[c] > NumQueries

Return(c) ==
    /\ caller[c] = "collecting"
    /\ Collected(c)
    /\ caller' = [caller EXCEPT ![c] = IF c \in failure THEN "failed" ELSE "returned"]
    /\ UNCHANGED <<stopping, queue, worker, task, next, future, failure, owner>>

-----------------------------------------------------------------------------
(* The workers *)

Wait(w) ==
    /\ worker[w] = "acquire"
    /\ ~stopping /\ queue = <<>>
    /\ worker' = [worker EXCEPT ![w] = "waiting"]
    /\ UNCHANGED <<stopping, queue, task, caller, next, future, failure, owner>>

Wake(w) ==
    /\ worker[w] = "waiting"
    /\ worker' = [worker EXCEPT ![w] = "acquire"]
    /\ UNCHANGED <<stopping, queue, task, caller, next, future, failure, owner>>

Take(w) ==
    /\ worker[w] = "acquire"
    /\ queue # <<>>
    /\ task' = [task EXCEPT ![w] = Head(queue)]
    /\ queue' = Tail(queue)
    /\ worker' = [worker EXCEPT ![w] = "running"]
    /\ UNCHANGED <<stopping, caller, next, future, failure, owner>>

\* index_.search writes results[query_index], or throws into the future.
Run(w) ==
    /\ worker[w] = "running"
    /\ \E f \in {"value", "error"} : future' = [future EXCEPT ![task[w]] = f]
    /\ task' = [task EXCEPT ![w] = NoTask]
    /\ worker' = [worker EXCEPT ![w] = "acquire"]
    /\ UNCHANGED <<stopping, queue, caller, next, failure, owner>>

MayExit == stopping /\ queue = <<>>

Exit(w) ==
    /\ worker[w] = "acquire"
    /\ MayExit
    /\ worker' = [worker EXCEPT ![w] = "exited"]
    /\ UNCHANGED <<stopping, queue, task, caller, next, future, failure, owner>>

-----------------------------------------------------------------------------
(* The destructor *)

Destroy ==
    /\ owner = "using"
    /\ Active = {}
    /\ stopping' = TRUE
    /\ owner' = "notify"
    /\ UNCHANGED <<queue, worker, task, caller, next, future, failure>>

WokenAll == [w \in Threads |-> IF worker[w] = "waiting" THEN "acquire" ELSE worker[w]]

NotifyAll ==
    /\ owner = "notify"
    /\ worker' = WokenAll
    /\ owner' = "joining"
    /\ UNCHANGED <<stopping, queue, task, caller, next, future, failure>>

Join ==
    /\ owner = "joining"
    /\ \A w \in Threads : worker[w] = "exited"
    /\ owner' = "destroyed"
    /\ UNCHANGED <<stopping, queue, worker, task, caller, next, future, failure>>

-----------------------------------------------------------------------------

Caller(c) == Submit(c) \/ Notify(c) \/ StartCollecting(c) \/ Collect(c) \/ Return(c)
Worker(w) == Wait(w) \/ Take(w) \/ Run(w) \/ Exit(w)

BatchNext ==
    \/ \E c \in Callers : Call(c) \/ Caller(c) \/ Abort(c)
    \/ \E w \in Threads : Worker(w) \/ Wake(w)
    \/ Destroy \/ NotifyAll \/ Join

BatchSpec == BatchInit /\ [][BatchNext]_batchVars

\* Threads that can run do.  Nothing is assumed of new calls, of failures, of
\* the time of destruction and of spurious wake-ups.
BatchFairSpec ==
    /\ BatchSpec
    /\ \A c \in Callers : WF_batchVars(Caller(c))
    /\ \A w \in Threads : WF_batchVars(Worker(w))
    /\ WF_batchVars(NotifyAll \/ Join)

-----------------------------------------------------------------------------

InQueue(t) == \E i \in 1..Len(queue) : queue[i] = t

\* No task outlives the frame it writes to: a call returns, also with an
\* error, only when none of its tasks is queued or running.  The exception is
\* a call whose submission failed half way, which waits for nothing.
FramesOutliveTasks ==
    \A t \in Tasks :
        InQueue(t) \/ (\E w \in Threads : task[w] = t) => t[1] \in Active \/ caller[t[1]] = "aborted"

\* The state is well typed; a call that returns has every result, and one that
\* fails saw an error.
AnswersAreComplete ==
    /\ BatchTypeOK
    /\ \A c \in Callers :
          /\ caller[c] = "returned" => \A q \in QueryNumbers : future[<<c, q>>] = "value"
          /\ caller[c] = "failed" => \E q \in QueryNumbers : future[<<c, q>>] = "error"

\* When a call returns, nothing of it is left to run, and its answer is complete.
ReturnsAreFinal == FramesOutliveTasks /\ AnswersAreComplete

\* Every call returns, and so does the destructor: no wake-up is lost and no
\* worker leaves while there is work.
CallsReturn ==
    /\ \A c \in Callers : c \in Active ~> c \notin Active
    /\ owner = "notify" ~> owner = "destroyed"
=============================================================================
