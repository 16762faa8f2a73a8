--------------------------- MODULE SearchExecutor ---------------------------
(***************************************************************************)
(* The bounded FIFO search scheduler (src/src/search_executor.cpp) with    *)
(* its worker threads, the handler threads that submit, poll and cancel    *)
(* tasks, and the owner threads that construct, stop and join it.          *)
(*                                                                         *)
(* A critical section of mutex_ is one action.  What the code does outside *)
(* the mutex is a step of its own: notify_one and notify_all, the CAS in   *)
(* SearchCancellation::request, the check at dispatch, the search itself,  *)
(* and the waits.  A deadline passes at any time (Expire).  Not modelled:  *)
(* the two duration totals, and the query, its neighbours and k.           *)
(***************************************************************************)
EXTENDS Naturals, Sequences, FiniteSets, SequencesExt

CONSTANTS
    Tasks,          \* every search a handler will ever submit
    Deadlined,      \* the tasks whose RPC carries a deadline
    NumWorkers,     \* config.workers
    QueueCapacity,  \* config.queue_capacity
    Owners,         \* threads that call stop() or shutdown()
    Constructor,    \* the owner that runs the constructor
    NoTask          \* an empty slot of active_

ASSUME TasksAssumption == IsFiniteSet(Tasks) /\ Deadlined \subseteq Tasks /\ NoTask \notin Tasks
ASSUME LimitsAssumption == NumWorkers \in Nat \ {0} /\ QueueCapacity \in Nat \ {0}
ASSUME OwnersAssumption == Constructor \in Owners

Workers == 1..NumWorkers

\* SearchStopReason without None, and the codes a promise may be set with.
StopReasons == {"Cancelled", "DeadlineExceeded", "Shutdown"}
Results == StopReasons \union {"Ok", "Error"}

VARIABLES
    stopping,   \* stopping_
    queue,      \* queue_: the waiting tasks in FIFO order
    active,     \* active_: the task each worker runs, or NoTask
    stats,      \* stats_
    reason,     \* SearchCancellation::reason_ of each task
    late,       \* the tasks whose deadline has passed
    outcome,    \* what each task's promise was set to, "Pending" before
    handler,    \* where the thread that owns each task is
    worker,     \* where each worker thread is
    result,     \* the outcome each worker carries to its last critical section
    owner,      \* where each owner thread is
    spawned,    \* how many workers the constructor has started
    holder      \* the owner that holds shutdown_mutex_, or NoTask

vars == <<stopping, queue, active, stats, reason, late, outcome, handler,
          worker, result, owner, spawned, holder>>

Counters == {"queued", "running", "peak_queued", "peak_running", "admitted", "rejected",
             "started", "completed", "succeeded", "failed", "cancelled", "expired"}

HandlerStates == {"fresh", "notify", "ticket", "polled", "cancelling", "collected", "rejected"}
WorkerStates == {"unborn", "acquire", "waiting", "checking", "starting", "searching",
                 "finish", "exited"}
OwnerStates == {"spawning", "unwind", "unwindNotify", "unwindJoin", "thrown",
                "idle", "notify", "entered", "enteredNotify", "joining", "joined"}

\* Type invariant.
TypeOK ==
    /\ stopping \in BOOLEAN
    /\ queue \in Seq(Tasks)
    /\ active \in [Workers -> Tasks \union {NoTask}]
    /\ stats \in [Counters -> Nat]
    /\ reason \in [Tasks -> StopReasons \union {"None"}]
    /\ late \subseteq Deadlined
    /\ outcome \in [Tasks -> Results \union {"Pending"}]
    /\ handler \in [Tasks -> HandlerStates]
    /\ worker \in [Workers -> WorkerStates]
    /\ result \in [Workers -> Results \union {"Pending"}]
    /\ owner \in [Owners -> OwnerStates]
    /\ spawned \in 0..NumWorkers
    /\ holder \in Owners \union {NoTask}

Init ==
    /\ stopping = FALSE
    /\ queue = <<>>
    /\ active = [w \in Workers |-> NoTask]
    /\ stats = [c \in Counters |-> 0]
    /\ reason = [t \in Tasks |-> "None"]
    /\ late = {}
    /\ outcome = [t \in Tasks |-> "Pending"]
    /\ handler = [t \in Tasks |-> "fresh"]
    /\ worker = [w \in Workers |-> "unborn"]
    /\ result = [w \in Workers |-> "Pending"]
    /\ owner = [o \in Owners |-> IF o = Constructor THEN "spawning" ELSE "idle"]
    /\ spawned = 0
    /\ holder = NoTask

-----------------------------------------------------------------------------
(* Helpers *)

Larger(a, b) == IF a >= b THEN a ELSE b

\* The constructor returned, so other threads can hold the executor.
Built == spawned = NumWorkers

Waiting == {w \in Workers : worker[w] = "waiting"}

\* Mutation: a later request overwrites the reason.
LastRequestWins(rs, S, r) == [t \in Tasks |-> IF t \in S THEN r ELSE rs[t]]

\* SearchCancellation::request on the tasks of S: a compare-exchange from None.
Request(rs, S, r) == [t \in Tasks |-> IF t \in S /\ rs[t] = "None" THEN r ELSE rs[t]]

\* SearchContext::check: does it throw for t, and with which reason.
Interrupted(t) == reason[t] # "None" \/ t \in late
StopCode(rs, t) == IF rs[t] # "None" THEN rs[t] ELSE "DeadlineExceeded"

\* The counter that a task ending with r belongs to.
Ending(r) == IF r = "Ok" THEN "succeeded"
             ELSE IF r = "Error" THEN "failed"
             ELSE IF r = "DeadlineExceeded" THEN "expired" ELSE "cancelled"

\* Mutation: a task that ends in an error is left out of the total.
FinishMissesErrors(s, r) ==
    [s EXCEPT !["completed"] = IF r = "Error" THEN @ ELSE @ + 1, ![Ending(r)] = @ + 1]

\* The counters of finish_locked for one task that ends with r.
FinishLocked(s, r) == [s EXCEPT !["completed"] = @ + 1, ![Ending(r)] = @ + 1]

\* The counters after stop() drained q, whose tasks end with the reasons rs.
Overdue(q, rs) == {i \in 1..Len(q) : rs[q[i]] = "DeadlineExceeded"}
FinishDrained(s, q, rs) ==
    [s EXCEPT !["queued"] = 0,
              !["completed"] = @ + Len(q),
              !["expired"] = @ + Cardinality(Overdue(q, rs)),
              !["cancelled"] = @ + (Len(q) - Cardinality(Overdue(q, rs)))]

-----------------------------------------------------------------------------
(* The constructor: workers start one by one; if a thread cannot be        *)
(* created, it stops, joins the ones that run, and rethrows.               *)

Spawn ==
    /\ owner[Constructor] = "spawning"
    /\ spawned < NumWorkers
    /\ spawned' = spawned + 1
    /\ worker' = [worker EXCEPT ![spawned + 1] = "acquire"]
    /\ owner' = [owner EXCEPT ![Constructor] = IF spawned + 1 = NumWorkers THEN "idle" ELSE @]
    /\ UNCHANGED <<stopping, queue, active, stats, reason, late, outcome, handler, result, holder>>

SpawnFails ==
    /\ owner[Constructor] = "spawning"
    /\ owner' = [owner EXCEPT ![Constructor] = "unwind"]
    /\ UNCHANGED <<stopping, queue, active, stats, reason, late, outcome, handler,
                   worker, result, spawned, holder>>

-----------------------------------------------------------------------------
(* Handler threads: submit, poll, cancel and collect *)

\* Mutation: the capacity test is off by one.
AdmissibleOneOver == ~stopping /\ Len(queue) <= QueueCapacity

Admissible == ~stopping /\ Len(queue) < QueueCapacity

\* Mutation: only the push onto an empty queue is announced.
NotifyWhenEmpty(q) == IF q = <<>> THEN "notify" ELSE "ticket"

\* Mutation: a push is not announced.
NotifyNever(q) == "ticket"

\* After the push, submit() leaves the mutex and calls notify_one.
AfterPush(q) == "notify"

SubmitAccept(t) ==
    /\ Built
    /\ handler[t] = "fresh"
    /\ Admissible
    /\ queue' = Append(queue, t)
    /\ stats' = [stats EXCEPT !["admitted"] = @ + 1,
                              !["queued"] = Len(queue) + 1,
                              !["peak_queued"] = Larger(@, Len(queue) + 1)]
    /\ handler' = [handler EXCEPT ![t] = AfterPush(queue)]
    /\ UNCHANGED <<stopping, active, reason, late, outcome, worker, result, owner, spawned, holder>>

SubmitReject(t) ==
    /\ Built
    /\ handler[t] = "fresh"
    /\ ~Admissible
    /\ stats' = [stats EXCEPT !["rejected"] = @ + 1]
    /\ handler' = [handler EXCEPT ![t] = "rejected"]
    /\ UNCHANGED <<stopping, queue, active, reason, late, outcome, worker, result, owner,
                   spawned, holder>>

\* ready_.notify_one(): wakes one waiter if there is one, else it has no effect.
NotifyOne(t) ==
    /\ handler[t] = "notify"
    /\ handler' = [handler EXCEPT ![t] = "ticket"]
    /\ \/ \E w \in Waiting : worker' = [worker EXCEPT ![w] = "acquire"]
       \/ Waiting = {} /\ worker' = worker
    /\ UNCHANGED <<stopping, queue, active, stats, reason, late, outcome, result, owner,
                   spawned, holder>>

\* future.wait_for timed out and the RPC is cancelled: the handler will cancel.
PollCancelled(t) ==
    /\ handler[t] = "ticket"
    /\ outcome[t] = "Pending"
    /\ handler' = [handler EXCEPT ![t] = "polled"]
    /\ UNCHANGED <<stopping, queue, active, stats, reason, late, outcome, worker, result, owner,
                   spawned, holder>>

\* cancel(), before the mutex.  The handler's own clock picks the reason.
CancelRequest(t, r) ==
    /\ handler[t] = "polled"
    /\ r = "Cancelled" \/ (r = "DeadlineExceeded" /\ t \in Deadlined)
    /\ reason' = Request(reason, {t}, r)
    /\ handler' = [handler EXCEPT ![t] = "cancelling"]
    /\ UNCHANGED <<stopping, queue, active, stats, late, outcome, worker, result, owner,
                   spawned, holder>>

\* Mutation: the task is cancelled where it stands and stays in the queue.
LeaveInQueue(q, i) == q

\* queue_.erase(found)
Erase(q, i) == RemoveAt(q, i)

\* cancel(), under the mutex: a waiting task leaves the queue and settles now.
CancelRemove(t) ==
    /\ handler[t] = "cancelling"
    /\ handler' = [handler EXCEPT ![t] = "ticket"]
    /\ \/ \E i \in 1..Len(queue) :
             /\ queue[i] = t
             /\ queue' = Erase(queue, i)
             /\ stats' = [FinishLocked(stats, StopCode(reason, t))
                             EXCEPT !["queued"] = Len(queue) - 1]
             /\ outcome' = [outcome EXCEPT ![t] = StopCode(reason, t)]
       \/ /\ \A i \in 1..Len(queue) : queue[i] # t
          /\ UNCHANGED <<queue, stats, outcome>>
    /\ UNCHANGED <<stopping, active, reason, late, worker, result, owner, spawned, holder>>

\* future.get()
Collect(t) ==
    /\ handler[t] = "ticket"
    /\ outcome[t] # "Pending"
    /\ handler' = [handler EXCEPT ![t] = "collected"]
    /\ UNCHANGED <<stopping, queue, active, stats, reason, late, outcome, worker, result, owner,
                   spawned, holder>>

\* The steady clock reaches the deadline of an admitted, unsettled task.
Expire(t) ==
    /\ t \in Deadlined \ late
    /\ handler[t] \notin {"fresh", "rejected"}
    /\ outcome[t] = "Pending"
    /\ late' = late \union {t}
    /\ UNCHANGED <<stopping, queue, active, stats, reason, outcome, handler, worker, result, owner,
                   spawned, holder>>

-----------------------------------------------------------------------------
(* Owner threads: stop() and shutdown() *)

\* Mutation: stop() drains the queue but signals no active task.
OnlyQueued == {t \in Tasks : \E i \in 1..Len(queue) : queue[i] = t}

\* The tasks that stop() requests Shutdown of: the active ones, then the queued.
Stopped == {t \in Tasks : \/ \E w \in Workers : active[w] = t
                         \/ \E i \in 1..Len(queue) : queue[i] = t}

\* The critical section of stop(), when it is the first.
StopBody ==
    /\ stopping' = TRUE
    /\ reason' = Request(reason, Stopped, "Shutdown")
    /\ queue' = <<>>
    /\ stats' = FinishDrained(stats, queue, reason')
    /\ outcome' = [t \in Tasks |-> IF \E i \in 1..Len(queue) : queue[i] = t
                                   THEN StopCode(reason', t) ELSE outcome[t]]

\* stop() called on its own; a call that finds stopping_ set does nothing.
CallStop(o) ==
    /\ Built
    /\ owner[o] = "idle"
    /\ ~stopping
    /\ StopBody
    /\ owner' = [owner EXCEPT ![o] = "notify"]
    /\ UNCHANGED <<active, late, handler, worker, result, spawned, holder>>

EnterShutdown(o) ==
    /\ Built
    /\ owner[o] = "idle"
    /\ holder = NoTask
    /\ holder' = o
    /\ owner' = [owner EXCEPT ![o] = "entered"]
    /\ UNCHANGED <<stopping, queue, active, stats, reason, late, outcome, handler, worker, result,
                   spawned>>

\* stop() inside shutdown() or inside the constructor's catch block.
NestedStop(o) ==
    /\ owner[o] \in {"entered", "unwind"}
    /\ \/ /\ ~stopping
          /\ StopBody
          /\ owner' = [owner EXCEPT ![o] = IF @ = "unwind" THEN "unwindNotify" ELSE "enteredNotify"]
       \/ /\ stopping
          /\ owner' = [owner EXCEPT ![o] = IF @ = "unwind" THEN "unwindJoin" ELSE "joining"]
          /\ UNCHANGED <<stopping, queue, stats, reason, outcome>>
    /\ UNCHANGED <<active, late, handler, worker, result, spawned, holder>>

\* Mutation: stop() wakes a single worker.
WakeOne(ws) == IF Waiting = {} THEN ws ELSE [ws EXCEPT ![CHOOSE w \in Waiting : TRUE] = "acquire"]

WakeAll(ws) == [w \in Workers |-> IF ws[w] = "waiting" THEN "acquire" ELSE ws[w]]

\* ready_.notify_all(), outside the mutex.
NotifyAll(o) ==
    /\ owner[o] \in {"notify", "enteredNotify", "unwindNotify"}
    /\ worker' = WakeAll(worker)
    /\ owner' = [owner EXCEPT ![o] = CASE @ = "notify" -> "idle"
                                       [] @ = "enteredNotify" -> "joining"
                                       [] OTHER -> "unwindJoin"]
    /\ UNCHANGED <<stopping, queue, active, stats, reason, late, outcome, handler, result,
                   spawned, holder>>

\* Mutation: the joins are skipped.
JoinableAny == TRUE

\* Every started worker has left run(), so worker.join() returns for each.
Joinable == \A w \in 1..spawned : worker[w] = "exited"

\* Every started worker has been joined; shutdown_mutex_ is released.
JoinAll(o) ==
    /\ owner[o] \in {"joining", "unwindJoin"}
    /\ Joinable
    /\ owner' = [owner EXCEPT ![o] = IF @ = "joining" THEN "joined" ELSE "thrown"]
    /\ holder' = IF owner[o] = "joining" THEN NoTask ELSE holder
    /\ UNCHANGED <<stopping, queue, active, stats, reason, late, outcome, handler, worker, result,
                   spawned>>

-----------------------------------------------------------------------------
(* Worker threads: run() *)

\* The wait predicate is false: release the mutex and sleep.
WaitForWork(w) ==
    /\ worker[w] = "acquire"
    /\ ~stopping
    /\ queue = <<>>
    /\ worker' = [worker EXCEPT ![w] = "waiting"]
    /\ UNCHANGED <<stopping, queue, active, stats, reason, late, outcome, handler, result, owner,
                   spawned, holder>>

SpuriousWake(w) ==
    /\ worker[w] = "waiting"
    /\ worker' = [worker EXCEPT ![w] = "acquire"]
    /\ UNCHANGED <<stopping, queue, active, stats, reason, late, outcome, handler, result, owner,
                   spawned, holder>>

\* Mutation: the newest task is taken.
DequeueNewest(w) ==
    /\ worker[w] = "acquire"
    /\ queue # <<>>
    /\ queue' = Front(queue)
    /\ active' = [active EXCEPT ![w] = Last(queue)]
    /\ stats' = [stats EXCEPT !["queued"] = Len(queue) - 1,
                              !["running"] = @ + 1,
                              !["peak_running"] = Larger(@, stats.running + 1)]
    /\ worker' = [worker EXCEPT ![w] = "checking"]
    /\ UNCHANGED <<stopping, reason, late, outcome, handler, result, owner, spawned, holder>>

Dequeue(w) ==
    /\ worker[w] = "acquire"
    /\ queue # <<>>
    /\ queue' = Tail(queue)
    /\ active' = [active EXCEPT ![w] = Head(queue)]
    /\ stats' = [stats EXCEPT !["queued"] = Len(queue) - 1,
                              !["running"] = @ + 1,
                              !["peak_running"] = Larger(@, stats.running + 1)]
    /\ worker' = [worker EXCEPT ![w] = "checking"]
    /\ UNCHANGED <<stopping, reason, late, outcome, handler, result, owner, spawned, holder>>

ExitLoop(w) ==
    /\ worker[w] = "acquire"
    /\ stopping
    /\ queue = <<>>
    /\ worker' = [worker EXCEPT ![w] = "exited"]
    /\ UNCHANGED <<stopping, queue, active, stats, reason, late, outcome, handler, result, owner,
                   spawned, holder>>

\* context.check() after the dequeue, outside the mutex.
CheckAtDispatch(w) ==
    /\ worker[w] = "checking"
    /\ \/ /\ Interrupted(active[w])
          /\ result' = [result EXCEPT ![w] = StopCode(reason, active[w])]
          /\ worker' = [worker EXCEPT ![w] = "finish"]
       \/ /\ ~Interrupted(active[w])
          /\ worker' = [worker EXCEPT ![w] = "starting"]
          /\ result' = result
    /\ UNCHANGED <<stopping, queue, active, stats, reason, late, outcome, handler, owner,
                   spawned, holder>>

MarkStarted(w) ==
    /\ worker[w] = "starting"
    /\ stats' = [stats EXCEPT !["started"] = @ + 1]
    /\ worker' = [worker EXCEPT ![w] = "searching"]
    /\ UNCHANGED <<stopping, queue, active, reason, late, outcome, handler, result, owner,
                   spawned, holder>>

\* How store_->search(...) can end: an index error at any time, an interrupt at
\* one of its checks, or success if its last check passes.
SearchResults(t) ==
    {"Error"} \union (IF Interrupted(t) THEN {StopCode(reason, t)} ELSE {"Ok"})

Search(w) ==
    /\ worker[w] = "searching"
    /\ \E r \in SearchResults(active[w]) : result' = [result EXCEPT ![w] = r]
    /\ worker' = [worker EXCEPT ![w] = "finish"]
    /\ UNCHANGED <<stopping, queue, active, stats, reason, late, outcome, handler, owner,
                   spawned, holder>>

Finish(w) ==
    /\ worker[w] = "finish"
    /\ active' = [active EXCEPT ![w] = NoTask]
    /\ stats' = [FinishLocked(stats, result[w]) EXCEPT !["running"] = @ - 1]
    /\ outcome' = [outcome EXCEPT ![active[w]] = result[w]]
    /\ result' = [result EXCEPT ![w] = "Pending"]
    /\ worker' = [worker EXCEPT ![w] = "acquire"]
    /\ UNCHANGED <<stopping, queue, reason, late, handler, owner, spawned, holder>>

-----------------------------------------------------------------------------

\* The steps a handler takes by itself once its task is admitted.
HandlerStep(t) ==
    \/ NotifyOne(t) \/ (\E r \in StopReasons : CancelRequest(t, r)) \/ CancelRemove(t) \/ Collect(t)

Handler(t) ==
    SubmitAccept(t) \/ SubmitReject(t) \/ PollCancelled(t) \/ HandlerStep(t) \/ Expire(t)

Owner(o) == CallStop(o) \/ EnterShutdown(o) \/ NestedStop(o) \/ NotifyAll(o) \/ JoinAll(o)

\* The steps a started worker takes by itself.
WorkerStep(w) ==
    \/ WaitForWork(w) \/ Dequeue(w) \/ ExitLoop(w)
    \/ CheckAtDispatch(w) \/ MarkStarted(w) \/ Search(w) \/ Finish(w)

Next ==
    \/ Spawn \/ SpawnFails
    \/ \E t \in Tasks : Handler(t)
    \/ \E o \in Owners : Owner(o)
    \/ \E w \in Workers : WorkerStep(w) \/ SpuriousWake(w)

Spec == Init /\ [][Next]_vars

\* A thread that can run is eventually run and eventually gets a mutex, and a
\* search ends.  Nothing is assumed of arrivals, cancellations, deadlines,
\* calls of stop() and shutdown(), or spurious wake-ups.
Fairness ==
    /\ WF_vars(Spawn)
    /\ \A t \in Tasks : WF_vars(HandlerStep(t))
    /\ \A o \in Owners : WF_vars(NestedStop(o) \/ NotifyAll(o) \/ JoinAll(o))
    /\ \A w \in Workers : WF_vars(WorkerStep(w))

FairSpec == Spec /\ Fairness

-----------------------------------------------------------------------------
(* Safety *)

\* The counters published by stats() always agree with the queue and the
\* workers, and no task is lost between them: every admitted task is waiting,
\* running or completed, and a completed one has exactly one kind of ending
\* (docs/service_concurrency.md, the two accounting identities).
Conservation ==
    /\ stats.queued = Len(queue)
    /\ stats.running = Cardinality({w \in Workers : active[w] # NoTask})
    /\ stats.admitted = stats.queued + stats.running + stats.completed
    /\ stats.completed = stats.succeeded + stats.failed + stats.cancelled + stats.expired

\* The state is well typed, so no counter went below zero, and the counters
\* agree with it.
Accounted == TypeOK /\ Conservation

\* The queue never holds more than queue_capacity tasks and never more than
\* one task per worker runs, also at the recorded peaks.
Bounded ==
    /\ Len(queue) <= QueueCapacity
    /\ stats.peak_queued <= QueueCapacity
    /\ stats.peak_running <= NumWorkers

\* A task is in exactly one place.  Each admitted task without an outcome is
\* either once in the queue or held by one worker, so no promise is dropped,
\* and a task that settled or never entered is in neither.
InQueue(t) == \E i \in 1..Len(queue) : queue[i] = t
Running(t) == \E w \in Workers : active[w] = t
OnePlace ==
    /\ \A i, j \in 1..Len(queue) : queue[i] = queue[j] => i = j
    /\ \A v, w \in Workers : active[v] = active[w] /\ active[v] # NoTask => v = w
    /\ \A t \in Tasks :
          /\ ~(InQueue(t) /\ Running(t))
          /\ (InQueue(t) \/ Running(t)) <=>
                (handler[t] \notin {"fresh", "rejected"} /\ outcome[t] = "Pending")

\* Once stop() has run, nothing waits and every task a worker still holds has
\* been told to stop, so shutdown() cannot wait for an uninterrupted search,
\* whichever cancellations, deadlines and dequeues raced it.
StopReachesEveryTask ==
    stopping => /\ queue = <<>>
                /\ \A w \in Workers : active[w] # NoTask => reason[active[w]] # "None"

\* No wake-up is lost: while some worker sleeps, every queued task is matched
\* by a worker about to take the mutex or a notify_one still to come; and after
\* stop() a sleeping worker still has a notify_all coming.
Notifying == {t \in Tasks : handler[t] = "notify"}
Acquiring == {w \in Workers : worker[w] = "acquire"}
NoLostWakeup ==
    Waiting # {} =>
        /\ Len(queue) <= Cardinality(Notifying) + Cardinality(Acquiring)
        /\ stopping => \E o \in Owners : owner[o] \in {"notify", "enteredNotify", "unwindNotify"}

\* Whatever ended a task is what its promise says: an interrupted task carries
\* the first reason requested or, if there is none, its own passed deadline.
OutcomeIsJustified ==
    \A t \in Tasks :
        outcome[t] \in StopReasons =>
            \/ outcome[t] = reason[t]
            \/ outcome[t] = "DeadlineExceeded" /\ t \in late

\* shutdown() returns only after every worker has left run() and every admitted
\* task has its outcome, so destroying the executor breaks no promise.
JoinedMeansQuiet ==
    \A o \in Owners : owner[o] \in {"joined", "thrown"} =>
        /\ \A w \in Workers : worker[w] \in {"unborn", "exited"}
        /\ \A t \in Tasks : handler[t] \notin {"fresh", "rejected"} => outcome[t] # "Pending"

-----------------------------------------------------------------------------
(* Action properties *)

\* A promise is set once, and a cancellation reason once it is set never
\* changes ("the first cancellation reason wins").
SettledOnce ==
    [][\A t \in Tasks : /\ outcome[t] # "Pending" => outcome'[t] = outcome[t]
                        /\ reason[t] # "None" => reason'[t] = reason[t]]_vars

\* First come, first served, also around cancellations: tasks never overtake
\* each other in the queue, and none is dispatched before one it waits behind.
Precedes(q, t, u) == \E i, j \in 1..Len(q) : i < j /\ q[i] = t /\ q[j] = u
FirstComeFirstServed ==
    [][\A t, u \in Tasks : Precedes(queue, t, u) =>
          /\ InQueue(t)' /\ InQueue(u)' => Precedes(queue', t, u)
          /\ Running(u)' => ~InQueue(t)']_vars

-----------------------------------------------------------------------------
(* Liveness, under Fairness *)

\* Every admitted task receives its outcome and its handler collects it.
AdmittedIsCollected ==
    \A t \in Tasks : handler[t] \notin {"fresh", "rejected"} ~> handler[t] = "collected"

\* A call of shutdown() returns, and a failed construction is rethrown.
ShutdownReturns ==
    \A o \in Owners : /\ owner[o] = "entered" ~> owner[o] = "joined"
                      /\ owner[o] = "unwind" ~> owner[o] = "thrown"
=============================================================================
