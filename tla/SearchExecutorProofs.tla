------------------------ MODULE SearchExecutorProofs ------------------------
EXTENDS SearchExecutor, FiniteSetTheorems, SequenceTheorems, TLAPS

\* A worker holds a task exactly between its dequeue and its last critical section,
\* and carries a result exactly in front of that section.
Busy == {"checking", "starting", "searching", "finish"}
WorkerLocals ==
    \A w \in Workers : /\ active[w] # NoTask <=> worker[w] \in Busy
                       /\ result[w] # "Pending" <=> worker[w] = "finish"
                       /\ worker[w] = "unborn" <=> w > spawned

BusyWorkers == {w \in Workers : active[w] # NoTask}

\* There are NumWorkers worker threads (the vector workers_).
LEMMA WorkersFinite == IsFiniteSet(Workers) /\ Cardinality(Workers) = NumWorkers
BY LimitsAssumption, FS_Interval DEF Workers

\* At most NumWorkers workers hold a task, so stats_.running is a bounded count.
LEMMA BusyWorkersFinite ==
  IsFiniteSet(BusyWorkers) /\ Cardinality(BusyWorkers) \in Nat /\ Cardinality(BusyWorkers) <= NumWorkers
BY WorkersFinite, FS_Subset, FS_CardinalityType DEF BusyWorkers

\* What cancel() leaves of the queue when it erases position i: the length is
\* one less, and the other tasks are there, in the same order.
LEMMA RemoveAtProps ==
  ASSUME NEW S, NEW s \in Seq(S), NEW i \in 1..Len(s)
  PROVE /\ RemoveAt(s, i) \in Seq(S)
        /\ Len(RemoveAt(s, i)) = Len(s) - 1
        /\ \A j \in 1..Len(s)-1 : RemoveAt(s, i)[j] = IF j < i THEN s[j] ELSE s[j+1]
<1> DEFINE a == SubSeq(s, 1, i-1)
           b == SubSeq(s, i+1, Len(s))
<1>1. a \in Seq(S) /\ Len(a) = i - 1 /\ \A j \in 1..i-1 : a[j] = s[j]
  OBVIOUS
<1>2. b \in Seq(S) /\ Len(b) = Len(s) - i /\ \A j \in 1..Len(s)-i : b[j] = s[i+j]
  OBVIOUS
<1>3. RemoveAt(s, i) = a \o b
  BY DEF RemoveAt
<1> HIDE DEF a, b
<1>4. a \o b \in Seq(S) /\ Len(a \o b) = Len(s) - 1
  <2>1. a \o b \in Seq(S) /\ Len(a \o b) = Len(a) + Len(b)
    BY <1>1, <1>2, ConcatProperties, Zenon
  <2> QED BY <1>1, <1>2, <2>1
<1>5. \A j \in 1..Len(s)-1 : (a \o b)[j] = IF j < i THEN s[j] ELSE s[j+1]
  BY <1>1, <1>2
<1> QED BY <1>3, <1>4, <1>5

\* Every step of run(), and every wake-up, keeps a worker's place in line with
\* its slot of active_ and with the outcome it carries.
LEMMA WorkerLocalsStep ==
  ASSUME TypeOK, WorkerLocals, [Next]_vars
  PROVE WorkerLocals'
<1> USE TasksAssumption DEF TypeOK, WorkerLocals, Busy, Results, StopReasons
<1>1. CASE Spawn
  BY <1>1, LimitsAssumption DEF Spawn, Workers
<1>2. CASE SpawnFails
  BY <1>2 DEF SpawnFails
<1>3. ASSUME NEW t \in Tasks, Handler(t) PROVE WorkerLocals'
  <2>1. CASE NotifyOne(t)
    BY <2>1 DEF NotifyOne, Waiting
  <2>2. CASE ~NotifyOne(t)
    BY <1>3, <2>2 DEF Handler, HandlerStep, SubmitAccept, SubmitReject, PollCancelled, CancelRequest,
       CancelRemove, Collect, Expire
  <2> QED BY <2>1, <2>2
<1>4. ASSUME NEW o \in Owners, Owner(o) PROVE WorkerLocals'
  <2>1. CASE NotifyAll(o)
    BY <2>1 DEF NotifyAll, WakeAll
  <2>2. CASE ~NotifyAll(o)
    BY <1>4, <2>2 DEF Owner, CallStop, EnterShutdown, NestedStop, JoinAll
  <2> QED BY <2>1, <2>2
<1>5. ASSUME NEW w \in Workers, WaitForWork(w) \/ ExitLoop(w) \/ SpuriousWake(w) \/ MarkStarted(w) PROVE WorkerLocals'
  BY <1>5 DEF WaitForWork, ExitLoop, SpuriousWake, MarkStarted
<1>6. ASSUME NEW w \in Workers, Dequeue(w) PROVE WorkerLocals'
  BY <1>6 DEF Dequeue
<1>7. ASSUME NEW w \in Workers, CheckAtDispatch(w) PROVE WorkerLocals'
  <2>1. CASE Interrupted(active[w])
    <3>1. StopCode(reason, active[w]) \in Results
      BY <1>7 DEF CheckAtDispatch, StopCode
    <3> QED BY <1>7, <2>1, <3>1 DEF CheckAtDispatch
  <2>2. CASE ~Interrupted(active[w])
    BY <1>7, <2>2 DEF CheckAtDispatch
  <2> QED BY <2>1, <2>2
<1>8. ASSUME NEW w \in Workers, Search(w) PROVE WorkerLocals'
  BY <1>8 DEF Search, SearchResults, StopCode
<1>9. ASSUME NEW w \in Workers, Finish(w) PROVE WorkerLocals'
  BY <1>9 DEF Finish
<1>10. CASE UNCHANGED vars
  BY <1>10 DEF vars
<1> QED BY <1>1, <1>2, <1>3, <1>4, <1>5, <1>6, <1>7, <1>8, <1>9, <1>10 DEF Next, WorkerStep

\* No more of the tasks that stop() drains are counted as expired than there are,
\* so what is left for the cancelled counter is not negative.
LEMMA DrainCounts ==
  ASSUME TypeOK, NEW rs \in [Tasks -> StopReasons \union {"None"}]
  PROVE  /\ Cardinality(Overdue(queue, rs)) \in Nat
         /\ Cardinality(Overdue(queue, rs)) <= Len(queue)
<1>1. Len(queue) \in Nat
  BY DEF TypeOK
<1>2. IsFiniteSet(1..Len(queue)) /\ Cardinality(1..Len(queue)) = Len(queue)
  <2>1. ASSUME NEW n \in Nat PROVE IsFiniteSet(1..n) /\ Cardinality(1..n) = n
    BY FS_Interval
  <2> QED BY <1>1, <2>1
<1>3. Overdue(queue, rs) \subseteq 1..Len(queue)
  BY DEF Overdue
<1> QED BY <1>2, <1>3, FS_Subset, FS_CardinalityType

\* SearchCancellation::request leaves every reason_ a stop reason or None.
LEMMA RequestType ==
  ASSUME TypeOK, NEW S, NEW r \in StopReasons
  PROVE  Request(reason, S, r) \in [Tasks -> StopReasons \union {"None"}]
BY DEF TypeOK, Request

\* finish_locked keeps the counters natural numbers.
LEMMA FinishLockedType ==
  ASSUME NEW s \in [Counters -> Nat], NEW r
  PROVE  FinishLocked(s, r) \in [Counters -> Nat]
BY DEF Counters, FinishLocked, Ending

\* The drain in stop() keeps the counters natural numbers.
LEMMA FinishDrainedType ==
  ASSUME TypeOK, NEW rs \in [Tasks -> StopReasons \union {"None"}]
  PROVE  FinishDrained(stats, queue, rs) \in [Counters -> Nat]
<1> DEFINE c == Cardinality(Overdue(queue, rs))
           n == Len(queue)
<1>1. c \in Nat /\ c <= n /\ n \in Nat
  BY DrainCounts DEF TypeOK
<1>2. FinishDrained(stats, queue, rs) =
        [stats EXCEPT !["queued"] = 0, !["completed"] = @ + n, !["expired"] = @ + c,
                      !["cancelled"] = @ + (n - c)]
  BY DEF FinishDrained
<1>3. stats \in [Counters -> Nat]
  BY DEF TypeOK
<1> HIDE DEF c, n
<1> QED BY <1>1, <1>2, <1>3 DEF Counters

\* The critical section of stop() keeps what it assigns well typed.
LEMMA StopBodyType ==
  ASSUME TypeOK, StopBody
  PROVE  /\ stopping' \in BOOLEAN
         /\ queue' \in Seq(Tasks)
         /\ stats' \in [Counters -> Nat]
         /\ reason' \in [Tasks -> StopReasons \union {"None"}]
         /\ outcome' \in [Tasks -> Results \union {"Pending"}]
<1>1. reason' \in [Tasks -> StopReasons \union {"None"}]
  BY RequestType DEF StopBody, StopReasons
<1>2. stats' \in [Counters -> Nat]
  BY <1>1, FinishDrainedType DEF StopBody
<1>3. \A t \in Tasks : StopCode(reason', t) \in StopReasons
  BY <1>1 DEF StopCode, StopReasons
<1> QED BY <1>1, <1>2, <1>3 DEF StopBody, TypeOK, Results

\* Every step of the scheduler keeps the state well typed.
LEMMA TypeStep ==
  ASSUME TypeOK, WorkerLocals, stats.running = Cardinality(BusyWorkers), [Next]_vars
  PROVE  TypeOK'
<1> USE TasksAssumption, OwnersAssumption
<1>0. stats \in [Counters -> Nat] /\ Len(queue) \in Nat
  BY DEF TypeOK
<1> USE DEF TypeOK
<1>1. CASE Spawn
  BY <1>1, LimitsAssumption DEF Spawn, Workers, WorkerStates, OwnerStates
<1>2. CASE SpawnFails
  BY <1>2 DEF SpawnFails, OwnerStates
<1>3. ASSUME NEW t \in Tasks, Handler(t) PROVE TypeOK'
  <2>1. CASE SubmitAccept(t)
    <3>1. stats' \in [Counters -> Nat]
      <4>1. /\ stats.admitted + 1 \in Nat /\ Len(queue) + 1 \in Nat
            /\ Larger(stats.peak_queued, Len(queue) + 1) \in Nat
        BY ONLY <1>0 DEF Counters, Larger
      <4> QED BY ONLY <1>0, <2>1, <4>1 DEF SubmitAccept, Counters
    <3>2. queue' \in Seq(Tasks)
      BY <2>1, AppendProperties DEF SubmitAccept
    <3>3. handler' \in [Tasks -> HandlerStates]
      BY <2>1 DEF SubmitAccept, HandlerStates, AfterPush
    <3> QED BY <2>1, <3>1, <3>2, <3>3 DEF SubmitAccept
  <2>2. CASE SubmitReject(t)
    <3>1. stats' \in [Counters -> Nat]
      <4>1. stats' = [stats EXCEPT !["rejected"] = @ + 1] /\ stats.rejected + 1 \in Nat
        BY ONLY <1>0, <2>2 DEF SubmitReject, Counters
      <4> QED BY ONLY <1>0, <4>1
    <3> QED BY <2>2, <3>1 DEF SubmitReject, HandlerStates
  <2>3. CASE NotifyOne(t)
    BY <2>3 DEF NotifyOne, Waiting, HandlerStates, WorkerStates
  <2>4. CASE PollCancelled(t) \/ Collect(t) \/ Expire(t)
    BY <2>4 DEF PollCancelled, Collect, Expire, HandlerStates
  <2>5. ASSUME NEW r \in StopReasons, CancelRequest(t, r) PROVE TypeOK'
    <3>1. reason' \in [Tasks -> StopReasons \union {"None"}]
      BY <2>5, RequestType DEF CancelRequest
    <3> QED BY <2>5, <3>1 DEF CancelRequest, HandlerStates
  <2>6. CASE CancelRemove(t)
    <3>1. CASE \A i \in 1..Len(queue) : queue[i] # t
      BY <2>6, <3>1 DEF CancelRemove, HandlerStates
    <3>2. ASSUME NEW i \in 1..Len(queue), queue[i] = t,
                 queue' = Erase(queue, i),
                 stats' = [FinishLocked(stats, StopCode(reason, t)) EXCEPT !["queued"] = Len(queue) - 1],
                 outcome' = [outcome EXCEPT ![t] = StopCode(reason, t)]
          PROVE TypeOK'
      <4>1. queue' \in Seq(Tasks) /\ Len(queue) - 1 \in Nat
        BY <3>2, RemoveAtProps DEF Erase
      <4>2. stats' \in [Counters -> Nat]
        BY <3>2, <4>1, FinishLockedType DEF Counters
      <4>3. outcome' \in [Tasks -> Results \union {"Pending"}]
        BY <3>2 DEF StopCode, Results, StopReasons
      <4> QED BY <2>6, <4>1, <4>2, <4>3 DEF CancelRemove, HandlerStates
    <3> QED BY <2>6, <3>1, <3>2 DEF CancelRemove
  <2> QED BY <1>3, <2>1, <2>2, <2>3, <2>4, <2>5, <2>6 DEF Handler, HandlerStep
<1>4. ASSUME NEW o \in Owners, Owner(o) PROVE TypeOK'
  <2>1. CASE CallStop(o)
    BY <2>1, StopBodyType DEF CallStop, OwnerStates
  <2>2. CASE EnterShutdown(o)
    BY <2>2 DEF EnterShutdown, OwnerStates
  <2>3. CASE NestedStop(o)
    <3>1. owner' \in [Owners -> OwnerStates]
      BY <2>3 DEF NestedStop, OwnerStates
    <3> QED BY <2>3, <3>1, StopBodyType DEF NestedStop
  <2>4. CASE NotifyAll(o)
    BY <2>4 DEF NotifyAll, WakeAll, OwnerStates, WorkerStates
  <2>5. CASE JoinAll(o)
    BY <2>5 DEF JoinAll, OwnerStates
  <2> QED BY <1>4, <2>1, <2>2, <2>3, <2>4, <2>5 DEF Owner
<1>5. ASSUME NEW w \in Workers, WaitForWork(w) \/ ExitLoop(w) \/ SpuriousWake(w) \/ MarkStarted(w)
      PROVE  TypeOK'
  <2>1. stats' \in [Counters -> Nat]
    BY ONLY <1>0, <1>5 DEF WaitForWork, ExitLoop, SpuriousWake, MarkStarted, Counters
  <2> QED BY <1>5, <2>1 DEF WaitForWork, ExitLoop, SpuriousWake, MarkStarted, WorkerStates
<1>6. ASSUME NEW w \in Workers, Dequeue(w) PROVE TypeOK'
  <2>1. queue' \in Seq(Tasks) /\ Head(queue) \in Tasks /\ Len(queue) - 1 \in Nat
    BY <1>6, HeadTailProperties DEF Dequeue
  <2>2. stats' \in [Counters -> Nat]
    <3>1. stats.running + 1 \in Nat /\ Larger(stats.peak_running, stats.running + 1) \in Nat
      BY <1>0 DEF Counters, Larger
    <3> QED BY ONLY <1>0, <1>6, <2>1, <3>1 DEF Dequeue, Counters
  <2> QED BY <1>6, <2>1, <2>2 DEF Dequeue, WorkerStates
<1>7. ASSUME NEW w \in Workers, CheckAtDispatch(w) PROVE TypeOK'
  <2>1. active[w] \in Tasks
    BY <1>7 DEF CheckAtDispatch, WorkerLocals, Busy
  <2>2. StopCode(reason, active[w]) \in Results
    BY <2>1 DEF StopCode, Results, StopReasons
  <2>3. result' \in [Workers -> Results \union {"Pending"}]
    BY <1>7, <2>2 DEF CheckAtDispatch
  <2>4. worker' \in [Workers -> WorkerStates]
    BY <1>7 DEF CheckAtDispatch, WorkerStates
  <2> QED BY <1>7, <2>3, <2>4 DEF CheckAtDispatch
<1>8. ASSUME NEW w \in Workers, Search(w) PROVE TypeOK'
  <2>1. active[w] \in Tasks
    BY <1>8 DEF Search, WorkerLocals, Busy
  <2>2. SearchResults(active[w]) \subseteq Results
    BY <2>1 DEF SearchResults, StopCode, Results, StopReasons
  <2>3. result' \in [Workers -> Results \union {"Pending"}]
    BY <1>8, <2>2 DEF Search
  <2>4. worker' \in [Workers -> WorkerStates]
    BY <1>8 DEF Search, WorkerStates
  <2> QED BY <1>8, <2>3, <2>4 DEF Search
<1>9. ASSUME NEW w \in Workers, Finish(w) PROVE TypeOK'
  <2>1. w \in BusyWorkers
    BY <1>9 DEF Finish, WorkerLocals, Busy, BusyWorkers
  <2>2. Cardinality(BusyWorkers) - 1 \in Nat
    <3>1. Cardinality(BusyWorkers) # 0
      BY <2>1, BusyWorkersFinite, FS_EmptySet
    <3> QED BY <3>1, BusyWorkersFinite
  <2>3. stats' \in [Counters -> Nat]
    <3>1. FinishLocked(stats, result[w]) \in [Counters -> Nat] /\ FinishLocked(stats, result[w]).running = stats.running
      BY FinishLockedType DEF FinishLocked, Counters, Ending
    <3> QED BY <1>9, <2>2, <3>1 DEF Finish, Counters
  <2> QED BY <1>9, <2>3 DEF Finish, WorkerStates
<1>10. CASE UNCHANGED vars
  BY <1>10 DEF vars
<1> QED BY <1>1, <1>2, <1>3, <1>4, <1>5, <1>6, <1>7, <1>8, <1>9, <1>10 DEF Next, WorkerStep

\* A dequeue adds one busy worker, matching ++stats_.running.
LEMMA BusyWorkersAdd ==
  ASSUME TypeOK, NEW w \in Workers, active[w] = NoTask, NEW t \in Tasks,
         active' = [active EXCEPT ![w] = t]
  PROVE  Cardinality(BusyWorkers') = Cardinality(BusyWorkers) + 1
<1>1. BusyWorkers' = BusyWorkers \union {w} /\ w \notin BusyWorkers
  BY TasksAssumption DEF BusyWorkers, TypeOK
<1> QED BY <1>1, BusyWorkersFinite, FS_AddElement

\* The end of a task removes one busy worker, matching --stats_.running.
LEMMA BusyWorkersRemove ==
  ASSUME TypeOK, NEW w \in Workers, active[w] # NoTask,
         active' = [active EXCEPT ![w] = NoTask]
  PROVE  Cardinality(BusyWorkers') = Cardinality(BusyWorkers) - 1
<1>1. BusyWorkers' = BusyWorkers \ {w} /\ w \in BusyWorkers
  BY DEF BusyWorkers, TypeOK
<1> QED BY <1>1, BusyWorkersFinite, FS_RemoveElement

\* The two accounting identities, as a predicate on a counter table.
Balanced(s) ==
    /\ s.admitted = s.queued + s.running + s.completed
    /\ s.completed = s.succeeded + s.failed + s.cancelled + s.expired

\* finish_locked moves one task to completed and to exactly one ending.
LEMMA FinishLockedEffect ==
  ASSUME NEW s \in [Counters -> Nat], NEW r, Balanced(s)
  PROVE  LET f == FinishLocked(s, r) IN
           /\ f \in [Counters -> Nat]
           /\ f.completed = s.completed + 1
           /\ f.completed = f.succeeded + f.failed + f.cancelled + f.expired
           /\ f.admitted = s.admitted /\ f.queued = s.queued /\ f.running = s.running
BY DEF Counters, FinishLocked, Ending, Balanced

\* Every step keeps the counters of stats() in agreement with the queue and the
\* workers; submit, cancel, stop, dequeue and finish are the ones that could not.
LEMMA ConservationStep ==
  ASSUME TypeOK, WorkerLocals, Conservation, [Next]_vars
  PROVE  Conservation'
<1>0. /\ stats \in [Counters -> Nat] /\ Len(queue) \in Nat
      /\ stats.queued = Len(queue)
      /\ stats.running = Cardinality(BusyWorkers)
      /\ Balanced(stats)
  BY DEF TypeOK, Conservation, BusyWorkers, Balanced
<1> DEFINE n == Len(queue)
<1>n. n = Len(queue)
  OBVIOUS
<1>b. stats \in [Counters -> Nat] /\ n \in Nat /\ stats.queued = n /\ Balanced(stats)
  BY <1>0
<1> HIDE DEF n
<1>1. ASSUME UNCHANGED <<queue, active, stats>> PROVE Conservation'
  BY <1>1 DEF Conservation
<1>2. ASSUME NEW t \in Tasks, SubmitAccept(t) PROVE Conservation'
  <2>1. Len(queue') = Len(queue) + 1
    BY <1>2, AppendProperties DEF SubmitAccept, TypeOK
  <2>2. BusyWorkers' = BusyWorkers
    BY <1>2 DEF SubmitAccept, BusyWorkers
  <2>3. /\ stats'.queued = stats.queued + 1 /\ stats'.running = stats.running
        /\ Balanced(stats')
    <3> DEFINE p == Larger(stats.peak_queued, n + 1)
    <3>1. stats' = [stats EXCEPT !["admitted"] = @ + 1, !["queued"] = n + 1, !["peak_queued"] = p]
      BY <1>2, <1>n DEF SubmitAccept
    <3> HIDE DEF p
    <3> QED BY ONLY <1>b, <3>1 DEF Counters, Balanced
  <2> QED BY <1>0, <1>n, <2>1, <2>2, <2>3 DEF Conservation, BusyWorkers, Balanced
<1>3. ASSUME NEW t \in Tasks, SubmitReject(t) PROVE Conservation'
  <2>1. UNCHANGED <<queue, active>>
    BY <1>3 DEF SubmitReject
  <2>2. stats'.queued = stats.queued /\ stats'.running = stats.running /\ Balanced(stats')
    BY ONLY <1>b, <1>3 DEF SubmitReject, Counters, Balanced
  <2> QED BY <1>0, <1>n, <2>1, <2>2 DEF Conservation, BusyWorkers, Balanced
<1>4. ASSUME NEW t \in Tasks, CancelRemove(t), \E i \in 1..Len(queue) : queue[i] = t
      PROVE  Conservation'
  <2>1. PICK i \in 1..Len(queue) :
          /\ queue' = Erase(queue, i)
          /\ stats' = [FinishLocked(stats, StopCode(reason, t)) EXCEPT !["queued"] = Len(queue) - 1]
    BY <1>4 DEF CancelRemove
  <2>2. Len(queue') = Len(queue) - 1
    BY <2>1, RemoveAtProps DEF Erase, TypeOK
  <2>4. /\ stats'.queued = n - 1 /\ stats'.running = stats.running
        /\ Balanced(stats')
    <3> DEFINE r == StopCode(reason, t)
    <3>1. stats' = [FinishLocked(stats, r) EXCEPT !["queued"] = n - 1] /\ n > 0
      BY <2>1, <1>n DEF TypeOK
    <3> HIDE DEF r
    <3> DEFINE s == FinishLocked(stats, r)
    <3>2. /\ s \in [Counters -> Nat] /\ s.queued = stats.queued /\ s.running = stats.running
          /\ s.admitted = stats.admitted /\ s.completed = stats.completed + 1
          /\ s.completed = s.succeeded + s.failed + s.cancelled + s.expired
      BY <1>b, FinishLockedEffect
    <3>3. stats' = [s EXCEPT !["queued"] = n - 1] /\ n > 0
      BY <3>1
    <3> HIDE DEF s
    <3>4. /\ stats'.queued = n - 1 /\ stats'.running = s.running /\ stats'.admitted = s.admitted
          /\ stats'.completed = s.completed /\ stats'.succeeded = s.succeeded
          /\ stats'.failed = s.failed /\ stats'.cancelled = s.cancelled
          /\ stats'.expired = s.expired
      BY ONLY <3>2, <3>3 DEF Counters
    <3>5. /\ stats.queued \in Nat /\ stats.running \in Nat /\ stats.completed \in Nat
          /\ stats.admitted \in Nat
      BY ONLY <1>b DEF Counters
    <3> QED BY ONLY <1>b, <3>2, <3>4, <3>5 DEF Balanced
  <2>5. active' = active
    BY <1>4 DEF CancelRemove
  <2> QED BY <1>0, <1>n, <2>2, <2>4, <2>5 DEF Conservation, BusyWorkers, Balanced
<1>5. ASSUME StopBody, active' = active PROVE Conservation'
  <2>1. reason' \in [Tasks -> StopReasons \union {"None"}] /\ Len(queue') = 0
    BY <1>5, StopBodyType DEF StopBody
  <2>2. /\ stats'.queued = 0 /\ stats'.running = stats.running
        /\ Balanced(stats')
    <3> DEFINE c == Cardinality(Overdue(queue, reason'))
    <3>1. c \in Nat /\ c <= n
      BY <2>1, <1>n, DrainCounts
    <3>2. stats' = [stats EXCEPT !["queued"] = 0, !["completed"] = @ + n, !["expired"] = @ + c,
                                 !["cancelled"] = @ + (n - c)]
      BY <1>5, <1>n DEF StopBody, FinishDrained
    <3> HIDE DEF c
    <3> QED BY ONLY <1>b, <3>1, <3>2 DEF Counters, Balanced
  <2> QED BY <1>0, <1>5, <2>1, <2>2 DEF Conservation, BusyWorkers, Balanced
<1>6. ASSUME NEW w \in Workers, Dequeue(w) PROVE Conservation'
  <2>1. Head(queue) \in Tasks /\ Len(queue') = Len(queue) - 1
    BY <1>6, HeadTailProperties DEF Dequeue, TypeOK
  <2>2. Cardinality(BusyWorkers') = Cardinality(BusyWorkers) + 1
    BY <1>6, <2>1, BusyWorkersAdd DEF Dequeue, WorkerLocals, Busy
  <2>3. /\ stats'.queued = n - 1 /\ stats'.running = stats.running + 1
        /\ Balanced(stats')
    <3> DEFINE p == Larger(stats.peak_running, stats.running + 1)
    <3>1. stats' = [stats EXCEPT !["queued"] = n - 1, !["running"] = @ + 1, !["peak_running"] = p]
      BY <1>6, <1>n DEF Dequeue
    <3>2. n > 0
      BY <1>6, <1>n DEF Dequeue, TypeOK
    <3> HIDE DEF p
    <3> QED BY ONLY <1>b, <3>1, <3>2 DEF Counters, Balanced
  <2> QED BY <1>0, <1>n, <2>1, <2>2, <2>3 DEF Conservation, BusyWorkers, Balanced
<1>7. ASSUME NEW w \in Workers, MarkStarted(w) PROVE Conservation'
  <2>1. UNCHANGED <<queue, active>>
    BY <1>7 DEF MarkStarted
  <2>2. stats'.queued = stats.queued /\ stats'.running = stats.running /\ Balanced(stats')
    BY ONLY <1>b, <1>7 DEF MarkStarted, Counters, Balanced
  <2> QED BY <1>0, <1>n, <2>1, <2>2 DEF Conservation, BusyWorkers, Balanced
<1>8. ASSUME NEW w \in Workers, Finish(w) PROVE Conservation'
  <2>1. Cardinality(BusyWorkers') = Cardinality(BusyWorkers) - 1 /\ queue' = queue
    BY <1>8, BusyWorkersRemove DEF Finish, WorkerLocals, Busy
  <2>2. stats.running > 0
    <3>1. w \in BusyWorkers
      BY <1>8 DEF Finish, WorkerLocals, Busy, BusyWorkers
    <3>2. Cardinality(BusyWorkers) # 0
      BY <3>1, BusyWorkersFinite, FS_EmptySet
    <3> QED BY <1>0, <3>2, BusyWorkersFinite
  <2>3. /\ stats'.queued = stats.queued /\ stats'.running = stats.running - 1
        /\ Balanced(stats')
    <3> DEFINE r == result[w]
    <3>1. stats' = [FinishLocked(stats, r) EXCEPT !["running"] = @ - 1]
      BY <1>8 DEF Finish
    <3> HIDE DEF r
    <3> QED BY ONLY <1>b, <2>2, <3>1 DEF Counters, Balanced, FinishLocked, Ending
  <2> QED BY <1>0, <1>n, <2>1, <2>3 DEF Conservation, BusyWorkers, Balanced
<1> QED
  <2>1. CASE Spawn \/ SpawnFails \/ UNCHANGED vars
    BY <2>1, <1>1 DEF Spawn, SpawnFails, vars
  <2>2. ASSUME NEW t \in Tasks, Handler(t) PROVE Conservation'
    BY <2>2, <1>1, <1>2, <1>3, <1>4 DEF Handler, HandlerStep, NotifyOne, PollCancelled, CancelRequest,
       CancelRemove, Collect, Expire
  <2>3. ASSUME NEW o \in Owners, Owner(o) PROVE Conservation'
    BY <2>3, <1>1, <1>5 DEF Owner, CallStop, EnterShutdown, NestedStop, NotifyAll, JoinAll
  <2>4. ASSUME NEW w \in Workers, WorkerStep(w) \/ SpuriousWake(w) PROVE Conservation'
    BY <2>4, <1>1, <1>6, <1>7, <1>8 DEF WorkerStep, SpuriousWake, WaitForWork, ExitLoop,
       CheckAtDispatch, Search
  <2> QED BY <2>1, <2>2, <2>3, <2>4 DEF Next, Conservation, BusyWorkers, Balanced

\* Every step keeps queue_ and the recorded peaks within the configured limits.
LEMMA BoundedStep ==
  ASSUME TypeOK, WorkerLocals, Conservation, Bounded, [Next]_vars
  PROVE  Bounded'
<1> USE LimitsAssumption
<1>0. stats \in [Counters -> Nat] /\ Len(queue) \in Nat
  BY DEF TypeOK
<1>1. ASSUME UNCHANGED <<queue, stats>> PROVE Bounded'
  BY <1>1 DEF Bounded
<1>2. ASSUME NEW t \in Tasks, SubmitAccept(t) PROVE Bounded'
  <2>1. Len(queue') = Len(queue) + 1 /\ Len(queue) < QueueCapacity
    BY <1>2, AppendProperties DEF SubmitAccept, Admissible, TypeOK
  <2>2. /\ stats'.peak_queued = Larger(stats.peak_queued, Len(queue) + 1)
        /\ stats'.peak_running = stats.peak_running
    BY ONLY <1>0, <1>2 DEF SubmitAccept, Counters
  <2>3. stats'.peak_queued <= QueueCapacity
    BY <1>0, <2>1, <2>2 DEF Larger, Bounded, Counters
  <2> QED BY <1>0, <2>1, <2>2, <2>3 DEF Bounded
<1>3. ASSUME NEW t \in Tasks, SubmitReject(t) PROVE Bounded'
  <2>1. stats'.peak_queued = stats.peak_queued /\ stats'.peak_running = stats.peak_running
    BY ONLY <1>0, <1>3 DEF SubmitReject, Counters
  <2> QED BY <1>3, <2>1 DEF Bounded, SubmitReject
<1>4. ASSUME NEW t \in Tasks, CancelRemove(t), \E i \in 1..Len(queue) : queue[i] = t
      PROVE  Bounded'
  <2>1. PICK i \in 1..Len(queue) :
          /\ queue' = Erase(queue, i)
          /\ stats' = [FinishLocked(stats, StopCode(reason, t)) EXCEPT !["queued"] = Len(queue) - 1]
    BY <1>4 DEF CancelRemove
  <2>2. Len(queue') = Len(queue) - 1
    BY <2>1, RemoveAtProps DEF Erase, TypeOK
  <2>3. stats'.peak_queued = stats.peak_queued /\ stats'.peak_running = stats.peak_running
    BY ONLY <1>0, <2>1 DEF FinishLocked, Ending, Counters
  <2> QED BY <1>0, <2>2, <2>3 DEF Bounded
<1>5. ASSUME StopBody PROVE Bounded'
  <2>1. stats'.peak_queued = stats.peak_queued /\ stats'.peak_running = stats.peak_running
    BY ONLY <1>0, <1>5 DEF StopBody, FinishDrained, Counters
  <2> QED BY <1>5, <2>1 DEF Bounded, StopBody
<1>6. ASSUME NEW w \in Workers, Dequeue(w) PROVE Bounded'
  <2>1. Head(queue) \in Tasks /\ Len(queue') = Len(queue) - 1
    BY <1>6, HeadTailProperties DEF Dequeue, TypeOK
  <2>2. stats.running + 1 <= NumWorkers
    <3>1. Cardinality(BusyWorkers') = Cardinality(BusyWorkers) + 1
      BY <1>6, <2>1, BusyWorkersAdd DEF Dequeue, WorkerLocals, Busy
    <3>2. Cardinality(BusyWorkers') <= NumWorkers
      <4>1. BusyWorkers' \subseteq Workers
        BY DEF BusyWorkers
      <4> QED BY <4>1, WorkersFinite, FS_Subset
    <3> QED BY <3>1, <3>2 DEF Conservation, BusyWorkers
  <2>3. /\ stats'.peak_queued = stats.peak_queued
        /\ stats'.peak_running = Larger(stats.peak_running, stats.running + 1)
    BY ONLY <1>0, <1>6 DEF Dequeue, Counters
  <2>4. Larger(stats.peak_running, stats.running + 1) <= NumWorkers
    BY <2>2 DEF Bounded, Larger
  <2> QED BY <1>0, <2>1, <2>3, <2>4 DEF Bounded, Counters
<1>7. ASSUME NEW w \in Workers, MarkStarted(w) PROVE Bounded'
  <2>1. stats'.peak_queued = stats.peak_queued /\ stats'.peak_running = stats.peak_running
    BY ONLY <1>0, <1>7 DEF MarkStarted, Counters
  <2> QED BY <1>7, <2>1 DEF Bounded, MarkStarted
<1>8. ASSUME NEW w \in Workers, Finish(w) PROVE Bounded'
  <2>1. stats'.peak_queued = stats.peak_queued /\ stats'.peak_running = stats.peak_running
    BY ONLY <1>0, <1>8 DEF Finish, FinishLocked, Ending, Counters
  <2> QED BY <1>8, <2>1 DEF Bounded, Finish
<1> QED
  <2>1. CASE Spawn \/ SpawnFails \/ UNCHANGED vars
    BY <2>1, <1>1 DEF Spawn, SpawnFails, vars
  <2>2. ASSUME NEW t \in Tasks, Handler(t) PROVE Bounded'
    BY <2>2, <1>1, <1>2, <1>3, <1>4 DEF Handler, HandlerStep, NotifyOne, PollCancelled, CancelRequest,
       CancelRemove, Collect, Expire
  <2>3. ASSUME NEW o \in Owners, Owner(o) PROVE Bounded'
    BY <2>3, <1>1, <1>5 DEF Owner, CallStop, EnterShutdown, NestedStop, NotifyAll, JoinAll
  <2>4. ASSUME NEW w \in Workers, WorkerStep(w) \/ SpuriousWake(w) PROVE Bounded'
    BY <2>4, <1>1, <1>6, <1>7, <1>8 DEF WorkerStep, SpuriousWake, WaitForWork, ExitLoop,
       CheckAtDispatch, Search
  <2> QED BY <2>1, <2>2, <2>3, <2>4 DEF Next

\* No step after stop() puts a task back in the queue or gives a worker a task
\* that was not told to stop.
LEMMA StopReachesStep ==
  ASSUME TypeOK, WorkerLocals, StopReachesEveryTask, [Next]_vars
  PROVE  StopReachesEveryTask'
<1> USE TasksAssumption DEF StopReachesEveryTask
<1>1. ASSUME UNCHANGED <<stopping, queue, active, reason>> PROVE StopReachesEveryTask'
  BY <1>1
<1>2. ASSUME NEW t \in Tasks, SubmitAccept(t) PROVE StopReachesEveryTask'
  BY <1>2 DEF SubmitAccept, Admissible
<1>3. ASSUME NEW t \in Tasks, NEW r \in StopReasons, CancelRequest(t, r)
      PROVE  StopReachesEveryTask'
  BY <1>3 DEF CancelRequest, Request, TypeOK
<1>4. ASSUME NEW t \in Tasks, CancelRemove(t) PROVE StopReachesEveryTask'
  <2>1. queue = <<>> => UNCHANGED queue
    BY <1>4 DEF CancelRemove
  <2> QED BY <1>4, <2>1 DEF CancelRemove
<1>5. ASSUME StopBody, active' = active PROVE StopReachesEveryTask'
  BY <1>5 DEF StopBody, Request, Stopped, TypeOK, StopReasons
<1>6. ASSUME NEW w \in Workers, Dequeue(w) PROVE StopReachesEveryTask'
  BY <1>6 DEF Dequeue
<1>7. ASSUME NEW w \in Workers, Finish(w) PROVE StopReachesEveryTask'
  BY <1>7 DEF Finish, TypeOK
<1> QED
  <2>1. CASE Spawn \/ SpawnFails \/ UNCHANGED vars
    BY <2>1, <1>1 DEF Spawn, SpawnFails, vars
  <2>2. ASSUME NEW t \in Tasks, Handler(t) PROVE StopReachesEveryTask'
    BY <2>2, <1>1, <1>2, <1>3, <1>4 DEF Handler, HandlerStep, SubmitReject, NotifyOne, PollCancelled, Collect, Expire
  <2>3. ASSUME NEW o \in Owners, Owner(o) PROVE StopReachesEveryTask'
    BY <2>3, <1>1, <1>5 DEF Owner, CallStop, EnterShutdown, NestedStop, NotifyAll, JoinAll
  <2>4. ASSUME NEW w \in Workers, WorkerStep(w) \/ SpuriousWake(w) PROVE StopReachesEveryTask'
    BY <2>4, <1>1, <1>6, <1>7 DEF WorkerStep, SpuriousWake, WaitForWork, ExitLoop,
       CheckAtDispatch, MarkStarted, Search
  <2> QED BY <2>1, <2>2, <2>3, <2>4 DEF Next

\* A task that was never admitted has no outcome.
NoOutcomeBefore == \A t \in Tasks : handler[t] \in {"fresh", "rejected"} => outcome[t] = "Pending"

DistinctQueue == \A i, j \in 1..Len(queue) : queue[i] = queue[j] => i = j
DistinctActive == \A v, w \in Workers : active[v] = active[w] /\ active[v] # NoTask => v = w
Placed(t) ==
    /\ ~(InQueue(t) /\ Running(t))
    /\ (InQueue(t) \/ Running(t)) <=>
          (handler[t] \notin {"fresh", "rejected"} /\ outcome[t] = "Pending")

\* OnePlace, split into the queue, the workers and the tasks.
LEMMA OnePlaceParts == OnePlace <=> DistinctQueue /\ DistinctActive /\ \A t \in Tasks : Placed(t)
BY DEF OnePlace, DistinctQueue, DistinctActive, Placed

\* Every step moves a task from one place to one other place: from its handler to
\* the queue, from there to a worker or, by cancel() or stop(), to its outcome.
LEMMA OnePlaceStep ==
  ASSUME TypeOK, WorkerLocals, OnePlace, NoOutcomeBefore, [Next]_vars
  PROVE  OnePlace' /\ NoOutcomeBefore'
<1> DEFINE Goal == OnePlace' /\ NoOutcomeBefore'
<1>0. DistinctQueue /\ DistinctActive /\ (\A t \in Tasks : Placed(t)) /\ queue \in Seq(Tasks) /\ Len(queue) \in Nat
  BY OnePlaceParts DEF TypeOK
<1> USE TasksAssumption
<1>1. ASSUME UNCHANGED <<queue, active, outcome>>, handler' \in [Tasks -> HandlerStates],
             \A t \in Tasks : handler'[t] \in {"fresh", "rejected"} <=> handler[t] \in {"fresh", "rejected"}
      PROVE  Goal
  BY <1>1 DEF OnePlace, NoOutcomeBefore, InQueue, Running
<1>2. ASSUME NEW t \in Tasks, SubmitAccept(t) PROVE Goal
  <2>1. /\ Len(queue') = Len(queue) + 1 /\ queue'[Len(queue) + 1] = t
        /\ \A i \in 1..Len(queue) : queue'[i] = queue[i]
    BY <1>0, <1>2, AppendProperties DEF SubmitAccept
  <2>2. ~InQueue(t) /\ ~Running(t) /\ outcome[t] = "Pending"
    BY <1>0, <1>2 DEF Placed, SubmitAccept, NoOutcomeBefore
  <2>3. \A u \in Tasks : InQueue(u)' <=> (InQueue(u) \/ u = t)
    BY <1>0, <2>1 DEF InQueue
  <2>4. DistinctQueue'
    BY <1>0, <2>1, <2>2 DEF DistinctQueue, InQueue
  <2>5. \A u \in Tasks : Running(u)' <=> Running(u)
    BY <1>2 DEF SubmitAccept, Running
  <2>6. DistinctActive'
    BY <1>0, <1>2 DEF SubmitAccept, DistinctActive
  <2>7. \A u \in Tasks : /\ outcome'[u] = outcome[u]
                         /\ u # t => handler'[u] = handler[u]
                         /\ handler'[t] = "notify"
    BY <1>2 DEF SubmitAccept, AfterPush, TypeOK
  <2>8. \A u \in Tasks : Placed(u)'
    BY <1>0, <2>2, <2>3, <2>5, <2>7 DEF Placed
  <2> QED BY <2>4, <2>6, <2>7, <2>8, OnePlaceParts DEF OnePlace, DistinctQueue, DistinctActive, Placed, NoOutcomeBefore
<1>3. ASSUME NEW t \in Tasks, CancelRemove(t), \E i \in 1..Len(queue) : queue[i] = t PROVE Goal
  <2>1. PICK i \in 1..Len(queue) :
          /\ queue[i] = t
          /\ queue' = Erase(queue, i)
          /\ outcome' = [outcome EXCEPT ![t] = StopCode(reason, t)]
    BY <1>3 DEF CancelRemove
  <2>2. /\ Len(queue') = Len(queue) - 1
        /\ \A j \in 1..Len(queue)-1 : queue'[j] = IF j < i THEN queue[j] ELSE queue[j+1]
    BY <1>0, <2>1, RemoveAtProps DEF Erase
  <2>3. \A u \in Tasks : InQueue(u)' <=> (InQueue(u) /\ u # t)
    <3>1. ASSUME NEW u \in Tasks, InQueue(u)' PROVE InQueue(u) /\ u # t
      BY <1>0, <2>1, <2>2, <3>1 DEF InQueue, DistinctQueue
    <3>2. ASSUME NEW u \in Tasks, InQueue(u), u # t PROVE InQueue(u)'
      <4>1. PICK k \in 1..Len(queue) : queue[k] = u
        BY <3>2 DEF InQueue
      <4>2. CASE k < i
        BY <1>0, <2>1, <2>2, <4>1, <4>2 DEF InQueue
      <4>3. CASE k > i
        <5>1. k - 1 \in 1..Len(queue') /\ queue'[k - 1] = u
          BY <1>0, <2>1, <2>2, <4>1, <4>3
        <5> QED BY <5>1 DEF InQueue
      <4> QED BY <2>1, <3>2, <4>1, <4>2, <4>3
    <3> QED BY <3>1, <3>2
  <2>4. DistinctQueue'
    BY <1>0, <2>1, <2>2 DEF DistinctQueue
  <2>5. (\A u \in Tasks : Running(u)' <=> Running(u)) /\ DistinctActive'
    BY <1>0, <1>3 DEF CancelRemove, Running, DistinctActive
  <2>6. /\ handler[t] = "cancelling" /\ handler'[t] = "ticket"
        /\ \A u \in Tasks : u # t => handler'[u] = handler[u] /\ outcome'[u] = outcome[u]
        /\ outcome'[t] # "Pending"
    BY <1>3, <2>1 DEF CancelRemove, TypeOK, StopCode, StopReasons
  <2>7. InQueue(t)
    BY <2>1 DEF InQueue
  <2>8. \A u \in Tasks : Placed(u)'
    BY <1>0, <2>3, <2>5, <2>6, <2>7 DEF Placed
  <2> QED BY <2>4, <2>5, <2>6, <2>8 DEF OnePlace, DistinctQueue, DistinctActive, Placed, NoOutcomeBefore
<1>4. ASSUME StopBody, UNCHANGED <<active, handler>> PROVE Goal
  <2>1. \A u \in Tasks : ~InQueue(u)' /\ (Running(u)' <=> Running(u))
    BY <1>4 DEF StopBody, InQueue, Running
  <2>2. DistinctQueue' /\ DistinctActive'
    BY <1>0, <1>4 DEF StopBody, DistinctQueue, DistinctActive
  <2>3. \A u \in Tasks : IF InQueue(u) THEN outcome'[u] # "Pending" ELSE outcome'[u] = outcome[u]
    <3>1. reason' \in [Tasks -> StopReasons \union {"None"}]
      BY <1>4, StopBodyType
    <3> QED BY <1>4, <3>1 DEF StopBody, InQueue, StopCode, StopReasons
  <2>4. \A u \in Tasks : Placed(u)'
    BY <1>0, <1>4, <2>1, <2>3 DEF Placed
  <2> QED BY <1>0, <1>4, <2>2, <2>3, <2>4 DEF OnePlace, DistinctQueue, DistinctActive, Placed, NoOutcomeBefore
<1>5. ASSUME NEW w \in Workers, Dequeue(w) PROVE Goal
  <2> DEFINE h == Head(queue)
  <2>1. /\ h = queue[1] /\ h \in Tasks /\ Len(queue') = Len(queue) - 1 /\ Len(queue) > 0
        /\ \A i \in 1..Len(queue)-1 : queue'[i] = queue[i+1]
    BY <1>0, <1>5, HeadTailProperties DEF Dequeue
  <2>2. active[w] = NoTask /\ active' = [active EXCEPT ![w] = h]
    BY <1>5 DEF Dequeue, WorkerLocals, Busy
  <2> HIDE DEF h
  <2>3. InQueue(h) /\ ~Running(h)
    <3>1. InQueue(h)
      BY <1>0, <2>1 DEF InQueue
    <3> QED BY <1>0, <2>1, <3>1 DEF Placed
  <2>4. \A u \in Tasks : InQueue(u)' <=> (InQueue(u) /\ u # h)
    <3>1. ASSUME NEW u \in Tasks, InQueue(u)' PROVE InQueue(u) /\ u # h
      BY <1>0, <2>1, <3>1 DEF InQueue, DistinctQueue
    <3>2. ASSUME NEW u \in Tasks, InQueue(u), u # h PROVE InQueue(u)'
      <4>1. PICK k \in 1..Len(queue) : queue[k] = u
        BY <3>2 DEF InQueue
      <4>2. k - 1 \in 1..Len(queue') /\ queue'[k - 1] = u
        BY <1>0, <2>1, <3>2, <4>1
      <4> QED BY <4>2 DEF InQueue
    <3> QED BY <3>1, <3>2
  <2>5. DistinctQueue'
    BY <1>0, <2>1 DEF DistinctQueue
  <2>6. \A u \in Tasks : Running(u)' <=> (Running(u) \/ u = h)
    BY <2>1, <2>2 DEF Running, TypeOK
  <2>7. DistinctActive'
    BY <1>0, <2>1, <2>2, <2>3 DEF DistinctActive, Running, TypeOK
  <2>8. UNCHANGED <<outcome, handler>>
    BY <1>5 DEF Dequeue
  <2>9. \A u \in Tasks : Placed(u)'
    BY <1>0, <2>3, <2>4, <2>6, <2>8 DEF Placed
  <2> QED BY <2>5, <2>7, <2>8, <2>9 DEF OnePlace, DistinctQueue, DistinctActive, Placed, NoOutcomeBefore
<1>6. ASSUME NEW w \in Workers, Finish(w) PROVE Goal
  <2> DEFINE a == active[w]
  <2>1. a \in Tasks /\ result[w] # "Pending"
    BY <1>6 DEF Finish, WorkerLocals, Busy, TypeOK
  <2>2. /\ active' = [active EXCEPT ![w] = NoTask] /\ queue' = queue /\ handler' = handler
        /\ outcome' = [outcome EXCEPT ![a] = result[w]]
    BY <1>6 DEF Finish
  <2>3. \A u \in Tasks : InQueue(u)' <=> InQueue(u)
    BY <2>2 DEF InQueue
  <2>4. \A u \in Tasks : Running(u)' <=> (Running(u) /\ u # a)
    BY <1>0, <2>1, <2>2 DEF Running, TypeOK, DistinctActive
  <2>5. DistinctQueue' /\ DistinctActive'
    BY <1>0, <2>2 DEF DistinctQueue, DistinctActive, TypeOK
  <2>6. Running(a)
    BY DEF Running
  <2>7. \A u \in Tasks : IF u = a THEN outcome'[u] # "Pending" ELSE outcome'[u] = outcome[u]
    BY <2>1, <2>2 DEF TypeOK
  <2> HIDE DEF a
  <2>8. \A u \in Tasks : Placed(u)'
    BY <1>0, <2>1, <2>2, <2>3, <2>4, <2>6, <2>7 DEF Placed
  <2>9. NoOutcomeBefore'
    BY <1>0, <2>1, <2>2, <2>6, <2>7 DEF NoOutcomeBefore, Placed
  <2> QED BY <2>5, <2>8, <2>9 DEF OnePlace, DistinctQueue, DistinctActive, Placed
<1> QED
  <2>1. CASE Spawn \/ SpawnFails \/ UNCHANGED vars
    BY <2>1, <1>1 DEF Spawn, SpawnFails, vars, TypeOK
  <2>2. ASSUME NEW t \in Tasks, Handler(t) PROVE Goal
    <3>1. CASE SubmitReject(t) \/ NotifyOne(t) \/ PollCancelled(t) \/ Collect(t) \/ Expire(t)
      <4>1. UNCHANGED <<queue, active, outcome>>
        BY <3>1 DEF SubmitReject, NotifyOne, PollCancelled, Collect, Expire
      <4>2. /\ handler' \in [Tasks -> HandlerStates]
            /\ \A u \in Tasks : handler'[u] \in {"fresh", "rejected"} <=> handler[u] \in {"fresh", "rejected"}
        BY <3>1 DEF SubmitReject, NotifyOne, PollCancelled, Collect, Expire, TypeOK, HandlerStates
      <4> HIDE DEF Goal
      <4> QED BY <1>1, <4>1, <4>2
    <3>2. ASSUME NEW r \in StopReasons, CancelRequest(t, r) PROVE Goal
      BY <3>2, <1>1 DEF CancelRequest, TypeOK, HandlerStates
    <3>3. CASE CancelRemove(t) /\ \A i \in 1..Len(queue) : queue[i] # t
      BY <3>3, <1>1 DEF CancelRemove, TypeOK, HandlerStates
    <3> QED BY <2>2, <1>2, <1>3, <3>1, <3>2, <3>3 DEF Handler, HandlerStep
  <2>3. ASSUME NEW o \in Owners, Owner(o) PROVE Goal
    BY <2>3, <1>1, <1>4 DEF Owner, CallStop, EnterShutdown, NestedStop, NotifyAll, JoinAll, TypeOK
  <2>4. ASSUME NEW w \in Workers, WorkerStep(w) \/ SpuriousWake(w) PROVE Goal
    BY <2>4, <1>1, <1>5, <1>6 DEF WorkerStep, SpuriousWake, WaitForWork, ExitLoop,
       CheckAtDispatch, MarkStarted, Search, TypeOK
  <2> QED BY <2>1, <2>2, <2>3, <2>4 DEF Next

\* The threads that can still react to a queued task are finitely many.
LEMMA AwakeFinite ==
  /\ IsFiniteSet(Notifying) /\ Cardinality(Notifying) \in Nat
  /\ IsFiniteSet(Acquiring) /\ Cardinality(Acquiring) \in Nat
BY TasksAssumption, WorkersFinite, FS_Subset, FS_CardinalityType DEF Notifying, Acquiring

\* The same in the next state.
LEMMA AwakeFinitePrimed ==
  /\ IsFiniteSet(Notifying') /\ Cardinality(Notifying') \in Nat
  /\ IsFiniteSet(Acquiring') /\ Cardinality(Acquiring') \in Nat
BY TasksAssumption, WorkersFinite, FS_Subset, FS_CardinalityType DEF Notifying, Acquiring

Matched == Len(queue) <= Cardinality(Notifying) + Cardinality(Acquiring)
NotifyAllComing == \E o \in Owners : owner[o] \in {"notify", "enteredNotify", "unwindNotify"}

\* NoLostWakeup, split into its claim on the queue and its claim on stop().
LEMMA NoLostWakeupParts ==
  NoLostWakeup <=> (Waiting # {} => Matched /\ (stopping => NotifyAllComing))
BY DEF NoLostWakeup, Matched, NotifyAllComing

\* More workers on their way to the mutex never hurt.
LEMMA MoreAcquiring ==
  ASSUME TypeOK, Matched, queue' = queue, Notifying' = Notifying, Acquiring \subseteq Acquiring'
  PROVE  Matched'
<1>1. Cardinality(Acquiring) <= Cardinality(Acquiring')
  BY AwakeFinitePrimed, FS_Subset
<1>2. Len(queue) \in Nat
  BY DEF TypeOK
<1> QED BY <1>1, <1>2, AwakeFinite, AwakeFinitePrimed DEF Matched

\* An empty queue needs no thread on its way to the mutex.
LEMMA EmptyIsMatched ==
  ASSUME queue' = <<>>
  PROVE  Matched'
<1>1. Len(queue') = 0
  BY EmptySeq
<1> QED BY <1>1, AwakeFinitePrimed DEF Matched

\* Every step keeps a thread on its way for each queued task while some worker
\* sleeps: a push brings its notify_one, a dequeue takes one task and one worker,
\* and a worker sleeps only when the predicate found the queue empty.
LEMMA WakeupStep ==
  ASSUME TypeOK, WorkerLocals, NoLostWakeup, [Next]_vars
  PROVE  NoLostWakeup'
<1> USE AwakeFinite, AwakeFinitePrimed
<1>0. /\ Waiting # {} => Matched /\ (stopping => NotifyAllComing)
      /\ queue \in Seq(Tasks) /\ Len(queue) \in Nat
  BY NoLostWakeupParts DEF TypeOK
<1> SUFFICES ASSUME Waiting' # {}
             PROVE  Matched' /\ (stopping' => NotifyAllComing')
  BY DEF NoLostWakeup, Matched, NotifyAllComing
<1> DEFINE Goal == Matched' /\ (stopping' => NotifyAllComing')
<1>1. CASE Spawn
  <2>1. Waiting' = Waiting /\ Acquiring \subseteq Acquiring' /\ Notifying' = Notifying
    BY <1>1, LimitsAssumption DEF Spawn, Waiting, Acquiring, Notifying, TypeOK, Workers, WorkerLocals
  <2>2. NotifyAllComing => NotifyAllComing'
    BY <1>1 DEF Spawn, NotifyAllComing, TypeOK
  <2>3. UNCHANGED <<queue, stopping>>
    BY <1>1 DEF Spawn
  <2> QED BY <1>0, <2>1, <2>2, <2>3, MoreAcquiring
<1>2. CASE SpawnFails
  <2>1. NotifyAllComing => NotifyAllComing'
    BY <1>2 DEF SpawnFails, NotifyAllComing, TypeOK
  <2> QED BY <1>0, <1>2, <2>1 DEF SpawnFails, Waiting, Matched, Acquiring, Notifying
<1>3. ASSUME NEW t \in Tasks, Handler(t) PROVE Goal
  <2>1. (Waiting # {} /\ stopping') => NotifyAllComing'
    BY <1>0, <1>3 DEF Handler, HandlerStep, SubmitAccept, SubmitReject, NotifyOne, PollCancelled, CancelRequest,
       CancelRemove, Collect, Expire, NotifyAllComing
  <2>2. CASE SubmitAccept(t)
    <3>1. Notifying' = Notifying \union {t} /\ t \notin Notifying
      BY <2>2 DEF SubmitAccept, AfterPush, Notifying, TypeOK
    <3>2. Cardinality(Notifying') = Cardinality(Notifying) + 1
      BY <3>1, FS_AddElement
    <3>3. Acquiring' = Acquiring /\ Waiting' = Waiting /\ Len(queue') = Len(queue) + 1
      BY <1>0, <2>2, AppendProperties DEF SubmitAccept, Acquiring, Waiting
    <3> QED BY <1>0, <2>1, <3>2, <3>3 DEF Matched
  <2>3. CASE NotifyOne(t)
    <3>1. PICK w \in Waiting : worker' = [worker EXCEPT ![w] = "acquire"]
      BY <2>3 DEF NotifyOne, Waiting
    <3>2. Notifying' = Notifying \ {t} /\ t \in Notifying
      BY <2>3 DEF NotifyOne, Notifying, TypeOK
    <3>3. Acquiring' = Acquiring \union {w} /\ w \notin Acquiring
      BY <3>1 DEF Acquiring, Waiting, TypeOK
    <3>4. Cardinality(Notifying') = Cardinality(Notifying) - 1
      BY <3>2, FS_RemoveElement
    <3>5. Cardinality(Acquiring') = Cardinality(Acquiring) + 1
      BY <3>3, FS_AddElement
    <3>6. queue' = queue
      BY <2>3 DEF NotifyOne
    <3> QED BY <1>0, <2>1, <3>1, <3>4, <3>5, <3>6 DEF Matched
  <2>4. CASE CancelRemove(t)
    <3>1. Len(queue') <= Len(queue) /\ Len(queue') \in Nat
      BY <1>0, <2>4, RemoveAtProps DEF CancelRemove, Erase
    <3>2. Notifying' = Notifying /\ Acquiring' = Acquiring /\ Waiting' = Waiting
      BY <2>4 DEF CancelRemove, Notifying, Acquiring, Waiting, TypeOK
    <3> QED BY <1>0, <2>1, <3>1, <3>2 DEF Matched
  <2>5. CASE SubmitReject(t) \/ PollCancelled(t) \/ Collect(t) \/ Expire(t)
             \/ \E r \in StopReasons : CancelRequest(t, r)
    <3>1. UNCHANGED <<queue, worker>> /\ Notifying' = Notifying
      BY <2>5 DEF SubmitReject, PollCancelled, Collect, Expire, CancelRequest, Notifying, TypeOK
    <3> QED BY <1>0, <2>1, <3>1 DEF Matched, Acquiring, Waiting
  <2> QED BY <1>3, <2>2, <2>3, <2>4, <2>5 DEF Handler, HandlerStep
<1>4. ASSUME NEW o \in Owners, Owner(o) PROVE Goal
  <2>1. ~NotifyAll(o)
    BY DEF NotifyAll, WakeAll, Waiting
  <2>2. UNCHANGED <<worker, handler>> /\ Waiting' = Waiting
    BY <1>4, <2>1 DEF Owner, CallStop, EnterShutdown, NestedStop, JoinAll, Waiting
  <2>3. queue' = queue \/ queue' = <<>>
    BY <1>4, <2>1 DEF Owner, CallStop, EnterShutdown, NestedStop, JoinAll, StopBody
  <2>4. Matched'
    BY <1>0, <2>2, <2>3, EmptyIsMatched DEF Matched, Notifying, Acquiring
  <2>5. stopping' => NotifyAllComing'
    <3>1. CASE CallStop(o)
      BY <3>1 DEF CallStop, NotifyAllComing, TypeOK
    <3>2. CASE NestedStop(o) /\ ~stopping
      BY <3>2 DEF NestedStop, NotifyAllComing, TypeOK
    <3>3. CASE (NestedStop(o) /\ stopping) \/ EnterShutdown(o) \/ JoinAll(o)
      <4>1. stopping' = stopping
        BY <3>3 DEF NestedStop, EnterShutdown, JoinAll
      <4>2. NotifyAllComing => NotifyAllComing'
        BY <3>3 DEF NestedStop, EnterShutdown, JoinAll, NotifyAllComing, TypeOK
      <4> QED BY <1>0, <2>2, <4>1, <4>2
    <3> QED BY <1>4, <2>1, <3>1, <3>2, <3>3 DEF Owner
  <2> QED BY <2>4, <2>5
<1>5. ASSUME NEW w \in Workers, WorkerStep(w) \/ SpuriousWake(w) PROVE Goal
  <2>1. stopping' = stopping /\ owner' = owner /\ Notifying' = Notifying
    BY <1>5 DEF WorkerStep, SpuriousWake, WaitForWork, Dequeue, ExitLoop, CheckAtDispatch,
       MarkStarted, Search, Finish, Notifying
  <2>2. NotifyAllComing' <=> NotifyAllComing
    BY <2>1 DEF NotifyAllComing
  <2>3. CASE WaitForWork(w)
    BY <2>1, <2>3, EmptyIsMatched DEF WaitForWork
  <2>4. ASSUME ~WaitForWork(w) PROVE Waiting' \subseteq Waiting
    BY <1>5, <2>4 DEF WorkerStep, SpuriousWake, Dequeue, ExitLoop, CheckAtDispatch,
       MarkStarted, Search, Finish, Waiting, TypeOK
  <2>5. CASE ExitLoop(w)
    <3>1. Waiting' \subseteq Waiting
      BY <2>5, <2>4 DEF ExitLoop, WaitForWork
    <3> QED BY <1>0, <2>1, <2>2, <2>5, <3>1, EmptyIsMatched DEF ExitLoop
  <2>6. CASE Dequeue(w)
    <3>1. Acquiring' = Acquiring \ {w} /\ w \in Acquiring
      BY <2>6 DEF Dequeue, Acquiring, TypeOK
    <3>2. Cardinality(Acquiring') = Cardinality(Acquiring) - 1
      BY <3>1, FS_RemoveElement
    <3>3. Len(queue') = Len(queue) - 1
      BY <1>0, <2>6, HeadTailProperties DEF Dequeue
    <3>4. Waiting' \subseteq Waiting
      BY <2>6, <2>4 DEF Dequeue, WaitForWork
    <3> QED BY <1>0, <2>1, <2>2, <3>2, <3>3, <3>4 DEF Matched
  <2>7. CASE SpuriousWake(w) \/ CheckAtDispatch(w) \/ MarkStarted(w) \/ Search(w) \/ Finish(w)
    <3>1. Acquiring \subseteq Acquiring' /\ queue' = queue
      BY <2>7 DEF SpuriousWake, CheckAtDispatch, MarkStarted, Search, Finish, Acquiring, TypeOK
    <3>2. Waiting' \subseteq Waiting
      BY <2>7, <2>4 DEF SpuriousWake, CheckAtDispatch, MarkStarted, Search, Finish, WaitForWork
    <3> QED BY <1>0, <2>1, <2>2, <3>1, <3>2, MoreAcquiring
  <2> QED BY <1>5, <2>3, <2>5, <2>6, <2>7 DEF WorkerStep
<1>6. CASE UNCHANGED vars
  BY <1>0, <1>6 DEF vars, Waiting, Matched, Acquiring, Notifying, NotifyAllComing
<1> QED BY <1>1, <1>2, <1>3, <1>4, <1>5, <1>6 DEF Next

\* Which owners may be where, and what they have done by then.
OwnerLocals ==
    \A o \in Owners :
        /\ owner[o] \in {"spawning", "unwind", "unwindNotify", "unwindJoin", "thrown"} => o = Constructor
        /\ owner[o] \in {"notify", "entered", "enteredNotify", "joining", "joined"} => Built
        /\ owner[o] \in {"enteredNotify", "joining", "joined", "unwindNotify", "unwindJoin", "thrown"}
              => stopping
        /\ owner[o] \in {"joined", "thrown"} => \A w \in Workers : worker[w] \in {"unborn", "exited"}

\* Every step keeps an owner that is past its stop() after the stop, and one that
\* is past its joins after the last worker's exit.
LEMMA OwnerLocalsStep ==
  ASSUME TypeOK, WorkerLocals, OwnerLocals, [Next]_vars
  PROVE  OwnerLocals'
<1> USE OwnersAssumption, LimitsAssumption DEF TypeOK, OwnerLocals, Built
<1>1. CASE Spawn
  <2>1. \A o \in Owners : owner[o] \notin {"joined", "thrown"} \/ o = Constructor
    BY <1>1 DEF Spawn
  <2> QED BY <1>1, <2>1 DEF Spawn
<1>2. CASE SpawnFails
  BY <1>2 DEF SpawnFails
<1>3. ASSUME NEW t \in Tasks, Handler(t) PROVE OwnerLocals'
  <2>1. UNCHANGED <<owner, spawned, stopping>>
    BY <1>3 DEF Handler, HandlerStep, SubmitAccept, SubmitReject, NotifyOne, PollCancelled, CancelRequest,
       CancelRemove, Collect, Expire
  <2>2. \A w \in Workers : worker[w] \in {"unborn", "exited"} => worker'[w] = worker[w]
    BY <1>3 DEF Handler, HandlerStep, SubmitAccept, SubmitReject, NotifyOne, PollCancelled, CancelRequest,
       CancelRemove, Collect, Expire, Waiting
  <2> QED BY <2>1, <2>2
<1>4. ASSUME NEW o \in Owners, Owner(o) PROVE OwnerLocals'
  <2>1. CASE CallStop(o)
    BY <2>1 DEF CallStop, StopBody
  <2>2. CASE EnterShutdown(o)
    BY <2>2 DEF EnterShutdown
  <2>3. CASE NestedStop(o)
    BY <2>3 DEF NestedStop, StopBody
  <2>4. CASE NotifyAll(o)
    BY <2>4 DEF NotifyAll, WakeAll
  <2>5. CASE JoinAll(o)
    BY <2>5 DEF JoinAll, Joinable, WorkerLocals, Workers
  <2> QED BY <1>4, <2>1, <2>2, <2>3, <2>4, <2>5 DEF Owner
<1>5. ASSUME NEW w \in Workers, WorkerStep(w) \/ SpuriousWake(w) PROVE OwnerLocals'
  <2>1. UNCHANGED <<owner, spawned, stopping>>
    BY <1>5 DEF WorkerStep, SpuriousWake, WaitForWork, Dequeue, ExitLoop, CheckAtDispatch,
       MarkStarted, Search, Finish
  <2>2. \A v \in Workers : worker[v] \in {"unborn", "exited"} => worker'[v] = worker[v]
    BY <1>5 DEF WorkerStep, SpuriousWake, WaitForWork, Dequeue, ExitLoop, CheckAtDispatch,
       MarkStarted, Search, Finish
  <2> QED BY <2>1, <2>2
<1>6. CASE UNCHANGED vars
  BY <1>6 DEF vars
<1> QED BY <1>1, <1>2, <1>3, <1>4, <1>5, <1>6 DEF Next

\* The inductive invariant: what the runs check, and the thread-local facts
\* that carry it from one critical section to the next.
IInv == /\ TypeOK
        /\ WorkerLocals
        /\ Conservation
        /\ Bounded
        /\ OnePlace
        /\ NoOutcomeBefore
        /\ StopReachesEveryTask
        /\ NoLostWakeup
        /\ OwnerLocals

\* The inductive invariant holds when the constructor starts.
LEMMA InitIInv == Init => IInv
<1> SUFFICES ASSUME Init PROVE IInv
  OBVIOUS
<1> USE LimitsAssumption, OwnersAssumption, TasksAssumption DEF Init
<1>0. queue \in Seq(Tasks) /\ Len(queue) = 0
  BY EmptySeq
<1>z. /\ stats \in [Counters -> Nat] /\ stats.queued = 0 /\ stats.running = 0 /\ stats.completed = 0
      /\ stats.admitted = 0 /\ stats.succeeded = 0 /\ stats.failed = 0 /\ stats.cancelled = 0
      /\ stats.expired = 0
  BY DEF Counters
<1>1. TypeOK
  <2>1. /\ handler \in [Tasks -> HandlerStates] /\ worker \in [Workers -> WorkerStates]
        /\ owner \in [Owners -> OwnerStates]
    BY DEF HandlerStates, WorkerStates, OwnerStates
  <2>2. /\ active \in [Workers -> Tasks \union {NoTask}]
        /\ reason \in [Tasks -> StopReasons \union {"None"}]
        /\ outcome \in [Tasks -> Results \union {"Pending"}]
        /\ result \in [Workers -> Results \union {"Pending"}]
    OBVIOUS
  <2>3. stopping \in BOOLEAN
    OBVIOUS
  <2>4. late \subseteq Deadlined
    OBVIOUS
  <2>5. spawned \in 0..NumWorkers
    OBVIOUS
  <2>6. holder \in Owners \union {NoTask}
    OBVIOUS
  <2> QED BY ONLY <1>0, <1>z, <2>1, <2>2, <2>3, <2>4, <2>5, <2>6 DEF TypeOK
<1>2. WorkerLocals
  BY DEF WorkerLocals, Workers, Busy
<1>3. Conservation
  <2>1. {w \in Workers : active[w] # NoTask} = {}
    OBVIOUS
  <2>2. stats.running = Cardinality({w \in Workers : active[w] # NoTask})
    BY <1>z, <2>1, FS_EmptySet
  <2> QED BY ONLY <1>0, <1>z, <2>2 DEF Conservation
<1>4. Bounded
  BY <1>0 DEF Bounded, Counters
<1>5. OnePlace /\ NoOutcomeBefore
  BY <1>0 DEF OnePlace, NoOutcomeBefore, InQueue, Running
<1>6. StopReachesEveryTask /\ NoLostWakeup
  BY DEF StopReachesEveryTask, NoLostWakeup, Waiting
<1>7. OwnerLocals
  BY DEF OwnerLocals
<1> QED BY <1>1, <1>2, <1>3, <1>4, <1>5, <1>6, <1>7 DEF IInv

\* The inductive invariant is kept by every step of every thread.
LEMMA StepIInv == IInv /\ [Next]_vars => IInv'
<1> SUFFICES ASSUME IInv, [Next]_vars PROVE IInv'
  OBVIOUS
<1> USE DEF IInv
<1>1. stats.running = Cardinality(BusyWorkers)
  BY DEF Conservation, BusyWorkers
<1>2. TypeOK' /\ WorkerLocals'
  BY <1>1, TypeStep, WorkerLocalsStep
<1>3. Conservation' /\ Bounded'
  BY ConservationStep, BoundedStep
<1>4. OnePlace' /\ NoOutcomeBefore'
  BY OnePlaceStep
<1>5. StopReachesEveryTask' /\ NoLostWakeup' /\ OwnerLocals'
  BY StopReachesStep, WakeupStep, OwnerLocalsStep
<1> QED BY <1>2, <1>3, <1>4, <1>5

\* IInv holds in every reachable state of the scheduler, for any number of
\* workers, any capacity and any finite set of tasks.
THEOREM Invariance == Spec => []IInv
BY InitIInv, StepIInv, PTL DEF Spec

\* The scheduler's state stays well typed; in particular no counter goes below zero.
THEOREM TypeCorrect == Spec => []TypeOK
<1>1. IInv => TypeOK
  BY DEF IInv
<1> QED BY <1>1, Invariance, PTL

\* stats() never loses or double-counts a task, whatever cancellation, stop,
\* dequeue and completion interleave.
THEOREM CountersAgree == Spec => []Accounted
<1>1. IInv => Accounted
  BY DEF IInv, Accounted
<1> QED BY <1>1, Invariance, PTL

\* The admission bound and the worker bound hold, also at the recorded peaks.
THEOREM QueueIsBounded == Spec => []Bounded
<1>1. IInv => Bounded
  BY DEF IInv
<1> QED BY <1>1, Invariance, PTL

\* An admitted task is in the queue, with one worker, or settled: never twice, never nowhere.
THEOREM NoTaskLostOrDuplicated == Spec => []OnePlace
<1>1. IInv => OnePlace
  BY DEF IInv
<1> QED BY <1>1, Invariance, PTL

\* After stop() the queue is empty and every held task has a stop reason.
THEOREM StopIsComplete == Spec => []StopReachesEveryTask
<1>1. IInv => StopReachesEveryTask
  BY DEF IInv
<1> QED BY <1>1, Invariance, PTL

\* notify_one after each push and notify_all after stop() are enough: no
\* worker sleeps through work or through shutdown.
THEOREM WakeupsSuffice == Spec => []NoLostWakeup
<1>1. IInv => NoLostWakeup
  BY DEF IInv
<1> QED BY <1>1, Invariance, PTL

\* When shutdown() returns, no worker runs and every admitted promise is set.
THEOREM ShutdownIsQuiet == Spec => []JoinedMeansQuiet
<1>1. IInv => JoinedMeansQuiet
  <2> SUFFICES ASSUME IInv, NEW o \in Owners, owner[o] \in {"joined", "thrown"}
               PROVE  /\ \A w \in Workers : worker[w] \in {"unborn", "exited"}
                      /\ \A t \in Tasks : handler[t] \notin {"fresh", "rejected"} => outcome[t] # "Pending"
    BY DEF JoinedMeansQuiet
  <2>1. stopping /\ \A w \in Workers : worker[w] \in {"unborn", "exited"}
    BY DEF IInv, OwnerLocals
  <2>2. queue = <<>> /\ \A w \in Workers : active[w] = NoTask
    BY <2>1 DEF IInv, StopReachesEveryTask, WorkerLocals, Busy
  <2>3. \A t \in Tasks : ~InQueue(t) /\ ~Running(t)
    BY <2>2, EmptySeq, TasksAssumption DEF InQueue, Running
  <2> QED BY <2>1, <2>3 DEF IInv, OnePlace
<1> QED BY <1>1, Invariance, PTL

\* What one step may do to outcomes and reasons.
SettledOnceStep ==
    \A t \in Tasks : /\ outcome[t] # "Pending" => outcome'[t] = outcome[t]
                     /\ reason[t] # "None" => reason'[t] = reason[t]

\* From a state of the inductive invariant no step changes an outcome or a reason
\* that is already set.
LEMMA SettledOnceLemma == IInv /\ [Next]_vars => SettledOnceStep
<1> SUFFICES ASSUME IInv, [Next]_vars PROVE SettledOnceStep
  OBVIOUS
<1>0. /\ TypeOK /\ WorkerLocals
      /\ \A t \in Tasks : InQueue(t) \/ Running(t) => outcome[t] = "Pending"
  BY DEF IInv, OnePlace
<1> USE DEF SettledOnceStep
<1>1. ASSUME UNCHANGED <<outcome, reason>> PROVE SettledOnceStep
  BY <1>1
<1>2. ASSUME NEW t \in Tasks, NEW r \in StopReasons, CancelRequest(t, r) PROVE SettledOnceStep
  BY <1>2 DEF CancelRequest, Request
<1>3. ASSUME NEW t \in Tasks, CancelRemove(t) PROVE SettledOnceStep
  <2>1. CASE InQueue(t)
    BY <1>0, <1>3, <2>1 DEF CancelRemove, TypeOK
  <2>2. CASE ~InQueue(t)
    BY <1>3, <2>2 DEF CancelRemove, InQueue
  <2> QED BY <2>1, <2>2
<1>4. ASSUME StopBody PROVE SettledOnceStep
  <2>1. \A t \in Tasks : outcome[t] # "Pending" => ~InQueue(t)
    BY <1>0
  <2> QED BY <1>4, <2>1 DEF StopBody, Request, InQueue
<1>5. ASSUME NEW w \in Workers, Finish(w) PROVE SettledOnceStep
  <2>1. active[w] \in Tasks /\ Running(active[w])
    BY <1>0, <1>5 DEF Finish, WorkerLocals, Busy, TypeOK, Running
  <2> QED BY <1>0, <1>5, <2>1 DEF Finish, TypeOK
<1> QED
  <2>1. CASE Spawn \/ SpawnFails \/ UNCHANGED vars
    BY <2>1, <1>1 DEF Spawn, SpawnFails, vars
  <2>2. ASSUME NEW t \in Tasks, Handler(t) PROVE SettledOnceStep
    BY <2>2, <1>1, <1>2, <1>3 DEF Handler, HandlerStep, SubmitAccept, SubmitReject, NotifyOne, PollCancelled,
       Collect, Expire
  <2>3. ASSUME NEW o \in Owners, Owner(o) PROVE SettledOnceStep
    BY <2>3, <1>1, <1>4 DEF Owner, CallStop, EnterShutdown, NestedStop, NotifyAll, JoinAll
  <2>4. ASSUME NEW w \in Workers, WorkerStep(w) \/ SpuriousWake(w) PROVE SettledOnceStep
    BY <2>4, <1>1, <1>5 DEF WorkerStep, SpuriousWake, WaitForWork, Dequeue, ExitLoop,
       CheckAtDispatch, MarkStarted, Search
  <2> QED BY <2>1, <2>2, <2>3, <2>4 DEF Next

\* No promise is set twice and no cancellation reason is replaced.
THEOREM PromisesAreSetOnce == Spec => SettledOnce
<1>1. IInv /\ [Next]_vars => [SettledOnceStep]_vars
  BY SettledOnceLemma
<1>2. Spec => [][SettledOnceStep]_vars
  BY <1>1, Invariance, PTL DEF Spec
<1> QED BY <1>2 DEF SettledOnce, SettledOnceStep

\* What keeps OutcomeIsJustified: the reason a worker carries to its last critical
\* section is justified as well, and a handler inside cancel() has made its request.
ResultIsJustified ==
    \A w \in Workers :
        result[w] \in StopReasons =>
            \/ result[w] = reason[active[w]]
            \/ result[w] = "DeadlineExceeded" /\ active[w] \in late
CancellingIsRequested == \A t \in Tasks : handler[t] = "cancelling" => reason[t] # "None"
Justified == OutcomeIsJustified /\ ResultIsJustified /\ CancellingIsRequested

\* Nothing is justified before the first submission, because nothing has ended.
LEMMA InitJustified == Init => Justified
BY DEF Init, Justified, OutcomeIsJustified, ResultIsJustified, CancellingIsRequested, StopReasons

\* A step that sets no outcome, carries no new result and enters no cancel() keeps
\* every justification, because reasons and passed deadlines stay.
LEMMA JustifiedFrame ==
  ASSUME IInv, Justified, SettledOnceStep, late \subseteq late',
         \A t \in Tasks : outcome'[t] \in StopReasons => outcome'[t] = outcome[t],
         \A w \in Workers : result'[w] \in StopReasons => result'[w] = result[w] /\ active'[w] = active[w],
         \A t \in Tasks : handler'[t] = "cancelling" => handler[t] = "cancelling"
  PROVE  Justified'
<1> USE DEF IInv, Justified, SettledOnceStep
<1>1. OutcomeIsJustified'
  BY DEF OutcomeIsJustified, StopReasons
<1>2. ResultIsJustified'
  <2> SUFFICES ASSUME NEW w \in Workers, result'[w] \in StopReasons
               PROVE  \/ result'[w] = reason'[active'[w]]
                      \/ result'[w] = "DeadlineExceeded" /\ active'[w] \in late'
    BY DEF ResultIsJustified
  <2>1. result'[w] = result[w] /\ active'[w] = active[w]
    OBVIOUS
  <2>2. active[w] \in Tasks
    BY <2>1 DEF TypeOK, WorkerLocals, Busy, StopReasons
  <2> QED BY <2>1, <2>2 DEF ResultIsJustified, StopReasons
<1>3. CancellingIsRequested'
  BY DEF CancellingIsRequested
<1> QED BY <1>1, <1>2, <1>3

\* Every step of every thread keeps outcomes justified: what cancel() and stop()
\* settle carries the reason they requested or found, and what a worker settles
\* carries the reason or the passed deadline its check saw.
LEMMA JustifiedStep ==
  ASSUME IInv, Justified, [Next]_vars
  PROVE  Justified'
<1>0. TypeOK /\ WorkerLocals /\ SettledOnceStep
  BY SettledOnceLemma DEF IInv
<1>1. ASSUME UNCHANGED <<outcome, result, active>>, late \subseteq late',
             \A t \in Tasks : handler'[t] = "cancelling" => handler[t] = "cancelling"
      PROVE  Justified'
  BY <1>0, <1>1, JustifiedFrame
<1>2. CASE Spawn \/ SpawnFails \/ UNCHANGED vars
  BY <1>1, <1>2 DEF Spawn, SpawnFails, vars
<1>3. ASSUME NEW t \in Tasks, Handler(t) PROVE Justified'
  <2>1. CASE SubmitAccept(t) \/ SubmitReject(t) \/ NotifyOne(t) \/ PollCancelled(t) \/ Collect(t) \/ Expire(t)
    <3>1. UNCHANGED <<outcome, result, active>> /\ late \subseteq late'
      BY <2>1 DEF SubmitAccept, SubmitReject, NotifyOne, PollCancelled, Collect, Expire
    <3>2. \A u \in Tasks : handler'[u] = "cancelling" => handler[u] = "cancelling"
      BY <1>0, <2>1 DEF SubmitAccept, SubmitReject, NotifyOne, PollCancelled, Collect, Expire, AfterPush, TypeOK
    <3> QED BY <1>1, <3>1, <3>2
  <2>2. ASSUME NEW r \in StopReasons, CancelRequest(t, r) PROVE Justified'
    <3>1. reason'[t] # "None" /\ UNCHANGED <<outcome, result, active, late>>
      BY <1>0, <2>2 DEF CancelRequest, Request, TypeOK, StopReasons
    <3>2. CancellingIsRequested'
      <4>1. \A u \in Tasks \ {t} : handler'[u] = handler[u]
        BY <1>0, <2>2 DEF CancelRequest, TypeOK
      <4> QED BY <1>0, <3>1, <4>1 DEF CancellingIsRequested, Justified, SettledOnceStep
    <3>3. OutcomeIsJustified'
      BY <1>0, <3>1 DEF Justified, OutcomeIsJustified, SettledOnceStep, StopReasons
    <3>4. \A w \in Workers : result[w] \in StopReasons => active[w] \in Tasks
      BY <1>0 DEF TypeOK, WorkerLocals, Busy, StopReasons
    <3>5. ResultIsJustified'
      BY <1>0, <3>1, <3>4 DEF Justified, ResultIsJustified, SettledOnceStep, StopReasons
    <3> QED BY <3>2, <3>3, <3>5 DEF Justified
  <2>3. CASE CancelRemove(t)
    <3>1. /\ UNCHANGED <<result, active, late, reason>>
          /\ \A u \in Tasks : handler'[u] = "cancelling" => handler[u] = "cancelling"
          /\ handler[t] = "cancelling"
      BY <1>0, <2>3 DEF CancelRemove, TypeOK
    <3>2. \A u \in Tasks : outcome'[u] = outcome[u] \/ outcome'[u] = reason[u]
      <4>1. reason[t] # "None"
        BY <3>1 DEF Justified, CancellingIsRequested
      <4> QED BY <1>0, <2>3, <4>1 DEF CancelRemove, StopCode, TypeOK
    <3>3. OutcomeIsJustified'
      BY <3>1, <3>2 DEF Justified, OutcomeIsJustified
    <3>4. ResultIsJustified' /\ CancellingIsRequested'
      BY <3>1 DEF Justified, ResultIsJustified, CancellingIsRequested
    <3> QED BY <3>3, <3>4 DEF Justified
  <2> QED BY <1>3, <2>1, <2>2, <2>3 DEF Handler, HandlerStep
<1>4. ASSUME NEW o \in Owners, Owner(o) PROVE Justified'
  <2>1. UNCHANGED <<result, active, late, handler>>
    BY <1>4 DEF Owner, CallStop, EnterShutdown, NestedStop, NotifyAll, JoinAll
  <2>2. CASE UNCHANGED outcome
    BY <1>1, <2>1, <2>2
  <2>3. CASE StopBody
    <3>1. \A u \in Tasks : outcome'[u] = outcome[u] \/ outcome'[u] = reason'[u]
      <4>1. ASSUME NEW u \in Tasks, InQueue(u) PROVE reason'[u] # "None"
        BY <1>0, <2>3, <4>1 DEF StopBody, Request, Stopped, InQueue, TypeOK, StopReasons
      <4> QED BY <2>3, <4>1 DEF StopBody, StopCode, InQueue
    <3>2. OutcomeIsJustified'
      BY <1>0, <2>1, <3>1 DEF Justified, OutcomeIsJustified, SettledOnceStep, StopReasons
    <3>3. \A w \in Workers : result[w] \in StopReasons => active[w] \in Tasks
      BY <1>0 DEF TypeOK, WorkerLocals, Busy, StopReasons
    <3>4. ResultIsJustified' /\ CancellingIsRequested'
      BY <1>0, <2>1, <3>3 DEF Justified, ResultIsJustified, CancellingIsRequested, SettledOnceStep, StopReasons
    <3> QED BY <3>2, <3>4 DEF Justified
  <2> QED BY <1>4, <2>2, <2>3 DEF Owner, CallStop, EnterShutdown, NestedStop, NotifyAll, JoinAll
<1>5. ASSUME NEW w \in Workers, WorkerStep(w) \/ SpuriousWake(w) PROVE Justified'
  <2>1. UNCHANGED <<handler, late, reason>>
    BY <1>5 DEF WorkerStep, SpuriousWake, WaitForWork, Dequeue, ExitLoop, CheckAtDispatch, MarkStarted,
       Search, Finish
  <2>2. CASE WaitForWork(w) \/ ExitLoop(w) \/ SpuriousWake(w) \/ MarkStarted(w)
    BY <1>1, <2>1, <2>2 DEF WaitForWork, ExitLoop, SpuriousWake, MarkStarted
  <2>3. CASE Dequeue(w)
    <3>1. result'[w] = "Pending" /\ \A v \in Workers \ {w} : active'[v] = active[v]
      BY <1>0, <2>3 DEF Dequeue, WorkerLocals, TypeOK
    <3>2. UNCHANGED <<outcome, result>>
      BY <2>3 DEF Dequeue
    <3> QED BY <1>0, <2>1, <3>1, <3>2, JustifiedFrame DEF StopReasons
  <2>4. CASE CheckAtDispatch(w) \/ Search(w)
    <3>1. UNCHANGED <<active, outcome>> /\ \A v \in Workers \ {w} : result'[v] = result[v]
      BY <1>0, <2>4 DEF CheckAtDispatch, Search, TypeOK
    <3>2. result'[w] \in StopReasons => \/ result'[w] = StopCode(reason, active[w]) /\ Interrupted(active[w])
                                    \/ result'[w] = result[w]
      BY <1>0, <2>4 DEF CheckAtDispatch, Search, SearchResults, TypeOK, StopReasons
    <3>3. ResultIsJustified'
      BY <2>1, <3>1, <3>2 DEF Justified, ResultIsJustified, StopCode, Interrupted
    <3>4. OutcomeIsJustified' /\ CancellingIsRequested'
      BY <2>1, <3>1 DEF Justified, OutcomeIsJustified, CancellingIsRequested
    <3> QED BY <3>3, <3>4 DEF Justified
  <2>5. CASE Finish(w)
    <3>1. active[w] \in Tasks /\ \A u \in Tasks \ {active[w]} : outcome'[u] = outcome[u]
      BY <1>0, <2>5 DEF Finish, WorkerLocals, Busy, TypeOK
    <3>2. outcome'[active[w]] = result[w]
      BY <1>0, <2>5, <3>1 DEF Finish, TypeOK
    <3>3. OutcomeIsJustified'
      BY <2>1, <3>1, <3>2 DEF Justified, OutcomeIsJustified, ResultIsJustified
    <3>4. \A v \in Workers : result'[v] \in StopReasons => result'[v] = result[v] /\ active'[v] = active[v]
      BY <1>0, <2>5 DEF Finish, TypeOK, StopReasons
    <3>5. ResultIsJustified' /\ CancellingIsRequested'
      BY <2>1, <3>4 DEF Justified, ResultIsJustified, CancellingIsRequested
    <3> QED BY <3>3, <3>5 DEF Justified
  <2> QED BY <1>5, <2>2, <2>3, <2>4, <2>5 DEF WorkerStep
<1> QED BY <1>2, <1>3, <1>4, <1>5 DEF Next

\* An interrupted search reports the first reason requested of it or its own
\* passed deadline, whichever of cancel(), stop(), the dispatch check and the
\* search settles it.
THEOREM OutcomesAreJustified == Spec => []OutcomeIsJustified
<1>1. Justified /\ IInv /\ [Next]_vars => Justified'
  BY JustifiedStep
<1>2. Spec => []Justified
  BY <1>1, InitJustified, Invariance, PTL DEF Spec
<1>3. Justified => OutcomeIsJustified
  BY DEF Justified
<1> QED BY <1>2, <1>3, PTL

\* What one step may do to the order of two waiting tasks.
ServedInOrder(t, u) ==
    Precedes(queue, t, u) => /\ InQueue(t)' /\ InQueue(u)' => Precedes(queue', t, u)
                             /\ Running(u)' => ~InQueue(t)'
ServedInOrderStep == \A t, u \in Tasks : ServedInOrder(t, u)

\* From a state of the inductive invariant no step lets a task overtake another:
\* each one appends to the queue, takes its head, erases one position or empties it.
LEMMA ServedInOrderLemma == IInv /\ [Next]_vars => ServedInOrderStep
<1> SUFFICES ASSUME IInv, [Next]_vars, NEW t \in Tasks, NEW u \in Tasks, Precedes(queue, t, u)
             PROVE  /\ InQueue(t)' /\ InQueue(u)' => Precedes(queue', t, u)
                    /\ Running(u)' => ~InQueue(t)'
  BY DEF ServedInOrderStep, ServedInOrder
<1> DEFINE Goal == /\ InQueue(t)' /\ InQueue(u)' => Precedes(queue', t, u)
                   /\ Running(u)' => ~InQueue(t)'
<1>0. /\ queue \in Seq(Tasks) /\ Len(queue) \in Nat /\ TypeOK
      /\ DistinctQueue /\ InQueue(u) /\ ~Running(u)
  BY OnePlaceParts DEF IInv, TypeOK, Placed, Precedes, InQueue
<1>1. PICK i, j \in 1..Len(queue) : i < j /\ queue[i] = t /\ queue[j] = u
  BY DEF Precedes
<1>2. ASSUME UNCHANGED queue, \A w \in Workers : active'[w] = active[w] \/ active'[w] = NoTask PROVE Goal
  BY <1>0, <1>2, TasksAssumption DEF InQueue, Running
<1>3. ASSUME queue' = <<>> PROVE Goal
  BY <1>3, EmptySeq DEF InQueue
<1>4. CASE Spawn \/ SpawnFails \/ UNCHANGED vars
  BY <1>2, <1>4 DEF Spawn, SpawnFails, vars
<1>5. ASSUME NEW x \in Tasks, Handler(x) PROVE Goal
  <2>1. UNCHANGED active
    BY <1>5 DEF Handler, HandlerStep, SubmitAccept, SubmitReject, NotifyOne, PollCancelled, CancelRequest,
       CancelRemove, Collect, Expire
  <2>2. ~Running(u)'
    BY <1>0, <2>1 DEF Running
  <2>3. CASE SubmitAccept(x)
    <3>1. queue' = Append(queue, x)
      BY <2>3 DEF SubmitAccept
    <3>2. /\ Len(queue') = Len(queue) + 1
          /\ \A k \in 1..Len(queue) : queue'[k] = queue[k]
      BY <1>0, <3>1, AppendProperties
    <3>3. Precedes(queue', t, u)
      BY <1>0, <1>1, <3>2 DEF Precedes
    <3> QED BY <2>2, <3>3
  <2>4. ASSUME NEW k \in 1..Len(queue), queue[k] = x, queue' = Erase(queue, k) PROVE Goal
    <3>1. /\ queue' \in Seq(Tasks) /\ Len(queue') = Len(queue) - 1
          /\ \A n \in 1..Len(queue)-1 : queue'[n] = IF n < k THEN queue[n] ELSE queue[n+1]
      BY <1>0, <2>4, RemoveAtProps DEF Erase
    <3>2. CASE k = i \/ k = j
      <4>1. \A n \in 1..Len(queue') : queue'[n] # queue[k]
        <5> SUFFICES ASSUME NEW n \in 1..Len(queue') PROVE queue'[n] # queue[k]
          OBVIOUS
        <5>1. n \in 1..Len(queue) /\ n + 1 \in 1..Len(queue)
          BY <1>0, <3>1
        <5>2. CASE n < k
          BY <1>0, <2>4, <3>1, <5>1, <5>2 DEF DistinctQueue
        <5>3. CASE n >= k
          BY <1>0, <2>4, <3>1, <5>1, <5>3 DEF DistinctQueue
        <5> QED BY <1>0, <5>1, <5>2, <5>3
      <4> QED BY <1>1, <2>2, <3>2, <4>1 DEF InQueue
    <3>3. CASE k # i /\ k # j
      <4> DEFINE a == IF i < k THEN i ELSE i - 1
                 b == IF j < k THEN j ELSE j - 1
      <4>1. a \in 1..Len(queue') /\ b \in 1..Len(queue') /\ a < b
        BY <1>0, <1>1, <3>1, <3>3
      <4>2. queue'[a] = t
        <5>1. CASE i < k
          BY <1>0, <1>1, <3>1, <4>1, <5>1
        <5>2. CASE i >= k
          BY <1>0, <1>1, <3>1, <3>3, <4>1, <5>2
        <5> QED BY <1>0, <1>1, <5>1, <5>2
      <4>3. queue'[b] = u
        <5>1. CASE j < k
          BY <1>0, <1>1, <3>1, <4>1, <5>1
        <5>2. CASE j >= k
          BY <1>0, <1>1, <3>1, <3>3, <4>1, <5>2
        <5> QED BY <1>0, <1>1, <5>1, <5>2
      <4> HIDE DEF a, b
      <4>4. Precedes(queue', t, u)
        BY <4>1, <4>2, <4>3 DEF Precedes
      <4> QED BY <2>2, <4>4
    <3> QED BY <3>2, <3>3
  <2>5. CASE ~SubmitAccept(x) /\ ~CancelRemove(x)
    BY <1>2, <1>5, <2>1, <2>5 DEF Handler, HandlerStep, SubmitReject, NotifyOne, PollCancelled, CancelRequest,
       Collect, Expire
  <2>6. CASE CancelRemove(x)
    BY <1>2, <2>1, <2>4, <2>6 DEF CancelRemove
  <2> QED BY <2>3, <2>5, <2>6
<1>6. ASSUME NEW o \in Owners, Owner(o) PROVE Goal
  BY <1>2, <1>3, <1>6 DEF Owner, CallStop, EnterShutdown, NestedStop, NotifyAll, JoinAll, StopBody
<1>7. ASSUME NEW w \in Workers, WorkerStep(w) \/ SpuriousWake(w) PROVE Goal
  <2>1. CASE Dequeue(w)
    <3>1. /\ queue' \in Seq(Tasks) /\ Len(queue') = Len(queue) - 1
          /\ \A n \in 1..Len(queue') : queue'[n] = queue[n+1]
      BY <1>0, <2>1, HeadTailProperties DEF Dequeue
    <3>2. ~Running(u)'
      <4>1. queue[1] # u
        BY <1>0, <1>1 DEF DistinctQueue
      <4>2. \A v \in Workers : active'[v] = active[v] \/ active'[v] = queue[1]
        BY <1>0, <2>1 DEF Dequeue, TypeOK
      <4> QED BY <1>0, <4>1, <4>2 DEF Running
    <3>3. CASE i = 1
      <4>1. \A n \in 1..Len(queue') : queue'[n] # t
        BY <1>0, <1>1, <3>1, <3>3 DEF DistinctQueue
      <4> QED BY <3>2, <4>1 DEF InQueue
    <3>4. CASE i # 1
      <4>1. i - 1 \in 1..Len(queue') /\ j - 1 \in 1..Len(queue') /\ i - 1 < j - 1
        BY <1>0, <1>1, <3>1, <3>4
      <4>2. queue'[i - 1] = t /\ queue'[j - 1] = u
        BY <1>0, <1>1, <3>1, <4>1
      <4> QED BY <3>2, <4>1, <4>2 DEF Precedes
    <3> QED BY <3>3, <3>4
  <2>2. CASE Finish(w)
    BY <1>0, <1>2, <2>2 DEF Finish, TypeOK
  <2>3. CASE ~Dequeue(w) /\ ~Finish(w)
    BY <1>2, <1>7, <2>3 DEF WorkerStep, SpuriousWake, WaitForWork, ExitLoop, CheckAtDispatch, MarkStarted, Search
  <2> QED BY <2>1, <2>2, <2>3
<1> QED BY <1>4, <1>5, <1>6, <1>7 DEF Next

\* Tasks are dispatched in the order in which submit() admitted them, and no
\* cancellation or stop reorders those that stay.
THEOREM TasksAreServedInOrder == Spec => FirstComeFirstServed
<1>1. IInv /\ [Next]_vars => [ServedInOrderStep]_vars
  BY ServedInOrderLemma
<1>2. Spec => [][ServedInOrderStep]_vars
  BY <1>1, Invariance, PTL DEF Spec
<1> QED BY <1>2 DEF FirstComeFirstServed, ServedInOrderStep, ServedInOrder
=============================================================================
