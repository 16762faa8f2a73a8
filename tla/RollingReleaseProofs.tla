------------------------ MODULE RollingReleaseProofs ------------------------
(***************************************************************************)
(* Proofs about rolling releases, for any deployments: any publishers with *)
(* any releases, any number of replicas and any number of restarts.        *)
(***************************************************************************)
EXTENDS RollingRelease, TLAPS

\* What a replica has prepared is newer than what it serves, so that serving
\* it is a step forward.
CandidateIsNewer == \A r \in Replicas : candidate[r] # None => candidate[r].g > current[r].g

\* A replica that kept running serves what a report says of it, or something
\* newer.
ObservedIsServed ==
    \A p \in Publishers, r \in Replicas \ restarted :
        row[p][r].current # None => current[r] = row[p][r].current \/ current[r].g > row[p][r].current.g

\* Two reports that saw one generation on a replica saw one release.
ReportsAgree ==
    \A p, q \in Publishers, r \in Replicas \ restarted :
        /\ row[p][r].current # None /\ row[q][r].current # None
        /\ row[p][r].current.g = row[q][r].current.g
        => row[p][r].current = row[q][r].current

\* A publisher that has not started has no report.
NothingObserved == \A p \in Publishers : pc[p] = "start" => \A r \in Replicas : row[p][r].current = None

\* A stale publisher has a replica that is beyond its release and that it can
\* only have seen so.
StaleIsBehind ==
    restarted = {} => \A p \in stale : \E r \in Replicas :
        /\ highest[r] > Target[p].g
        /\ row[p][r].current # None => row[p][r].highest > Target[p].g

\* The inductive invariant.
IInv == /\ TypeOK
        /\ CandidateIsNewer
        /\ ObservedIsServed
        /\ ReportsAgree
        /\ NothingObserved
        /\ StaleIsBehind

\* The releases of a deployment are numbered, and the ones to publish exist.
LEMMA ReleasesAreNumbered ==
  ASSUME deployment \in Deployments
  PROVE  /\ \A x \in Releases : x.g \in Nat
         /\ \A p \in Publishers : Target[p] \in Releases /\ Target[p] # None /\ Target[p].g \in Nat
         /\ NumReplicas \in Nat \ {0} /\ 1 \in Replicas
BY DeploymentsAssumption, StartupAssumption DEF Releases, Publishers, Target, Replicas, NumReplicas

\* A deployment keeps its publishers, releases and replicas.
LEMMA DeploymentIsFixed ==
  ASSUME [Next]_vars
  PROVE  UNCHANGED <<deployment, Publishers, Target, NumReplicas, Replicas, Releases, Rows>>
<1>1. UNCHANGED deployment
  <2>1. ASSUME NEW p \in Publishers, Publisher(p) PROVE UNCHANGED deployment
    BY <2>1 DEF Publisher, Start, Before, Prepared, Activated, GiveUp, Observe, replicaVars
  <2>2. ASSUME NEW p \in Publishers, NEW r \in Replicas, Server(p, r) PROVE UNCHANGED deployment
    BY <2>2 DEF Server, PrepareBegins, PrepareEnds, PrepareAnswers, Activates, replicaVars
  <2>3. ASSUME NEW r \in Replicas, Restart(r) PROVE UNCHANGED deployment
    BY <2>3 DEF Restart
  <2> QED BY <2>1, <2>2, <2>3 DEF Next, vars
<1> QED BY <1>1 DEF Publishers, Target, NumReplicas, Replicas, Releases, Rows

\* Reports of convergence are as true as the observations they rest on.
LEMMA TrueReports == IInv => ReportsAreTrue
<1> SUFFICES ASSUME IInv PROVE ReportsAreTrue
  OBVIOUS
<1>1. \A p \in Publishers : Target[p] # None
  BY ReleasesAreNumbered DEF IInv, TypeOK
<1>2. \A p \in Publishers, r \in Replicas : Converged(p) => row[p][r].current = Target[p]
  BY DEF Converged, Matches
<1>3. ConvergedIsServed
  BY <1>1, <1>2 DEF IInv, ObservedIsServed, ConvergedIsServed
<1>4. OneReleasePerGeneration
  <2> SUFFICES ASSUME NEW p \in Publishers, NEW q \in Publishers, Converged(p), Converged(q),
                      Target[p].g = Target[q].g, restarted # Replicas
               PROVE  Target[p] = Target[q]
    BY DEF OneReleasePerGeneration
  <2>1. PICK r \in Replicas : r \notin restarted
    BY DEF IInv, TypeOK
  <2> QED BY <1>1, <1>2, <2>1 DEF IInv, ReportsAgree
<1> QED BY <1>3, <1>4 DEF ReportsAreTrue

\* A stale publisher has seen a fence that does not match.
LEMMA StaleFails == IInv => StaleIsNotSuccess
<1> SUFFICES ASSUME IInv, restarted = {}, NEW p \in stale, Converged(p) PROVE FALSE
  BY DEF StaleIsNotSuccess
<1>1. PICK r \in Replicas : row[p][r].current # None => row[p][r].highest > Target[p].g
  BY DEF IInv, StaleIsBehind
<1>2. p \in Publishers /\ Target[p] # None /\ Target[p].g \in Nat
  BY ReleasesAreNumbered DEF IInv, TypeOK
<1>3. row[p][r].current = Target[p] /\ row[p][r].highest = Target[p].g
  BY DEF Converged, Matches
<1> QED BY <1>1, <1>2, <1>3

\* A deployment starts in the invariant.
LEMMA InitIInv == Init => IInv
<1> SUFFICES ASSUME Init PROVE IInv
  OBVIOUS
<1>1. 1 \in Replicas /\ Startup \in Releases /\ Startup.g \in Nat
  BY ReleasesAreNumbered, StartupAssumption DEF Init, Releases
<1>2. TypeOK
  <2>1. [current |-> None, highest |-> 0, error |-> FALSE] \in Rows
    BY DEF Rows
  <2>2. at \in [Publishers -> Replicas]
    BY <1>1 DEF Init
  <2> QED BY <1>1, <2>1, <2>2 DEF Init, TypeOK, Places, Calls
<1>3. CandidateIsNewer /\ ObservedIsServed /\ ReportsAgree /\ NothingObserved /\ StaleIsBehind
  BY DEF Init, CandidateIsNewer, ObservedIsServed, ReportsAgree, NothingObserved, StaleIsBehind
<1> QED BY <1>2, <1>3 DEF IInv

\* A call is only changed to a call.
LEMMA CallsAreCalls ==
  ASSUME TypeOK, NEW p \in Publishers, NEW r \in Replicas, NEW c \in Calls
  PROVE  Call(p, r, c) \/ Answer(p, r, c) => rpc' \in [Publishers -> [Replicas -> Calls]]
<1>1. rpc \in [Publishers -> [Replicas -> Calls]] /\ "none" \in Calls
  BY DEF TypeOK, Calls
<1>2. ASSUME NEW d \in Calls, rpc' = [rpc EXCEPT ![p][r] = d]
      PROVE  rpc' \in [Publishers -> [Replicas -> Calls]]
  BY <1>1, <1>2
<1> QED BY <1>1, <1>2 DEF Call, Answer

\* Every step of a publisher keeps the state well typed.
LEMMA PublisherType ==
  ASSUME TypeOK, NEW p \in Publishers, Publisher(p)
  PROVE  TypeOK'
<1>1. [Next]_vars
  BY DEF Next
<1>2. UNCHANGED <<deployment, Publishers, Target, NumReplicas, Replicas, Releases, Rows>>
  BY <1>1, DeploymentIsFixed
<1>3. at[p] \in Replicas
  BY DEF TypeOK
<1>4. CASE Start(p)
  BY <1>2, <1>4 DEF TypeOK, Start, Move, replicaVars, Places
<1>5. CASE Before(p)
  <2>1. rpc' \in [Publishers -> [Replicas -> Calls]]
    BY <1>3, <1>5, CallsAreCalls DEF Before, TypeOK, Calls
  <2> QED BY <1>2, <1>5, <2>1 DEF TypeOK, Before, replicaVars, Places
<1>6. CASE Prepared(p) \/ Activated(p)
  <2>1. rpc' \in [Publishers -> [Replicas -> Calls]]
    BY <1>3, <1>6, CallsAreCalls DEF Prepared, Activated, Calls
  <2> QED BY <1>2, <1>6, <2>1 DEF TypeOK, Prepared, Activated, Move, replicaVars, Places
<1>7. CASE GiveUp(p)
  <2>1. rpc' \in [Publishers -> [Replicas -> Calls]]
    BY <1>3, <1>7 DEF GiveUp, Calls, TypeOK
  <2> QED BY <1>2, <1>7, <2>1 DEF TypeOK, GiveUp, replicaVars, Places
<1>8. CASE Observe(p)
  <2>1. row[p][at[p]] \in Rows /\ current[at[p]] \in Releases /\ highest[at[p]] \in Nat
    BY <1>3 DEF TypeOK
  <2>2. Seen(p, at[p]) \in Rows /\ Missed(p, at[p]) \in Rows
    BY <2>1 DEF Seen, Missed, Rows
  <2>3. row' \in [Publishers -> [Replicas -> Rows]]
    BY <1>3, <1>8, <2>2 DEF TypeOK, Observe
  <2>4. NumReplicas \in Nat \ {0} /\ 1 \in Replicas
    BY ReleasesAreNumbered DEF TypeOK
  <2>5. at' \in [Publishers -> Replicas]
    BY <1>3, <1>8, <2>4 DEF TypeOK, Observe, MoreReplicas, Replicas
  <2>6. pc' \in [Publishers -> Places]
    BY <1>8 DEF TypeOK, Observe, Places
  <2> QED BY <1>2, <1>8, <2>3, <2>5, <2>6 DEF TypeOK, Observe, replicaVars
<1> QED BY <1>4, <1>5, <1>6, <1>7, <1>8 DEF Publisher

\* Every step of a replica keeps the state well typed.
LEMMA ServerType ==
  ASSUME TypeOK, NEW p \in Publishers, NEW r \in Replicas, Server(p, r)
  PROVE  TypeOK'
<1>1. [Next]_vars
  BY DEF Next
<1>2. UNCHANGED <<deployment, Publishers, Target, NumReplicas, Replicas, Releases, Rows>>
  BY <1>1, DeploymentIsFixed
<1>3. Target[p] \in Releases /\ Target[p].g \in Nat
  BY ReleasesAreNumbered DEF TypeOK
<1>4. rpc' \in [Publishers -> [Replicas -> Calls]]
  BY CallsAreCalls DEF Server, PrepareBegins, PrepareEnds, PrepareAnswers, Activates, Calls
<1>5. CASE PrepareBegins(p, r)
  <2>1. Target[p].m \in {x.m : x \in Releases}
    BY <1>3
  <2> QED BY <1>2, <1>3, <1>4, <1>5, <2>1 DEF TypeOK, PrepareBegins
<1>6. CASE PrepareEnds(p, r)
  BY <1>2, <1>4, <1>6 DEF TypeOK, PrepareEnds
<1>7. CASE PrepareAnswers(p, r)
  BY <1>2, <1>4, <1>7 DEF TypeOK, PrepareAnswers, replicaVars
<1>8. CASE Activates(p, r)
  <2>1. current' \in [Replicas -> Releases]
    BY <1>3, <1>8 DEF TypeOK, Activates, Activatable
  <2> QED BY <1>2, <1>4, <1>8, <2>1 DEF TypeOK, Activates
<1> QED BY <1>5, <1>6, <1>7, <1>8 DEF Server

\* Every step keeps the state well typed.
LEMMA TypeStep ==
  ASSUME TypeOK, [Next]_vars
  PROVE  TypeOK'
<1>1. UNCHANGED <<deployment, Publishers, Target, NumReplicas, Replicas, Releases, Rows>>
  BY DeploymentIsFixed
<1>2. ASSUME NEW r \in Replicas, Restart(r) PROVE TypeOK'
  <2>1. Startup \in Releases /\ Startup.g \in Nat
    BY StartupAssumption DEF Releases
  <2>2. rpc' \in [Publishers -> [Replicas -> Calls]]
    BY <1>2 DEF TypeOK, Restart, Calls
  <2> QED BY <1>1, <1>2, <2>1, <2>2 DEF TypeOK, Restart
<1>3. CASE UNCHANGED vars
  BY <1>1, <1>3 DEF TypeOK, vars
<1> QED BY <1>2, <1>3, PublisherType, ServerType DEF Next

\* What a step does to a replica that it does not restart: it goes forward,
\* if it moves at all, and its fence never falls.
LEMMA ReplicasGoForward ==
  ASSUME IInv, [Next]_vars, NEW r \in Replicas, r \notin restarted'
  PROVE  /\ r \notin restarted
         /\ current'[r] = current[r] \/ current'[r].g > current[r].g
         /\ highest'[r] \in Nat /\ highest[r] \in Nat /\ highest'[r] >= highest[r]
<1>0. highest[r] \in Nat /\ TypeOK
  BY DEF IInv, TypeOK
<1>1. ASSUME NEW p \in Publishers, Publisher(p) PROVE UNCHANGED <<current, highest, restarted>>
  BY <1>1 DEF Publisher, Start, Before, Prepared, Activated, GiveUp, Observe, replicaVars
<1>2. ASSUME NEW p \in Publishers, NEW s \in Replicas, PrepareBegins(p, s)
      PROVE  /\ UNCHANGED <<current, restarted>>
             /\ highest'[r] \in Nat /\ highest'[r] >= highest[r]
  <2>1. Target[p].g \in Nat
    BY <1>0, ReleasesAreNumbered DEF TypeOK
  <2> QED BY <1>0, <1>2, <2>1 DEF PrepareBegins, Accepts, TypeOK
<1>3. ASSUME NEW p \in Publishers, NEW s \in Replicas, PrepareEnds(p, s) \/ PrepareAnswers(p, s)
      PROVE  UNCHANGED <<current, highest, restarted>>
  BY <1>3 DEF PrepareEnds, PrepareAnswers, replicaVars
<1>4. ASSUME NEW p \in Publishers, NEW s \in Replicas, Activates(p, s)
      PROVE  /\ UNCHANGED <<highest, restarted>>
             /\ current'[r] = current[r] \/ current'[r].g > current[r].g
  <2>1. Target[p] # None
    BY <1>0, ReleasesAreNumbered DEF TypeOK
  <2> QED BY <1>0, <1>4, <2>1 DEF Activates, Activatable, IInv, CandidateIsNewer, TypeOK
<1>5. ASSUME NEW s \in Replicas, Restart(s) PROVE UNCHANGED <<current[r], highest[r]>> /\ r \notin restarted
  BY <1>0, <1>5 DEF Restart, TypeOK
<1>6. CASE UNCHANGED vars
  BY <1>0, <1>6 DEF vars
<1> QED BY <1>0, <1>1, <1>2, <1>3, <1>4, <1>5, <1>6 DEF Next, Server

\* What a step does to a report: nothing, or it records what the replica
\* serves, and the replicas stay as they are.
LEMMA RowsAreObserved ==
  ASSUME IInv, [Next]_vars, NEW p \in Publishers, NEW r \in Replicas
  PROVE  \/ /\ row'[p][r].current = row[p][r].current
            /\ row'[p][r].highest = row[p][r].highest
         \/ /\ row'[p][r].current = current[r]
            /\ row'[p][r].highest = highest[r]
            /\ pc[p] # "start"
            /\ UNCHANGED <<current, highest, restarted, stale>>
<1>0. TypeOK
  BY DEF IInv
<1>1. ASSUME NEW q \in Publishers, Observe(q)
      PROVE  \/ row'[p][r] = row[p][r]
             \/ /\ row'[p][r].current = row[p][r].current
                /\ row'[p][r].highest = row[p][r].highest
             \/ /\ row'[p][r].current = current[r]
                /\ row'[p][r].highest = highest[r]
                /\ pc[p] # "start"
                /\ UNCHANGED <<current, highest, restarted, stale>>
  <2>1. UNCHANGED <<current, highest, restarted, stale>> /\ pc[q] # "start" /\ at[q] \in Replicas
    BY <1>0, <1>1 DEF Observe, replicaVars, TypeOK
  <2>2. PICK seen \in {Seen(q, at[q]), Missed(q, at[q])} : row' = [row EXCEPT ![q][at[q]] = seen]
    BY <1>1 DEF Observe
  <2>3. row'[p][r] = IF p = q /\ r = at[q] THEN seen ELSE row[p][r]
    BY <1>0, <2>1, <2>2 DEF TypeOK
  <2>4. row[q][at[q]] \in Rows
    BY <1>0, <2>1 DEF TypeOK
  <2>5. /\ Seen(q, at[q]).current = current[at[q]] /\ Seen(q, at[q]).highest = highest[at[q]]
        /\ Missed(q, at[q]).current = row[q][at[q]].current
        /\ Missed(q, at[q]).highest = row[q][at[q]].highest
    BY <2>4 DEF Seen, Missed, Rows
  <2> QED BY <2>1, <2>2, <2>3, <2>5
<1>2. CASE row' = row
  BY <1>2
<1>3. row' = row \/ \E q \in Publishers : Observe(q)
  BY DEF Next, Publisher, Start, Before, Prepared, Activated, GiveUp, Server, PrepareBegins,
         PrepareEnds, PrepareAnswers, Activates, Restart, vars
<1> QED BY <1>1, <1>2, <1>3

\* A candidate is accepted, or has been, only above the current release.
LEMMA CandidateStep ==
  ASSUME IInv, [Next]_vars
  PROVE  CandidateIsNewer'
<1>0. TypeOK /\ CandidateIsNewer
  BY DEF IInv
<1>1. Replicas' = Replicas
  BY DeploymentIsFixed
<1> SUFFICES ASSUME NEW r \in Replicas, candidate'[r] # None
             PROVE  candidate'[r].g > current'[r].g
  BY <1>1 DEF CandidateIsNewer
<1>2. ASSUME NEW p \in Publishers, Publisher(p) PROVE UNCHANGED <<current, candidate>>
  BY <1>2 DEF Publisher, Start, Before, Prepared, Activated, GiveUp, Observe, replicaVars
<1>3. ASSUME NEW p \in Publishers, NEW s \in Replicas, PrepareBegins(p, s)
      PROVE  candidate'[r].g > current'[r].g
  BY <1>0, <1>3 DEF PrepareBegins, Accepts, TypeOK, CandidateIsNewer
<1>4. ASSUME NEW p \in Publishers, NEW s \in Replicas, PrepareEnds(p, s) \/ PrepareAnswers(p, s)
      PROVE  candidate'[r].g > current'[r].g
  BY <1>0, <1>4 DEF PrepareEnds, PrepareAnswers, replicaVars, TypeOK, CandidateIsNewer
<1>5. ASSUME NEW p \in Publishers, NEW s \in Replicas, Activates(p, s)
      PROVE  candidate'[r].g > current'[r].g
  BY <1>0, <1>5 DEF Activates, TypeOK, CandidateIsNewer
<1>6. ASSUME NEW s \in Replicas, Restart(s) PROVE candidate'[r].g > current'[r].g
  BY <1>0, <1>6 DEF Restart, TypeOK, CandidateIsNewer
<1>7. CASE UNCHANGED vars
  BY <1>0, <1>7 DEF vars, CandidateIsNewer
<1> QED BY <1>0, <1>2, <1>3, <1>4, <1>5, <1>6, <1>7 DEF Next, Server, CandidateIsNewer

\* A replica that goes forward stays at or beyond what was seen of it.
LEMMA ObservedStep ==
  ASSUME IInv, [Next]_vars
  PROVE  ObservedIsServed' /\ ReportsAgree'
<1>1. UNCHANGED <<Replicas, Publishers>>
  BY DeploymentIsFixed
<1>2. ASSUME NEW p \in Publishers, NEW r \in Replicas, row[p][r].current # None
      PROVE  row[p][r].current.g \in Nat /\ current[r].g \in Nat /\ current'[r].g \in Nat
  <2>1. row[p][r].current \in Releases /\ current[r] \in Releases
    BY <1>2 DEF IInv, TypeOK, Rows
  <2>2. current'[r] \in Releases
    BY <1>1, TypeStep, DeploymentIsFixed DEF IInv, TypeOK
  <2> QED BY <2>1, <2>2, ReleasesAreNumbered DEF IInv, TypeOK
<1>3. ObservedIsServed'
  <2> SUFFICES ASSUME NEW p \in Publishers, NEW r \in Replicas, r \notin restarted',
                      row'[p][r].current # None
               PROVE  current'[r] = row'[p][r].current \/ current'[r].g > row'[p][r].current.g
    BY <1>1 DEF ObservedIsServed
  <2>1. r \notin restarted /\ (current'[r] = current[r] \/ current'[r].g > current[r].g)
    BY ReplicasGoForward
  <2>2. CASE row'[p][r].current = row[p][r].current
    <3>1. current[r] = row[p][r].current \/ current[r].g > row[p][r].current.g
      BY <2>1, <2>2 DEF IInv, ObservedIsServed
    <3>2. row[p][r].current.g \in Nat /\ current[r].g \in Nat /\ current'[r].g \in Nat
      BY <1>2, <2>2
    <3> QED BY <2>1, <2>2, <3>1, <3>2
  <2>3. CASE row'[p][r].current = current[r] /\ UNCHANGED current
    BY <2>3
  <2> QED BY <2>2, <2>3, RowsAreObserved
<1>4. ReportsAgree'
  <2> SUFFICES ASSUME NEW p \in Publishers, NEW q \in Publishers, NEW r \in Replicas, r \notin restarted',
                      row'[p][r].current # None, row'[q][r].current # None,
                      row'[p][r].current.g = row'[q][r].current.g
               PROVE  row'[p][r].current = row'[q][r].current
    BY <1>1 DEF ReportsAgree
  <2>1. r \notin restarted
    BY ReplicasGoForward
  <2>2. /\ row'[p][r].current = row[p][r].current \/ row'[p][r].current = current[r]
        /\ row'[q][r].current = row[q][r].current \/ row'[q][r].current = current[r]
    BY RowsAreObserved
  <2>3. ASSUME NEW z \in Publishers, row[z][r].current # None, row[z][r].current.g = current[r].g
        PROVE  row[z][r].current = current[r]
    BY <1>2, <2>1, <2>3 DEF IInv, ObservedIsServed
  <2>4. row[p][r].current # None /\ row[q][r].current # None /\ row[p][r].current.g = row[q][r].current.g
        => row[p][r].current = row[q][r].current
    BY <2>1 DEF IInv, ReportsAgree
  <2> QED BY <2>2, <2>3, <2>4
<1> QED BY <1>3, <1>4

\* A report begins after the publisher has started.
LEMMA NothingStep ==
  ASSUME IInv, [Next]_vars
  PROVE  NothingObserved'
<1>1. UNCHANGED <<Replicas, Publishers>>
  BY DeploymentIsFixed
<1> SUFFICES ASSUME NEW p \in Publishers, pc'[p] = "start", NEW r \in Replicas
             PROVE  row'[p][r].current = None
  BY <1>1 DEF NothingObserved
<1>2. pc[p] = "start"
  BY DEF IInv, TypeOK, Next, Publisher, Start, Before, Prepared, Activated, GiveUp, Observe, Move, Server,
         PrepareBegins, PrepareEnds, PrepareAnswers, Activates, Restart, vars
<1> QED BY <1>2, RowsAreObserved DEF IInv, NothingObserved

\* A fence above a stale publisher's release stays above it, and that is how
\* the publisher sees it.
LEMMA StaleStep ==
  ASSUME IInv, [Next]_vars
  PROVE  StaleIsBehind'
<1>1. UNCHANGED <<Replicas, Publishers, Target>>
  BY DeploymentIsFixed
<1>2. \A p \in Publishers : Target[p].g \in Nat
  BY ReleasesAreNumbered DEF IInv, TypeOK
<1>3. stale' \subseteq Publishers
  BY <1>1, TypeStep DEF IInv, TypeOK
<1> SUFFICES ASSUME restarted' = {}, NEW p \in stale'
             PROVE  \E r \in Replicas : /\ highest'[r] > Target[p].g
                                        /\ row'[p][r].current # None => row'[p][r].highest > Target[p].g
  BY <1>1 DEF StaleIsBehind
<1>4. p \in Publishers
  BY <1>3
<1>5. \A r \in Replicas : highest'[r] \in Nat /\ highest[r] \in Nat /\ highest'[r] >= highest[r]
  BY ReplicasGoForward
<1>6. restarted = {}
  BY DEF Next, Publisher, Start, Before, Prepared, Activated, GiveUp, Observe, Server, PrepareBegins,
         PrepareEnds, PrepareAnswers, Activates, Restart, replicaVars, vars
<1>7. CASE p \in stale
  <2>1. PICK r \in Replicas : /\ highest[r] > Target[p].g
                              /\ row[p][r].current # None => row[p][r].highest > Target[p].g
    BY <1>6, <1>7 DEF IInv, StaleIsBehind
  <2>2. highest'[r] > Target[p].g
    BY <1>2, <1>4, <1>5, <2>1
  <2>3. row'[p][r].current # None => row'[p][r].highest > Target[p].g
    BY <1>4, <2>1, RowsAreObserved
  <2> QED BY <2>2, <2>3
<1>8. CASE p \notin stale
  <2>1. Start(p)
    BY <1>8 DEF Next, Publisher, Start, Before, Prepared, Activated, GiveUp, Observe, Server, PrepareBegins,
         PrepareEnds, PrepareAnswers, Activates, Restart, vars
  <2>2. PICK r \in Replicas : highest[r] > Target[p].g
    BY <1>8, <2>1 DEF Start
  <2>3. row'[p][r].current = None /\ UNCHANGED highest
    BY <1>4, <2>1 DEF Start, Move, replicaVars, IInv, NothingObserved
  <2> QED BY <2>2, <2>3
<1> QED BY <1>7, <1>8

\* The invariant is inductive.
LEMMA StepIInv == IInv /\ [Next]_vars => IInv'
<1> SUFFICES ASSUME IInv, [Next]_vars PROVE IInv'
  OBVIOUS
<1>1. TypeOK'
  BY TypeStep DEF IInv
<1> QED BY <1>1, CandidateStep, ObservedStep, NothingStep, StaleStep DEF IInv

\* The inductive invariant holds in every reachable state.
THEOREM Invariance == Spec => []IInv
BY InitIInv, StepIInv, PTL DEF Spec

\* publish(): a report of convergence stays true of every replica that kept
\* running, until a newer generation, and no two reports contradict each other
\* about a generation, whatever is retried, late, lost or restarted.
THEOREM ReportsStayTrue == Spec => []ReportsAreTrue
BY Invariance, TrueReports, PTL

\* publish(): a publisher that starts under a higher fence does not report
\* convergence, as long as no replica loses its fence in a restart.
THEOREM StaleNeverSucceeds == Spec => []StaleIsNotSuccess
BY Invariance, StaleFails, PTL
=============================================================================
