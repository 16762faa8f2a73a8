--------------------------- MODULE RollingRelease ---------------------------
(***************************************************************************)
(* Rolling a release over several replicas: publish() of                   *)
(* src/scripts/publish_snapshots.py, run by several uncoordinated          *)
(* publishers, against replicas that follow                                *)
(* src/service/snapshot_publication.cpp.                                   *)
(*                                                                         *)
(* A publisher handles the replicas one after the other; an RPC is a       *)
(* request, the server's steps and an answer, and the client may give up   *)
(* between any two of them while the server goes on.  A replica is the     *)
(* manager of SnapshotPublication with the steps of one preparation merged *)
(* into two.  A restart loses the fence, which is local to the process.    *)
(* Every listed replica has publication enabled.  Not modelled: timings,   *)
(* download errors (a preparation that fails) and the texts of the report. *)
(***************************************************************************)
EXTENDS Naturals, FiniteSets

CONSTANTS
    Deployments,    \* what can be run: the releases to publish, [m |-> manifest,
                    \* g |-> generation] by publisher, the length of the replica
                    \* list, and a bound on replicas that restart, each once
    Startup,        \* the release every replica starts with
    None            \* no candidate, nothing observed

ASSUME DeploymentsAssumption ==
    \A d \in Deployments :
        /\ d.replicas \in Nat \ {0} /\ d.restarts \in Nat
        /\ \A p \in DOMAIN d.target : d.target[p].g \in Nat \ {0} /\ d.target[p] # None
ASSUME StartupAssumption == Startup.g \in Nat

VARIABLES
    deployment, \* the one of Deployments that is run
    current,    \* the release each replica serves
    state,      \* status_.state of each replica
    candidate,  \* candidate_ and its identity
    highest,    \* status_.highest_generation
    manifest,   \* manifest_, which the generation at the fence is bound to
    restarted,  \* the replicas that have been restarted
    pc,         \* where each publisher is
    at,         \* the replica it is at
    rpc,        \* the PrepareSnapshot or ActivateSnapshot call of p at r
    row,        \* the report of p: what it last observed of r
    stale       \* history: publishers that started under a higher fence

Publishers == DOMAIN deployment.target
Target == deployment.target
NumReplicas == deployment.replicas
Replicas == 1..NumReplicas
Releases == {Target[p] : p \in Publishers} \union {Startup}

vars == <<deployment, current, state, candidate, highest, manifest, restarted, pc, at, rpc, row, stale>>
replicaVars == <<deployment, current, state, candidate, highest, manifest, restarted>>

Places == {"start", "before", "preparing", "activating", "observe", "reobserve", "done"}
Calls == {"none", "prepareSent", "prepareRunning", "prepareEnded", "ready",
          "activateSent", "activated", "failed"}
Rows == [current : Releases \union {None}, highest : Nat, error : BOOLEAN]

\* Type invariant.
TypeOK ==
    /\ deployment \in Deployments
    /\ current \in [Replicas -> Releases]
    /\ state \in [Replicas -> {"SERVING", "PREPARING", "READY_TO_ACTIVATE", "FAILED"}]
    /\ candidate \in [Replicas -> Releases \union {None}]
    /\ highest \in [Replicas -> Nat]
    /\ manifest \in [Replicas -> {x.m : x \in Releases} \union {None}]
    /\ restarted \subseteq Replicas
    /\ pc \in [Publishers -> Places]
    /\ at \in [Publishers -> Replicas]
    /\ rpc \in [Publishers -> [Replicas -> Calls]]
    /\ row \in [Publishers -> [Replicas -> Rows]]
    /\ stale \subseteq Publishers

Init ==
    /\ deployment \in Deployments
    /\ current = [r \in Replicas |-> Startup]
    /\ state = [r \in Replicas |-> "SERVING"]
    /\ candidate = [r \in Replicas |-> None]
    /\ highest = [r \in Replicas |-> Startup.g]
    /\ manifest = [r \in Replicas |-> None]
    /\ restarted = {}
    /\ pc = [p \in Publishers |-> "start"]
    /\ at = [p \in Publishers |-> 1]
    /\ rpc = [p \in Publishers |-> [r \in Replicas |-> "none"]]
    /\ row = [p \in Publishers |-> [r \in Replicas |-> [current |-> None, highest |-> 0, error |-> FALSE]]]
    /\ stale = {}

-----------------------------------------------------------------------------
(* The publisher *)

Move(p, from, to) == pc[p] = from /\ pc' = [pc EXCEPT ![p] = to]
Call(p, r, c) == rpc' = [rpc EXCEPT ![p][r] = c]

\* What a call ends with, and what is left of it if nobody waits any more.
Answers == {"ready", "activated", "failed"}
Answer(p, r, c) ==
    Call(p, r, IF at[p] = r /\ pc[p] \in {"preparing", "activating"} THEN c ELSE "none")

Start(p) ==
    /\ Move(p, "start", "before")
    /\ stale' = IF \E r \in Replicas : highest[r] > Target[p].g THEN stale \union {p} ELSE stale
    /\ UNCHANGED <<replicaVars, at, rpc, row>>

\* The first GetStats decides what this replica still needs.
Before(p) ==
    LET r == at[p] IN
    /\ pc[p] = "before"
    /\ \/ /\ highest[r] > Target[p].g \/ current[r] = Target[p]
          /\ pc' = [pc EXCEPT ![p] = "observe"]
          /\ UNCHANGED rpc
       \/ /\ highest[r] <= Target[p].g
          /\ current[r] # Target[p]
          /\ candidate[r] = Target[p] /\ state[r] = "READY_TO_ACTIVATE"
          /\ pc' = [pc EXCEPT ![p] = "activating"]
          /\ Call(p, r, "activateSent")
       \/ /\ highest[r] <= Target[p].g
          /\ current[r] # Target[p]
          /\ ~(candidate[r] = Target[p] /\ state[r] = "READY_TO_ACTIVATE")
          /\ pc' = [pc EXCEPT ![p] = "preparing"]
          /\ Call(p, r, "prepareSent")
    /\ UNCHANGED <<replicaVars, at, row, stale>>

\* The answer to PrepareSnapshot names the target as the READY candidate.
Prepared(p) ==
    /\ Move(p, "preparing", "activating")
    /\ rpc[p][at[p]] = "ready"
    /\ Call(p, at[p], "activateSent")
    /\ UNCHANGED <<replicaVars, at, row, stale>>

Activated(p) ==
    /\ Move(p, "activating", "observe")
    /\ rpc[p][at[p]] = "activated"
    /\ Call(p, at[p], "none")
    /\ UNCHANGED <<replicaVars, at, row, stale>>

\* An RPC fails, its deadline passes (the call may go on), or the answer does
\* not name the candidate.
GiveUp(p) ==
    /\ pc[p] \in {"before", "preparing", "activating"}
    /\ pc' = [pc EXCEPT ![p] = "observe"]
    /\ rpc' = [rpc EXCEPT ![p][at[p]] = IF @ \in Answers THEN "none" ELSE @]
    /\ UNCHANGED <<replicaVars, at, row, stale>>

\* observe_status: an error in a row stays there.
Seen(p, r) == [row[p][r] EXCEPT !.current = current[r], !.highest = highest[r]]
Missed(p, r) == [row[p][r] EXCEPT !.error = TRUE]

MoreReplicas(p) == at[p] < NumReplicas

\* GetStats after the attempt at a replica, then the next replica; after the
\* last one, all replicas are observed again.
Observe(p) ==
    /\ pc[p] \in {"observe", "reobserve"}
    /\ \E seen \in {Seen(p, at[p]), Missed(p, at[p])} : row' = [row EXCEPT ![p][at[p]] = seen]
    /\ IF MoreReplicas(p)
       THEN /\ at' = [at EXCEPT ![p] = @ + 1]
            /\ pc' = [pc EXCEPT ![p] = IF @ = "observe" THEN "before" ELSE @]
       ELSE /\ at' = [at EXCEPT ![p] = 1]
            /\ pc' = [pc EXCEPT ![p] = IF @ = "observe" THEN "reobserve" ELSE "done"]
    /\ UNCHANGED <<replicaVars, rpc, stale>>

\* Mutation: the fence is not part of a match.
MatchesCurrent(p, r) == row[p][r].current = Target[p] /\ ~row[p][r].error

\* Mutation: the generation is taken for the release.
MatchesGeneration(p, r) ==
    /\ row[p][r].current # None
    /\ row[p][r].current.g = Target[p].g
    /\ ~row[p][r].error
    /\ row[p][r].highest = Target[p].g

Matches(p, r) ==
    /\ row[p][r].current = Target[p]
    /\ ~row[p][r].error
    /\ row[p][r].highest = Target[p].g

\* report["converged"]
Converged(p) == pc[p] = "done" /\ \A r \in Replicas : Matches(p, r)

-----------------------------------------------------------------------------
(* The replica *)

\* The conditions of begin().
Accepts(r, x) ==
    /\ state[r] # "PREPARING"
    /\ x.g > current[r].g
    /\ x.g >= highest[r]
    /\ x.g = highest[r] => x.m = manifest[r]

PrepareBegins(p, r) ==
    /\ rpc[p][r] = "prepareSent"
    /\ IF Accepts(r, Target[p])
       THEN /\ state' = [state EXCEPT ![r] = "PREPARING"]
            /\ candidate' = [candidate EXCEPT ![r] = Target[p]]
            /\ highest' = [highest EXCEPT ![r] = Target[p].g]
            /\ manifest' = [manifest EXCEPT ![r] = Target[p].m]
            /\ Call(p, r, "prepareRunning")
            /\ UNCHANGED <<current, restarted>>
       ELSE /\ state' = [state EXCEPT ![r] = IF @ \in {"SERVING", "FAILED"} THEN "FAILED" ELSE @]
            /\ Answer(p, r, "failed")
            /\ UNCHANGED <<current, candidate, highest, manifest, restarted>>
    /\ UNCHANGED <<deployment, pc, at, row, stale>>

\* complete() installs the candidate, or fail() clears it.
PrepareEnds(p, r) ==
    /\ rpc[p][r] = "prepareRunning"
    /\ \/ /\ state' = [state EXCEPT ![r] = "READY_TO_ACTIVATE"]
          /\ Call(p, r, "prepareEnded")
          /\ UNCHANGED candidate
       \/ /\ state' = [state EXCEPT ![r] = "FAILED"]
          /\ candidate' = [candidate EXCEPT ![r] = None]
          /\ Answer(p, r, "failed")
    /\ UNCHANGED <<deployment, current, highest, manifest, restarted, pc, at, row, stale>>

\* The answer is filled from status(), after complete() released the mutex.
PrepareAnswers(p, r) ==
    /\ rpc[p][r] = "prepareEnded"
    /\ Answer(p, r, IF candidate[r] = Target[p] /\ state[r] = "READY_TO_ACTIVATE"
                    THEN "ready" ELSE "failed")
    /\ UNCHANGED <<replicaVars, pc, at, row, stale>>

Activatable(r, x) ==
    x.g >= highest[r] /\ state[r] = "READY_TO_ACTIVATE" /\ candidate[r] = x

\* activate(): the pending candidate, or the current release once more.
Activates(p, r) ==
    /\ rpc[p][r] = "activateSent"
    /\ \/ /\ Activatable(r, Target[p])
          /\ current' = [current EXCEPT ![r] = candidate[r]]
          /\ candidate' = [candidate EXCEPT ![r] = None]
          /\ state' = [state EXCEPT ![r] = "SERVING"]
          /\ Answer(p, r, "activated")
       \/ /\ current[r] = Target[p]
          /\ Target[p].g >= highest[r]
          /\ state' = [state EXCEPT ![r] = "SERVING"]
          /\ Answer(p, r, "activated")
          /\ UNCHANGED <<current, candidate>>
       \/ /\ ~Activatable(r, Target[p])
          /\ current[r] # Target[p] \/ Target[p].g < highest[r]
          /\ Answer(p, r, "failed")
          /\ UNCHANGED <<current, candidate, state>>
    /\ UNCHANGED <<deployment, highest, manifest, restarted, pc, at, row, stale>>

\* The process is restarted with its startup arguments; its calls are lost.
Restart(r) ==
    /\ r \notin restarted
    /\ Cardinality(restarted) < deployment.restarts
    /\ restarted' = restarted \union {r}
    /\ current' = [current EXCEPT ![r] = Startup]
    /\ state' = [state EXCEPT ![r] = "SERVING"]
    /\ candidate' = [candidate EXCEPT ![r] = None]
    /\ highest' = [highest EXCEPT ![r] = Startup.g]
    /\ manifest' = [manifest EXCEPT ![r] = None]
    /\ rpc' = [p \in Publishers |->
                  [rpc[p] EXCEPT ![r] = IF at[p] = r /\ pc[p] \in {"preparing", "activating"}
                                        THEN "failed" ELSE "none"]]
    /\ UNCHANGED <<deployment, pc, at, row, stale>>

-----------------------------------------------------------------------------

Publisher(p) ==
    \/ Start(p) \/ Before(p) \/ Prepared(p) \/ Activated(p) \/ GiveUp(p) \/ Observe(p)

Server(p, r) == PrepareBegins(p, r) \/ PrepareEnds(p, r) \/ PrepareAnswers(p, r) \/ Activates(p, r)

Next ==
    \/ \E p \in Publishers : Publisher(p)
    \/ \E p \in Publishers, r \in Replicas : Server(p, r)
    \/ \E r \in Replicas : Restart(r)

Spec == Init /\ [][Next]_vars

-----------------------------------------------------------------------------

\* The state is well typed, and a report of convergence is true and stays true
\* until a newer release: each replica that kept running serves the target or
\* a later generation.
ConvergedIsServed ==
    /\ TypeOK
    /\ \A p \in Publishers : Converged(p) =>
          \A r \in Replicas \ restarted :
              current[r] = Target[p] \/ current[r].g > Target[p].g

\* Of two publishers that use one generation for different releases, at most
\* one reports convergence, whatever is retried, late or lost.
OneReleasePerGeneration ==
    \A p, q \in Publishers :
        /\ Converged(p) /\ Converged(q)
        /\ Target[p].g = Target[q].g
        /\ restarted # Replicas
        => Target[p] = Target[q]

\* Reports of convergence are true, and no two contradict each other.
ReportsAreTrue == ConvergedIsServed /\ OneReleasePerGeneration

\* A publisher that started when a higher generation had been accepted does
\* not report convergence, even if its release is served everywhere.
StaleIsNotSuccess ==
    restarted = {} => \A p \in stale : ~Converged(p)

=============================================================================
