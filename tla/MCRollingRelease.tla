-------------------------- MODULE MCRollingRelease --------------------------
(* A model-checking instance of RollingRelease. *)
EXTENDS RollingRelease, TLC

CONSTANTS p1, p2, p3, ma, mb, m0

MCStartup == [m |-> m0, g |-> 1]

\* Two publishers use generation 2 for different manifests.
Rivals == p1 :> [m |-> ma, g |-> 2] @@ p2 :> [m |-> mb, g |-> 2]
\* A retry of the same release next to a newer one.
Retry == p1 :> [m |-> ma, g |-> 2] @@ p2 :> [m |-> mb, g |-> 3] @@ p3 :> [m |-> ma, g |-> 2]

MCDeployments == {[target |-> Rivals, replicas |-> 2, restarts |-> 0],
                  [target |-> Retry, replicas |-> 1, restarts |-> 1]}
=============================================================================
