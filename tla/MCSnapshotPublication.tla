----------------------- MODULE MCSnapshotPublication -----------------------
(* Model-checking instances of SnapshotPublication. *)
EXTENDS SnapshotPublication

CONSTANTS h1, h2, a, b, r1, r2

\* The startup file; the same bytes under another label; another file, well
\* described or not; and a manifest that validate_manifest refuses.
MCStartup == [id |-> a, rev |-> r1, valid |-> TRUE, loads |-> TRUE]
MCRelabelled == [MCStartup EXCEPT !.rev = r2]
MCOther == [MCStartup EXCEPT !.id = b]
MCWrongShape == [MCOther EXCEPT !.loads = FALSE, !.rev = r2]
MCInvalid == [MCOther EXCEPT !.valid = FALSE]
MCManifests == {MCStartup, MCRelabelled, MCOther, MCWrongShape, MCInvalid}
MCHandlers == {h1, h2}
=============================================================================
