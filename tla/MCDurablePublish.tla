-------------------------- MODULE MCDurablePublish --------------------------
(* A model-checking instance of DurablePublish. *)
EXTENDS DurablePublish

CONSTANTS p1, p2, p3, p4

\* Two runs that replace, one of each tool, and one run of each that does not.
MCRuns == {p1, p2, p3, p4}
MCOverwriters == {p1, p2}
MCBuilders == {p2, p4}
=============================================================================
