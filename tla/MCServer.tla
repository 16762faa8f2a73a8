------------------------------ MODULE MCServer ------------------------------
(* A model-checking instance of Server: one call of each kind, and the    *)
(* combinations of options, with a manifest of the first file and           *)
(* generation 1, or none.                                                   *)
EXTENDS Server

CONSTANTS c1, c2, c3

MCCalls == {c1, c2, c3}
MCKind == [c \in MCCalls |-> IF c = c1 THEN "unary" ELSE IF c = c2 THEN "search" ELSE "stream"]

\* A read-only empty index behaves like a writable one here, and a managed
\* replica without publication like one with it.
MCConfigs ==
    {c \in Options :
        /\ c.manifest \in {0, 1} /\ c.generation \in {0, 1}
        /\ c.readOnly => c.load
        /\ c.manifest # 0 /\ c.generation # 0 => c.publication}
=============================================================================
