-------------------------- MODULE ReleaseRegister --------------------------
(***************************************************************************)
(* What a managed replica promises about releases                          *)
(* (src/docs/snapshot_publication.md): a register with a fence.            *)
(*                                                                         *)
(* A generation is proposed with one description for good; proposing it    *)
(* raises the fence.  Only the generation at the fence can be released,    *)
(* only with the description it was proposed with, and only forwards.      *)
(***************************************************************************)
EXTENDS Naturals

CONSTANTS
    Generations,    \* generation 0 is an unmanaged publication
    Descriptions,   \* what a generation can be proposed with
    Contents,       \* what can be served
    None            \* not proposed

VARIABLES
    fence,      \* the highest generation accepted so far
    proposed,   \* the description each generation is bound to, or None
    released,   \* the generation that is being served
    content     \* what is being served

vars == <<fence, proposed, released, content>>

Init ==
    /\ released \in Generations
    /\ fence = released
    /\ content \in Contents
    /\ \E d \in Descriptions :
          /\ proposed = [g \in Generations |-> IF g = released THEN d ELSE None]
          /\ released # 0 => content = d

Propose(g, d) ==
    /\ g >= fence
    /\ g > released
    /\ proposed[g] \in {None, d}
    /\ fence' = g
    /\ proposed' = [proposed EXCEPT ![g] = d]
    /\ UNCHANGED <<released, content>>

Release(g) ==
    /\ g = fence
    /\ g > released
    /\ proposed[g] # None
    /\ released' = g
    /\ content' = proposed[g]
    /\ UNCHANGED <<fence, proposed>>

\* An unmanaged publication is replaced by another one.
Reload(c) ==
    /\ released = 0
    /\ content' = c
    /\ UNCHANGED <<fence, proposed, released>>

Next ==
    \/ \E g \in Generations, d \in Descriptions : Propose(g, d)
    \/ \E g \in Generations : Release(g)
    \/ \E c \in Contents : Reload(c)

Spec == Init /\ [][Next]_vars
=============================================================================
