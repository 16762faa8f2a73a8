----------------------------- MODULE VectorMap -----------------------------
(***************************************************************************)
(* What an index promises: a map from vector IDs to vectors.  A vector is  *)
(* known by its score against the query, which is all a search tells apart.*)
(***************************************************************************)
EXTENDS Naturals, Sequences, FiniteSets, Functions

CONSTANTS Ids, Scores

VARIABLE content    \* the vector of each stored ID

Init == content = [i \in {} |-> 0]

Insert(i, v) ==
    /\ i \notin DOMAIN content
    /\ content' = [j \in DOMAIN content \union {i} |-> IF j = i THEN v ELSE content[j]]

Remove(i) ==
    /\ i \in DOMAIN content
    /\ content' = Restrict(content, DOMAIN content \ {i})

Next ==
    \/ \E i \in Ids, v \in Scores : Insert(i, v)
    \/ \E i \in Ids : Remove(i)

Spec == Init /\ [][Next]_content

-----------------------------------------------------------------------------

\* The order of results: the higher score first, the lower ID among equals.
Better(a, b) == a.score > b.score \/ (a.score = b.score /\ a.id < b.id)

\* s is the answer to a search for k neighbours: as many results as there can
\* be, in order, and none that was left out belongs before one of them.
IsTopK(s, k) ==
    LET All == {[id |-> i, score |-> content[i]] : i \in DOMAIN content}
        Found == {s[n] : n \in DOMAIN s}
    IN  /\ Len(s) = IF k <= Cardinality(All) THEN k ELSE Cardinality(All)
        /\ Found \subseteq All
        /\ \A m, n \in DOMAIN s : m < n => Better(s[m], s[n])
        /\ \A a \in All \ Found, b \in Found : Better(b, a)
=============================================================================
