---------------------------- MODULE VectorJsonl ----------------------------
(***************************************************************************)
(* The parser of one JSONL record (src/tools/vector_jsonl.cpp), one token  *)
(* at a time.  Whitespace between tokens is skipped.  The punctuation is   *)
(* named by what it does: { and } open and close the object, [ and ] the   *)
(* array.  A key is one token, and so is a number; any other text is the   *)
(* token "text", which is also a key with an escape, a number out of range *)
(* or an ID with a leading zero.                                           *)
(***************************************************************************)
EXTENDS Naturals, Sequences, SequencesExt

CONSTANTS
    Number      \* the numbers of the input, by token

Numbers == DOMAIN Number
Keys == {"id", "values", "otherKey"}
Punctuation == {"openObject", "closeObject", "openArray", "closeArray", "colon", "comma"}
Tokens == Punctuation \union Keys \union {"text"} \union Numbers

ASSUME TokensAssumption ==
    Numbers # {} /\ Numbers \intersect (Punctuation \union Keys \union {"text"}) = {}

\* The locals of parse_vector_json_line: where it is, the key it has read, and
\* what it has of the record.
Start == [at |-> "object", key |-> "none", hasId |-> FALSE, hasValues |-> FALSE, id |-> 0, values |-> <<>>]
Failed == [Start EXCEPT !.at = "failed"]

\* Mutation: a comma may be followed by the end of the array.
ValueAfterComma(c, t) ==
    IF t = "closeArray" THEN [c EXCEPT !.at = "member"]
    ELSE IF t \in Numbers THEN [c EXCEPT !.at = "afterValue", !.values = Append(@, Number[t])] ELSE Failed

\* parse_float inside an array.
Value(c, t) ==
    IF t \in Numbers THEN [c EXCEPT !.at = "afterValue", !.values = Append(@, Number[t])] ELSE Failed

\* The member that a key announces: each once, and no other.
Member(c) ==
    CASE c.key = "id" /\ ~c.hasId         -> [c EXCEPT !.at = "id", !.hasId = TRUE]
      [] c.key = "values" /\ ~c.hasValues -> [c EXCEPT !.at = "array", !.hasValues = TRUE]
      [] OTHER                            -> Failed

\* What one token makes of the cursor.
Advance(c, t) ==
    CASE c.at = "object" /\ t = "openObject"        -> [c EXCEPT !.at = "key"]
      [] c.at = "key" /\ t \in Keys                 -> [c EXCEPT !.at = "colon", !.key = t]
      [] c.at = "colon" /\ t = "colon"              -> Member(c)
      [] c.at = "id" /\ t \in Numbers               -> [c EXCEPT !.at = "member", !.id = Number[t]]
      [] c.at = "array" /\ t = "openArray"          -> [c EXCEPT !.at = "firstValue"]
      [] c.at = "firstValue" /\ t = "closeArray"    -> [c EXCEPT !.at = "member"]
      [] c.at = "firstValue" /\ t # "closeArray"    -> Value(c, t)
      [] c.at = "value"                             -> Value(c, t)
      [] c.at = "afterValue" /\ t = "closeArray"    -> [c EXCEPT !.at = "member"]
      [] c.at = "afterValue" /\ t = "comma"         -> [c EXCEPT !.at = "value"]
      [] c.at = "member" /\ t = "closeObject"       -> [c EXCEPT !.at = "end"]
      [] c.at = "member" /\ t = "comma"             -> [c EXCEPT !.at = "key"]
      [] OTHER                                      -> Failed

\* The end of the line.
Complete(c) == c.at = "end" /\ c.hasId /\ c.hasValues

-----------------------------------------------------------------------------
(* The lines that describe a record *)

Listed(ns) == [i \in 1..(2 * Len(ns) - 1) |-> IF i % 2 = 1 THEN ns[(i + 1) \div 2] ELSE "comma"]
IdMember(n) == <<"id", "colon", n>>
ValuesMember(ns) == <<"values", "colon", "openArray">> \o Listed(ns) \o <<"closeArray">>

\* The two ways to write the record with ID n and values ns.
Writings(n, ns) ==
    {<<"openObject">> \o IdMember(n) \o <<"comma">> \o ValuesMember(ns) \o <<"closeObject">>,
     <<"openObject">> \o ValuesMember(ns) \o <<"comma">> \o IdMember(n) \o <<"closeObject">>}
=============================================================================
