----------------------------- MODULE FlatBuild -----------------------------
(***************************************************************************)
(* The exact index as a library, and inside the tool that builds a file    *)
(* from JSONL (build_index in src/tools/build_flat_index.cpp): parse each  *)
(* line, add the record, save, and load the file again to verify it.  The  *)
(* publication of the verified file is DurablePublish.                     *)
(*                                                                         *)
(* FlatIndex knows a vector by its score against one query.  Here score s  *)
(* belongs to the unit vector along axis s + 1, for the query whose        *)
(* components are 0, 1, 2, ...                                             *)
(***************************************************************************)
EXTENDS FlatIndex, FlatIndexFile, VectorJsonl

CONSTANTS
    Expected,   \* the values of --expected-count: {} or {n}
    Cells,      \* what a damaged cell can hold
    MaxRecords  \* the longest input (a bound)

ASSUME ScoresAssumption == Scores # {} /\ IsFiniteSet(Scores) /\ Scores = 0..(Cardinality(Scores) - 1)
ASSUME NumbersAssumption == Cells \subseteq Nat /\ \A t \in Numbers : Number[t] \in Ids

VARIABLES
    stage,      \* "library", or how far build_index is
    line,       \* the tokens of the current line
    cursor,     \* the parser
    expected,   \* --expected-count
    file,       \* the temporary file
    given       \* history: the records of the lines that were read, in order

toolVars == <<stage, line, cursor, expected, file, given>>
buildVars == <<vars, toolVars>>

Dimension == Cardinality(Scores)
Axis(v) == [c \in 1..Dimension |-> IF c = v + 1 THEN 1 ELSE 0]
NoFile == FlatSaved(1, <<>>, <<>>)

BuildInit ==
    /\ Init
    /\ stage \in {"library", "reading"}
    /\ line = <<>> /\ cursor = Start
    /\ expected \in IF stage = "library" THEN {{}} ELSE Expected
    /\ file = NoFile
    /\ given = <<>>

\* add(), a failing add() and erase() called directly.
Library == stage = "library" /\ Next /\ UNCHANGED toolVars

\* Bound: at most MaxRecords lines, no more values than the index has
\* dimensions, and only one of them other than zero.
Fed(t) ==
    /\ Len(given) < MaxRecords
    /\ cursor.at = "afterValue" => t # "comma" \/ Len(cursor.values) < Dimension
    /\ cursor.at \in {"value", "firstValue"} /\ t \in Numbers /\ Number[t] # 0 =>
          \A e \in DOMAIN cursor.values : cursor.values[e] = 0

\* The next token of the line; an error ends the tool.
ReadToken(t) ==
    /\ stage = "reading"
    /\ Fed(t)
    /\ line' = Append(line, t)
    /\ cursor' = Advance(cursor, t)
    /\ stage' = IF cursor'.at = "failed" THEN "failed" ELSE stage
    /\ UNCHANGED <<vars, expected, file, given>>

\* The dimension check of add(), and normalize_l2, which refuses a vector
\* without a direction.
HasDirection(values) ==
    /\ Len(values) = Dimension
    /\ \E e \in DOMAIN values : values[e] # 0

Normalized(values) == (CHOOSE e \in DOMAIN values : values[e] # 0) - 1

Fail == stage' = "failed" /\ UNCHANGED <<expected, file, given>>

\* The end of a line with text: the record is added, or the tool ends.  A blank
\* line changes nothing.
EndLine ==
    /\ stage = "reading"
    /\ line # <<>>
    /\ \/ /\ Complete(cursor) /\ HasDirection(cursor.values)
          /\ cursor.id \notin DOMAIN idToRow
          /\ Add(cursor.id, Normalized(cursor.values))
          /\ given' = Append(given, [id |-> cursor.id, values |-> cursor.values])
          /\ line' = <<>> /\ cursor' = Start
          /\ UNCHANGED <<stage, expected, file>>
       \/ /\ Complete(cursor) /\ HasDirection(cursor.values)
          /\ AddThrows(cursor.id)
          /\ Fail /\ UNCHANGED <<line, cursor>>
       \/ /\ ~(Complete(cursor) /\ HasDirection(cursor.values) /\ cursor.id \notin DOMAIN idToRow)
          /\ Fail /\ UNCHANGED <<vars, line, cursor>>

CountMatches == \A n \in expected : n = Len(ids)

\* The end of the input: the count is checked and the file is written.
Save ==
    /\ stage = "reading"
    /\ line = <<>>
    /\ IF CountMatches
       THEN /\ stage' = "saved"
            /\ file' = FlatSaved(Dimension, ids, [n \in 1..Len(ids) |-> Axis(vectors[n])])
       ELSE stage' = "failed" /\ UNCHANGED file
    /\ UNCHANGED <<vars, line, cursor, expected, given>>

\* One cell of the file, or its length, is not what was written.
Damaged(f) ==
    {[f EXCEPT ![h] = c] : h \in {"format", "dimension", "count", "payload"}, c \in Cells}
    \union {[f EXCEPT !.cells[n] = c] : n \in DOMAIN f.cells, c \in Cells}
    \union {[f EXCEPT !.cells = SubSeq(@, 1, n)] : n \in 0..Len(f.cells)}
    \union {[f EXCEPT !.cells = Append(@, c)] : c \in Cells}

Damage ==
    /\ stage = "saved"
    /\ \E f \in Damaged(file) \ {file} : file' = f
    /\ stage' = "damaged"
    /\ UNCHANGED <<vars, line, cursor, expected, given>>

\* Mutation: only the number of vectors is compared.
VerifiedSize(f) == FlatLoads(f) /\ Len(FlatLoaded(f).ids) = Len(ids)

\* The file loads, with the size and the dimension of the index.
Verified(f) ==
    /\ FlatLoads(f)
    /\ Len(FlatLoaded(f).ids) = Len(ids)
    /\ FlatLoaded(f).dimension = Dimension

Verify ==
    /\ stage \in {"saved", "damaged"}
    /\ stage' = IF Verified(file) THEN "verified" ELSE "failed"
    /\ UNCHANGED <<vars, line, cursor, expected, file, given>>

BuildNext ==
    \/ Library
    \/ \E t \in Tokens : ReadToken(t)
    \/ EndLine \/ Save \/ Damage \/ Verify

BuildSpec == BuildInit /\ [][BuildNext]_buildVars

-----------------------------------------------------------------------------

\* The numbers that a line of the input can list.
Lists == UNION {[1..n -> Numbers] : n \in 0..Dimension}

\* The parser refuses no line that describes a record, and a line it accepts
\* describes the record with the ID and the values that it returns: no member
\* is missing, repeated or unknown, and no comma is left over.
LineIsParsed ==
    stage \in {"reading", "failed"} =>
        /\ cursor.at = "failed" =>
              \A n \in Numbers, ns \in Lists : \A w \in Writings(n, ns) : ~IsPrefix(line, w)
        /\ Complete(cursor) =>
              \E n \in Numbers, ns \in Lists :
                  /\ line \in Writings(n, ns)
                  /\ cursor.id = Number[n]
                  /\ cursor.values = [e \in DOMAIN ns |-> Number[ns[e]]]

\* A file that was verified holds exactly the records of the input, normalized,
\* in their order and as many as announced, even if it was damaged after it was
\* written; its header, which the checksum does not cover, included.
BuiltIsInput ==
    stage = "verified" =>
        /\ FlatLoaded(file) = [dimension |-> Dimension, ids |-> ids,
                               rows |-> [n \in 1..Len(ids) |-> Axis(vectors[n])]]
        /\ Len(ids) = Len(given)
        /\ \A n \in 1..Len(ids) : ids[n] = given[n].id /\ vectors[n] = Normalized(given[n].values)
        /\ CountMatches
=============================================================================
