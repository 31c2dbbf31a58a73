-------------------------------- MODULE Matrix --------------------------------
(***************************************************************************)
(* The rows of a job's matrix.  A definition has dimensions with values,   *)
(* combinations to exclude and combinations to include; it is written in   *)
(* the workflow, is the value of an expression of the workflow, or is the  *)
(* output of a job, which a stage reads with a stricter reader while the   *)
(* build runs.  All end in expandMatrixDefinition, and every row becomes a *)
(* step with a key of its own.                                             *)
(*                                                                         *)
(* Names and values are model values: Fold has the lower case of a name,   *)
(* Canon the number or text that a value stands for.                       *)
(***************************************************************************)
EXTENDS Naturals, Sequences, FiniteSets, SequencesExt, FiniteSetsExt, Functions, TLC

CONSTANTS Definitions,  \* records: rows, include, exclude, hasInclude
          Alphabet,     \* names in the order of sort.Strings
          Fold,         \* [names -> their lower case]
          Canon,        \* [values -> canonical values]
          Scalars,      \* values that are not arrays or objects
          Neighbours,      \* sets of rows whose keys the graph has
          MaxInstances  \* maxMatrixInstances, MaxRuntimeMatrixInstances

VARIABLES
    matrix,  \* the definition
    taken,   \* rows whose keys other jobs of the graph have
    reads    \* [form -> what the readers that have run made of it]

matrixVars == <<matrix, taken, reads>>

Refused == [ok |-> FALSE, rows |-> <<>>]
Rows(rows) == [ok |-> TRUE, rows |-> rows]

Canonical(row) == [k \in DOMAIN row |-> Canon[row[k]]]

-----------------------------------------------------------------------------
(* expandMatrixDefinition                                                  *)

\* Every value of every dimension, the last dimension fastest.
Combinations(rows) ==
    IF rows = <<>> THEN <<>>
    ELSE FoldLeft(LAMBDA cs, row : FlattenSeq([i \in DOMAIN cs |->
                      [j \in DOMAIN row.values |-> cs[i] @@ (row.name :> row.values[j])]]),
                  << <<>> >>, rows)

\* matrixMatches
Matches(combination, pattern) ==
    \A k \in DOMAIN pattern : k \in DOMAIN combination /\ Canon[combination[k]] = Canon[pattern[k]]

Kept(combinations, exclude) ==
    SelectSeq(combinations, LAMBDA c : \A i \in DOMAIN exclude : ~Matches(c, exclude[i]))

\* includeCompatible
Compatible(original, values) ==
    \A k \in DOMAIN values \cap DOMAIN original : Canon[original[k]] = Canon[values[k]]

\* Mutant: values of an earlier include keep a later one out.
AgainstCurrent(included, values) ==
    {i \in DOMAIN included : included[i].candidate /\ Compatible(included[i].values, values)}

Matched(included, values) ==
    {i \in DOMAIN included : included[i].candidate /\ Compatible(included[i].original, values)}

\* An include extends the combinations it is compatible with, over what
\* earlier ones added, or stands alone.
Include(included, values) ==
    LET matched == Matched(included, values)
        extended == [i \in DOMAIN included |->
                        IF i \in matched THEN [included[i] EXCEPT !.values = values @@ @] ELSE included[i]]
    IN  IF matched # {} THEN extended
        ELSE Append(extended, [values |-> values, original |-> <<>>, candidate |-> FALSE])

Expand(m) ==
    LET combinations == Combinations(m.rows)
        kept == Kept(combinations, m.exclude)
        candidates == [i \in DOMAIN kept |-> [values |-> kept[i], original |-> kept[i], candidate |-> TRUE]]
        included == FoldLeft(Include, candidates, m.include)
    IN  IF \/ \E i \in DOMAIN m.rows : m.rows[i].values = <<>>
           \/ Len(combinations) > MaxInstances \/ Len(included) > MaxInstances
           \/ included = <<>>
        THEN Refused
        ELSE Rows([i \in DOMAIN included |-> included[i].values])

\* namespacedInstanceKey: the digest of the row as JSON, in which a number has
\* one form.
KeysUnique(rows) == \A i, j \in DOMAIN rows : Canonical(rows[i]) = Canonical(rows[j]) => i = j
KeysFree(rows) == \A i \in DOMAIN rows : Canonical(rows[i]) \notin taken

-----------------------------------------------------------------------------
(* The readers                                                             *)

\* Names that differ in case only.
Ambiguous(names) == \E k, l \in names : k # l /\ Fold[k] = Fold[l]
Dimensions(m) == {m.rows[i].name : i \in DOMAIN m.rows}
Entries(m) == Range(m.include) \cup Range(m.exclude)

Position(name) == CHOOSE i \in DOMAIN Alphabet : Alphabet[i] = name
Foremost(names) == CHOOSE n \in names : \A k \in names : Position(n) <= Position(k)
Hindmost(names) == CHOOSE n \in names : \A k \in names : Position(n) >= Position(k)

\* adaptMatrix: the YAML parser folds names and refuses those that meet.
AuthoredEntry(entry) == [k \in {Fold[n] : n \in DOMAIN entry} |-> entry[Foremost({n \in DOMAIN entry : Fold[n] = k})]]
Authored(m) ==
    [m EXCEPT !.rows = [i \in DOMAIN @ |-> [@[i] EXCEPT !.name = Fold[@]]],
              !.include = [i \in DOMAIN @ |-> AuthoredEntry(@[i])],
              !.exclude = [i \in DOMAIN @ |-> AuthoredEntry(@[i])]]
AuthoredClear(m) == ~Ambiguous(Dimensions(m)) /\ \A e \in Entries(m) : ~Ambiguous(DOMAIN e)

\* decodeJSONToken: a later property replaces the value of an earlier one
\* whose name differs in case, and keeps its spelling.
MergedEntry(entry) ==
    LET same(n) == {k \in DOMAIN entry : Fold[k] = Fold[n]}
    IN  [n \in {k \in DOMAIN entry : k = Foremost(same(k))} |-> entry[Hindmost(same(n))]]
MergedRow(rows, row) ==
    IF \A i \in DOMAIN rows : Fold[rows[i].name] # Fold[row.name] THEN Append(rows, row)
    ELSE [i \in DOMAIN rows |-> IF Fold[rows[i].name] = Fold[row.name] THEN [rows[i] EXCEPT !.values = row.values] ELSE rows[i]]

\* matrixFromObject: the properties of an object are sorted by name.
Sorted(m) == [m EXCEPT !.rows = SortSeq(@, LAMBDA r, s : Position(r.name) < Position(s.name))]
Resolved(m) ==
    Sorted([m EXCEPT !.rows = FoldLeft(MergedRow, <<>>, @),
                     !.include = [i \in DOMAIN @ |-> MergedEntry(@[i])],
                     !.exclude = [i \in DOMAIN @ |-> MergedEntry(@[i])]])

\* Of the importer: rows with the same key are refused with the graph.
Compiled(m) ==
    LET read == Expand(m)
    IN  IF read.ok /\ KeysUnique(read.rows) /\ KeysFree(read.rows) THEN read ELSE Refused

EntryClear(entry, dimensions) ==
    /\ entry # <<>> /\ Range(entry) \subseteq Scalars
    /\ ~Ambiguous(DOMAIN entry \cup dimensions)

\* runtimeMatrixFromObject, runtimeMatrixCombinations
Strict(m) ==
    /\ m.rows # <<>> \/ m.hasInclude \/ m.exclude # <<>>
    /\ ~Ambiguous(Dimensions(m))
    /\ \A i \in DOMAIN m.rows : m.rows[i].values # <<>> /\ Range(m.rows[i].values) \subseteq Scalars
    /\ \A e \in Entries(m) : EntryClear(e, Dimensions(m))

CanonicalEntries(entries) == [i \in DOMAIN entries |-> Canonical(entries[i])]

\* runtimeMatrixScalar
CanonicalMatrix(m) ==
    [m EXCEPT !.rows = [i \in DOMAIN @ |-> [@[i] EXCEPT !.values = [j \in DOMAIN @ |-> Canon[@[j]]]]],
              !.include = CanonicalEntries(@), !.exclude = CanonicalEntries(@)]

\* validateExpandedRuntimeMatrix: one spelling of a name in all rows.
OneSpelling(rows) == ~Ambiguous(UNION {DOMAIN rows[i] : i \in DOMAIN rows})

\* ExpandRuntimeMatrixOutput
ExpandOutput(m) ==
    LET read == Expand(CanonicalMatrix(m))
    IN  IF ~Strict(m) THEN Refused
        ELSE IF m.rows = <<>> /\ m.hasInclude /\ m.include = <<>> THEN Rows(<<>>)
        ELSE IF read.ok /\ OneSpelling(read.rows) /\ KeysUnique(read.rows) /\ KeysFree(read.rows) THEN read
        ELSE Refused

MatrixInit ==
    /\ matrix \in Definitions
    /\ taken \in Neighbours
    /\ reads = <<>>

\* One definition in the forms it can come in.
ReadMatrix ==
    /\ reads = <<>>
    /\ reads' = [authored |-> IF AuthoredClear(matrix) THEN Compiled(Authored(matrix)) ELSE Refused,
                 evaluated |-> Compiled(Resolved(matrix)),
                 output |-> ExpandOutput(Sorted(matrix))]
    /\ UNCHANGED <<matrix, taken>>

MatrixNext == ReadMatrix

-----------------------------------------------------------------------------
(* Properties                                                              *)

\* The combinations that m asks for and no exclude matches.
Originals(m) ==
    LET values(k) == UNION {Range(m.rows[i].values) : i \in {j \in DOMAIN m.rows : m.rows[j].name = k}}
    IN  IF m.rows = <<>> THEN {}
        ELSE {c \in [Dimensions(m) -> Range(Canon)] :
                 /\ \A k \in DOMAIN c : c[k] \in {Canon[v] : v \in values(k)}
                 /\ \A i \in DOMAIN m.exclude : ~Matches(c, m.exclude[i])}

\* What m asks for as a set: these combinations, each with what the includes
\* that agree with its own values add, the last one winning; and each include
\* that agrees with none of them.
Declared(m) ==
    LET includes == CanonicalEntries(m.include)
        agreeing(c) == {i \in DOMAIN includes : \A k \in DOMAIN c \cap DOMAIN includes[i] : c[k] = includes[i][k]}
        extended(c) == [k \in DOMAIN c \cup UNION {DOMAIN includes[i] : i \in agreeing(c)} |->
                           IF k \in DOMAIN c THEN c[k]
                           ELSE includes[Max({i \in agreeing(c) : k \in DOMAIN includes[i]})][k]]
        alone == {i \in DOMAIN includes : \A c \in Originals(m) : i \notin agreeing(c)}
    IN  {extended(c) : c \in Originals(m)} \cup {includes[i] : i \in alone}

Faithful(read, m) ==
    read.ok => /\ {Canonical(read.rows[i]) : i \in DOMAIN read.rows} = Declared(m)
               /\ Len(read.rows) = Cardinality(Declared(m))
               /\ Declared(m) \cap taken = {}

\* A matrix that is accepted has exactly the rows it declares, each once and
\* none under the key of another job, in whichever form it comes.  A job's
\* output that is accepted gives the rows the workflow would, in the same
\* order, and names that differ in case only never meet in them; it is
\* refused for its names, its nested values or its empty entries only, where
\* the workflow would be accepted.
RowsAsDeclared ==
    reads # <<>> =>
        /\ Faithful(reads.authored, Authored(matrix))
        /\ Faithful(reads.evaluated, Resolved(matrix))
        /\ Faithful(reads.output, matrix)
        /\ reads.output.ok /\ reads.output.rows # <<>> =>
              /\ CanonicalEntries(reads.evaluated.rows) = reads.output.rows
              /\ OneSpelling(reads.output.rows)
        /\ reads.evaluated.ok /\ ~reads.output.ok =>
              ~Strict(matrix) \/ Ambiguous(UNION {DOMAIN row : row \in Declared(matrix)})
=============================================================================
