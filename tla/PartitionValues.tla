-------------------------- MODULE PartitionValues ---------------------------
(***************************************************************************)
(* Partition values on their way through the system: the text that a write *)
(* puts into the log and into the hive-style directory of a file           *)
(* (kernel/scalars.rs, kernel/snapshot/log_data.rs, writer/stats.rs), the  *)
(* values that CONVERT TO DELTA reads out of the directories of an         *)
(* existing Parquet table (operations/convert_to_delta.rs), the tuple      *)
(* filters that select files by them (kernel/schema/partitions.rs), the    *)
(* expression that the Python dataset attaches to a file                   *)
(* (python/src/lib.rs) and the manifests of GENERATE                       *)
(* (operations/generate.rs).                                               *)
(* A text is a sequence of tokens.  One partition column and one data      *)
(* column stand for any number of them.                                    *)
(***************************************************************************)
EXTENDS Integers, Sequences, FiniteSets, SequencesExt

CONSTANTS
    NULL, ERROR, NONE,
    Domains,     \* the partition values per type of the partition column
    Scale,       \* 10^scale of a decimal column
    Contents,    \* sequences of values of the data column, the rows of a file
    Filters,     \* per type: sequences of conjunctions of <<op, texts, whether they are a set>>
    MaxFiles     \* bound on the number of files

VARIABLES
    ty,          \* the type of the partition column
    files,       \* [value, dir, logged, rows], in the order they were written
    origin,      \* "delta", or "parquet" until it is converted
    query,       \* the last filter and what it selected
    manifests,   \* per directory the files its manifest lists, and whether
    current      \* GENERATE has finished since the table last changed

pvvars == <<ty, files, origin, query, manifests, current>>

-----------------------------------------------------------------------------
(* Values and texts.                                                       *)

\* The token of __HIVE_DEFAULT_PARTITION__
Marker == "null partition"

\* Characters that encode_partition_value escapes.
Escaped == {"/", "=", " ", "%"}

Sign(n) == IF n < 0 THEN -1 ELSE 1

\* Integer division and remainder of Rust: both truncate towards zero.
Quotient(n, d) == Sign(n) * ((Sign(n) * n) \div d)
Remainder(n, d) == Sign(n) * ((Sign(n) * n) % d)

\* Mutant: a decimal is written without its fraction.
serialize_mutant(t, v) == IF t = "string" THEN v ELSE <<ToString(Quotient(v, Scale))>>

\* Scalar::serialize.  A decimal is its quotient, a point and its remainder,
\* and the remainder of a negative number is negative.
serialize(t, v) ==
    CASE t = "string"  -> v
      [] t = "integer" -> <<ToString(v)>>
      [] t = "decimal" -> <<ToString(Quotient(v, Scale)), ".", ToString(Remainder(v, Scale))>>

Digits == {ToString(n) : n \in 0 .. Scale - 1}

Number(text) == CHOOSE n \in -Scale .. Scale : ToString(n) = text

\* PrimitiveType::parse_scalar of the kernel: the empty text is NULL, and a
\* fraction consists of digits.  Negative decimals between 0 and -1 are
\* written "-0" by other engines.
parse_scalar(t, text) ==
    CASE text = << >>  -> NULL
      [] t = "string"  -> text
      [] t = "integer" -> Number(text[1])
      [] OTHER ->
           IF Len(text) = 1 THEN Number(text[1]) * Scale
           ELSE IF text[3] \notin Digits THEN ERROR
           ELSE IF text[1] = "-0" THEN -Number(text[3])
           ELSE Number(text[1]) * Scale + Sign(Number(text[1])) * Number(text[3])

\* The text of a value in Add::partition_values.
Logged(t, v) == IF v = NULL THEN NONE ELSE serialize(t, v)

ReadLogged(t, text) == IF text = NONE THEN NULL ELSE parse_scalar(t, text)

Encode(text) == [i \in DOMAIN text |-> IF text[i] \in Escaped THEN <<"%", text[i]>> ELSE <<text[i]>>]

\* percent_decode_str
Decode(path) == [i \in DOMAIN path |-> path[i][Len(path[i])]]

\* PartitionsExt::hive_partition_path with Scalar::serialize_encoded
Directory(t, v) == IF v = NULL THEN << <<Marker>> >> ELSE Encode(serialize(t, v))

\* The directory another engine chose for a value.
ForeignText(t, v) ==
    IF t # "decimal" \/ v >= 0 THEN serialize(t, v)
    ELSE LET text == serialize(t, -v) IN <<"-" \o text[1], text[2], text[3]>>

ForeignDirectory(t, v) == IF v = NULL THEN << <<Marker>> >> ELSE Encode(ForeignText(t, v))

\* The value that CONVERT TO DELTA reads out of a directory name.
PathScalar(t, dir) == IF dir = << <<Marker>> >> THEN NULL ELSE parse_scalar(t, Decode(dir))

-----------------------------------------------------------------------------
(* Tuple filters.  Predicates are three-valued: TRUE, FALSE or NULL.       *)

Not(p) == IF p = NULL THEN NULL ELSE ~p

Junction(absorbing, ps) ==
    IF absorbing \in ps THEN absorbing ELSE IF NULL \in ps THEN NULL ELSE ~absorbing

Eq(x, y) == IF x = NULL \/ y = NULL THEN NULL ELSE x = y

Lt(x, y) == IF x = NULL \/ y = NULL THEN NULL ELSE x < y

\* Mutant: NULL is compared as any other value.
literal_to_kernel_predicate_mutant(t, x, op, texts) ==
    LET values == {parse_scalar(t, text) : text \in texts}
    IN  IF op \in {"=", "in"} THEN Junction(TRUE, {Eq(x, v) : v \in values})
        ELSE Junction(FALSE, {Not(Eq(x, v)) : v \in values})

\* x is the value of the file's partition.
literal_to_kernel_predicate(t, x, op, texts) ==
    LET values == {parse_scalar(t, text) : text \in texts}
        value  == CHOOSE v \in values : TRUE
    IN  IF ERROR \in values THEN ERROR
        ELSE CASE op = "="  -> IF value = NULL THEN x = NULL ELSE Eq(x, value)
               [] op = "!=" -> IF value = NULL THEN x # NULL ELSE Not(Eq(x, value))
               [] op = "<"  -> Lt(x, value)
               [] op = "<=" -> Not(Lt(value, x))
               [] op = ">"  -> Lt(value, x)
               [] op = ">=" -> Not(Lt(x, value))
               [] op = "in" -> Junction(TRUE, {Eq(x, v) : v \in values})
               [] op = "not in" -> Junction(FALSE, {Not(Eq(x, v)) : v \in values})

conjunction_to_kernel_predicate(t, x, literals) ==
    Junction(FALSE, {literal_to_kernel_predicate(t, x, literals[i][1], literals[i][2]) :
                        i \in DOMAIN literals})

dnf_to_kernel_predicate(t, x, dnf) ==
    Junction(TRUE, {conjunction_to_kernel_predicate(t, x, dnf[i]) : i \in DOMAIN dnf})

FilterOp == {"=", "!=", "<", "<=", ">", ">=", "in", "not in"}

\* Set operators take a set of texts, the others take one.
matches_value(op, is_set) == (op \in {"in", "not in"}) = is_set

filter_literal(literal) == literal[1] \in FilterOp /\ matches_value(literal[1], literal[3])

\* An empty filter or group, an unknown operator and one whose value has the
\* wrong shape are refused.
Refused(dnf) ==
    dnf = << >> \/ \E i \in DOMAIN dnf :
                     dnf[i] = << >> \/ \E j \in DOMAIN dnf[i] : ~filter_literal(dnf[i][j])

-----------------------------------------------------------------------------
(* What pyarrow may assume of every row of a file.                         *)

Present(rows) == {rows[i] : i \in DOMAIN rows} \ {NULL}

Stats(rows) ==
    [n |-> Len(rows), nulls |-> Cardinality({i \in DOMAIN rows : rows[i] = NULL}),
     min |-> IF Present(rows) = {} THEN NONE ELSE CHOOSE x \in Present(rows) : \A y \in Present(rows) : x <= y,
     max |-> IF Present(rows) = {} THEN NONE ELSE CHOOSE x \in Present(rows) : \A y \in Present(rows) : x >= y]

\* Mutant: a file with some NULLs is taken for one without.
filestats_to_expression_mutant(s, x) ==
    /\ s.nulls = s.n => x = NULL
    /\ s.min # NONE => x # NULL /\ x >= s.min /\ x <= s.max

\* The conjuncts on the data column, evaluated on the value x of a row.
filestats_to_expression(s, x) ==
    /\ s.nulls = 0 => x # NULL
    /\ s.nulls # 0 /\ s.nulls = s.n => x = NULL
    /\ s.min # NONE => IF x = NULL THEN s.nulls # 0 /\ s.nulls # s.n ELSE x >= s.min
    /\ s.max # NONE => IF x = NULL THEN s.nulls # 0 /\ s.nulls # s.n ELSE x <= s.max

-----------------------------------------------------------------------------

Init ==
    /\ ty \in DOMAIN Domains
    /\ origin \in {"delta", "parquet"}
    /\ files = << >>
    /\ query = NONE
    /\ manifests = << >>
    /\ current = FALSE

\* Scalar::from_array: NULL where the array has no value, nothing past its end.
from_array(column, i) == IF i \in DOMAIN column THEN column[i] ELSE NONE

\* The first row of every partition of a batch.
Starts(column) == SetToSortSeq({i \in DOMAIN column : \A j \in 1 .. i - 1 : column[j] # column[i]}, <)

NewFile(v, rows) == [value |-> v, dir |-> Directory(ty, v), logged |-> Logged(ty, v), rows |-> rows]

\* A write adds a file for each partition of a batch.
Write(column, rows) ==
    LET starts == Starts(column) IN
    /\ origin = "delta"
    /\ Len(files) < MaxFiles /\ Len(files) + Len(starts) <= MaxFiles
    /\ files' = files \o [k \in DOMAIN starts |-> NewFile(from_array(column, starts[k]), rows)]
    /\ current' = FALSE
    /\ UNCHANGED <<ty, origin, query, manifests>>

\* Another engine adds a file to a Parquet table.
Place(v, rows) ==
    /\ origin = "parquet"
    /\ Len(files) < MaxFiles
    /\ files' = Append(files, [value |-> v, dir |-> ForeignDirectory(ty, v), logged |-> NONE,
                               rows |-> rows])
    /\ UNCHANGED <<ty, origin, query, manifests, current>>

\* ConvertToDeltaBuilder::into_create_builder: one Add per Parquet file.
ConvertedFiles ==
    [i \in DOMAIN files |->
        [files[i] EXCEPT !.logged = Logged(ty, PathScalar(ty, files[i].dir))]]

\* A directory that does not parse fails the whole conversion.
Convert ==
    /\ origin = "parquet"
    /\ files # << >>
    /\ \A i \in DOMAIN files : PathScalar(ty, files[i].dir) # ERROR
    /\ origin' = "delta"
    /\ files' = ConvertedFiles
    /\ UNCHANGED <<ty, query, manifests, current>>

Readable == \A i \in DOMAIN files : ReadLogged(ty, files[i].logged) # ERROR

\* file_uris and the other methods that take tuple filters.
\* get_active_add_actions_by_predicate: the files on which the filter is true.
\* get_active_add_actions_by_partitions is the case of one conjunction.
Selected(dnf) ==
    {i \in DOMAIN files : dnf_to_kernel_predicate(ty, ReadLogged(ty, files[i].logged), dnf) = TRUE}

Select(dnf) ==
    /\ origin = "delta" /\ Readable
    /\ ~Refused(dnf)
    /\ \A i \in DOMAIN dnf, j \in 1 .. 2 : j \in DOMAIN dnf[i] =>
          \A text \in dnf[i][j][2] : parse_scalar(ty, text) # ERROR
    /\ query' = [dnf |-> dnf,
                 selected |-> Selected(dnf)]
    /\ UNCHANGED <<ty, files, origin, manifests, current>>

Directories == {files[i].dir : i \in DOMAIN files}

\* Mutant: each file starts the manifest of its directory anew.
Manifest_mutant(d) ==
    {CHOOSE i \in DOMAIN files : files[i].dir = d /\ \A j \in DOMAIN files : files[j].dir = d => j <= i}

Manifest(d) == {i \in DOMAIN files : files[i].dir = d}

\* GenerateBuilder: manifests are put one after the other, in any order, and
\* the first put that fails ends the operation.
Generate ==
    /\ origin = "delta" /\ Readable
    /\ files # << >>
    /\ \E done \in SUBSET Directories :
          /\ manifests' = [d \in DOMAIN manifests \cup done |->
                              IF d \in done THEN Manifest(d) ELSE manifests[d]]
          /\ current' = (done = Directories)
    /\ UNCHANGED <<ty, files, origin, query>>

Next ==
    \/ \E v, w \in Domains[ty], rows \in Contents : Write(<<v, w, v>>, rows) \/ Place(v, rows)
    \/ Convert
    \/ \E dnf \in Filters[ty] : Select(dnf)
    \/ Generate

Spec == Init /\ [][Next]_pvvars

-----------------------------------------------------------------------------

\* The empty string is NULL in the log; a string that spells the marker of
\* the null partition is NULL in a directory name; a negative decimal with a
\* fraction has no text that can be read.
HasText(v) ==
    CASE v = NULL -> TRUE
      [] ty = "string"  -> v \notin {<< >>, <<Marker>>}
      [] ty = "decimal" -> v >= 0 \/ Remainder(v, Scale) = 0
      [] OTHER -> TRUE

\* The partition value a reader parses out of the log is the value of the
\* rows, whether the file was written by this library or its value was taken
\* from the directory another engine had put it in, escaped characters, NULL
\* and padded decimals included.
ReadBack ==
    origin = "delta" =>
        \A i \in DOMAIN files : HasText(files[i].value) =>
            ReadLogged(ty, files[i].logged) = files[i].value

\* The meaning of a filter on values: the empty text stands for NULL with =
\* and !=, NULL satisfies no other comparison.
Holds(x, op, texts) ==
    LET values == {parse_scalar(ty, text) : text \in texts}
    IN  CASE op = "="  -> values = {x}
          [] op = "!=" -> x # NULL /\ x \notin values
          [] op = "<"  -> x # NULL /\ \E v \in values \ {NULL} : x < v
          [] op = "<=" -> x # NULL /\ \E v \in values \ {NULL} : x <= v
          [] op = ">"  -> x # NULL /\ \E v \in values \ {NULL} : x > v
          [] op = ">=" -> x # NULL /\ \E v \in values \ {NULL} : x >= v
          [] op = "in" -> x # NULL /\ x \in values
          [] op = "not in" -> values = {} \/ (x # NULL /\ NULL \notin values /\ x \notin values)

\* Tuple filters select exactly the files whose partition value satisfies
\* some group of the filter, also when a group or an operator meets NULL.
SelectsExactly ==
    query' # query =>
        query'.selected = {i \in DOMAIN files :
            \E g \in DOMAIN query'.dnf : \A j \in DOMAIN query'.dnf[g] :
                Holds(ReadLogged(ty, files[i].logged), query'.dnf[g][j][1], query'.dnf[g][j][2])}

\* The expression attached to a file holds for every one of its rows, so
\* pyarrow never skips a file that has a row it was asked for.
FragmentHolds ==
    \A i \in DOMAIN files : \A j \in DOMAIN files[i].rows :
        filestats_to_expression(Stats(files[i].rows), files[i].rows[j])

\* Once GENERATE has succeeded, and until the table changes, every file is
\* listed, and only in the manifest of its own partition.
ManifestsComplete ==
    current => \A i \in DOMAIN files :
        /\ files[i].dir \in DOMAIN manifests
        /\ \A d \in DOMAIN manifests : i \in manifests[d] <=> d = files[i].dir

-----------------------------------------------------------------------------
(* What the code or its documentation says and the code does not deliver.  *)

=============================================================================
