-------------------------------- MODULE Merge --------------------------------
(***************************************************************************)
(* One execution of MERGE (operations/merge): the early filter that skips  *)
(* files of the target and detects conflicts, the full outer join of       *)
(* target and source, the clause that applies to each joined row, the      *)
(* barrier that holds back the rows of a file until one of them changes,   *)
(* the validation that no target row is changed by two source rows, and    *)
(* what is written, removed and reported.                                  *)
(*                                                                         *)
(* The join delivers its rows in any order.  Batches are single rows: the  *)
(* barrier splits every batch by file, and a longer slice of one file is   *)
(* several of these in a row.  Rows of one file are all in one partition.  *)
(*                                                                         *)
(* The filter (filter.rs) is the merge predicate with the source replaced  *)
(* by what is known of its rows.  Expressions are tuples: <<"target", "p">>*)
(* is the partition column of the target and <<"target", "x">> another     *)
(* one, <<"source", "y">> and <<"source", "z">> those of the source,       *)
(* <<"lit", n>>, <<"fn", e>> a function of two arguments, <<op, l, r>> a   *)
(* binary expression, and <<"in", e, list>> and <<"not in", e, list>>.     *)
(* Truth is three-valued: 0 false, 1 unknown, 2 true.  Which rows match is *)
(* on for the join; the filter is about a predicate of its own.            *)
(***************************************************************************)
EXTENDS Integers, Sequences, FiniteSets, FiniteSetsExt, SequencesExt

CONSTANTS
    Target,      \* the rows of the target table
    FileOf,      \* the file each of them is in
    Source,      \* the rows of the source
    Conditional, \* rows on which the predicate of a clause may hold or not
    Statements,  \* the clauses of the MERGE statements
    Predicates,  \* merge predicates the filter is built from
    SourceRows,  \* sets of rows of the source they are about
    Values,      \* values of the target's columns
    Streaming,   \* whether the source is read as a stream
    NULL,
    NONE

VARIABLES
    predicate, source, streaming,  \* what the filter is built from
    filter,    \* the early filter, <<"none">> before it is built
    stmt,      \* matched, not matched and not matched by source clauses, and the
               \* filter on the target the caller gave, or NONE
    on,        \* the pairs that satisfy the merge predicate
    holds,     \* the rows on which the predicates of the clauses hold
    input,     \* joined rows the join has still to deliver
    stream,    \* MergeBarrierStream::state
    buffer,    \* rows the barrier holds back, by file, NONE for source rows
    open,      \* the files whose partition of the barrier is open
    match,     \* MergeValidationStream::target_row_state
    out,       \* rows that have passed
    survivors, \* files to be replaced
    result

filtering == <<predicate, source, streaming, filter>>
vars == <<filtering, stmt, on, holds, input, stream, buffer, open, match, out, survivors, result>>
statement == <<filtering, stmt, on, holds>>

-----------------------------------------------------------------------------
(* The early filter.                                                       *)

\* references_table: the names of other expressions are not looked for.
references_table(e, table) ==
    CASE e[1] \in {"target", "source"} -> IF e[1] = table THEN "yes" ELSE "no"
      [] e[1] = "lit" -> "no"
      [] OTHER -> "unknown"

HasReference(e, table) == references_table(e, table) = "yes"

\* As construct_placeholder, with the range of the source for partitions as well.
construct_placeholder_mutant(op, l, r, source_left) ==
    LET s == IF source_left THEN l ELSE r
        t == IF source_left THEN r ELSE l
    IN  IF op = "eq" THEN <<"between", t, s>> ELSE NONE

\* A comparison with a partition column is kept with the distinct values of the
\* source, an equality with another column becomes a range.
construct_placeholder(op, l, r, source_left) ==
    LET s == IF source_left THEN l ELSE r
        t == IF source_left THEN r ELSE l
    IN  IF t[2] = "p"
          THEN IF source_left THEN <<op, <<"group", s>>, t>> ELSE <<op, t, <<"group", s>>>>
          ELSE IF op = "eq" THEN <<"between", t, s>> ELSE NONE

\* As OneSide, for OR as well.
OneSide_mutant(op, e) == IF op \in {"and", "or"} THEN e ELSE NONE

\* What is left when one side of a binary expression cannot be generalized.
OneSide(op, e) == IF op = "and" THEN e ELSE NONE

Known(es) == SelectSeq(es, LAMBDA e : e # NONE)

RECURSIVE generalize_filter(_, _)
generalize_filter(e, streamed) ==
    CASE e[1] \in {"and", "or", "eq", "lt"} ->
           IF ~streamed /\ HasReference(e[3], "source")
             THEN IF HasReference(e[2], "target")
                    THEN construct_placeholder(e[1], e[2], e[3], FALSE) ELSE NONE
           ELSE IF ~streamed /\ HasReference(e[2], "source")
             THEN IF HasReference(e[3], "target")
                    THEN construct_placeholder(e[1], e[2], e[3], TRUE) ELSE NONE
           ELSE LET l == generalize_filter(e[2], streamed)
                    r == generalize_filter(e[3], streamed)
                IN  CASE l = NONE /\ r = NONE -> NONE
                      [] l = NONE /\ r # NONE -> OneSide(e[1], r)
                      [] l # NONE /\ r = NONE -> OneSide(e[1], l)
                      [] OTHER -> <<e[1], l, r>>
      [] e[1] \in {"in", "not in"} ->
           LET c == generalize_filter(e[2], streamed)
               list == Known([i \in DOMAIN e[3] |-> generalize_filter(e[3][i], streamed)])
           IN  IF c = NONE \/ list = << >> THEN NONE ELSE <<e[1], c, list>>
      [] OTHER -> CASE references_table(e, "source") = "yes" -> IF streamed THEN NONE ELSE <<"bare", e>>
                    [] references_table(e, "source") = "no" -> e
                    [] OTHER -> NONE

-----------------------------------------------------------------------------
(* Evaluation.                                                             *)

Compare(op, a, b) ==
    IF a = NULL \/ b = NULL THEN 1
    ELSE IF (op = "eq" /\ a = b) \/ (op = "lt" /\ a < b) THEN 2 ELSE 0

\* The value of an expression for a target row and the source rows of a group.
RECURSIVE Value(_, _, _)
Value(e, t, rows) ==
    CASE e[1] = "target" -> t[e[2]]
      [] e[1] = "source" -> (CHOOSE s \in rows : TRUE)[e[2]]
      [] e[1] \in {"fn", "group"} -> Value(e[2], t, rows)
      [] e[1] = "lit" -> e[2]
      [] e[1] = "between" ->
           LET v == Value(e[2], t, rows)
               range == {Value(e[3], t, {s}) : s \in rows} \ {NULL}
           IN  IF range = {} \/ v = NULL THEN 1
               ELSE IF Min(range) <= v /\ v <= Max(range) THEN 2 ELSE 0
      [] e[1] = "and" -> Min({Value(e[2], t, rows), Value(e[3], t, rows)})
      [] e[1] = "or" -> Max({Value(e[2], t, rows), Value(e[3], t, rows)})
      [] e[1] \in {"eq", "lt"} -> Compare(e[1], Value(e[2], t, rows), Value(e[3], t, rows))
      [] e[1] = "in" ->
           Max({Compare("eq", Value(e[2], t, rows), Value(e[3][i], t, rows)) : i \in DOMAIN e[3]})
      [] e[1] = "not in" -> 2 - Value(<<"in", e[2], e[3]>>, t, rows)

\* The placeholders of a filter: what it groups by, what it has the range of, and
\* source columns that stand for themselves.  A merge predicate has two terms, so
\* that a filter which is built has kept all that were made for it.
RECURSIVE Placeholders(_)
Placeholders(e) ==
    CASE e[1] \in {"group", "between", "bare"} -> {e}
      [] e[1] \in {"and", "or", "eq", "lt"} -> Placeholders(e[2]) \cup Placeholders(e[3])
      [] e[1] \in {"in", "not in"} ->
           Placeholders(e[2]) \cup UNION {Placeholders(e[3][i]) : i \in DOMAIN e[3]}
      [] OTHER -> {}

\* The rows of the source as the aggregation groups them.  Without a column to
\* group by there is one group, empty or not.
Groups(f, rows) ==
    LET by == {p \in Placeholders(f) : p[1] = "group"}
        Key(s) == [p \in by |-> s[p[2][2]]]
    IN  IF by = {} THEN {rows} ELSE {{s \in rows : Key(s) = Key(q)} : q \in rows}

\* try_construct_early_filter: no filter at all when nothing can be generalized,
\* or when the source has no group.
Passes(f, t, rows) ==
    \/ f = NONE
    \/ Placeholders(f) = {} /\ Value(f, t, rows) = 2
    \/ /\ Placeholders(f) # {}
       /\ Groups(f, rows) = {} \/ \E g \in Groups(f, rows) : Value(f, t, g) = 2

Rows == [p : Values, x : Values]

-----------------------------------------------------------------------------
(* The join.                                                               *)

Files == {FileOf[t] : t \in Target}
Bucket(r) == IF r.t = NONE THEN NONE ELSE FileOf[r.t]

\* The full outer join of source and target on the merge predicate.
Join ==
    {[t |-> p[1], s |-> p[2]] : p \in on}
    \cup {[t |-> t, s |-> NONE] : t \in {u \in Target : \A s \in Source : <<u, s>> \notin on}}
    \cup {[t |-> NONE, s |-> s] : s \in {u \in Source : \A t \in Target : <<t, u>> \notin on}}

-----------------------------------------------------------------------------
(* Clauses *)

Matched(r) == r.t # NONE /\ r.s # NONE
ClausesOf(r) ==
    IF Matched(r) THEN stmt.matched
    ELSE IF r.t = NONE THEN stmt.not_matched ELSE stmt.not_matched_by_source

\* The predicate of a clause sees the whole row; an absent one is true.
Satisfies(r, c) == c.conditional => (IF r.s = NONE THEN r.t ELSE r.s) \in holds

\* The CASE over all clauses in the order they were given: the first one that is
\* satisfied, else target rows are copied and source rows are dropped.
Operation(r) ==
    LET i == SelectInSeq(ClausesOf(r), LAMBDA c : Satisfies(r, c)) IN
    IF i # 0 THEN ClausesOf(r)[i].op
    ELSE IF r.t = NONE THEN "source_delete" ELSE "copy"

Changes(r) == Operation(r) \in {"insert", "update", "delete"}

\* MatchParticipationClass of the clause that applies.
Class(r) ==
    LET i == SelectInSeq(stmt.matched, LAMBDA c : Satisfies(r, c)) IN
    CASE ~Matched(r) -> "ignore"
      [] Matched(r) /\ i = 0 -> "noop"
      [] Matched(r) /\ i # 0 -> IF stmt.matched[i].op = "delete" /\ ~stmt.matched[i].conditional
                                  THEN "unconditional_delete" ELSE "action"

NewMatch == [actions |-> 0, deletes |-> 0, emitted |-> FALSE, noop |-> NONE]

Init ==
    /\ predicate \in Predicates /\ source \in SourceRows /\ streaming \in Streaming
    /\ filter = <<"none">>
    /\ stmt \in Statements
    /\ on \in SUBSET (Target \X Source)
    /\ holds \in SUBSET Conditional
    /\ input = Join
    /\ stream = "feed"
    /\ buffer = [f \in Files \cup {NONE} |-> << >>]
    /\ open = {}
    /\ match = [t \in Target |-> NewMatch]
    /\ out = {} /\ survivors = {} /\ result = "none"

\* The filter is the caller's, which is taken as it is; none when target rows that
\* match nothing are changed as well; or the generalized predicate.  A source
\* column that stands for itself is put among the aggregates of the query on the
\* source, and the query engine refuses a plan with an aggregate that is none.
try_construct_early_filter ==
    /\ filter = <<"none">>
    /\ filter' = IF stmt.target_filter # NONE THEN stmt.target_filter
                 ELSE IF stmt.not_matched_by_source # << >> THEN NONE
                 ELSE generalize_filter(predicate, streaming)
    /\ result' = IF filter' # NONE /\ \E p \in Placeholders(filter') : p[1] = "bare" THEN "refused" ELSE result
    /\ UNCHANGED <<predicate, source, streaming, stmt, on, holds, input, stream, buffer, open, match, out, survivors>>

-----------------------------------------------------------------------------
(* The streams *)

\* As Feed, leaving the partition closed once it holds a row that is copied.
Feed_mutant(r) ==
    /\ filter # <<"none">> /\ stream = "feed" /\ r \in input
    /\ input' = input \ {r}
    /\ buffer' = [buffer EXCEPT ![Bucket(r)] = Append(@, r)]
    /\ open' = IF Changes(r) /\ buffer[Bucket(r)] = << >> THEN open \cup {Bucket(r)} ELSE open
    /\ stream' = "drain"
    /\ UNCHANGED <<statement, match, out, survivors, result>>

\* MergeBarrierStream, Feed: a batch goes to the partition of its file, which
\* opens when the batch inserts, updates or deletes.
Feed(r) ==
    /\ filter # <<"none">> /\ result = "none" /\ stream = "feed" /\ r \in input
    /\ input' = input \ {r}
    /\ buffer' = [buffer EXCEPT ![Bucket(r)] = Append(@, r)]
    /\ open' = IF Changes(r) THEN open \cup {Bucket(r)} ELSE open
    /\ stream' = "drain"
    /\ UNCHANGED <<statement, match, out, survivors, result>>

Count(m, c) ==
    CASE c = "action" -> [m EXCEPT !.actions = @ + 1]
      [] c = "unconditional_delete" -> [m EXCEPT !.deletes = @ + 1]
      [] OTHER -> m

\* As Ambiguous, allowing an update beside deletes.
Ambiguous_mutant(m) == m.actions > 1

Ambiguous(m) == m.actions > 1 \/ (m.actions > 0 /\ m.deletes > 0)

\* As Pass, without forgetting that a copy of the row is already waiting.
Pass_mutant(r, m) ==
    IF Class(r) = "noop"
      THEN /\ match' = [match EXCEPT ![r.t] = IF m.noop = NONE THEN [m EXCEPT !.noop = r] ELSE m]
           /\ UNCHANGED out
      ELSE /\ match' = [match EXCEPT ![r.t] = m]
           /\ out' = out \cup {r}

\* The first row that changes the target row passes, the others are dropped; a
\* copy waits for the end of the input.
Pass(r, m) ==
    IF Class(r) = "noop"
      THEN /\ match' = [match EXCEPT ![r.t] =
                          IF ~m.emitted /\ m.noop = NONE THEN [m EXCEPT !.noop = r] ELSE m]
           /\ UNCHANGED out
      ELSE /\ match' = [match EXCEPT ![r.t] = [m EXCEPT !.emitted = TRUE, !.noop = NONE]]
           /\ out' = IF m.emitted THEN out ELSE out \cup {r}

\* build_merge_barrier_validation_plan: the validation follows the barrier only
\* when the statement has a matched clause.
needs_duplicate_match_validation == stmt.matched # << >>

\* MergeValidationStream::validate_batch.
validate_batch(r) ==
    IF ~needs_duplicate_match_validation \/ Class(r) = "ignore"
      THEN out' = out \cup {r} /\ UNCHANGED <<match, result>>
      ELSE LET m == Count(match[r.t], Class(r)) IN
           IF Ambiguous(m)
             THEN result' = "error" /\ UNCHANGED <<match, out>>
             ELSE Pass(r, m) /\ UNCHANGED result

\* Drain: an open partition hands out the batch it got last.
Drain(b) ==
    /\ stream = "drain" /\ result = "none"
    /\ b \in open /\ buffer[b] # << >>
    /\ buffer' = [buffer EXCEPT ![b] = Front(@)]
    /\ validate_batch(Last(buffer[b]))
    /\ UNCHANGED <<statement, input, stream, open, survivors>>

Drained ==
    /\ stream = "drain" /\ result = "none"
    /\ \A b \in open : buffer[b] = << >>
    /\ stream' = "feed"
    /\ UNCHANGED <<statement, input, buffer, open, match, out, survivors, result>>

\* Finalize: the files of open partitions survive, the copies that nothing
\* replaced follow, and the rest of the buffers is dropped.
Finalize ==
    /\ filter # <<"none">> /\ stream = "feed" /\ input = {} /\ result = "none"
    /\ survivors' = open \ {NONE}
    /\ out' = out \cup {match[t].noop : t \in {u \in Target : ~match[u].emitted /\ match[u].noop # NONE}}
    /\ buffer' = [b \in DOMAIN buffer |-> << >>]
    /\ stream' = "done" /\ result' = "ok"
    /\ UNCHANGED <<statement, input, open, match>>

Done == result # "none" /\ UNCHANGED vars

Next ==
    \/ try_construct_early_filter
    \/ \E r \in input : Feed(r)
    \/ \E b \in Files \cup {NONE} : Drain(b)
    \/ Drained \/ Finalize \/ Done

Spec == Init /\ [][Next]_vars

-----------------------------------------------------------------------------
(* What is committed.                                                      *)

\* As Written, with the deleted rows.
Written_mutant == {r \in out : Operation(r) # "source_delete"}

\* The rows of the new files: all that passed but those the CASE marked deleted.
Written == {r \in out : Operation(r) \notin {"delete", "source_delete"}}

\* A row of the table: the target row it was, and the source row that gave it
\* its values.
Row(r) == [t |-> r.t, s |-> IF Operation(r) = "copy" THEN NONE ELSE r.s,
           updated |-> Operation(r) = "update"]
Old(t) == [t |-> t, s |-> NONE, updated |-> FALSE]

\* The surviving files are removed, and the new ones added.
NewTable == {Old(t) : t \in {u \in Target : FileOf[u] \notin survivors}} \cup {Row(r) : r \in Written}

\* The change data: nothing for copies and dropped source rows.
ChangeData ==
    [deleted |-> {r.t : r \in {x \in out : Operation(x) \in {"delete", "update"}}},
     inserted |-> {Row(r) : r \in {x \in out : Operation(x) \in {"insert", "update"}}}]

\* The metrics, from the counters of the plan.
Counted(op) == Cardinality({r \in out : Operation(r) = op})

-----------------------------------------------------------------------------
(* What MERGE means.                                                       *)

Sources(t) == {s \in Source : <<t, s>> \in on}
Pair(t, s) == [t |-> t, s |-> s]
Changing(t) == {s \in Sources(t) : Changes(Pair(t, s))}
Unclear(t) == Cardinality(Changing(t)) > 1 /\ \E s \in Changing(t) : Class(Pair(t, s)) = "action"

\* The row that decides about a target row, if any changes it.
Deciding(t) ==
    IF Sources(t) = {} THEN {r \in {Pair(t, NONE)} : Changes(r)} ELSE {Pair(t, s) : s \in Changing(t)}

Expected ==
    UNION {IF Deciding(t) = {} THEN {Old(t)}
           ELSE {Row(r) : r \in {x \in Deciding(t) : Operation(x) = "update"}} : t \in Target}
    \cup {Row(r) : r \in {x \in {Pair(NONE, s) : s \in {u \in Source : \A t \in Target : <<t, u>> \notin on}} :
                            Operation(x) = "insert"}}

\* Either a clause for matched rows is given, or no target row matches twice.
Validated == needs_duplicate_match_validation \/ \A t \in Target : Cardinality(Sources(t)) <= 1

\* A MERGE that succeeds leaves the table the statement describes, in whatever
\* order the join delivers its rows: each target row is changed by the first
\* clause that its source row satisfies and is there once, every unmatched source
\* row is inserted at most once, and nothing else is lost or duplicated, although
\* only files with a change are rewritten.
MergeIsExact ==
    result = "ok" /\ Validated =>
        /\ NewTable = Expected
        /\ \A q, r \in Written : q.t = r.t /\ q.t # NONE => q = r

\* The statement fails exactly when two source rows want to change one target row
\* and they are not both unconditional deletes, whichever of them comes first.
FailsIffUnclear ==
    /\ result = "error" => \E t \in Target : Unclear(t)
    /\ result = "ok" => \A t \in Target : ~Unclear(t)

\* A file is replaced exactly when one of its rows changes: one that is missed keeps
\* its old rows beside the new ones, one too many is rewritten for nothing.
OnlyChangedFilesRewritten ==
    /\ \A f \in survivors : \E t \in Target : FileOf[t] = f /\ Deciding(t) # {}
    /\ result = "ok" => \A t \in Target : Deciding(t) # {} => FileOf[t] \in survivors

\* The change data feed and the metrics say what happened to the table.
ReportsExact ==
    result = "ok" /\ Validated =>
        /\ ChangeData.deleted = {t \in Target : Old(t) \notin NewTable}
        /\ ChangeData.inserted = NewTable \ {Old(t) : t \in Target}
        /\ Counted("update") + Counted("delete") = Cardinality(ChangeData.deleted)
        /\ Counted("update") + Counted("insert") = Cardinality(ChangeData.inserted)
        /\ Counted("copy") = Cardinality({t \in Target : FileOf[t] \in survivors /\ Old(t) \in NewTable})

\* The expressions a predicate is made of by AND and OR, and those IN lists among
\* them that lose an item: one that cannot be generalized is left out of the list.
RECURSIVE Terms(_)
Terms(e) == IF e[1] \in {"and", "or"} THEN Terms(e[2]) \cup Terms(e[3]) ELSE {e}

LosesItem(e) ==
    LET g == generalize_filter(e, streaming)
    IN  e[1] = "in" /\ g # NONE /\ Len(g[3]) < Len(e[3])

\* Every target row that matches a source row passes the early filter, so that the
\* files MERGE skips hold no row it should have changed, and none whose absence
\* makes it insert a second one; and every row passes where the rows that match
\* nothing are changed too.  Except for a predicate with an IN list that loses an
\* item, which keeps only the matches of the other items, and except for a filter
\* of the caller's, who vouches for it.
FilterKeepsMatches ==
    filter # <<"none">> /\ result # "refused" /\ stmt.target_filter = NONE
    /\ (\A e \in Terms(predicate) : ~LosesItem(e)) =>
        \A t \in Rows :
            stmt.not_matched_by_source # << >> \/ (\E s \in source : Value(predicate, t, {s}) = 2)
                => Passes(filter, t, source)

\* The filter excludes something where it can: an equality between the source and
\* a partition column leaves only the partitions of the source.
FilterPrunesPartitions ==
    filter # <<"none">> /\ ~streaming /\ source # {}
    /\ stmt.target_filter = NONE /\ stmt.not_matched_by_source = << >>
    /\ predicate[1] = "eq" /\ {predicate[2], predicate[3]} = {<<"target", "p">>, <<"source", "y">>} =>
        \A t \in Rows : Passes(filter, t, source) => t.p \in {s.y : s \in source}
==============================================================================
