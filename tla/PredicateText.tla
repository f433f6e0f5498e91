--------------------------- MODULE PredicateText ---------------------------
(***************************************************************************)
(* The forms a predicate takes between the caller and the table: the       *)
(* caller's expression, with its literals coerced to the column types and  *)
(* simplified; the SQL text that is stored as a CHECK constraint or        *)
(* recorded as what a DELETE read, and parsed again by later writes and by *)
(* the conflict checker; and the kernel predicate that selects files.      *)
(*                                                                         *)
(* Numbers are counted in 1/Scale.  A column has type "int" or "dec" (a    *)
(* decimal whose last digit is worth 1/Scale).  Every file has one row, so *)
(* its statistics are exact.  Expressions are                              *)
(*   <<"col", c>>        <<"lit", type, v>>      <<"bin", op, l, r>>       *)
(*   <<"not", e>>        <<"null", e, negated>>  <<"in", e, list, negated>>*)
(*   <<"between", e, low, high, negated>>                                  *)
(***************************************************************************)
EXTENDS Integers, Sequences, FiniteSets

CONSTANTS
    NULL,
    NONE,
    Scale,
    Types,        \* column |-> "int" or "dec"
    Partitions,   \* the partition columns
    Rows,         \* rows a writer may add
    Checks,       \* expressions for ADD CONSTRAINT
    Conditions,   \* predicates of DELETE
    MaxRows       \* bound: rows in the table

VARIABLES
    rows,     \* the rows of the table, one file each
    check,    \* [expr, text] of the table's constraint, or NONE
    delete,   \* the DELETE under way: [expr, text, read], or NONE
    last      \* the DELETE the last step committed: [expr, before, after], or NONE

ptvars == <<rows, check, delete, last>>

Compare == {"=", "<>", "<", "<=", ">", ">="}
Opposite == [op \in Compare |->
    CASE op = "=" -> "<>" [] op = "<>" -> "=" [] op = "<" -> ">="
      [] op = ">=" -> "<" [] op = ">" -> "<=" [] op = "<=" -> ">"]
IsLit(e) == e[1] = "lit"

-----------------------------------------------------------------------------
(* What an expression means, with SQL's NULL.                              *)

Not3(v) == IF v = NULL THEN NULL ELSE ~v
And3(v, w) == IF v = FALSE \/ w = FALSE THEN FALSE ELSE IF v = NULL \/ w = NULL THEN NULL ELSE TRUE
Or3(v, w) == Not3(And3(Not3(v), Not3(w)))

Apply(op, v, w) ==
    CASE op = "AND" -> And3(v, w)
      [] op = "OR" -> Or3(v, w)
      [] OTHER ->
            IF v = NULL \/ w = NULL THEN NULL
            ELSE CASE op = "=" -> v = w [] op = "<>" -> v # w [] op = "<" -> v < w
                   [] op = "<=" -> v <= w [] op = ">" -> v > w [] op = ">=" -> v >= w
                   [] op = "+" -> v + w [] op = "-" -> v - w

RECURSIVE AnyEqual(_, _)
AnyEqual(v, values) ==
    IF values = << >> THEN FALSE ELSE Or3(Apply("=", v, Head(values)), AnyEqual(v, Tail(values)))

RECURSIVE Eval(_, _)
Eval(e, r) ==
    CASE e[1] = "col" -> r[e[2]]
      [] e[1] = "lit" -> e[3]
      [] e[1] = "bin" -> Apply(e[2], Eval(e[3], r), Eval(e[4], r))
      [] e[1] = "not" -> Not3(Eval(e[2], r))
      [] e[1] = "null" -> (Eval(e[2], r) = NULL) # e[3]
      [] e[1] = "in" ->
            LET v == AnyEqual(Eval(e[2], r), [i \in DOMAIN e[3] |-> e[3][i][3]])
            IN  IF e[4] THEN Not3(v) ELSE v
      [] e[1] = "between" ->
            LET v == Eval(e[2], r)
                in == And3(Apply(">=", v, Eval(e[3], r)), Apply("<=", v, Eval(e[4], r)))
            IN  IF e[5] THEN Not3(in) ELSE in

-----------------------------------------------------------------------------
(* Expression::resolve.                                                    *)

RECURSIVE get_type(_)
get_type(e) ==
    CASE e[1] = "col" -> Types[e[2]]
      [] e[1] = "lit" -> e[2]
      [] e[1] = "bin" /\ e[2] \in {"+", "-"} ->
            IF get_type(e[3]) = "int" /\ get_type(e[4]) = "int" THEN "int" ELSE "dec"
      [] OTHER -> "bool"

(* A cast of a number to an integer drops its fraction.                    *)
cast_to(ty, v) == IF ty = "int" /\ v # NULL THEN (v \div Scale) * Scale ELSE v
Coerced(e, ty) == IF IsLit(e) /\ e[2] # ty THEN <<"lit", ty, cast_to(ty, e[3])>> ELSE e

RECURSIVE coerce_predicate_literals(_)
coerce_predicate_literals(e) ==
    CASE e[1] = "bin" ->
            LET l == coerce_predicate_literals(e[3])
                r == coerce_predicate_literals(e[4])
            IN  CASE e[2] \notin Compare -> <<"bin", e[2], l, r>>
                  [] e[2] \in Compare /\ IsLit(r) -> <<"bin", e[2], l, Coerced(r, get_type(l))>>
                  [] OTHER -> <<"bin", e[2], Coerced(l, get_type(r)), r>>
      [] e[1] = "not" -> <<"not", coerce_predicate_literals(e[2])>>
      [] e[1] = "null" -> <<"null", coerce_predicate_literals(e[2]), e[3]>>
      [] e[1] = "in" ->
            <<"in", e[2], [i \in DOMAIN e[3] |-> Coerced(e[3][i], get_type(e[2]))], e[4]>>
      [] e[1] = "between" ->
            <<"between", e[2], Coerced(e[3], get_type(e[2])), Coerced(e[4], get_type(e[2])), e[5]>>
      [] OTHER -> e

(* DataFusion's ExprSimplifier: negations move to the leaves, BETWEEN and  *)
(* short IN lists of a column become comparisons.                          *)
InlineLimit == 3

RECURSIVE Chain(_, _, _, _)
Chain(junction, op, e, list) ==
    LET first == <<"bin", op, e, list[Len(list)]>>
    IN  IF Len(list) = 1 THEN first
        ELSE <<"bin", junction, Chain(junction, op, e, SubSeq(list, 1, Len(list) - 1)), first>>

RECURSIVE Negate(_)
Negate(e) ==
    CASE e[1] = "bin" /\ e[2] = "AND" -> <<"bin", "OR", Negate(e[3]), Negate(e[4])>>
      [] e[1] = "bin" /\ e[2] = "OR" -> <<"bin", "AND", Negate(e[3]), Negate(e[4])>>
      [] e[1] = "bin" /\ e[2] \in Compare -> <<"bin", Opposite[e[2]], e[3], e[4]>>
      [] e[1] = "null" -> <<"null", e[2], ~e[3]>>
      [] e[1] = "in" -> <<"in", e[2], e[3], ~e[4]>>
      [] e[1] = "not" -> e[2]
      [] OTHER -> <<"not", e>>

RECURSIVE Simplify(_)
Simplify(e) ==
    CASE e[1] = "bin" -> <<"bin", e[2], Simplify(e[3]), Simplify(e[4])>>
      [] e[1] = "not" -> Negate(Simplify(e[2]))
      [] e[1] = "null" -> <<"null", Simplify(e[2]), e[3]>>
      [] e[1] = "between" ->
            IF e[5] THEN <<"bin", "OR", <<"bin", "<", e[2], e[3]>>, <<"bin", ">", e[2], e[4]>>>>
            ELSE <<"bin", "AND", <<"bin", ">=", e[2], e[3]>>, <<"bin", "<=", e[2], e[4]>>>>
      [] e[1] = "in" /\ e[2][1] = "col" /\ Len(e[3]) \in 1 .. InlineLimit ->
            IF e[4] THEN Chain("AND", "<>", e[2], e[3]) ELSE Chain("OR", "=", e[2], e[3])
      [] OTHER -> e

resolve(e) == Simplify(coerce_predicate_literals(e))

-----------------------------------------------------------------------------
(* fmt_expr_to_sql: an expression as a sequence of tokens.                 *)

precedence(op) ==
    CASE op = "OR" -> 5 [] op = "AND" -> 10 [] op \in Compare -> 20 [] OTHER -> 30

(* ScalarValueFormat writes the unscaled digits of a decimal.              *)
ScalarValueFormat(ty, v) ==
    CASE v = NULL -> <<"NULL">>
      [] v # NULL /\ ty = "dec" -> <<"decimal", v>>
      [] v # NULL /\ ty = "int" -> <<"integer", v \div Scale>>
      [] OTHER -> <<"float", v>>

(* BinaryExprFormat puts a child of lower precedence in parentheses.       *)
InParentheses_mutant(op, child) == FALSE
InParentheses(op, child) == child[1] = "bin" /\ precedence(child[2]) < precedence(op)

RECURSIVE SqlFormat(_)
SqlFormat(e) ==
    LET Child(op, c) == IF InParentheses(op, c) THEN <<<<"(">>>> \o SqlFormat(c) \o <<<<")">>>> ELSE SqlFormat(c)
    IN  CASE e[1] = "col" -> <<e>>
          [] e[1] = "lit" -> <<ScalarValueFormat(e[2], e[3])>>
          [] e[1] = "bin" -> Child(e[2], e[3]) \o <<<<"op", e[2]>>>> \o Child(e[2], e[4])
          [] e[1] = "not" -> <<<<"NOT">>>> \o SqlFormat(e[2])
          [] e[1] = "null" -> SqlFormat(e[2]) \o <<<<"IS NULL", e[3]>>>>
          [] e[1] = "in" ->
                SqlFormat(e[2]) \o <<<<"IN", [i \in DOMAIN e[3] |-> ScalarValueFormat(e[3][i][2], e[3][i][3])], e[4]>>>>

(* parse_sql_expr: an operator takes the longest left operand that binds   *)
(* tighter; operators of one level group to the left.  A quoted number     *)
(* cast to a decimal is that number, whatever the scale.                   *)
Literal(t) ==
    CASE t[1] = "NULL" -> <<"lit", "int", NULL>>
      [] t[1] = "integer" -> <<"lit", "int", t[2] * Scale>>
      [] t[1] = "decimal" -> <<"lit", "dec", t[2] * Scale>>
      [] t[1] = "float" -> <<"lit", "float", t[2]>>

Binds(t) ==
    CASE t[1] = "op" -> precedence(t[2])
      [] t[1] = "IS NULL" -> 17
      [] t[1] = "IN" -> 20
      [] OTHER -> 0
NotBinds == 15

RECURSIVE ParseFrom(_, _, _), ParseRest(_, _, _, _)
ParseFrom(ts, i, min) ==
    LET t == ts[i]
        inner == ParseFrom(ts, i + 1, IF t[1] = "NOT" THEN NotBinds ELSE 0)
    IN  CASE t[1] = "NOT" -> ParseRest(<<"not", inner.expr>>, ts, inner.next, min)
          [] t[1] = "(" -> ParseRest(inner.expr, ts, inner.next + 1, min)
          [] t[1] = "col" -> ParseRest(t, ts, i + 1, min)
          [] OTHER -> ParseRest(Literal(t), ts, i + 1, min)
ParseRest(left, ts, i, min) ==
    IF i > Len(ts) \/ (i <= Len(ts) /\ Binds(ts[i]) <= min) THEN [expr |-> left, next |-> i]
    ELSE LET t == ts[i]
         IN  CASE t[1] = "IS NULL" -> ParseRest(<<"null", left, t[2]>>, ts, i + 1, min)
               [] t[1] = "IN" ->
                    ParseRest(<<"in", left, [k \in DOMAIN t[2] |-> Literal(t[2][k])], t[3]>>, ts, i + 1, min)
               [] OTHER ->
                    LET right == ParseFrom(ts, i + 1, Binds(t))
                    IN  ParseRest(<<"bin", t[2], left, right.expr>>, ts, right.next, min)

parse_predicate_expression(text) == ParseFrom(text, 1, 0).expr

-----------------------------------------------------------------------------
(* to_delta_predicate.  A kernel predicate is <<"junction", op, preds>>,   *)
(* <<"binary", op, l, r>>, <<"not", p>>, <<"is null", e>> or an expression.*)

AllValues(list) == \A i \in DOMAIN list : IsLit(list[i]) /\ list[i][3] # NULL
rewrite_in_list_expr_for_kernel_mutant(e) ==
    CASE Len(e[3]) > 0 /\ ~AllValues(e[3]) -> e
      [] Len(e[3]) > 0 /\ AllValues(e[3]) ->
            IF e[4] THEN Chain("OR", "<>", e[2], e[3]) ELSE Chain("OR", "=", e[2], e[3])
      [] OTHER -> <<"lit", "bool", e[4]>>
rewrite_in_list_expr_for_kernel(e) ==
    CASE Len(e[3]) > 0 /\ ~AllValues(e[3]) -> e
      [] Len(e[3]) > 0 /\ AllValues(e[3]) ->
            IF e[4] THEN Chain("AND", "<>", e[2], e[3]) ELSE Chain("OR", "=", e[2], e[3])
      [] OTHER -> <<"lit", "bool", e[4]>>

RECURSIVE normalize_delta_predicate_expr(_)
normalize_delta_predicate_expr(e) ==
    CASE e[1] = "bin" ->
            <<"bin", e[2], normalize_delta_predicate_expr(e[3]), normalize_delta_predicate_expr(e[4])>>
      [] e[1] = "not" -> <<"not", normalize_delta_predicate_expr(e[2])>>
      [] e[1] = "in" -> rewrite_in_list_expr_for_kernel(e)
      [] OTHER -> e

(* Whether the expression has a kernel form: an IN list that was not       *)
(* rewritten has none.                                                     *)
RECURSIVE Converts(_)
Converts(e) ==
    CASE e[1] = "bin" -> Converts(e[3]) /\ Converts(e[4])
      [] e[1] \in {"not", "null"} -> Converts(e[2])
      [] OTHER -> e[1] # "in"

Inverted_mutant(op) == CASE op = "<>" -> "=" [] op = "<=" -> "<" [] op = ">=" -> ">"
Inverted(op) == CASE op = "<>" -> "=" [] op = "<=" -> ">" [] op = ">=" -> "<"

(* Literals keep their value and change the name of their type.            *)
KernelTypes == [int |-> "integer", dec |-> "decimal", float |-> "double", bool |-> "boolean"]
datafusion_scalar_to_scalar(l) == <<"lit", KernelTypes[l[2]], l[3]>>
to_datafusion_scalar(k) == <<"lit", CHOOSE ty \in DOMAIN KernelTypes : KernelTypes[ty] = k[2], k[3]>>

RECURSIVE flatten_junction_expr(_, _)
flatten_junction_expr(e, op) ==
    IF e[1] = "bin" /\ e[2] = op
    THEN flatten_junction_expr(e[3], op) \o flatten_junction_expr(e[4], op)
    ELSE <<e>>

RECURSIVE to_delta_expression(_)
to_delta_expression(e) ==
    CASE e[1] = "bin" /\ e[2] \in {"AND", "OR"} ->
            LET terms == flatten_junction_expr(e, e[2])
            IN  <<"junction", e[2], [i \in DOMAIN terms |-> to_delta_expression(terms[i])]>>
      [] e[1] = "bin" /\ e[2] \in {"<>", "<=", ">="} ->
            <<"not", <<"binary", Inverted(e[2]), to_delta_expression(e[3]), to_delta_expression(e[4])>>>>
      [] e[1] = "bin" -> <<"binary", e[2], to_delta_expression(e[3]), to_delta_expression(e[4])>>
      [] e[1] = "not" -> <<"not", to_delta_expression(e[2])>>
      [] e[1] = "null" ->
            LET is_null == <<"is null", to_delta_expression(e[2])>>
            IN  IF e[3] THEN <<"not", is_null>> ELSE is_null
      [] e[1] = "between" ->
            LET v == to_delta_expression(e[2])
                outside == <<"junction", "OR", <<<<"binary", "<", v, to_delta_expression(e[3])>>,
                                                <<"binary", ">", v, to_delta_expression(e[4])>>>>>>
            IN  IF e[5] THEN outside ELSE <<"not", outside>>
      [] e[1] = "lit" -> datafusion_scalar_to_scalar(e)
      [] e[1] = "col" -> e

to_delta_predicate(e) == to_delta_expression(normalize_delta_predicate_expr(e))

(* to_datafusion_expr, back from the kernel's form.                        *)
RECURSIVE to_datafusion_expr(_), junction_to_df(_, _)
junction_to_df(op, preds) ==
    LET n == Len(preds)
    IN  IF n = 1 THEN to_datafusion_expr(preds[1])
        ELSE <<"bin", op, junction_to_df(op, SubSeq(preds, 1, n - 1)), to_datafusion_expr(preds[n])>>
to_datafusion_expr(k) ==
    CASE k[1] = "junction" -> junction_to_df(k[2], k[3])
      [] k[1] = "binary" -> <<"bin", k[2], to_datafusion_expr(k[3]), to_datafusion_expr(k[4])>>
      [] k[1] = "not" -> <<"not", to_datafusion_expr(k[2])>>
      [] k[1] = "is null" -> <<"null", to_datafusion_expr(k[2]), FALSE>>
      [] k[1] = "lit" -> to_datafusion_scalar(k)
      [] k[1] = "col" -> k

(* The kernel's own evaluation of a predicate for a file of one row.       *)
RECURSIVE KernelEval(_, _), KernelAll(_, _, _)
KernelAll(op, preds, r) ==
    IF Len(preds) = 1 THEN KernelEval(preds[1], r)
    ELSE Apply(op, KernelEval(Head(preds), r), KernelAll(op, Tail(preds), r))
KernelEval(k, r) ==
    CASE k[1] = "junction" -> KernelAll(k[2], k[3], r)
      [] k[1] = "binary" -> Apply(k[2], KernelEval(k[3], r), KernelEval(k[4], r))
      [] k[1] = "not" -> Not3(KernelEval(k[2], r))
      [] k[1] = "is null" -> KernelEval(k[2], r) = NULL
      [] k[1] = "col" -> r[k[2]]
      [] k[1] = "lit" -> k[3]

-----------------------------------------------------------------------------
(* The table.                                                              *)

RECURSIVE Columns(_)
Columns(e) ==
    CASE e[1] = "col" -> {e[2]}
      [] e[1] = "lit" -> {}
      [] e[1] = "bin" -> Columns(e[3]) \cup Columns(e[4])
      [] e[1] = "between" -> Columns(e[2]) \cup Columns(e[3]) \cup Columns(e[4])
      [] OTHER -> Columns(e[2])

(* DataValidationStream fails on a row whose check is false or NULL.       *)
Accepted(text, r) == Eval(parse_predicate_expression(text), r) = TRUE

AddConstraint(e) ==
    LET text == SqlFormat(resolve(e))
    IN  /\ check = NONE
        /\ \A r \in rows : Accepted(text, r)
        /\ check' = [expr |-> e, text |-> text]
        /\ last' = NONE
        /\ UNCHANGED <<rows, delete>>

Insert(r) ==
    /\ Cardinality(rows) < MaxRows
    /\ check # NONE => Accepted(check.text, r)
    /\ rows' = rows \cup {r}
    /\ last' = NONE
    /\ UNCHANGED <<check, delete>>

BeginDelete(e) ==
    /\ delete = NONE
    /\ delete' = [expr |-> e, text |-> SqlFormat(resolve(e)), read |-> rows]
    /\ last' = NONE
    /\ UNCHANGED <<rows, check>>

(* A term with a kernel form skips files; a predicate over partition       *)
(* columns alone is decided by the kernel for whole files.                 *)
Matched(e, read) ==
    LET p == resolve(e)
        terms == flatten_junction_expr(p, "AND")
        Selected(r) == \A i \in DOMAIN terms :
                         Converts(normalize_delta_predicate_expr(terms[i]))
                            => KernelEval(to_delta_predicate(terms[i]), r) = TRUE
    IN  IF Columns(p) \subseteq Partitions /\ Converts(normalize_delta_predicate_expr(p))
        THEN {r \in read : KernelEval(to_delta_predicate(p), r) = TRUE}
        ELSE {r \in read : Selected(r) /\ Eval(p, r) = TRUE}

(* The conflict checker parses what the DELETE recorded and looks for a    *)
(* match among the rows added since.                                       *)
Conflicting(text, added) == \E r \in added : Eval(parse_predicate_expression(text), r) = TRUE

CommitDelete ==
    /\ delete # NONE
    /\ delete' = NONE
    /\ IF Conflicting(delete.text, rows \ delete.read)
       THEN /\ last' = NONE
            /\ UNCHANGED rows
       ELSE /\ rows' = rows \ Matched(delete.expr, delete.read)
            /\ last' = [expr |-> delete.expr, before |-> rows, after |-> rows']
    /\ UNCHANGED check

Init ==
    /\ rows = {}
    /\ check = NONE
    /\ delete = NONE
    /\ last = NONE

Next ==
    \/ \E e \in Checks : AddConstraint(e)
    \/ \E r \in Rows : Insert(r)
    \/ \E e \in Conditions : BeginDelete(e)
    \/ CommitDelete

Spec == Init /\ [][Next]_ptvars

-----------------------------------------------------------------------------
(* A committed constraint holds, as the caller wrote it, for every row of  *)
(* the table: the text ConstraintBuilder stores in the table's metadata    *)
(* and later writers parse says what the caller's expression said.         *)
ConstraintHolds == check # NONE => \A r \in rows : Eval(check.expr, r) = TRUE

(* A DELETE that committed removed exactly the rows its predicate is true  *)
(* for, as the caller wrote it, those other writers added meanwhile        *)
(* included: files are selected by the kernel's form of the predicate,     *)
(* conflicts by the text in the commit.                                    *)
DeleteSerial ==
    last # NONE => last.after = {r \in last.before : Eval(last.expr, r) # TRUE}

(* The kernel's form of a predicate has the value DataFusion gives the     *)
(* predicate, NULL included, and converts back to one that does.           *)
KernelFormAgrees ==
    delete # NONE =>
        LET p == resolve(delete.expr)
            k == to_delta_predicate(p)
        IN  Converts(normalize_delta_predicate_expr(p)) =>
                \A r \in Rows : /\ KernelEval(k, r) = Eval(p, r)
                                /\ Eval(to_datafusion_expr(k), r) = Eval(p, r)
=============================================================================
